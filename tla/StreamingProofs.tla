-------------------------- MODULE StreamingProofs --------------------------
(***************************************************************************)
(* Proofs about the streams of a torrent, for any layout of files, piece   *)
(* length, window and buffer, and any number of streams.  That the offsets *)
(* and the total of a layout are sums is induction over data: what is used *)
(* of them is in StreamingAssumption.                                      *)
(***************************************************************************)
EXTENDS Streaming, WellFoundedInduction, TLAPS

-----------------------------------------------------------------------------
(* Pieces and bytes                                                        *)

LEMMA DivBounds ==
  ASSUME NEW a \in Int
  PROVE  /\ a \div PieceLen \in Int
         /\ (a \div PieceLen) * PieceLen <= a
         /\ a < (a \div PieceLen) * PieceLen + PieceLen
         /\ a % PieceLen = a - (a \div PieceLen) * PieceLen
  <1>1. PieceLen \in Int /\ PieceLen > 0
    BY PieceLenAssumption
  <1>2. (a \div PieceLen) * PieceLen <= a
    BY <1>1, Z3
  <1>3. a < (a \div PieceLen) * PieceLen + PieceLen
    BY <1>1, Z3
  <1>4. a % PieceLen = a - (a \div PieceLen) * PieceLen
    BY <1>1, Z3
  <1> QED BY <1>1, <1>2, <1>3, <1>4

LEMMA DivUnique ==
  ASSUME NEW a \in Int, NEW q \in Int, q * PieceLen <= a, a < q * PieceLen + PieceLen
  PROVE  a \div PieceLen = q
  BY PieceLenAssumption, Z3

LEMMA DivMono ==
  ASSUME NEW a \in Int, NEW b \in Int, a <= b
  PROVE  a \div PieceLen <= b \div PieceLen
  BY PieceLenAssumption, Z3

LEMMA DivNext ==
  ASSUME NEW a \in Int
  PROVE  (a + PieceLen) \div PieceLen = (a \div PieceLen) + 1
  BY PieceLenAssumption, Z3

LEMMA DivNat ==
  ASSUME NEW a \in Nat
  PROVE  a \div PieceLen \in Nat
  BY PieceLenAssumption, Z3

LEMMA MinOfTwo ==
  ASSUME NEW a \in Int, NEW b \in Int
  PROVE  Min({a, b}) = IF a <= b THEN a ELSE b
  BY DEF Min

LEMMA MinOfThree ==
  ASSUME NEW a \in Int, NEW b \in Int, NEW c \in Int
  PROVE  /\ Min({a, b, c}) \in {a, b, c}
         /\ Min({a, b, c}) <= a /\ Min({a, b, c}) <= b /\ Min({a, b, c}) <= c
  BY DEF Min

LEMMA MinOfNats ==
  ASSUME NEW T \in SUBSET Nat, T # {}
  PROVE  Min(T) \in T
  <1> DEFINE R == OpToRel(<, Nat)
  <1>1. IsWellFoundedOn(R, Nat)
    BY NatLessThanWellFounded
  <1>2. PICK x \in T : \A y \in T : <<y, x>> \notin R
    BY <1>1, WFMin
  <1>3. \A y \in T : ~(y < x)
    BY <1>2 DEF OpToRel
  <1>4. \A y \in T : x <= y
    BY <1>3
  <1> QED BY <1>4 DEF Min

-----------------------------------------------------------------------------
(* A stream in its file                                                    *)

LEMMA StreamType ==
  ASSUME TypeOK, NEW s \in Streams
  PROVE  /\ stream[s] \in StreamStates
         /\ stream[s].off \in Nat /\ stream[s].len \in Nat /\ stream[s].start \in Nat
         /\ stream[s].pos \in Nat /\ stream[s].gen \in Nat
         /\ AbsPos(s) \in Nat /\ CurrentPiece(s) \in Nat
  <1>1. /\ stream[s] \in StreamStates
        /\ stream[s].off \in Nat /\ stream[s].len \in Nat /\ stream[s].start \in Nat
        /\ stream[s].pos \in Nat /\ stream[s].gen \in Nat
    BY DEF TypeOK, StreamStates
  <1>2. AbsPos(s) \in Nat
    BY <1>1 DEF AbsPos
  <1>3. CurrentPiece(s) \in Nat
    BY <1>2, DivNat DEF CurrentPiece
  <1> QED BY <1>1, <1>2, <1>3

LEMMA QueueEndBounds ==
  ASSUME TypeOK, InBounds, NEW s \in Streams
  PROVE  /\ QueueEnd(s) \in Nat
         /\ AbsPos(s) <= QueueEnd(s)
         /\ stream[s].pos < stream[s].len => AbsPos(s) < QueueEnd(s)
         /\ QueueEnd(s) <= TotalLen(lens)
  <1>1. TotalLen(lens) \in Nat /\ Window \in Nat \ {0}
    BY StreamingAssumption DEF TypeOK
  <1>2. /\ stream[s].pos <= stream[s].len
        /\ stream[s].off + stream[s].len <= TotalLen(lens)
    BY DEF InBounds
  <1>3. Min({stream[s].pos + Window, stream[s].len}) =
           IF stream[s].pos + Window <= stream[s].len THEN stream[s].pos + Window ELSE stream[s].len
    <2>1. stream[s].pos + Window \in Int /\ stream[s].len \in Int
      BY <1>1, StreamType
    <2> QED BY <2>1, MinOfTwo
  <1> QED BY <1>1, <1>2, <1>3, StreamType DEF QueueEnd, AbsPos

(* The window of a stream: from the piece it is at, all of them pieces of  *)
(* the torrent, and not empty before the end of the file.                  *)
LEMMA QueueType ==
  ASSUME TypeOK, InBounds, NEW s \in Streams
  PROVE  /\ Queue(s) \in Seq(PiecesOf(lens))
         /\ stream[s].pos < stream[s].len => CurrentPiece(s) \in ToSet(Queue(s))
  <1> DEFINE first == CurrentPiece(s)
             last == CeilDiv(QueueEnd(s), PieceLen)
             all == CeilDiv(TotalLen(lens), PieceLen)
             n == last - first
  <1>1. /\ PieceLen \in Nat \ {0} /\ QueueEnd(s) \in Nat /\ AbsPos(s) \in Nat
        /\ TotalLen(lens) \in Nat /\ first \in Nat
        /\ AbsPos(s) <= QueueEnd(s) /\ QueueEnd(s) <= TotalLen(lens)
        /\ stream[s].pos < stream[s].len => AbsPos(s) < QueueEnd(s)
    BY PieceLenAssumption, StreamingAssumption, StreamType, QueueEndBounds DEF TypeOK
  <1>2. /\ last = (QueueEnd(s) + PieceLen - 1) \div PieceLen
        /\ all = (TotalLen(lens) + PieceLen - 1) \div PieceLen
        /\ first = AbsPos(s) \div PieceLen
    BY DEF CeilDiv, CurrentPiece
  <1>3. last \in Int /\ all \in Int
    <2>1. QueueEnd(s) + PieceLen - 1 \in Int /\ TotalLen(lens) + PieceLen - 1 \in Int
      BY <1>1
    <2> QED BY <1>2, <2>1, DivBounds
  <1>4. first <= last
    <2>1. AbsPos(s) <= QueueEnd(s) + PieceLen - 1 /\ QueueEnd(s) + PieceLen - 1 \in Int
      BY <1>1
    <2> QED BY <1>1, <1>2, <2>1, DivMono
  <1>5. last <= all
    <2>1. /\ QueueEnd(s) + PieceLen - 1 <= TotalLen(lens) + PieceLen - 1
          /\ QueueEnd(s) + PieceLen - 1 \in Int /\ TotalLen(lens) + PieceLen - 1 \in Int
      BY <1>1
    <2> QED BY <1>2, <2>1, DivMono
  <1>6. stream[s].pos < stream[s].len => first < last
    <2> SUFFICES ASSUME AbsPos(s) < QueueEnd(s) PROVE first < last
      BY <1>1
    <2>1. /\ AbsPos(s) + PieceLen <= QueueEnd(s) + PieceLen - 1
          /\ AbsPos(s) + PieceLen \in Int /\ QueueEnd(s) + PieceLen - 1 \in Int
      BY <1>1
    <2>2. (AbsPos(s) + PieceLen) \div PieceLen <= last
      BY <1>2, <2>1, DivMono
    <2>3. (AbsPos(s) + PieceLen) \div PieceLen = first + 1
      <3>1. (AbsPos(s) + PieceLen) \div PieceLen = (AbsPos(s) \div PieceLen) + 1
        <4>1. AbsPos(s) \in Int
          BY <1>1
        <4> QED BY <4>1, DivNext, Zenon
      <3> QED BY <1>2, <3>1, Zenon
    <2> QED BY <1>1, <1>3, <2>2, <2>3
  <1>7. PiecesOf(lens) = 0 .. all - 1
    BY DEF PiecesOf
  <1>8. Queue(s) = [k \in 1..n |-> first + k - 1]
    BY DEF Queue
  <1> HIDE DEF first, last, all
  <1>9. n \in Nat /\ \A k \in 1..n : first + k - 1 \in 0 .. all - 1
    BY <1>1, <1>3, <1>4, <1>5
  <1>10. Queue(s) \in Seq(PiecesOf(lens))
    <2>1. \A k \in 1..n : first + k - 1 \in PiecesOf(lens)
      BY <1>7, <1>9
    <2> HIDE DEF n
    <2> QED BY <1>8, <1>9, <2>1
  <1>11. ASSUME stream[s].pos < stream[s].len PROVE first \in ToSet(Queue(s))
    <2>1. 1 \in 1..n /\ first + 1 - 1 = first
      BY <1>1, <1>3, <1>6, <1>11
    <2>2. 1 \in DOMAIN Queue(s) /\ Queue(s)[1] = first
      BY <1>8, <2>1
    <2> QED BY <2>2 DEF ToSet
  <1> QED BY <1>10, <1>11 DEF first

(* poll_read reads at least one byte and none past the piece it checked or *)
(* the end of the file.                                                    *)
LEMMA ReadInPiece ==
  ASSUME TypeOK, InBounds, NEW s \in Streams, stream[s].pos < stream[s].len,
         NEW n, n = Min({BufLen, PieceRemaining(s), stream[s].len - stream[s].pos})
  PROVE  /\ n \in Nat \ {0}
         /\ stream[s].pos + n <= stream[s].len
         /\ \A i \in stream[s].pos .. stream[s].pos + n - 1 :
               (stream[s].off + i) \div PieceLen = CurrentPiece(s)
  <1> DEFINE c == CurrentPiece(s)
             a == AbsPos(s)
             t == TotalLen(lens)
             r == PieceRemaining(s)
  <1>1. /\ PieceLen \in Nat \ {0} /\ BufLen \in Nat \ {0} /\ t \in Nat
        /\ a \in Nat /\ c \in Nat /\ stream[s].pos \in Nat /\ stream[s].len \in Nat
        /\ stream[s].off \in Nat /\ a = stream[s].off + stream[s].pos
    BY PieceLenAssumption, StreamingAssumption, StreamType DEF TypeOK, AbsPos
  <1>2. a < t
    BY <1>1 DEF InBounds
  <1>3. c * PieceLen <= a /\ a < c * PieceLen + PieceLen /\ a % PieceLen = a - c * PieceLen
    <2>1. a \in Int /\ c = a \div PieceLen
      BY <1>1 DEF CurrentPiece
    <2> HIDE DEF a, c
    <2> QED BY <2>1, DivBounds
  <1>4. c * PieceLen \in Int
    BY <1>1
  <1> DEFINE m == c * PieceLen
  <1>5. PieceLength(lens, c) = IF PieceLen <= t - m THEN PieceLen ELSE t - m
    <2>1. PieceLen \in Int /\ t - m \in Int
      BY <1>1, <1>4
    <2> QED BY <2>1, MinOfTwo DEF PieceLength
  <1>6. r = PieceLength(lens, c) - (a - m)
    BY <1>3 DEF PieceRemaining
  <1> HIDE DEF m, a, c, t, r
  <1>7. r \in Int /\ r > 0 /\ r <= m + PieceLen - a
    BY <1>1, <1>2, <1>3, <1>4, <1>5, <1>6 DEF m
  <1>8. n \in Nat \ {0} /\ n <= r /\ n <= stream[s].len - stream[s].pos
    <2>1. BufLen \in Int /\ r \in Int /\ stream[s].len - stream[s].pos \in Int
      BY <1>1, <1>7
    <2>2. /\ n \in {BufLen, r, stream[s].len - stream[s].pos}
          /\ n <= r /\ n <= stream[s].len - stream[s].pos
      BY <2>1, MinOfThree DEF r
    <2> QED BY <1>1, <1>7, <2>2
  <1>9. ASSUME NEW i \in stream[s].pos .. stream[s].pos + n - 1
        PROVE  (stream[s].off + i) \div PieceLen = c
    <2>1. /\ stream[s].off + i \in Int
          /\ c * PieceLen <= stream[s].off + i /\ stream[s].off + i < c * PieceLen + PieceLen
      BY <1>1, <1>3, <1>4, <1>7, <1>8 DEF m
    <2>2. c \in Int
      BY <1>1
    <2> QED BY <2>1, <2>2, DivUnique
  <1>10. stream[s].pos + n <= stream[s].len
    BY <1>1, <1>8
  <1> QED BY <1>8, <1>9, <1>10 DEF c

-----------------------------------------------------------------------------
(* Steps that change a stream, and steps that do not                       *)

(* The position of a stream and what is derived from it.                   *)
LEMMA SamePlace ==
  ASSUME NEW s, lens' = lens, stream'[s].off = stream[s].off,
         stream'[s].len = stream[s].len, stream'[s].pos = stream[s].pos
  PROVE  AbsPos(s)' = AbsPos(s) /\ CurrentPiece(s)' = CurrentPiece(s) /\ Queue(s)' = Queue(s)
  BY DEF AbsPos, CurrentPiece, Queue, QueueEnd

(* Streams that are left alone while pieces are had, woken or missed.      *)
LEMMA StreamsKept ==
  ASSUME TypeOK, InBounds, SentVerified, UNCHANGED <<lens, stream>>,
         gen' \in Nat, gen <= gen', have \subseteq have'
  PROVE  InBounds' /\ SentVerified'
  <1>1. InBounds'
    BY StreamType DEF InBounds, TypeOK
  <1>2. SentVerified'
    BY DEF SentVerified
  <1> QED BY <1>1, <1>2

(* One stream moves on to r while the others and all pieces stay.          *)
LEMMA OneStream ==
  ASSUME IndInv, NEW s \in Streams, NEW r \in StreamStates,
         stream' = [stream EXCEPT ![s] = r],
         UNCHANGED <<lens, state, gen, have, waking, missed>>,
         r.start <= r.pos, r.pos <= r.len, r.off + r.len <= TotalLen(lens), r.gen <= gen,
         r.st = "pending" => /\ r.waker /\ r.pos < r.len /\ CurrentPiece(s) \notin have
                             /\ r.off = stream[s].off /\ r.len = stream[s].len
                             /\ r.pos = stream[s].pos,
         \A i \in r.start .. r.pos - 1 : (r.off + i) \div PieceLen \in have
  PROVE  IndInv'
  <1> USE DEF IndInv
  <1>1. stream'[s] = r /\ \A x \in Streams \ {s} : stream'[x] = stream[x]
    BY DEF TypeOK
  <1>2. TypeOK'
    BY DEF TypeOK
  <1>3. InBounds'
    BY <1>1 DEF InBounds
  <1>4. SentVerified'
    BY <1>1 DEF SentVerified
  <1>5. WakeComes'
    <2> SUFFICES ASSUME NEW x \in Streams, stream'[x].st = "pending", stream'[x].gen = gen
                 PROVE  \/ CurrentPiece(x)' \notin have /\ CurrentPiece(x)' \in ToSet(Queue(x)')
                        \/ CurrentPiece(x)' \in waking \cup missed
      BY DEF WakeComes
    <2>1. CASE x = s
      <3>1. /\ stream[s].pos < stream[s].len /\ CurrentPiece(s) \notin have
            /\ stream'[s].off = stream[s].off /\ stream'[s].len = stream[s].len
            /\ stream'[s].pos = stream[s].pos
        BY <1>1, <2>1
      <3>2. CurrentPiece(s)' = CurrentPiece(s) /\ Queue(s)' = Queue(s)
        BY <3>1, SamePlace
      <3>3. CurrentPiece(s) \in ToSet(Queue(s))
        BY <3>1, QueueType
      <3> QED BY <2>1, <3>1, <3>2, <3>3
    <2>2. CASE x # s
      <3>1. stream'[x] = stream[x]
        BY <1>1, <2>2
      <3>2. CurrentPiece(x)' = CurrentPiece(x) /\ Queue(x)' = Queue(x)
        BY <3>1, SamePlace
      <3> QED BY <3>1, <3>2 DEF WakeComes
    <2> QED BY <2>1, <2>2
  <1> QED BY <1>2, <1>3, <1>4, <1>5

-----------------------------------------------------------------------------
(* One lemma per action                                                    *)

LEMMA InitInv == Init => IndInv
  <1> SUFFICES ASSUME Init PROVE IndInv
    OBVIOUS
  <1>1. lens \in Layouts /\ TotalLen(lens) \in Nat
    BY StreamingAssumption DEF Init
  <1>2. \A s \in Streams : stream[s] = Closed
    BY DEF Init
  <1>3. TypeOK
    BY <1>1 DEF Init, TypeOK, Closed, StreamStates
  <1>4. InBounds
    BY <1>1, <1>2 DEF Init, InBounds, Closed
  <1>5. SentVerified
    BY <1>2 DEF SentVerified, Closed
  <1>6. WakeComes
    BY <1>2 DEF WakeComes, Closed
  <1> QED BY <1>3, <1>4, <1>5, <1>6 DEF IndInv

(* The streams ask for pieces of the torrent only.                         *)
LEMMA NextPiecesType ==
  ASSUME TypeOK, InBounds
  PROVE  NextPieces \subseteq PiecesOf(lens)
  <1> DEFINE queues == {Queue(s) : s \in Entries}
             missing(k) == {q[k] : q \in {r \in queues : k <= Len(r)}} \ have
             rounds == {k \in 1..Window : missing(k) # {}}
  <1>1. queues \subseteq Seq(PiecesOf(lens))
    BY QueueType DEF Entries
  <1>2. \A k \in Nat \ {0} : missing(k) \subseteq PiecesOf(lens)
    <2> HIDE DEF queues
    <2>1. \A k \in Nat \ {0} : \A q \in queues : k <= Len(q) => q[k] \in PiecesOf(lens)
      BY <1>1
    <2> QED BY <2>1
  <1>3. NextPieces = IF rounds = {} THEN {} ELSE missing(Min(rounds))
    BY DEF NextPieces
  <1>4. rounds \in SUBSET Nat /\ 0 \notin rounds
    BY StreamingAssumption
  <1> HIDE DEF rounds, missing
  <1>5. rounds # {} => Min(rounds) \in Nat \ {0}
    BY <1>4, MinOfNats
  <1> QED BY <1>2, <1>3, <1>5

LEMMA PieceDownloadedInv ==
  ASSUME IndInv, PieceDownloaded
  PROVE  IndInv'
  <1> USE DEF IndInv
  <1>1. PICK p \in PiecesOf(lens) :
            /\ have' = have \cup {p} /\ waking' = waking \cup {p}
            /\ UNCHANGED <<lens, state, gen, stream, missed>>
    BY NextPiecesType DEF PieceDownloaded
  <1>2. TypeOK'
    BY <1>1 DEF TypeOK
  <1>3. InBounds' /\ SentVerified'
    BY <1>1, StreamsKept DEF TypeOK
  <1>4. WakeComes'
    <2> SUFFICES ASSUME NEW s \in Streams, stream[s].st = "pending", stream[s].gen = gen
                 PROVE  \/ CurrentPiece(s)' \notin have' /\ CurrentPiece(s)' \in ToSet(Queue(s)')
                        \/ CurrentPiece(s)' \in waking' \cup missed'
      BY <1>1 DEF WakeComes
    <2>1. CurrentPiece(s)' = CurrentPiece(s) /\ Queue(s)' = Queue(s)
      BY <1>1, SamePlace
    <2> QED BY <1>1, <2>1 DEF WakeComes
  <1> QED BY <1>2, <1>3, <1>4

(* The streams whose position is in the piece are woken, so that none of   *)
(* those that still wait needs the wake that is over.                      *)
LEMMA OnPieceCompletedInv ==
  ASSUME IndInv, NEW p \in waking, OnPieceCompleted(p)
  PROVE  IndInv'
  <1> USE DEF IndInv
  <1>1. /\ waking' = waking \ {p} /\ stream' = WakeStreams(p)
        /\ UNCHANGED <<lens, state, gen, have, missed>>
    BY DEF OnPieceCompleted
  <1>2. ASSUME NEW s \in Streams
        PROVE  /\ stream'[s] \in StreamStates
               /\ stream'[s].off = stream[s].off /\ stream'[s].len = stream[s].len
               /\ stream'[s].pos = stream[s].pos /\ stream'[s].start = stream[s].start
               /\ stream'[s].gen = stream[s].gen
               /\ stream'[s].st = "pending" => stream'[s] = stream[s]
               /\ stream[s].st = "pending" /\ stream[s].gen = gen /\ CurrentPiece(s) = p =>
                     stream'[s].st = "ready"
    <2>1. stream[s] \in StreamStates
      BY DEF TypeOK
    <2>2. stream'[s] \in {stream[s], [stream[s] EXCEPT !.waker = FALSE, !.st = "ready"]}
      BY <1>1 DEF WakeStreams
    <2>3. stream[s].st = "pending" => Open(s) /\ stream[s].waker
      BY DEF InBounds, Open
    <2>4. stream[s].st = "pending" /\ stream[s].gen = gen /\ CurrentPiece(s) = p =>
             stream'[s] = [stream[s] EXCEPT !.waker = FALSE, !.st = "ready"]
      BY <1>1, <2>3 DEF WakeStreams
    <2> QED BY <2>1, <2>2, <2>4 DEF StreamStates
  <1>3. TypeOK'
    <2>1. stream' \in [Streams -> StreamStates]
      BY <1>1, <1>2 DEF WakeStreams
    <2> QED BY <1>1, <2>1 DEF TypeOK
  <1>4. InBounds'
    BY <1>1, <1>2 DEF InBounds
  <1>5. SentVerified'
    BY <1>1, <1>2 DEF SentVerified
  <1>6. WakeComes'
    <2> SUFFICES ASSUME NEW s \in Streams, stream'[s].st = "pending", stream'[s].gen = gen
                 PROVE  \/ CurrentPiece(s)' \notin have /\ CurrentPiece(s)' \in ToSet(Queue(s)')
                        \/ CurrentPiece(s)' \in waking' \cup missed
      BY <1>1 DEF WakeComes
    <2>1. stream[s].st = "pending" /\ stream[s].gen = gen /\ CurrentPiece(s) # p
      BY <1>2
    <2>2. CurrentPiece(s)' = CurrentPiece(s) /\ Queue(s)' = Queue(s)
      BY <1>1, <1>2, SamePlace
    <2> QED BY <1>1, <2>1, <2>2 DEF WakeComes
  <1> QED BY <1>3, <1>4, <1>5, <1>6

LEMMA StreamFileInv ==
  ASSUME IndInv, NEW s \in Streams, NEW f \in DOMAIN lens, NEW start \in 0 .. lens[f] + 1,
         StreamFile(s, f, start)
  PROVE  IndInv'
  <1> USE DEF IndInv
  <1> DEFINE r == [Closed EXCEPT !.st = "ready", !.off = FileOffset(lens, f), !.len = lens[f],
                                 !.start = start, !.pos = start, !.gen = gen]
  <1>1. /\ stream' = [stream EXCEPT ![s] = r] /\ start <= lens[f]
        /\ UNCHANGED <<lens, state, gen, have, waking, missed>>
    BY DEF StreamFile, SeekOk
  <1>2. /\ lens[f] \in Nat /\ FileOffset(lens, f) \in Nat
        /\ FileOffset(lens, f) + lens[f] <= TotalLen(lens)
        /\ start \in Nat /\ gen \in Nat
    <2>1. lens \in Seq(Nat) /\ FileOffset(lens, f) \in Nat /\ FileOffset(lens, f) + lens[f] <= TotalLen(lens)
      BY StreamingAssumption DEF TypeOK
    <2>2. lens[f] \in Nat
      BY <2>1
    <2> QED BY <2>1, <2>2 DEF TypeOK
  <1>3. /\ r \in StreamStates /\ r.st = "ready" /\ r.start = start /\ r.pos = start
        /\ r.len = lens[f] /\ r.off = FileOffset(lens, f) /\ r.gen = gen
    BY <1>2 DEF Closed, StreamStates
  <1> HIDE DEF r
  <1>4. /\ r.start <= r.pos /\ r.pos <= r.len /\ r.off + r.len <= TotalLen(lens) /\ r.gen <= gen
        /\ r.st # "pending"
        /\ \A i \in r.start .. r.pos - 1 : (r.off + i) \div PieceLen \in have
    BY <1>1, <1>2, <1>3
  <1> QED BY <1>1, <1>3, <1>4, OneStream

LEMMA PollEofInv ==
  ASSUME IndInv, NEW s \in Streams, PollEof(s)
  PROVE  IndInv'
  <1> USE DEF IndInv
  <1> DEFINE r == [stream[s] EXCEPT !.st = "eof"]
  <1>1. /\ stream' = [stream EXCEPT ![s] = r]
        /\ UNCHANGED <<lens, state, gen, have, waking, missed>>
    BY DEF PollEof
  <1>2. /\ r \in StreamStates /\ r.st = "eof" /\ r.start = stream[s].start /\ r.pos = stream[s].pos
        /\ r.len = stream[s].len /\ r.off = stream[s].off /\ r.gen = stream[s].gen
    BY DEF TypeOK, StreamStates
  <1> HIDE DEF r
  <1>3. /\ r.start <= r.pos /\ r.pos <= r.len /\ r.off + r.len <= TotalLen(lens) /\ r.gen <= gen
        /\ r.st # "pending"
        /\ \A i \in r.start .. r.pos - 1 : (r.off + i) \div PieceLen \in have
    <2>1. \A i \in stream[s].start .. stream[s].pos - 1 : (stream[s].off + i) \div PieceLen \in have
      BY DEF SentVerified
    <2>2. \A i \in r.start .. r.pos - 1 : (r.off + i) \div PieceLen \in have
      BY <1>2, <2>1, Zenon
    <2> QED BY <1>2, <2>2 DEF InBounds
  <1> QED BY <1>1, <1>2, <1>3, OneStream

LEMMA PollReadInv ==
  ASSUME IndInv, NEW s \in Streams, PollRead(s)
  PROVE  IndInv'
  <1> USE DEF IndInv
  <1> DEFINE n == Min({BufLen, PieceRemaining(s), stream[s].len - stream[s].pos})
  <1>1. /\ stream[s].pos < stream[s].len
        /\ UNCHANGED <<lens, state, gen, have, waking, missed>>
        /\ \/ stream' = [stream EXCEPT ![s] = [stream[s] EXCEPT !.st = "failed"]]
           \/ /\ CurrentPiece(s) \notin have
              /\ stream' = [stream EXCEPT ![s] = RegisterWaker(stream[s])]
           \/ /\ CurrentPiece(s) \in have
              /\ stream' = [stream EXCEPT ![s] = Advance(stream[s], n)]
    <2>1. /\ stream[s].pos < stream[s].len
          /\ UNCHANGED <<lens, state, gen, have, waking, missed>>
          /\ stream' = [stream EXCEPT ![s] =
                CASE ~HasStorage -> [stream[s] EXCEPT !.st = "failed"]
                  [] HasStorage /\ CurrentPiece(s) \notin have -> RegisterWaker(stream[s])
                  [] OTHER -> Advance(stream[s], n)]
      BY DEF PollRead
    <2> HIDE DEF n
    <2>2. CASE ~HasStorage
      BY <2>1, <2>2
    <2>3. CASE HasStorage /\ CurrentPiece(s) \notin have
      BY <2>1, <2>3
    <2>4. CASE HasStorage /\ CurrentPiece(s) \in have
      BY <2>1, <2>4
    <2> QED BY <2>2, <2>3, <2>4
  <1>2. /\ n \in Nat \ {0} /\ stream[s].pos + n <= stream[s].len
        /\ \A i \in stream[s].pos .. stream[s].pos + n - 1 :
              (stream[s].off + i) \div PieceLen = CurrentPiece(s)
    <2>1. stream[s].pos < stream[s].len /\ TypeOK /\ InBounds
      BY <1>1
    <2> QED BY <2>1, ReadInPiece
  <1> HIDE DEF n
  <1>3. /\ stream[s] \in StreamStates /\ stream[s].pos \in Nat /\ stream[s].start \in Nat
        /\ stream[s].len \in Nat
        /\ stream[s].start <= stream[s].pos /\ stream[s].pos <= stream[s].len
        /\ stream[s].off + stream[s].len <= TotalLen(lens) /\ stream[s].gen <= gen
        /\ stream[s].st = "ready"
        /\ \A i \in stream[s].start .. stream[s].pos - 1 : (stream[s].off + i) \div PieceLen \in have
    <2>1. /\ stream[s] \in StreamStates /\ stream[s].pos \in Nat /\ stream[s].start \in Nat
          /\ stream[s].len \in Nat
      BY StreamType
    <2>2. stream[s].st = "ready"
      BY DEF PollRead
    <2>3. \A i \in stream[s].start .. stream[s].pos - 1 : (stream[s].off + i) \div PieceLen \in have
      BY DEF SentVerified
    <2> QED BY <2>1, <2>2, <2>3 DEF InBounds
  <1>4. CASE stream' = [stream EXCEPT ![s] = [stream[s] EXCEPT !.st = "failed"]]
    <2> DEFINE r == [stream[s] EXCEPT !.st = "failed"]
    <2>1. /\ r \in StreamStates /\ r.st = "failed" /\ r.start = stream[s].start
          /\ r.pos = stream[s].pos /\ r.len = stream[s].len /\ r.off = stream[s].off
          /\ r.gen = stream[s].gen
      BY <1>3 DEF StreamStates
    <2> HIDE DEF r
    <2> QED BY <1>1, <1>3, <1>4, <2>1, OneStream DEF r
  <1>5. CASE /\ CurrentPiece(s) \notin have
             /\ stream' = [stream EXCEPT ![s] = RegisterWaker(stream[s])]
    <2> DEFINE r == RegisterWaker(stream[s])
    <2>1. /\ r \in StreamStates /\ r.st = "pending" /\ r.waker /\ r.start = stream[s].start
          /\ r.pos = stream[s].pos /\ r.len = stream[s].len /\ r.off = stream[s].off
          /\ r.gen = stream[s].gen
      BY <1>3 DEF StreamStates, RegisterWaker
    <2> HIDE DEF r
    <2> QED BY <1>1, <1>3, <1>5, <2>1, OneStream DEF r
  <1>6. CASE /\ CurrentPiece(s) \in have
             /\ stream' = [stream EXCEPT ![s] = Advance(stream[s], n)]
    <2> DEFINE r == Advance(stream[s], n)
    <2>1. /\ r \in StreamStates /\ r.st = "ready" /\ r.start = stream[s].start
          /\ r.pos = stream[s].pos + n /\ r.len = stream[s].len /\ r.off = stream[s].off
          /\ r.gen = stream[s].gen
      <3>1. stream[s].pos + n \in Nat
        BY <1>2, <1>3
      <3> QED BY <1>3, <3>1 DEF StreamStates, Advance
    <2> HIDE DEF r
    <2>2. \A i \in r.start .. r.pos - 1 : (r.off + i) \div PieceLen \in have
      <3>1. ASSUME NEW i \in stream[s].start .. stream[s].pos + n - 1
            PROVE  (stream[s].off + i) \div PieceLen \in have
        <4>1. \/ i \in stream[s].start .. stream[s].pos - 1
              \/ i \in stream[s].pos .. stream[s].pos + n - 1
          BY <1>2, <1>3
        <4> QED BY <1>2, <1>3, <1>6, <4>1
      <3> TAKE i \in r.start .. r.pos - 1
      <3>2. i \in stream[s].start .. stream[s].pos + n - 1 /\ r.off = stream[s].off
        BY <1>2, <1>3, <2>1
      <3> QED BY <3>1, <3>2
    <2>3. r.start <= r.pos /\ r.pos <= r.len
      BY <1>2, <1>3, <2>1
    <2> QED BY <1>1, <1>3, <1>6, <2>1, <2>2, <2>3, OneStream DEF r
  <1> QED BY <1>1, <1>4, <1>5, <1>6

LEMMA DropStreamInv ==
  ASSUME IndInv, NEW s \in Streams, DropStream(s)
  PROVE  IndInv'
  <1> USE DEF IndInv
  <1>1. /\ stream' = [stream EXCEPT ![s] = Closed]
        /\ UNCHANGED <<lens, state, gen, have, waking, missed>>
    BY DEF DropStream
  <1>2. TotalLen(lens) \in Nat /\ gen \in Nat
    BY StreamingAssumption DEF TypeOK
  <1>3. /\ Closed \in StreamStates /\ Closed.st # "pending"
        /\ Closed.start <= Closed.pos /\ Closed.pos <= Closed.len
        /\ Closed.off + Closed.len <= TotalLen(lens) /\ Closed.gen <= gen
        /\ \A i \in Closed.start .. Closed.pos - 1 : (Closed.off + i) \div PieceLen \in have
    BY <1>2 DEF Closed, StreamStates
  <1> QED BY <1>1, <1>3, OneStream

(* What becomes of the torrent: the wakes that were on the way are missed, *)
(* the streams of the old table are not of the new one.                    *)
LEMMA TorrentInv ==
  ASSUME IndInv, Pause \/ Unpause \/ Fail \/ StartAgain
  PROVE  IndInv'
  <1> USE DEF IndInv
  <1>1. /\ UNCHANGED <<lens, have, stream>>
        /\ state' \in {"live", "paused", "error"}
        /\ waking' \subseteq waking /\ waking' \cup missed' = waking \cup missed
        /\ gen' \in {gen, gen + 1}
    BY DEF Pause, Unpause, Fail, StartAgain
  <1>2. gen' \in Nat /\ gen <= gen'
    BY <1>1 DEF TypeOK
  <1>3. TypeOK'
    BY <1>1, <1>2 DEF TypeOK
  <1>4. InBounds' /\ SentVerified'
    BY <1>1, <1>2, StreamsKept
  <1>5. WakeComes'
    <2> SUFFICES ASSUME NEW s \in Streams, stream[s].st = "pending", stream[s].gen = gen'
                 PROVE  \/ CurrentPiece(s)' \notin have /\ CurrentPiece(s)' \in ToSet(Queue(s)')
                        \/ CurrentPiece(s)' \in waking' \cup missed'
      BY <1>1 DEF WakeComes
    <2>1. gen' = gen
      <3>1. stream[s].gen <= gen /\ gen \in Nat
        BY DEF InBounds, TypeOK
      <3> QED BY <1>1, <3>1
    <2>2. CurrentPiece(s)' = CurrentPiece(s) /\ Queue(s)' = Queue(s)
      BY <1>1, SamePlace
    <2> QED BY <1>1, <2>1, <2>2 DEF WakeComes
  <1> QED BY <1>3, <1>4, <1>5

LEMMA NextInv == IndInv /\ [Next]_vars => IndInv'
  <1> SUFFICES ASSUME IndInv, [Next]_vars PROVE IndInv'
    OBVIOUS
  <1>1. CASE \E s \in Streams : \E f \in DOMAIN lens : \E start \in 0 .. lens[f] + 1 : StreamFile(s, f, start)
    BY <1>1, StreamFileInv
  <1>2. CASE UNCHANGED vars
    <2> USE DEF vars, IndInv
    <2>1. \A s \in Streams : CurrentPiece(s)' = CurrentPiece(s) /\ Queue(s)' = Queue(s)
      BY <1>2, SamePlace
    <2>2. WakeComes'
      BY <1>2, <2>1 DEF WakeComes
    <2>3. TypeOK'
      BY <1>2 DEF TypeOK
    <2> QED BY <1>2, <2>2, <2>3, StreamsKept DEF TypeOK
  <1> QED BY <1>1, <1>2, PieceDownloadedInv, OnPieceCompletedInv, PollReadInv, PollEofInv,
             DropStreamInv, TorrentInv DEF Next, Reads

-----------------------------------------------------------------------------

(* A stream stays inside its file, reads at least a byte when it reads,    *)
(* and waits only before the end of the file and with a waker.             *)
THEOREM Invariance == Spec => []IndInv
  BY InitInv, NextInv, PTL DEF Spec

(* No byte is sent to a client that is not of a verified piece, for any    *)
(* layout of files over pieces, buffer and range.                          *)
THEOREM OnlyVerifiedIsSent == Spec => []SentVerified
  <1>1. IndInv => SentVerified
    BY DEF IndInv
  <1> QED BY <1>1, Invariance, PTL

(* No wake is lost between the check of a piece and the registration of    *)
(* the waker: a stream that waits is asking for its piece or about to be   *)
(* woken, but for pauses and errors.                                       *)
THEOREM NoWakeLost == Spec => []WakeComes
  <1>1. IndInv => WakeComes
    BY DEF IndInv
  <1> QED BY <1>1, Invariance, PTL
=============================================================================
