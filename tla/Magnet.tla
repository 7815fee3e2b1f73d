------------------------------- MODULE Magnet -------------------------------
(***************************************************************************)
(* How librqbit turns a magnet into a torrent: addresses come from the DHT *)
(* and the trackers, each one is asked for the metadata over a connection  *)
(* of its own, at most Permits at a time, and the first that delivers it   *)
(* wins (dht_utils.rs, peer_info_reader, peer_connection.rs).              *)
(* Peers keep to the protocol's order: they answer what they were asked.   *)
(***************************************************************************)
EXTENDS Integers, SequencesExt, FiniteSetsExt

CONSTANTS
    Peers,
    Kind,        \* "honest" answers, "chatty" talks and never answers, "bad" may do anything
    Permits,     \* of the semaphore
    ChunkSize,
    TrueSize,    \* of the metadata the magnet names
    Sizes,       \* metadata sizes a bad peer may claim
    MaxMetadata, \* 32 MiB
    MaxRepeats,  \* bound: extended handshakes sent a second time
    MaxDup       \* bound: addresses the stream gives again

ASSUME MagnetAssumption ==
    /\ Kind \in [Peers -> {"honest", "chatty", "bad"}]
    /\ Permits \in Nat \ {0} /\ ChunkSize \in Nat \ {0}
    /\ MaxMetadata \in Nat /\ TrueSize \in 1..MaxMetadata /\ Sizes \subseteq Nat

VARIABLES
    coming,     \* addresses the stream has yet to give
    completed,  \* addrs_completed
    seen,
    conn,       \* where each connection stands
    inner,      \* HandlerLocked of each connection, or None
    info,       \* what each connection has put into result_tx, or None
    out,        \* outgoing_chan: the metadata requests to be written
    asked,      \* requests the peer has and did not answer
    result,     \* of read_metainfo_from_peer_receiver
    repeats,    \* peers that sent a second extended handshake
    dups

magnetVars == <<coming, completed, seen, conn, inner, info, out, asked, result, repeats, dups>>

None == [size |-> -1, got |-> {}, good |-> FALSE]

MagnetInit ==
    /\ coming = Peers
    /\ completed = FALSE
    /\ seen = {}
    /\ conn = [p \in Peers |-> "none"]
    /\ inner = [p \in Peers |-> None]
    /\ info = [p \in Peers |-> None]
    /\ out = [p \in Peers |-> <<>>]
    /\ asked = [p \in Peers |-> <<>>]
    /\ result = "none"
    /\ repeats = {}
    /\ dups = 0

Searching == result = "none"
(* Mutant: the token of a connection that failed is not given back.        *)
HoldingForever == {p \in seen : conn[p] # "queued"}

Holding == {p \in Peers : conn[p] \in {"connecting", "handshake", "open", "sent"}}
Unordered == {p \in Peers : conn[p] # "none"}

-----------------------------------------------------------------------------
(* The loop of read_metainfo_from_peer_receiver.                           *)

(* make_peer_rx: the DHT, the trackers and the initial peers, merged, so   *)
(* that an address may come more than once.                                *)
PeerRx(p) ==
    \/ p \in coming /\ UNCHANGED dups
    \/ p \notin coming /\ dups < MaxDup /\ dups' = dups + 1

NextAddr(p) ==
    /\ Searching /\ ~completed
    /\ PeerRx(p)
    /\ coming' = coming \ {p}
    /\ seen' = seen \cup {p}
    /\ conn' = IF p \in seen THEN conn ELSE [conn EXCEPT ![p] = "queued"]
    /\ UNCHANGED <<completed, inner, info, out, asked, result, repeats>>

AddrsCompleted ==
    /\ Searching /\ ~completed /\ coming = {}
    /\ completed' = TRUE
    /\ UNCHANGED <<coming, seen, conn, inner, info, out, asked, result, repeats, dups>>

(* resolve_magnet returns.                                                 *)
ResolveMagnet(what) == result' = what

ChannelClosed ==
    /\ Searching /\ completed /\ Unordered = {}
    /\ ResolveMagnet("closed")
    /\ UNCHANGED <<coming, completed, seen, conn, inner, info, out, asked, repeats, dups>>

(* unordered.next() with a result: every other connection is dropped.      *)
Found(p) ==
    /\ Searching /\ conn[p] = "sent"
    /\ ResolveMagnet("found")
    /\ conn' = [q \in Peers |-> "none"]
    /\ UNCHANGED <<coming, completed, seen, inner, info, out, asked, repeats, dups>>

Fail(p) == conn' = [conn EXCEPT ![p] = "none"]

-----------------------------------------------------------------------------
(* manage_peer_outgoing: the permit, the connection, the two handshakes.   *)
Acquire(p) ==
    /\ Searching /\ conn[p] = "queued"
    /\ Cardinality(Holding) < Permits
    /\ conn' = [conn EXCEPT ![p] = "connecting"]
    /\ UNCHANGED <<coming, completed, seen, inner, info, out, asked, result, repeats, dups>>

Connect(p) ==
    /\ Searching /\ conn[p] = "connecting"
    /\ conn' = [conn EXCEPT ![p] = "handshake"]
    /\ UNCHANGED <<coming, completed, seen, inner, info, out, asked, result, repeats, dups>>

(* manage_peer: our extended handshake is sent, writer and reader start.   *)
ManagePeer(p) == conn' = [conn EXCEPT ![p] = "open"]

(* ok: the handshake is whole, names the hash, is not ours, is extended.   *)
OnHandshake(p, ok) ==
    /\ Searching /\ conn[p] = "handshake"
    /\ ok \/ Kind[p] = "bad"
    /\ IF ok THEN ManagePeer(p) ELSE Fail(p)
    /\ UNCHANGED <<coming, completed, seen, inner, info, out, asked, result, repeats, dups>>

(* with_timeout: no connection, no byte for ten seconds, or a hangup.      *)
TimesOut(p) ==
    /\ Searching /\ Kind[p] # "honest"
    /\ conn[p] \in {"connecting", "handshake", "open"}
    /\ Fail(p)
    /\ UNCHANGED <<coming, completed, seen, inner, info, out, asked, result, repeats, dups>>

(* The writer of manage_peer.                                              *)
WriterSends(p) ==
    /\ Searching /\ conn[p] = "open" /\ out[p] # <<>>
    /\ out' = [out EXCEPT ![p] = Tail(@)]
    /\ asked' = [asked EXCEPT ![p] = Append(@, Head(out[p]))]
    /\ UNCHANGED <<coming, completed, seen, conn, inner, info, result, repeats, dups>>

-----------------------------------------------------------------------------
(* HandlerLocked *)
TotalPieces(size) == (size + ChunkSize - 1) \div ChunkSize
LastElementSize(size) == IF size % ChunkSize = 0 THEN ChunkSize ELSE size % ChunkSize
PieceSize(size, i) == IF i = TotalPieces(size) - 1 THEN LastElementSize(size) ELSE ChunkSize

(* send_metadata_piece of a live torrent, which answers such requests, and *)
(* the bytes of info_bytes it sends.  The piece past the last one passes   *)
(* the check of the bound, and a slice that ends before it begins panics.  *)
SendMetadataPiece(size, i) ==
    LET offset == i * ChunkSize
        end == Min({offset + ChunkSize, size})
    IN  [is |-> IF size = 0 \/ i > TotalPieces(size) THEN "error"
                ELSE IF end < offset THEN "panic" ELSE "sent",
         bytes |-> offset .. end - 1]

(* on_extended_handshake, which a peer may send again.                     *)
OnExtendedHandshake(p, size) ==
    /\ Searching /\ conn[p] = "open"
    /\ Kind[p] = "bad" \/ size = TrueSize
    /\ inner[p] # None => p \notin repeats /\ Cardinality(repeats) < MaxRepeats
    /\ repeats' = IF inner[p] # None THEN repeats \cup {p} ELSE repeats
    /\ IF size > MaxMetadata
       THEN Fail(p) /\ UNCHANGED <<inner, out>>
       ELSE /\ inner' = [inner EXCEPT ![p] = [size |-> size, got |-> {}, good |-> TRUE]]
            /\ out' = [out EXCEPT ![p] = @ \o [i \in 1..TotalPieces(size) |-> i - 1]]
            /\ UNCHANGED conn
    /\ UNCHANGED <<coming, completed, seen, info, asked, result, dups>>

(* Mutant: the checksum is not compared.                                   *)
RecordUnchecked(w, i, len, good) ==
    LET all == 0 .. TotalPieces(w.size) - 1
        got == w.got \cup {i}
    IN  IF i \notin all \/ len # PieceSize(w.size, i) \/ i \in w.got
        THEN [w |-> w, is |-> "error"]
        ELSE [w |-> [w EXCEPT !.got = got, !.good = @ /\ good],
              is |-> IF got # all THEN "more" ELSE "ready"]

(* record_piece: what becomes of HandlerLocked, and the outcome.           *)
RecordPiece(w, i, len, good) ==
    LET all == 0 .. TotalPieces(w.size) - 1
        got == w.got \cup {i}
    IN  IF i \notin all \/ len # PieceSize(w.size, i) \/ i \in w.got
        THEN [w |-> w, is |-> "error"]
        ELSE [w |-> [w EXCEPT !.got = got, !.good = @ /\ good],
              is |-> IF got # all THEN "more"
                     ELSE IF w.size = TrueSize /\ w.good /\ good THEN "ready" ELSE "error"]

(* on_received_message with ut_metadata data.  The lock's unwrap panics    *)
(* without a HandlerLocked: before the extended handshake, which an answer *)
(* cannot come, and when the result is sent and not yet taken up.  The     *)
(* panic is of the task that resolves the magnet.                          *)
OnData(p, k, len, good) ==
    LET r == RecordPiece(inner[p], asked[p][k], len, good) IN
    /\ Searching /\ conn[p] \in {"open", "sent"} /\ k \in DOMAIN asked[p]
    /\ Kind[p] # "chatty"
    /\ Kind[p] = "honest" => good /\ len = PieceSize(inner[p].size, asked[p][k])
    /\ asked' = [asked EXCEPT ![p] = RemoveAt(@, k)]
    /\ IF inner[p] = None
       THEN result' = "panic" /\ UNCHANGED <<conn, inner, info>>
       ELSE /\ inner' = [inner EXCEPT ![p] = IF r.is = "ready" THEN None ELSE r.w]
            /\ info' = IF r.is = "ready" THEN [info EXCEPT ![p] = r.w] ELSE info
            /\ conn' = [conn EXCEPT ![p] = CASE r.is = "ready" -> "sent"
                                             [] r.is = "more" -> @
                                             [] OTHER -> "none"]
            /\ UNCHANGED result
    /\ UNCHANGED <<coming, completed, seen, out, repeats, dups>>

-----------------------------------------------------------------------------

ConnectionStep(p) ==
    \/ Acquire(p) \/ Connect(p) \/ OnHandshake(p, TRUE) \/ WriterSends(p)
    \/ TimesOut(p) \/ Found(p)

MagnetNext ==
    \/ AddrsCompleted \/ ChannelClosed
    \/ \E p \in Peers :
          \/ NextAddr(p) \/ ConnectionStep(p) \/ OnHandshake(p, FALSE)
          \/ \E size \in Sizes \cup {TrueSize} : OnExtendedHandshake(p, size)
          \/ \E k \in DOMAIN asked[p], len \in 0..ChunkSize, good \in BOOLEAN : OnData(p, k, len, good)

MagnetSpec == MagnetInit /\ [][MagnetNext]_magnetVars

HonestAnswers(p) ==
    /\ Kind[p] = "honest"
    /\ \/ OnExtendedHandshake(p, TrueSize) /\ inner[p] = None
       \/ \E k \in DOMAIN asked[p], len \in 0..ChunkSize : OnData(p, k, len, TRUE)

(* The executor runs what is ready and timeouts expire; honest peers       *)
(* answer.  Nothing is assumed of the others.                              *)
MagnetFairSpec ==
    /\ MagnetSpec
    /\ WF_magnetVars(AddrsCompleted) /\ WF_magnetVars(ChannelClosed)
    /\ \A p \in Peers :
          /\ WF_magnetVars(p \in coming /\ NextAddr(p))
          /\ WF_magnetVars(Acquire(p)) /\ WF_magnetVars(Connect(p)) /\ WF_magnetVars(OnHandshake(p, TRUE))
          /\ WF_magnetVars(WriterSends(p)) /\ WF_magnetVars(Kind[p] = "bad" /\ TimesOut(p)) /\ WF_magnetVars(Found(p))
          /\ WF_magnetVars(HonestAnswers(p))

-----------------------------------------------------------------------------

Handlers == [size: Nat, got: SUBSET Nat, good: BOOLEAN]

MagnetTypeOK ==
    /\ coming \subseteq Peers /\ seen \subseteq Peers /\ repeats \subseteq Peers
    /\ conn \in [Peers -> {"none", "queued", "connecting", "handshake", "open", "sent"}]
    /\ inner \in [Peers -> Handlers \cup {None}] /\ info \in [Peers -> Handlers \cup {None}]
    /\ out \in [Peers -> Seq(Nat)] /\ asked \in [Peers -> Seq(Nat)]
    /\ result \in {"none", "found", "closed", "panic"}

(* What read_metainfo_from_peer_receiver comes to is justified.  A peer's  *)
(* result passed the checksum, whatever sizes and pieces the peers mixed;  *)
(* the search is given up only when every address was tried and has no     *)
(* honest peer that kept to one extended handshake; and the handler panics *)
(* only for a peer that repeated it.                                       *)
ResultJustified ==
    /\ \A p \in Peers : conn[p] = "sent" =>
          info[p] = [size |-> TrueSize, got |-> 0 .. TotalPieces(TrueSize) - 1, good |-> TRUE]
    /\ result = "closed" => seen = Peers /\ \A p \in Peers : Kind[p] = "honest" => p \in repeats
    /\ result = "panic" => repeats # {}

(* What it rests on.  Of a peer that sent one extended handshake no piece  *)
(* is asked for twice, or once more when it is there, and nothing without  *)
(* a HandlerLocked.                                                        *)
AllPieces(w) == 0 .. TotalPieces(w.size) - 1

AskedOnce(p) ==
    LET todo == AllPieces(inner[p]) \ inner[p].got IN
    /\ inner[p] = None => out[p] = <<>> /\ asked[p] = <<>>
    /\ \A j \in DOMAIN out[p] : out[p][j] \in todo
    /\ \A j \in DOMAIN asked[p] : asked[p][j] \in todo
    /\ \A j, k \in DOMAIN out[p] : out[p][j] = out[p][k] => j = k
    /\ \A j, k \in DOMAIN asked[p] : asked[p][j] = asked[p][k] => j = k
    /\ \A j \in DOMAIN out[p], k \in DOMAIN asked[p] : out[p][j] # asked[p][k]

(* What an honest peer sent is right, and its connection lasts.            *)
HonestKept(p) ==
    /\ inner[p] # None => inner[p].size = TrueSize /\ inner[p].good
    /\ p \in seen /\ result \in {"none", "closed"} => conn[p] # "none" \/ p \in repeats

MagnetIndInv ==
    /\ MagnetTypeOK /\ ResultJustified
    /\ coming \cup seen = Peers /\ (completed => coming = {})
    /\ \A p \in Peers : conn[p] = "sent" => inner[p] = None
    /\ \A p \in Peers \ repeats : AskedOnce(p)
    /\ \A p \in Peers : Kind[p] = "honest" => HonestKept(p)

(* A metadata piece one librqbit sends is of the size another expects and  *)
(* made of the bytes it puts them at, so that the pieces make up the       *)
(* metadata; only the piece just past the end, which no librqbit asks for, *)
(* gets as far as a panic.                                                 *)
PieceFits(size, i) ==
    LET r == SendMetadataPiece(size, i) IN
    /\ r.is = "panic" => i = TotalPieces(size)
    /\ i > TotalPieces(size) => r.is = "error"
    /\ i < TotalPieces(size) =>
          /\ r.is = "sent" /\ Cardinality(r.bytes) = PieceSize(size, i)
          /\ r.bytes = {b \in 0 .. size - 1 : b \div ChunkSize = i}

(* An honest peer's metadata is found, as long as the peers that talk and  *)
(* never answer leave a permit free: they can keep theirs for ever.        *)
MetadataFound ==
    \A p \in Peers : Kind[p] = "honest" =>
        <>(result \in {"found", "panic"} \/ p \in repeats)
=============================================================================
