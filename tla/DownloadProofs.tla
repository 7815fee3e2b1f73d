--------------------------- MODULE DownloadProofs ---------------------------
(***************************************************************************)
(* Proofs about the piece level of a live torrent, for every number of     *)
(* peers, pieces, files and chunks and any amount of trouble.              *)
(***************************************************************************)
EXTENDS Download, FiniteSetTheorems, TLAPS

-----------------------------------------------------------------------------
(* The ChunkTracker                                                        *)

LEMMA FinitePieces ==
  ASSUME NEW S, S \subseteq Pieces
  PROVE  IsFiniteSet(S) /\ Cardinality(S) \in Nat
  BY DownloadAssumption, FS_Subset, FS_CardinalityType

LEMMA SelectedByType == \A only \in SUBSET Files : SelectedBy(only) \in SUBSET Pieces
  BY DownloadAssumption DEF SelectedBy

LEMMA CalcHnsType ==
  ASSUME NEW have \in SUBSET Pieces, NEW selected \in SUBSET Pieces
  PROVE  CalcHns(have, selected) \in [have: Int, needed: Int]
  <1>1. Cardinality(have) \in Nat /\ Cardinality(selected \ have) \in Nat
    BY FinitePieces
  <1> QED BY <1>1 DEF CalcHns

LEMMA NewTrackerType ==
  ASSUME NEW have \in SUBSET Pieces, NEW selected \in SUBSET Pieces
  PROVE  NewTracker(have, selected) \in Trackers
  <1>1. RecalcPerFile(have) \in [Files -> Nat]
    <2>1. \A f \in Files : Cardinality(FilePieces[f] \cap have) \in Nat
      BY FinitePieces
    <2> QED BY <2>1 DEF RecalcPerFile
  <1>2. CalcHns(have, selected) \in [have: Int, needed: Int]
    BY CalcHnsType
  <1> QED BY <1>1, <1>2 DEF NewTracker, Trackers, ComputeQueued, ComputeChunkStatus

LEMMA MarkBrokenAllType ==
  ASSUME NEW c \in Trackers, NEW ps \in SUBSET Pieces
  PROVE  /\ MarkBrokenAll(c, ps) \in Trackers
         /\ MarkBrokenAll(c, ps).hns = c.hns
         /\ MarkBrokenAll(c, ps).have = c.have
         /\ MarkBrokenAll(c, ps).selected = c.selected
         /\ MarkBrokenAll(c, ps).queue = c.queue \cup (ps \ c.have)
         /\ MarkBrokenAll(c, ps).chunks = {b \in c.chunks : b[1] \notin ps \ c.have}
  BY DEF MarkBrokenAll, Trackers

LEMMA MarkBrokenType ==
  ASSUME NEW c \in Trackers, NEW p \in Pieces
  PROVE  /\ MarkBroken(c, p) \in Trackers
         /\ MarkBroken(c, p).hns = c.hns
         /\ MarkBroken(c, p).have = c.have
         /\ MarkBroken(c, p).selected = c.selected
         /\ MarkBroken(c, p).queue = c.queue \cup ({p} \ c.have)
         /\ MarkBroken(c, p).chunks = {b \in c.chunks : b[1] \notin {p} \ c.have}
  BY DEF MarkBroken, BlocksOf, Trackers

LEMMA MarkChunkType ==
  ASSUME NEW c \in Trackers, NEW b \in Blocks
  PROVE  /\ MarkChunkDownloaded(c, b) \in Trackers
         /\ MarkChunkDownloaded(c, b).hns = c.hns
         /\ MarkChunkDownloaded(c, b).have = c.have
         /\ MarkChunkDownloaded(c, b).selected = c.selected
         /\ MarkChunkDownloaded(c, b).queue = c.queue
         /\ MarkChunkDownloaded(c, b).chunks = c.chunks \cup {b}
  BY DEF MarkChunkDownloaded, BlocksOf, Trackers

LEMMA UpdateSelectedType ==
  ASSUME NEW c \in Trackers, NEW sel \in SUBSET Pieces
  PROVE  /\ UpdateSelected(c, sel) \in Trackers
         /\ UpdateSelected(c, sel).hns = CalcHns(c.have, sel)
         /\ UpdateSelected(c, sel).have = c.have
         /\ UpdateSelected(c, sel).selected = sel
         /\ sel \ c.have \subseteq UpdateSelected(c, sel).queue
         /\ UpdateSelected(c, sel).chunks \subseteq c.chunks
  <1>1. c.have \in SUBSET Pieces /\ c.queue \in SUBSET Pieces /\ c.chunks \in SUBSET Blocks
    BY DEF Trackers
  <1>2. CalcHns(c.have, sel) \in [have: Int, needed: Int]
    BY <1>1, CalcHnsType
  <1> QED BY <1>1, <1>2 DEF UpdateSelected, Trackers

LEMMA UpdateFileHaveType ==
  ASSUME NEW c \in Trackers, NEW p \in Pieces
  PROVE  /\ UpdateFileHave(c, p) \in Trackers
         /\ \A f \in {"have", "selected", "queue", "chunks", "hns"} :
               UpdateFileHave(c, p)[f] = c[f]
  BY DEF UpdateFileHave, Trackers

(* A piece that was not had before moves both counters by one.             *)
LEMMA MarkDownloadedHns ==
  ASSUME NEW c \in Trackers, NEW p \in Pieces, c.hns = CalcHns(c.have, c.selected)
  PROVE  LET d == MarkDownloaded(c, p) IN
         /\ d \in Trackers
         /\ d.hns = CalcHns(d.have, d.selected)
         /\ d.have = c.have \cup {p}
         /\ d.selected = c.selected
         /\ d.queue = c.queue
         /\ d.chunks = c.chunks
  <1> DEFINE d == MarkDownloaded(c, p)
  <1>1. CASE p \in c.have
    BY <1>1 DEF MarkDownloaded
  <1>2. CASE p \notin c.have
    <2>1. c.have \in SUBSET Pieces /\ c.selected \in SUBSET Pieces /\ c.hns \in [have: Int, needed: Int]
      BY DEF Trackers
    <2>2. /\ d.have = c.have \cup {p} /\ d.selected = c.selected
          /\ d.queue = c.queue /\ d.chunks = c.chunks /\ d.perFile = c.perFile
          /\ d.hns = [have |-> c.hns.have + 1,
                      needed |-> IF p \in c.selected THEN c.hns.needed - 1 ELSE c.hns.needed]
      BY <1>2 DEF MarkDownloaded, Trackers
    <2>3. d \in Trackers
      <3> DEFINE h == [have |-> c.hns.have + 1,
                       needed |-> IF p \in c.selected THEN c.hns.needed - 1 ELSE c.hns.needed]
      <3>1. h \in [have: Int, needed: Int]
        <4>1. c.hns.have \in Int /\ c.hns.needed \in Int
          BY <2>1
        <4> QED BY <4>1
      <3>2. d = [c EXCEPT !.have = c.have \cup {p}, !.hns = h]
        BY <1>2 DEF MarkDownloaded, Trackers
      <3> HIDE DEF h, d
      <3> QED BY <3>1, <3>2 DEF Trackers
    <2>4. Cardinality(c.have \cup {p}) = Cardinality(c.have) + 1
      BY <1>2, <2>1, FinitePieces, FS_AddElement
    <2>5. Cardinality(c.selected \ (c.have \cup {p})) =
             IF p \in c.selected THEN Cardinality(c.selected \ c.have) - 1
             ELSE Cardinality(c.selected \ c.have)
      <3>1. c.selected \ (c.have \cup {p}) = (c.selected \ c.have) \ {p}
        OBVIOUS
      <3>2. p \in c.selected \ c.have <=> p \in c.selected
        BY <1>2
      <3>3. IsFiniteSet(c.selected \ c.have)
        BY <2>1, FinitePieces
      <3>4. Cardinality((c.selected \ c.have) \ {p}) =
               IF p \in c.selected \ c.have THEN Cardinality(c.selected \ c.have) - 1
               ELSE Cardinality(c.selected \ c.have)
        BY <3>3, FS_RemoveElement, Zenon
      <3> QED BY <1>2, <3>1, <3>4
    <2> QED BY <2>2, <2>3, <2>4, <2>5 DEF CalcHns
  <1> QED BY <1>1, <1>2

-----------------------------------------------------------------------------
(* The pieces whose blocks a peer still owes.                              *)
LEMMA OwedPieces ==
  ASSUME TypeOK, NEW q \in Peers
  PROVE  {b[1] : b \in peer[q].reqs} \in SUBSET Pieces
  BY DownloadAssumption DEF TypeOK, PeerStates

LEMMA BlockPiece ==
  ASSUME TypeOK, NEW q \in Peers, job[q].pc # "idle"
  PROVE  job[q] \in Writing /\ job[q].block \in Blocks /\ job[q].block[1] \in Pieces
  BY DownloadAssumption DEF TypeOK, Writing, NoJob

LEMMA DiedType ==
  ASSUME TypeOK, NEW q \in Peers, NEW c \in Trackers, NEW error, Died(q, c, error)
  PROVE  /\ ct' \in Trackers
         /\ ct'.hns = c.hns /\ ct'.have = c.have /\ ct'.selected = c.selected
         /\ ct'.queue = c.queue \cup ({b[1] : b \in peer[q].reqs} \ c.have)
         /\ ct'.chunks = {b \in c.chunks : b[1] \notin {x[1] : x \in peer[q].reqs} \ c.have}
         /\ peer' \in [Peers -> PeerStates]
         /\ peer'[q].reqs = {}
         /\ \A r \in Peers \ {q} : peer'[r] = peer[r]
         /\ job' = [job EXCEPT ![q] = NoJob]
         /\ job' \in [Peers -> Writing \cup {NoJob}]
  <1>1. ct' = MarkBrokenAll(c, {b[1] : b \in peer[q].reqs})
    BY DEF Died
  <1>2. PICK st \in {"absent", "notneeded"} : peer' = [peer EXCEPT ![q] = [Absent EXCEPT !.st = st]]
    BY DEF Died
  <1>3. [Absent EXCEPT !.st = st] \in PeerStates /\ [Absent EXCEPT !.st = st].reqs = {}
    BY DEF Absent, PeerStates
  <1>4. /\ peer' \in [Peers -> PeerStates]
        /\ peer'[q].reqs = {}
        /\ \A r \in Peers \ {q} : peer'[r] = peer[r]
    BY <1>2, <1>3 DEF TypeOK
  <1>5. job' = [job EXCEPT ![q] = NoJob] /\ job' \in [Peers -> Writing \cup {NoJob}]
    BY DEF Died, TypeOK
  <1> QED BY <1>1, <1>4, <1>5, OwedPieces, MarkBrokenAllType

(* The task of q ends with an error, its peer live or not.                 *)
LEMMA FailsType ==
  ASSUME TypeOK, RequestersConnected, NEW q \in Peers, NEW c \in Trackers, Fails(q, c)
  PROVE  /\ ct' \in Trackers
         /\ ct'.hns = c.hns /\ ct'.have = c.have /\ ct'.selected = c.selected
         /\ ct'.queue = c.queue \cup ({b[1] : b \in peer[q].reqs} \ c.have)
         /\ ct'.chunks = {b \in c.chunks : b[1] \notin {x[1] : x \in peer[q].reqs} \ c.have}
         /\ peer' \in [Peers -> PeerStates]
         /\ peer'[q].reqs = {}
         /\ \A r \in Peers \ {q} : peer'[r] = peer[r]
         /\ job' = [job EXCEPT ![q] = NoJob]
         /\ job' \in [Peers -> Writing \cup {NoJob}]
  <1>1. CASE Connected(q)
    BY <1>1, DiedType DEF Fails
  <1>2. CASE ~Connected(q)
    <2>1. peer[q].reqs = {}
      BY <1>2 DEF RequestersConnected
    <2>2. ct' = c /\ peer' = peer /\ job' = [job EXCEPT ![q] = NoJob]
      BY <1>2 DEF Fails
    <2>3. /\ {b[1] : b \in peer[q].reqs} = {}
          /\ c.chunks = {b \in c.chunks : b[1] \notin {x[1] : x \in peer[q].reqs} \ c.have}
      BY <2>1 DEF Trackers
    <2> QED BY <2>1, <2>2, <2>3 DEF TypeOK
  <1> QED BY <1>1, <1>2

-----------------------------------------------------------------------------
(* Where pieces are accounted for                                          *)

(* A step that only adds requests.                                         *)
LEMMA QuietStep ==
  ASSUME CompleteIsChecked, MissingIsComing, TypeOK,
         \A f \in {"have", "selected", "queue", "chunks"} : ct'[f] = ct[f],
         upset' = upset, inflight' = inflight, job' = job,
         \A q \in Peers : peer[q].reqs \subseteq peer'[q].reqs
  PROVE  CompleteIsChecked' /\ MissingIsComing'
  <1>1. ct'.have = ct.have /\ ct'.selected = ct.selected /\ ct'.queue = ct.queue /\ ct'.chunks = ct.chunks
    OBVIOUS
  <1>2. CompleteIsChecked'
    BY <1>1 DEF CompleteIsChecked, BeingChecked
  <1>3. MissingIsComing'
    <2>1. Outstanding' = Outstanding
      BY <1>1 DEF Outstanding
    <2>2. Outstanding \subseteq Pieces
      BY DEF Outstanding, TypeOK, Trackers
    <2>3. ASSUME NEW p \in Outstanding PROVE inflight[p] # NoPeer => inflight[p] \in Peers
      BY <2>2 DEF TypeOK
    <2>4. \A b : BeingWritten(b)' <=> BeingWritten(b)
      BY DEF BeingWritten
    <2> QED BY <1>1, <2>1, <2>3, <2>4 DEF MissingIsComing
  <1> QED BY <1>2, <1>3

(* The task of q ends while it writes no block: the pieces X go back to    *)
(* the queue, among them all it owes.                                      *)
LEMMA EndStep ==
  ASSUME CompleteIsChecked, MissingIsComing, TypeOK, NEW q \in Peers, NEW X \in SUBSET Pieces,
         ct'.have = ct.have, ct'.selected = ct.selected,
         ct'.queue = ct.queue \cup X, X \cap ct.have = {},
         ct'.chunks = {b \in ct.chunks : b[1] \notin X},
         {b[1] : b \in peer[q].reqs} \subseteq X \cup ct.have,
         upset \subseteq upset', inflight' = inflight,
         \A r \in Peers \ {q} : peer'[r] = peer[r],
         job' = [job EXCEPT ![q] = NoJob],
         job[q].pc \notin {"write", "mark"},
         job[q].pc \in {"check", "bad"} => job[q].block[1] \in X \cup ct.have \cup upset'
  PROVE  CompleteIsChecked' /\ MissingIsComing'
  <1>1. CompleteIsChecked'
    <2> SUFFICES ASSUME NEW p \in Pieces, BlocksOf(p) \subseteq ct'.chunks, p \notin ct'.have \cup upset'
                 PROVE  p \in BeingChecked'
      BY DEF CompleteIsChecked
    <2>1. p \notin X
      BY DownloadAssumption DEF BlocksOf
    <2>2. p \in BeingChecked
      BY DEF CompleteIsChecked
    <2>3. PICK r \in Peers : job[r].pc \in {"check", "bad"} /\ job[r].block[1] = p
      BY <2>2 DEF BeingChecked
    <2>4. r # q
      BY <2>1, <2>3
    <2> QED BY <2>3, <2>4 DEF BeingChecked, TypeOK
  <1>2. MissingIsComing'
    <2> SUFFICES ASSUME NEW p \in Outstanding'
                 PROVE  /\ \A b \in BlocksOf(p) \ ct'.chunks :
                              (inflight'[p] # NoPeer /\ b \in peer'[inflight'[p]].reqs) \/ BeingWritten(b)'
                        /\ inflight'[p] = NoPeer => BlocksOf(p) \subseteq ct'.chunks
      BY DEF MissingIsComing
    <2>1. p \in Outstanding /\ p \notin X /\ p \in Pieces /\ p \notin ct.have
      BY DEF Outstanding, TypeOK, Trackers
    <2>2. \A b \in BlocksOf(p) : b \in ct.chunks <=> b \in ct'.chunks
      BY <2>1 DEF BlocksOf
    <2>3. \A b : BeingWritten(b) => BeingWritten(b)'
      BY DEF BeingWritten, TypeOK
    <2>4. \A b \in BlocksOf(p) : b \notin peer[q].reqs
      BY <2>1 DEF BlocksOf
    <2>5. inflight[p] # NoPeer => inflight[p] \in Peers
      BY <2>1 DEF TypeOK
    <2> QED BY <2>1, <2>2, <2>3, <2>4, <2>5 DEF MissingIsComing
  <1> QED BY <1>1, <1>2

(* A piece is requested from q, in full: the others stay where they are.   *)
LEMMA RequestStep ==
  ASSUME CompleteIsChecked, MissingIsComing, TypeOK, NEW q \in Peers, NEW p \in Pieces,
         Request(q, p), ct'.queue \in {ct.queue, ct.queue \ {p}},
         \A f \in {"have", "selected", "chunks"} : ct'[f] = ct[f],
         upset' = upset, job' = job
  PROVE  CompleteIsChecked' /\ MissingIsComing'
  <1>1. ct'.have = ct.have /\ ct'.selected = ct.selected /\ ct'.chunks = ct.chunks
    OBVIOUS
  <1>2. CompleteIsChecked'
    BY <1>1 DEF CompleteIsChecked, BeingChecked
  <1>3. MissingIsComing'
    <2>1. \A b : BeingWritten(b)' <=> BeingWritten(b)
      BY DEF BeingWritten
    <2>2. inflight'[p] = q /\ q # NoPeer /\ BlocksOf(p) \subseteq peer'[q].reqs
      BY DownloadAssumption DEF Request, TypeOK, PeerStates
    <2>3. ASSUME NEW x \in Outstanding', x # p
          PROVE  /\ \A b \in BlocksOf(x) \ ct'.chunks :
                        (inflight'[x] # NoPeer /\ b \in peer'[inflight'[x]].reqs) \/ BeingWritten(b)'
                 /\ inflight'[x] = NoPeer => BlocksOf(x) \subseteq ct'.chunks
      <3>1. x \in Outstanding /\ x \in Pieces /\ inflight'[x] = inflight[x]
        BY <1>1, <2>3 DEF Outstanding, TypeOK, Trackers, Request
      <3>2. inflight[x] # NoPeer => inflight[x] \in Peers
        BY <3>1 DEF TypeOK
      <3>3. \A r \in Peers : peer[r].reqs \subseteq peer'[r].reqs
        BY DEF Request, TypeOK, PeerStates
      <3> QED BY <1>1, <2>1, <3>1, <3>2, <3>3 DEF MissingIsComing
    <2> QED BY <1>1, <2>1, <2>2, <2>3 DEF MissingIsComing
  <1> QED BY <1>2, <1>3

-----------------------------------------------------------------------------
(* One lemma per group of actions                                          *)

LEMMA InitInv == Init => IndInv
  <1> SUFFICES ASSUME Init PROVE IndInv
    OBVIOUS
  <1>1. PICK only \in SUBSET Files : ct = NewTracker({}, SelectedBy(only))
    BY DEF Init
  <1>2. ct \in Trackers
    BY <1>1, SelectedByType, NewTrackerType
  <1>3. TypeOK
    BY <1>2 DEF Init, TypeOK, NobodyInflight, Absent, PeerStates
  <1>4. ct.have = {} /\ ct.selected = ct.queue /\ ct.chunks = {} /\ HnsInSync
    BY <1>1 DEF NewTracker, ComputeQueued, ComputeChunkStatus, HnsInSync
  <1>5. RequestersConnected
    BY DEF Init, Absent, RequestersConnected
  <1>6. CompleteIsChecked
    BY <1>4, DownloadAssumption DEF CompleteIsChecked, BlocksOf
  <1>7. MissingIsComing
    BY <1>4 DEF MissingIsComing, Outstanding
  <1> QED BY <1>3, <1>4, <1>5, <1>6, <1>7 DEF IndInv

(* Connections, chokes and streams leave the tracker and the writers alone.*)
LEMMA ConnectionInv ==
  ASSUME IndInv, NEW q \in Peers,
         Connect(q) \/ OnUnchoked(q) \/ OnChoked(q) \/ Leave(q)
  PROVE  IndInv'
  <1> USE DEF IndInv
  <1>1. /\ UNCHANGED <<phase, ct, inflight, job, streamed, disk, upset>>
        /\ peer' \in [Peers -> PeerStates]
        /\ \A r \in Peers : peer'[r].reqs = peer[r].reqs
        /\ \A r \in Peers : Connected(r) => Connected(r)'
    <2> USE DEF TypeOK, PeerStates, Connected
    <2>1. CASE Connect(q)
      <3>1. /\ peer[q] \in PeerStates
            /\ peer' = [peer EXCEPT ![q] = [peer[q] EXCEPT !.st = "live", !.choked = FALSE]]
        BY <2>1 DEF Connect
      <3>2. [peer[q] EXCEPT !.st = "live", !.choked = FALSE] \in PeerStates
        BY <3>1
      <3>3. UNCHANGED <<phase, ct, inflight, job, streamed, disk, upset>>
        BY <2>1 DEF Connect
      <3> QED BY <3>1, <3>2, <3>3
    <2>2. CASE OnUnchoked(q)
      BY <2>2 DEF OnUnchoked
    <2>3. CASE OnChoked(q)
      BY <2>3 DEF OnChoked
    <2>4. CASE Leave(q)
      BY <2>4 DEF Leave
    <2> QED BY <2>1, <2>2, <2>3, <2>4
  <1>2. TypeOK' /\ HnsInSync'
    BY <1>1 DEF TypeOK, HnsInSync
  <1>3. RequestersConnected'
    BY <1>1 DEF RequestersConnected
  <1>4. phase' # "error" => CompleteIsChecked' /\ MissingIsComing'
    BY <1>1, QuietStep
  <1> QED BY <1>2, <1>3, <1>4

(* Not needed peers owe nothing, so that reconnecting forgets nothing.     *)
LEMMA ReconnectedFrame ==
  ASSUME TypeOK, RequestersConnected
  PROVE  /\ Reconnected(peer) \in [Peers -> PeerStates]
         /\ \A q \in Peers : Reconnected(peer)[q].reqs = peer[q].reqs
         /\ \A q \in Peers : Connected(q) => Reconnected(peer)[q] = peer[q]
  BY DEF Reconnected, RequestersConnected, Connected, Absent, TypeOK, PeerStates

LEMMA StreamInv ==
  ASSUME IndInv, NEW f \in Files, OpenStream(f) \/ CloseStream(f)
  PROVE  IndInv'
  <1> USE DEF IndInv
  <1>1. UNCHANGED <<phase, ct, inflight, job, disk, upset>> /\ peer' \in {peer, Reconnected(peer)}
    BY DEF OpenStream, CloseStream
  <1>2. /\ peer' \in [Peers -> PeerStates]
        /\ \A q \in Peers : peer'[q].reqs = peer[q].reqs
        /\ \A q \in Peers : Connected(q) => peer'[q] = peer[q]
    BY <1>1, ReconnectedFrame DEF TypeOK
  <1>3. TypeOK' /\ HnsInSync'
    BY <1>1, <1>2 DEF TypeOK, HnsInSync, OpenStream, CloseStream
  <1>4. RequestersConnected'
    BY <1>2 DEF RequestersConnected, Connected
  <1>5. phase' # "error" => CompleteIsChecked' /\ MissingIsComing'
    BY <1>1, <1>2, QuietStep
  <1> QED BY <1>3, <1>4, <1>5

LEMMA RequestInv ==
  ASSUME IndInv, NEW q \in Peers, NEW p \in Pieces, Reserve(q, p) \/ Steal(q, p)
  PROVE  IndInv'
  <1> USE DEF IndInv
  <1>1. /\ Request(q, p) /\ peer[q].st = "live"
        /\ UNCHANGED <<phase, job, streamed, disk, upset>>
        /\ ct' \in {ct, ReserveNeeded(ct, p)}
    BY DEF Reserve, Steal, Requesting
  <1>2. /\ ct' \in Trackers /\ ct'.queue \in {ct.queue, ct.queue \ {p}}
        /\ \A f \in {"have", "selected", "chunks"} : ct'[f] = ct[f]
        /\ ct'.have = ct.have /\ ct'.selected = ct.selected /\ ct'.hns = ct.hns
    BY <1>1 DEF ReserveNeeded, TypeOK, Trackers
  <1>3. TypeOK' /\ RequestersConnected'
    BY <1>1, <1>2 DEF Request, BlocksOf, TypeOK, PeerStates, RequestersConnected, Connected
  <1>4. HnsInSync'
    BY <1>2 DEF HnsInSync
  <1>5. phase' # "error" => CompleteIsChecked' /\ MissingIsComing'
    BY <1>1, <1>2, RequestStep
  <1> QED BY <1>3, <1>4, <1>5

(* A block that arrives for its piece goes from the requests to a writer.  *)
LEMMA ReceiveInv ==
  ASSUME IndInv, NEW q \in Peers, NEW b \in Blocks, NEW good \in BOOLEAN, Receive(q, b, good)
  PROVE  IndInv'
  <1> USE DEF IndInv, Receive
  <1>1. /\ peer' \in [Peers -> PeerStates]
        /\ peer'[q].reqs = peer[q].reqs \ {b}
        /\ \A r \in Peers : peer'[r].st = peer[r].st
        /\ \A r \in Peers \ {q} : peer'[r] = peer[r]
    BY DEF TypeOK, PeerStates
  <1>2. job' \in [Peers -> Writing \cup {NoJob}]
    BY DEF TypeOK, Writing
  <1>3. TypeOK' /\ HnsInSync' /\ RequestersConnected'
    BY <1>1, <1>2 DEF TypeOK, HnsInSync, RequestersConnected, Connected
  <1>4. /\ \A r \in Peers \ {q} : job'[r] = job[r]
        /\ job[q].pc = "idle"
        /\ inflight[b[1]] = q => job'[q].pc = "write" /\ job'[q].block = b
        /\ inflight[b[1]] # q => job' = job
    BY DEF TypeOK, Idle
  <1>5. CompleteIsChecked'
    BY <1>4 DEF CompleteIsChecked, BeingChecked
  <1>6. MissingIsComing'
    <2> SUFFICES ASSUME NEW p \in Outstanding, NEW x \in BlocksOf(p) \ ct.chunks
                 PROVE  (inflight[p] # NoPeer /\ x \in peer'[inflight[p]].reqs) \/ BeingWritten(x)'
      BY DEF MissingIsComing, Outstanding
    <2>1. CASE BeingWritten(x)
      BY <1>4, <2>1 DEF BeingWritten
    <2>2. CASE inflight[p] # NoPeer /\ x \in peer[inflight[p]].reqs
      <3>1. inflight[p] \in Peers
        BY <2>2 DEF Outstanding, TypeOK, Trackers
      <3>2. CASE inflight[p] # q
        BY <1>1, <2>2, <3>1, <3>2
      <3>3. CASE inflight[p] = q /\ x # b
        BY <1>1, <2>2, <3>3
      <3>4. CASE inflight[p] = q /\ x = b
        BY <1>4, <3>4 DEF BlocksOf, BeingWritten
      <3> QED BY <3>2, <3>3, <3>4
    <2> QED BY <2>1, <2>2 DEF MissingIsComing
  <1> QED BY <1>3, <1>5, <1>6

LEMMA WriteInv ==
  ASSUME IndInv, NEW q \in Peers, WriteChunk(q)
  PROVE  IndInv'
  <1> USE DEF IndInv, WriteChunk, At
  <1>1. job[q] \in Writing /\ job[q].block \in Blocks
    BY BlockPiece
  <1>2. /\ job' \in [Peers -> Writing \cup {NoJob}]
        /\ \A r \in Peers \ {q} : job'[r] = job[r]
        /\ job'[q].pc = "mark" /\ job'[q].block = job[q].block
    BY <1>1 DEF TypeOK, Writing
  <1>3. TypeOK' /\ HnsInSync' /\ RequestersConnected'
    BY <1>1, <1>2 DEF TypeOK, HnsInSync, RequestersConnected, Connected
  <1>4. CompleteIsChecked'
    BY <1>2 DEF CompleteIsChecked, BeingChecked
  <1>5. \A b : BeingWritten(b) => BeingWritten(b)'
    BY <1>2 DEF BeingWritten
  <1>6. MissingIsComing'
    BY <1>5 DEF MissingIsComing, Outstanding
  <1> QED BY <1>3, <1>4, <1>6

(* mark_chunk_downloaded: the last missing chunk hands the piece over to   *)
(* the check, or drops it when the piece has lost its peer meanwhile.      *)
LEMMA MarkChunkInv ==
  ASSUME IndInv, NEW q \in Peers, MarkChunk(q)
  PROVE  IndInv'
  <1> USE DEF IndInv
  <1> DEFINE b == job[q].block
             p == b[1]
             last == ~(BlocksOf(p) \subseteq ct.chunks) /\ BlocksOf(p) \subseteq ct.chunks \cup {b}
  <1>1. /\ phase = "live" /\ job[q].pc = "mark"
        /\ UNCHANGED <<phase, peer, streamed, disk>>
        /\ ct' = MarkChunkDownloaded(ct, b)
        /\ inflight' = IF last THEN [inflight EXCEPT ![p] = NoPeer] ELSE inflight
        /\ job' = IF last /\ inflight[p] # NoPeer THEN [job EXCEPT ![q].pc = "check"]
                  ELSE [job EXCEPT ![q] = NoJob]
        /\ upset' = IF last /\ inflight[p] = NoPeer THEN upset \cup {p} ELSE upset
    BY DEF MarkChunk, At
  <1>2. job[q] \in Writing /\ b \in Blocks /\ p \in Pieces
    BY <1>1, BlockPiece
  <1>3. /\ ct' \in Trackers /\ ct'.hns = ct.hns /\ ct'.have = ct.have
        /\ ct'.selected = ct.selected /\ ct'.queue = ct.queue
        /\ ct'.chunks = ct.chunks \cup {b}
    <2>1. ct \in Trackers
      BY DEF TypeOK
    <2> QED BY <1>1, <1>2, <2>1, MarkChunkType
  <1>4. /\ job' \in [Peers -> Writing \cup {NoJob}]
        /\ \A r \in Peers \ {q} : job'[r] = job[r]
        /\ last /\ inflight[p] # NoPeer => job'[q].pc = "check" /\ job'[q].block = b
    BY <1>1, <1>2 DEF TypeOK, Writing
  <1>5. TypeOK' /\ HnsInSync' /\ RequestersConnected'
    BY <1>1, <1>2, <1>3, <1>4 DEF TypeOK, HnsInSync, RequestersConnected, Connected
  <1>6. CompleteIsChecked'
    <2> SUFFICES ASSUME NEW x \in Pieces, BlocksOf(x) \subseteq ct'.chunks, x \notin ct'.have \cup upset'
                 PROVE  x \in BeingChecked'
      BY DEF CompleteIsChecked
    <2>1. CASE BlocksOf(x) \subseteq ct.chunks
      <3>1. PICK r \in Peers : job[r].pc \in {"check", "bad"} /\ job[r].block[1] = x
        BY <1>1, <1>3, <2>1 DEF CompleteIsChecked, BeingChecked
      <3> QED BY <1>1, <1>4, <3>1 DEF BeingChecked
    <2>2. CASE ~(BlocksOf(x) \subseteq ct.chunks)
      <3>1. x = p /\ last
        BY <1>3, <2>2 DEF BlocksOf
      <3>2. inflight[p] # NoPeer
        BY <1>1, <3>1
      <3> QED BY <1>4, <3>1, <3>2 DEF BeingChecked
    <2> QED BY <2>1, <2>2
  <1>7. MissingIsComing'
    <2> SUFFICES ASSUME NEW x \in Outstanding'
                 PROVE  /\ \A y \in BlocksOf(x) \ ct'.chunks :
                              (inflight'[x] # NoPeer /\ y \in peer'[inflight'[x]].reqs) \/ BeingWritten(y)'
                        /\ inflight'[x] = NoPeer => BlocksOf(x) \subseteq ct'.chunks
      BY DEF MissingIsComing
    <2>1. x \in Outstanding /\ x \in Pieces
      BY <1>1, <1>3 DEF Outstanding, TypeOK, Trackers
    <2>2. CASE x = p /\ last
      BY <1>3, <2>2
    <2>3. CASE ~(x = p /\ last)
      <3>1. inflight'[x] = inflight[x]
        BY <1>1, <2>1, <2>3 DEF TypeOK
      <3>2. \A y : y # b /\ BeingWritten(y) => BeingWritten(y)'
        BY <1>4 DEF BeingWritten
      <3> QED BY <1>1, <1>3, <2>1, <3>1, <3>2 DEF MissingIsComing
    <2> QED BY <2>2, <2>3
  <1> HIDE DEF b, p, last
  <1> QED BY <1>5, <1>6, <1>7

LEMMA CheckPieceInv ==
  ASSUME IndInv, NEW q \in Peers, CheckPiece(q)
  PROVE  IndInv'
  <1> USE DEF IndInv
  <1> DEFINE p == job[q].block[1]
  <1>1. /\ phase = "live" /\ job[q].pc = "check"
        /\ UNCHANGED <<phase, inflight, streamed, disk, upset>>
        /\ ct' \in {ct, MarkDownloaded(ct, p)}
        /\ peer' \in {peer, [peer EXCEPT ![q].timed = TRUE]}
        /\ \/ ct' = MarkDownloaded(ct, p) /\ job' = [job EXCEPT ![q].pc = "done"]
           \/ ct' = ct /\ job' = [job EXCEPT ![q].pc = "bad"]
    BY DEF CheckPiece, At
  <1>2. job[q] \in Writing /\ p \in Pieces /\ ct \in Trackers
    BY <1>1, BlockPiece DEF TypeOK
  <1>3. /\ ct' \in Trackers /\ ct'.hns = CalcHns(ct'.have, ct'.selected)
        /\ ct'.have \in {ct.have, ct.have \cup {p}}
        /\ ct'.selected = ct.selected /\ ct'.queue = ct.queue /\ ct'.chunks = ct.chunks
        /\ job'[q].pc = "done" => p \in ct'.have
    <2> HIDE DEF p
    <2>1. CASE ct' = MarkDownloaded(ct, p)
      BY <1>2, <2>1, MarkDownloadedHns DEF HnsInSync
    <2>2. CASE ct' = ct /\ job' = [job EXCEPT ![q].pc = "bad"]
      BY <1>2, <2>2 DEF HnsInSync, TypeOK, Writing
    <2> QED BY <1>1, <2>1, <2>2, Zenon
  <1>4. /\ job' \in [Peers -> Writing \cup {NoJob}]
        /\ \A r \in Peers \ {q} : job'[r] = job[r]
        /\ job'[q].pc \in {"done", "bad"} /\ job'[q].block = job[q].block
    BY <1>1, <1>2 DEF TypeOK, Writing
  <1>5. /\ peer' \in [Peers -> PeerStates]
        /\ \A r \in Peers : peer'[r].reqs = peer[r].reqs /\ peer'[r].st = peer[r].st
    <2>1. peer \in [Peers -> PeerStates] /\ (peer' = peer \/ peer' = [peer EXCEPT ![q].timed = TRUE])
      BY <1>1 DEF TypeOK
    <2>2. CASE peer' = peer
      BY <2>1, <2>2
    <2>3. CASE peer' = [peer EXCEPT ![q].timed = TRUE]
      <3>1. peer[q] \in PeerStates
        BY <2>1
      <3>2. /\ [peer[q] EXCEPT !.timed = TRUE] \in PeerStates
            /\ [peer[q] EXCEPT !.timed = TRUE].reqs = peer[q].reqs
            /\ [peer[q] EXCEPT !.timed = TRUE].st = peer[q].st
        BY <3>1 DEF PeerStates
      <3> QED BY <2>1, <2>3, <3>2
    <2> QED BY <2>1, <2>2, <2>3
  <1>6. TypeOK' /\ HnsInSync' /\ RequestersConnected'
    BY <1>1, <1>3, <1>4, <1>5 DEF TypeOK, HnsInSync, RequestersConnected, Connected
  <1>7. CompleteIsChecked'
    <2> SUFFICES ASSUME NEW x \in Pieces, BlocksOf(x) \subseteq ct'.chunks, x \notin ct'.have \cup upset'
                 PROVE  x \in BeingChecked'
      BY DEF CompleteIsChecked
    <2>1. PICK r \in Peers : job[r].pc \in {"check", "bad"} /\ job[r].block[1] = x
      BY <1>1, <1>3 DEF CompleteIsChecked, BeingChecked
    <2> QED BY <1>3, <1>4, <2>1 DEF BeingChecked
  <1>8. MissingIsComing'
    <2>1. \A b : BeingWritten(b) => BeingWritten(b)'
      BY <1>1, <1>4 DEF BeingWritten
    <2>2. Outstanding' \subseteq Outstanding /\ Outstanding \subseteq Pieces
      BY <1>1, <1>3 DEF Outstanding, TypeOK, Trackers
    <2>3. \A x \in Outstanding : inflight[x] # NoPeer => inflight[x] \in Peers
      BY <2>2 DEF TypeOK
    <2> QED BY <1>1, <1>3, <1>5, <2>1, <2>2, <2>3 DEF MissingIsComing
  <1> QED BY <1>6, <1>7, <1>8

(* A peer's task ends: by an error, a timeout, a failed or bad check, or   *)
(* because there is nothing left to do.                                    *)
LEMMA IdleEndInv ==
  ASSUME IndInv, NEW q \in Peers, Die(q) \/ TimeOut(q) \/ Left(q)
  PROVE  IndInv'
  <1> USE DEF IndInv
  <1>1. /\ UNCHANGED <<phase, inflight, streamed, disk, upset>> /\ phase = "live"
        /\ job[q].pc = "idle" /\ \E error \in BOOLEAN : Died(q, ct, error)
    BY DEF Die, TimeOut, Left, Idle
  <1>2. ct \in Trackers /\ ct.have \subseteq Pieces
    BY DEF TypeOK, Trackers
  <1> DEFINE X == {b[1] : b \in peer[q].reqs} \ ct.have
  <1>3. /\ ct' \in Trackers
        /\ ct'.hns = ct.hns /\ ct'.have = ct.have /\ ct'.selected = ct.selected
        /\ ct'.queue = ct.queue \cup X
        /\ ct'.chunks = {b \in ct.chunks : b[1] \notin X}
        /\ peer' \in [Peers -> PeerStates]
        /\ peer'[q].reqs = {}
        /\ \A r \in Peers \ {q} : peer'[r] = peer[r]
        /\ job' = [job EXCEPT ![q] = NoJob]
        /\ job' \in [Peers -> Writing \cup {NoJob}]
    BY <1>1, <1>2, DiedType
  <1>4. TypeOK' /\ HnsInSync' /\ RequestersConnected'
    BY <1>1, <1>3 DEF TypeOK, HnsInSync, RequestersConnected, Connected
  <1>5. X \in SUBSET Pieces /\ X \cap ct.have = {} /\ {b[1] : b \in peer[q].reqs} \subseteq X \cup ct.have
    BY OwedPieces
  <1>6. CompleteIsChecked' /\ MissingIsComing'
    <2> HIDE DEF X
    <2> QED BY <1>1, <1>3, <1>5, EndStep
  <1> QED BY <1>4, <1>6

LEMMA CheckEndInv ==
  ASSUME IndInv, NEW q \in Peers, CheckFails(q) \/ PieceBad(q)
  PROVE  IndInv'
  <1> USE DEF IndInv
  <1> DEFINE p == job[q].block[1]
             Y == {b[1] : b \in peer[q].reqs}
             c == IF PieceBad(q) THEN MarkBroken(ct, p) ELSE ct
             Z == IF PieceBad(q) THEN {p} \ ct.have ELSE {}
             X == Z \cup (Y \ ct.have)
  <1>1. /\ UNCHANGED <<phase, inflight, streamed, disk>> /\ phase = "live"
        /\ job[q].pc \in {"check", "bad"} /\ Fails(q, c)
        /\ upset' \in {upset, upset \cup {p}}
        /\ ~PieceBad(q) => upset' = upset \cup {p}
    BY DEF CheckFails, PieceBad, At
  <1>2. ct \in Trackers /\ p \in Pieces
    BY <1>1, BlockPiece DEF TypeOK
  <1>3. /\ c \in Trackers /\ c.hns = ct.hns /\ c.have = ct.have /\ c.selected = ct.selected
        /\ c.queue = ct.queue \cup Z
        /\ c.chunks = {b \in ct.chunks : b[1] \notin Z}
    <2>1. CASE PieceBad(q)
      BY <1>2, <2>1, MarkBrokenType
    <2>2. CASE ~PieceBad(q)
      BY <1>2, <2>2 DEF Trackers
    <2> QED BY <2>1, <2>2
  <1> HIDE DEF c
  <1>4. /\ ct' \in Trackers
        /\ ct'.hns = c.hns /\ ct'.have = c.have /\ ct'.selected = c.selected
        /\ ct'.queue = c.queue \cup (Y \ c.have)
        /\ ct'.chunks = {b \in c.chunks : b[1] \notin Y \ c.have}
        /\ peer' \in [Peers -> PeerStates]
        /\ peer'[q].reqs = {}
        /\ \A r \in Peers \ {q} : peer'[r] = peer[r]
        /\ job' = [job EXCEPT ![q] = NoJob]
        /\ job' \in [Peers -> Writing \cup {NoJob}]
    BY <1>1, <1>3, FailsType
  <1>5. /\ ct'.hns = ct.hns /\ ct'.have = ct.have /\ ct'.selected = ct.selected
        /\ ct'.queue = ct.queue \cup X
        /\ ct'.chunks = {b \in ct.chunks : b[1] \notin X}
    BY <1>3, <1>4
  <1>6. TypeOK' /\ HnsInSync' /\ RequestersConnected'
    BY <1>1, <1>2, <1>4, <1>5 DEF TypeOK, HnsInSync, RequestersConnected, Connected
  <1>7. X \in SUBSET Pieces /\ X \cap ct.have = {} /\ Y \subseteq X \cup ct.have
    BY <1>2, OwedPieces
  <1>8. p \in X \cup ct.have \cup upset'
    BY <1>1, <1>2
  <1>9. CompleteIsChecked' /\ MissingIsComing'
    <2> HIDE DEF X
    <2> QED BY <1>1, <1>4, <1>5, <1>7, <1>8, EndStep
  <1> QED BY <1>6, <1>9

(* disconnect_all_peers_that_have_full_torrent forgets requests, but only  *)
(* when every selected piece is had.                                       *)
LEMMA FinishedHasAll ==
  ASSUME IndInv, FinishedAndNoStreams(ct)
  PROVE  ct.selected \subseteq ct.have
  <1>1. IsFiniteSet(ct.selected \ ct.have) /\ Cardinality(ct.selected \ ct.have) = 0
    BY FinitePieces DEF IndInv, TypeOK, Trackers, FinishedAndNoStreams, IsFinished, HnsInSync, CalcHns
  <1>2. ct.selected \ ct.have = {}
    BY <1>1, FS_EmptySet
  <1> QED BY <1>2

LEMMA CompletedInv ==
  ASSUME IndInv, NEW q \in Peers, OnPieceCompleted(q)
  PROVE  IndInv'
  <1> USE DEF IndInv
  <1> DEFINE p == job[q].block[1]
  <1>1. /\ UNCHANGED <<phase, inflight, streamed, disk, upset>> /\ phase = "live"
        /\ job[q].pc = "done" /\ job' = [job EXCEPT ![q] = NoJob]
        /\ ct' = UpdateFileHave(ct, p)
        /\ peer' = IF FinishedAndNoStreams(ct) THEN DisconnectFull(peer) ELSE peer
    BY DEF OnPieceCompleted, At
  <1>2. ct \in Trackers /\ p \in Pieces
    BY <1>1, BlockPiece DEF TypeOK
  <1>3. /\ ct' \in Trackers /\ ct'.hns = ct.hns /\ ct'.have = ct.have /\ ct'.selected = ct.selected
        /\ ct'.queue = ct.queue /\ ct'.chunks = ct.chunks
    <2> HIDE DEF p
    <2> QED BY <1>1, <1>2, UpdateFileHaveType
  <1>4. /\ job' \in [Peers -> Writing \cup {NoJob}]
        /\ \A r \in Peers \ {q} : job'[r] = job[r]
        /\ job'[q].pc = "idle"
    BY <1>1 DEF TypeOK, NoJob
  <1>5. /\ peer' \in [Peers -> PeerStates]
        /\ \A r \in Peers : peer'[r] = peer[r] \/ peer'[r].reqs = {}
    BY <1>1 DEF TypeOK, DisconnectFull, Absent, PeerStates
  <1>6. TypeOK' /\ HnsInSync' /\ RequestersConnected'
    BY <1>1, <1>3, <1>4, <1>5 DEF TypeOK, HnsInSync, RequestersConnected, Connected
  <1>7. CompleteIsChecked'
    <2>1. BeingChecked \subseteq BeingChecked'
      BY <1>1, <1>4 DEF BeingChecked
    <2> QED BY <1>1, <1>3, <2>1 DEF CompleteIsChecked
  <1>8. MissingIsComing'
    <2>1. CASE FinishedAndNoStreams(ct)
      BY <1>3, <2>1, FinishedHasAll DEF MissingIsComing, Outstanding
    <2>2. CASE ~FinishedAndNoStreams(ct)
      <3>1. \A b : BeingWritten(b) => BeingWritten(b)'
        BY <1>1, <1>4 DEF BeingWritten
      <3> QED BY <1>1, <1>3, <2>2, <3>1 DEF MissingIsComing, Outstanding
    <2> QED BY <2>1, <2>2
  <1> QED BY <1>6, <1>7, <1>8

(* The selection of files: a piece selected and not had is queued at once, *)
(* whoever is at it.                                                       *)
LEMMA OnlyFilesInv ==
  ASSUME IndInv, NEW only \in SUBSET Files, UpdateOnlyFiles(only)
  PROVE  IndInv'
  <1> USE DEF IndInv
  <1> DEFINE sel == SelectedBy(only)
  <1>1. /\ UNCHANGED <<phase, inflight, job, streamed, disk, upset>>
        /\ phase = "live"
        /\ ct' = UpdateSelected(ct, sel) /\ peer' \in {peer, Reconnected(peer)}
    BY DEF UpdateOnlyFiles
  <1>2. ct \in Trackers /\ sel \in SUBSET Pieces
    BY SelectedByType DEF TypeOK
  <1> HIDE DEF sel
  <1>3. /\ ct' \in Trackers /\ ct'.hns = CalcHns(ct.have, sel)
        /\ ct'.have = ct.have /\ ct'.selected = sel
        /\ sel \ ct.have \subseteq ct'.queue
        /\ ct'.chunks \subseteq ct.chunks
    BY <1>1, <1>2, UpdateSelectedType
  <1>4. /\ peer' \in [Peers -> PeerStates]
        /\ \A q \in Peers : peer'[q].reqs = peer[q].reqs
        /\ \A q \in Peers : Connected(q) => peer'[q] = peer[q]
    BY <1>1, ReconnectedFrame DEF TypeOK
  <1>5. TypeOK' /\ HnsInSync'
    BY <1>1, <1>3, <1>4 DEF TypeOK, HnsInSync
  <1>6. RequestersConnected'
    BY <1>4 DEF RequestersConnected, Connected
  <1>7. CompleteIsChecked'
    BY <1>1, <1>3 DEF CompleteIsChecked, BeingChecked
  <1>8. Outstanding' = {}
    BY <1>3 DEF Outstanding
  <1>9. MissingIsComing'
    BY <1>8 DEF MissingIsComing
  <1> QED BY <1>5, <1>6, <1>7, <1>9

(* Nobody is connected and nobody writes.                                  *)
LEMMA AloneType ==
  ASSUME peer' = [q \in Peers |-> Absent], job' = [q \in Peers |-> NoJob],
         inflight' = NobodyInflight
  PROVE  /\ peer' \in [Peers -> PeerStates]
         /\ job' \in [Peers -> Writing \cup {NoJob}]
         /\ inflight' \in [Pieces -> Peers \cup {NoPeer}]
         /\ \A p \in Pieces : inflight'[p] = NoPeer
         /\ RequestersConnected'
  BY DEF Absent, PeerStates, NobodyInflight, RequestersConnected

LEMMA WriteFailsInv ==
  ASSUME IndInv, NEW q \in Peers, WriteFails(q)
  PROVE  IndInv'
  <1> USE DEF IndInv
  <1>1. /\ UNCHANGED <<ct, streamed, disk, upset>> /\ phase' = "error"
        /\ peer' = [x \in Peers |-> Absent] /\ job' = [x \in Peers |-> NoJob]
        /\ inflight' = NobodyInflight
    BY DEF WriteFails
  <1>2. TypeOK' /\ RequestersConnected'
    BY <1>1, AloneType DEF TypeOK
  <1> QED BY <1>1, <1>2 DEF HnsInSync

(* A pause queues the pieces in flight.  One that is no longer in flight   *)
(* has all its chunks, so its check was cut off and the piece is upset.    *)
LEMMA PauseInv ==
  ASSUME IndInv, Pause
  PROVE  IndInv'
  <1> USE DEF IndInv
  <1> DEFINE F == {p \in Pieces : inflight[p] # NoPeer}
  <1>1. /\ UNCHANGED <<streamed, disk>> /\ phase = "live" /\ phase' = "paused"
        /\ ct' = MarkBrokenAll(ct, F)
        /\ upset' = upset \cup (BeingChecked \ ct.have)
        /\ peer' = [x \in Peers |-> Absent] /\ job' = [x \in Peers |-> NoJob]
        /\ inflight' = NobodyInflight
    BY DEF Pause
  <1>2. ct \in Trackers /\ F \in SUBSET Pieces
    BY DEF TypeOK
  <1>3. /\ ct' \in Trackers /\ ct'.hns = ct.hns /\ ct'.have = ct.have
        /\ ct'.selected = ct.selected
        /\ ct'.queue = ct.queue \cup (F \ ct.have)
        /\ ct'.chunks = {b \in ct.chunks : b[1] \notin F \ ct.have}
    <2> HIDE DEF F
    <2> QED BY <1>1, <1>2, MarkBrokenAllType
  <1>4. BeingChecked \subseteq Pieces
    BY BlockPiece DEF BeingChecked
  <1>5. TypeOK' /\ HnsInSync' /\ RequestersConnected'
    BY <1>1, <1>3, <1>4, AloneType DEF TypeOK, HnsInSync
  <1>6. CompleteIsChecked'
    <2> SUFFICES ASSUME NEW p \in Pieces, BlocksOf(p) \subseteq ct'.chunks
                 PROVE  p \in ct'.have \cup upset'
      BY DEF CompleteIsChecked
    <2>1. BlocksOf(p) \subseteq ct.chunks
      BY <1>3
    <2> QED BY <1>1, <1>3, <2>1 DEF CompleteIsChecked
  <1>7. Outstanding' = {}
    <2> SUFFICES ASSUME NEW p \in Outstanding' PROVE FALSE
      OBVIOUS
    <2>1. p \in Outstanding /\ p \in Pieces /\ p \notin F /\ p \notin ct.have \cup upset'
      BY <1>1, <1>3 DEF Outstanding, TypeOK, Trackers
    <2>2. BlocksOf(p) \subseteq ct.chunks
      BY <1>1, <2>1 DEF MissingIsComing
    <2> QED BY <1>1, <2>1, <2>2 DEF CompleteIsChecked
  <1>8. MissingIsComing'
    BY <1>7 DEF MissingIsComing
  <1> QED BY <1>5, <1>6, <1>8

LEMMA ResumeInv ==
  ASSUME IndInv, Resume
  PROVE  IndInv'
  BY DEF IndInv, Resume, TypeOK, HnsInSync, RequestersConnected, Connected,
         CompleteIsChecked, BeingChecked, MissingIsComing, Outstanding, BeingWritten

(* A new tracker queues whatever is selected and not had, and takes a      *)
(* piece's chunks for marked only when the piece is had.                   *)
LEMMA RestartInv ==
  ASSUME IndInv, Restart
  PROVE  IndInv'
  <1> USE DEF IndInv
  <1> DEFINE H == {p \in Pieces : \A b \in BlocksOf(p) : disk[b] = "good"}
  <1>1. /\ phase' = "live" /\ ct' = NewTracker(H, ct.selected)
        /\ disk' = disk /\ upset' = {} /\ streamed' = {}
        /\ peer' = [x \in Peers |-> Absent] /\ job' = [x \in Peers |-> NoJob]
        /\ inflight' = NobodyInflight
    BY DEF Restart, Fresh
  <1>2. H \in SUBSET Pieces /\ ct.selected \in SUBSET Pieces
    BY DEF TypeOK, Trackers
  <1> HIDE DEF H
  <1>3. ct' \in Trackers
    BY <1>1, <1>2, NewTrackerType
  <1>4. /\ ct'.have = H /\ ct'.selected = ct.selected /\ ct'.queue = ct.selected \ H
        /\ ct'.chunks = {b \in Blocks : b[1] \in H}
        /\ ct'.hns = CalcHns(H, ct.selected)
    BY <1>1 DEF NewTracker, ComputeQueued, ComputeChunkStatus
  <1>5. TypeOK' /\ HnsInSync' /\ RequestersConnected'
    BY <1>1, <1>3, <1>4, AloneType DEF TypeOK, HnsInSync
  <1>6. CompleteIsChecked'
    BY <1>4, DownloadAssumption DEF CompleteIsChecked, BlocksOf
  <1>7. Outstanding' = {}
    BY <1>4 DEF Outstanding
  <1>8. MissingIsComing'
    BY <1>7 DEF MissingIsComing
  <1> QED BY <1>5, <1>6, <1>8

LEMMA NextInv == IndInv /\ [Next]_vars => IndInv'
  <1> SUFFICES ASSUME IndInv, [Next]_vars PROVE IndInv'
    OBVIOUS
  <1>1. ASSUME NEW q \in Peers, Work(q) PROVE IndInv'
    <2>1. CASE \E p \in Pieces : Reserve(q, p)
      BY <2>1, RequestInv
    <2>2. CASE \E b \in Blocks : Receive(q, b, TRUE)
      BY <2>2, ReceiveInv
    <2> QED BY <1>1, <2>1, <2>2, ConnectionInv, WriteInv, MarkChunkInv, CheckPieceInv,
               CheckEndInv, CompletedInv, IdleEndInv DEF Work
  <1>2. ASSUME NEW q \in Peers, Trouble(q) PROVE IndInv'
    <2>1. CASE \E p \in Pieces : Steal(q, p)
      BY <2>1, RequestInv
    <2>2. CASE \E b \in Blocks : Receive(q, b, FALSE)
      BY <2>2, ReceiveInv
    <2> QED BY <1>2, <2>1, <2>2, ConnectionInv, IdleEndInv, WriteFailsInv, CheckEndInv DEF Trouble
  <1>3. CASE UNCHANGED vars
    BY <1>3 DEF vars, IndInv, TypeOK, HnsInSync, RequestersConnected, Connected,
         CompleteIsChecked, BeingChecked, MissingIsComing, Outstanding, BeingWritten
  <1> QED BY <1>1, <1>2, <1>3, OnlyFilesInv, StreamInv, PauseInv, ResumeInv, RestartInv DEF Next

-----------------------------------------------------------------------------

(* However the tasks of the peers interleave, whatever is stolen, choked,  *)
(* selected, paused or restarted: complete pieces are had, being checked   *)
(* or upset, and every missing chunk of a piece taken from the queue is    *)
(* requested from the peer it is expected from or is being written.        *)
THEOREM Invariance == Spec => []IndInv
  BY InitInv, NextInv, PTL DEF Spec

(* The quick stats of the chunk tracker are the counts of its bitfields in *)
(* every state, though mark_piece_downloaded only moves them by a piece.   *)
THEOREM StatsInSync == Spec => []HnsInSync
  <1>1. IndInv => HnsInSync
    BY DEF IndInv
  <1> QED BY <1>1, Invariance, PTL

(* No selected piece is lost between the queue of the tracker, the         *)
(* requests of the peers and the writers, unless its check was cut off.    *)
THEOREM NoPieceLost == Spec => []PieceAccounted
  <1>1. IndInv => PieceAccounted
    <2> SUFFICES ASSUME IndInv, phase # "error",
                        NEW p \in ct.selected \ (ct.have \cup upset), p \notin ct.queue
                 PROVE  Owed(p) \/ InWrite(p)
      BY DEF PieceAccounted
    <2> USE DEF IndInv
    <2>1. p \in Outstanding /\ p \in Pieces
      BY DEF Outstanding, TypeOK, Trackers
    <2>2. CASE BlocksOf(p) \subseteq ct.chunks
      <3>1. p \in BeingChecked
        BY <2>1, <2>2 DEF CompleteIsChecked
      <3> QED BY <3>1 DEF BeingChecked, InWrite, Idle
    <2>3. CASE ~(BlocksOf(p) \subseteq ct.chunks)
      <3>1. PICK b \in BlocksOf(p) : b \notin ct.chunks
        BY <2>3
      <3>2. CASE BeingWritten(b)
        BY <3>1, <3>2 DEF BeingWritten, InWrite, Idle, BlocksOf
      <3>3. CASE inflight[p] # NoPeer /\ b \in peer[inflight[p]].reqs
        <4>1. inflight[p] \in Peers
          BY <2>1, <3>3 DEF TypeOK
        <4> QED BY <3>1, <3>3, <4>1 DEF Owed, RequestersConnected
      <3> QED BY <2>1, <3>1, <3>2, <3>3 DEF MissingIsComing
    <2> QED BY <2>2, <2>3
  <1> QED BY <1>1, Invariance, PTL
=============================================================================
