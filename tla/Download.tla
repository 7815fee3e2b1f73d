------------------------------ MODULE Download ------------------------------
(***************************************************************************)
(* The piece level of a live torrent in librqbit: the chunk tracker, the   *)
(* pieces in flight, and the tasks of the peers that reserve pieces, steal *)
(* them from each other, write blocks to disk, check and announce pieces.  *)
(* A peer's requester and its block writer share one task, so a peer that  *)
(* is writing requests nothing; the tasks of two peers interleave at every *)
(* lock.  Pieces are the unit of the byte counters.                        *)
(***************************************************************************)
EXTENDS Integers, FiniteSets

CONSTANTS
    Peers, NoPeer,
    Pieces,
    Files,       \* 1..n, in the order of the torrent
    FilePieces,  \* FileInfo.piece_range of each file
    Blocks,      \* the chunks: <<piece, chunk index>>
    Has,         \* the bitfield each peer announces
    MaxTrouble   \* bound: faults and actions of the user

ASSUME DownloadAssumption ==
    /\ NoPeer \notin Peers
    /\ IsFiniteSet(Pieces)
    /\ FilePieces \in [Files -> SUBSET Pieces]
    /\ \A b \in Blocks : b[1] \in Pieces
    /\ \A p \in Pieces : \E b \in Blocks : b[1] = p
    /\ Has \in [Peers -> SUBSET Pieces]
    /\ MaxTrouble \in Nat

VARIABLES
    phase,    \* "live", "paused" or "error"
    ct,       \* the ChunkTracker
    inflight, \* inflight_pieces: who is expected to send each piece
    peer,     \* per peer: table state, choked, inflight_requests, has an average time
    job,      \* per peer: write_to_disk of the block it is writing
    streamed, \* files with an open stream
    disk,     \* what the files hold, per block
    upset,    \* pieces whose check was cut off or could not read: for the properties
    left      \* how much of MaxTrouble is left

vars == <<phase, ct, inflight, peer, job, streamed, disk, upset, left>>

BlocksOf(p) == {b \in Blocks : b[1] = p}

Spend == left > 0 /\ left' = left - 1

-----------------------------------------------------------------------------
(* ChunkTracker *)

SelectedBy(only) == UNION {FilePieces[f] : f \in only}

ComputeQueued(have, selected) == selected \ have

ComputeChunkStatus(have) == {b \in Blocks : b[1] \in have}

RecalcPerFile(have) == [f \in Files |-> Cardinality(FilePieces[f] \cap have)]

CalcHns(have, selected) ==
    [have |-> Cardinality(have), needed |-> Cardinality(selected \ have)]

NewTracker(have, selected) ==
    [have |-> have, selected |-> selected,
     queue |-> ComputeQueued(have, selected),
     chunks |-> ComputeChunkStatus(have),
     perFile |-> RecalcPerFile(have),
     hns |-> CalcHns(have, selected)]

(* Mutant: the search stops at the first file counted as complete.         *)
IterUntilComplete(c) ==
    c.queue \cap SelectedBy({f \in Files : \A g \in Files :
                                g <= f => c.perFile[g] # Cardinality(FilePieces[g])})

(* iter_queued_pieces: the pieces of files not counted as complete.  The   *)
(* order of files and of pieces in a file is left open.                    *)
IterQueued(c) ==
    c.queue \cap SelectedBy({f \in Files : c.perFile[f] # Cardinality(FilePieces[f])})

ReserveNeeded(c, p) == [c EXCEPT !.queue = @ \ {p}]

MarkBroken(c, p) ==
    IF p \in c.have THEN c
    ELSE [c EXCEPT !.queue = @ \cup {p}, !.chunks = @ \ BlocksOf(p)]

MarkBrokenAll(c, ps) ==
    LET lost == ps \ c.have
    IN  [c EXCEPT !.queue = @ \cup lost,
                  !.chunks = {b \in @ : b[1] \notin lost}]

(* Mutant: the byte counters are moved for a piece that is had already.    *)
CountTwice(c, p) ==
    [c EXCEPT !.have = @ \cup {p},
              !.hns = [have |-> @.have + 1,
                       needed |-> IF p \in c.selected THEN @.needed - 1 ELSE @.needed]]

MarkDownloaded(c, p) ==
    IF p \in c.have THEN c
    ELSE [c EXCEPT !.have = @ \cup {p},
                   !.hns = [have |-> @.have + 1,
                            needed |-> IF p \in c.selected THEN @.needed - 1 ELSE @.needed]]

(* A block of a piece whose blocks are all there is not marked again.      *)
MarkChunkDownloaded(c, b) ==
    IF BlocksOf(b[1]) \subseteq c.chunks THEN c ELSE [c EXCEPT !.chunks = @ \cup {b}]

(* A piece selected and not had is broken, in flight or not; one neither   *)
(* selected nor had leaves the queue.                                      *)
UpdateSelected(c, selected) ==
    LET lost == selected \ c.have
    IN  [c EXCEPT !.selected = selected,
                  !.queue = (@ \cap (selected \cup c.have)) \cup lost,
                  !.chunks = {b \in @ : b[1] \notin lost},
                  !.hns = CalcHns(c.have, selected)]

IsFileFinished(c, f) == FilePieces[f] \subseteq c.have

IsFinished(c) == c.hns.needed = 0

(* The files counted for a piece: from the first that has it, as long as   *)
(* they have it.                                                           *)
FilesCounted(p) ==
    {f \in Files : \E g \in Files :
        /\ g <= f
        /\ \A h \in g..f : p \in FilePieces[h]
        /\ \A h \in Files : h < g => p \notin FilePieces[h]}

UpdateFileHave(c, p) ==
    [c EXCEPT !.perFile = [f \in Files |-> IF f \in FilesCounted(p) THEN @[f] + 1 ELSE @[f]]]

-----------------------------------------------------------------------------
(* TorrentStateLive *)

NoJob == [pc |-> "idle", block |-> <<>>, good |-> FALSE]
Absent == [st |-> "absent", choked |-> TRUE, reqs |-> {}, timed |-> FALSE]
NobodyInflight == [p \in Pieces |-> NoPeer]
Connected(q) == peer[q].st \in {"live", "leaving"}
Idle(q) == job[q].pc = "idle"

HasActiveStreamsUnfinished(c) == \E f \in streamed : ~IsFileFinished(c, f)

FinishedAndNoStreams(c) == IsFinished(c) /\ ~HasActiveStreamsUnfinished(c)

Fresh(have, selected) ==
    /\ phase' = "live"
    /\ ct' = NewTracker(have, selected)
    /\ inflight' = NobodyInflight
    /\ peer' = [q \in Peers |-> Absent]
    /\ job' = [q \in Peers |-> NoJob]

Init ==
    /\ phase = "live"
    /\ \E only \in SUBSET Files \ {{}} : ct = NewTracker({}, SelectedBy(only))
    /\ inflight = NobodyInflight
    /\ peer = [q \in Peers |-> Absent]
    /\ job = [q \in Peers |-> NoJob]
    /\ streamed = {}
    /\ disk = [b \in Blocks |-> "none"]
    /\ upset = {}
    /\ left = MaxTrouble

(* A connection is up, its bitfield and the first unchoke are in: until    *)
(* then the requester waits.  The peer table around it is module Peers.    *)
Connect(q) ==
    /\ phase = "live"
    /\ peer[q].st = "absent"
    /\ Idle(q)
    /\ peer' = [peer EXCEPT ![q].st = "live", ![q].choked = FALSE]
    /\ UNCHANGED <<phase, ct, inflight, job, streamed, disk, upset, left>>

OnUnchoked(q) ==
    /\ Connected(q) /\ Idle(q) /\ peer[q].choked
    /\ peer' = [peer EXCEPT ![q].choked = FALSE]
    /\ UNCHANGED <<phase, ct, inflight, job, streamed, disk, upset, left>>

OnChoked(q) ==
    /\ Connected(q) /\ Idle(q) /\ ~peer[q].choked
    /\ Spend
    /\ peer' = [peer EXCEPT ![q].choked = TRUE]
    /\ UNCHANGED <<phase, ct, inflight, job, streamed, disk, upset>>

Requesting(q) ==
    /\ phase = "live"
    /\ peer[q].st = "live"
    /\ Idle(q)
    /\ ~FinishedAndNoStreams(ct)
    /\ ~peer[q].choked

(* The requester inserts each chunk of its piece before it waits for       *)
(* anything a second time, so the requests of a piece are made in one step.*)
Request(q, p) ==
    /\ inflight' = [inflight EXCEPT ![p] = q]
    /\ peer' = [peer EXCEPT ![q].reqs = @ \cup BlocksOf(p)]

PriorityPieces(q) ==
    {p \in SelectedBy(streamed) \cap Has[q] : p \notin ct.have /\ inflight[p] = NoPeer}

Reserve(q, p) ==
    /\ Requesting(q)
    /\ p \in IF PriorityPieces(q) # {} THEN PriorityPieces(q) ELSE IterQueued(ct) \cap Has[q]
    /\ Request(q, p)
    /\ ct' = ReserveNeeded(ct, p)
    /\ UNCHANGED <<phase, job, streamed, disk, upset, left>>

(* A writer holds the lock of its piece from the check that the piece is   *)
(* its own until the block is marked.                                      *)
Locked(p) == \E q \in Peers : job[q].pc \in {"write", "mark"} /\ job[q].block[1] = p

(* The piece that has been in flight longest; which one that is is left    *)
(* open.  Neither the bitfield nor the queue is looked at, and the old     *)
(* owner keeps its requests.  A piece must be late by a multiple of the    *)
(* thief's average, so steals are counted as trouble.                      *)
Steal(q, p) ==
    /\ Requesting(q)
    /\ peer[q].timed
    /\ inflight[p] \notin {NoPeer, q}
    /\ ~Locked(p)
    /\ Spend
    /\ Request(q, p)
    /\ UNCHANGED <<phase, ct, job, streamed, disk, upset>>

(* A block arrives.  If the piece is no longer this peer's it is dropped.  *)
Receive(q, b, good) ==
    /\ phase = "live"
    /\ Connected(q) /\ Idle(q)
    /\ b \in peer[q].reqs /\ b[1] \in Has[q]
    /\ IF good THEN UNCHANGED left ELSE Spend
    /\ peer' = [peer EXCEPT ![q].reqs = @ \ {b}]
    /\ job' = IF inflight[b[1]] = q
              THEN [job EXCEPT ![q] = [pc |-> "write", block |-> b, good |-> good]]
              ELSE job
    /\ UNCHANGED <<phase, ct, inflight, streamed, disk, upset>>

At(q, pc) == phase = "live" /\ job[q].pc = pc

WriteChunk(q) ==
    /\ At(q, "write")
    /\ disk' = [disk EXCEPT ![job[q].block] = IF job[q].good THEN "good" ELSE "bad"]
    /\ job' = [job EXCEPT ![q].pc = "mark"]
    /\ UNCHANGED <<phase, ct, inflight, peer, streamed, upset, left>>

(* write_chunk fails: on_fatal_error and stop_with_error end the torrent.  *)
WriteFails(q) ==
    /\ At(q, "write")
    /\ Spend
    /\ phase' = "error"
    /\ inflight' = NobodyInflight
    /\ peer' = [x \in Peers |-> Absent]
    /\ job' = [x \in Peers |-> NoJob]
    /\ UNCHANGED <<ct, streamed, disk, upset>>

(* mark_chunk_downloaded under the lock of the torrent.                    *)
MarkChunk(q) ==
    /\ At(q, "mark")
    /\ LET b == job[q].block
           p == b[1]
           done == BlocksOf(p) \subseteq ct.chunks
           all == BlocksOf(p) \subseteq ct.chunks \cup {b}
       IN  /\ ct' = MarkChunkDownloaded(ct, b)
           /\ inflight' = IF ~done /\ all THEN [inflight EXCEPT ![p] = NoPeer] ELSE inflight
           /\ job' = IF ~done /\ all /\ inflight[p] # NoPeer
                     THEN [job EXCEPT ![q].pc = "check"]
                     ELSE [job EXCEPT ![q] = NoJob]
           /\ upset' = IF ~done /\ all /\ inflight[p] = NoPeer THEN upset \cup {p} ELSE upset
    /\ UNCHANGED <<phase, peer, streamed, disk, left>>

(* check_piece and, if the hash matches, mark_piece_downloaded: nothing    *)
(* that happens between the two can tell.                                  *)
CheckPiece(q) ==
    /\ At(q, "check")
    /\ LET p == job[q].block[1]
           ok == \A b \in BlocksOf(p) : disk[b] = "good"
       IN  /\ ct' = IF ok THEN MarkDownloaded(ct, p) ELSE ct
           /\ peer' = IF ok /\ Connected(q) THEN [peer EXCEPT ![q].timed = TRUE] ELSE peer
           /\ job' = [job EXCEPT ![q].pc = IF ok THEN "done" ELSE "bad"]
    /\ UNCHANGED <<phase, inflight, streamed, disk, upset, left>>

(* Mutant: the requests of the dead peer are forgotten.                    *)
DiedSilently(q, c, error) ==
    /\ ct' = c
    /\ peer' = [peer EXCEPT ![q] =
                  [Absent EXCEPT !.st = IF error /\ ~FinishedAndNoStreams(ct')
                                        THEN "absent" ELSE "notneeded"]]
    /\ job' = [job EXCEPT ![q] = NoJob]

(* on_peer_died of a Live peer: every piece it still owes is broken, its   *)
(* own or not.  Without an error, or once finished, it is not needed.      *)
Died(q, c, error) ==
    /\ ct' = MarkBrokenAll(c, {b[1] : b \in peer[q].reqs})
    /\ peer' = [peer EXCEPT ![q] =
                  [Absent EXCEPT !.st = IF error /\ ~FinishedAndNoStreams(ct')
                                        THEN "absent" ELSE "notneeded"]]
    /\ job' = [job EXCEPT ![q] = NoJob]

(* What becomes of a task that ends with an error after disconnect_all has *)
(* taken its peer out of Live already.                                     *)
Fails(q, c) ==
    IF Connected(q) THEN Died(q, c, TRUE)
    ELSE /\ ct' = c
         /\ job' = [job EXCEPT ![q] = NoJob]
         /\ UNCHANGED peer

(* check_piece cannot read: nothing puts the piece back.                   *)
CheckFails(q) ==
    /\ At(q, "check")
    /\ Spend
    /\ Fails(q, ct)
    /\ upset' = upset \cup {job[q].block[1]}
    /\ UNCHANGED <<phase, inflight, streamed, disk>>

(* The hash does not match.                                                *)
PieceBad(q) ==
    /\ At(q, "bad")
    /\ Fails(q, MarkBroken(ct, job[q].block[1]))
    /\ UNCHANGED <<phase, inflight, streamed, disk, upset, left>>

(* disconnect_all_peers_that_have_full_torrent: requests go unmarked.      *)
DisconnectFull(pr) ==
    [q \in Peers |-> IF pr[q].st \in {"live", "leaving"} /\ Has[q] = Pieces
                     THEN [Absent EXCEPT !.st = "notneeded"] ELSE pr[q]]

OnPieceCompleted(q) ==
    /\ At(q, "done")
    /\ ct' = UpdateFileHave(ct, job[q].block[1])
    /\ peer' = IF FinishedAndNoStreams(ct) THEN DisconnectFull(peer) ELSE peer
    /\ job' = [job EXCEPT ![q] = NoJob]
    /\ UNCHANGED <<phase, inflight, streamed, disk, upset, left>>

(* A connection error, a timeout, or data that was not asked for.          *)
Die(q) ==
    /\ phase = "live"
    /\ Connected(q) /\ Idle(q)
    /\ Spend
    /\ Died(q, ct, TRUE)
    /\ UNCHANGED <<phase, inflight, streamed, disk, upset>>

(* A peer that owes blocks it does not send is timed out.                  *)
TimeOut(q) ==
    /\ phase = "live"
    /\ Connected(q) /\ Idle(q)
    /\ \E b \in peer[q].reqs : b[1] \notin Has[q]
    /\ Died(q, ct, TRUE)
    /\ UNCHANGED <<phase, inflight, streamed, disk, upset, left>>

(* The requester sees nothing left to do, sends Disconnect and waits 100ms.*)
Leave(q) ==
    /\ phase = "live"
    /\ peer[q].st = "live" /\ Idle(q)
    /\ FinishedAndNoStreams(ct)
    /\ peer' = [peer EXCEPT ![q].st = "leaving"]
    /\ UNCHANGED <<phase, ct, inflight, job, streamed, disk, upset, left>>

Left(q) ==
    /\ phase = "live"
    /\ peer[q].st = "leaving" /\ Idle(q)
    /\ Died(q, ct, FALSE)
    /\ UNCHANGED <<phase, inflight, streamed, disk, upset, left>>

(* reconnect_all_not_needed_peers *)
Reconnected(pr) ==
    [q \in Peers |-> IF pr[q].st = "notneeded" THEN Absent ELSE pr[q]]

UpdateOnlyFiles(only) ==
    /\ phase = "live"
    /\ Spend
    /\ ct' = UpdateSelected(ct, SelectedBy(only))
    /\ peer' = IF IsFinished(ct') THEN peer ELSE Reconnected(peer)
    /\ UNCHANGED <<phase, inflight, job, streamed, disk, upset>>

(* FileStream: not needed peers are reconnected, then the stream is known. *)
OpenStream(f) ==
    /\ phase = "live"
    /\ f \notin streamed
    /\ Spend
    /\ streamed' = streamed \cup {f}
    /\ peer' = IF IsFileFinished(ct, f) THEN peer ELSE Reconnected(peer)
    /\ UNCHANGED <<phase, ct, inflight, job, disk, upset>>

CloseStream(f) ==
    /\ f \in streamed
    /\ streamed' = streamed \ {f}
    /\ UNCHANGED <<phase, ct, inflight, peer, job, disk, upset, left>>

(* The pieces between the removal from inflight_pieces and have.           *)
BeingChecked == {job[q].block[1] : q \in {x \in Peers : job[x].pc \in {"check", "bad"}}}

(* pause takes the tracker away from the tasks: a check that is under way  *)
(* ends in "torrent was paused".                                           *)
Pause ==
    /\ phase = "live"
    /\ Spend
    /\ phase' = "paused"
    /\ ct' = MarkBrokenAll(ct, {p \in Pieces : inflight[p] # NoPeer})
    /\ upset' = upset \cup (BeingChecked \ ct.have)
    /\ inflight' = NobodyInflight
    /\ peer' = [q \in Peers |-> Absent]
    /\ job' = [q \in Peers |-> NoJob]
    /\ UNCHANGED <<streamed, disk>>

Resume ==
    /\ phase = "paused"
    /\ phase' = "live"
    /\ UNCHANGED <<ct, inflight, peer, job, streamed, disk, upset, left>>

(* A restart of the program, or a start from the error state: the pieces   *)
(* are hashed anew (initial_check).                                        *)
Restart ==
    /\ IF phase = "error" THEN UNCHANGED left ELSE Spend
    /\ Fresh({p \in Pieces : \A b \in BlocksOf(p) : disk[b] = "good"}, ct.selected)
    /\ upset' = {}
    /\ streamed' = {}
    /\ UNCHANGED disk

Work(q) ==
    \/ Connect(q) \/ OnUnchoked(q)
    \/ \E p \in Pieces : Reserve(q, p)
    \/ \E b \in Blocks : Receive(q, b, TRUE)
    \/ WriteChunk(q) \/ MarkChunk(q) \/ CheckPiece(q)
    \/ PieceBad(q) \/ OnPieceCompleted(q)
    \/ TimeOut(q) \/ Left(q)

Trouble(q) ==
    \/ \E p \in Pieces : Steal(q, p)
    \/ \E b \in Blocks : Receive(q, b, FALSE)
    \/ OnChoked(q) \/ Die(q) \/ Leave(q)
    \/ WriteFails(q) \/ CheckFails(q)

Next ==
    \/ \E q \in Peers : Work(q) \/ Trouble(q)
    \/ \E only \in SUBSET Files : UpdateOnlyFiles(only)
    \/ \E f \in Files : OpenStream(f) \/ CloseStream(f)
    \/ Pause \/ Resume \/ Restart

Spec == Init /\ [][Next]_vars

FairSpec ==
    /\ Spec
    /\ \A q \in Peers : WF_vars(Work(q))
    /\ WF_vars(Resume)
    /\ WF_vars(phase = "error" /\ Restart)

-----------------------------------------------------------------------------

Trackers ==
    [have: SUBSET Pieces, selected: SUBSET Pieces, queue: SUBSET Pieces,
     chunks: SUBSET Blocks, perFile: [Files -> Nat], hns: [have: Int, needed: Int]]

PeerStates ==
    [st: {"absent", "live", "leaving", "notneeded"}, choked: BOOLEAN,
     reqs: SUBSET Blocks, timed: BOOLEAN]

Writing == [pc: {"write", "mark", "check", "bad", "done"}, block: Blocks, good: BOOLEAN]

TypeOK ==
    /\ phase \in {"live", "paused", "error"}
    /\ ct \in Trackers
    /\ inflight \in [Pieces -> Peers \cup {NoPeer}]
    /\ peer \in [Peers -> PeerStates]
    /\ job \in [Peers -> Writing \cup {NoJob}]
    /\ streamed \subseteq Files
    /\ disk \in [Blocks -> {"none", "good", "bad"}]
    /\ upset \subseteq Pieces

(* chunk_tracker.rs: the quick stats MUST be in sync with the bitfields,   *)
(* whatever pieces are completed twice, broken or selected in between.     *)
HnsInSync == ct.hns = CalcHns(ct.have, ct.selected)

Owed(p) == \E q \in Peers : Connected(q) /\ inflight[p] = q /\ peer[q].reqs \cap BlocksOf(p) # {}
InWrite(p) == \E q \in Peers : ~Idle(q) /\ job[q].block[1] = p

(* No piece gets lost between the queue, the requesters and the writers: a *)
(* selected piece that is missing is queued, owed by a connected peer it   *)
(* is expected from, or in the hands of a writer.  The ways to lose one    *)
(* are a check that cannot read, or that a pause or a second completion    *)
(* cuts off.                                                               *)
PieceAccounted ==
    phase # "error" =>
        \A p \in ct.selected \ (ct.have \cup upset) : p \in ct.queue \/ Owed(p) \/ InWrite(p)

(* The inductive invariant behind it.  A piece all of whose chunks are     *)
(* marked is had, being checked or upset.  Of a selected piece that is not *)
(* queued, every chunk that is missing is requested from the peer it is    *)
(* expected from or is being written, and without such a peer none is      *)
(* missing.                                                                *)
Outstanding == ct.selected \ (ct.have \cup upset \cup ct.queue)

BeingWritten(b) == \E q \in Peers : job[q].pc \in {"write", "mark"} /\ job[q].block = b

CompleteIsChecked ==
    \A p \in Pieces : BlocksOf(p) \subseteq ct.chunks => p \in ct.have \cup upset \cup BeingChecked

MissingIsComing ==
    \A p \in Outstanding :
        /\ \A b \in BlocksOf(p) \ ct.chunks :
              (inflight[p] # NoPeer /\ b \in peer[inflight[p]].reqs) \/ BeingWritten(b)
        /\ inflight[p] = NoPeer => BlocksOf(p) \subseteq ct.chunks

RequestersConnected == \A q \in Peers : peer[q].reqs # {} => Connected(q)

IndInv ==
    /\ TypeOK
    /\ HnsInSync
    /\ RequestersConnected
    /\ phase # "error" => CompleteIsChecked /\ MissingIsComing

(* Queued pieces all of whose files are counted as complete.               *)
Hidden == {p \in ct.queue : \A f \in Files :
                p \in FilePieces[f] => ct.perFile[f] = Cardinality(FilePieces[f])}

(* With the peers' help the download ends: all selected pieces are had but *)
(* for those upset, hidden by a file counted twice, or had only by peers   *)
(* that were parked as not needed.                                         *)
DownloadSettles ==
    <>[](\A p \in ct.selected \ (ct.have \cup upset \cup Hidden) :
            \A q \in Peers : p \in Has[q] => peer[q].st = "notneeded")
=============================================================================
