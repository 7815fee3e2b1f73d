----------------------------- MODULE Streaming -----------------------------
(***************************************************************************)
(* Streams of the files of a torrent in librqbit: FileStream, the table of *)
(* streams with their wakers, the pieces the streams ask for ahead of the  *)
(* rest, and the HTTP handler that answers range requests.  A piece becomes*)
(* had under the torrent's lock and the streams are woken later, under the *)
(* lock taken again; the torrent may be paused, fail or be removed between.*)
(***************************************************************************)
EXTENDS FileLayout

CONSTANTS
    Streams,
    Layouts,    \* file lengths of the torrents tried
    Window,     \* PER_STREAM_BUF_DEFAULT
    BufLen,     \* the capacity of the reader
    MaxTrouble  \* bound: pauses, errors, clients that leave

ASSUME StreamingAssumption ==
    /\ Window \in Nat \ {0} /\ BufLen \in Nat \ {0}
    /\ MaxTrouble \in Nat
    /\ \A l \in Layouts :
          /\ l \in Seq(Nat) /\ TotalLen(l) \in Nat \ {0}
          /\ \A f \in DOMAIN l : FileOffset(l, f) \in Nat /\ FileOffset(l, f) + l[f] <= TotalLen(l)

VARIABLES
    lens,    \* the torrent's layout
    state,   \* of the ManagedTorrent
    gen,     \* which TorrentStreams it has: a new one after each error
    have,    \* the pieces had
    waking,  \* pieces had whose on_piece_completed is still to come
    stream,  \* the FileStreams and their entries
    missed,  \* pieces whose on_piece_completed was cut off: for the properties
    left     \* how much of MaxTrouble is left

vars == <<lens, state, gen, have, waking, stream, missed, left>>

(* off and len are file_torrent_abs_offset and file_len of the StreamState. *)
Closed == [st |-> "closed", off |-> 0, len |-> 0, start |-> 0, pos |-> 0, waker |-> FALSE, gen |-> 0]
Spend == left > 0 /\ left' = left - 1
Open(s) == stream[s].st # "closed"

Init ==
    /\ lens \in Layouts
    /\ state = "live"
    /\ gen = 1
    /\ have = {}
    /\ waking = {}
    /\ stream = [s \in Streams |-> Closed]
    /\ missed = {}
    /\ left = MaxTrouble

-----------------------------------------------------------------------------
(* compute_current_piece *)
AbsPos(s) == stream[s].off + stream[s].pos
CurrentPiece(s) == AbsPos(s) \div PieceLen

(* Mutant: as if every read began with the piece.                          *)
WholePiece(s) == PieceLength(lens, CurrentPiece(s))

PieceRemaining(s) == PieceLength(lens, CurrentPiece(s)) - (AbsPos(s) % PieceLen)

QueueEnd(s) == stream[s].off + Min({stream[s].pos + Window, stream[s].len})

(* Mutant: the last piece of the window is left out.                       *)
QueueShort(s) ==
    LET first == CurrentPiece(s)
    IN  [k \in 1 .. (QueueEnd(s) \div PieceLen) - first |-> first + k - 1]

(* StreamState::queue: the pieces of the window from the position on.      *)
Queue(s) ==
    LET first == CurrentPiece(s)
    IN  [k \in 1 .. CeilDiv(QueueEnd(s), PieceLen) - first |-> first + k - 1]

(* iter_next_pieces: a piece of each stream in turn, in a random order of  *)
(* the streams, so the first that is missing is one of the first round     *)
(* with a missing one.  Entries of an abandoned table are not seen.        *)
Entries == {s \in Streams : Open(s) /\ stream[s].gen = gen}

NextPieces ==
    LET queues == {Queue(s) : s \in Entries}
        missing(k) == {q[k] : q \in {r \in queues : k <= Len(r)}} \ have
        rounds == {k \in 1..Window : missing(k) # {}}
    IN  IF rounds = {} THEN {} ELSE missing(Min(rounds))

(* A piece arrives and is verified; those the streams ask for go first.    *)
PieceDownloaded ==
    /\ state = "live"
    /\ \E p \in IF NextPieces # {} THEN NextPieces ELSE PiecesOf(lens) \ have :
          /\ have' = have \cup {p}
          /\ waking' = waking \cup {p}
    /\ UNCHANGED <<lens, state, gen, stream, missed, left>>

(* Mutant: only a stream at the start of the piece is woken.               *)
WakeAtStart(p) ==
    [s \in Streams |->
        IF Open(s) /\ stream[s].gen = gen /\ stream[s].waker /\ AbsPos(s) = p * PieceLen
        THEN [stream[s] EXCEPT !.waker = FALSE, !.st = "ready"]
        ELSE stream[s]]

(* wake_streams_on_piece_completed: the streams whose position is in it.   *)
WakeStreams(p) ==
    [s \in Streams |->
        IF Open(s) /\ stream[s].gen = gen /\ stream[s].waker /\ CurrentPiece(s) = p
        THEN [stream[s] EXCEPT !.waker = FALSE, !.st = "ready"]
        ELSE stream[s]]

OnPieceCompleted(p) ==
    /\ p \in waking
    /\ waking' = waking \ {p}
    /\ stream' = WakeStreams(p)
    /\ UNCHANGED <<lens, state, gen, have, missed, left>>

-----------------------------------------------------------------------------
(* The HTTP handler streams from the start of the range it is asked for;   *)
(* start_seek refuses a position past the end.                             *)
SeekOk(f, start) == start <= lens[f]

StreamFile(s, f, start) ==
    /\ ~Open(s)
    /\ state \in {"live", "paused"}
    /\ SeekOk(f, start)
    /\ stream' = [stream EXCEPT ![s] =
            [Closed EXCEPT !.st = "ready", !.off = FileOffset(lens, f), !.len = lens[f],
                           !.start = start, !.pos = start, !.gen = gen]]
    /\ UNCHANGED <<lens, state, gen, have, waking, missed, left>>

PollEof(s) ==
    /\ stream[s].st = "ready"
    /\ stream[s].pos = stream[s].len
    /\ stream' = [stream EXCEPT ![s].st = "eof"]
    /\ UNCHANGED <<lens, state, gen, have, waking, missed, left>>

(* with_storage_and_file: only a paused or a live torrent has files.       *)
HasStorage == state \in {"live", "paused"}

RegisterWaker(r) == [r EXCEPT !.st = "pending", !.waker = TRUE]

(* The position of the stream and of its entry.                            *)
Advance(r, n) == [r EXCEPT !.pos = @ + n]

(* poll_read: the waker is registered with the torrent's lock held.        *)
PollRead(s) ==
    /\ stream[s].st = "ready"
    /\ stream[s].pos < stream[s].len
    /\ LET n == Min({BufLen, PieceRemaining(s), stream[s].len - stream[s].pos})
       IN  stream' = [stream EXCEPT ![s] =
                CASE ~HasStorage -> [@ EXCEPT !.st = "failed"]
                  [] HasStorage /\ CurrentPiece(s) \notin have -> RegisterWaker(@)
                  [] OTHER -> Advance(@, n)]
    /\ UNCHANGED <<lens, state, gen, have, waking, missed, left>>

(* The client leaves, or the body has ended: drop_stream.                  *)
DropStream(s) ==
    /\ Open(s)
    /\ IF stream[s].st \in {"eof", "failed"} THEN UNCHANGED left ELSE Spend
    /\ stream' = [stream EXCEPT ![s] = Closed]
    /\ UNCHANGED <<lens, state, gen, have, waking, missed>>

-----------------------------------------------------------------------------
(* What waits for the lock in on_piece_completed finds no chunk tracker.   *)
Pause ==
    /\ state = "live" /\ Spend
    /\ state' = "paused"
    /\ waking' = {}
    /\ missed' = missed \cup waking
    /\ UNCHANGED <<lens, gen, have, stream>>

Unpause ==
    /\ state = "paused"
    /\ state' = "live"
    /\ UNCHANGED <<lens, gen, have, waking, stream, missed, left>>

(* stop_with_error: streams that wait are not told.                        *)
Fail ==
    /\ state = "live" /\ Spend
    /\ state' = "error"
    /\ waking' = {}
    /\ missed' = missed \cup waking
    /\ UNCHANGED <<lens, gen, have, stream>>

(* start from Error ends in a Paused state with a new table of streams.    *)
StartAgain ==
    /\ state = "error"
    /\ state' = "live"
    /\ gen' = gen + 1
    /\ UNCHANGED <<lens, have, waking, stream, missed, left>>

Reads(s) == PollRead(s) \/ PollEof(s)

Next ==
    \/ PieceDownloaded \/ \E p \in waking : OnPieceCompleted(p)
    \/ \E s \in Streams :
          \/ Reads(s) \/ DropStream(s)
          \/ \E f \in DOMAIN lens : \E start \in 0 .. lens[f] + 1 : StreamFile(s, f, start)
    \/ Pause \/ Unpause \/ Fail \/ StartAgain

Spec == Init /\ [][Next]_vars

(* Clients read, pieces arrive, a paused or failed torrent is started.     *)
FairSpec ==
    /\ Spec
    /\ \A s \in Streams : WF_vars(Reads(s))
    /\ WF_vars(PieceDownloaded)
    /\ WF_vars(\E p \in waking : OnPieceCompleted(p))
    /\ WF_vars(Unpause) /\ WF_vars(StartAgain)

-----------------------------------------------------------------------------

StreamStates ==
    [st: {"closed", "ready", "pending", "eof", "failed"}, off: Nat, len: Nat,
     start: Nat, pos: Nat, waker: BOOLEAN, gen: Nat]

TypeOK ==
    /\ lens \in Layouts
    /\ state \in {"live", "paused", "error"}
    /\ gen \in Nat
    /\ have \subseteq PiecesOf(lens) /\ waking \subseteq have /\ missed \subseteq have
    /\ stream \in [Streams -> StreamStates]

(* Every byte a client has been sent is of a piece that was verified:      *)
(* poll_read checks one piece and may read up to the end of another.       *)
SentVerified ==
    \A s \in Streams : \A i \in stream[s].start .. stream[s].pos - 1 :
        (stream[s].off + i) \div PieceLen \in have

(* A stream that waits asks for the piece it waits for, and once the piece *)
(* is had its wake is on the way, however pieces, polls and other streams  *)
(* interleave.  The exceptions: a pause or an error between the two, and a *)
(* stream older than the last error.                                       *)
WakeComes ==
    \A s \in Streams : stream[s].st = "pending" =>
        \/ stream[s].gen # gen
        \/ CurrentPiece(s) \notin have /\ CurrentPiece(s) \in ToSet(Queue(s))
        \/ CurrentPiece(s) \in waking \cup missed

(* What makes them inductive: a stream is inside its file and its file     *)
(* inside the torrent, it waits only before the end of the file and with   *)
(* its waker in the table, and no stream is of a table yet to come.        *)
InBounds ==
    \A s \in Streams :
        /\ stream[s].start <= stream[s].pos /\ stream[s].pos <= stream[s].len
        /\ stream[s].off + stream[s].len <= TotalLen(lens)
        /\ stream[s].gen <= gen
        /\ stream[s].st = "pending" => stream[s].waker /\ stream[s].pos < stream[s].len

IndInv == TypeOK /\ InBounds /\ SentVerified /\ WakeComes

(* Every stream comes to its end, fails or is left, unless its wake was    *)
(* missed or it is older than the last error.                              *)
StreamEnds ==
    \A s \in Streams : (stream[s].st = "ready") ~>
        \/ stream[s].st \in {"eof", "failed", "closed"}
        \/ stream[s].gen # gen \/ (stream[s].st = "pending" /\ CurrentPiece(s) \in missed)
=============================================================================
