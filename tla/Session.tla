------------------------------ MODULE Session ------------------------------
(***************************************************************************)
(* A librqbit session: the torrents it manages, the state machine of each  *)
(* (ManagedTorrent), the initial check with fast resume, and the session's *)
(* JSON database.  A handle outlives its place in the session, so torrents *)
(* are numbered in the order they are created.  Calls await between the    *)
(* steps they are split into here.  Piece exchange is module Download: here*)
(* a live torrent gains pieces one by one.                                 *)
(***************************************************************************)
EXTENDS Integers, Sequences, FiniteSets

CONSTANTS
    Hashes, NoHash,
    Pieces,
    Files,      \* 1..n
    FilePieces, \* the pieces each file shares in
    Callers,    \* the API requests under way
    MaxEvents   \* bound: calls, faults and restarts

ASSUME SessionAssumption ==
    /\ NoHash \notin Hashes
    /\ Pieces \subseteq Nat
    /\ FilePieces \in [Files -> SUBSET Pieces]
    /\ \A p \in Pieces : \E f \in Files : p \in FilePieces[f]
    /\ MaxEvents \in Nat

VARIABLES
    persist,  \* whether the session was given a persistence store
    up,       \* the program runs
    tor,      \* every handle created since the program started
    db,       \* SessionDatabase: the handles that are managed
    nextId,   \* Session.next_id
    mem,      \* db_content
    json,     \* session.json
    tfile,    \* torrents with a .torrent file
    bitv,     \* the .bitv files
    disk,     \* per torrent: the files of full length, the pieces that are right
    call,     \* the requests
    inits,    \* the initialize_and_start tasks
    restore,  \* entries of session.json not yet added by new_with_opts
    stale,    \* ids whose entry was last written from an old state: for the properties
    swept,    \* torrents whose files were deleted under a handle: for the properties
    left      \* how much of MaxEvents is left

files == <<mem, json, tfile, bitv, disk>>
vars == <<persist, up, tor, db, nextId, files, call, inits, restore, stale, swept, left>>

Idle == [op |-> "idle", pc |-> "idle", h |-> 0, id |-> 0, hash |-> NoHash,
         removed |-> NoHash, paused |-> FALSE, opt |-> FALSE]
Spend == left > 0 /\ left' = left - 1
Empty == [i \in {} |-> 0]
Put(f, i, v) == [j \in DOMAIN f \cup {i} |-> IF j = i THEN v ELSE f[j]]
NoFiles == [full |-> {}, good |-> {}]
Drop(f, i) == [j \in DOMAIN f \ {i} |-> f[j]]

Init ==
    /\ persist \in BOOLEAN
    /\ up = TRUE
    /\ tor = <<>>
    /\ db = {}
    /\ nextId = 0
    /\ mem = Empty
    /\ json = Empty
    /\ tfile = {}
    /\ bitv = Empty
    /\ disk = [t \in Hashes |-> NoFiles]
    /\ call = [c \in Callers |-> Idle]
    /\ inits = {}
    /\ restore = {}
    /\ stale = {}
    /\ swept = {}
    /\ left = MaxEvents

-----------------------------------------------------------------------------
(* ManagedTorrent *)

TorrentStates == {"initializing", "paused", "live", "error", "none"}

(* obj: how many Initializing states the torrent has had; taken: those     *)
(* whose files were taken; sound: the files it has now are opened ones.    *)
NewTorrent(hash, id, paused) ==
    [hash |-> hash, id |-> id, st |-> "initializing", paused |-> paused,
     have |-> {}, mapped |-> FALSE, obj |-> 1, errored |-> FALSE, taken |-> {},
     sound |-> FALSE, spawned |-> 0, twice |-> FALSE, fatal |-> FALSE]

InitTask(h, t, paused) ==
    [h |-> h, hash |-> t.hash, n |-> t.spawned + 1, obj |-> t.obj, errored |-> t.errored,
     paused |-> paused, pc |-> "check", have |-> {}, mapped |-> FALSE, sound |-> FALSE]

(* start while it is initializing: another task, on the same state.        *)
StartInitializing(t) ==
    [t EXCEPT !.spawned = @ + 1, !.twice = @ \/ t.spawned > 0]

PausedToLive(t) == [t EXCEPT !.st = "live"]

(* A new Initializing state with files opened anew, then the same as above.*)
ErrorToInitializing(t) ==
    [t EXCEPT !.st = "initializing", !.obj = @ + 1, !.errored = TRUE,
              !.spawned = @ + 1]

(* ManagedTorrent::start.  The paused flag is set before the state is      *)
(* looked at.                                                              *)
StartTorrent(h, paused) ==
    LET t == [tor[h] EXCEPT !.paused = paused] IN
    /\ tor' = [tor EXCEPT ![h] =
                  CASE t.st = "initializing" -> StartInitializing(t)
                    [] t.st = "paused" /\ ~paused -> PausedToLive(t)
                    [] t.st = "error" -> ErrorToInitializing(t)
                    [] OTHER -> t]
    /\ inits' = IF t.st = "initializing" THEN inits \cup {InitTask(h, t, paused)}
                ELSE IF t.st = "error"
                THEN inits \cup {InitTask(h, [t EXCEPT !.obj = @ + 1, !.errored = TRUE], paused)}
                ELSE inits

(* A fatal error that is on its way may be cancelled by a pause, or not.   *)
PausedFrom(t) == {[t EXCEPT !.st = "paused", !.paused = TRUE, !.fatal = f] : f \in {FALSE, t.fatal}}

(* stop_with_error, whatever the state is by now.                          *)
StopWithError(h) ==
    /\ tor[h].fatal
    /\ tor' = [tor EXCEPT ![h].fatal = FALSE, ![h].st = "error"]
    /\ UNCHANGED <<persist, up, db, nextId, files, call, inits, restore, stale, swept, left>>

-----------------------------------------------------------------------------
(* TorrentStateInitializing::check *)

Readable(i) ==
    IF i.obj \in tor[i.h].taken THEN {}
    ELSE {p \in Pieces : \A f \in Files : p \in FilePieces[f] => f \in disk[i.hash].full}

(* What validate_fastresume may read of the pieces claimed: one of each    *)
(* file, the first of the rest in a random order, and others at random.    *)
Samples(claimed) ==
    LET first == {CHOOSE p \in FilePieces[f] \cap claimed :
                        \A q \in FilePieces[f] \cap claimed : p <= q :
                    f \in {g \in Files : FilePieces[g] \cap claimed # {}}}
    IN  {first \cup s : s \in {r \in SUBSET (claimed \ first) : r = {} => claimed = first}}

(* Mutant: one piece is enough.                                            *)
ValidateOne(claimed, readable) ==
    IF claimed = {} THEN {TRUE} ELSE {({p} \subseteq readable) : p \in claimed}

(* Only a piece that cannot be read counts as broken.                      *)
ValidateFastresume(claimed, readable) == {s \subseteq readable : s \in Samples(claimed)}

(* The .bitv file is replaced or removed: what is mapped to the old one is *)
(* cut off from it.                                                        *)
CutOff(r, hash) == IF r.hash = hash THEN [r EXCEPT !.mapped = FALSE] ELSE r

(* NonPersistentBitVFactory *)
KeptInMemory == UNCHANGED bitv

StoreInitialCheck(hash, have) ==
    IF persist THEN bitv' = Put(bitv, hash, have) ELSE KeptInMemory

LoadBitv(hash) == hash \in DOMAIN bitv

EnsureFileLength(hash) == disk' = [disk EXCEPT ![hash].full = Files]

(* files.take leaves none behind.                                          *)
TakeFiles(t, obj) == [t EXCEPT !.taken = @ \cup {obj}]

(* ensure_file_length and files.take end the check: a second task on the   *)
(* same state finds no files.                                              *)
InitCheck(i) ==
    LET loads == ~i.errored /\ LoadBitv(i.hash)
        found == Readable(i) \cap disk[i.hash].good
        sound == i.obj \notin tor[i.h].taken
    IN
    /\ i \in inits /\ i.pc = "check"
    /\ \E ok \in IF loads THEN ValidateFastresume(bitv[i.hash], Readable(i)) ELSE {FALSE} :
          LET done == [i EXCEPT !.pc = "commit", !.have = IF ok THEN bitv[i.hash] ELSE found,
                                !.mapped = persist, !.sound = sound]
              cut(r) == IF ok \/ ~persist THEN r ELSE CutOff(r, i.hash)
          IN  /\ IF ok THEN UNCHANGED bitv ELSE StoreInitialCheck(i.hash, found)
              /\ tor' = [k \in DOMAIN tor |->
                            IF k = i.h THEN TakeFiles(cut(tor[k]), i.obj)
                            ELSE cut(tor[k])]
              /\ inits' = {cut(j) : j \in inits \ {i}} \cup {done}
    /\ IF sound THEN EnsureFileLength(i.hash) ELSE UNCHANGED disk
    /\ UNCHANGED <<persist, up, db, nextId, mem, json, tfile, call, restore, stale, swept, left>>

(* The check cannot load or store the bitfield: Error, from any state.     *)
InitFails(i) ==
    /\ i \in inits /\ i.pc = "check"
    /\ Spend
    /\ tor' = [tor EXCEPT ![i.h].st = "error"]
    /\ inits' = inits \ {i}
    /\ UNCHANGED <<persist, up, db, nextId, files, call, restore, stale, swept>>

(* Mutant: the start is not taken up again after the check.                *)
InitCommitStays(i) ==
    /\ i \in inits /\ i.pc = "commit"
    /\ inits' = inits \ {i}
    /\ tor' = IF tor[i.h].st # "initializing" THEN tor
              ELSE [tor EXCEPT ![i.h].st = "paused", ![i.h].have = i.have]
    /\ UNCHANGED <<persist, up, db, nextId, files, call, restore, stale, swept, left>>

(* The result is used if the torrent still is initializing.                *)
InitCommit(i) ==
    /\ i \in inits /\ i.pc = "commit"
    /\ inits' = inits \ {i}
    /\ tor' = IF tor[i.h].st # "initializing" THEN tor
              ELSE [tor EXCEPT ![i.h] = [@ EXCEPT !.st = IF i.paused THEN "paused" ELSE "live",
                                                  !.have = i.have, !.mapped = i.mapped,
                                                  !.sound = i.sound]]
    /\ UNCHANGED <<persist, up, db, nextId, files, call, restore, stale, swept, left>>

-----------------------------------------------------------------------------
(* A live torrent *)

(* MmapBitV: the bit is in the file, unless the file was replaced.         *)
SetBit(t, p) == bitv' = IF t.mapped THEN [bitv EXCEPT ![t.hash] = @ \cup {p}] ELSE bitv

(* A piece is written, checked and set in the bitmap.                      *)
Download(h, p) ==
    LET t == tor[h] IN
    /\ t.st = "live" /\ t.sound /\ p \notin t.have
    /\ tor' = [tor EXCEPT ![h].have = @ \cup {p}]
    /\ disk' = [disk EXCEPT ![t.hash].good = @ \cup {p}]
    /\ SetBit(t, p)
    /\ UNCHANGED <<persist, up, db, nextId, mem, json, tfile, call, inits, restore, stale, swept, left>>

(* A write fails: on_fatal_error hands the error to the receiver's task.   *)
FatalError(h) ==
    /\ tor[h].st = "live" /\ ~tor[h].fatal
    /\ IF tor[h].sound THEN Spend ELSE UNCHANGED left
    /\ tor' = [tor EXCEPT ![h].fatal = TRUE]
    /\ UNCHANGED <<persist, up, db, nextId, files, call, inits, restore, stale, swept>>

-----------------------------------------------------------------------------
(* JsonSessionPersistenceStore *)

(* next_id: the largest id of the database and one.                        *)
JsonNextId ==
    IF DOMAIN mem = {} THEN 0
    ELSE 1 + CHOOSE i \in DOMAIN mem : \A j \in DOMAIN mem : j <= i

SerializedTorrent(hash, paused) == [hash |-> hash, paused |-> paused]

(* get: the entry with the bytes of its .torrent file, if they are there.  *)
HasBytes(e) == e.hash \in tfile

StreamAll(m) == DOMAIN m

(* update_db reads the torrent's state, writes the .torrent file for store,*)
(* waits for the lock, inserts, and flushes under a lock of its own.       *)
UpdateDbReads(c) ==
    LET k == call[c] IN
    /\ k.pc = "read"
    /\ call' = [call EXCEPT ![c].pc = "insert", ![c].paused = tor[k.h].paused]
    /\ tfile' = IF k.op = "add" THEN tfile \cup {k.hash} ELSE tfile
    /\ UNCHANGED <<persist, up, tor, db, nextId, mem, json, bitv, disk, inits, restore, stale, swept, left>>

UpdateDbInserts(c) ==
    LET k == call[c] IN
    /\ k.pc = "insert"
    /\ mem' = Put(mem, k.id, SerializedTorrent(k.hash, k.paused))
    /\ stale' = IF k.h \in db /\ tor[k.h].paused = k.paused THEN stale \ {k.id} ELSE stale \cup {k.id}
    /\ call' = [call EXCEPT ![c].pc = "flush"]
    /\ UNCHANGED <<persist, up, tor, db, nextId, json, tfile, bitv, disk, inits, restore, swept, left>>

After(k) == IF k.op = "add" THEN [k EXCEPT !.pc = "start"]
            ELSE IF k.op = "delete" THEN [k EXCEPT !.pc = "unlink"] ELSE Idle

(* Mutant: the temporary file is not renamed.                              *)
FlushNothing(c) ==
    /\ call[c].pc = "flush"
    /\ call' = [call EXCEPT ![c] = After(@)]
    /\ UNCHANGED <<json, persist, up, tor, db, nextId, mem, tfile, bitv, disk, inits, restore, stale, swept, left>>

Flush(c) ==
    /\ call[c].pc = "flush"
    /\ json' = mem
    /\ call' = [call EXCEPT ![c] = After(@)]
    /\ UNCHANGED <<persist, up, tor, db, nextId, mem, tfile, bitv, disk, inits, restore, stale, swept, left>>

(* A failed store takes the torrent back out of the session, though not    *)
(* out of db_content; a failed delete leaves the .torrent and .bitv files. *)
FlushFails(c) ==
    LET k == call[c] IN
    /\ k.pc = "flush"
    /\ Spend
    /\ db' = IF k.op = "add" THEN db \ {k.h} ELSE db
    /\ stale' = stale \cup {k.id}
    /\ call' = [call EXCEPT ![c] = IF k.op = "delete" THEN [k EXCEPT !.pc = "files"] ELSE Idle]
    /\ UNCHANGED <<persist, up, tor, nextId, files, inits, restore, swept>>

(* try_update_persistence_metadata *)
UpdateMetadata(c, op, h) ==
    call' = IF persist
            THEN [call EXCEPT ![c] = [Idle EXCEPT !.op = op, !.pc = "read", !.h = h,
                                                  !.id = tor[h].id, !.hash = tor[h].hash]]
            ELSE call

-----------------------------------------------------------------------------
(* Session *)

Calls(c) == up /\ restore = {} /\ call[c] = Idle /\ Spend

(* Session::get *)
Handle(h) == h \in db

(* What add_torrent makes of its argument: the hash, and the options.      *)
AddCall(hash, paused) == [Idle EXCEPT !.op = "add", !.pc = "create", !.hash = hash, !.opt = paused]

FreshId == IF persist THEN JsonNextId ELSE nextId

(* add_torrent up to the choice of the id; its metadata is known.          *)
AddTorrent(c, hash, paused) ==
    /\ Calls(c)
    /\ call' = [call EXCEPT ![c] = [AddCall(hash, paused) EXCEPT !.id = FreshId]]
    /\ nextId' = IF persist THEN nextId ELSE nextId + 1
    /\ UNCHANGED <<persist, up, tor, db, files, inits, restore, stale, swept>>

Managed(hash, id) == \E h \in db : tor[h].hash = hash \/ tor[h].id = id

(* Under the lock of the session's database: AlreadyManaged for the same   *)
(* hash or the same id, or a new handle.                                   *)
AddCreates(c) ==
    LET k == call[c]
        h == Len(tor) + 1
    IN
    /\ k.pc = "create"
    /\ IF Managed(k.hash, k.id)
       THEN /\ call' = [call EXCEPT ![c] = Idle]
            /\ UNCHANGED <<tor, db>>
       ELSE /\ tor' = Append(tor, NewTorrent(k.hash, k.id, k.opt))
            /\ db' = db \cup {h}
            /\ call' = [call EXCEPT ![c] = [k EXCEPT !.pc = IF persist THEN "read" ELSE "start", !.h = h]]
    /\ UNCHANGED <<persist, up, nextId, files, inits, restore, stale, swept, left>>

(* The handle could be unpaused since it was created: the flag is set back.*)
AddStarts(c) ==
    /\ call[c].pc = "start"
    /\ StartTorrent(call[c].h, call[c].opt)
    /\ stale' = IF tor[call[c].h].paused # call[c].opt THEN stale \cup {call[c].id} ELSE stale
    /\ call' = [call EXCEPT ![c] = Idle]
    /\ UNCHANGED <<persist, up, db, nextId, files, restore, swept, left>>

Pause(c, h) ==
    /\ Calls(c)
    /\ tor[h].st = "live"
    /\ \E t \in PausedFrom(tor[h]) : tor' = [tor EXCEPT ![h] = t]
    /\ UpdateMetadata(c, "update", h)
    /\ UNCHANGED <<persist, up, db, nextId, files, inits, restore, stale, swept>>

Unpause(c, h) ==
    /\ Calls(c)
    /\ tor[h].st # "live"
    /\ StartTorrent(h, FALSE)
    /\ UpdateMetadata(c, "update", h)
    /\ UNCHANGED <<persist, up, db, nextId, files, restore, stale, swept>>

(* The selection itself is in module Download.                             *)
UpdateOnlyFiles(c, h) ==
    /\ Calls(c)
    /\ tor[h].st # "initializing"
    /\ UpdateMetadata(c, "update", h)
    /\ UNCHANGED <<persist, up, tor, db, nextId, files, inits, restore, stale, swept>>

(* delete: the handle leaves the session, is paused, and its files taken.  *)
Delete(c, h, removeFiles) ==
    /\ Calls(c)
    /\ Handle(h)
    /\ db' = db \ {h}
    /\ LET t == tor[h] IN
       tor' = [tor EXCEPT ![h] = TakeFiles([t EXCEPT !.st = "none", !.have = {},
                                                     !.paused = t.paused \/ t.st = "live"], t.obj)]
    /\ call' = [call EXCEPT ![c] = [Idle EXCEPT !.op = "delete", !.h = h, !.id = tor[h].id, !.hash = tor[h].hash,
                                                !.opt = removeFiles,
                                                !.pc = IF persist THEN "forget" ELSE "files"]]
    /\ UNCHANGED <<persist, up, nextId, files, inits, restore, stale, swept>>

DeleteForgets(c) ==
    LET k == call[c] IN
    /\ k.pc = "forget"
    /\ mem' = Drop(mem, k.id)
    /\ call' = [call EXCEPT ![c] =
                   IF k.id \in DOMAIN mem
                   THEN [k EXCEPT !.pc = "flush", !.removed = mem[k.id].hash]
                   ELSE [k EXCEPT !.pc = "files"]]
    /\ stale' = IF \E h \in db : tor[h].id = k.id THEN stale \cup {k.id}
                ELSE IF k.id \in DOMAIN mem THEN stale \ {k.id} ELSE stale
    /\ UNCHANGED <<persist, up, tor, db, nextId, json, tfile, bitv, disk, inits, restore, swept, left>>

(* The .torrent and .bitv files of the entry that was removed go after     *)
(* session.json is written.                                                *)
DeleteUnlinks(c) ==
    LET gone == call[c].removed IN
    /\ call[c].pc = "unlink"
    /\ tfile' = tfile \ {gone}
    /\ bitv' = Drop(bitv, gone)
    /\ tor' = [h \in DOMAIN tor |-> CutOff(tor[h], gone)]
    /\ inits' = {CutOff(i, gone) : i \in inits}
    /\ call' = [call EXCEPT ![c].pc = "files"]
    /\ UNCHANGED <<persist, up, db, nextId, mem, json, disk, restore, stale, swept, left>>

RemoveFilesAndDirs(hash) == [disk EXCEPT ![hash] = NoFiles]

DeleteFiles(c) ==
    LET k == call[c] IN
    /\ k.pc = "files"
    /\ disk' = IF k.opt THEN RemoveFilesAndDirs(k.hash) ELSE disk
    /\ swept' = IF k.opt /\ \E h \in db : tor[h].hash = k.hash THEN swept \cup {k.hash} ELSE swept
    /\ call' = [call EXCEPT ![c] = Idle]
    /\ UNCHANGED <<persist, up, tor, db, nextId, mem, json, tfile, bitv, inits, restore, stale, left>>

-----------------------------------------------------------------------------
(* The actions of the HTTP API look the handle up first.                   *)
ActionPause(c, h) == Handle(h) /\ Pause(c, h)
ActionStart(c, h) == Handle(h) /\ Unpause(c, h)
ActionForget(c, h) == Delete(c, h, FALSE)
ActionDelete(c, h) == Delete(c, h, TRUE)
ActionUpdateOnlyFiles(c, h) == Handle(h) /\ UpdateOnlyFiles(c, h)

-----------------------------------------------------------------------------
(* The program is stopped or killed, at any step of any call.  Session.stop*)
(* pauses the torrents and writes nothing.                                 *)
Stop ==
    /\ up
    /\ Spend
    /\ up' = FALSE
    /\ tor' = <<>>
    /\ db' = {}
    /\ mem' = Empty
    /\ call' = [c \in Callers |-> Idle]
    /\ inits' = {}
    /\ restore' = {}
    /\ swept' = {}
    /\ UNCHANGED <<persist, nextId, json, tfile, bitv, disk, stale>>

(* A file of the torrent is removed by hand.                               *)
FileLost(hash, f) ==
    /\ ~up
    /\ Spend
    /\ disk' = [disk EXCEPT ![hash].full = @ \ {f}, ![hash].good = @ \ FilePieces[f]]
    /\ UNCHANGED <<persist, up, tor, db, nextId, mem, json, tfile, bitv, call, inits, restore, stale, swept>>

NewSession ==
    /\ ~up
    /\ up' = TRUE
    /\ nextId' = 0
    /\ mem' = IF persist THEN json ELSE Empty
    /\ restore' = StreamAll(mem')
    /\ UNCHANGED <<persist, tor, db, json, tfile, bitv, disk, call, inits, stale, swept, left>>

(* An entry is added again with its id.  Without its .torrent file it is   *)
(* resolved as a magnet, which may fail; it stays in the database.         *)
Restore(id) ==
    LET e == mem[id]
        h == Len(tor) + 1
    IN
    /\ id \in restore
    /\ restore' = restore \ {id}
    /\ IF Managed(e.hash, id)
       THEN stale' = stale \cup {id} /\ UNCHANGED <<tor, db, inits, tfile, json, left>>
       ELSE \/ /\ LET t == NewTorrent(e.hash, id, e.paused) IN
                  /\ tor' = Append(tor, StartInitializing(t))
                  /\ inits' = inits \cup {InitTask(h, t, e.paused)}
               /\ db' = db \cup {h}
               /\ tfile' = tfile \cup {e.hash}
               /\ json' = mem
               /\ stale' = stale \ {id}
               /\ UNCHANGED left
            \/ /\ ~HasBytes(e)
               /\ Spend
               /\ stale' = stale \cup {id}
               /\ UNCHANGED <<tor, db, inits, tfile, json>>
    /\ UNCHANGED <<persist, up, nextId, mem, bitv, disk, call, swept>>

CallStep(c) ==
    \/ UpdateDbReads(c) \/ UpdateDbInserts(c) \/ Flush(c)
    \/ AddCreates(c) \/ AddStarts(c)
    \/ DeleteForgets(c) \/ DeleteUnlinks(c) \/ DeleteFiles(c)

InitStep == \E i \in inits : InitCheck(i) \/ InitCommit(i)

Next ==
    \/ \E c \in Callers :
          \/ CallStep(c) \/ FlushFails(c)
          \/ \E hash \in Hashes, paused \in BOOLEAN : AddTorrent(c, hash, paused)
          \/ \E h \in DOMAIN tor :
                \/ ActionPause(c, h) \/ ActionStart(c, h) \/ ActionUpdateOnlyFiles(c, h)
                \/ ActionForget(c, h) \/ ActionDelete(c, h)
    \/ InitStep
    \/ \E i \in inits : InitFails(i)
    \/ \E h \in DOMAIN tor : FatalError(h) \/ StopWithError(h) \/ \E p \in Pieces : Download(h, p)
    \/ Stop \/ NewSession
    \/ \E hash \in Hashes, f \in Files : FileLost(hash, f)
    \/ \E id \in restore : Restore(id)

Spec == Init /\ [][Next]_vars

(* Tasks and calls go on.                                                  *)
FairSpec ==
    /\ Spec
    /\ \A c \in Callers : WF_vars(CallStep(c))
    /\ WF_vars(InitStep)

-----------------------------------------------------------------------------

Torrents ==
    [hash: Hashes, id: Nat, st: TorrentStates, paused: BOOLEAN, have: SUBSET Pieces,
     mapped: BOOLEAN, obj: Nat, errored: BOOLEAN, taken: SUBSET Nat, sound: BOOLEAN,
     spawned: Nat, twice: BOOLEAN, fatal: BOOLEAN]

InitTasks ==
    [h: Nat, hash: Hashes, n: Nat, obj: Nat, errored: BOOLEAN, paused: BOOLEAN,
     pc: {"check", "commit"}, have: SUBSET Pieces, mapped: BOOLEAN, sound: BOOLEAN]

Requests ==
    [op: {"idle", "add", "update", "delete"},
     pc: {"idle", "create", "read", "insert", "flush", "start", "forget", "unlink", "files"},
     h: Nat, id: Nat, hash: Hashes \cup {NoHash}, removed: Hashes \cup {NoHash},
     paused: BOOLEAN, opt: BOOLEAN]

Entries == [hash: Hashes, paused: BOOLEAN]

TypeOK ==
    /\ persist \in BOOLEAN /\ up \in BOOLEAN /\ nextId \in Nat /\ left \in Nat
    /\ tor \in Seq(Torrents) /\ db \subseteq DOMAIN tor
    /\ inits \subseteq InitTasks
    /\ call \in [Callers -> Requests]
    /\ DOMAIN mem \subseteq Nat /\ IsFiniteSet(DOMAIN mem) /\ mem \in [DOMAIN mem -> Entries]
    /\ DOMAIN json \subseteq Nat /\ IsFiniteSet(DOMAIN json) /\ json \in [DOMAIN json -> Entries]
    /\ restore \subseteq DOMAIN mem
    /\ tfile \subseteq Hashes /\ swept \subseteq Hashes
    /\ DOMAIN bitv \subseteq Hashes /\ bitv \in [DOMAIN bitv -> SUBSET Pieces]
    /\ disk \in [Hashes -> [full: SUBSET Files, good: SUBSET Pieces]]

(* Between calls session.json says what the session does: it has every     *)
(* managed torrent with its paused flag, so that a restart brings it back, *)
(* and no other.  The exceptions are entries written from a state that was *)
(* out of date by then, not flushed, or not restored.                      *)
JsonMatches ==
    (up /\ persist /\ restore = {} /\ \A c \in Callers : call[c] = Idle) =>
        /\ \A h \in db : tor[h].id \in stale
                         \/ /\ tor[h].id \in DOMAIN json
                            /\ json[tor[h].id] = SerializedTorrent(tor[h].hash, tor[h].paused)
        /\ DOMAIN json \subseteq {tor[h].id : h \in db} \cup stale

(* A torrent never claims a piece that is not in its files, after any      *)
(* crash, deletion, re-addition and loss of files, unless a deletion of    *)
(* the same torrent that was still under way removed the files.            *)
HadOnDisk ==
    \A h \in db : tor[h].st \in {"paused", "live"} /\ tor[h].hash \notin swept =>
        tor[h].have \subseteq disk[tor[h].hash].good

-----------------------------------------------------------------------------
(* What the two invariants rest on                                         *)

(* A program that is down has nothing in memory.                           *)
DownIsEmpty == ~up => tor = <<>> /\ db = {} /\ inits = {} /\ restore = {}

(* Tasks and calls belong to the handle they name; calls wait for the      *)
(* restore.                                                                *)
TasksLinked ==
    \A i \in inits : i.h \in DOMAIN tor /\ i.hash = tor[i.h].hash

CallLinked(k) ==
    /\ k.pc # "idle" => k.hash \in Hashes
    /\ k.pc \in {"forget", "unlink", "files"} => k.op = "delete"
    /\ k.pc \in {"read", "insert", "start"} \/ (k.pc = "flush" /\ k.op = "add") =>
          k.h \in DOMAIN tor /\ k.id = tor[k.h].id /\ k.hash = tor[k.h].hash

CallsLinked ==
    /\ \A c \in Callers : CallLinked(call[c])
    /\ ~up \/ restore # {} => \A c \in Callers : call[c] = Idle

(* A piece a .bitv file claims is in the files, or some file it lies in is *)
(* missing, which the fast resume will notice.  Without persistence there  *)
(* are no such files.                                                      *)
BitvSound ==
    /\ ~persist => DOMAIN bitv = {}
    /\ \A hash \in DOMAIN bitv : \A p \in bitv[hash] :
          \/ p \in disk[hash].good
          \/ \E f \in Files : p \in FilePieces[f] /\ f \notin disk[hash].full

(* What a finished check is about to claim is in the files.                *)
ChecksSound ==
    \A i \in inits : i.pc = "commit" /\ i.h \in db /\ i.hash \notin swept =>
        i.have \subseteq disk[i.hash].good

(* No two managed torrents have an id in common.                           *)
IdsDiffer == \A g, h \in db : tor[g].id = tor[h].id => g = h

(* db_content and session.json have the same entry for an id, until a      *)
(* flush that is under way.                                                *)
SameEntry(n) ==
    /\ n \in DOMAIN mem <=> n \in DOMAIN json
    /\ n \in DOMAIN mem => mem[n] = json[n]

FlushedOrPending ==
    \A n \in DOMAIN mem \cup DOMAIN json :
        \/ SameEntry(n) \/ n \in stale
        \/ \E c \in Callers : call[c].pc = "flush" /\ call[c].id = n

(* A managed torrent has its entry, or a call is about to write it.        *)
HasEntry(h) ==
    LET n == tor[h].id IN
    \/ n \in stale
    \/ n \in DOMAIN mem /\ mem[n] = SerializedTorrent(tor[h].hash, tor[h].paused)
    \/ \E c \in Callers : call[c].pc \in {"read", "insert"} /\ call[c].h = h

(* An entry has its torrent, is to be restored, or is about to be removed. *)
HasTorrent(n) ==
    \/ n \in stale \cup restore \/ \E h \in db : tor[h].id = n
    \/ \E c \in Callers : call[c].pc = "forget" /\ call[c].id = n

EntriesSound ==
    up /\ persist => /\ FlushedOrPending
                     /\ \A h \in db : HasEntry(h)
                     /\ \A n \in DOMAIN mem : HasTorrent(n)

IndInv ==
    /\ TypeOK /\ DownIsEmpty /\ TasksLinked /\ CallsLinked
    /\ BitvSound /\ ChecksSound /\ HadOnDisk
    /\ IdsDiffer /\ EntriesSound

(* A torrent that is wanted running gets to run or fails, unless it was    *)
(* started a second time while it was initializing.                        *)
WantedRuns ==
    \A h \in 1 .. MaxEvents :
        (h \in db /\ ~tor[h].paused) ~>
            \/ h \notin db
            \/ tor[h].st \in {"live", "error"} \/ tor[h].paused \/ tor[h].twice
=============================================================================
