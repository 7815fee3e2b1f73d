------------------------------ MODULE Workbench ------------------------------
(***************************************************************************)
(* The resource workbench of puresource-playlist (app/main.py,             *)
(* app/store.py, app/probe.py, app/models.py).                             *)
(*                                                                         *)
(* Every request runs in a thread of its own.  All of them share one file, *)
(* resources.json: readers load it without a lock, writers load and save   *)
(* it under store._LOCK, and a save writes resources.tmp and renames it    *)
(* over the file.  A handler that reads, works and writes back therefore   *)
(* interleaves with the others between its accesses to the file, and a     *)
(* crash of the process may fall between any two of them.                  *)
(*                                                                         *)
(* Early returns that change nothing (404, 409, 422 answers before the     *)
(* first write, the GET handlers) are stuttering steps and have no action. *)
(***************************************************************************)
EXTENDS Integers, FiniteSets

CONSTANTS
    Ids,      \* record ids (uuid4 values)
    Reqs,     \* request threads
    Urls,     \* the urls clients submit, a subset of Url
    NoUrl,    \* Python None in a url field
    NoRec,    \* an id with no record in the file
    NoId,     \* the request id of a thread without one
    NoReq,    \* store._LOCK is free
    LogMax,   \* PROBE_LOG_MAX_ENTRIES
    MaxRequests  \* bound: how many requests a behaviour serves

(***************************************************************************)
(* A url is what the code looks at: its scheme, the extension of its path  *)
(* and, for a magnet, whether parse_magnet finds an info hash (xt) and a   *)
(* display name (dn) in it.                                                *)
(***************************************************************************)
Url == [scheme: {"http", "magnet", "other"},
        ext: {"m3u8", "mp4", "none"},
        xt: BOOLEAN, dn: BOOLEAN]

Kinds    == {"magnet", "m3u8", "mp4", "webpage", "other"}
Stages   == {"pending", "probing", "playable", "external_ready", "failed"}
Statuses == {"stable", "playable", "external_ready"}
Titles   == {"none", "url", "dn", "user"}
Magnets  == {"none", "failed", "parsed"}

(***************************************************************************)
(* One entry of resources.json.  "legacy" is the stage of a v0.1 entry,    *)
(* which has no stage field; log is the length of probe_log; magnet says   *)
(* whether enrich has stored a MagnetInfo and whether it has an info hash. *)
(***************************************************************************)
Record == [src: Urls \cup {NoUrl}, kind: Kinds, stream: Urls \cup {NoUrl},
           stage: Stages \cup {"legacy"}, status: Statuses \cup {"none"},
           title: Titles, log: Nat, magnet: Magnets]

File == [Ids -> Record \cup {NoRec}]

ASSUME WorkbenchAssumption ==
    /\ Urls \subseteq Url
    /\ NoUrl \notin Url
    /\ NoRec \notin Record
    /\ NoId \notin Ids
    /\ NoReq \notin Reqs
    /\ LogMax \in Nat
    /\ MaxRequests \in Nat

VARIABLES
    store,    \* resources.json
    tmp,      \* resources.tmp; no records when there is no such file
    lock,     \* the thread that holds store._LOCK
    op,       \* what each thread is doing
    pc,       \* where in it the thread is
    tgt,      \* the record id of the thread's request
    buf,      \* the record the thread carries between its file accesses
    snap,     \* the list the thread has loaded under the lock
    served,   \* how many requests have been accepted
    acked,    \* history: ids whose creation was answered with 200, by route
    promoted, \* history: ids whose /promote was answered with 200
    dead      \* history: ids whose probe died between its two writes

file == <<store, tmp, lock>>
thread == <<op, pc, tgt, buf, snap>>
hist == <<acked, promoted, dead>>
vars == <<file, thread, served, hist>>

Ops == {"none", "create", "intake", "mark", "settle", "enrich", "promote"}
Pcs == {"idle", "want", "locked", "written", "http"}

-----------------------------------------------------------------------------
(* models.py *)

HttpUrls == {u \in Urls : u.scheme = "http"}

InferSourceKind(u) ==
    CASE u.scheme = "magnet" -> "magnet"
      [] u.scheme = "http" /\ u.ext = "m3u8" -> "m3u8"
      [] u.scheme = "http" /\ u.ext = "mp4" -> "mp4"
      [] u.scheme = "http" /\ u.ext = "none" -> "webpage"
      [] OTHER -> "other"

StatusToStage(s) == IF s = "playable" THEN "playable" ELSE "external_ready"

(* ResourceRecord.cap_log: a validated record keeps the last LogMax lines. *)
CapLog(n) == IF n > LogMax THEN LogMax ELSE n

-----------------------------------------------------------------------------
(* store.py *)

MigrateLegacy(rec) ==
    IF rec.stage = "legacy"
    THEN [rec EXCEPT !.stage = "external_ready", !.src = rec.stream,
                     !.kind = IF rec.stream = NoUrl THEN "other"
                              ELSE InferSourceKind(rec.stream)]
    ELSE rec

LoadRecord(rec) ==
    [MigrateLegacy(rec) EXCEPT !.log = CapLog(rec.log)]

LoadResources ==
    [i \in Ids |-> IF store[i] = NoRec THEN NoRec ELSE LoadRecord(store[i])]

EligibleForPlaylist(rec) == rec.status \in Statuses /\ rec.stream # NoUrl

(* The entries default.m3u8 lists. *)
DefaultPlaylist ==
    {i \in Ids : /\ LoadResources[i] # NoRec
                 /\ EligibleForPlaylist(LoadResources[i])}

-----------------------------------------------------------------------------
(* A v0.1 file holds admitted resources only. *)
LegacyRecords ==
    {[src |-> NoUrl, kind |-> "other", stream |-> u, stage |-> "legacy",
      status |-> s, title |-> "user", log |-> 0, magnet |-> "none"] :
        u \in HttpUrls, s \in Statuses}

NewRecord ==
    [src |-> NoUrl, kind |-> "other", stream |-> NoUrl, stage |-> "pending",
     status |-> "none", title |-> "none", log |-> 0, magnet |-> "none"]

NoFile == [i \in Ids |-> NoRec]

Init ==
    /\ store \in [Ids -> LegacyRecords \cup {NoRec}]
    /\ tmp = NoFile
    /\ lock = NoReq
    /\ op = [r \in Reqs |-> "none"]
    /\ pc = [r \in Reqs |-> "idle"]
    /\ tgt = [r \in Reqs |-> NoId]
    /\ buf = [r \in Reqs |-> NewRecord]
    /\ snap = [r \in Reqs |-> NoFile]
    /\ served = 0
    /\ acked = [i \in Ids |-> IF store[i] = NoRec THEN "no" ELSE "listed"]
    /\ promoted = {}
    /\ dead = {}

(* The thread has answered and keeps nothing of its request.               *)
Finish(r) ==
    /\ op' = [op EXCEPT ![r] = "none"]
    /\ pc' = [pc EXCEPT ![r] = "idle"]
    /\ tgt' = [tgt EXCEPT ![r] = NoId]
    /\ buf' = [buf EXCEPT ![r] = NewRecord]
    /\ snap' = [snap EXCEPT ![r] = NoFile]

(* uuid4: an id no record and no request under way has. *)
Fresh(i) ==
    /\ store[i] = NoRec
    /\ \A q \in Reqs : tgt[q] # i

Begin(r, o, i, rec) ==
    /\ pc[r] = "idle"
    /\ served < MaxRequests
    /\ served' = served + 1
    /\ op' = [op EXCEPT ![r] = o]
    /\ pc' = [pc EXCEPT ![r] = "want"]
    /\ tgt' = [tgt EXCEPT ![r] = i]
    /\ buf' = [buf EXCEPT ![r] = rec]
    /\ UNCHANGED <<file, snap, hist>>

(* POST /tasks *)
CreateTask(r) ==
    \E i \in Ids, u \in Urls, t \in {"none", "user"} :
        /\ Fresh(i)
        /\ Begin(r, "create", i,
                 [NewRecord EXCEPT !.src = u, !.kind = InferSourceKind(u),
                                   !.title = IF t = "none" THEN "url" ELSE t])

(* POST /intake *)
Intake(r) ==
    \E i \in Ids, u \in HttpUrls, s \in Statuses :
        /\ Fresh(i)
        /\ Begin(r, "intake", i,
                 [NewRecord EXCEPT !.src = u, !.kind = InferSourceKind(u),
                                   !.stream = u, !.stage = StatusToStage(s),
                                   !.status = s, !.title = "user"])

(* POST /tasks/{id}/probe: first the mark, on an id that may not exist. *)
Probe(r) ==
    \E i \in Ids : Begin(r, "mark", i, NewRecord)

(* POST /tasks/{id}/enrich: reads without the lock, parses the source url  *)
(* and goes on to write what follows from that read.                       *)
EnrichedMagnet(cur) ==
    IF cur.src.xt THEN "parsed"
    ELSE IF cur.magnet = "none" THEN "failed" ELSE cur.magnet

Enrich(r) ==
    \E i \in Ids :
        LET cur == LoadResources[i] IN
        /\ cur # NoRec
        /\ cur.kind = "magnet"
        /\ cur.src # NoUrl
        /\ Begin(r, "enrich", i,
                 [cur EXCEPT !.magnet = EnrichedMagnet(cur)])

(* POST /tasks/{id}/promote: the stage is checked on an unlocked read.  The *)
(* buffer then stands for the request body.                                 *)
Promote(r) ==
    \E i \in Ids, u \in HttpUrls, s \in Statuses, t \in {"none", "user"} :
        LET cur == LoadResources[i] IN
        /\ cur # NoRec
        /\ cur.stage \in {"playable", "external_ready"}
        /\ Begin(r, "promote", i,
                 [cur EXCEPT !.stream = u, !.status = s, !.title = t])

-----------------------------------------------------------------------------
(* append_resource and update_resource: with _LOCK: load; mutate; save.    *)

Appends(r) == op[r] \in {"create", "intake"}

(* Mutant: the list is loaded without waiting for the lock.                *)
LoadWithoutLock(r) ==
    /\ pc[r] = "want"
    /\ lock' = r
    /\ snap' = [snap EXCEPT ![r] = LoadResources]
    /\ pc' = [pc EXCEPT ![r] = "locked"]
    /\ UNCHANGED <<store, tmp, op, tgt, buf, served, hist>>

LockAndLoad(r) ==
    /\ pc[r] = "want"
    /\ lock = NoReq
    /\ lock' = r
    /\ snap' = [snap EXCEPT ![r] = LoadResources]
    /\ pc' = [pc EXCEPT ![r] = "locked"]
    /\ UNCHANGED <<store, tmp, op, tgt, buf, served, hist>>

EnrichTitle(rec) ==
    IF rec.src # NoUrl /\ rec.src.xt /\ rec.src.dn /\ rec.title = "url"
    THEN "dn" ELSE rec.title

(* Mutants: a probe starts from a record without its admission fields; a   *)
(* probe that found the url playable admits it; enrich writes back the     *)
(* whole record it has read.                                               *)
MarkResets(o, b, rec) ==
    CASE o = "mark" -> [rec EXCEPT !.stage = "probing", !.status = "none",
                                       !.stream = NoUrl]
      [] o = "promote" -> [rec EXCEPT !.stream = b.stream,
                                          !.status = b.status]
      [] OTHER -> b

SettleAdmits(o, b, rec) ==
    CASE o = "mark" -> [rec EXCEPT !.stage = "probing"]
      [] o = "settle" /\ b.stage = "playable" ->
            [b EXCEPT !.status = "playable", !.stream = rec.src]
      [] o = "enrich" -> [rec EXCEPT !.magnet = b.magnet]
      [] o = "promote" -> [rec EXCEPT !.stream = b.stream,
                                          !.status = b.status,
                                          !.stage = "external_ready"]
      [] OTHER -> b

(* The record an operation o that carries b writes in place of rec: the     *)
(* mutators of main.py.                                                    *)
Mutate(o, b, rec) ==
    CASE o = "mark" -> [rec EXCEPT !.stage = "probing"]
      [] o = "settle" -> b
      [] o = "enrich" -> [rec EXCEPT !.magnet = b.magnet,
                                         !.title = EnrichTitle(rec)]
      [] o = "promote" ->
            [rec EXCEPT !.stream = b.stream, !.status = b.status,
                        !.stage = "external_ready",
                        !.title = IF b.title = "none" THEN rec.title
                                  ELSE b.title]
      [] OTHER -> b

(* Mutant: the lock covers the load only, and not the save.                *)
WriteUnlocked(r) ==
    /\ pc[r] = "locked"
    /\ Appends(r) \/ snap[r][tgt[r]] # NoRec
    /\ tmp' = [snap[r] EXCEPT ![tgt[r]] = Mutate(op[r], buf[r], @)]
    /\ lock' = NoReq
    /\ pc' = [pc EXCEPT ![r] = "written"]
    /\ UNCHANGED <<store, op, tgt, buf, snap, served, hist>>

(* tmp.write_text: the mutated list goes to resources.tmp.                 *)
WriteTmp(r) ==
    /\ pc[r] = "locked"
    /\ Appends(r) \/ snap[r][tgt[r]] # NoRec
    /\ tmp' = [snap[r] EXCEPT ![tgt[r]] = Mutate(op[r], buf[r], @)]
    /\ pc' = [pc EXCEPT ![r] = "written"]
    /\ UNCHANGED <<store, lock, op, tgt, buf, snap, served, hist>>

(* Mutant: the 404 answer keeps the lock.                                  *)
MissingKeepsLock(r) ==
    /\ pc[r] = "locked"
    /\ ~Appends(r)
    /\ snap[r][tgt[r]] = NoRec
    /\ Finish(r)
    /\ UNCHANGED <<file, served, hist>>

(* update_resource finds no such record: unlock, answer 404.               *)
UpdateMissing(r) ==
    /\ pc[r] = "locked"
    /\ ~Appends(r)
    /\ snap[r][tgt[r]] = NoRec
    /\ lock' = NoReq
    /\ Finish(r)
    /\ UNCHANGED <<store, tmp, served, hist>>

(* tmp.replace(path) and unlock.  A mark goes on to the HTTP probe with    *)
(* the marked record; every other request is answered with 200.            *)
Rename(r) ==
    /\ pc[r] = "written"
    /\ store' = tmp
    /\ tmp' = NoFile
    /\ lock' = NoReq

Replace(r) ==
    /\ Rename(r)
    /\ IF op[r] = "mark"
       THEN /\ pc' = [pc EXCEPT ![r] = "http"]
            /\ buf' = [buf EXCEPT ![r] = Mutate(op[r], buf[r], snap[r][tgt[r]])]
            /\ snap' = [snap EXCEPT ![r] = NoFile]
            /\ UNCHANGED <<op, tgt>>
       ELSE Finish(r)
    /\ acked' = CASE op[r] = "create" -> [acked EXCEPT ![tgt[r]] = "task"]
                  [] op[r] = "intake" -> [acked EXCEPT ![tgt[r]] = "listed"]
                  [] OTHER -> acked
    /\ promoted' = IF op[r] = "promote" THEN promoted \cup {tgt[r]}
                   ELSE promoted
    /\ dead' = {i \in dead : tmp[i].stage = "probing"}
    /\ UNCHANGED served

-----------------------------------------------------------------------------
(* probe.py *)

Probed(rec) == rec.kind \in {"m3u8", "mp4"}

(* Mutant: an HTTP error returns the record as it was marked.              *)
OutcomesUnsettled(rec) ==
    IF Probed(rec) THEN {"playable", "probing"} \X (3..5)
    ELSE {"pending"} \X {2}

(* The stages probe_record may settle on and the log lines it adds on each *)
(* path: start, HEAD error, fallback, response, m3u8 sniff, verdict.       *)
Outcomes(rec) ==
    IF Probed(rec) THEN {"playable", "failed"} \X (3..5)
    ELSE {"pending"} \X {2}

Settle(rec, stage, lines) ==
    [rec EXCEPT !.stage = stage, !.log = rec.log + lines]

(* Mutant: the outcome is returned and not saved.                          *)
ProbeUnsaved(r) ==
    /\ pc[r] = "http"
    /\ Finish(r)
    /\ UNCHANGED <<file, served, hist>>

ProbeRecord(r) ==
    /\ pc[r] = "http"
    /\ \E o \in Outcomes(buf[r]) :
          buf' = [buf EXCEPT ![r] = Settle(@, o[1], o[2])]
    /\ op' = [op EXCEPT ![r] = "settle"]
    /\ pc' = [pc EXCEPT ![r] = "want"]
    /\ UNCHANGED <<file, tgt, snap, served, hist>>

(* An exception that is not an httpx.HTTPError (httpx.InvalidURL) leaves   *)
(* probe_record: the request is answered with 500.                         *)
ProbeRaises(r) ==
    /\ pc[r] = "http"
    /\ Probed(buf[r])
    /\ Finish(r)
    /\ dead' = IF store[tgt[r]].stage = "probing"
               THEN dead \cup {tgt[r]} ELSE dead
    /\ UNCHANGED <<file, served, acked, promoted>>

(* The thread is between the two writes of a probe.                        *)
InProbe(r) == pc[r] = "http" \/ (op[r] = "settle" /\ pc[r] # "idle")

(* The process is killed and started again.                                *)
Crash ==
    /\ \E r \in Reqs : pc[r] # "idle"
    /\ lock' = NoReq
    /\ op' = [r \in Reqs |-> "none"]
    /\ pc' = [r \in Reqs |-> "idle"]
    /\ tgt' = [r \in Reqs |-> NoId]
    /\ buf' = [r \in Reqs |-> NewRecord]
    /\ snap' = [r \in Reqs |-> NoFile]
    /\ dead' = dead \cup {i \in Ids : /\ store[i] # NoRec
                                     /\ store[i].stage = "probing"}
    /\ UNCHANGED <<store, tmp, served, acked, promoted>>

Step(r) ==
    \/ LockAndLoad(r) \/ WriteTmp(r) \/ UpdateMissing(r) \/ Replace(r)
    \/ ProbeRecord(r) \/ ProbeRaises(r)

(* Every request is served: the server waits for more.                     *)
Quiescent ==
    /\ served = MaxRequests
    /\ \A r \in Reqs : pc[r] = "idle"
    /\ UNCHANGED vars

Next ==
    \/ \E r \in Reqs :
          \/ CreateTask(r) \/ Intake(r) \/ Probe(r) \/ Enrich(r) \/ Promote(r)
          \/ Step(r)
    \/ Crash
    \/ Quiescent

Spec == Init /\ [][Next]_vars

(* A request thread that can run is run by the operating system, and the   *)
(* HTTP client's timeout ends every probe; nothing makes clients send      *)
(* requests or the process crash, and the lock promises no turn.           *)
FairSpec == Spec /\ \A r \in Reqs : WF_vars(Step(r))

-----------------------------------------------------------------------------
(* Properties *)

(* The variables have the types the code gives them.                       *)
TypeOK ==
    /\ store \in File
    /\ tmp \in File
    /\ lock \in Reqs \cup {NoReq}
    /\ op \in [Reqs -> Ops]
    /\ pc \in [Reqs -> Pcs]
    /\ tgt \in [Reqs -> Ids \cup {NoId}]
    /\ buf \in [Reqs -> Record]
    /\ snap \in [Reqs -> File]
    /\ served \in 0..MaxRequests
    /\ acked \in [Ids -> {"no", "task", "listed"}]
    /\ promoted \subseteq Ids
    /\ dead \subseteq Ids

(* A record whose POST /tasks or POST /intake was answered is in the file  *)
(* from then on: no concurrent writer and no crash between resources.tmp   *)
(* and the rename loses it (store.save_resources under _LOCK).             *)
AckedSurvive == \A i \in Ids : acked[i] # "no" => store[i] # NoRec

(* A resource that POST /intake has listed, or that a v0.1 file holds,     *)
(* stays in default.m3u8 whatever probes, enrichments and promotions run   *)
(* on it, although a probe writes back a record it read before its HTTP    *)
(* requests.                                                               *)
ListedStays == \A i \in Ids : acked[i] = "listed" => i \in DefaultPlaylist

(* default.m3u8 lists nothing but what intake, promote or the v0.1 file    *)
(* admitted: no probe, enrichment or stale write-back admits a resource.   *)
AdmittedOnly ==
    \A i \in DefaultPlaylist : acked[i] = "listed" \/ i \in promoted

(* A task shown as probing has a probe under way, or its probe died in a   *)
(* crash or an exception; no interleaving of two probes of a task with its *)
(* other writers leaves the stage behind.                                  *)
ProbingAccounted ==
    \A i \in Ids :
        store[i] # NoRec /\ store[i].stage = "probing" =>
            i \in dead \/ \E r \in Reqs : InProbe(r) /\ tgt[r] = i

-----------------------------------------------------------------------------
(* The inductive invariant. *)

Holds(r) == pc[r] \in {"locked", "written"}

(* A thread has a record id exactly while it serves a request.             *)
ThreadInv ==
    \A r \in Reqs :
        /\ pc[r] = "idle" <=> op[r] = "none"
        /\ pc[r] # "idle" => tgt[r] \in Ids
        /\ pc[r] = "http" => op[r] = "mark"

(* The lock excludes: its holder's copy is the file, and what it has put   *)
(* in resources.tmp is that copy with its own record changed.              *)
LockInv ==
    \A r \in Reqs :
        /\ Holds(r) <=> lock = r
        /\ Holds(r) => snap[r] = LoadResources
        /\ pc[r] = "written" =>
              /\ Appends(r) \/ snap[r][tgt[r]] # NoRec
              /\ tmp = [snap[r] EXCEPT ![tgt[r]] =
                           Mutate(op[r], buf[r], snap[r][tgt[r]])]

(* No record and no other append has the id of an append under way.        *)
FreshInv ==
    \A r \in Reqs : Appends(r) =>
        /\ store[tgt[r]] = NoRec
        /\ \A q \in Reqs \ {r} : Appends(q) => tgt[q] # tgt[r]

MayBeListed(i) == acked[i] = "listed" \/ i \in promoted

(* What a thread carries to its write respects what was admitted: the      *)
(* stale copy of a probe is no less and no more admitted than its record.  *)
BufInv ==
    \A r \in Reqs :
        /\ op[r] = "create" => buf[r].status = "none"
        /\ op[r] \in {"create", "intake"} => buf[r].stage # "probing"
        /\ op[r] \in {"intake", "promote"} => EligibleForPlaylist(buf[r])
        /\ InProbe(r) =>
              /\ store[tgt[r]] # NoRec
              /\ acked[tgt[r]] = "listed" => EligibleForPlaylist(buf[r])
              /\ buf[r].status # "none" => MayBeListed(tgt[r])
        /\ op[r] = "settle" => buf[r].stage # "probing"

StatusInv ==
    \A i \in Ids : store[i] # NoRec =>
        /\ acked[i] = "listed" => EligibleForPlaylist(store[i])
        /\ store[i].status # "none" => MayBeListed(i)

(* The invariant all safety properties of the workbench follow from: one   *)
(* thread at a time rewrites the file from its current content, and every  *)
(* copy a thread keeps agrees with the admissions made so far.             *)
IndInv ==
    /\ TypeOK /\ ThreadInv /\ LockInv /\ FreshInv /\ BufInv /\ StatusInv
    /\ AckedSurvive /\ ProbingAccounted

(* The locked load, the temporary file and the rename implement a table    *)
(* whose records change one at a time and are never lost.                  *)
Table == INSTANCE AtomicStore WITH db <- LoadResources
ImplementsTable == Table!Spec

(* A step of an enrichment leaves stage, status and stream_url of every    *)
(* record as they are (enrich_task: "不写 status", MagnetInfo never decides  *)
(* on the playlist), although the record may change between the read of    *)
(* enrich and its write.                                                   *)
EnrichKeepsAdmission ==
    [][\A r \in Reqs : op[r] = "enrich" /\ Replace(r) =>
          \A i \in Ids : LoadResources[i] # NoRec =>
              /\ store'[i].stage = LoadResources[i].stage
              /\ store'[i].status = LoadResources[i].status
              /\ store'[i].stream = LoadResources[i].stream]_vars

(* Every request is answered, or lost in a crash: no path of               *)
(* update_resource keeps the lock.                                         *)
RequestsAnswered == \A r \in Reqs : pc[r] # "idle" ~> pc[r] = "idle"

(* A task marked probing leaves that stage, unless its probe died.         *)
ProbeSettles ==
    \A i \in Ids :
        (store[i] # NoRec /\ store[i].stage = "probing")
            ~> (store[i] # NoRec /\ store[i].stage # "probing") \/ i \in dead

=============================================================================
