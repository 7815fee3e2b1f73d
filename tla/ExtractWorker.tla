--------------------------- MODULE ExtractWorker ---------------------------
(***************************************************************************)
(* The yt-dlp worker of puresource-playlist (app/extract_worker.py,        *)
(* app/extract.py): processes that share a directory of job files.         *)
(*                                                                         *)
(* The main service writes <id>.json, a worker renames it to               *)
(* <id>.processing.json, runs yt-dlp, posts the outcome back and removes   *)
(* the file.  A worker that starts first fails every claim older than      *)
(* STALE_PROCESSING_S.  The rename keeps the file's mtime, so that the age *)
(* of a claim counts from the moment the job was queued.                   *)
(*                                                                         *)
(* The side of the main service (Enqueue, and what a callback does there)  *)
(* is not part of the repository; it is modelled from the files the worker *)
(* reads and the route it posts to.                                        *)
(***************************************************************************)
EXTENDS Integers, FiniteSets

CONSTANTS
    Tasks,       \* task ids, numbered in the order sorted() gives them
    Workers,     \* worker processes
    NoJob,       \* no such file
    StaleAfter,  \* STALE_PROCESSING_S
    BusyMax,     \* HARD_TIMEOUT_S + CALLBACK_TIMEOUT_S: a job takes no longer
    MaxTime,     \* bound: ticks of the clock
    MaxGen,      \* bound: jobs queued of each task
    MaxStops     \* bound: crashes and stop signals

(***************************************************************************)
(* A job file: the request of the task it belongs to, when it was written, *)
(* and what _read_job makes of it.                                         *)
(***************************************************************************)
Job == [gen: Nat \ {0}, mtime: Nat, form: {"full", "no_url", "unreadable"}]

ASSUME ExtractAssumption ==
    /\ Tasks \subseteq Nat
    /\ NoJob \notin Job
    /\ StaleAfter \in Nat /\ BusyMax \in 0..StaleAfter
    /\ MaxTime \in Nat /\ MaxStops \in Nat /\ MaxGen \in [Tasks -> Nat]

VARIABLES
    clock,     \* wall clock
    queue,     \* <id>.json
    claim,     \* <id>.processing.json
    gen,       \* jobs queued per task so far
    awaiting,  \* the job whose result the main service waits for, 0 for none
    pc,        \* where each worker is
    todo,      \* files the worker has listed and not yet come to
    cur,       \* the task the worker is at
    job,       \* the job the worker has read
    at,        \* time.time() at the start of the cleanup or of the job
    stopping,  \* _stopping
    stops,     \* crashes and stop signals so far
    lost,      \* history: jobs that were unreadable or whose callback failed
    started,   \* history: jobs yt-dlp was run for
    mistaken   \* history: requests answered with the outcome of an older job

files == <<queue, claim>>
main == <<gen, awaiting>>
proc == <<pc, todo, cur, job, at>>
hist == <<lost, started, mistaken>>
vars == <<clock, files, main, proc, stopping, stops, hist>>

Pcs == {"down", "cleanup", "drop", "loop", "each", "claimed", "run", "post",
        "unlink"}
Busy(w) == pc[w] \in {"claimed", "run", "post", "unlink"}
NoTask == 0 - 1

Init ==
    /\ clock = 0
    /\ queue = [t \in Tasks |-> NoJob]
    /\ claim = [t \in Tasks |-> NoJob]
    /\ gen = [t \in Tasks |-> 0]
    /\ awaiting = [t \in Tasks |-> 0]
    /\ pc = [w \in Workers |-> "down"]
    /\ todo = [w \in Workers |-> {}]
    /\ cur = [w \in Workers |-> NoTask]
    /\ job = [w \in Workers |-> NoJob]
    /\ at = [w \in Workers |-> 0]
    /\ stopping = [w \in Workers |-> FALSE]
    /\ stops = 0
    /\ lost = {}
    /\ started = {}
    /\ mistaken = {}

-----------------------------------------------------------------------------
(* The main service *)

(* POST /tasks/{id}/extract, refused while the task is extracting.         *)
Enqueue(t) ==
    /\ awaiting[t] = 0
    /\ gen[t] < MaxGen[t]
    /\ gen' = [gen EXCEPT ![t] = @ + 1]
    /\ awaiting' = [awaiting EXCEPT ![t] = gen[t] + 1]
    /\ \E f \in {"full", "no_url", "unreadable"} :
          queue' = [queue EXCEPT ![t] =
                       [gen |-> gen[t] + 1, mtime |-> clock, form |-> f]]
    /\ UNCHANGED <<clock, claim, proc, stopping, stops, hist>>

(* _post_result: the route names the task and not the job, so the main     *)
(* service takes whatever arrives for the result it waits for.  The worker *)
(* goes on in the same way whether the call succeeded or not.              *)
PostResult(t, g) ==
    \/ /\ awaiting' = [awaiting EXCEPT ![t] = 0]
       /\ mistaken' = IF awaiting[t] \in {0, g} THEN mistaken
                       ELSE mistaken \cup {<<t, awaiting[t]>>}
       /\ UNCHANGED <<gen, lost>>
    \/ /\ lost' = lost \cup {<<t, g>>}
       /\ UNCHANGED <<main, mistaken>>

-----------------------------------------------------------------------------
(* _cleanup_stale *)

Start(w) ==
    /\ pc[w] = "down"
    /\ pc' = [pc EXCEPT ![w] = "cleanup"]
    /\ at' = [at EXCEPT ![w] = clock]
    /\ todo' = [todo EXCEPT ![w] = {t \in Tasks : claim[t] # NoJob}]
    /\ stopping' = [stopping EXCEPT ![w] = FALSE]
    /\ UNCHANGED <<clock, files, main, cur, job, stops, hist>>

Stale(w, t) == claim[t] # NoJob /\ at[w] - claim[t].mtime > StaleAfter

CleanupSkip(w) ==
    /\ pc[w] = "cleanup"
    /\ \E t \in todo[w] :
          /\ ~Stale(w, t)
          /\ todo' = [todo EXCEPT ![w] = @ \ {t}]
    /\ UNCHANGED <<clock, files, main, pc, cur, job, at, stopping, stops, hist>>

(* Mutant: a stale claim is queued once more.                              *)
CleanupRequeues(w) ==
    /\ pc[w] = "cleanup"
    /\ \E t \in todo[w] :
          /\ Stale(w, t)
          /\ queue' = [queue EXCEPT ![t] = claim[t]]
          /\ cur' = [cur EXCEPT ![w] = t]
    /\ pc' = [pc EXCEPT ![w] = "drop"]
    /\ UNCHANGED <<clock, claim, main, todo, job, at, stopping, stops, hist>>

CleanupPost(w) ==
    /\ pc[w] = "cleanup"
    /\ \E t \in todo[w] :
          /\ Stale(w, t)
          /\ cur' = [cur EXCEPT ![w] = t]
          /\ IF claim[t].form = "unreadable"
             THEN /\ lost' = lost \cup {<<t, claim[t].gen>>}
                  /\ UNCHANGED <<main, mistaken>>
             ELSE PostResult(t, claim[t].gen)
    /\ pc' = [pc EXCEPT ![w] = "drop"]
    /\ UNCHANGED <<clock, files, todo, job, at, stopping, stops, started>>

CleanupUnlink(w) ==
    /\ pc[w] = "drop"
    /\ claim' = [claim EXCEPT ![cur[w]] = NoJob]
    /\ todo' = [todo EXCEPT ![w] = @ \ {cur[w]}]
    /\ pc' = [pc EXCEPT ![w] = "cleanup"]
    /\ UNCHANGED <<clock, queue, main, cur, job, at, stopping, stops, hist>>

CleanupDone(w) ==
    /\ pc[w] = "cleanup"
    /\ todo[w] = {}
    /\ pc' = [pc EXCEPT ![w] = "loop"]
    /\ UNCHANGED <<clock, files, main, todo, cur, job, at, stopping, stops, hist>>

-----------------------------------------------------------------------------
(* The loop of main() *)

Scan(w) ==
    /\ pc[w] = "loop"
    /\ ~stopping[w]
    /\ todo' = [todo EXCEPT ![w] = {t \in Tasks : queue[t] # NoJob}]
    /\ pc' = [pc EXCEPT ![w] = "each"]
    /\ UNCHANGED <<clock, files, main, cur, job, at, stopping, stops, hist>>

Exit(w) ==
    /\ pc[w] = "loop"
    /\ stopping[w]
    /\ pc' = [pc EXCEPT ![w] = "down"]
    /\ UNCHANGED <<clock, files, main, todo, cur, job, at, stopping, stops, hist>>

EndOfScan(w) ==
    /\ pc[w] = "each"
    /\ todo[w] = {} \/ stopping[w]
    /\ todo' = [todo EXCEPT ![w] = {}]
    /\ pc' = [pc EXCEPT ![w] = "loop"]
    /\ UNCHANGED <<clock, files, main, cur, job, at, stopping, stops, hist>>

First(S) == CHOOSE t \in S : \A u \in S : t <= u

(* _claim: the rename replaces a claim left behind by a dead worker; it    *)
(* fails when another worker was faster.                                   *)
Claim(w) ==
    /\ pc[w] = "each"
    /\ ~stopping[w]
    /\ todo[w] # {}
    /\ LET t == First(todo[w]) IN
          /\ todo' = [todo EXCEPT ![w] = @ \ {t}]
          /\ IF queue[t] = NoJob
             THEN UNCHANGED <<files, pc, cur, at>>
             ELSE /\ claim' = [claim EXCEPT ![t] = queue[t]]
                  /\ queue' = [queue EXCEPT ![t] = NoJob]
                  /\ pc' = [pc EXCEPT ![w] = "claimed"]
                  /\ cur' = [cur EXCEPT ![w] = t]
                  /\ at' = [at EXCEPT ![w] = clock]
    /\ UNCHANGED <<clock, main, job, stopping, stops, hist>>

-----------------------------------------------------------------------------
(* _process *)

(* Mutant: the claim is removed as soon as it is read.                     *)
ReadRemoves(w) ==
    /\ pc[w] = "claimed"
    /\ claim[cur[w]] # NoJob
    /\ job' = [job EXCEPT ![w] = claim[cur[w]]]
    /\ pc' = [pc EXCEPT ![w] = "run"]
    /\ started' = started \cup {<<cur[w], claim[cur[w]].gen>>}
    /\ claim' = [claim EXCEPT ![cur[w]] = NoJob]
    /\ UNCHANGED <<clock, queue, main, todo, cur, at, stopping, stops, lost, mistaken>>

ReadJob(w) ==
    /\ pc[w] = "claimed"
    /\ LET c == claim[cur[w]] IN
          IF c # NoJob /\ c.form = "full"
          THEN /\ job' = [job EXCEPT ![w] = c]
               /\ pc' = [pc EXCEPT ![w] = "run"]
               /\ started' = started \cup {<<cur[w], c.gen>>}
               /\ UNCHANGED <<claim, lost>>
          ELSE /\ claim' = [claim EXCEPT ![cur[w]] = NoJob]
               /\ pc' = [pc EXCEPT ![w] = "each"]
               /\ lost' = IF c = NoJob THEN lost
                          ELSE lost \cup {<<cur[w], c.gen>>}
               /\ UNCHANGED <<job, started>>
    /\ UNCHANGED <<clock, queue, main, todo, cur, at, stopping, stops, mistaken>>

(* run_yt_dlp ends within HARD_TIMEOUT_S, with a result or an exception:   *)
(* either way there is an outcome to post.                                 *)
RunYtDlp(w) ==
    /\ pc[w] = "run"
    /\ pc' = [pc EXCEPT ![w] = "post"]
    /\ UNCHANGED <<clock, files, main, todo, cur, job, at, stopping, stops, hist>>

(* Mutants: a callback that seems to have failed is tried again; no        *)
(* callback is made.                                                       *)
PostRetries(w) ==
    /\ pc[w] = "post"
    /\ PostResult(cur[w], job[w].gen)
    /\ pc' = [pc EXCEPT ![w] = IF awaiting'[cur[w]] = 0 THEN @ ELSE "unlink"]
    /\ UNCHANGED <<clock, files, todo, cur, job, at, stopping, stops, started>>

PostSkipped(w) ==
    /\ pc[w] = "post"
    /\ pc' = [pc EXCEPT ![w] = "unlink"]
    /\ UNCHANGED <<clock, files, main, todo, cur, job, at, stopping, stops, hist>>

Post(w) ==
    /\ pc[w] = "post"
    /\ PostResult(cur[w], job[w].gen)
    /\ pc' = [pc EXCEPT ![w] = "unlink"]
    /\ UNCHANGED <<clock, files, todo, cur, job, at, stopping, stops, started>>

Unlink(w) ==
    /\ pc[w] = "unlink"
    /\ claim' = [claim EXCEPT ![cur[w]] = NoJob]
    /\ pc' = [pc EXCEPT ![w] = "each"]
    /\ UNCHANGED <<clock, queue, main, todo, cur, job, at, stopping, stops, hist>>

-----------------------------------------------------------------------------
(* SIGTERM or SIGINT: _stop sets the flag, nothing else.                   *)
StopSignal(w) ==
    /\ pc[w] # "down"
    /\ ~stopping[w]
    /\ stops < MaxStops
    /\ stops' = stops + 1
    /\ stopping' = [stopping EXCEPT ![w] = TRUE]
    /\ UNCHANGED <<clock, files, main, proc, hist>>

Crash(w) ==
    /\ pc[w] # "down"
    /\ stops < MaxStops
    /\ stops' = stops + 1
    /\ pc' = [pc EXCEPT ![w] = "down"]
    /\ todo' = [todo EXCEPT ![w] = {}]
    /\ UNCHANGED <<clock, files, main, cur, job, at, stopping, hist>>

(* Time passes, but no job takes longer than its two timeouts allow.       *)
Tick ==
    /\ clock < MaxTime
    /\ \A w \in Workers : Busy(w) => clock - at[w] < BusyMax
    /\ clock' = clock + 1
    /\ UNCHANGED <<files, main, proc, stopping, stops, hist>>

Work(w) ==
    \/ CleanupSkip(w) \/ CleanupPost(w) \/ CleanupUnlink(w) \/ CleanupDone(w)
    \/ Scan(w) \/ Exit(w) \/ EndOfScan(w) \/ Claim(w)
    \/ ReadJob(w) \/ RunYtDlp(w) \/ Post(w) \/ Unlink(w)

Next ==
    \/ \E t \in Tasks : Enqueue(t)
    \/ \E w \in Workers : Start(w) \/ Work(w) \/ StopSignal(w) \/ Crash(w)
    \/ Tick

Spec == Init /\ [][Next]_vars

(* A running worker makes progress (yt-dlp and the callback have           *)
(* timeouts); nothing makes anyone start one.                              *)
FairSpec == Spec /\ \A w \in Workers : WF_vars(Work(w))

-----------------------------------------------------------------------------
(* Properties *)

(* The variables have their types, and yt-dlp only ever runs for a job     *)
(* with a task and a url.                                                  *)
TypeOK ==
    /\ clock \in Nat
    /\ queue \in [Tasks -> Job \cup {NoJob}]
    /\ claim \in [Tasks -> Job \cup {NoJob}]
    /\ gen \in [Tasks -> Nat]
    /\ awaiting \in [Tasks -> Nat]
    /\ pc \in [Workers -> Pcs]
    /\ todo \in [Workers -> SUBSET Tasks]
    /\ cur \in [Workers -> Tasks \cup {NoTask}]
    /\ job \in [Workers -> {j \in Job : j.form = "full"} \cup {NoJob}]
    /\ at \in [Workers -> Nat]
    /\ stopping \in [Workers -> BOOLEAN]
    /\ stops \in Nat
    /\ lost \cup started \cup mistaken \subseteq Tasks \X Nat

(* The file f is that of request g.                                        *)
Holds(f, g) == f # NoJob /\ f.gen = g

(* A result the main service waits for is never forgotten: its job is on   *)
(* disk, where a restarted worker finds it, until the callback was made    *)
(* (_process removes the claim last, in its finally block).                *)
NothingDropped ==
    \A t \in Tasks : awaiting[t] # 0 =>
        \/ Holds(queue[t], awaiting[t])
        \/ Holds(claim[t], awaiting[t])
        \/ <<t, awaiting[t]>> \in lost

(* "失败 0 次重试": yt-dlp is run at most once for a job, whatever crashes,   *)
(* restarts and cleanups happen.                                           *)
ZeroRetries ==
    [][\A w \in Workers : pc[w] = "claimed" /\ pc'[w] = "run" =>
          <<cur[w], job'[w].gen>> \notin started]_vars

(* What yt-dlp found is not taken for the result of a later request of the *)
(* task, although the callback does not name the job, unless the job's own *)
(* request was answered in the same mistaken way: that begins with a       *)
(* worker that dies between a callback and the removal of the claim, whose *)
(* next start fails the claim once more, and with it the request that was  *)
(* made meanwhile.                                                         *)
ResultsAreCurrent ==
    [][\A w \in Workers : Post(w) =>
          \/ awaiting[cur[w]] \in {0, job[w].gen}
          \/ <<cur[w], job[w].gen>> \in mistaken]_vars

(* The claim a worker removes at the end is the one of the job it ran.     *)
UnlinksOwn ==
    [][\A w \in Workers : pc[w] = "unlink" /\ pc'[w] = "each" =>
          Holds(claim[cur[w]], job[w].gen)]_vars

-----------------------------------------------------------------------------
(* What makes the four inductive, of one worker: "单实例进程".               *)

OneWorker == \A u, v \in Workers : u = v

(* The file in the queue is the last request's, which was not run yet; a   *)
(* claim beside it is an older one's.                                      *)
TaskSound(t) ==
    /\ awaiting[t] \in {0, gen[t]}
    /\ \A r \in started : r[1] = t => r[2] <= gen[t]
    /\ queue[t] # NoJob =>
          /\ queue[t].gen = gen[t] /\ <<t, gen[t]>> \notin started
          /\ awaiting[t] = gen[t] \/ <<t, gen[t]>> \in mistaken
    /\ claim[t] # NoJob =>
          claim[t].gen <= gen[t] /\ (queue[t] # NoJob => claim[t].gen # gen[t])

FilesSound == \A t \in Tasks : TaskSound(t)

(* The claim the worker is at is there, is the job it has read, and was    *)
(* not run before; its result is waited for, until the callback.           *)
AtSound(w, t, c) ==
    /\ pc[w] \in {"drop", "claimed", "run", "post", "unlink"} => t \in Tasks /\ c # NoJob
    /\ pc[w] \in {"run", "post", "unlink"} => job[w] = c
    /\ pc[w] = "claimed" => <<t, c.gen>> \notin started
    /\ pc[w] \in {"claimed", "run", "post"} =>
          awaiting[t] = c.gen \/ <<t, c.gen>> \in mistaken
    /\ pc[w] \in {"drop", "unlink"} => (awaiting[t] = c.gen => <<t, c.gen>> \in lost)

WorkerSound == \A w \in Workers : AtSound(w, cur[w], claim[cur[w]])

IndInv == TypeOK /\ FilesSound /\ WorkerSound /\ NothingDropped

-----------------------------------------------------------------------------

(* A claim no running worker works on: its worker died.                    *)
Orphaned(t) ==
    claim[t] # NoJob /\ \A w \in Workers : ~(Busy(w) /\ cur[w] = t)

(* Every queued job gets its answer, unless its file cannot be read, the   *)
(* callback fails, its worker dies, or no worker is running: a stop signal *)
(* ends the loop and leaves the rest of the queue to the next start.       *)
JobsAnswered ==
    \A t \in Tasks : awaiting[t] # 0 ~>
        \/ awaiting[t] = 0
        \/ <<t, awaiting[t]>> \in lost
        \/ Orphaned(t)
        \/ \A w \in Workers : pc[w] = "down"

=============================================================================
