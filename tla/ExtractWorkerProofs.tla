------------------------ MODULE ExtractWorkerProofs ------------------------
(***************************************************************************)
(* Proofs about the yt-dlp worker: one process, any number of tasks, of    *)
(* requests and of crashes.                                                *)
(***************************************************************************)
EXTENDS ExtractWorker, WellFoundedInduction, TLAPS

(* What TypeOK says of one task and of one worker.                         *)
LEMMA TaskTypes ==
  ASSUME TypeOK, NEW t \in Tasks
  PROVE  /\ gen[t] \in Nat /\ awaiting[t] \in Nat
         /\ queue[t] # NoJob => queue[t] \in Job /\ queue[t].gen \in Nat \ {0}
         /\ claim[t] # NoJob => claim[t] \in Job /\ claim[t].gen \in Nat \ {0}
  <1>1. /\ queue[t] # NoJob => queue[t] \in Job
        /\ claim[t] # NoJob => claim[t] \in Job
    BY DEF TypeOK
  <1>2. \A j \in Job : j.gen \in Nat \ {0}
    BY DEF Job
  <1> QED BY <1>1, <1>2 DEF TypeOK

LEMMA InitInv == Init => IndInv
  <1> SUFFICES ASSUME Init PROVE IndInv
    OBVIOUS
  <1>1. TypeOK
    BY DEF Init, TypeOK, Pcs
  <1>2. FilesSound
    BY DEF Init, FilesSound, TaskSound
  <1>3. WorkerSound
    BY DEF Init, WorkerSound, AtSound
  <1>4. NothingDropped
    BY DEF Init, NothingDropped
  <1> QED BY <1>1, <1>2, <1>3, <1>4 DEF IndInv

-----------------------------------------------------------------------------
(* Steps that move the worker and touch no file                            *)

(* Where the worker goes there is nothing to say about a claim, or it is   *)
(* what was true before.                                                   *)
LEMMA MoveInv ==
  ASSUME IndInv, TypeOK', UNCHANGED <<files, main, job, cur, hist>>,
         \A w \in Workers : \/ pc'[w] = pc[w]
                            \/ pc'[w] \in {"down", "cleanup", "loop", "each"}
                            \/ pc[w] = "run" /\ pc'[w] = "post"
  PROVE  IndInv'
  <1> USE DEF IndInv, files, main, hist
  <1>1. FilesSound'
    BY DEF FilesSound, TaskSound
  <1>2. WorkerSound'
    BY DEF WorkerSound, AtSound
  <1>3. NothingDropped'
    BY DEF NothingDropped, Holds
  <1> QED BY <1>1, <1>2, <1>3

LEMMA MovesInv ==
  ASSUME IndInv, NEW w \in Workers,
         \/ Start(w) \/ CleanupSkip(w) \/ CleanupDone(w) \/ Scan(w) \/ Exit(w) \/ EndOfScan(w)
         \/ RunYtDlp(w) \/ StopSignal(w) \/ Crash(w)
  PROVE  IndInv'
  <1> USE DEF IndInv
  <1>1. TypeOK'
    <2>1. CASE Start(w)
      BY <2>1 DEF Start, TypeOK, Pcs, files, main, hist
    <2>2. CASE CleanupSkip(w)
      BY <2>2 DEF CleanupSkip, TypeOK, files, main, hist
    <2>3. CASE CleanupDone(w)
      BY <2>3 DEF CleanupDone, TypeOK, Pcs, files, main, hist
    <2>4. CASE Scan(w)
      BY <2>4 DEF Scan, TypeOK, Pcs, files, main, hist
    <2>5. CASE Exit(w)
      BY <2>5 DEF Exit, TypeOK, Pcs, files, main, hist
    <2>6. CASE EndOfScan(w)
      BY <2>6 DEF EndOfScan, TypeOK, Pcs, files, main, hist
    <2>7. CASE RunYtDlp(w)
      BY <2>7 DEF RunYtDlp, TypeOK, Pcs, files, main, hist
    <2>8. CASE StopSignal(w)
      BY <2>8 DEF StopSignal, TypeOK, files, main, proc, hist
    <2>9. CASE Crash(w)
      BY <2>9 DEF Crash, TypeOK, Pcs, files, main, hist
    <2> QED BY <2>1, <2>2, <2>3, <2>4, <2>5, <2>6, <2>7, <2>8, <2>9
  <1>2. UNCHANGED <<files, main, job, cur, hist>>
    BY DEF Start, CleanupSkip, CleanupDone, Scan, Exit, EndOfScan, RunYtDlp, StopSignal, Crash, proc
  <1>3. \A u \in Workers : \/ pc'[u] = pc[u]
                           \/ pc'[u] \in {"down", "cleanup", "loop", "each"}
                           \/ pc[u] = "run" /\ pc'[u] = "post"
    BY DEF TypeOK, Start, CleanupSkip, CleanupDone, Scan, Exit, EndOfScan, RunYtDlp, StopSignal,
           Crash, proc
  <1> QED BY <1>1, <1>2, <1>3, MoveInv

LEMMA TickInv ==
  ASSUME IndInv, Tick
  PROVE  IndInv'
  <1>1. UNCHANGED <<files, main, proc, stopping, stops, hist>> /\ clock' = clock + 1
    BY DEF Tick
  <1>2. TypeOK'
    BY <1>1 DEF IndInv, TypeOK, files, main, proc, hist
  <1> QED BY <1>1, <1>2, MoveInv DEF proc

-----------------------------------------------------------------------------
(* Requests and callbacks                                                  *)

(* Enqueue: nothing of the task was waited for, so that no claim of it is  *)
(* being run but one whose request was answered by mistake.                *)
LEMMA EnqueueInv ==
  ASSUME IndInv, NEW t \in Tasks, Enqueue(t)
  PROVE  IndInv'
  <1> USE DEF IndInv
  <1>1. PICK f \in {"full", "no_url", "unreadable"} :
           queue' = [queue EXCEPT ![t] = [gen |-> gen[t] + 1, mtime |-> clock, form |-> f]]
    BY DEF Enqueue
  <1> DEFINE new == [gen |-> gen[t] + 1, mtime |-> clock, form |-> f]
  <1>2. /\ awaiting[t] = 0
        /\ gen' = [gen EXCEPT ![t] = gen[t] + 1]
        /\ awaiting' = [awaiting EXCEPT ![t] = gen[t] + 1]
        /\ UNCHANGED <<clock, claim, pc, todo, cur, job, at, stopping, stops, lost, started, mistaken>>
    BY DEF Enqueue, proc, hist
  <1>3. gen[t] \in Nat /\ new \in Job /\ new.gen = gen[t] + 1 /\ new # NoJob
    <2>1. gen[t] \in Nat /\ clock \in Nat
      BY DEF TypeOK
    <2>2. new \in Job /\ new.gen = gen[t] + 1
      BY <2>1 DEF Job
    <2> QED BY <2>1, <2>2, ExtractAssumption
  <1>4. \A u \in Tasks : /\ u # t => queue'[u] = queue[u] /\ gen'[u] = gen[u] /\ awaiting'[u] = awaiting[u]
                         /\ u = t => queue'[u] = new /\ gen'[u] = gen[t] + 1 /\ awaiting'[u] = gen[t] + 1
    BY <1>1, <1>2 DEF TypeOK
  <1>5. TypeOK'
    <2> HIDE DEF new
    <2>1. queue' \in [Tasks -> Job \cup {NoJob}]
      BY <1>1, <1>3 DEF TypeOK, new
    <2>2. gen' \in [Tasks -> Nat] /\ awaiting' \in [Tasks -> Nat]
      BY <1>2, <1>3 DEF TypeOK
    <2> QED BY <1>2, <2>1, <2>2 DEF TypeOK
  <1> HIDE DEF new
  <1>6. FilesSound'
    <2> SUFFICES ASSUME NEW u \in Tasks PROVE TaskSound(u)'
      BY DEF FilesSound
    <2>1. TaskSound(u)
      BY DEF FilesSound
    <2>2. CASE u # t
      BY <1>2, <1>4, <2>1, <2>2 DEF TaskSound
    <2>3. CASE u = t
      <3>1. claim[u] # NoJob => claim[u].gen \in Nat /\ claim[u].gen <= gen[u]
        BY <2>1, TaskTypes DEF TaskSound
      <3>2. \A r \in started : r[1] = u => r[2] <= gen[u] /\ r[2] \in Nat
        BY <2>1 DEF TaskSound, TypeOK
      <3>3. <<u, gen[u] + 1>> \notin started
        BY <1>3, <2>3, <3>2
      <3> QED BY <1>2, <1>3, <1>4, <2>3, <3>1, <3>2, <3>3 DEF TaskSound
    <2> QED BY <2>2, <2>3
  <1>7. WorkerSound'
    <2> SUFFICES ASSUME NEW w \in Workers PROVE AtSound(w, cur[w], claim[cur[w]])'
      BY DEF WorkerSound
    <2>1. AtSound(w, cur[w], claim[cur[w]])
      BY DEF WorkerSound
    <2>2. CASE cur[w] # t \/ cur[w] \notin Tasks
      BY <1>2, <1>4, <2>1, <2>2 DEF AtSound
    <2>3. CASE cur[w] = t
      <3>1. claim[t] # NoJob => claim[t].gen \in Nat \ {0} /\ claim[t].gen <= gen[t]
        BY TaskTypes DEF FilesSound, TaskSound
      <3> QED BY <1>2, <1>3, <1>4, <2>1, <2>3, <3>1 DEF AtSound
    <2> QED BY <2>2, <2>3
  <1>8. NothingDropped'
    BY <1>2, <1>3, <1>4 DEF NothingDropped, Holds
  <1> QED BY <1>5, <1>6, <1>7, <1>8

(* A callback for a claim.  If the result of a later request was taken for *)
(* answered, that is recorded; if the call failed, so is that.             *)
LEMMA PostResultSound ==
  ASSUME IndInv, NEW t \in Tasks, claim[t] # NoJob, PostResult(t, claim[t].gen),
         UNCHANGED <<files, started>>
  PROVE  /\ awaiting' \in [Tasks -> Nat] /\ gen' = gen
         /\ lost' \cup mistaken' \subseteq Tasks \X Nat
         /\ FilesSound' /\ NothingDropped'
         /\ awaiting'[t] = claim[t].gen => <<t, claim[t].gen>> \in lost'
  <1> USE DEF IndInv
  <1>0. UNCHANGED <<queue, claim, started>>
    BY DEF files
  <1>1. claim[t].gen \in Nat \ {0} /\ awaiting[t] \in Nat
    BY TaskTypes
  <1>2. CASE /\ awaiting' = [awaiting EXCEPT ![t] = 0]
             /\ mistaken' = IF awaiting[t] \in {0, claim[t].gen} THEN mistaken
                            ELSE mistaken \cup {<<t, awaiting[t]>>}
             /\ UNCHANGED <<gen, lost>>
    <2>1. \A u \in Tasks : awaiting'[u] = IF u = t THEN 0 ELSE awaiting[u]
      BY <1>2 DEF TypeOK
    <2>2. mistaken \subseteq mistaken' /\ mistaken' \subseteq Tasks \X Nat
      BY <1>1, <1>2 DEF TypeOK
    <2>3. queue[t] # NoJob => <<t, gen[t]>> \in mistaken'
      <3>1. TaskSound(t)
        BY DEF FilesSound
      <3> QED BY <1>1, <1>2, <2>2, <3>1 DEF TaskSound
    <2>4. FilesSound'
      <3> SUFFICES ASSUME NEW u \in Tasks PROVE TaskSound(u)'
        BY DEF FilesSound
      <3>1. TaskSound(u)
        BY DEF FilesSound
      <3> QED BY <1>0, <1>2, <2>1, <2>2, <2>3, <3>1 DEF TaskSound
    <2>5. NothingDropped'
      BY <1>0, <1>2, <2>1 DEF NothingDropped, Holds
    <2>6. awaiting' \in [Tasks -> Nat] /\ lost' \subseteq Tasks \X Nat
      BY <1>2 DEF TypeOK
    <2> QED BY <1>1, <1>2, <2>1, <2>2, <2>4, <2>5, <2>6
  <1>3. CASE lost' = lost \cup {<<t, claim[t].gen>>} /\ UNCHANGED <<main, mistaken>>
    <2>1. UNCHANGED <<gen, awaiting, mistaken>> /\ lost \subseteq lost'
      BY <1>3 DEF main
    <2>2. FilesSound'
      BY <1>0, <2>1 DEF FilesSound, TaskSound
    <2>3. NothingDropped'
      BY <1>0, <2>1 DEF NothingDropped, Holds
    <2>4. lost' \cup mistaken' \subseteq Tasks \X Nat
      BY <1>1, <1>3 DEF TypeOK
    <2> QED BY <1>3, <2>1, <2>2, <2>3, <2>4 DEF TypeOK
  <1> QED BY <1>2, <1>3 DEF PostResult

LEMMA PostInv ==
  ASSUME IndInv, OneWorker, NEW w \in Workers, Post(w)
  PROVE  IndInv'
  <1> USE DEF IndInv
  <1>1. /\ pc[w] = "post" /\ pc' = [pc EXCEPT ![w] = "unlink"]
        /\ PostResult(cur[w], job[w].gen)
        /\ UNCHANGED <<clock, files, todo, cur, job, at, stopping, stops, started>>
    BY DEF Post
  <1>2. cur[w] \in Tasks /\ claim[cur[w]] # NoJob /\ job[w] = claim[cur[w]]
    BY <1>1 DEF WorkerSound, AtSound
  <1> DEFINE t == cur[w]
  <1>3. /\ awaiting' \in [Tasks -> Nat] /\ gen' = gen
        /\ lost' \cup mistaken' \subseteq Tasks \X Nat
        /\ FilesSound' /\ NothingDropped'
        /\ awaiting'[t] = claim[t].gen => <<t, claim[t].gen>> \in lost'
    BY <1>1, <1>2, PostResultSound
  <1>4. UNCHANGED <<queue, claim>>
    BY <1>1 DEF files
  <1>5. TypeOK'
    <2>1. pc' \in [Workers -> Pcs]
      BY <1>1 DEF TypeOK, Pcs
    <2> QED BY <1>1, <1>3, <1>4, <2>1 DEF TypeOK
  <1>6. WorkerSound'
    <2> SUFFICES AtSound(w, cur[w], claim[cur[w]])'
      BY DEF WorkerSound, OneWorker
    <2>1. pc'[w] = "unlink"
      BY <1>1 DEF TypeOK
    <2> QED BY <1>1, <1>2, <1>3, <1>4, <2>1 DEF AtSound
  <1> QED BY <1>3, <1>5, <1>6

LEMMA CleanupPostInv ==
  ASSUME IndInv, OneWorker, NEW w \in Workers, CleanupPost(w)
  PROVE  IndInv'
  <1> USE DEF IndInv
  <1>1. PICK t \in todo[w] :
           /\ Stale(w, t)
           /\ cur' = [cur EXCEPT ![w] = t]
           /\ IF claim[t].form = "unreadable"
              THEN lost' = lost \cup {<<t, claim[t].gen>>} /\ UNCHANGED <<main, mistaken>>
              ELSE PostResult(t, claim[t].gen)
    BY DEF CleanupPost
  <1>2. /\ pc[w] = "cleanup" /\ pc' = [pc EXCEPT ![w] = "drop"]
        /\ UNCHANGED <<clock, files, todo, job, at, stopping, stops, started>>
    BY DEF CleanupPost
  <1>3. t \in Tasks /\ claim[t] # NoJob
    BY <1>1 DEF TypeOK, Stale
  <1>4. PostResult(t, claim[t].gen)
    BY <1>1 DEF PostResult
  <1>5. /\ awaiting' \in [Tasks -> Nat] /\ gen' = gen
        /\ lost' \cup mistaken' \subseteq Tasks \X Nat
        /\ FilesSound' /\ NothingDropped'
        /\ awaiting'[t] = claim[t].gen => <<t, claim[t].gen>> \in lost'
    BY <1>2, <1>3, <1>4, PostResultSound
  <1>6. UNCHANGED <<queue, claim>>
    BY <1>2 DEF files
  <1>7. TypeOK'
    <2>1. pc' \in [Workers -> Pcs] /\ cur' \in [Workers -> Tasks \cup {NoTask}]
      BY <1>1, <1>2, <1>3 DEF TypeOK, Pcs
    <2> QED BY <1>2, <1>5, <1>6, <2>1 DEF TypeOK
  <1>8. WorkerSound'
    <2> SUFFICES AtSound(w, cur[w], claim[cur[w]])'
      BY DEF WorkerSound, OneWorker
    <2>1. pc'[w] = "drop" /\ cur'[w] = t
      BY <1>1, <1>2 DEF TypeOK
    <2> QED BY <1>3, <1>5, <1>6, <2>1 DEF AtSound
  <1> QED BY <1>5, <1>7, <1>8

-----------------------------------------------------------------------------
(* The claim                                                               *)

(* A claim goes only when its result is not waited for, or is lost.        *)
LEMMA RemoveSound ==
  ASSUME IndInv, NEW t \in Tasks, claim' = [claim EXCEPT ![t] = NoJob],
         lost \subseteq lost', awaiting[t] = claim[t].gen => <<t, claim[t].gen>> \in lost',
         UNCHANGED <<queue, main, started, mistaken>>
  PROVE  FilesSound' /\ NothingDropped' /\ claim' \in [Tasks -> Job \cup {NoJob}]
  <1> USE DEF IndInv, main
  <1>1. \A u \in Tasks : claim'[u] = IF u = t THEN NoJob ELSE claim[u]
    BY DEF TypeOK
  <1>2. FilesSound'
    BY <1>1 DEF FilesSound, TaskSound
  <1>3. NothingDropped'
    BY <1>1 DEF NothingDropped, Holds
  <1> QED BY <1>2, <1>3 DEF TypeOK

LEMMA UnlinkInv ==
  ASSUME IndInv, OneWorker, NEW w \in Workers, Unlink(w) \/ CleanupUnlink(w)
  PROVE  IndInv'
  <1> USE DEF IndInv
  <1>1. /\ pc[w] \in {"drop", "unlink"}
        /\ claim' = [claim EXCEPT ![cur[w]] = NoJob]
        /\ pc' = [pc EXCEPT ![w] = IF pc[w] = "drop" THEN "cleanup" ELSE "each"]
        /\ todo' \in [Workers -> SUBSET Tasks]
        /\ UNCHANGED <<clock, queue, main, cur, job, at, stopping, stops, hist>>
    <2>1. CASE Unlink(w)
      BY <2>1 DEF Unlink, TypeOK
    <2>2. CASE CleanupUnlink(w)
      <3>1. todo' = [todo EXCEPT ![w] = todo[w] \ {cur[w]}] /\ todo[w] \ {cur[w]} \in SUBSET Tasks
        BY <2>2 DEF CleanupUnlink, TypeOK
      <3>2. todo' \in [Workers -> SUBSET Tasks]
        BY <3>1 DEF TypeOK
      <3> QED BY <2>2, <3>2 DEF CleanupUnlink
    <2> QED BY <2>1, <2>2
  <1>2. cur[w] \in Tasks /\ (awaiting[cur[w]] = claim[cur[w]].gen => <<cur[w], claim[cur[w]].gen>> \in lost)
    BY <1>1 DEF WorkerSound, AtSound
  <1>3. FilesSound' /\ NothingDropped' /\ claim' \in [Tasks -> Job \cup {NoJob}]
    BY <1>1, <1>2, RemoveSound DEF hist
  <1>4. pc'[w] \in {"cleanup", "each"} /\ pc' \in [Workers -> Pcs]
    BY <1>1 DEF TypeOK, Pcs
  <1>5. TypeOK'
    BY <1>1, <1>3, <1>4 DEF TypeOK, main, hist
  <1>6. WorkerSound'
    BY <1>4 DEF WorkerSound, AtSound, OneWorker
  <1> QED BY <1>3, <1>5, <1>6

(* The first of the files listed.                                          *)
LEMMA FirstIn ==
  ASSUME NEW S \in SUBSET Tasks, S # {}
  PROVE  First(S) \in S
  <1> DEFINE R == OpToRel(<, Nat)
  <1>1. IsWellFoundedOn(R, Nat)
    BY NatLessThanWellFounded
  <1>2. S \subseteq Nat
    BY ExtractAssumption
  <1>3. PICK t \in S : \A u \in S : <<u, t>> \notin R
    <2> HIDE DEF R
    <2> QED BY <1>1, <1>2, WFMin
  <1>4. \A u \in S : t <= u
    <2> SUFFICES ASSUME NEW u \in S PROVE t <= u
      OBVIOUS
    <2>1. u \in Nat /\ t \in Nat
      BY <1>2
    <2>2. <<u, t>> \notin R
      BY <1>3
    <2>3. ~(u < t)
      BY <2>1, <2>2 DEF OpToRel
    <2> HIDE DEF R
    <2> QED BY <2>1, <2>3
  <1> HIDE DEF R
  <1> QED BY <1>4 DEF First

(* Claim: the request is waited for, or was answered by mistake; a claim   *)
(* that is replaced is an older one's.                                     *)
LEMMA ClaimInv ==
  ASSUME IndInv, OneWorker, NEW w \in Workers, Claim(w)
  PROVE  IndInv'
  <1> USE DEF IndInv
  <1> DEFINE t == First(todo[w])
  <1>1. t \in Tasks /\ todo' = [todo EXCEPT ![w] = @ \ {t}] /\ todo' \in [Workers -> SUBSET Tasks]
    <2>1. todo[w] \in SUBSET Tasks /\ todo[w] # {} /\ todo' = [todo EXCEPT ![w] = @ \ {t}]
      BY DEF Claim, TypeOK
    <2>2. t \in Tasks
      BY <2>1, FirstIn
    <2> HIDE DEF t
    <2> QED BY <2>1, <2>2 DEF TypeOK
  <1>2. pc[w] = "each" /\ UNCHANGED <<clock, main, job, stopping, stops, hist>>
    BY DEF Claim
  <1>3. CASE queue[t] = NoJob
    <2>1. UNCHANGED <<files, pc, cur, at>>
      BY <1>3 DEF Claim
    <2> HIDE DEF t
    <2>2. TypeOK'
      BY <1>1, <1>2, <2>1 DEF TypeOK, files, main, hist
    <2> QED BY <1>2, <2>1, <2>2, MoveInv
  <1>4. CASE queue[t] # NoJob
    <2>1. /\ claim' = [claim EXCEPT ![t] = queue[t]]
          /\ queue' = [queue EXCEPT ![t] = NoJob]
          /\ pc' = [pc EXCEPT ![w] = "claimed"]
          /\ cur' = [cur EXCEPT ![w] = t]
          /\ at' = [at EXCEPT ![w] = clock]
      BY <1>4 DEF Claim
    <2> HIDE DEF t
    <2>2. UNCHANGED <<clock, gen, awaiting, job, stopping, stops, lost, started, mistaken>>
      BY <1>2 DEF main, hist
    <2>3. \A u \in Tasks : /\ u # t => claim'[u] = claim[u] /\ queue'[u] = queue[u]
                           /\ u = t => claim'[u] = queue[u] /\ queue'[u] = NoJob
      BY <2>1 DEF TypeOK
    <2>4. TaskSound(t) /\ queue[t] \in Job /\ queue[t].gen \in Nat \ {0} /\ gen[t] \in Nat
      BY <1>1, <1>4, TaskTypes DEF FilesSound
    <2>5. TypeOK'
      <3>1. claim' \in [Tasks -> Job \cup {NoJob}] /\ queue' \in [Tasks -> Job \cup {NoJob}]
        BY <2>1, <2>4 DEF TypeOK
      <3>2. /\ pc' \in [Workers -> Pcs] /\ cur' \in [Workers -> Tasks \cup {NoTask}]
            /\ at' \in [Workers -> Nat]
        BY <1>1, <2>1 DEF TypeOK, Pcs
      <3> QED BY <1>1, <2>2, <3>1, <3>2 DEF TypeOK
    <2>6. FilesSound'
      <3> SUFFICES ASSUME NEW u \in Tasks PROVE TaskSound(u)'
        BY DEF FilesSound
      <3>1. TaskSound(u)
        BY DEF FilesSound
      <3> QED BY <2>2, <2>3, <2>4, <3>1 DEF TaskSound
    <2>7. WorkerSound'
      <3> SUFFICES AtSound(w, cur[w], claim[cur[w]])'
        BY DEF WorkerSound, OneWorker
      <3>1. pc'[w] = "claimed" /\ cur'[w] = t /\ claim'[t] = queue[t]
        BY <1>1, <2>1, <2>3 DEF TypeOK
      <3> QED BY <1>1, <1>4, <2>2, <2>4, <3>1 DEF AtSound, TaskSound
    <2>8. NothingDropped'
      <3> SUFFICES ASSUME NEW u \in Tasks, awaiting[u] # 0
                   PROVE  \/ Holds(queue'[u], awaiting[u])
                          \/ Holds(claim'[u], awaiting[u])
                          \/ <<u, awaiting[u]>> \in lost
        BY <2>2 DEF NothingDropped, Holds
      <3>1. CASE u # t
        BY <2>3, <3>1 DEF NothingDropped, Holds
      <3>2. CASE u = t
        <4>1. awaiting[t] \in {0, gen[t]} /\ queue[t].gen = gen[t]
          BY <1>4, <2>4 DEF TaskSound
        <4> QED BY <1>4, <2>3, <3>2, <4>1 DEF Holds
      <3> QED BY <3>1, <3>2
    <2> QED BY <2>5, <2>6, <2>7, <2>8
  <1> QED BY <1>3, <1>4

LEMMA ReadJobInv ==
  ASSUME IndInv, OneWorker, NEW w \in Workers, ReadJob(w)
  PROVE  IndInv'
  <1> USE DEF IndInv
  <1> DEFINE t == cur[w]
             c == claim[t]
  <1>1. pc[w] = "claimed" /\ UNCHANGED <<clock, queue, main, todo, cur, at, stopping, stops, mistaken>>
    BY DEF ReadJob
  <1>2. t \in Tasks /\ c # NoJob /\ AtSound(w, t, c)
    BY <1>1 DEF WorkerSound, AtSound
  <1>3. c \in Job /\ c.gen \in Nat \ {0}
    BY <1>2, TaskTypes
  <1>4. CASE c.form = "full"
    <2>1. /\ job' = [job EXCEPT ![w] = c]
          /\ pc' = [pc EXCEPT ![w] = "run"]
          /\ started' = started \cup {<<t, c.gen>>}
          /\ UNCHANGED <<claim, lost>>
      BY <1>2, <1>4 DEF ReadJob
    <2>2. UNCHANGED <<queue, gen, awaiting, cur, claim, lost, mistaken>>
      BY <1>1, <2>1 DEF main
    <2>3. TypeOK'
      <3>1. job' \in [Workers -> {j \in Job : j.form = "full"} \cup {NoJob}]
        BY <1>3, <1>4, <2>1 DEF TypeOK
      <3>2. pc' \in [Workers -> Pcs]
        BY <2>1 DEF TypeOK, Pcs
      <3>3. lost' \cup started' \cup mistaken' \subseteq Tasks \X Nat
        BY <1>2, <1>3, <2>1, <2>2 DEF TypeOK
      <3> QED BY <1>1, <2>2, <3>1, <3>2, <3>3 DEF TypeOK
    <2>4. FilesSound'
      <3> SUFFICES ASSUME NEW u \in Tasks PROVE TaskSound(u)'
        BY DEF FilesSound
      <3>1. TaskSound(u) /\ TaskSound(t)
        BY <1>2 DEF FilesSound
      <3>2. \A r \in started' : r \in started \/ (r[1] = t /\ r[2] = c.gen)
        BY <2>1
      <3>3. c.gen <= gen[t] /\ (queue[t] # NoJob => c.gen # gen[t])
        BY <1>2, <3>1 DEF TaskSound
      <3>4. \A r \in started' : r[1] = u => r[2] <= gen[u]
        BY <3>1, <3>2, <3>3 DEF TaskSound
      <3>5. queue[u] # NoJob => <<u, gen[u]>> \notin started'
        BY <2>1, <3>1, <3>3 DEF TaskSound
      <3> QED BY <2>2, <3>1, <3>4, <3>5 DEF TaskSound
    <2>5. WorkerSound'
      <3> SUFFICES AtSound(w, cur[w], claim[cur[w]])'
        BY DEF WorkerSound, OneWorker
      <3>1. pc'[w] = "run" /\ job'[w] = c
        BY <2>1 DEF TypeOK
      <3> QED BY <1>1, <1>2, <2>2, <3>1 DEF AtSound
    <2>6. NothingDropped'
      BY <2>2 DEF NothingDropped, Holds
    <2> QED BY <2>3, <2>4, <2>5, <2>6
  <1>5. CASE c.form # "full"
    <2>1. /\ claim' = [claim EXCEPT ![t] = NoJob]
          /\ pc' = [pc EXCEPT ![w] = "each"]
          /\ lost' = lost \cup {<<t, c.gen>>}
          /\ UNCHANGED <<job, started>>
      BY <1>2, <1>5 DEF ReadJob
    <2>2. FilesSound' /\ NothingDropped' /\ claim' \in [Tasks -> Job \cup {NoJob}]
      BY <1>1, <1>2, <2>1, RemoveSound
    <2>3. pc'[w] = "each" /\ pc' \in [Workers -> Pcs]
      BY <2>1 DEF TypeOK, Pcs
    <2>4. lost' \cup started' \cup mistaken' \subseteq Tasks \X Nat
      BY <1>1, <1>2, <1>3, <2>1 DEF TypeOK
    <2>5. TypeOK'
      BY <1>1, <2>1, <2>2, <2>3, <2>4 DEF TypeOK, main
    <2>6. WorkerSound'
      BY <2>3 DEF WorkerSound, AtSound, OneWorker
    <2> QED BY <2>2, <2>5, <2>6
  <1> QED BY <1>4, <1>5

-----------------------------------------------------------------------------

LEMMA NextInv ==
  ASSUME OneWorker
  PROVE  IndInv /\ [Next]_vars => IndInv'
  <1> SUFFICES ASSUME IndInv, [Next]_vars PROVE IndInv'
    OBVIOUS
  <1>1. CASE UNCHANGED vars
    BY <1>1 DEF vars, files, main, proc, hist, IndInv, TypeOK, FilesSound, TaskSound, WorkerSound,
                AtSound, NothingDropped, Holds
  <1>2. ASSUME NEW t \in Tasks, Enqueue(t)
        PROVE  IndInv'
    BY <1>2, EnqueueInv
  <1>3. ASSUME NEW w \in Workers, Start(w) \/ Work(w) \/ StopSignal(w) \/ Crash(w)
        PROVE  IndInv'
    BY <1>3, MovesInv, PostInv, CleanupPostInv, UnlinkInv, ClaimInv, ReadJobInv DEF Work
  <1>4. CASE Tick
    BY <1>4, TickInv
  <1> QED BY <1>1, <1>2, <1>3, <1>4 DEF Next

(* One worker, any number of tasks and requests, crashes and signals at    *)
(* any step: files and requests stay in step.                              *)
THEOREM Invariance ==
  ASSUME OneWorker
  PROVE  Spec => []IndInv
  <1>1. IndInv /\ [Next]_vars => IndInv'
    BY NextInv
  <1> QED BY <1>1, InitInv, PTL DEF Spec

(* A result that is waited for is never forgotten.                         *)
THEOREM NothingIsDropped ==
  ASSUME OneWorker
  PROVE  Spec => []NothingDropped
  <1>1. IndInv => NothingDropped
    BY DEF IndInv
  <1> QED BY <1>1, Invariance, PTL

(* yt-dlp is run at most once for a job.                                   *)
THEOREM NeverRunTwice ==
  ASSUME OneWorker
  PROVE  Spec => ZeroRetries
  <1> DEFINE Once == \A w \in Workers : pc[w] = "claimed" /\ pc'[w] = "run" =>
                        <<cur[w], job'[w].gen>> \notin started
  <1>1. IndInv /\ [Next]_vars => [Once]_vars
    <2> SUFFICES ASSUME IndInv, Next, NEW w \in Workers, pc[w] = "claimed", pc'[w] = "run"
                 PROVE  <<cur[w], job'[w].gen>> \notin started
      BY DEF Once
    <2>1. ReadJob(w)
      BY DEF Next, Work, OneWorker, IndInv, TypeOK, proc, Enqueue, Start, CleanupSkip, CleanupPost,
             CleanupUnlink, CleanupDone, Scan, Exit, EndOfScan, Claim, RunYtDlp, Post, Unlink,
             StopSignal, Crash, Tick
    <2>2. job'[w] = claim[cur[w]]
      BY <2>1 DEF ReadJob, IndInv, TypeOK
    <2> QED BY <2>2 DEF IndInv, WorkerSound, AtSound
  <1> QED BY <1>1, Invariance, PTL DEF Spec, ZeroRetries

(* The claim that is removed at the end is that of the job that was run.   *)
THEOREM OwnClaimUnlinked ==
  ASSUME OneWorker
  PROVE  Spec => UnlinksOwn
  <1> DEFINE Own == \A w \in Workers : pc[w] = "unlink" /\ pc'[w] = "each" =>
                       Holds(claim[cur[w]], job[w].gen)
  <1>1. IndInv /\ [Next]_vars => [Own]_vars
    BY DEF IndInv, WorkerSound, AtSound, Holds
  <1> QED BY <1>1, Invariance, PTL DEF Spec, UnlinksOwn

(* A result goes to another request only after a repeated cleanup had gone *)
(* wrong before it.                                                        *)
THEOREM ResultsForTheirOwn ==
  ASSUME OneWorker
  PROVE  Spec => ResultsAreCurrent
  <1> DEFINE Current == \A w \in Workers : Post(w) =>
                           \/ awaiting[cur[w]] \in {0, job[w].gen}
                           \/ <<cur[w], job[w].gen>> \in mistaken
  <1>1. IndInv /\ [Next]_vars => [Current]_vars
    BY DEF IndInv, WorkerSound, AtSound, Post
  <1> QED BY <1>1, Invariance, PTL DEF Spec, ResultsAreCurrent
=============================================================================
