--------------------------- MODULE WorkersProofs ---------------------------
(***************************************************************************)
(* Proofs about what works in the background: the cloud export queue, the  *)
(* metadata prober, the cache guard and the resolution of magnets.  They   *)
(* share no state and no names.                                            *)
(***************************************************************************)
EXTENDS CloudExport, BtProbe, CacheGuard, Magnet, FiniteSetTheorems, SequenceTheorems, TLAPS

-----------------------------------------------------------------------------
(* The export queue serves its rows in order and once, for every number of *)
(* rows, status calls and crashes.  The argument: until the status route   *)
(* touches it, a row is queued exactly as long as it is not claimed, and   *)
(* since the oldest queued row is claimed first, the claimed rows are a    *)
(* prefix of the untouched ones.                                           *)

LEMMA ExportConstants ==
  /\ MaxTasks \in Nat /\ MaxUpdates \in Nat /\ MaxExportCrashes \in Nat
  /\ "none" \notin Statuses
  BY CloudExportAssumption

LEMMA ExportInitially ==
  ExportInit => ExportIndInv
  BY ExportConstants
  DEF ExportInit, ExportIndInv, ExportTypeOK, ExportingAccounted, Rows, Statuses

(* What the claim relies on: the row it takes is older than every other    *)
(* untouched row that is still unclaimed.                                  *)
LEMMA ClaimFromFront ==
  ASSUME ExportIndInv,
         NEW i \in Rows, i \in Queued, \A j \in Queued : i <= j,
         NEW k \in Rows \ touched, k < i
  PROVE  k \in claimed
  <1>1. i <= last
    BY ExportConstants DEF ExportIndInv, ExportTypeOK, Queued, Rows
  <1>2. k <= last
    BY <1>1, ExportConstants DEF ExportIndInv, ExportTypeOK, Rows
  <1>3. k \notin Queued
    BY ExportConstants DEF Rows
  <1> QED BY <1>2, <1>3 DEF ExportIndInv, Queued

LEMMA ExportSteps ==
  ExportIndInv /\ [ExportNext]_exportVars => ExportIndInv'
  <1> SUFFICES ASSUME ExportIndInv, [ExportNext]_exportVars PROVE ExportIndInv'
    OBVIOUS
  <1> USE ExportConstants
  <1>1. CASE CreateTask
    <2>1. ExportTypeOK'
      BY <1>1 DEF CreateTask, ExportIndInv, ExportTypeOK, Rows, Statuses
    <2>2. ExportingAccounted'
      BY <1>1 DEF CreateTask, ExportIndInv, ExportTypeOK, ExportingAccounted, Rows
    <2>3. \A j \in (claimed \ touched)' : \A i \in (Rows \ touched)' :
             i < j => i \in claimed'
      BY <1>1 DEF CreateTask, ExportIndInv
    <2>4. \A i \in (Rows \ touched)' : i <= last' /\ i \notin claimed' =>
             status'[i] = "queued"
      BY <1>1 DEF CreateTask, ExportIndInv, ExportTypeOK, Rows
    <2>5. \A i \in (claimed \ touched)' : status'[i] # "queued"
      BY <1>1 DEF CreateTask, ExportIndInv, ExportTypeOK, Rows
    <2>6. /\ held' # 0 => held' \in claimed'
          /\ \A i \in claimed' : i <= last'
          /\ \A i \in touched' : i <= last'
      BY <1>1 DEF CreateTask, ExportIndInv, ExportTypeOK, Rows
    <2> QED BY <2>1, <2>2, <2>3, <2>4, <2>5, <2>6 DEF ExportIndInv
  <1>2. ASSUME NEW i \in Rows, NEW s \in ApiStatuses, UpdateStatus(i, s)
        PROVE  ExportIndInv'
    <2>1. ExportTypeOK'
      <3>1. CASE i <= last
        <4>1. status' = [status EXCEPT ![i] = s] /\ touched' = touched \cup {i}
          BY <1>2, <3>1 DEF UpdateStatus
        <4>2. s \in Statuses /\ s # "none" /\ status[i] # "none"
          BY <3>1 DEF Statuses, ExportIndInv, ExportTypeOK, Rows
        <4>3. status' \in [Rows -> Statuses \cup {"none"}]
          BY <4>1, <4>2 DEF ExportIndInv, ExportTypeOK
        <4>4. \A k \in Rows : status'[k] = "none" <=> k > last
          BY <4>1, <4>2 DEF ExportIndInv, ExportTypeOK
        <4> QED BY <1>2, <4>1, <4>3, <4>4 DEF UpdateStatus, ExportIndInv, ExportTypeOK
      <3>2. CASE ~(i <= last)
        BY <1>2, <3>2 DEF UpdateStatus, ExportIndInv, ExportTypeOK
      <3> QED BY <3>1, <3>2
    <2>2. ExportingAccounted'
      BY <1>2 DEF UpdateStatus, ExportIndInv, ExportTypeOK, ExportingAccounted, Rows
    <2>3. /\ held' # 0 => held' \in claimed'
          /\ \A k \in claimed' : k <= last'
          /\ \A k \in touched' : k <= last'
      BY <1>2 DEF UpdateStatus, ExportIndInv, ExportTypeOK
    <2>4. /\ touched \subseteq touched' /\ claimed' = claimed /\ last' = last
          /\ \A k \in Rows \ touched' : status'[k] = status[k]
      BY <1>2 DEF UpdateStatus, ExportIndInv, ExportTypeOK
    <2> QED BY <2>1, <2>2, <2>3, <2>4 DEF ExportIndInv, ExportTypeOK
  <1>3. CASE ClaimNext
    <2>1. PICK i \in Rows :
             /\ i \in Queued
             /\ \A j \in Queued : i <= j
             /\ status' = [status EXCEPT ![i] = "exporting"]
             /\ held' = i
             /\ claimed' = claimed \cup {i}
      BY <1>3 DEF ClaimNext, Queued
    <2>2. UNCHANGED <<last, up, updates, exportCrashes, touched, stuck>> /\ held = 0
      BY <1>3 DEF ClaimNext
    <2>3. i <= last /\ status[i] = "queued"
      BY <2>1 DEF ExportIndInv, ExportTypeOK, Queued, Rows
    <2>4. ExportTypeOK'
      BY <2>1, <2>2, <2>3 DEF ExportIndInv, ExportTypeOK, Rows, Statuses
    <2>5. ExportingAccounted'
      BY <2>1, <2>2 DEF ExportIndInv, ExportTypeOK, ExportingAccounted, Rows
    <2>6. \A j \in claimed' \ touched' : \A k \in Rows \ touched' :
             k < j => k \in claimed'
      <3>1. ASSUME NEW j \in claimed' \ touched', NEW k \in Rows \ touched', k < j
            PROVE  k \in claimed'
        <4>1. CASE j = i
          BY <2>1, <2>2, <3>1, <4>1, ClaimFromFront
        <4>2. CASE j # i
          BY <2>1, <2>2, <3>1, <4>2 DEF ExportIndInv
        <4> QED BY <4>1, <4>2
      <3> QED BY <3>1
    <2>7. /\ held' # 0 => held' \in claimed'
          /\ \A k \in claimed' : k <= last'
          /\ \A k \in touched' : k <= last'
      BY <2>1, <2>2, <2>3 DEF ExportIndInv
    <2>8. \A k \in Rows \ touched' : k <= last' /\ k \notin claimed' =>
             status'[k] = "queued"
      BY <2>1, <2>2 DEF ExportIndInv, ExportTypeOK
    <2>9. \A k \in claimed' \ touched' : status'[k] # "queued"
      BY <2>1, <2>2 DEF ExportIndInv, ExportTypeOK
    <2> QED BY <2>4, <2>5, <2>6, <2>7, <2>8, <2>9 DEF ExportIndInv
  <1>4. CASE Finish
    <2>1. held \in Rows /\ held \in claimed /\ held <= last
      BY <1>4 DEF Finish, ExportIndInv, ExportTypeOK, Rows
    <2>2. ExportTypeOK'
      <3>1. status' \in [Rows -> Statuses \cup {"none"}]
        BY <1>4, <2>1 DEF Finish, ExportIndInv, ExportTypeOK, Statuses
      <3>2. stuck' \subseteq Rows
        <4>1. stuck' = stuck \/ stuck' = stuck \cup {held}
          BY <1>4 DEF Finish
        <4> QED BY <2>1, <4>1 DEF ExportIndInv, ExportTypeOK
      <3>4. held' \in 0..MaxTasks
        BY <1>4 DEF Finish
      <3>3. \A k \in Rows : status'[k] = "none" <=> k > last
        <4>1. status[held] # "none"
          BY <2>1 DEF ExportIndInv, ExportTypeOK, Rows
        <4> QED BY <1>4, <2>1, <4>1 DEF Finish, ExportIndInv, ExportTypeOK
      <3> QED BY <1>4, <3>1, <3>2, <3>3, <3>4 DEF Finish, ExportIndInv, ExportTypeOK
    <2>3. ExportingAccounted'
      BY <1>4, <2>1 DEF Finish, ExportIndInv, ExportTypeOK, ExportingAccounted, Rows
    <2>4. /\ UNCHANGED <<last, touched, claimed>> /\ held' = 0
          /\ \A k \in Rows \ {held} : status'[k] = status[k]
          /\ status'[held] \in {status[held], "done"}
      BY <1>4, <2>1 DEF Finish, ExportIndInv, ExportTypeOK
    <2> QED BY <2>1, <2>2, <2>3, <2>4 DEF ExportIndInv, ExportTypeOK
  <1>5. CASE ExportCrash
    <2>1. stuck' \subseteq Rows /\ stuck \subseteq stuck'
      BY <1>5 DEF ExportCrash, ExportIndInv, ExportTypeOK, Rows
    <2>2. ExportTypeOK'
      <3>1. exportCrashes' \in 0..MaxExportCrashes /\ held' \in 0..MaxTasks
        BY <1>5 DEF ExportCrash, ExportIndInv, ExportTypeOK
      <3>2. up' \in BOOLEAN
        BY <1>5 DEF ExportCrash
      <3> QED BY <1>5, <2>1, <3>1, <3>2 DEF ExportCrash, ExportIndInv, ExportTypeOK
    <2>3. ExportingAccounted'
      BY <1>5 DEF ExportCrash, ExportIndInv, ExportTypeOK, ExportingAccounted, Rows
    <2> QED BY <1>5, <2>2, <2>3 DEF ExportCrash, ExportIndInv
  <1>6. CASE Restart
    BY <1>6 DEF Restart, ExportIndInv, ExportTypeOK, ExportingAccounted
  <1>7. CASE UNCHANGED exportVars
    BY <1>7 DEF exportVars, ExportIndInv, ExportTypeOK, ExportingAccounted
  <1> QED
    BY <1>1, <1>2, <1>3, <1>4, <1>5, <1>6, <1>7 DEF ExportNext, Idle

(* The inductive invariant of the export queue holds in every reachable    *)
(* state (claim_next_cloud_export_task and the worker loop of main.rs).    *)
THEOREM ExportInvariance ==
  ExportSpec => []ExportIndInv
  <1> QED BY ExportInitially, ExportSteps, PTL DEF ExportSpec

(* Untouched rows are served in the order of their creation, whatever      *)
(* crashes and failed writes happen.                                       *)
THEOREM ServedInOrder ==
  ExportSpec => []InOrder
  <1>1. ExportIndInv => InOrder
    BY ExportConstants DEF ExportIndInv, InOrder, ExportTypeOK, Rows
  <1> QED BY <1>1, ExportInvariance, PTL

(* A row shown as exporting is held, given up or set by a caller.          *)
THEOREM ExportingHasCause ==
  ExportSpec => []ExportingAccounted
  <1>1. ExportIndInv => ExportingAccounted
    BY DEF ExportIndInv
  <1> QED BY <1>1, ExportInvariance, PTL

(* The worker claims an untouched row at most once.                        *)
THEOREM NoSecondClaim ==
  ExportSpec => ClaimedOnce
  <1>1. ExportIndInv /\ [ExportNext]_exportVars =>
          [\A i \in Rows : held = 0 /\ held' = i /\ i \notin touched =>
              i \notin claimed]_exportVars
    <2> SUFFICES ASSUME ExportIndInv, ExportNext, NEW i \in Rows,
                        held = 0, held' = i, i \notin touched
                 PROVE  i \notin claimed
      BY DEF exportVars
    <2>1. i # 0
      BY ExportConstants DEF Rows
    <2>2. ClaimNext
      BY <2>1 DEF ExportNext, CreateTask, UpdateStatus, Finish, ExportCrash, Restart, Idle,
                  exportVars
    <2>3. status[i] = "queued"
      BY <2>2 DEF ClaimNext, Queued
    <2> QED BY <2>3 DEF ExportIndInv
  <1> QED BY <1>1, ExportInvariance, PTL DEF ExportSpec, ClaimedOnce

-----------------------------------------------------------------------------
(* The metadata prober, for every number of probes, hashes, threads and    *)
(* restarts.                                                               *)

LEMMA ProbeConstants ==
  /\ NoHash \notin Hashes /\ HashOf \in [Probes -> Hashes \cup {NoHash}]
  /\ Pool \in Nat \ {0} /\ MaxPolls \in Nat /\ MaxProbeCrashes \in Nat
  BY BtProbeAssumption

LEMMA ProbeInitially ==
  ProbeInit => ProbeIndInv
  BY ProbeConstants
  DEF ProbeInit, ProbeIndInv, ProbeTypeOK, TorrentsHeld, AloneKeepsTorrent, Pcs, Running,
      Results, UnderWay

LEMMA ProbeType ==
  ASSUME ProbeTypeOK, NEW p \in Probes, Step(p)
  PROVE  ProbeTypeOK'
  <1> USE DEF ProbeTypeOK, Pcs, Running, Results, GoTo, Return, Fails, qbt, UnderWay
  <1>1. CASE RunProbe(p)
    BY <1>1 DEF RunProbe, Rivals
  <1>2. CASE AddPaused(p)
    BY <1>2 DEF AddPaused, Added
  <1>3. CASE Info(p)
    BY <1>3 DEF Info
  <1>4. CASE Sleep(p)
    BY <1>4, ProbeConstants DEF Sleep
  <1>5. CASE Files(p)
    <2>1. CASE torrent[HashOf[p]] # "absent" /\ ~Fails(p)
      <3>1. /\ listed' = [listed EXCEPT ![p] = torrent[HashOf[p]] = "ready"]
            /\ \/ pc' = [pc EXCEPT ![p] = "prio"] /\ res' = [res EXCEPT ![p] = @]
               \/ pc' = [pc EXCEPT ![p] = "delete"] /\ res' = [res EXCEPT ![p] = "empty"]
            /\ UNCHANGED <<qbt, polls, faulted, probeCrashes, overlapped>>
        BY <1>5, <2>1 DEF Files
      <3>2. /\ listed' \in [Probes -> BOOLEAN] /\ pc' \in [Probes -> Pcs]
            /\ res' \in [Probes -> Results]
        BY <3>1
      <3>3. \A q \in Probes \ {p} : pc'[q] = pc[q] /\ res'[q] = res[q]
        BY <3>1
      <3>4. /\ pc'[p] = "prio" \/ (pc'[p] = "delete" /\ res'[p] = "empty")
            /\ HashOf[p] # NoHash
        BY <1>5, <3>1 DEF Files
      <3>5. UNCHANGED <<qbt, polls, faulted, probeCrashes, overlapped>>
        BY <3>1
      <3> QED BY <3>2, <3>3, <3>4, <3>5
    <2>2. CASE torrent[HashOf[p]] = "absent" /\ ~Fails(p)
      BY <1>5, <2>2 DEF Files
    <2>3. CASE Fails(p)
      BY <1>5, <2>3 DEF Files
    <2> QED BY <2>1, <2>2, <2>3
  <1>6. CASE ZeroPrio(p)
    BY <1>6, ProbeConstants DEF ZeroPrio
  <1>7. CASE SafeDelete(p)
    BY <1>7 DEF SafeDelete, Deleted
  <1>8. CASE PostCallback(p)
    BY <1>8 DEF PostCallback
  <1> QED BY <1>1, <1>2, <1>3, <1>4, <1>5, <1>6, <1>7, <1>8 DEF Step

(* Which torrents a step of a probe leaves alone, and which probes.        *)
LEMMA ProbeFrame ==
  ASSUME ProbeTypeOK, NEW p \in Probes, Step(p)
  PROVE  /\ \A h \in Hashes \ {HashOf[p]} :
               torrent'[h] = torrent[h] /\ (h \in zeroed' <=> h \in zeroed)
         /\ \A q \in Probes \ {p} : pc'[q] = pc[q] /\ res'[q] = res[q]
         /\ faulted \subseteq faulted' /\ faulted' \subseteq faulted \cup {p}
         /\ overlapped \subseteq overlapped'
  BY DEF Step, RunProbe, AddPaused, Info, Sleep, Files, ZeroPrio, SafeDelete,
         PostCallback, Added, Deleted, GoTo, Return, Fails, qbt, ProbeTypeOK

LEMMA ProbeHeld ==
  ASSUME ProbeIndInv, NEW p \in Probes, Step(p)
  PROVE  TorrentsHeld'
  <1> USE DEF ProbeIndInv
  <1> SUFFICES ASSUME NEW h \in Hashes
               PROVE  /\ torrent'[h] = "fetching" => Held(h, {"poll", "waiting", "delete"})'
                      /\ torrent'[h] = "ready" => Held(h, Running \ {"add"})'
                      /\ torrent'[h] # "absent" /\ h \notin zeroed' =>
                            \E q \in Probes : HashOf[q] = h /\ Unreported(q)'
    BY DEF TorrentsHeld
  <1>1. CASE h # HashOf[p]
    BY <1>1, ProbeFrame DEF TorrentsHeld, Held, Unreported
  <1>2. CASE h = HashOf[p]
    <2> USE <1>2 DEF TorrentsHeld, Held, Unreported, GoTo, Return, Fails, qbt,
                     Running, ProbeTypeOK
    <2>1. CASE RunProbe(p)
      BY <2>1, ProbeFrame DEF RunProbe, UnderWay
    <2>2. CASE AddPaused(p)
      BY <2>2, ProbeFrame DEF AddPaused, Added
    <2>3. CASE Info(p)
      BY <2>3, ProbeFrame DEF Info
    <2>4. CASE Sleep(p)
      BY <2>4, ProbeFrame DEF Sleep
    <2>5. CASE Files(p)
      BY <2>5, ProbeFrame DEF Files
    <2>6. CASE ZeroPrio(p)
      BY <2>6, ProbeFrame DEF ZeroPrio
    <2>7. CASE SafeDelete(p)
      BY <2>7, ProbeFrame DEF SafeDelete, Deleted
    <2>8. CASE PostCallback(p)
      BY <2>8, ProbeFrame DEF PostCallback
    <2> QED BY <2>1, <2>2, <2>3, <2>4, <2>5, <2>6, <2>7, <2>8 DEF Step
  <1> QED BY <1>1, <1>2

LEMMA ProbeAlone ==
  ASSUME ProbeIndInv, NEW p \in Probes, Step(p)
  PROVE  AloneKeepsTorrent'
  <1> USE DEF ProbeIndInv
  <1> SUFFICES ASSUME NEW q \in Probes, HashOf[q] # NoHash,
                      q \notin faulted' \cup overlapped'
               PROVE  /\ UnderWay(q)' => \A r \in Rivals(q) : ~UnderWay(r)'
                      /\ pc'[q] \in {"files", "prio"} => torrent'[HashOf[q]] = "ready"
                      /\ pc'[q] \in {"delete", "callback", "done"} => res'[q] \in {"files", "expired"}
    BY DEF AloneKeepsTorrent, Rivals
  <1>0. q \notin faulted \cup overlapped /\ HashOf[q] \in Hashes
    BY ProbeFrame, ProbeConstants
  <1> USE <1>0 DEF AloneKeepsTorrent, Rivals, GoTo, Return, Fails, qbt, Running,
                   ProbeTypeOK, UnderWay
  <1>1. CASE RunProbe(p)
    BY <1>1 DEF RunProbe
  <1>2. CASE AddPaused(p)
    BY <1>2 DEF AddPaused, Added
  <1>3. CASE Info(p)
    BY <1>3 DEF Info
  <1>4. CASE Sleep(p)
    BY <1>4 DEF Sleep
  <1>5. CASE Files(p)
    BY <1>5 DEF Files
  <1>6. CASE ZeroPrio(p)
    BY <1>6 DEF ZeroPrio
  <1>7. CASE SafeDelete(p)
    BY <1>7 DEF SafeDelete, Deleted
  <1>8. CASE PostCallback(p)
    BY <1>8 DEF PostCallback
  <1> QED BY <1>1, <1>2, <1>3, <1>4, <1>5, <1>6, <1>7, <1>8 DEF Step

LEMMA ProbeSteps ==
  ProbeIndInv /\ [ProbeNext]_probeVars => ProbeIndInv'
  <1> SUFFICES ASSUME ProbeIndInv, [ProbeNext]_probeVars PROVE ProbeIndInv'
    OBVIOUS
  <1> USE DEF ProbeIndInv
  <1>1. ASSUME NEW p \in Probes, Step(p) PROVE ProbeIndInv'
    BY <1>1, ProbeType, ProbeHeld, ProbeAlone
  <1>2. ASSUME NEW p \in Probes, Probe(p) PROVE ProbeIndInv'
    <2> USE <1>2 DEF Probe, ProbeTypeOK, qbt, Pcs, Running, UnderWay
    <2>1. ProbeTypeOK'
      OBVIOUS
    <2>2. TorrentsHeld'
      BY DEF TorrentsHeld, Held, Unreported
    <2>3. AloneKeepsTorrent'
      BY DEF AloneKeepsTorrent, Rivals
    <2> QED BY <2>1, <2>2, <2>3
  <1>3. ASSUME NEW h \in Hashes, Metadata(h) PROVE ProbeIndInv'
    <2> USE <1>3 DEF Metadata, ProbeTypeOK, qbt, Pcs, Running, UnderWay
    <2>1. ProbeTypeOK'
      OBVIOUS
    <2>2. TorrentsHeld'
      BY DEF TorrentsHeld, Held, Unreported
    <2>3. AloneKeepsTorrent'
      BY DEF AloneKeepsTorrent, Rivals
    <2> QED BY <2>1, <2>2, <2>3
  <1>4. CASE ProbeCrash
    <2> USE <1>4 DEF ProbeCrash, ProbeTypeOK, qbt, Pcs, Running, UnderWay
    <2>1. ProbeTypeOK'
      BY ProbeConstants
    <2>2. TorrentsHeld'
      BY DEF TorrentsHeld, Held, Unreported
    <2>3. AloneKeepsTorrent'
      BY DEF AloneKeepsTorrent, Rivals
    <2> QED BY <2>1, <2>2, <2>3
  <1>5. CASE UNCHANGED probeVars
    BY <1>5 DEF probeVars, qbt, ProbeTypeOK, TorrentsHeld, Held, Unreported,
                AloneKeepsTorrent, Rivals, UnderWay
  <1> QED BY <1>1, <1>2, <1>3, <1>4, <1>5 DEF ProbeNext, Quiescent

(* The inductive invariant holds in every reachable state of the prober    *)
(* and its qBittorrent (run_probe in qbt.py).                              *)
THEOREM ProbeInvariance ==
  ProbeSpec => []ProbeIndInv
  <1> QED BY ProbeInitially, ProbeSteps, PTL DEF ProbeSpec

(* No torrent is left in qBittorrent without a probe under way or a failed *)
(* call to blame, and none is left loading after its probes reported.      *)
THEOREM NoUnaccountedResidue ==
  ProbeSpec => []ResidueAccounted
  <1>1. ProbeIndInv => ResidueAccounted
    BY DEF ProbeIndInv, ProbeTypeOK, TorrentsHeld, Held, Unreported, ResidueAccounted,
           UnderWay, Running
  <1> QED BY <1>1, ProbeInvariance, PTL

(* A probe that has its hash to itself and meets no failed call reports    *)
(* the files or the deadline.                                              *)
THEOREM AloneIsSound ==
  ProbeSpec => []SoundAlone
  <1>1. ProbeIndInv => SoundAlone
    BY DEF ProbeIndInv, AloneKeepsTorrent, SoundAlone
  <1> QED BY <1>1, ProbeInvariance, PTL

-----------------------------------------------------------------------------
(* The cache guard, for any directories, limits and number of writes.  The *)
(* loop is entered above the limit and gone on with above the floor, and   *)
(* whether anything changed since the listing shows in the times, because  *)
(* a write is later than all of them and a deleted directory has none.     *)

LEMMA GuardConstants ==
  /\ IsFiniteSet(Dirs) /\ MaxBytes \in Nat /\ FloorBytes \in 0..MaxBytes
  /\ MaxWrites \in Nat /\ MaxAborts \in Nat
  BY CacheGuardAssumption

LEMMA GuardMeasures ==
  ASSUME GuardTypeOK
  PROVE  DirSizeBytes \in Nat
  <1> DEFINE all == Dirs \X (1..MaxWrites)
             used == {b \in all : b[2] <= size[b[1]]}
  <1>1. IsFiniteSet(all)
    <2>1. IsFiniteSet(1..MaxWrites)
      BY GuardConstants, FS_Interval
    <2> QED BY <2>1, GuardConstants, FS_Product
  <1>2. IsFiniteSet(used)
    <2>1. used \subseteq all
      OBVIOUS
    <2> HIDE DEF used, all
    <2> QED BY <1>1, <2>1, FS_Subset
  <1>3. Cardinality(used) \in Nat
    <2> HIDE DEF used
    <2> QED BY <1>2, FS_CardinalityType
  <1>4. root \in Nat
    BY GuardConstants DEF GuardTypeOK
  <1>5. DirSizeBytes = root + Cardinality(used)
    BY DEF DirSizeBytes
  <1> HIDE DEF used
  <1> QED BY <1>3, <1>4, <1>5

(* A candidate the loop takes off the list leaves listed ones.             *)
LEMMA GuardTail ==
  ASSUME GuardTypeOK, candidates # <<>>, candidates' = Tail(candidates),
         \A k \in DOMAIN candidates : listedAt[candidates[k]] # 0
  PROVE  /\ candidates' \in Seq(Dirs)
         /\ \A k \in DOMAIN candidates' : listedAt[candidates'[k]] # 0
         /\ Head(candidates) \in Dirs /\ listedAt[Head(candidates)] # 0
  <1>1. candidates \in Seq(Dirs)
    BY DEF GuardTypeOK
  <1>2. /\ candidates' \in Seq(Dirs) /\ Len(candidates') = Len(candidates) - 1
        /\ \A k \in 1..Len(candidates') : candidates'[k] = candidates[k + 1]
    BY <1>1, HeadTailProperties
  <1>3. Len(candidates) \in Nat /\ Len(candidates) # 0
    BY <1>1, EmptySeq, LenProperties
  <1>4. DOMAIN candidates = 1..Len(candidates) /\ DOMAIN candidates' = 1..Len(candidates')
    BY <1>1, <1>2, LenProperties
  <1>5. Head(candidates) = candidates[1] /\ 1 \in DOMAIN candidates
    BY <1>1, <1>3, <1>4
  <1>6. ASSUME NEW k \in DOMAIN candidates' PROVE listedAt[candidates'[k]] # 0
    <2>1. k + 1 \in DOMAIN candidates /\ candidates'[k] = candidates[k + 1]
      BY <1>2, <1>3, <1>4
    <2> QED BY <2>1
  <1>7. candidates[1] \in Dirs
    BY <1>1, <1>4, <1>5, ElementOfSeq
  <1> QED BY <1>2, <1>5, <1>6, <1>7

LEMMA GuardSteps ==
  ASSUME GuardIndInv, [GuardNext]_guardVars
  PROVE  GuardIndInv'
  <1> USE GuardConstants DEF GuardIndInv
  <1>1. ASSUME NEW d \in Dirs, Write(d) PROVE GuardIndInv'
    <2>1. /\ writes \in Nat /\ writes' = writes + 1 /\ writes' \in 0..MaxWrites
          /\ UNCHANGED <<at, candidates, listedAt, total, aborts>>
      BY <1>1 DEF Write, GuardTypeOK
    <2>2. CASE root' = root + 1 /\ UNCHANGED <<size, mtime>>
      <3>1. root' \in 0..writes'
        BY <2>1, <2>2 DEF GuardTypeOK
      <3>2. \A f : f \in [Dirs -> 0..writes] => f \in [Dirs -> 0..writes']
        BY <2>1
      <3>3. GuardTypeOK'
        BY <2>1, <2>2, <3>1, <3>2 DEF GuardTypeOK
      <3>4. AsListed' <=> AsListed
        BY <2>1, <2>2 DEF AsListed
      <3> QED BY <2>1, <3>3, <3>4
    <2>3. CASE /\ size' = [size EXCEPT ![d] = @ + 1] /\ mtime' = [mtime EXCEPT ![d] = writes + 1]
               /\ UNCHANGED root
      <3>1. GuardTypeOK'
        <4>1. \A e \in Dirs : size[e] \in 0..writes /\ mtime[e] \in 0..writes /\ listedAt[e] \in 0..writes
          BY DEF GuardTypeOK
        <4>2. size[d] + 1 \in 0..writes' /\ writes + 1 \in 0..writes' /\ 0..writes \subseteq 0..writes'
          BY <2>1, <4>1
        <4>3. /\ size' \in [Dirs -> 0..writes'] /\ mtime' \in [Dirs -> 0..writes']
              /\ listedAt' \in [Dirs -> 0..writes'] /\ root' \in 0..writes'
          BY <2>1, <2>3, <4>1, <4>2 DEF GuardTypeOK
        <4> QED BY <2>1, <4>3 DEF GuardTypeOK
      <3>2. mtime'[d] = writes + 1 /\ listedAt'[d] \in 0..writes
        BY <2>1, <2>3 DEF GuardTypeOK
      <3>3. ~AsListed'
        BY <2>1, <3>2 DEF AsListed
      <3> QED BY <2>1, <3>1, <3>3
    <2> QED BY <1>1, <2>2, <2>3 DEF Write
  <1>2. CASE Check
    <2>1. /\ at = "idle" /\ total' = DirSizeBytes /\ at' \in {"idle", "list"}
          /\ at' = "list" => total' > MaxBytes
          /\ UNCHANGED <<size, mtime, root, writes, candidates, listedAt, aborts>>
      BY <1>2 DEF Check, cache
    <2>2. total' \in Nat
      BY <2>1, GuardMeasures
    <2> QED BY <2>1, <2>2 DEF GuardTypeOK
  <1>3. CASE List
    <2>1. /\ at = "list" /\ candidates' \in Listings /\ listedAt' = mtime /\ at' = "each"
          /\ UNCHANGED <<size, mtime, root, writes, total, aborts>>
      BY <1>3 DEF List, cache
    <2>2. Cardinality(Present) \in Nat
      <3>1. Present \subseteq Dirs
        BY DEF Present
      <3> QED BY <3>1, FS_Subset, FS_CardinalityType
    <2>3. candidates' \in [1..Cardinality(Present) -> Present]
      BY <2>1 DEF Listings
    <2>4. candidates' \in Seq(Present)
      BY <2>2, <2>3, SeqDef
    <2>5. candidates' \in Seq(Dirs)
      <3>1. Present \subseteq Dirs
        BY DEF Present
      <3> QED BY <2>2, <2>3, <3>1, SeqDef
    <2>6. \A k \in DOMAIN candidates' : listedAt'[candidates'[k]] # 0
      BY <2>1, <2>3 DEF Present
    <2>7. total > MaxBytes /\ total > FloorBytes
      BY <2>1 DEF GuardTypeOK
    <2>8. GuardTypeOK'
      BY <2>1, <2>5 DEF GuardTypeOK
    <2> QED BY <2>1, <2>6, <2>7, <2>8
  <1>4. CASE Skip
    <2>1. /\ at = "each" /\ candidates # <<>> /\ candidates' = Tail(candidates)
          /\ UNCHANGED <<size, mtime, root, writes, at, listedAt, total, aborts>>
      BY <1>4 DEF Skip, cache
    <2>2. candidates' \in Seq(Dirs) /\ \A k \in DOMAIN candidates' : listedAt[candidates'[k]] # 0
      BY <2>1, GuardTail
    <2> QED BY <2>1, <2>2 DEF GuardTypeOK, AsListed
  <1>5. CASE RemoveDir
    <2> DEFINE d == Head(candidates)
    <2>1. /\ at = "each" /\ candidates # <<>> /\ candidates' = Tail(candidates) /\ at' = "measure"
          /\ size' = [size EXCEPT ![d] = 0] /\ mtime' = [mtime EXCEPT ![d] = 0]
          /\ UNCHANGED <<root, writes, listedAt, total, aborts>>
      BY <1>5 DEF RemoveDir
    <2>2. /\ candidates' \in Seq(Dirs) /\ \A k \in DOMAIN candidates' : listedAt[candidates'[k]] # 0
          /\ d \in Dirs /\ listedAt[d] # 0
      BY <2>1, GuardTail
    <2> HIDE DEF d
    <2>3. 0 \in 0..writes /\ mtime'[d] = 0
      BY <2>1, <2>2 DEF GuardTypeOK
    <2>4. ~AsListed'
      BY <2>1, <2>2, <2>3 DEF AsListed
    <2>5. GuardTypeOK'
      BY <2>1, <2>2, <2>3 DEF GuardTypeOK
    <2> QED BY <2>1, <2>2, <2>4, <2>5
  <1>6. CASE Measure
    <2>1. /\ at = "measure" /\ total' = DirSizeBytes
          /\ UNCHANGED <<size, mtime, root, writes, listedAt, aborts>>
      BY <1>6 DEF Measure, cache
    <2>2. total' \in Nat
      BY <2>1, GuardMeasures
    <2>3. ~AsListed'
      BY <2>1 DEF AsListed
    <2>4. CASE total' <= FloorBytes
      <3>1. at' = "idle" /\ candidates' = <<>>
        BY <1>6, <2>1, <2>4 DEF Measure
      <3> QED BY <2>1, <2>2, <3>1 DEF GuardTypeOK
    <2>5. CASE ~(total' <= FloorBytes)
      <3>1. at' = "each" /\ candidates' = candidates
        BY <1>6, <2>1, <2>5 DEF Measure
      <3>2. total' > FloorBytes
        BY <2>2, <2>5
      <3> QED BY <2>1, <2>2, <2>3, <3>1, <3>2 DEF GuardTypeOK
    <2> QED BY <2>4, <2>5
  <1>7. CASE Done
    BY <1>7 DEF Done, cache, GuardTypeOK
  <1>8. CASE Abort
    BY <1>8 DEF Abort, cache, GuardTypeOK
  <1>9. CASE UNCHANGED guardVars
    BY <1>9 DEF guardVars, cache, GuardTypeOK, AsListed
  <1> QED BY <1>1, <1>2, <1>3, <1>4, <1>5, <1>6, <1>7, <1>8, <1>9 DEF GuardNext, Guard

LEMMA GuardInitially ==
  ASSUME GuardInit
  PROVE  GuardIndInv
  BY GuardConstants DEF GuardInit, NoTimes, GuardIndInv, GuardTypeOK

(* What the script does next is above the limit or the floor by what it    *)
(* last measured, in every state of a run beside a writing player.         *)
THEOREM GuardInvariance ==
  GuardSpec => []GuardIndInv
  <1>1. GuardInit => GuardIndInv
    BY GuardInitially
  <1>2. GuardIndInv /\ [GuardNext]_guardVars => GuardIndInv'
    BY GuardSteps
  <1> QED BY <1>1, <1>2, PTL DEF GuardSpec

(* The script deletes a directory only above the floor, and the first one  *)
(* of a run only above the limit: cache_guard.sh keeps StopsAtFloor.       *)
THEOREM DeletesAboveFloor ==
  GuardSpec => StopsAtFloor
  <1>1. GuardIndInv /\ [GuardNext]_guardVars =>
          [\A d \in Present : mtime'[d] = 0 =>
              total > IF AsListed THEN MaxBytes ELSE FloorBytes]_guardVars
    <2> SUFFICES ASSUME GuardIndInv, GuardNext, NEW d \in Present, mtime'[d] = 0
                 PROVE  total > IF AsListed THEN MaxBytes ELSE FloorBytes
      BY DEF guardVars
    <2>1. d \in Dirs /\ mtime[d] # 0
      BY DEF Present
    <2>2. ASSUME NEW e \in Dirs, Write(e) PROVE FALSE
      <3>1. writes \in Nat /\ mtime \in [Dirs -> 0..writes]
        BY GuardConstants DEF GuardIndInv, GuardTypeOK
      <3>2. mtime' = mtime \/ mtime' = [mtime EXCEPT ![e] = writes + 1]
        BY <2>2 DEF Write
      <3> QED BY <2>1, <3>1, <3>2
    <2>3. RemoveDir
      BY <2>1, <2>2 DEF GuardNext, Guard, Check, List, Skip, Measure, Done, Abort, cache
    <2> QED BY <2>3 DEF RemoveDir, GuardIndInv
  <1> QED BY <1>1, GuardInvariance, PTL DEF GuardSpec, StopsAtFloor

-----------------------------------------------------------------------------
(* The resolution of magnets, for any peers, sizes and permits.            *)

LEMMA MagnetConstants ==
  /\ Kind \in [Peers -> {"honest", "chatty", "bad"}] /\ ChunkSize \in Nat \ {0}
  /\ MaxMetadata \in Nat /\ TrueSize \in 1..MaxMetadata /\ Sizes \subseteq Nat
  BY MagnetAssumption

LEMMA PiecesCounted ==
  ASSUME NEW n \in Nat
  PROVE  TotalPieces(n) \in Nat
  <1>1. n + ChunkSize - 1 \in Nat /\ ChunkSize \in Nat /\ ChunkSize > 0
    BY MagnetConstants
  <1> QED BY <1>1 DEF TotalPieces

LEMMA NoHandler == None \notin Handlers
  BY DEF None, Handlers

(* r is s without its element k.                                           *)
Without(r, s, k) ==
    /\ r \in Seq(Nat)
    /\ \A j \in DOMAIN r : \E i \in DOMAIN s : i = (IF j < k THEN j ELSE j + 1) /\ r[j] = s[i]

LEMMA Positions ==
  ASSUME NEW n \in Nat, NEW k \in 1..n, NEW j \in 1..(n - 1), ~(j < k)
  PROVE  j - (k - 1) \in 1..(n - k) /\ k + (j - (k - 1)) = j + 1 /\ j + 1 \in 1..n /\ ~(j <= k - 1)
  OBVIOUS

LEMMA RemoveAtFacts ==
  ASSUME NEW s \in Seq(Nat), NEW n \in Nat, n = Len(s), NEW k \in 1..n, NEW r, r = RemoveAt(s, k)
  PROVE  Without(r, s, k)
  <1>1. DOMAIN s = 1..n /\ \A i \in 1..n : s[i] \in Nat
    BY LenProperties
  <1>2. PICK a : a = SubSeq(s, 1, k - 1)
    OBVIOUS
  <1>3. PICK b : b = SubSeq(s, k + 1, n)
    OBVIOUS
  <1>4. a \in Seq(Nat) /\ Len(a) = k - 1 /\ \A j \in 1..(k - 1) : a[j] = s[j]
    BY <1>1, <1>2, SubSeqProperties
  <1>5. b \in Seq(Nat) /\ Len(b) = n - k /\ \A j \in 1..(n - k) : b[j] = s[k + j]
    <2>1. PICK m \in Int : m = k + 1
      OBVIOUS
    <2>2. b = SubSeq(s, m, n) /\ n \in Int /\ \A i \in m..n : s[i] \in Nat
      BY <1>1, <1>3, <2>1
    <2>3. b \in Seq(Nat) /\ Len(b) = IF m <= n THEN n - m + 1 ELSE 0
      BY <2>2, SubSeqProperties
    <2>4. \A j \in 1..(n - m + 1) : b[j] = s[m + j - 1]
      BY <2>2, SubSeqProperties
    <2>5. n - m + 1 = n - k /\ (IF m <= n THEN n - m + 1 ELSE 0) = n - k
      BY <2>1
    <2>6. \A j \in 1..(n - k) : m + j - 1 = k + j
      BY <2>1
    <2> QED BY <2>3, <2>4, <2>5, <2>6
  <1>6. r = a \o b
    BY <1>2, <1>3 DEF RemoveAt
  <1>7. /\ r \in Seq(Nat) /\ Len(r) = n - 1
        /\ \A j \in 1..(n - 1) : r[j] = IF j <= k - 1 THEN a[j] ELSE b[j - (k - 1)]
    <2>1. /\ a \o b \in Seq(Nat) /\ Len(a \o b) = Len(a) + Len(b)
          /\ \A j \in 1..(Len(a) + Len(b)) : (a \o b)[j] = IF j <= Len(a) THEN a[j] ELSE b[j - Len(a)]
      BY <1>4, <1>5, ConcatProperties
    <2>2. Len(a) + Len(b) = n - 1
      BY <1>4, <1>5
    <2> QED BY <1>4, <1>6, <2>1, <2>2
  <1>8. ASSUME NEW j \in DOMAIN r
        PROVE  \E i \in DOMAIN s : i = (IF j < k THEN j ELSE j + 1) /\ r[j] = s[i]
    <2>1. j \in 1..(n - 1)
      BY <1>7, LenProperties
    <2>2. CASE j < k
      <3>1. j \in 1..(k - 1) /\ j \in 1..n /\ j <= k - 1
        BY <2>1, <2>2
      <3>2. r[j] = a[j]
        BY <1>7, <2>1, <3>1
      <3>3. a[j] = s[j]
        BY <1>4, <3>1
      <3> QED BY <1>1, <2>2, <3>1, <3>2, <3>3
    <2>3. CASE ~(j < k)
      <3>1. j - (k - 1) \in 1..(n - k) /\ k + (j - (k - 1)) = j + 1 /\ j + 1 \in 1..n /\ ~(j <= k - 1)
        BY <2>1, <2>3, Positions
      <3>2. b[j - (k - 1)] = s[k + (j - (k - 1))]
        BY <1>5, <3>1
      <3>3. r[j] = b[j - (k - 1)]
        BY <1>7, <2>1, <3>1
      <3> QED BY <1>1, <2>3, <3>1, <3>2, <3>3
    <2> QED BY <2>2, <2>3
  <1> QED BY <1>7, <1>8 DEF Without

LEMMA SameHandler ==
  \A v \in Handlers : v = [size |-> v.size, got |-> v.got, good |-> v.good]
  BY DEF Handlers

(* What record_piece makes of a handler, and when it fails.                *)
Recorded(r, w, i, len, good) ==
    /\ r.w \in Handlers /\ r.w.size = w.size /\ r.is \in {"error", "more", "ready"}
    /\ r.w.got \subseteq w.got \cup {i} /\ (w.good /\ good => r.w.good)
    /\ r.is = "ready" =>
         /\ r.w = [size |-> TrueSize, got |-> 0 .. TotalPieces(TrueSize) - 1, good |-> TRUE]
         /\ AllPieces(w) \subseteq w.got \cup {i}
    /\ (/\ i \in AllPieces(w) \ w.got /\ len = PieceSize(w.size, i) /\ good
        /\ w.size = TrueSize /\ w.good) => r.is # "error"

LEMMA RecordFacts ==
  ASSUME NEW w \in Handlers, NEW i \in Nat, NEW len, NEW good \in BOOLEAN,
         NEW r, r = RecordPiece(w, i, len, good)
  PROVE  Recorded(r, w, i, len, good)
  <1> DEFINE b == w.good /\ good
             got == w.got \cup {i}
             v == [w EXCEPT !.got = got, !.good = b]
             fits == ~(i \notin AllPieces(w) \/ len # PieceSize(w.size, i) \/ i \in w.got)
  <1>1. b \in BOOLEAN /\ got \in SUBSET Nat /\ w.size \in Nat /\ w.good \in BOOLEAN
    BY DEF Handlers
  <1>2. ~fits => r = [w |-> w, is |-> "error"]
    BY DEF RecordPiece, AllPieces
  <1>3. fits => r = [w |-> v, is |-> IF got # AllPieces(w) THEN "more"
                                    ELSE IF w.size = TrueSize /\ w.good /\ good THEN "ready" ELSE "error"]
    BY DEF RecordPiece, AllPieces
  <1>4. (w.good /\ good) <=> b
    OBVIOUS
  <1> HIDE DEF b, got
  <1>5. v \in Handlers /\ v.size = w.size /\ v.got = got /\ v.good = b
    BY <1>1 DEF Handlers
  <1> HIDE DEF v
  <1>6. v = [size |-> w.size, got |-> got, good |-> b]
    BY <1>5, SameHandler
  <1>7. CASE ~fits
    BY <1>2, <1>7 DEF Recorded
  <1>8. CASE fits
    <2>1. r.w = v /\ r.is = IF got # AllPieces(w) THEN "more"
                            ELSE IF w.size = TrueSize /\ w.good /\ good THEN "ready" ELSE "error"
      BY <1>3, <1>8
    <2>2. r.w \in Handlers /\ r.w.size = w.size /\ r.is \in {"error", "more", "ready"}
      BY <1>5, <2>1
    <2>3. r.w.got \subseteq w.got \cup {i} /\ (w.good /\ good => r.w.good)
      BY <1>4, <1>5, <2>1 DEF got
    <2>4. ASSUME r.is = "ready"
          PROVE  /\ r.w = [size |-> TrueSize, got |-> 0 .. TotalPieces(TrueSize) - 1, good |-> TRUE]
                 /\ AllPieces(w) \subseteq w.got \cup {i}
      <3>1. got = AllPieces(w) /\ w.size = TrueSize /\ w.good /\ good
        BY <2>1, <2>4
      <3>2. b = TRUE
        BY <1>1, <1>4, <3>1
      <3>3. AllPieces(w) = 0 .. TotalPieces(TrueSize) - 1
        BY <3>1 DEF AllPieces
      <3> QED BY <1>6, <2>1, <3>1, <3>2, <3>3 DEF got
    <2>5. good /\ w.size = TrueSize /\ w.good => r.is # "error"
      BY <2>1
    <2> QED BY <2>2, <2>3, <2>4, <2>5 DEF Recorded
  <1> QED BY <1>7, <1>8

(* A connection that no action touches keeps what was asked of it.         *)
LEMMA AskedKept ==
  ASSUME NEW q, AskedOnce(q), inner'[q] = inner[q], out'[q] = out[q], asked'[q] = asked[q]
  PROVE  AskedOnce(q)'
  BY DEF AskedOnce, AllPieces, TotalPieces, None

(* The steps that move a connection and nothing else.                      *)
LEMMA ConnMoves ==
  ASSUME MagnetIndInv, NEW p \in Peers,
         NEW v \in {"none", "queued", "connecting", "handshake", "open"},
         v = "none" => Kind[p] # "honest",
         conn' = [conn EXCEPT ![p] = v],
         UNCHANGED <<coming, completed, seen, inner, info, out, asked, result, repeats>>,
         Searching
  PROVE  MagnetIndInv'
  <1>1. MagnetTypeOK'
    BY DEF MagnetIndInv, MagnetTypeOK, None
  <1>2. \A q \in Peers : conn'[q] = IF q = p THEN v ELSE conn[q]
    BY DEF MagnetIndInv, MagnetTypeOK
  <1>3. ResultJustified'
    BY <1>2 DEF MagnetIndInv, ResultJustified, Searching, TotalPieces
  <1>4. \A q \in Peers : conn'[q] = "sent" => inner'[q] = None
    BY <1>2 DEF MagnetIndInv
  <1>5. \A q \in Peers \ repeats' : AskedOnce(q)'
    BY AskedKept DEF MagnetIndInv
  <1>6. \A q \in Peers : Kind[q] = "honest" => HonestKept(q)'
    BY <1>2 DEF MagnetIndInv, HonestKept, None
  <1> QED BY <1>1, <1>3, <1>4, <1>5, <1>6 DEF MagnetIndInv, None

LEMMA MagnetAcquire ==
  ASSUME MagnetIndInv, NEW p \in Peers,
         Acquire(p) \/ Connect(p) \/ OnHandshake(p, TRUE) \/ OnHandshake(p, FALSE) \/ TimesOut(p)
  PROVE  MagnetIndInv'
  <1>1. CASE Acquire(p)
    BY <1>1, ConnMoves DEF Acquire
  <1>2. CASE Connect(p)
    BY <1>2, ConnMoves DEF Connect
  <1>3. CASE OnHandshake(p, TRUE)
    BY <1>3, ConnMoves DEF OnHandshake, ManagePeer
  <1>4. CASE OnHandshake(p, FALSE)
    BY <1>4, ConnMoves DEF OnHandshake, Fail
  <1>5. CASE TimesOut(p)
    BY <1>5, ConnMoves DEF TimesOut, Fail
  <1> QED BY <1>1, <1>2, <1>3, <1>4, <1>5

LEMMA MagnetNextAddr ==
  ASSUME MagnetIndInv, NEW p \in Peers, NextAddr(p)
  PROVE  MagnetIndInv'
  <1>1. \A q \in Peers : conn'[q] = IF q = p /\ p \notin seen THEN "queued" ELSE conn[q]
    BY DEF MagnetIndInv, MagnetTypeOK, NextAddr
  <1>2. conn' \in [Peers -> {"none", "queued", "connecting", "handshake", "open", "sent"}]
    BY DEF MagnetIndInv, MagnetTypeOK, NextAddr
  <1>3. MagnetTypeOK'
    BY <1>2 DEF MagnetIndInv, MagnetTypeOK, None, NextAddr
  <1>4. ResultJustified'
    <2>1. ResultJustified /\ info' = info /\ repeats' = repeats /\ result' = "none"
      BY DEF MagnetIndInv, Searching, NextAddr
    <2>2. \A q \in Peers : conn'[q] = "sent" => conn[q] = "sent"
      BY <1>1
    <2> QED BY <2>1, <2>2 DEF ResultJustified, TotalPieces
  <1>5. \A q \in Peers : conn'[q] = "sent" => inner'[q] = None
    BY <1>1 DEF MagnetIndInv, NextAddr
  <1>6. \A q \in Peers \ repeats' : AskedOnce(q)'
    BY AskedKept DEF MagnetIndInv, NextAddr
  <1>7. ASSUME NEW q \in Peers, Kind[q] = "honest"
        PROVE  HonestKept(q)'
    <2>1. HonestKept(q) /\ Searching
      BY <1>7 DEF MagnetIndInv, NextAddr
    <2>2. UNCHANGED <<inner, result, repeats>> /\ (q \in seen' => q \in seen \/ q = p)
      BY DEF NextAddr
    <2> QED BY <1>1, <2>1, <2>2 DEF HonestKept, None, Searching
  <1>8. coming' \cup seen' = Peers /\ ~completed'
    BY DEF MagnetIndInv, NextAddr
  <1> QED BY <1>3, <1>4, <1>5, <1>6, <1>7, <1>8 DEF MagnetIndInv, None

LEMMA MagnetEnds ==
  ASSUME MagnetIndInv, AddrsCompleted \/ ChannelClosed
  PROVE  MagnetIndInv'
  <1>1. UNCHANGED <<coming, seen, conn, inner, info, out, asked, repeats>>
    BY DEF AddrsCompleted, ChannelClosed
  <1>2. MagnetTypeOK'
    BY <1>1 DEF MagnetIndInv, MagnetTypeOK, None, AddrsCompleted, ChannelClosed, ResolveMagnet
  <1>3. \A q \in Peers \ repeats' : AskedOnce(q)'
    BY <1>1, AskedKept DEF MagnetIndInv
  <1>4. \A q \in Peers : Kind[q] = "honest" => HonestKept(q)'
    BY <1>1 DEF MagnetIndInv, HonestKept, None, AddrsCompleted, ChannelClosed, Searching, ResolveMagnet
  <1>5. completed' => coming' = {}
    BY <1>1 DEF MagnetIndInv, AddrsCompleted, ChannelClosed
  <1>6. ResultJustified'
    <2>1. CASE AddrsCompleted
      BY <1>1, <2>1 DEF MagnetIndInv, ResultJustified, Searching, TotalPieces, AddrsCompleted
    <2>2. CASE ChannelClosed
      <3>1. \A q \in Peers : conn[q] = "none"
        BY <2>2 DEF ChannelClosed, Unordered
      <3>2. seen = Peers
        BY <2>2 DEF ChannelClosed, MagnetIndInv
      <3>3. \A q \in Peers : Kind[q] = "honest" => q \in repeats
        BY <2>2, <3>1, <3>2 DEF ChannelClosed, MagnetIndInv, HonestKept, Searching
      <3>4. result' = "closed"
        BY <2>2 DEF ChannelClosed, ResolveMagnet
      <3> QED BY <1>1, <3>1, <3>2, <3>3, <3>4 DEF ResultJustified
    <2> QED BY <2>1, <2>2
  <1> QED BY <1>1, <1>2, <1>3, <1>4, <1>5, <1>6 DEF MagnetIndInv, None

LEMMA MagnetFound ==
  ASSUME MagnetIndInv, NEW p \in Peers, Found(p)
  PROVE  MagnetIndInv'
  <1>1. /\ UNCHANGED <<coming, completed, seen, inner, info, out, asked, repeats>>
        /\ conn' = [q \in Peers |-> "none"] /\ result' = "found"
    BY DEF Found, ResolveMagnet
  <1>2. MagnetTypeOK'
    BY <1>1 DEF MagnetIndInv, MagnetTypeOK, None
  <1>3. ResultJustified'
    BY <1>1 DEF ResultJustified
  <1>4. \A q \in Peers \ repeats' : AskedOnce(q)'
    BY <1>1, AskedKept DEF MagnetIndInv
  <1>5. \A q \in Peers : Kind[q] = "honest" => HonestKept(q)'
    BY <1>1 DEF MagnetIndInv, HonestKept, None
  <1> QED BY <1>1, <1>2, <1>3, <1>4, <1>5 DEF MagnetIndInv, None

(* The writer moves a request from one queue to the other.                 *)
LEMMA MagnetWriterSends ==
  ASSUME MagnetIndInv, NEW p \in Peers, WriterSends(p)
  PROVE  MagnetIndInv'
  <1>1. UNCHANGED <<coming, completed, seen, conn, inner, info, result, repeats>>
    BY DEF WriterSends
  <1>2. PICK h : h = Head(out[p])
    OBVIOUS
  <1>3. out[p] \in Seq(Nat) /\ asked[p] \in Seq(Nat) /\ out[p] # <<>>
    BY DEF WriterSends, MagnetIndInv, MagnetTypeOK
  <1>4. h \in Nat /\ Tail(out[p]) \in Seq(Nat) /\ Append(asked[p], h) \in Seq(Nat)
    BY <1>2, <1>3, HeadTailProperties, AppendProperties
  <1>5. /\ out' = [out EXCEPT ![p] = Tail(out[p])] /\ asked' = [asked EXCEPT ![p] = Append(asked[p], h)]
        /\ out \in [Peers -> Seq(Nat)] /\ asked \in [Peers -> Seq(Nat)]
    BY <1>2 DEF WriterSends, MagnetIndInv, MagnetTypeOK
  <1>6. out' \in [Peers -> Seq(Nat)] /\ asked' \in [Peers -> Seq(Nat)]
    BY <1>4, <1>5
  <1>7. /\ \A q \in Peers : q # p => out'[q] = out[q] /\ asked'[q] = asked[q]
        /\ out'[p] = Tail(out[p]) /\ asked'[p] = Append(asked[p], h)
    BY <1>5
  <1>8. ASSUME p \notin repeats
        PROVE  AskedOnce(p)'
    <2> DEFINE todo == AllPieces(inner[p]) \ inner[p].got
    <2>1. /\ inner[p] = None => out[p] = <<>> /\ asked[p] = <<>>
          /\ \A j \in DOMAIN out[p] : out[p][j] \in todo
          /\ \A j \in DOMAIN asked[p] : asked[p][j] \in todo
          /\ \A j, k \in DOMAIN out[p] : out[p][j] = out[p][k] => j = k
          /\ \A j, k \in DOMAIN asked[p] : asked[p][j] = asked[p][k] => j = k
          /\ \A j \in DOMAIN out[p], k \in DOMAIN asked[p] : out[p][j] # asked[p][k]
      BY <1>8 DEF MagnetIndInv, AskedOnce
    <2> HIDE DEF todo
    <2>2. /\ 1 \in DOMAIN out[p] /\ h = out[p][1]
          /\ \A j \in DOMAIN out'[p] : j + 1 \in DOMAIN out[p] /\ out'[p][j] = out[p][j + 1] /\ j \in Nat \ {0}
      BY <1>2, <1>3, <1>7, HeadTailProperties, LenProperties
    <2>3. \A j \in DOMAIN asked'[p] : \/ j \in DOMAIN asked[p] /\ asked'[p][j] = asked[p][j] /\ j # Len(asked[p]) + 1
                                      \/ j = Len(asked[p]) + 1 /\ asked'[p][j] = h
      BY <1>3, <1>4, <1>7, AppendProperties, LenProperties
    <2>4. \A j \in DOMAIN out'[p] : out'[p][j] \in todo /\ out'[p][j] # h
      BY <2>1, <2>2
    <2>5. \A j \in DOMAIN asked'[p] : asked'[p][j] \in todo
      BY <2>1, <2>2, <2>3
    <2>6. \A j, k \in DOMAIN out'[p] : out'[p][j] = out'[p][k] => j = k
      <3> SUFFICES ASSUME NEW j \in DOMAIN out'[p], NEW k \in DOMAIN out'[p], out'[p][j] = out'[p][k]
                   PROVE  j = k
        OBVIOUS
      <3>1. j + 1 = k + 1
        BY <2>1, <2>2
      <3> QED BY <2>2, <3>1
    <2>7. \A j, k \in DOMAIN asked'[p] : asked'[p][j] = asked'[p][k] => j = k
      BY <2>1, <2>2, <2>3
    <2>8. \A j \in DOMAIN out'[p], k \in DOMAIN asked'[p] : out'[p][j] # asked'[p][k]
      BY <2>1, <2>2, <2>3, <2>4
    <2>9. inner'[p] # None
      BY <1>1, <1>3, <2>1
    <2>10. todo = AllPieces(inner'[p]) \ inner'[p].got
      BY <1>1 DEF todo
    <2> QED BY <2>4, <2>5, <2>6, <2>7, <2>8, <2>9, <2>10 DEF AskedOnce, None, AllPieces, TotalPieces
  <1>9. \A q \in Peers \ repeats' : AskedOnce(q)'
    BY <1>1, <1>7, <1>8, AskedKept DEF MagnetIndInv
  <1>10. MagnetTypeOK'
    BY <1>1, <1>6 DEF MagnetIndInv, MagnetTypeOK, None
  <1>11. ResultJustified'
    BY <1>1 DEF MagnetIndInv, ResultJustified, TotalPieces
  <1>12. \A q \in Peers : Kind[q] = "honest" => HonestKept(q)'
    BY <1>1 DEF MagnetIndInv, HonestKept, None
  <1> QED BY <1>1, <1>9, <1>10, <1>11, <1>12 DEF MagnetIndInv, None

(* An extended handshake: the first asks for every piece once; a second    *)
(* may ask again, and the peer is in repeats from then on.                 *)
LEMMA MagnetOnExtendedHandshake ==
  ASSUME MagnetIndInv, NEW p \in Peers, NEW n \in Nat, OnExtendedHandshake(p, n)
  PROVE  MagnetIndInv'
  <1>1. /\ UNCHANGED <<coming, completed, seen, info, asked, result>> /\ conn[p] = "open"
        /\ result = "none" /\ (Kind[p] = "bad" \/ n = TrueSize)
        /\ repeats' = IF inner[p] # None THEN repeats \cup {p} ELSE repeats
    BY DEF OnExtendedHandshake, Searching
  <1>2. repeats \subseteq repeats' /\ repeats' \subseteq Peers
    BY <1>1 DEF MagnetIndInv, MagnetTypeOK
  <1>3. CASE n > MaxMetadata
    <2>1. UNCHANGED <<inner, out>> /\ conn' = [conn EXCEPT ![p] = "none"]
      BY <1>3 DEF OnExtendedHandshake, Fail
    <2>2. Kind[p] # "honest"
      BY <1>1, <1>3, MagnetConstants
    <2>3. /\ conn' \in [Peers -> {"none", "queued", "connecting", "handshake", "open", "sent"}]
          /\ \A q \in Peers : conn'[q] = IF q = p THEN "none" ELSE conn[q]
      BY <2>1 DEF MagnetIndInv, MagnetTypeOK
    <2>4. MagnetTypeOK'
      BY <1>1, <1>2, <2>1, <2>3 DEF MagnetIndInv, MagnetTypeOK, None
    <2>5. ResultJustified'
      BY <1>1, <2>3 DEF MagnetIndInv, ResultJustified, TotalPieces
    <2>6. \A q \in Peers : conn'[q] = "sent" => inner'[q] = None
      BY <2>1, <2>3 DEF MagnetIndInv
    <2>7. \A q \in Peers \ repeats' : AskedOnce(q)'
      BY <1>1, <1>2, <2>1, AskedKept DEF MagnetIndInv
    <2>8. \A q \in Peers : Kind[q] = "honest" => HonestKept(q)'
      BY <1>1, <1>2, <2>1, <2>2, <2>3 DEF MagnetIndInv, HonestKept, None
    <2> QED BY <1>1, <2>4, <2>5, <2>6, <2>7, <2>8 DEF MagnetIndInv, None
  <1>4. CASE ~(n > MaxMetadata)
    <2>1. PICK w : w = [size |-> n, got |-> {}, good |-> TRUE]
      OBVIOUS
    <2>2. PICK t : t = TotalPieces(n)
      OBVIOUS
    <2>3. PICK f : f = [i \in 1..t |-> i - 1]
      OBVIOUS
    <2>4. t \in Nat
      BY <2>2, PiecesCounted
    <2>5. f \in Seq(Nat) /\ DOMAIN f = 1..t /\ \A j \in 1..t : f[j] = j - 1
      BY <2>3, <2>4
    <2>6. w \in Handlers /\ w.size = n /\ w.got = {} /\ w.good = TRUE
      BY <2>1 DEF Handlers
    <2>7. inner' = [inner EXCEPT ![p] = w] /\ out' = [out EXCEPT ![p] = out[p] \o f] /\ UNCHANGED conn
      BY <1>4, <2>1, <2>2, <2>3 DEF OnExtendedHandshake
    <2>8. out[p] \in Seq(Nat) /\ out[p] \o f \in Seq(Nat)
      BY <2>5, ConcatProperties DEF MagnetIndInv, MagnetTypeOK
    <2>9. /\ inner' \in [Peers -> Handlers \cup {None}] /\ out' \in [Peers -> Seq(Nat)]
          /\ inner'[p] = w /\ out'[p] = out[p] \o f
          /\ \A q \in Peers : q # p => inner'[q] = inner[q] /\ out'[q] = out[q]
      <3> HIDE DEF Handlers, None
      <3> QED BY <2>6, <2>7, <2>8 DEF MagnetIndInv, MagnetTypeOK
    <2>10. MagnetTypeOK'
      BY <1>1, <1>2, <2>7, <2>9 DEF MagnetIndInv, MagnetTypeOK, None
    <2>11. ResultJustified'
      BY <1>1, <2>7 DEF MagnetIndInv, ResultJustified, TotalPieces
    <2>12. \A q \in Peers : conn'[q] = "sent" => inner'[q] = None
      BY <1>1, <2>7, <2>9 DEF MagnetIndInv
    <2>13. w # None
      BY <2>6, NoHandler
    <2>14. ASSUME p \notin repeats'
           PROVE  AskedOnce(p)'
      <3>1. inner[p] = None /\ p \notin repeats
        BY <1>1, <2>14
      <3>2. out[p] = <<>> /\ asked[p] = <<>>
        BY <3>1 DEF MagnetIndInv, AskedOnce
      <3>3. out'[p] = f
        BY <2>5, <2>9, <3>2, ConcatEmptySeq
      <3>4. DOMAIN asked'[p] = {}
        BY <1>1, <3>2
      <3>5. AllPieces(w) = 0 .. t - 1
        BY <2>2, <2>6 DEF AllPieces
      <3>6. \A j \in DOMAIN f : f[j] \in AllPieces(w) \ w.got
        BY <2>4, <2>5, <2>6, <3>5
      <3>7. \A j, k \in DOMAIN f : f[j] = f[k] => j = k
        BY <2>4, <2>5
      <3> QED BY <2>9, <2>13, <3>3, <3>4, <3>6, <3>7 DEF AskedOnce, None, AllPieces, TotalPieces
    <2>15. \A q \in Peers \ repeats' : AskedOnce(q)'
      BY <1>1, <1>2, <2>9, <2>14, AskedKept DEF MagnetIndInv
    <2>16. ASSUME NEW q \in Peers, Kind[q] = "honest"
           PROVE  HonestKept(q)'
      <3>1. HonestKept(q)
        BY <2>16 DEF MagnetIndInv
      <3>2. q = p => inner'[q].size = TrueSize /\ inner'[q].good
        BY <1>1, <2>6, <2>9, <2>16
      <3> QED BY <1>1, <1>2, <2>7, <2>9, <3>1, <3>2 DEF HonestKept, None
    <2> QED BY <1>1, <2>10, <2>11, <2>12, <2>15, <2>16 DEF MagnetIndInv, None
  <1> QED BY <1>3, <1>4

(* A piece from a peer without a HandlerLocked: a peer that repeated its   *)
(* extended handshake.                                                     *)
LEMMA MagnetPanics ==
  ASSUME MagnetIndInv, NEW p \in Peers, NEW k, NEW len, NEW good,
         OnData(p, k, len, good), inner[p] = None
  PROVE  MagnetIndInv'
  <1>1. /\ UNCHANGED <<coming, completed, seen, conn, inner, info, out, repeats>>
        /\ result' = "panic" /\ asked' = [asked EXCEPT ![p] = RemoveAt(asked[p], k)]
        /\ k \in DOMAIN asked[p]
    BY DEF OnData
  <1>2. asked \in [Peers -> Seq(Nat)] /\ asked[p] \in Seq(Nat)
    BY DEF MagnetIndInv, MagnetTypeOK
  <1>3. Len(asked[p]) \in Nat /\ k \in 1..Len(asked[p])
    BY <1>1, <1>2, LenProperties
  <1>4. RemoveAt(asked[p], k) \in Seq(Nat)
    BY <1>2, <1>3, RemoveAtFacts DEF Without
  <1>5. asked' \in [Peers -> Seq(Nat)] /\ \A q \in Peers : q # p => asked'[q] = asked[q]
    BY <1>1, <1>2, <1>4
  <1>6. p \in repeats
    <2>1. asked[p] # <<>>
      BY <1>3
    <2> QED BY <2>1 DEF MagnetIndInv, AskedOnce
  <1>7. MagnetTypeOK'
    BY <1>1, <1>5 DEF MagnetIndInv, MagnetTypeOK, None
  <1>8. ResultJustified'
    BY <1>1, <1>6 DEF MagnetIndInv, ResultJustified, TotalPieces
  <1>9. \A q \in Peers \ repeats' : AskedOnce(q)'
    BY <1>1, <1>5, <1>6, AskedKept DEF MagnetIndInv
  <1>10. \A q \in Peers : Kind[q] = "honest" => HonestKept(q)'
    BY <1>1 DEF MagnetIndInv, HonestKept, None
  <1> QED BY <1>1, <1>7, <1>8, <1>9, <1>10 DEF MagnetIndInv, None

(* What is still asked of the peer once its answer is recorded.            *)
LEMMA AskedAfterData ==
  ASSUME NEW p \in Peers, AskedOnce(p), inner[p] # None,
         NEW k \in DOMAIN asked[p], NEW i, i = asked[p][k],
         asked[p] \in Seq(Nat), out[p] \in Seq(Nat),
         out'[p] = out[p], asked'[p] = RemoveAt(asked[p], k),
         NEW w, w.size = inner[p].size, w.got \subseteq inner[p].got \cup {i},
         w # None,
         \/ inner'[p] = w
         \/ inner'[p] = None /\ AllPieces(inner[p]) \subseteq inner[p].got \cup {i}
  PROVE  AskedOnce(p)'
  <1> DEFINE todo == AllPieces(inner[p]) \ inner[p].got
             s == asked[p]
             t == asked'[p]
  <1>1. /\ \A j \in DOMAIN out[p] : out[p][j] \in todo
        /\ \A j \in DOMAIN s : s[j] \in todo
        /\ \A j, l \in DOMAIN out[p] : out[p][j] = out[p][l] => j = l
        /\ \A j, l \in DOMAIN s : s[j] = s[l] => j = l
        /\ \A j \in DOMAIN out[p], l \in DOMAIN s : out[p][j] # s[l]
    BY DEF AskedOnce
  <1>2. /\ Len(s) \in Nat /\ DOMAIN s = 1..Len(s) /\ s \in Seq(Nat) /\ k \in 1..Len(s)
        /\ t = RemoveAt(s, k)
    BY LenProperties
  <1> HIDE DEF todo, s, t
  <1>3. /\ t \in Seq(Nat)
        /\ \A j \in DOMAIN t : \E l \in DOMAIN s : l = (IF j < k THEN j ELSE j + 1) /\ t[j] = s[l]
    <2>1. PICK n \in Nat : n = Len(s)
      BY <1>2
    <2>2. k \in 1..n
      BY <1>2, <2>1
    <2>3. Without(t, s, k)
      BY <1>2, <2>1, <2>2, RemoveAtFacts
    <2> QED BY <2>3 DEF Without
  <1>4. DOMAIN t \subseteq Nat /\ k \in Nat
    <2>1. Len(t) \in Nat /\ DOMAIN t = 1..Len(t)
      BY <1>3, LenProperties
    <2>2. k \in 1..Len(s)
      BY <1>2 DEF s
    <2> QED BY <1>2, <2>1, <2>2
  <1>5. \A j \in DOMAIN t : t[j] \in todo /\ t[j] # i
    <2> TAKE j \in DOMAIN t
    <2>1. PICK l \in DOMAIN s : l = (IF j < k THEN j ELSE j + 1) /\ t[j] = s[l]
      BY <1>3
    <2>2. l # k
      BY <1>4, <2>1
    <2>3. k \in DOMAIN s /\ s[k] = i
      BY DEF s
    <2> QED BY <1>1, <2>1, <2>2, <2>3
  <1>6. \A j, l \in DOMAIN t : t[j] = t[l] => j = l
    <2> SUFFICES ASSUME NEW j \in DOMAIN t, NEW l \in DOMAIN t, t[j] = t[l]
                 PROVE  j = l
      OBVIOUS
    <2>1. (IF j < k THEN j ELSE j + 1) = (IF l < k THEN l ELSE l + 1)
      BY <1>1, <1>3
    <2>2. j \in Nat /\ l \in Nat
      BY <1>4
    <2> QED BY <1>4, <2>1, <2>2
  <1>7. \A j \in DOMAIN out[p], l \in DOMAIN t : out[p][j] # t[l]
    BY <1>1, <1>3
  <1>8. \A j \in DOMAIN out[p] : out[p][j] \in todo /\ out[p][j] # i
    BY <1>1 DEF s
  <1>9. CASE inner'[p] = w
    <2>1. todo \ {i} \subseteq AllPieces(w) \ w.got
      BY DEF todo, AllPieces
    <2>2. PICK then : then = AllPieces(w) \ w.got
      OBVIOUS
    <2>3. then = AllPieces(inner'[p]) \ inner'[p].got
      BY <1>9, <2>2
    <2>4. /\ \A j \in DOMAIN out[p] : out[p][j] \in then
          /\ \A j \in DOMAIN t : t[j] \in then
      BY <1>5, <1>8, <2>1, <2>2
    <2>5. inner'[p] # None
      BY <1>9
    <2>6. \A j, l \in DOMAIN out[p] : out[p][j] = out[p][l] => j = l
      BY <1>1
    <2> QED BY <1>6, <1>7, <2>3, <2>4, <2>5, <2>6 DEF AskedOnce, None, AllPieces, TotalPieces, t
  <1>10. CASE inner'[p] = None /\ AllPieces(inner[p]) \subseteq inner[p].got \cup {i}
    <2>1. todo \subseteq {i}
      BY <1>10 DEF todo
    <2>2. DOMAIN out[p] = {} /\ DOMAIN t = {}
      BY <1>5, <1>8, <2>1
    <2>3. out[p] = <<>> /\ t = <<>>
      <3>1. \A u \in Seq(Nat) : DOMAIN u = {} => u = <<>>
        <4> TAKE u \in Seq(Nat)
        <4>1. DOMAIN u = 1..Len(u) /\ Len(u) \in Nat
          BY LenProperties
        <4>2. u # <<>> => Len(u) \in Nat \ {0}
          BY EmptySeq
        <4>3. Len(u) \in Nat \ {0} => 1 \in 1..Len(u)
          OBVIOUS
        <4> QED BY <4>1, <4>2, <4>3
      <3> QED BY <1>3, <2>2, <3>1
    <2>4. out'[p] = <<>> /\ asked'[p] = <<>>
      BY <2>3 DEF t
    <2> QED BY <2>2, <2>4 DEF AskedOnce, None, AllPieces, TotalPieces, t
  <1> QED BY <1>9, <1>10

LEMMA MagnetRecords ==
  ASSUME MagnetIndInv, NEW p \in Peers, NEW k, NEW len, NEW good \in BOOLEAN,
         OnData(p, k, len, good), inner[p] # None
  PROVE  MagnetIndInv'
  <1>1. PICK i : i = asked[p][k]
    OBVIOUS
  <1>2. PICK r : r = RecordPiece(inner[p], i, len, good)
    OBVIOUS
  <1>3. PICK to : to = CASE r.is = "ready" -> "sent" [] r.is = "more" -> conn[p] [] OTHER -> "none"
    OBVIOUS
  <1>4. PICK w : w = IF r.is = "ready" THEN None ELSE r.w
    OBVIOUS
  <1>5. /\ UNCHANGED <<coming, completed, seen, out, repeats, result>>
        /\ result = "none" /\ conn[p] \in {"open", "sent"} /\ k \in DOMAIN asked[p]
        /\ Kind[p] = "honest" => good /\ len = PieceSize(inner[p].size, i)
        /\ asked' = [asked EXCEPT ![p] = RemoveAt(asked[p], k)]
    BY <1>1 DEF OnData, Searching
  <1>6. /\ inner' = [inner EXCEPT ![p] = w]
        /\ info' = IF r.is = "ready" THEN [info EXCEPT ![p] = r.w] ELSE info
        /\ conn' = [conn EXCEPT ![p] = to]
    BY <1>1, <1>2, <1>3, <1>4 DEF OnData
  <1>7. /\ inner \in [Peers -> Handlers \cup {None}] /\ info \in [Peers -> Handlers \cup {None}]
        /\ asked \in [Peers -> Seq(Nat)] /\ out \in [Peers -> Seq(Nat)]
        /\ conn \in [Peers -> {"none", "queued", "connecting", "handshake", "open", "sent"}]
    BY DEF MagnetIndInv, MagnetTypeOK
  <1>8. inner[p] \in Handlers /\ conn[p] = "open"
    BY <1>5, <1>7 DEF MagnetIndInv
  <1>9. Len(asked[p]) \in Nat /\ k \in 1..Len(asked[p]) /\ i \in Nat
    BY <1>1, <1>5, <1>7, LenProperties
  <1>10. /\ r.w \in Handlers /\ r.w.size = inner[p].size /\ r.is \in {"error", "more", "ready"}
         /\ r.w.got \subseteq inner[p].got \cup {i} /\ (inner[p].good /\ good => r.w.good)
         /\ r.is = "ready" =>
              /\ r.w = [size |-> TrueSize, got |-> 0 .. TotalPieces(TrueSize) - 1, good |-> TRUE]
              /\ AllPieces(inner[p]) \subseteq inner[p].got \cup {i}
         /\ (i \in AllPieces(inner[p]) \ inner[p].got /\ len = PieceSize(inner[p].size, i) /\ good
             /\ inner[p].size = TrueSize /\ inner[p].good) => r.is # "error"
    <2>1. Recorded(r, inner[p], i, len, good)
      BY <1>2, <1>8, <1>9, RecordFacts
    <2> QED BY <2>1 DEF Recorded
  <1>11. to = IF r.is = "ready" THEN "sent" ELSE IF r.is = "more" THEN "open" ELSE "none"
    BY <1>3, <1>8, <1>10
  <1>12. RemoveAt(asked[p], k) \in Seq(Nat)
    BY <1>7, <1>9, RemoveAtFacts DEF Without
  <1>13. /\ asked' \in [Peers -> Seq(Nat)] /\ asked'[p] = RemoveAt(asked[p], k)
         /\ \A q \in Peers : q # p => asked'[q] = asked[q]
    BY <1>5, <1>7, <1>12
  <1>14. w \in Handlers \cup {None}
    BY <1>4, <1>10
  <1>15. /\ inner' \in [Peers -> Handlers \cup {None}] /\ inner'[p] = w
         /\ \A q \in Peers : q # p => inner'[q] = inner[q]
    BY <1>6, <1>7, <1>14
  <1>16. /\ conn' \in [Peers -> {"none", "queued", "connecting", "handshake", "open", "sent"}]
         /\ conn'[p] = to /\ \A q \in Peers : q # p => conn'[q] = conn[q]
    BY <1>6, <1>7, <1>11
  <1>17. /\ info' \in [Peers -> Handlers \cup {None}] /\ (r.is = "ready" => info'[p] = r.w)
         /\ \A q \in Peers : q # p => info'[q] = info[q]
    BY <1>6, <1>7, <1>10
  <1>18. MagnetTypeOK'
    BY <1>5, <1>13, <1>15, <1>16, <1>17 DEF MagnetIndInv, MagnetTypeOK, None
  <1>19. ResultJustified'
    <2>1. ASSUME NEW q \in Peers, conn'[q] = "sent"
          PROVE  info'[q] = [size |-> TrueSize, got |-> 0 .. TotalPieces(TrueSize) - 1, good |-> TRUE]
      <3>1. CASE q = p
        BY <1>10, <1>11, <1>16, <1>17, <2>1, <3>1
      <3>2. CASE q # p
        BY <1>16, <1>17, <2>1, <3>2 DEF MagnetIndInv, ResultJustified
      <3> QED BY <3>1, <3>2
    <2> QED BY <1>5, <2>1 DEF ResultJustified, TotalPieces
  <1>20. \A q \in Peers : conn'[q] = "sent" => inner'[q] = None
    BY <1>4, <1>10, <1>11, <1>15, <1>16 DEF MagnetIndInv
  <1>21. ASSUME p \notin repeats
         PROVE  AskedOnce(p)'
    <2>1. AskedOnce(p)
      BY <1>21 DEF MagnetIndInv
    <2>2. r.w # None
      BY <1>10, NoHandler
    <2>3. \/ inner'[p] = r.w
          \/ inner'[p] = None /\ AllPieces(inner[p]) \subseteq inner[p].got \cup {i}
      BY <1>4, <1>10, <1>15
    <2>4. out'[p] = out[p] /\ out[p] \in Seq(Nat) /\ asked[p] \in Seq(Nat)
      BY <1>5, <1>7
    <2> QED BY <1>1, <1>5, <1>10, <1>13, <2>1, <2>2, <2>3, <2>4, AskedAfterData
  <1>22. \A q \in Peers \ repeats' : AskedOnce(q)'
    BY <1>5, <1>13, <1>15, <1>21, AskedKept DEF MagnetIndInv
  <1>23. ASSUME NEW q \in Peers, Kind[q] = "honest"
         PROVE  HonestKept(q)'
    <2>1. HonestKept(q)
      BY <1>23 DEF MagnetIndInv
    <2>2. CASE q # p
      BY <1>5, <1>15, <1>16, <2>1, <2>2 DEF HonestKept, None
    <2>3. CASE q = p
      <3>1. inner[p].size = TrueSize /\ inner[p].good /\ good
        BY <1>5, <1>23, <2>1, <2>3 DEF HonestKept
      <3>2. w # None => w.size = TrueSize /\ w.good
        BY <1>4, <1>10, <3>1
      <3>3. p \notin repeats => to # "none"
        <4>1. p \notin repeats => i \in AllPieces(inner[p]) \ inner[p].got
          BY <1>1, <1>5 DEF MagnetIndInv, AskedOnce
        <4> QED BY <1>5, <1>10, <1>11, <1>23, <2>3, <3>1, <4>1
      <3> QED BY <1>5, <1>15, <1>16, <2>3, <3>2, <3>3 DEF HonestKept, None
    <2> QED BY <2>2, <2>3
  <1> QED BY <1>5, <1>18, <1>19, <1>20, <1>22, <1>23 DEF MagnetIndInv, None

LEMMA MagnetInitially == MagnetInit => MagnetIndInv
  <1> SUFFICES ASSUME MagnetInit PROVE MagnetIndInv
    OBVIOUS
  <1>1. MagnetTypeOK
    BY DEF MagnetInit, MagnetTypeOK
  <1>2. ResultJustified
    BY DEF MagnetInit, ResultJustified
  <1>3. \A p \in Peers : AskedOnce(p)
    BY DEF MagnetInit, AskedOnce
  <1>4. \A p \in Peers : HonestKept(p)
    BY DEF MagnetInit, HonestKept
  <1> QED BY <1>1, <1>2, <1>3, <1>4 DEF MagnetInit, MagnetIndInv

LEMMA MagnetSteps == MagnetIndInv /\ [MagnetNext]_magnetVars => MagnetIndInv'
  <1> SUFFICES ASSUME MagnetIndInv, [MagnetNext]_magnetVars PROVE MagnetIndInv'
    OBVIOUS
  <1>1. CASE UNCHANGED magnetVars
    <2>1. MagnetTypeOK' /\ ResultJustified'
      BY <1>1 DEF magnetVars, MagnetIndInv, MagnetTypeOK, ResultJustified, None, TotalPieces
    <2>2. \A q \in Peers \ repeats' : AskedOnce(q)'
      BY <1>1, AskedKept DEF MagnetIndInv, magnetVars
    <2>3. \A q \in Peers : Kind[q] = "honest" => HonestKept(q)'
      BY <1>1 DEF MagnetIndInv, HonestKept, None, magnetVars
    <2> QED BY <1>1, <2>1, <2>2, <2>3 DEF MagnetIndInv, None, magnetVars
  <1>2. CASE AddrsCompleted \/ ChannelClosed
    BY <1>2, MagnetEnds
  <1>3. ASSUME NEW p \in Peers, NextAddr(p) \/ ConnectionStep(p) \/ OnHandshake(p, FALSE)
        PROVE  MagnetIndInv'
    BY <1>3, MagnetNextAddr, MagnetAcquire, MagnetWriterSends, MagnetFound DEF ConnectionStep
  <1>4. ASSUME NEW p \in Peers, NEW n \in Sizes \cup {TrueSize}, OnExtendedHandshake(p, n)
        PROVE  MagnetIndInv'
    <2>1. n \in Nat
      BY MagnetConstants
    <2> QED BY <1>4, <2>1, MagnetOnExtendedHandshake
  <1>5. ASSUME NEW p \in Peers, NEW k, NEW len, NEW good \in BOOLEAN, OnData(p, k, len, good)
        PROVE  MagnetIndInv'
    BY <1>5, MagnetPanics, MagnetRecords
  <1> QED BY <1>1, <1>2, <1>3, <1>4, <1>5 DEF MagnetNext

(* The search for a magnet's metadata keeps its types, asks each peer that *)
(* sent one extended handshake for each piece once, and loses no honest    *)
(* peer: the invariant of dht_utils.rs and peer_info_reader.               *)
THEOREM MagnetInvariance ==
  MagnetSpec => []MagnetIndInv
  <1>1. MagnetInit => MagnetIndInv
    BY MagnetInitially
  <1>2. MagnetIndInv /\ [MagnetNext]_magnetVars => MagnetIndInv'
    BY MagnetSteps
  <1> QED BY <1>1, <1>2, PTL DEF MagnetSpec

(* Every result of read_metainfo_from_peer_receiver is justified: metadata *)
(* that passed the checksum, a search given up only with no usable honest  *)
(* peer left, a panic only for a peer that repeated its handshake.         *)
THEOREM ResultsAreJustified ==
  MagnetSpec => []ResultJustified
  <1>1. MagnetIndInv => ResultJustified
    BY DEF MagnetIndInv
  <1> QED BY <1>1, MagnetInvariance, PTL

-----------------------------------------------------------------------------
(* The two sides of a metadata piece.  The argument is that n bytes make   *)
(* t = ceil(n / c) pieces exactly when (t - 1) * c < n <= t * c.           *)

LEMMA MinOfTwo ==
  ASSUME NEW a \in Int, NEW b \in Int
  PROVE  Min({a, b}) = IF a <= b THEN a ELSE b
  <1>1. \E x \in {a, b} : \A y \in {a, b} : x <= y
    OBVIOUS
  <1>2. Min({a, b}) \in {a, b} /\ \A y \in {a, b} : Min({a, b}) <= y
    BY <1>1 DEF Min
  <1> QED BY <1>2

LEMMA Division ==
  ASSUME NEW n \in Nat, NEW c \in Nat \ {0}, NEW q \in Nat
  PROVE  n \div c = q <=> q * c <= n /\ n < q * c + c
  <1>1. n \div c = q => q * c <= n /\ n < q * c + c
    OBVIOUS
  <1>2. q * c <= n /\ n < q * c + c => n \div c = q
    OBVIOUS
  <1> QED BY <1>1, <1>2

LEMMA Products ==
  ASSUME NEW a \in Nat, NEW b \in Nat, NEW c \in Nat \ {0}, a < b
  PROVE  a * c + c <= b * c
  OBVIOUS

(* Piece i of t begins at i * ChunkSize and ends before e.                 *)
Bounded(n, i, t, e) ==
    /\ t \in Nat /\ i * ChunkSize \in Nat /\ e \in Int
    /\ i < t => /\ i * ChunkSize < e /\ e - i * ChunkSize = PieceSize(n, i)
                /\ e = IF i = t - 1 THEN n ELSE i * ChunkSize + ChunkSize
                /\ e <= n /\ n <= t * ChunkSize
    /\ e < i * ChunkSize => i >= t

LEMMA PieceBounds ==
  ASSUME NEW n \in Nat \ {0}, NEW i \in Nat, NEW t, t = TotalPieces(n),
         NEW e, e = Min({i * ChunkSize + ChunkSize, n})
  PROVE  Bounded(n, i, t, e)
  <1>1. PICK c \in Nat \ {0} : c = ChunkSize
    BY MagnetConstants
  <1>2. PICK o \in Nat : o = i * c
    OBVIOUS
  <1>3. e = (IF o + c <= n THEN o + c ELSE n) /\ e \in Int
    BY <1>1, <1>2, MinOfTwo
  <1>4. n + c - 1 \in Nat /\ t \in Nat /\ t = (n + c - 1) \div c
    BY <1>1, PiecesCounted DEF TotalPieces
  <1>5. PICK u \in Nat : u = t * c
    BY <1>4
  <1>6. u <= n + c - 1 /\ n + c - 1 < u + c
    BY <1>4, <1>5, Division
  <1>7. i < t => o + c <= u /\ o < n
    BY <1>2, <1>4, <1>5, <1>6, Products
  <1>8. i = t - 1 => o + c = u
    <2>1. i = t - 1 => t = i + 1
      BY <1>4
    <2>2. (i + 1) * c = i * c + c
      OBVIOUS
    <2> QED BY <1>2, <1>5, <2>1, <2>2
  <1>9. i < t /\ i # t - 1 => o + c < n
    <2>1. ASSUME i < t, i # t - 1 PROVE o + c + c <= u
      <3>1. i + 1 \in Nat /\ i + 1 < t
        BY <1>4, <2>1
      <3>2. (i + 1) * c + c <= t * c
        BY <1>4, <3>1, Products
      <3>3. (i + 1) * c = i * c + c
        OBVIOUS
      <3> QED BY <1>2, <1>5, <3>2, <3>3
    <2> QED BY <1>2, <1>6, <2>1
  <1>10. i < t => o < e /\ e <= n /\ n <= u /\ e = IF i = t - 1 THEN n ELSE o + c
    BY <1>3, <1>6, <1>7, <1>8, <1>9
  <1>11. i < t => e - o = PieceSize(n, i)
    <2>1. CASE i < t /\ i = t - 1
      <3>1. PICK s \in Int : s = n - o
        OBVIOUS
      <3>2. s \in 1..c /\ n = o + s
        BY <1>6, <1>7, <1>8, <2>1, <3>1
      <3>3. PieceSize(n, i) = IF n % c = 0 THEN c ELSE n % c
        BY <1>1, <1>4, <2>1 DEF PieceSize, LastElementSize, TotalPieces
      <3>4. CASE s = c
        <4>1. n = (i + 1) * c
          BY <1>2, <3>2, <3>4
        <4>2. ((i + 1) * c) % c = 0
          OBVIOUS
        <4> QED BY <1>2, <1>10, <2>1, <3>2, <3>3, <3>4, <4>1, <4>2
      <3>5. CASE s # c
        <4>1. s \in 0..(c - 1) /\ n = i * c + s
          BY <1>2, <3>2, <3>5
        <4>2. (i * c + s) % c = s
          <5>1. (i * c + s) \div c = i
            BY <1>2, <4>1, Division
          <5> QED BY <4>1, <5>1
        <4> QED BY <1>2, <1>10, <2>1, <3>2, <3>3, <4>1, <4>2
      <3> QED BY <3>4, <3>5
    <2>2. CASE i < t /\ i # t - 1
      BY <1>1, <1>2, <1>4, <1>10, <2>2 DEF PieceSize, TotalPieces
    <2> QED BY <2>1, <2>2
  <1>12. e < o => i >= t
    BY <1>3, <1>4, <1>7
  <1> QED BY <1>1, <1>2, <1>3, <1>4, <1>5, <1>10, <1>11, <1>12 DEF Bounded

(* For metadata of any length: what send_metadata_piece sends is what      *)
(* record_piece expects, in size and in place, and every byte of the       *)
(* metadata is in exactly one piece.                                       *)
THEOREM MetadataPiecesFit ==
  \A n \in Nat \ {0} : \A i \in Nat : PieceFits(n, i)
  <1> TAKE n \in Nat \ {0}
  <1> TAKE i \in Nat
  <1>1. PICK t : t = TotalPieces(n)
    OBVIOUS
  <1>2. PICK c \in Nat \ {0} : c = ChunkSize
    BY MagnetConstants
  <1>3. PICK e : e = Min({i * ChunkSize + ChunkSize, n})
    OBVIOUS
  <1>4. /\ t \in Nat /\ i * c \in Nat /\ e \in Int
        /\ i < t => /\ i * c < e /\ e - i * c = PieceSize(n, i)
                    /\ e = IF i = t - 1 THEN n ELSE i * c + c
                    /\ e <= n /\ n <= t * c
        /\ e < i * c => i >= t
    <2>1. Bounded(n, i, t, e)
      BY <1>1, <1>3, PieceBounds
    <2> QED BY <1>2, <2>1 DEF Bounded
  <1>5. PICK r : r = SendMetadataPiece(n, i)
    OBVIOUS
  <1>6. /\ r.is = IF i > t THEN "error" ELSE IF e < i * c THEN "panic" ELSE "sent"
        /\ r.bytes = i * c .. e - 1
    <2>1. n # 0 /\ e = Min({i * c + c, n})
      BY <1>2, <1>3
    <2>2. r = [is |-> IF n = 0 \/ i > t THEN "error" ELSE IF e < i * c THEN "panic" ELSE "sent",
               bytes |-> i * c .. e - 1]
      BY <1>1, <1>2, <1>5, <2>1 DEF SendMetadataPiece
    <2> QED BY <2>1, <2>2
  <1>7. r.is = "panic" => i = t
    <2>1. r.is = "panic" => ~(i > t) /\ e < i * c
      BY <1>6
    <2>2. r.is = "panic" => ~(i > t) /\ i >= t
      BY <1>4, <2>1
    <2>3. t \in Nat
      BY <1>4
    <2> QED BY <2>2, <2>3
  <1>8. i > t => r.is = "error"
    BY <1>6
  <1>9. ASSUME i < t
        PROVE  /\ r.is = "sent" /\ Cardinality(r.bytes) = PieceSize(n, i)
               /\ r.bytes = {b \in 0 .. n - 1 : b \div c = i}
    <2>1. r.is = "sent"
      BY <1>4, <1>6, <1>9
    <2>2. PICK o \in Nat : o = i * c
      BY <1>4
    <2>3. Cardinality(o .. e - 1) = e - o
      BY <1>4, <1>9, <2>2, FS_Interval
    <2>5. \A b \in 0 .. n - 1 : b \div c = i <=> o <= b /\ b < o + c
      BY <2>2, Division
    <2>6. i = t - 1 => n <= o + c
      <3>1. i = t - 1 => t * c = i * c + c
        BY <1>4
      <3> QED BY <1>4, <1>9, <2>2, <3>1
    <2>7. \A b \in Int : b \in o .. e - 1 <=> b \in 0 .. n - 1 /\ o <= b /\ b < o + c
      BY <1>4, <1>9, <2>2, <2>6
    <2>8. o .. e - 1 = {b \in 0 .. n - 1 : b \div c = i}
      BY <2>5, <2>7
    <2> QED BY <1>4, <1>6, <1>9, <2>1, <2>2, <2>3, <2>8
  <1> QED BY <1>1, <1>2, <1>5, <1>7, <1>8, <1>9 DEF PieceFits
=============================================================================
