---------------------------- MODULE CloudExport ----------------------------
(***************************************************************************)
(* The cloud export queue of bt-player: the table cloud_export_tasks       *)
(* (src-tauri/src/db.rs), the /api/cloud-exports handlers (lib.rs) and the *)
(* placeholder worker (main.rs), which claims the oldest queued row, waits *)
(* and sets it to done.  The handlers and the worker have connections of   *)
(* their own: every statement or transaction is one step, and may fail     *)
(* when SQLite reports the database busy.                                  *)
(***************************************************************************)
EXTENDS Integers

CONSTANTS
    MaxTasks,        \* bound: rows created
    ApiStatuses,     \* the statuses callers of the status route send
    MaxUpdates,      \* bound: calls of the status route
    MaxExportCrashes \* bound: restarts of the process

Rows == 1..MaxTasks
Statuses == {"queued", "exporting", "done"} \cup ApiStatuses

ASSUME CloudExportAssumption ==
    /\ MaxTasks \in Nat /\ MaxUpdates \in Nat /\ MaxExportCrashes \in Nat
    /\ "none" \notin Statuses

VARIABLES
    status,        \* the status column by row id, "none" for an id not yet given
    last,          \* last_insert_rowid
    held,          \* the row the worker has claimed, 0 for none
    up,            \* the process is running
    updates,       \* calls of the status route so far
    exportCrashes, \* restarts so far
    touched,       \* history: rows the status route has written
    claimed,       \* history: rows the worker has claimed
    stuck          \* history: claimed rows whose worker died or could not write

exportVars == <<status, last, held, up, updates, exportCrashes, touched, claimed, stuck>>

ExportInit ==
    /\ status = [i \in Rows |-> "none"]
    /\ last = 0
    /\ held = 0
    /\ up = TRUE
    /\ updates = 0
    /\ exportCrashes = 0
    /\ touched = {}
    /\ claimed = {}
    /\ stuck = {}

-----------------------------------------------------------------------------
(* POST /api/cloud-exports *)
CreateTask ==
    /\ up
    /\ last < MaxTasks
    /\ last' = last + 1
    /\ status' = [status EXCEPT ![last + 1] = "queued"]
    /\ UNCHANGED <<held, up, updates, exportCrashes, touched, claimed, stuck>>

(* POST /api/cloud-exports/status: any status for any row; an id no row    *)
(* has changes nothing.                                                    *)
UpdateStatus(i, s) ==
    /\ up
    /\ updates < MaxUpdates
    /\ updates' = updates + 1
    /\ IF i <= last
       THEN /\ status' = [status EXCEPT ![i] = s]
            /\ touched' = touched \cup {i}
       ELSE UNCHANGED <<status, touched>>
    /\ UNCHANGED <<last, held, up, exportCrashes, claimed, stuck>>

-----------------------------------------------------------------------------
(* claim_next_cloud_export_task, one transaction: the oldest queued row.   *)
Queued == {i \in Rows : status[i] = "queued"}

(* Mutants: the newest row first; every queued row is marked; the row is   *)
(* not marked.                                                             *)
ClaimNewest ==
    /\ up
    /\ held = 0
    /\ \E i \in Queued :
          /\ \A j \in Queued : j <= i
          /\ status' = [status EXCEPT ![i] = "exporting"]
          /\ held' = i
          /\ claimed' = claimed \cup {i}
    /\ UNCHANGED <<last, up, updates, exportCrashes, touched, stuck>>

ClaimAll ==
    /\ up
    /\ held = 0
    /\ \E i \in Queued :
          /\ \A j \in Queued : i <= j
          /\ status' = [j \in Rows |-> IF j \in Queued THEN "exporting"
                                       ELSE status[j]]
          /\ held' = i
          /\ claimed' = claimed \cup {i}
    /\ UNCHANGED <<last, up, updates, exportCrashes, touched, stuck>>

ClaimUnmarked ==
    /\ up
    /\ held = 0
    /\ \E i \in Queued :
          /\ \A j \in Queued : i <= j
          /\ held' = i
          /\ claimed' = claimed \cup {i}
    /\ UNCHANGED <<status, last, up, updates, exportCrashes, touched, stuck>>

ClaimNext ==
    /\ up
    /\ held = 0
    /\ \E i \in Queued :
          /\ \A j \in Queued : i <= j
          /\ status' = [status EXCEPT ![i] = "exporting"]
          /\ held' = i
          /\ claimed' = claimed \cup {i}
    /\ UNCHANGED <<last, up, updates, exportCrashes, touched, stuck>>

(* Mutant: the worker never returns from its row.                          *)
FinishStays ==
    /\ up
    /\ held # 0
    /\ status' = [status EXCEPT ![held] = "done"]
    /\ UNCHANGED <<last, held, up, updates, exportCrashes, touched, claimed, stuck>>

(* After the sleep: the row becomes done, whatever it is by then.  When    *)
(* the write fails the worker warns and takes the next row.                *)
Finish ==
    /\ up
    /\ held # 0
    /\ held' = 0
    /\ \/ /\ status' = [status EXCEPT ![held] = "done"]
          /\ UNCHANGED stuck
       \/ /\ stuck' = stuck \cup {held}
          /\ UNCHANGED status
    /\ UNCHANGED <<last, up, updates, exportCrashes, touched, claimed>>

(* The process dies, and systemd restarts it.                              *)
ExportCrash ==
    /\ up
    /\ exportCrashes < MaxExportCrashes
    /\ exportCrashes' = exportCrashes + 1
    /\ up' = FALSE
    /\ held' = 0
    /\ stuck' = IF held = 0 THEN stuck ELSE stuck \cup {held}
    /\ UNCHANGED <<status, last, updates, touched, claimed>>

Restart ==
    /\ ~up
    /\ up' = TRUE
    /\ UNCHANGED <<status, last, held, updates, exportCrashes, touched, claimed,
                   stuck>>

(* The worker polls an empty queue.                                        *)
Idle ==
    /\ up
    /\ held = 0
    /\ Queued = {}
    /\ UNCHANGED exportVars

ExportNext ==
    \/ CreateTask
    \/ \E i \in Rows, s \in ApiStatuses : UpdateStatus(i, s)
    \/ ClaimNext \/ Finish \/ Idle
    \/ ExportCrash \/ Restart

ExportSpec == ExportInit /\ [][ExportNext]_exportVars

(* The worker's loop goes on (a busy database is retried after five        *)
(* seconds), and systemd restarts the service.                             *)
ExportFairSpec ==
    ExportSpec /\ WF_exportVars(ClaimNext) /\ WF_exportVars(Finish) /\ WF_exportVars(Restart)

-----------------------------------------------------------------------------
(* Properties *)

(* The variables have their types; rows 1..last exist and no others.       *)
ExportTypeOK ==
    /\ status \in [Rows -> Statuses \cup {"none"}]
    /\ last \in 0..MaxTasks
    /\ held \in 0..MaxTasks
    /\ up \in BOOLEAN
    /\ updates \in 0..MaxUpdates
    /\ exportCrashes \in 0..MaxExportCrashes
    /\ touched \subseteq Rows
    /\ claimed \subseteq Rows
    /\ stuck \subseteq Rows
    /\ \A i \in Rows : status[i] = "none" <=> i > last

(* Rows nobody has touched are served in the order of their creation: none *)
(* waits while a later one has been claimed, across crashes and failed     *)
(* writes.                                                                 *)
InOrder ==
    \A i, j \in Rows :
        i < j /\ j \in claimed /\ j \notin touched /\ i \notin touched =>
            status[i] # "queued"

(* A row shown as exporting is the one the worker holds, or its worker     *)
(* died or could not write, or the status route set it.                    *)
ExportingAccounted ==
    \A i \in Rows : status[i] = "exporting" =>
        i = held \/ i \in stuck \/ i \in touched

(* The worker claims a row once, unless the status route queued it again;  *)
(* a crash after the claim does not export it twice.                       *)
ClaimedOnce ==
    [][\A i \in Rows : held = 0 /\ held' = i /\ i \notin touched =>
          i \notin claimed]_exportVars

(* What the invariants rest on: an untouched row is queued exactly until   *)
(* it is claimed, and rows are claimed from the front.                     *)
ExportIndInv ==
    /\ ExportTypeOK
    /\ ExportingAccounted
    /\ held # 0 => held \in claimed
    /\ \A i \in claimed : i <= last
    /\ \A i \in touched : i <= last
    /\ \A i \in Rows \ touched : i <= last /\ i \notin claimed =>
          status[i] = "queued"
    /\ \A i \in claimed \ touched : status[i] # "queued"
    /\ \A j \in claimed \ touched : \A i \in Rows \ touched :
          i < j => i \in claimed

(* Every queued row is claimed: the deploy README's "任务会自动从 queued 推进 *)
(* 到 exporting/done".                                                      *)
QueuedClaimed ==
    \A i \in Rows : status[i] = "queued" ~> status[i] # "queued"

=============================================================================
