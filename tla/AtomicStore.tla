----------------------------- MODULE AtomicStore -----------------------------
(***************************************************************************)
(* What resources.json promises to the handlers of puresource-playlist:    *)
(* a table of records in which one step adds one record or rewrites one    *)
(* record, and in which no record is ever lost.  The file, its lock and    *)
(* its temporary copy (module Workbench) implement this table.             *)
(***************************************************************************)
CONSTANTS Ids, Record, NoRec

VARIABLE db     \* what load_resources returns

Init == db \in [Ids -> Record \cup {NoRec}]

(* append_resource *)
Append(i) ==
    /\ db[i] = NoRec
    /\ db'[i] \in Record
    /\ db' = [db EXCEPT ![i] = db'[i]]

(* update_resource *)
Update(i) ==
    /\ db[i] # NoRec
    /\ db'[i] \in Record
    /\ db' = [db EXCEPT ![i] = db'[i]]

Next == \E i \in Ids : Append(i) \/ Update(i)

Spec == Init /\ [][Next]_db
=============================================================================
