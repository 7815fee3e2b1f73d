--------------------------- MODULE WorkbenchProofs ---------------------------
(***************************************************************************)
(* Proofs about Workbench, for any sets of ids, threads and urls and any   *)
(* number of requests: the inductive invariant IndInv and what follows.    *)
(***************************************************************************)
EXTENDS Workbench, TLAPS

-----------------------------------------------------------------------------
(* The helpers of models.py and store.py. *)

(* infer_source_kind returns one of the five kinds.                        *)
LEMMA InferSourceKindType ==
    ASSUME NEW u \in Urls
    PROVE  InferSourceKind(u) \in Kinds
BY DEF InferSourceKind, Kinds

(* A loaded record is a record; loading changes neither its admission nor  *)
(* whether it is being probed.                                             *)
LEMMA LoadRecordType ==
    ASSUME NEW rec \in Record
    PROVE  /\ LoadRecord(rec) \in Record
           /\ LoadRecord(rec).status = rec.status
           /\ LoadRecord(rec).stream = rec.stream
           /\ LoadRecord(rec).stage = "probing" <=> rec.stage = "probing"
<1>1. /\ MigrateLegacy(rec) \in Record
      /\ MigrateLegacy(rec).status = rec.status
      /\ MigrateLegacy(rec).stream = rec.stream
      /\ MigrateLegacy(rec).stage = "probing" <=> rec.stage = "probing"
  <2>1. rec.stream # NoUrl => InferSourceKind(rec.stream) \in Kinds
    BY InferSourceKindType DEF Record
  <2> QED
    BY <2>1 DEF MigrateLegacy, Record, Kinds, Stages
<1>2. CapLog(rec.log) \in Nat
  BY WorkbenchAssumption DEF CapLog, Record
<1> QED
  BY <1>1, <1>2 DEF LoadRecord, Record

(* load_resources keeps the set of records, and their admissions.          *)
LEMMA LoadResourcesType ==
    ASSUME TypeOK
    PROVE  /\ LoadResources \in File
           /\ \A i \in Ids :
                /\ LoadResources[i] = NoRec <=> store[i] = NoRec
                /\ store[i] # NoRec =>
                     /\ store[i] \in Record
                     /\ LoadResources[i] \in Record
                     /\ LoadResources[i].status = store[i].status
                     /\ LoadResources[i].stream = store[i].stream
                     /\ LoadResources[i].stage = "probing"
                           <=> store[i].stage = "probing"
<1>1. \A i \in Ids : store[i] # NoRec => store[i] \in Record
  BY DEF TypeOK, File
<1>2. \A i \in Ids : store[i] # NoRec => LoadRecord(store[i]) \in Record
  BY <1>1, LoadRecordType
<1>3. \A i \in Ids : LoadResources[i] =
            IF store[i] = NoRec THEN NoRec ELSE LoadRecord(store[i])
  BY DEF LoadResources
<1>4. LoadResources \in File
  BY <1>2 DEF LoadResources, File
<1> QED
  BY <1>1, <1>2, <1>3, <1>4, LoadRecordType, WorkbenchAssumption

(* Every mutator of main.py turns a record into a record.                  *)
LEMMA MutateType ==
    ASSUME NEW o, NEW b \in Record, NEW rec \in Record
    PROVE  Mutate(o, b, rec) \in Record
<1>1. EnrichTitle(rec) \in Titles
  BY DEF EnrichTitle, Record, Titles
<1>2. CASE o = "mark"
  BY <1>2 DEF Mutate, Record, Stages
<1>3. CASE o = "enrich"
  BY <1>1, <1>3 DEF Mutate, Record
<1>4. CASE o = "promote"
  <2>1. (IF b.title = "none" THEN rec.title ELSE b.title) \in Titles
    BY DEF Record
  <2> QED
    BY <1>4, <2>1 DEF Mutate, Record, Stages
<1>5. CASE o \notin {"mark", "enrich", "promote"}
  BY <1>5 DEF Mutate
<1> QED
  BY <1>2, <1>3, <1>4, <1>5

-----------------------------------------------------------------------------
(* The invariant holds initially and every action keeps it. *)

(* The v0.1 file a server starts with is admitted as it is.                *)
LEMMA InitInv == Init => IndInv
<1> SUFFICES ASSUME Init PROVE IndInv
  OBVIOUS
<1> USE DEF Init
<1>1. NewRecord \in Record
  BY DEF NewRecord, Record, Kinds, Stages, Titles, Magnets
<1>2. LegacyRecords \subseteq Record
  BY DEF LegacyRecords, HttpUrls, Record, Kinds, Stages, Titles, Magnets
<1>3. TypeOK
  BY <1>1, <1>2, WorkbenchAssumption DEF TypeOK, File, NoFile, Ops, Pcs
<1>4. ThreadInv /\ FreshInv
  BY DEF ThreadInv, FreshInv, Appends
<1>5. LockInv
  BY WorkbenchAssumption DEF LockInv, Holds
<1>6. BufInv
  BY DEF BufInv, InProbe
<1>7. \A i \in Ids : store[i] # NoRec =>
          /\ acked[i] = "listed"
          /\ EligibleForPlaylist(store[i])
          /\ store[i].stage # "probing"
  BY WorkbenchAssumption
     DEF LegacyRecords, EligibleForPlaylist, HttpUrls
<1>8. StatusInv /\ AckedSurvive /\ ProbingAccounted
  BY <1>7 DEF StatusInv, AckedSurvive, ProbingAccounted, MayBeListed
<1> QED
  BY <1>3, <1>4, <1>5, <1>6, <1>8 DEF IndInv

(* A step that leaves the file alone keeps the loaded view of it.          *)
LEMMA SameStore == store' = store => LoadResources' = LoadResources
BY DEF LoadResources

(* A request may begin with any record that respects the rules of its      *)
(* handler: every record posted to /tasks has no status, every body of     *)
(* /intake and /promote has a url and a status.                            *)
LEMMA BeginInv ==
    ASSUME IndInv, NEW r \in Reqs, NEW o \in Ops \ {"none", "settle"},
           NEW i \in Ids, NEW rec \in Record, Begin(r, o, i, rec),
           o = "create" => rec.status = "none",
           o \in {"create", "intake"} => rec.stage # "probing" /\ Fresh(i),
           o \in {"intake", "promote"} => EligibleForPlaylist(rec)
    PROVE  IndInv'
<1> USE DEF IndInv, Begin, file, hist
<1>1. TypeOK'
  BY WorkbenchAssumption DEF TypeOK, Pcs
<1>2. ThreadInv'
  BY DEF ThreadInv, TypeOK
<1>3. LockInv'
  <2> SUFFICES ASSUME NEW q \in Reqs PROVE LockInv!(q)'
    BY DEF LockInv
  <2>1. CASE q = r
    BY <2>1 DEF LockInv, Holds, TypeOK
  <2>2. CASE q # r
    <3>1. /\ pc'[q] = pc[q] /\ op'[q] = op[q] /\ tgt'[q] = tgt[q]
          /\ buf'[q] = buf[q] /\ snap'[q] = snap[q]
      BY <2>2 DEF TypeOK
    <3> QED
      BY <3>1, SameStore DEF LockInv, Holds, Appends
  <2> QED
    BY <2>1, <2>2
<1>4. FreshInv'
  BY DEF FreshInv, Appends, Fresh, TypeOK, ThreadInv
<1>5. BufInv'
  <2> SUFFICES ASSUME NEW q \in Reqs PROVE BufInv!(q)'
    BY DEF BufInv
  <2>1. CASE q = r
    BY <2>1 DEF BufInv, InProbe, TypeOK
  <2>2. CASE q # r
    BY <2>2 DEF BufInv, InProbe, TypeOK, MayBeListed
  <2> QED
    BY <2>1, <2>2
<1>6. StatusInv' /\ AckedSurvive'
  BY DEF StatusInv, AckedSurvive, MayBeListed
<1>7. ProbingAccounted'
  BY DEF ProbingAccounted, InProbe, TypeOK, ThreadInv
<1> QED
  BY <1>1, <1>2, <1>3, <1>4, <1>5, <1>6, <1>7

(* NewRecord, the record the handlers start from, is a record.             *)
LEMMA NewRecordType == NewRecord \in Record /\ NewRecord.status = "none"
BY DEF NewRecord, Record, Kinds, Stages, Titles, Magnets

(* The five handlers keep the invariant when they accept a request.        *)
LEMMA HandlerInv ==
    ASSUME IndInv, NEW r \in Reqs,
           \/ CreateTask(r) \/ Intake(r) \/ Probe(r) \/ Enrich(r) \/ Promote(r)
    PROVE  IndInv'
<1>1. CASE CreateTask(r)
  <2>1. PICK i \in Ids, u \in Urls, t \in {"none", "user"} :
          /\ Fresh(i)
          /\ Begin(r, "create", i,
                   [NewRecord EXCEPT !.src = u, !.kind = InferSourceKind(u),
                                !.title = IF t = "none" THEN "url" ELSE t])
    BY <1>1 DEF CreateTask
  <2> DEFINE rec == [NewRecord EXCEPT !.src = u, !.kind = InferSourceKind(u),
                                !.title = IF t = "none" THEN "url" ELSE t]
  <2>2. rec \in Record /\ rec.status = "none" /\ rec.stage = "pending"
    BY InferSourceKindType DEF NewRecord, Record, Stages, Titles, Magnets
  <2> QED
    BY <2>1, <2>2, BeginInv DEF Ops
<1>2. CASE Intake(r)
  <2>1. PICK i \in Ids, u \in HttpUrls, s \in Statuses :
          /\ Fresh(i)
          /\ Begin(r, "intake", i,
                 [NewRecord EXCEPT !.src = u, !.kind = InferSourceKind(u),
                                   !.stream = u, !.stage = StatusToStage(s),
                                   !.status = s, !.title = "user"])
    BY <1>2 DEF Intake
  <2> DEFINE rec ==
         [NewRecord EXCEPT !.src = u, !.kind = InferSourceKind(u),
                           !.stream = u, !.stage = StatusToStage(s),
                           !.status = s, !.title = "user"]
  <2>2. /\ rec \in Record /\ rec.stage # "probing"
        /\ rec.stream = u /\ rec.status = s
    BY InferSourceKindType
       DEF NewRecord, Record, Stages, Titles, Magnets, StatusToStage, HttpUrls
  <2>3. EligibleForPlaylist(rec)
    BY <2>2, WorkbenchAssumption DEF EligibleForPlaylist, HttpUrls
  <2> HIDE DEF rec
  <2> QED
    BY <2>1, <2>2, <2>3, BeginInv DEF Ops, rec
<1>3. CASE Probe(r)
  BY <1>3, BeginInv, NewRecordType DEF Probe, Ops
<1>4. CASE Enrich(r)
  <2>1. PICK i \in Ids :
          /\ LoadResources[i] # NoRec
          /\ LoadResources[i].src # NoUrl
          /\ Begin(r, "enrich", i,
                 [LoadResources[i] EXCEPT
                     !.magnet = EnrichedMagnet(LoadResources[i])])
    BY <1>4 DEF Enrich
  <2>2. LoadResources[i] \in Record
    BY <2>1, LoadResourcesType DEF IndInv
  <2>3. [LoadResources[i] EXCEPT
            !.magnet = EnrichedMagnet(LoadResources[i])] \in Record
    BY <2>2 DEF Record, EnrichedMagnet, Magnets
  <2> QED
    BY <2>1, <2>3, BeginInv DEF Ops
<1>5. CASE Promote(r)
  <2>1. PICK i \in Ids, u \in HttpUrls, s \in Statuses, t \in {"none", "user"} :
          /\ LoadResources[i] # NoRec
          /\ Begin(r, "promote", i,
                 [LoadResources[i] EXCEPT !.stream = u, !.status = s,
                                          !.title = t])
    BY <1>5 DEF Promote
  <2> DEFINE rec == [LoadResources[i] EXCEPT !.stream = u, !.status = s,
                                             !.title = t]
  <2>2. LoadResources[i] \in Record
    BY <2>1, LoadResourcesType DEF IndInv
  <2>3. rec \in Record /\ rec.stream = u /\ rec.status = s
    BY <2>2 DEF Record, Titles, HttpUrls
  <2>4. EligibleForPlaylist(rec)
    BY <2>3, WorkbenchAssumption DEF EligibleForPlaylist, HttpUrls
  <2> HIDE DEF rec
  <2> QED
    BY <2>1, <2>3, <2>4, BeginInv DEF Ops, rec
<1> QED
  BY <1>1, <1>2, <1>3, <1>4, <1>5

(* Taking the lock and loading the file.                                   *)
LEMMA LockAndLoadInv ==
    ASSUME IndInv, NEW r \in Reqs, LockAndLoad(r)
    PROVE  IndInv'
<1> USE DEF IndInv, LockAndLoad, hist
<1>1. TypeOK'
  BY LoadResourcesType DEF TypeOK, Pcs
<1>2. ThreadInv' /\ FreshInv' /\ StatusInv' /\ AckedSurvive'
  BY DEF ThreadInv, FreshInv, StatusInv, AckedSurvive, TypeOK, Appends,
         MayBeListed
<1>3. LockInv'
  BY SameStore, WorkbenchAssumption DEF LockInv, Holds, Appends, TypeOK
<1>4. BufInv' /\ ProbingAccounted'
  BY DEF BufInv, ProbingAccounted, InProbe, MayBeListed, TypeOK
<1> QED
  BY <1>1, <1>2, <1>3, <1>4

(* Writing resources.tmp: the holder of the lock is alone in doing so.     *)
LEMMA WriteTmpInv ==
    ASSUME IndInv, NEW r \in Reqs, WriteTmp(r)
    PROVE  IndInv'
<1> USE DEF IndInv, WriteTmp, hist
<1>1. /\ tgt[r] \in Ids /\ lock = r /\ snap[r] \in File
      /\ Mutate(op[r], buf[r], snap[r][tgt[r]]) \in Record
  <2>1. tgt[r] \in Ids /\ lock = r /\ snap[r] \in File /\ buf[r] \in Record
    BY DEF ThreadInv, LockInv, Holds, TypeOK
  <2>2. CASE Appends(r)
    BY <2>1, <2>2 DEF Appends, Mutate
  <2>3. CASE ~Appends(r)
    BY <2>1, <2>3, MutateType DEF File
  <2> QED
    BY <2>1, <2>2, <2>3
<1>2. TypeOK'
  BY <1>1 DEF TypeOK, Pcs, File
<1>3. ThreadInv' /\ FreshInv' /\ StatusInv' /\ AckedSurvive'
  BY DEF ThreadInv, FreshInv, StatusInv, AckedSurvive, TypeOK, Appends,
         MayBeListed
<1>4. LockInv'
  BY <1>1, SameStore, WorkbenchAssumption DEF LockInv, Holds, Appends, TypeOK
<1>5. BufInv' /\ ProbingAccounted'
  BY DEF BufInv, ProbingAccounted, InProbe, MayBeListed, TypeOK
<1> QED
  BY <1>2, <1>3, <1>4, <1>5

(* The 404 answer of update_resource gives the lock back.                  *)
LEMMA UpdateMissingInv ==
    ASSUME IndInv, NEW r \in Reqs, UpdateMissing(r)
    PROVE  IndInv'
<1> USE DEF IndInv, UpdateMissing, Finish, hist
<1>1. lock = r /\ ~InProbe(r)
  <2>1. lock = r /\ op[r] # "none" /\ tgt[r] \in Ids
    BY DEF LockInv, Holds, ThreadInv
  <2>2. InProbe(r) => snap[r][tgt[r]] # NoRec
    BY <2>1, LoadResourcesType DEF BufInv, LockInv, Holds
  <2> QED
    BY <2>1, <2>2
<1>2. TypeOK'
  BY NewRecordType DEF TypeOK, Ops, Pcs, File, NoFile
<1>3. ThreadInv' /\ FreshInv' /\ StatusInv' /\ AckedSurvive'
  BY DEF ThreadInv, FreshInv, StatusInv, AckedSurvive, TypeOK, Appends,
         MayBeListed
<1>4. LockInv'
  BY <1>1, SameStore, WorkbenchAssumption DEF LockInv, Holds, Appends, TypeOK
<1>5. BufInv'
  BY DEF BufInv, InProbe, MayBeListed, TypeOK
<1>6. ProbingAccounted'
  BY <1>1 DEF ProbingAccounted, InProbe, TypeOK
<1> QED
  BY <1>2, <1>3, <1>4, <1>5, <1>6

(* _settle changes the stage and the log of a record and nothing else.     *)
LEMMA SettleType ==
    ASSUME NEW rec \in Record, NEW st \in Stages, NEW n \in Nat
    PROVE  /\ Settle(rec, st, n) \in Record
           /\ Settle(rec, st, n).stage = st
           /\ Settle(rec, st, n).status = rec.status
           /\ Settle(rec, st, n).stream = rec.stream
<1>1. rec.log + n \in Nat
  BY DEF Record
<1> QED
  BY <1>1 DEF Settle, Record

(* probe_record returns: the copy gets its outcome, the file is unchanged. *)
LEMMA ProbeRecordInv ==
    ASSUME IndInv, NEW r \in Reqs, ProbeRecord(r)
    PROVE  IndInv'
<1> USE DEF IndInv, ProbeRecord, file, hist
<1>1. PICK o \in Outcomes(buf[r]) :
        buf' = [buf EXCEPT ![r] = Settle(buf[r], o[1], o[2])]
  OBVIOUS
<1>2. PICK st \in {"playable", "failed", "pending"}, n \in Nat :
        buf' = [buf EXCEPT ![r] = Settle(buf[r], st, n)]
  <2>1. o[1] \in {"playable", "failed", "pending"} /\ o[2] \in Nat
    BY DEF Outcomes
  <2> QED
    BY <1>1, <2>1
<1>3. buf[r] \in Record
  BY DEF TypeOK
<1>4. /\ Settle(buf[r], st, n) \in Record
      /\ Settle(buf[r], st, n).stage = st
      /\ Settle(buf[r], st, n).status = buf[r].status
      /\ Settle(buf[r], st, n).stream = buf[r].stream
  <2>1. st \in Stages
    BY DEF Stages
  <2> HIDE DEF IndInv, ProbeRecord
  <2> QED
    BY <1>3, <2>1, SettleType, Zenon
<1>5. /\ buf'[r] = Settle(buf[r], st, n)
      /\ \A q \in Reqs \ {r} : buf'[q] = buf[q]
  BY <1>2 DEF TypeOK
<1>6. TypeOK'
  <2>1. buf' \in [Reqs -> Record]
    BY <1>2, <1>4 DEF TypeOK
  <2> QED
    BY <2>1 DEF TypeOK, Ops, Pcs
<1>7. ThreadInv' /\ FreshInv' /\ StatusInv' /\ AckedSurvive'
  BY DEF ThreadInv, FreshInv, StatusInv, AckedSurvive, TypeOK, Appends,
         MayBeListed
<1>8. LockInv'
  BY <1>5, SameStore DEF LockInv, Holds, Appends, TypeOK
<1>9. BufInv'
  BY <1>2, <1>4, <1>5 DEF BufInv, InProbe, MayBeListed, TypeOK, EligibleForPlaylist
<1>10. ProbingAccounted'
  BY DEF ProbingAccounted, InProbe, TypeOK
<1> QED
  BY <1>6, <1>7, <1>8, <1>9, <1>10

(* A probe that raises leaves its mark behind; dead records that.          *)
LEMMA ProbeRaisesInv ==
    ASSUME IndInv, NEW r \in Reqs, ProbeRaises(r)
    PROVE  IndInv'
<1> USE DEF IndInv, ProbeRaises, Finish, file
<1>1. tgt[r] \in Ids
  BY DEF ThreadInv
<1>2. TypeOK'
  BY <1>1, NewRecordType DEF TypeOK, Ops, Pcs, File, NoFile
<1>3. ThreadInv' /\ FreshInv' /\ StatusInv' /\ AckedSurvive'
  BY DEF ThreadInv, FreshInv, StatusInv, AckedSurvive, TypeOK, Appends,
         MayBeListed
<1>4. LockInv'
  BY SameStore DEF LockInv, Holds, Appends, TypeOK
<1>5. BufInv'
  BY DEF BufInv, InProbe, MayBeListed, TypeOK
<1>6. ProbingAccounted'
  BY DEF ProbingAccounted, InProbe, TypeOK
<1> QED
  BY <1>2, <1>3, <1>4, <1>5, <1>6

(* After a crash the file is the last one renamed into place.              *)
LEMMA CrashInv ==
    ASSUME IndInv, Crash
    PROVE  IndInv'
<1> USE DEF IndInv, Crash
<1>1. TypeOK'
  BY NewRecordType DEF TypeOK, Ops, Pcs, File, NoFile
<1>2. ThreadInv' /\ FreshInv' /\ StatusInv' /\ AckedSurvive'
  BY DEF ThreadInv, FreshInv, StatusInv, AckedSurvive, Appends, MayBeListed
<1>3. LockInv'
  BY WorkbenchAssumption DEF LockInv, Holds
<1>4. BufInv' /\ ProbingAccounted'
  BY DEF BufInv, ProbingAccounted, InProbe
<1> QED
  BY <1>1, <1>2, <1>3, <1>4

(* What a rename writes: the current file with the target record replaced  *)
(* by a record that keeps to the admissions of that record.                *)
LEMMA ReplaceEffect ==
    ASSUME IndInv, NEW r \in Reqs, Replace(r)
    PROVE  LET new == Mutate(op[r], buf[r], LoadResources[tgt[r]]) IN
           /\ tgt[r] \in Ids /\ lock = r
           /\ Appends(r) <=> store[tgt[r]] = NoRec
           /\ new \in Record
           /\ store' = [LoadResources EXCEPT ![tgt[r]] = new]
           /\ acked[tgt[r]] = "listed" => EligibleForPlaylist(new)
           /\ op[r] \in {"intake", "promote"} => EligibleForPlaylist(new)
           /\ new.status # "none" =>
                  op[r] \in {"intake", "promote"} \/ MayBeListed(tgt[r])
           /\ op[r] = "settle" \/ Appends(r) => new.stage # "probing"
           /\ op[r] = "enrich" =>
                  /\ new.stage = LoadResources[tgt[r]].stage
                  /\ new.status = LoadResources[tgt[r]].status
                  /\ new.stream = LoadResources[tgt[r]].stream
<1> DEFINE cur == LoadResources[tgt[r]]
           new == Mutate(op[r], buf[r], cur)
<1> USE DEF IndInv
<1>1. /\ tgt[r] \in Ids /\ lock = r /\ op[r] # "none" /\ buf[r] \in Record
      /\ pc[r] = "written"
      /\ store' = tmp
      /\ snap[r] = LoadResources
      /\ tmp = [LoadResources EXCEPT ![tgt[r]] = new]
      /\ Appends(r) \/ cur # NoRec
  BY DEF Replace, Rename, ThreadInv, LockInv, Holds, TypeOK
<1>2. Appends(r) <=> store[tgt[r]] = NoRec
  BY <1>1, LoadResourcesType DEF FreshInv
<1>3. CASE Appends(r)
  <2>1. new = buf[r]
    BY <1>3 DEF Mutate, Appends
  <2>2. acked[tgt[r]] # "listed"
    BY <1>1, <1>2, <1>3 DEF AckedSurvive
  <2> HIDE DEF new
  <2> QED
    BY <1>1, <1>2, <1>3, <2>1, <2>2 DEF BufInv, Appends, new
<1>4. CASE ~Appends(r)
  <2>1. /\ store[tgt[r]] # NoRec /\ cur \in Record
        /\ acked[tgt[r]] = "listed" => EligibleForPlaylist(cur)
        /\ cur.status # "none" => MayBeListed(tgt[r])
    BY <1>1, <1>2, <1>4, LoadResourcesType DEF StatusInv, EligibleForPlaylist
  <2>2. new \in Record
    BY <1>1, <2>1, MutateType
  <2>3. CASE op[r] = "settle"
    <3>1. new = buf[r]
      BY <2>3 DEF Mutate
    <3>2. InProbe(r)
      BY <1>1, <2>3 DEF InProbe
    <3> HIDE DEF new
    <3> QED
      BY <1>1, <1>2, <1>4, <2>2, <2>3, <3>1, <3>2 DEF BufInv, new
  <2>4. CASE op[r] = "promote"
    <3>1. new.stream = buf[r].stream /\ new.status = buf[r].status
      BY <2>1, <2>4 DEF Mutate, Record
    <3>2. EligibleForPlaylist(buf[r])
      BY <2>4 DEF BufInv
    <3>3. EligibleForPlaylist(new)
      BY <3>1, <3>2 DEF EligibleForPlaylist
    <3> HIDE DEF new
    <3> QED
      BY <1>1, <1>2, <1>4, <2>2, <2>4, <3>3 DEF new
  <2>5. CASE op[r] \in {"mark", "enrich"}
    <3>1. /\ new.stream = cur.stream /\ new.status = cur.status
          /\ op[r] = "enrich" => new.stage = cur.stage
      BY <2>1, <2>5 DEF Mutate, Record
    <3>2. EligibleForPlaylist(cur) => EligibleForPlaylist(new)
      BY <3>1 DEF EligibleForPlaylist
    <3> HIDE DEF new
    <3> QED
      BY <1>1, <1>2, <1>4, <2>1, <2>2, <2>5, <3>1, <3>2 DEF new
  <2> QED
    BY <1>1, <1>4, <2>3, <2>4, <2>5 DEF TypeOK, Ops, Appends
<1> QED
  BY <1>3, <1>4

(* What happens to the thread and to the histories in a rename.            *)
LEMMA ReplaceThread ==
    ASSUME IndInv, NEW r \in Reqs, Replace(r)
    PROVE  /\ \A q \in Reqs \ {r} :
                /\ op'[q] = op[q] /\ pc'[q] = pc[q] /\ tgt'[q] = tgt[q]
                /\ buf'[q] = buf[q] /\ snap'[q] = snap[q]
           /\ IF op[r] = "mark"
              THEN /\ op'[r] = "mark" /\ pc'[r] = "http" /\ tgt'[r] = tgt[r]
                   /\ buf'[r] = Mutate("mark", buf[r], LoadResources[tgt[r]])
              ELSE op'[r] = "none" /\ pc'[r] = "idle"
           /\ lock' = NoReq
           /\ acked' = [acked EXCEPT ![tgt[r]] =
                           CASE op[r] = "create" -> "task"
                             [] op[r] = "intake" -> "listed"
                             [] OTHER -> acked[tgt[r]]]
           /\ promoted' = IF op[r] = "promote" THEN promoted \cup {tgt[r]}
                          ELSE promoted
           /\ dead' = {i \in dead : store'[i].stage = "probing"}
<1>1. tgt[r] \in Ids /\ snap[r] = LoadResources
  BY DEF IndInv, Replace, Rename, ThreadInv, LockInv, Holds
<1>2. acked' = [acked EXCEPT ![tgt[r]] = CASE op[r] = "create" -> "task"
                                          [] op[r] = "intake" -> "listed"
                                          [] OTHER -> acked[tgt[r]]]
  BY <1>1 DEF Replace, IndInv, TypeOK
<1>3. /\ lock' = NoReq
      /\ promoted' = IF op[r] = "promote" THEN promoted \cup {tgt[r]}
                     ELSE promoted
      /\ dead' = {i \in dead : store'[i].stage = "probing"}
  BY DEF Replace, Rename
<1>4. CASE op[r] = "mark"
  BY <1>1, <1>2, <1>3, <1>4 DEF Replace, IndInv, TypeOK
<1>5. CASE op[r] # "mark"
  <2>1. Finish(r)
    BY <1>5 DEF Replace
  <2>2. /\ \A q \in Reqs \ {r} :
              /\ op'[q] = op[q] /\ pc'[q] = pc[q] /\ tgt'[q] = tgt[q]
              /\ buf'[q] = buf[q] /\ snap'[q] = snap[q]
        /\ op'[r] = "none" /\ pc'[r] = "idle"
    BY <2>1 DEF Finish, IndInv, TypeOK
  <2> QED
    BY <1>2, <1>3, <1>5, <2>2
<1> QED
  BY <1>4, <1>5

(* The rename keeps the invariant.                                         *)
LEMMA ReplaceInv ==
    ASSUME IndInv, NEW r \in Reqs, Replace(r)
    PROVE  IndInv'
<1> DEFINE new == Mutate(op[r], buf[r], LoadResources[tgt[r]])
<1> USE DEF IndInv
<1>1. /\ tgt[r] \in Ids /\ lock = r
      /\ Appends(r) <=> store[tgt[r]] = NoRec
      /\ new \in Record
      /\ store' = [LoadResources EXCEPT ![tgt[r]] = new]
      /\ acked[tgt[r]] = "listed" => EligibleForPlaylist(new)
      /\ op[r] \in {"intake", "promote"} => EligibleForPlaylist(new)
      /\ new.status # "none" =>
             op[r] \in {"intake", "promote"} \/ MayBeListed(tgt[r])
      /\ op[r] = "settle" \/ Appends(r) => new.stage # "probing"
  BY ReplaceEffect
<1>2. op[r] = "create" => new.status = "none"
  BY DEF Mutate, BufInv
<1>3. op[r] = "mark" => new = Mutate("mark", buf[r], LoadResources[tgt[r]])
  OBVIOUS
<1> HIDE DEF new
<1>4. store'[tgt[r]] = new
  BY <1>1, LoadResourcesType DEF File
<1>5. \A i \in Ids \ {tgt[r]} :
        /\ store'[i] = LoadResources[i]
        /\ store'[i] = NoRec <=> store[i] = NoRec
        /\ store[i] # NoRec =>
             /\ store'[i].status = store[i].status
             /\ store'[i].stream = store[i].stream
             /\ store'[i].stage = "probing" <=> store[i].stage = "probing"
  BY <1>1, LoadResourcesType DEF File
<1>6. new # NoRec
  BY <1>1, WorkbenchAssumption
<1>7. /\ \A i \in Ids : MayBeListed(i) => MayBeListed(i)'
      /\ \A i \in Ids : i = tgt[r] /\ op[r] \in {"intake", "promote"}
                             => MayBeListed(i)'
      /\ \A i \in Ids : acked'[i] = "listed" =>
             acked[i] = "listed" \/ (op[r] = "intake" /\ i = tgt[r])
  <2>1. op[r] \in {"create", "intake"} => acked[tgt[r]] = "no"
    BY <1>1 DEF Appends, AckedSurvive, TypeOK
  <2>2. \A i \in promoted : i \in promoted'
    BY ReplaceThread
  <2>3. op[r] = "promote" => tgt[r] \in promoted'
    BY ReplaceThread
  <2>4. op[r] = "intake" => acked'[tgt[r]] = "listed"
    BY <1>1, ReplaceThread DEF TypeOK
  <2>5. \A i \in Ids \ {tgt[r]} : acked'[i] = acked[i]
    BY <1>1, ReplaceThread DEF TypeOK
  <2>6. op[r] \notin {"create", "intake"} => acked' = acked
    BY DEF Replace
  <2>7. op[r] = "create" => acked'[tgt[r]] = "task"
    BY <1>1, ReplaceThread DEF TypeOK
  <2>8. \A i \in Ids : acked[i] = "listed" => acked'[i] = "listed"
    BY <2>1, <2>5, <2>6
  <2> QED
    BY <1>1, <2>2, <2>3, <2>4, <2>5, <2>6, <2>7, <2>8 DEF MayBeListed
<1>8. TypeOK'
  <2>1. store' \in File
    BY <1>1, LoadResourcesType DEF File
  <2>2. /\ op' \in [Reqs -> Ops] /\ pc' \in [Reqs -> Pcs]
        /\ tgt' \in [Reqs -> Ids \cup {NoId}]
    BY DEF Replace, Finish, TypeOK, Ops, Pcs
  <2>3. buf' \in [Reqs -> Record] /\ snap' \in [Reqs -> File]
    <3>1. CASE op[r] = "mark"
      <4>1. /\ buf' = [buf EXCEPT ![r] = new]
            /\ snap' = [snap EXCEPT ![r] = NoFile]
        BY <3>1 DEF Replace, Rename, new, LockInv, Holds
      <4> QED
        BY <1>1, <4>1 DEF TypeOK, File, NoFile
    <3>2. CASE op[r] # "mark"
      <4>1. /\ buf' = [buf EXCEPT ![r] = NewRecord]
            /\ snap' = [snap EXCEPT ![r] = NoFile]
        BY <3>2 DEF Replace, Finish
      <4> QED
        BY <4>1, NewRecordType DEF TypeOK, File, NoFile
    <3> QED
      BY <3>1, <3>2
  <2>4. tmp' \in File /\ lock' \in Reqs \cup {NoReq}
    BY DEF Replace, Rename, File, NoFile
  <2>5. /\ acked' \in [Ids -> {"no", "task", "listed"}]
        /\ promoted' \subseteq Ids /\ dead' \subseteq Ids
        /\ served' \in 0..MaxRequests
    BY <1>1 DEF Replace, TypeOK
  <2> QED
    BY <2>1, <2>2, <2>3, <2>4, <2>5 DEF TypeOK
<1>9. ThreadInv'
  BY <1>1, ReplaceThread DEF ThreadInv
<1>10. LockInv'
  BY <1>1, ReplaceThread, WorkbenchAssumption DEF LockInv, Holds
<1>11. FreshInv'
  <2> SUFFICES ASSUME NEW q \in Reqs, Appends(q)'
               PROVE  /\ store'[tgt'[q]] = NoRec
                      /\ \A p \in Reqs \ {q} : Appends(p)' => tgt'[p] # tgt'[q]
    BY DEF FreshInv
  <2>1. q # r /\ Appends(q) /\ tgt'[q] = tgt[q] /\ tgt[q] \in Ids
    BY ReplaceThread DEF Appends, ThreadInv
  <2>2. tgt[q] # tgt[r] /\ store[tgt[q]] = NoRec
    BY <1>1, <2>1 DEF FreshInv
  <2>3. store'[tgt[q]] = NoRec
    BY <1>5, <2>1, <2>2
  <2> QED
    BY <2>1, <2>3, ReplaceThread DEF FreshInv, Appends
<1>12. BufInv'
  <2> SUFFICES ASSUME NEW q \in Reqs PROVE BufInv!(q)'
    BY DEF BufInv
  <2>1. CASE q = r /\ op[r] = "mark"
    <3>1. buf'[r] = new /\ tgt'[r] = tgt[r] /\ op'[r] = "mark"
      BY <1>3, <2>1, ReplaceThread
    <3>2. acked'[tgt[r]] = "listed" => EligibleForPlaylist(new)
      BY <1>1, <1>7, <2>1
    <3> QED
      BY <1>1, <1>4, <1>6, <1>7, <2>1, <3>1, <3>2 DEF BufInv, MayBeListed
  <2>2. CASE q = r /\ op[r] # "mark"
    BY <2>2, ReplaceThread DEF BufInv, InProbe
  <2>3. CASE q # r
    <3>1. /\ op'[q] = op[q] /\ pc'[q] = pc[q] /\ tgt'[q] = tgt[q]
          /\ buf'[q] = buf[q]
      BY <2>3, ReplaceThread
    <3>2. ASSUME InProbe(q)
          PROVE  /\ tgt[q] \in Ids
                 /\ store'[tgt[q]] # NoRec
                 /\ acked'[tgt[q]] = "listed" => EligibleForPlaylist(buf[q])
                 /\ buf[q].status # "none" =>
                       acked'[tgt[q]] = "listed" \/ tgt[q] \in promoted'
      <4>1. tgt[q] \in Ids /\ store[tgt[q]] # NoRec
        BY <3>2 DEF InProbe, ThreadInv, BufInv
      <4>2. acked'[tgt[q]] = "listed" => acked[tgt[q]] = "listed"
        BY <1>1, <1>7, <4>1 DEF Appends
      <4> QED
        BY <1>4, <1>5, <1>6, <1>7, <3>2, <4>1, <4>2 DEF BufInv, MayBeListed
    <3> QED
      BY <3>1, <3>2 DEF BufInv, InProbe, MayBeListed
  <2> QED
    BY <2>1, <2>2, <2>3
<1>13. StatusInv'
  <2> SUFFICES ASSUME NEW i \in Ids, store'[i] # NoRec
               PROVE  /\ acked'[i] = "listed" => EligibleForPlaylist(store'[i])
                      /\ store'[i].status # "none" => MayBeListed(i)'
    BY DEF StatusInv
  <2>1. CASE i = tgt[r]
    BY <1>1, <1>4, <1>7, <2>1 DEF MayBeListed
  <2>2. CASE i # tgt[r]
    <3>1. acked'[i] = "listed" => acked[i] = "listed" /\ store[i] # NoRec
      BY <1>5, <1>7, <2>2
    <3>2. /\ acked[i] = "listed" => EligibleForPlaylist(store[i])
          /\ store[i].status # "none" => MayBeListed(i)
      BY <1>5, <2>2 DEF StatusInv
    <3> QED
      BY <1>5, <1>7, <2>2, <3>1, <3>2 DEF EligibleForPlaylist
  <2> QED
    BY <2>1, <2>2
<1>14. AckedSurvive'
  <2>1. \A i \in Ids \ {tgt[r]} : acked'[i] = acked[i]
    BY <1>1, ReplaceThread DEF TypeOK
  <2> QED
    BY <1>4, <1>5, <1>6, <2>1 DEF AckedSurvive
<1>15. ProbingAccounted'
  <2> SUFFICES ASSUME NEW i \in Ids, store'[i] # NoRec,
                      store'[i].stage = "probing"
               PROVE  i \in dead' \/ \E q \in Reqs : InProbe(q)' /\ tgt'[q] = i
    BY DEF ProbingAccounted
  <2>1. CASE i = tgt[r] /\ op[r] = "mark"
    BY <2>1, ReplaceThread DEF InProbe
  <2>2. CASE i = tgt[r] /\ op[r] # "mark"
    <3>1. op[r] \in {"enrich", "promote"} /\ store[i] # NoRec
      BY <1>1, <1>4, <2>2 DEF TypeOK, Ops, Appends, Replace, Rename, ThreadInv
    <3>2. store[i].stage = "probing"
      <4>1. LoadResources[i] \in Record
        BY <3>1, LoadResourcesType
      <4>2. op[r] = "promote" => new.stage = "external_ready"
        BY <2>2, <4>1 DEF new, Mutate, Record
      <4>3. op[r] = "enrich" => new.stage = LoadResources[i].stage
        BY <2>2, <4>1 DEF new, Mutate, Record
      <4> QED
        BY <1>4, <2>2, <3>1, <4>2, <4>3, LoadResourcesType
    <3>3. i \in dead \/ \E q \in Reqs \ {r} : InProbe(q) /\ tgt[q] = i
      BY <3>1, <3>2 DEF ProbingAccounted, InProbe, ThreadInv
    <3> QED
      BY <3>3, ReplaceThread DEF InProbe
  <2>3. CASE i # tgt[r]
    <3>1. i \in dead \/ \E q \in Reqs \ {r} : InProbe(q) /\ tgt[q] = i
      BY <1>5, <2>3 DEF ProbingAccounted
    <3> QED
      BY <3>1, ReplaceThread DEF InProbe
  <2> QED
    BY <2>1, <2>2, <2>3
<1> QED
  BY <1>8, <1>9, <1>10, <1>11, <1>12, <1>13, <1>14, <1>15

(* Every step, and every stuttering step, keeps the invariant.             *)
LEMMA NextInv == IndInv /\ [Next]_vars => IndInv'
<1> SUFFICES ASSUME IndInv, [Next]_vars PROVE IndInv'
  OBVIOUS
<1>1. CASE \E r \in Reqs :
             \/ CreateTask(r) \/ Intake(r) \/ Probe(r) \/ Enrich(r) \/ Promote(r)
  BY <1>1, HandlerInv
<1>2. CASE \E r \in Reqs : Step(r)
  BY <1>2, LockAndLoadInv, WriteTmpInv, UpdateMissingInv, ReplaceInv,
     ProbeRecordInv, ProbeRaisesInv DEF Step
<1>3. CASE Crash
  BY <1>3, CrashInv
<1>4. CASE UNCHANGED vars
  BY <1>4, SameStore
     DEF vars, file, thread, hist, IndInv, TypeOK, ThreadInv, LockInv, FreshInv,
         BufInv, StatusInv, AckedSurvive, ProbingAccounted, Holds, Appends,
         InProbe, MayBeListed
<1> QED
  BY <1>1, <1>2, <1>3, <1>4 DEF Next, Quiescent

(* The inductive invariant holds in every state of every behaviour of the  *)
(* workbench: one writer at a time, and stale copies that agree with what  *)
(* was admitted.                                                           *)
THEOREM Invariance == Spec => []IndInv
BY InitInv, NextInv, PTL DEF Spec

(* Type correctness of the workbench.                                      *)
THEOREM TypeCorrect == Spec => []TypeOK
<1>1. IndInv => TypeOK
  BY DEF IndInv
<1> QED
  BY <1>1, Invariance, PTL

(* No answered creation is ever lost, whatever requests run concurrently   *)
(* and wherever the process is killed.                                     *)
THEOREM Durability == Spec => []AckedSurvive
<1>1. IndInv => AckedSurvive
  BY DEF IndInv
<1> QED
  BY <1>1, Invariance, PTL

(* A resource listed at its creation stays in default.m3u8.                *)
THEOREM Listing == Spec => []ListedStays
<1>1. IndInv => ListedStays
  <2> SUFFICES ASSUME IndInv, NEW i \in Ids, acked[i] = "listed"
               PROVE  i \in DefaultPlaylist
    BY DEF ListedStays
  <2>1. store[i] # NoRec /\ EligibleForPlaylist(store[i])
    BY DEF IndInv, AckedSurvive, StatusInv
  <2> QED
    BY <2>1, LoadResourcesType
       DEF IndInv, DefaultPlaylist, EligibleForPlaylist
<1> QED
  BY <1>1, Invariance, PTL

(* default.m3u8 holds nothing that was not admitted.                       *)
THEOREM Admission == Spec => []AdmittedOnly
<1>1. IndInv => AdmittedOnly
  <2> SUFFICES ASSUME IndInv, NEW i \in DefaultPlaylist
               PROVE  acked[i] = "listed" \/ i \in promoted
    BY DEF AdmittedOnly
  <2>1. i \in Ids /\ LoadResources[i] # NoRec
        /\ LoadResources[i].status \in Statuses
    BY DEF DefaultPlaylist, EligibleForPlaylist
  <2>2. store[i] # NoRec /\ store[i].status # "none"
    BY <2>1, LoadResourcesType DEF IndInv, Statuses
  <2> QED
    BY <2>1, <2>2 DEF IndInv, StatusInv, MayBeListed
<1> QED
  BY <1>1, Invariance, PTL

(* A task is shown as probing only while a probe of it runs, or after one  *)
(* has died.                                                               *)
THEOREM ProbingHasProbe == Spec => []ProbingAccounted
<1>1. IndInv => ProbingAccounted
  BY DEF IndInv
<1> QED
  BY <1>1, Invariance, PTL

(* A loaded record loads as itself: the cap and the migration are          *)
(* idempotent, so what a rename keeps of the other records is what every   *)
(* later load returns.                                                     *)
LEMMA LoadIdempotent ==
    ASSUME NEW rec \in Record
    PROVE  LoadRecord(LoadRecord(rec)) = LoadRecord(rec)
<1>1. MigrateLegacy(rec) \in Record /\ MigrateLegacy(rec).stage # "legacy"
      /\ MigrateLegacy(rec).log = rec.log
  <2>1. rec.stream # NoUrl => InferSourceKind(rec.stream) \in Kinds
    BY InferSourceKindType DEF Record
  <2> QED
    BY <2>1 DEF MigrateLegacy, Record, Kinds, Stages
<1>2. CapLog(rec.log) \in Nat /\ CapLog(CapLog(rec.log)) = CapLog(rec.log)
  BY WorkbenchAssumption DEF CapLog, Record
<1>3. /\ LoadRecord(rec) \in Record
      /\ LoadRecord(rec).stage # "legacy"
      /\ LoadRecord(rec).log = CapLog(rec.log)
  BY <1>1, <1>2 DEF LoadRecord, Record
<1>4. MigrateLegacy(LoadRecord(rec)) = LoadRecord(rec)
  BY <1>3 DEF MigrateLegacy
<1>5. [LoadRecord(rec) EXCEPT !.log = CapLog(LoadRecord(rec).log)]
        = LoadRecord(rec)
  BY <1>2, <1>3 DEF Record
<1> HIDE DEF LoadRecord
<1> QED
  BY <1>4, <1>5 DEF LoadRecord

(* The workbench implements the table of records: behind the lock, the     *)
(* temporary file and the crashes, one record at a time is appended or     *)
(* updated, on the basis of the current records.                           *)
THEOREM Refinement == Spec => ImplementsTable
<1>1. Init => Table!Init
  BY InitInv, LoadResourcesType DEF Table!Init, IndInv, File
<1>2. ASSUME IndInv, NEW r \in Reqs, Replace(r)
      PROVE  Table!Next
  <2> DEFINE i == tgt[r]
             new == Mutate(op[r], buf[r], LoadResources[tgt[r]])
  <2>1. /\ i \in Ids /\ new \in Record
        /\ store' = [LoadResources EXCEPT ![i] = new]
    BY <1>2, ReplaceEffect
  <2>2. LoadResources \in File
    BY <1>2, LoadResourcesType DEF IndInv
  <2> HIDE DEF new, i
  <2>3. \A j \in Ids \ {i} : LoadResources'[j] = LoadResources[j]
    <3> SUFFICES ASSUME NEW j \in Ids \ {i}
                 PROVE  LoadResources'[j] = LoadResources[j]
      OBVIOUS
    <3>1. store'[j] = LoadResources[j]
      BY <2>1, <2>2 DEF File
    <3>2. LoadResources'[j] =
             IF store'[j] = NoRec THEN NoRec ELSE LoadRecord(store'[j])
      BY DEF LoadResources
    <3>3. CASE store[j] = NoRec
      BY <3>1, <3>2, <3>3 DEF LoadResources
    <3>4. CASE store[j] # NoRec
      <4>1. store[j] \in Record /\ LoadResources[j] = LoadRecord(store[j])
        BY <1>2, <3>4 DEF IndInv, TypeOK, File, LoadResources
      <4> QED
        BY <3>1, <3>2, <4>1, LoadIdempotent
    <3> QED
      BY <3>3, <3>4
  <2>4. LoadResources'[i] \in Record
    <3>1. store'[i] = new /\ new # NoRec
      BY <2>1, <2>2, WorkbenchAssumption DEF File
    <3> QED
      BY <2>1, <3>1, LoadRecordType DEF LoadResources
  <2>5. LoadResources' = [LoadResources EXCEPT ![i] = LoadResources'[i]]
    <3>1. LoadResources' = [j \in Ids |-> LoadResources'[j]]
      BY DEF LoadResources
    <3> QED
      BY <2>1, <2>2, <2>3, <3>1 DEF File
  <2> QED
    BY <2>1, <2>4, <2>5 DEF Table!Next, Table!Append, Table!Update
<1>3. ASSUME IndInv, [Next]_vars
      PROVE  [Table!Next]_LoadResources
  <2>1. CASE \E r \in Reqs : Replace(r)
    BY <1>2, <1>3, <2>1
  <2>2. CASE ~\E r \in Reqs : Replace(r)
    <3>1. ASSUME NEW r \in Reqs,
                 \/ CreateTask(r) \/ Intake(r) \/ Probe(r)
                 \/ Enrich(r) \/ Promote(r)
          PROVE  store' = store
      <4>1. \A o, i, rec : Begin(r, o, i, rec) => store' = store
        BY DEF Begin, file
      <4> QED
        BY <3>1, <4>1, Zenon DEF CreateTask, Intake, Probe, Enrich, Promote
    <3>2. ASSUME NEW r \in Reqs, Step(r)
          PROVE  store' = store
      <4>1. CASE LockAndLoad(r)
        BY <4>1 DEF LockAndLoad
      <4>2. CASE WriteTmp(r)
        BY <4>2 DEF WriteTmp
      <4>3. CASE UpdateMissing(r)
        BY <4>3 DEF UpdateMissing
      <4>4. CASE ProbeRecord(r)
        BY <4>4 DEF ProbeRecord, file
      <4>5. CASE ProbeRaises(r)
        BY <4>5 DEF ProbeRaises, file
      <4> QED
        BY <2>2, <3>2, <4>1, <4>2, <4>3, <4>4, <4>5 DEF Step
    <3>3. Crash \/ Quiescent \/ UNCHANGED vars => store' = store
      BY DEF Crash, Quiescent, vars, file
    <3>4. store' = store
      BY <1>3, <3>1, <3>2, <3>3, Zenon DEF Next
    <3> QED
      BY <3>4, SameStore
  <2> QED
    BY <2>1, <2>2
<1> QED
  BY <1>1, <1>3, Invariance, PTL DEF Spec, ImplementsTable, Table!Spec

(* A write of enrich_task leaves the stage, the status and the stream url  *)
(* of every record as the file had them.                                   *)
THEOREM EnrichIsHarmless == Spec => EnrichKeepsAdmission
<1>1. ASSUME IndInv, NEW r \in Reqs, op[r] = "enrich", Replace(r),
             NEW i \in Ids, LoadResources[i] # NoRec
      PROVE  /\ store'[i].stage = LoadResources[i].stage
             /\ store'[i].status = LoadResources[i].status
             /\ store'[i].stream = LoadResources[i].stream
  BY <1>1, ReplaceEffect, LoadResourcesType DEF IndInv, File
<1>2. IndInv => \A r \in Reqs : op[r] = "enrich" /\ Replace(r) =>
          \A i \in Ids : LoadResources[i] # NoRec =>
              /\ store'[i].stage = LoadResources[i].stage
              /\ store'[i].status = LoadResources[i].status
              /\ store'[i].stream = LoadResources[i].stream
  BY <1>1
<1> QED
  BY <1>2, Invariance, PTL DEF EnrichKeepsAdmission
=============================================================================
