--------------------------- MODULE SessionProofs ---------------------------
(***************************************************************************)
(* Proofs about librqbit's sessions, for any torrents, pieces, files and   *)
(* callers and any number of calls, faults and restarts.                   *)
(***************************************************************************)
EXTENDS Session, FiniteSetTheorems, SequenceTheorems, WellFoundedInduction, TLAPS

-----------------------------------------------------------------------------
(* Numbers *)

LEMMA LeastExists ==
  ASSUME NEW S \in SUBSET Nat, S # {}
  PROVE  \E m \in S : \A n \in S : m <= n
  <1> DEFINE R == OpToRel(<, Nat)
  <1>1. IsWellFoundedOn(R, Nat)
    BY NatLessThanWellFounded
  <1>2. PICK m \in S : \A n \in S : <<n, m>> \notin R
    <2> HIDE DEF R
    <2> QED BY <1>1, WFMin
  <1>3. \A n \in S : ~(n < m)
    BY <1>2 DEF OpToRel
  <1> QED BY <1>3

(* A finite set of naturals has a largest member.  It is the least of its  *)
(* bounds, and it has one: the sum of a numbering would be, here the least *)
(* bound of ever longer parts of it.                                       *)
LEMMA Bounded ==
  ASSUME NEW n \in Nat, NEW f \in [1..n -> Nat]
  PROVE  \E b \in Nat : \A i \in 1..n : f[i] <= b
  <1> DEFINE Has(k) == \E b \in Nat : \A i \in 1..k : f[i] <= b
             T == {k \in 0..n : ~Has(k)}
  <1>1. CASE T = {}
    <2>1. n \in 0..n /\ n \notin T
      <3> HIDE DEF T
      <3> QED BY <1>1
    <2>2. Has(n)
      <3> HIDE DEF Has
      <3> QED BY <2>1
    <2> QED BY <2>2
  <1>2. CASE T # {}
    <2>1. T \in SUBSET Nat
      OBVIOUS
    <2>2. PICK k \in T : \A j \in T : k <= j
      <3> HIDE DEF T
      <3> QED BY <1>2, <2>1, LeastExists
    <2>3. k # 0
      <3>1. \A i \in 1..0 : f[i] <= 0
        OBVIOUS
      <3>2. Has(0)
        BY <3>1
      <3> HIDE DEF Has
      <3> QED BY <3>2
    <2>4. k - 1 \in 0..n /\ k - 1 \notin T
      <3>1. k \in 0..n
        OBVIOUS
      <3> HIDE DEF T
      <3> QED BY <2>2, <2>3, <3>1
    <2>5. Has(k - 1)
      <3> HIDE DEF Has
      <3> QED BY <2>4
    <2>5a. PICK b \in Nat : \A i \in 1..(k-1) : f[i] <= b
      BY <2>5
    <2>6. f[k] \in Nat
      BY <2>2, <2>3
    <2>7. \A i \in 1..k : i = k \/ i \in 1..(k-1)
      BY <2>2, <2>3
    <2>8. \A i \in 1..k : f[i] <= b + f[k]
      BY <2>2, <2>5a, <2>6, <2>7
    <2>9. b + f[k] \in Nat
      BY <2>6
    <2> QED BY <2>2, <2>8, <2>9
  <1> QED BY <1>1, <1>2

LEMMA LargestExists ==
  ASSUME NEW S \in SUBSET Nat, IsFiniteSet(S), S # {}
  PROVE  \E m \in S : \A n \in S : n <= m
  <1>1. PICK n \in Nat : ExistsSurjection(1..n, S)
    BY FS_NatSurjection
  <1>2. PICK f \in [1..n -> S] : \A s \in S : \E i \in 1..n : f[i] = s
    BY <1>1 DEF ExistsSurjection, Surjection
  <1>3. PICK b \in Nat : \A i \in 1..n : f[i] <= b
    <2>1. f \in [1..n -> Nat]
      OBVIOUS
    <2> QED BY <2>1, Bounded
  <1> DEFINE B == {c \in Nat : \A s \in S : s <= c}
  <1>4. b \in B
    BY <1>2, <1>3
  <1>5. PICK m \in B : \A c \in B : m <= c
    <2>1. B \in SUBSET Nat /\ B # {}
      BY <1>4
    <2> HIDE DEF B
    <2> QED BY <2>1, LeastExists
  <1>6. m \in S
    <2> SUFFICES ASSUME m \notin S PROVE FALSE
      OBVIOUS
    <2>1. PICK s \in S : TRUE
      OBVIOUS
    <2>2. m # 0
      BY <1>5, <2>1
    <2>3. m - 1 \in B
      BY <1>5, <2>2
    <2> QED BY <1>5, <2>3
  <1> QED BY <1>5, <1>6

-----------------------------------------------------------------------------
(* Frames *)

Others(c) == \A d \in Callers \ {c} : call'[d] = call[d]

(* No handle goes away or changes its hash or id.                          *)
HandlesKept ==
    /\ tor' \in Seq(Torrents) /\ DOMAIN tor \subseteq DOMAIN tor'
    /\ \A h \in DOMAIN tor : tor'[h].hash = tor[h].hash /\ tor'[h].id = tor[h].id

LEMMA HandleType ==
  ASSUME TypeOK, NEW h \in DOMAIN tor
  PROVE  tor[h] \in Torrents /\ h \in Nat
  BY DEF TypeOK

LEMMA SameHandles ==
  ASSUME TypeOK, UNCHANGED tor
  PROVE  HandlesKept
  BY DEF TypeOK, HandlesKept

LEMMA OneHandle ==
  ASSUME TypeOK, NEW h \in DOMAIN tor, NEW t \in Torrents,
         t.hash = tor[h].hash, t.id = tor[h].id, tor' = [tor EXCEPT ![h] = t]
  PROVE  /\ HandlesKept /\ DOMAIN tor' = DOMAIN tor /\ tor'[h] = t
         /\ \A k \in DOMAIN tor \ {h} : tor'[k] = tor[k]
  BY DEF TypeOK, HandlesKept

LEMMA NewHandle ==
  ASSUME TypeOK, NEW t \in Torrents, tor' = Append(tor, t)
  PROVE  /\ HandlesKept /\ Len(tor) + 1 \notin DOMAIN tor
         /\ DOMAIN tor' = DOMAIN tor \cup {Len(tor) + 1} /\ tor'[Len(tor) + 1] = t
         /\ \A k \in DOMAIN tor : tor'[k] = tor[k]
  <1>1. tor \in Seq(Torrents)
    BY DEF TypeOK
  <1>2. /\ tor' \in Seq(Torrents) /\ Len(tor') = Len(tor) + 1 /\ tor'[Len(tor) + 1] = t
        /\ \A k \in 1..Len(tor) : tor'[k] = tor[k]
    BY <1>1, AppendProperties
  <1>3. Len(tor) \in Nat /\ DOMAIN tor = 1..Len(tor) /\ DOMAIN tor' = 1..Len(tor')
    BY <1>1, <1>2, LenProperties
  <1> QED BY <1>2, <1>3 DEF HandlesKept

LEMMA IdleCall == Idle \in Requests /\ Idle.pc = "idle" /\ Idle.op = "idle"
  BY DEF Idle, Requests

(* Calls and tasks stay with their handles.                                *)
LEMMA LinksKept ==
  ASSUME IndInv, HandlesKept, NEW c \in Callers, Others(c), CallLinked(call[c])',
         UNCHANGED <<up, restore>>,
         call[c].pc # "idle" \/ (up /\ restore = {}) \/ call'[c] = call[c],
         \A i \in inits' : \/ i.h \in DOMAIN tor' /\ i.hash = tor'[i.h].hash
                           \/ \E j \in inits : i.h = j.h /\ i.hash = j.hash
  PROVE  TasksLinked' /\ CallsLinked'
  <1>1. TasksLinked'
    BY DEF IndInv, TasksLinked, HandlesKept
  <1>2. ASSUME NEW d \in Callers \ {c} PROVE CallLinked(call[d])'
    <2>1. call'[d] = call[d] /\ CallLinked(call[d])
      BY DEF Others, IndInv, CallsLinked
    <2> QED BY <2>1 DEF CallLinked, HandlesKept
  <1>3. ~up' \/ restore' # {} => \A d \in Callers : call'[d] = Idle
    BY IdleCall DEF IndInv, CallsLinked, Others
  <1> QED BY <1>1, <1>2, <1>3 DEF CallsLinked

(* Steps that claim no more of the files than was claimed.                 *)
LEMMA ClaimsKept ==
  ASSUME IndInv, HandlesKept, UNCHANGED <<persist, disk>>, swept \subseteq swept',
         DOMAIN bitv' \subseteq DOMAIN bitv,
         \A hash \in DOMAIN bitv' : bitv'[hash] = bitv[hash],
         db' \cap DOMAIN tor \subseteq db,
         \A h \in db' : \/ tor'[h].st \notin {"paused", "live"}
                        \/ /\ h \in db /\ tor[h].st \in {"paused", "live"}
                           /\ tor'[h].have = tor[h].have,
         \A i \in inits' : \/ i.pc # "commit"
                           \/ \E j \in inits : /\ j.pc = "commit" /\ i.h = j.h
                                               /\ i.hash = j.hash /\ i.have = j.have
  PROVE  BitvSound' /\ ChecksSound' /\ HadOnDisk'
  <1> USE DEF IndInv
  <1>1. BitvSound'
    BY DEF BitvSound
  <1>2. ChecksSound'
    <2> SUFFICES ASSUME NEW i \in inits', i.pc = "commit", i.h \in db', i.hash \notin swept'
                 PROVE  i.have \subseteq disk[i.hash].good
      BY DEF ChecksSound
    <2>1. PICK j \in inits : j.pc = "commit" /\ i.h = j.h /\ i.hash = j.hash /\ i.have = j.have
      OBVIOUS
    <2>2. j.h \in db
      BY <2>1 DEF TasksLinked
    <2> QED BY <2>1, <2>2 DEF ChecksSound
  <1>3. HadOnDisk'
    <2> SUFFICES ASSUME NEW h \in db', tor'[h].st \in {"paused", "live"}, tor'[h].hash \notin swept'
                 PROVE  tor'[h].have \subseteq disk[tor'[h].hash].good
      BY DEF HadOnDisk
    <2>1. h \in db /\ tor[h].st \in {"paused", "live"} /\ tor'[h].have = tor[h].have
      OBVIOUS
    <2>2. tor'[h].hash = tor[h].hash
      BY <2>1 DEF TypeOK, HandlesKept
    <2> QED BY <2>1, <2>2 DEF HadOnDisk
  <1> QED BY <1>1, <1>2, <1>3

(* Steps of a call that leave the entries alone: a torrent whose flag      *)
(* changes is written again or marked, and one that leaves the session is  *)
(* forgotten or marked.                                                    *)
LEMMA EntriesKept ==
  ASSUME IndInv, HandlesKept, UNCHANGED <<persist, up, mem, json, restore>>, stale \subseteq stale',
         NEW c \in Callers, Others(c), db' \subseteq db,
         persist /\ call[c].pc = "flush" => call[c].id \in stale',
         persist /\ call[c].pc \in {"read", "insert"} =>
             call'[c].pc \in {"read", "insert"} /\ call'[c].h = call[c].h,
         call[c].pc # "forget",
         persist => \A h \in db' : \/ tor'[h].paused = tor[h].paused
                                   \/ tor[h].id \in stale'
                                   \/ call'[c].pc = "read" /\ call'[c].h = h,
         persist => \A h \in db \ db' : \/ tor[h].id \in stale'
                                        \/ call'[c].pc = "forget" /\ call'[c].id = tor[h].id
  PROVE  IdsDiffer' /\ EntriesSound'
  <1> USE DEF IndInv
  <1>1. \A h \in db : tor'[h].id = tor[h].id /\ tor'[h].hash = tor[h].hash
    BY DEF TypeOK, HandlesKept
  <1>2. IdsDiffer'
    BY <1>1 DEF IdsDiffer
  <1>3. ASSUME up, persist PROVE FlushedOrPending'
    <2> SUFFICES ASSUME NEW n \in DOMAIN mem \cup DOMAIN json, ~SameEntry(n), n \notin stale'
                 PROVE  \E d \in Callers : call'[d].pc = "flush" /\ call'[d].id = n
      BY DEF FlushedOrPending, SameEntry
    <2>1. PICK d \in Callers : call[d].pc = "flush" /\ call[d].id = n
      BY <1>3 DEF EntriesSound, FlushedOrPending
    <2> QED BY <1>3, <2>1 DEF Others
  <1>4. ASSUME up, persist, NEW h \in db' PROVE HasEntry(h)'
    <2>1. HasEntry(h)
      BY <1>4 DEF EntriesSound
    <2>2. CASE tor[h].id \in stale
      BY <1>1, <2>2 DEF HasEntry
    <2>3. CASE tor[h].id \in DOMAIN mem /\ mem[tor[h].id] = SerializedTorrent(tor[h].hash, tor[h].paused)
      BY <1>1, <1>4, <2>3 DEF HasEntry
    <2>4. CASE \E d \in Callers : call[d].pc \in {"read", "insert"} /\ call[d].h = h
      BY <1>4, <2>4 DEF HasEntry, Others
    <2> QED BY <2>1, <2>2, <2>3, <2>4 DEF HasEntry
  <1>5. ASSUME up, persist, NEW n \in DOMAIN mem PROVE HasTorrent(n)'
    <2>1. HasTorrent(n)
      BY <1>5 DEF EntriesSound
    <2>2. CASE n \in stale \cup restore
      BY <2>2 DEF HasTorrent
    <2>3. CASE \E h \in db : tor[h].id = n
      BY <1>1, <1>5, <2>3 DEF HasTorrent
    <2>4. CASE \E d \in Callers : call[d].pc = "forget" /\ call[d].id = n
      BY <2>4 DEF HasTorrent, Others
    <2> QED BY <2>1, <2>2, <2>3, <2>4 DEF HasTorrent
  <1> QED BY <1>2, <1>3, <1>4, <1>5 DEF EntriesSound

-----------------------------------------------------------------------------
(* Calls that write the database *)

LEMMA OneCall ==
  ASSUME TypeOK, NEW c \in Callers, NEW k \in Requests, call' = [call EXCEPT ![c] = k]
  PROVE  call' \in [Callers -> Requests] /\ Others(c) /\ call'[c] = k
  BY DEF TypeOK, Others

LEMMA UpdateDbReadsInv ==
  ASSUME IndInv, NEW c \in Callers, UpdateDbReads(c)
  PROVE  IndInv'
  <1> USE DEF IndInv
  <1> DEFINE k == call[c]
             l == [k EXCEPT !.pc = "insert", !.paused = tor[k.h].paused]
  <1>1. /\ k.pc = "read"
        /\ tfile' = IF k.op = "add" THEN tfile \cup {k.hash} ELSE tfile
        /\ UNCHANGED <<persist, up, tor, db, nextId, mem, json, bitv, disk, inits, restore,
                       stale, swept, left>>
    BY DEF UpdateDbReads
  <1>2. k \in Requests /\ CallLinked(k)
    BY DEF TypeOK, CallsLinked
  <1>3. k.h \in DOMAIN tor /\ k.id = tor[k.h].id /\ k.hash = tor[k.h].hash /\ tor[k.h] \in Torrents
    BY <1>1, <1>2, HandleType DEF CallLinked
  <1>4. k.hash \in Hashes /\ l \in Requests
    BY <1>2, <1>3 DEF Torrents, Requests
  <1>5. call' = [call EXCEPT ![c] = l]
    BY DEF UpdateDbReads, TypeOK
  <1>6. call' \in [Callers -> Requests] /\ Others(c) /\ call'[c] = l
    BY <1>4, <1>5, OneCall
  <1>7. /\ l.pc = "insert" /\ l.h = k.h /\ l.id = k.id /\ l.hash = k.hash /\ l.op = k.op
    BY <1>2 DEF Requests
  <1> HIDE DEF l
  <1>8. TypeOK' /\ DownIsEmpty'
    BY <1>1, <1>4, <1>6 DEF TypeOK, DownIsEmpty
  <1>9. HandlesKept
    BY <1>1, SameHandles
  <1>10. TasksLinked' /\ CallsLinked'
    <2>1. CallLinked(call[c])'
      BY <1>1, <1>3, <1>4, <1>6, <1>7 DEF CallLinked
    <2> QED BY <1>1, <1>6, <1>9, <2>1, LinksKept
  <1>11. BitvSound' /\ ChecksSound' /\ HadOnDisk'
    BY <1>1, <1>9, ClaimsKept
  <1>12. IdsDiffer' /\ EntriesSound'
    BY <1>1, <1>6, <1>7, <1>9, EntriesKept
  <1> QED BY <1>8, <1>10, <1>11, <1>12

LEMMA FlushFailsInv ==
  ASSUME IndInv, NEW c \in Callers, FlushFails(c)
  PROVE  IndInv'
  <1> USE DEF IndInv
  <1> DEFINE k == call[c]
             l == IF k.op = "delete" THEN [k EXCEPT !.pc = "files"] ELSE Idle
  <1>1. /\ k.pc = "flush" /\ left' = left - 1 /\ left > 0
        /\ db' = IF k.op = "add" THEN db \ {k.h} ELSE db
        /\ stale' = stale \cup {k.id} /\ call' = [call EXCEPT ![c] = l]
        /\ UNCHANGED <<persist, up, tor, nextId, mem, json, tfile, bitv, disk, inits, restore, swept>>
    BY DEF FlushFails, Spend, files
  <1>2. k \in Requests /\ CallLinked(k)
    BY DEF TypeOK, CallsLinked
  <1>3. /\ l \in Requests /\ l.pc \in {"files", "idle"} /\ (l.pc = "files" => l.op = "delete")
        /\ l.pc # "idle" => l.hash = k.hash
    BY <1>2, IdleCall DEF Requests
  <1>4. call' \in [Callers -> Requests] /\ Others(c) /\ call'[c] = l
    BY <1>1, <1>3, OneCall
  <1> HIDE DEF l
  <1>5. TypeOK' /\ DownIsEmpty'
    BY <1>1, <1>4 DEF TypeOK, DownIsEmpty
  <1>6. HandlesKept
    BY <1>1, SameHandles
  <1>7. TasksLinked' /\ CallsLinked'
    <2>1. CallLinked(call[c])'
      BY <1>1, <1>2, <1>3, <1>4 DEF CallLinked
    <2> QED BY <1>1, <1>4, <1>6, <2>1, LinksKept
  <1>8. BitvSound' /\ ChecksSound' /\ HadOnDisk'
    BY <1>1, <1>6, ClaimsKept
  <1>9. IdsDiffer' /\ EntriesSound'
    <2>1. \A h \in db \ db' : tor[h].id \in stale'
      BY <1>1, <1>2 DEF CallLinked
    <2> QED BY <1>1, <1>4, <1>6, <2>1, EntriesKept
  <1> QED BY <1>5, <1>7, <1>8, <1>9

(* A flush ends every difference between the two.                          *)
LEMMA FlushInv ==
  ASSUME IndInv, NEW c \in Callers, Flush(c)
  PROVE  IndInv'
  <1> USE DEF IndInv
  <1> DEFINE k == call[c]
  <1>1. /\ k.pc = "flush" /\ json' = mem /\ call' = [call EXCEPT ![c] = After(k)]
        /\ UNCHANGED <<persist, up, tor, db, nextId, mem, tfile, bitv, disk, inits, restore,
                       stale, swept, left>>
    BY DEF Flush, TypeOK
  <1>2. k \in Requests /\ CallLinked(k)
    BY DEF TypeOK, CallsLinked
  <1>3. /\ After(k) \in Requests /\ After(k).pc \in {"start", "unlink", "idle"}
        /\ After(k).pc # "idle" => After(k).hash = k.hash
        /\ After(k).pc = "unlink" => After(k).op = "delete"
        /\ After(k).pc = "start" => /\ k.op = "add" /\ After(k).h = k.h /\ After(k).id = k.id
                                    /\ After(k).hash = k.hash
    BY <1>2, IdleCall DEF Requests, After
  <1>4. call' \in [Callers -> Requests] /\ Others(c) /\ call'[c] = After(k)
    BY <1>1, <1>3, OneCall
  <1>5. TypeOK' /\ DownIsEmpty'
    BY <1>1, <1>4 DEF TypeOK, DownIsEmpty
  <1>6. HandlesKept
    BY <1>1, SameHandles
  <1>7. TasksLinked' /\ CallsLinked'
    <2>1. CallLinked(call[c])'
      BY <1>1, <1>2, <1>3, <1>4 DEF CallLinked
    <2> QED BY <1>1, <1>4, <1>6, <2>1, LinksKept
  <1>8. BitvSound' /\ ChecksSound' /\ HadOnDisk'
    BY <1>1, <1>6, ClaimsKept
  <1>9. IdsDiffer' /\ FlushedOrPending'
    BY <1>1 DEF IdsDiffer, FlushedOrPending, SameEntry
  <1>10. ASSUME up, persist, NEW h \in db PROVE HasEntry(h)'
    BY <1>1, <1>4, <1>10 DEF EntriesSound, HasEntry, Others
  <1>11. ASSUME up, persist, NEW n \in DOMAIN mem PROVE HasTorrent(n)'
    BY <1>1, <1>4, <1>11 DEF EntriesSound, HasTorrent, Others
  <1>12. EntriesSound'
    BY <1>1, <1>9, <1>10, <1>11 DEF EntriesSound
  <1> QED BY <1>5, <1>7, <1>8, <1>9, <1>12

(* The entry that is written is the torrent's, or is marked.               *)
LEMMA UpdateDbInsertsInv ==
  ASSUME IndInv, NEW c \in Callers, UpdateDbInserts(c)
  PROVE  IndInv'
  <1> USE DEF IndInv
  <1> DEFINE k == call[c]
             e == SerializedTorrent(k.hash, k.paused)
             l == [k EXCEPT !.pc = "flush"]
  <1>1. /\ k.pc = "insert" /\ mem' = Put(mem, k.id, e)
        /\ stale' = IF k.h \in db /\ tor[k.h].paused = k.paused THEN stale \ {k.id} ELSE stale \cup {k.id}
        /\ call' = [call EXCEPT ![c] = l]
        /\ UNCHANGED <<persist, up, tor, db, nextId, json, tfile, bitv, disk, inits, restore, swept, left>>
    BY DEF UpdateDbInserts, TypeOK
  <1>2. k \in Requests /\ CallLinked(k)
    BY DEF TypeOK, CallsLinked
  <1>3. k.h \in DOMAIN tor /\ k.id = tor[k.h].id /\ k.hash = tor[k.h].hash /\ tor[k.h] \in Torrents
    BY <1>1, <1>2, HandleType DEF CallLinked
  <1>4. /\ e \in Entries /\ k.id \in Nat /\ l \in Requests /\ l.pc = "flush" /\ l.h = k.h
        /\ l.id = k.id /\ l.hash = k.hash
    BY <1>2, <1>3 DEF Requests, Torrents, Entries, SerializedTorrent
  <1>5. call' \in [Callers -> Requests] /\ Others(c) /\ call'[c] = l
    BY <1>1, <1>4, OneCall
  <1>6. /\ DOMAIN mem' = DOMAIN mem \cup {k.id} /\ mem'[k.id] = e
        /\ \A n \in DOMAIN mem \ {k.id} : mem'[n] = mem[n]
    BY <1>1 DEF Put
  <1>7. mem' \in [DOMAIN mem' -> Entries]
    BY <1>1, <1>4 DEF Put, TypeOK
  <1> HIDE DEF l, e
  <1>8. TypeOK' /\ DownIsEmpty'
    <2>1. DOMAIN mem' \subseteq Nat /\ IsFiniteSet(DOMAIN mem')
      <3>1. IsFiniteSet(DOMAIN mem) /\ DOMAIN mem \subseteq Nat
        BY DEF TypeOK
      <3>2. IsFiniteSet(DOMAIN mem \cup {k.id})
        BY <3>1, FS_AddElement
      <3> QED BY <1>4, <1>6, <3>1, <3>2
    <2>2. restore' \subseteq DOMAIN mem'
      BY <1>1, <1>6 DEF TypeOK
    <2> QED BY <1>1, <1>5, <1>7, <2>1, <2>2 DEF TypeOK, DownIsEmpty
  <1>9. HandlesKept
    BY <1>1, SameHandles
  <1>10. TasksLinked' /\ CallsLinked'
    <2>1. CallLinked(call[c])'
      BY <1>1, <1>3, <1>4, <1>5 DEF CallLinked, Torrents
    <2> QED BY <1>1, <1>5, <1>9, <2>1, LinksKept
  <1>11. BitvSound' /\ ChecksSound' /\ HadOnDisk'
    BY <1>1, <1>9, ClaimsKept
  <1>12. ASSUME up, persist PROVE FlushedOrPending'
    <2> SUFFICES ASSUME NEW n \in (DOMAIN mem \cup DOMAIN json)', ~SameEntry(n)', n \notin stale', n # k.id
                 PROVE  \E d \in Callers : call'[d].pc = "flush" /\ call'[d].id = n
      BY <1>4, <1>5 DEF FlushedOrPending
    <2>1. n \in DOMAIN mem \cup DOMAIN json /\ ~SameEntry(n) /\ n \notin stale
      BY <1>1, <1>6 DEF SameEntry
    <2>2. PICK d \in Callers : call[d].pc = "flush" /\ call[d].id = n
      BY <1>12, <2>1 DEF EntriesSound, FlushedOrPending
    <2> QED BY <1>1, <1>5, <2>2 DEF Others
  <1>13. ASSUME up, persist, NEW h \in db PROVE HasEntry(h)'
    <2>1. CASE tor[h].id = k.id
      <3>1. CASE k.h \in db /\ tor[k.h].paused = k.paused
        <4>1. h = k.h
          BY <1>3, <2>1, <3>1 DEF IdsDiffer
        <4> QED BY <1>1, <1>3, <1>6, <3>1, <4>1 DEF HasEntry, e
      <3> QED BY <1>1, <2>1, <3>1 DEF HasEntry
    <2>2. CASE tor[h].id # k.id
      <3>1. HasEntry(h) /\ h # k.h
        BY <1>3, <1>13, <2>2 DEF EntriesSound
      <3>2. tor[h].id \in stale => tor[h].id \in stale'
        BY <1>1, <2>2
      <3> QED BY <1>1, <1>5, <1>6, <2>2, <3>1, <3>2 DEF HasEntry, Others
    <2> QED BY <2>1, <2>2
  <1>14. ASSUME up, persist, NEW n \in DOMAIN mem' PROVE HasTorrent(n)'
    <2>1. CASE n = k.id
      BY <1>1, <1>3, <2>1 DEF HasTorrent
    <2>2. CASE n # k.id
      <3>1. HasTorrent(n)
        BY <1>6, <1>14, <2>2 DEF EntriesSound
      <3> QED BY <1>1, <1>5, <2>2, <3>1 DEF HasTorrent, Others
    <2> QED BY <2>1, <2>2
  <1>15. IdsDiffer' /\ EntriesSound'
    BY <1>1, <1>12, <1>13, <1>14 DEF EntriesSound, IdsDiffer
  <1> QED BY <1>8, <1>10, <1>11, <1>15

(* A delete removes the entry of its id, whosever it is by now.            *)
LEMMA DeleteForgetsInv ==
  ASSUME IndInv, NEW c \in Callers, DeleteForgets(c)
  PROVE  IndInv'
  <1> USE DEF IndInv
  <1> DEFINE k == call[c]
             l == IF k.id \in DOMAIN mem THEN [k EXCEPT !.pc = "flush", !.removed = mem[k.id].hash]
                  ELSE [k EXCEPT !.pc = "files"]
  <1>1. /\ k.pc = "forget" /\ mem' = Drop(mem, k.id) /\ call' = [call EXCEPT ![c] = l]
        /\ stale' = IF \E h \in db : tor[h].id = k.id THEN stale \cup {k.id}
                    ELSE IF k.id \in DOMAIN mem THEN stale \ {k.id} ELSE stale
        /\ UNCHANGED <<persist, up, tor, db, nextId, json, tfile, bitv, disk, inits, restore, swept, left>>
    BY DEF DeleteForgets
  <1>2. k \in Requests /\ CallLinked(k)
    BY DEF TypeOK, CallsLinked
  <1>3. k.id \in DOMAIN mem => mem[k.id] \in Entries /\ mem[k.id].hash \in Hashes
    BY DEF TypeOK, Entries
  <1>4. /\ l \in Requests /\ l.id = k.id /\ l.hash = k.hash /\ l.op = k.op
        /\ l.pc = IF k.id \in DOMAIN mem THEN "flush" ELSE "files"
    BY <1>2, <1>3 DEF Requests
  <1>5. call' \in [Callers -> Requests] /\ Others(c) /\ call'[c] = l
    BY <1>1, <1>4, OneCall
  <1>6. /\ DOMAIN mem' = DOMAIN mem \ {k.id} /\ \A n \in DOMAIN mem' : mem'[n] = mem[n]
        /\ mem' \in [DOMAIN mem' -> Entries]
    BY <1>1 DEF Drop, TypeOK
  <1> HIDE DEF l
  <1>7. up /\ restore = {}
    BY <1>1, IdleCall DEF CallsLinked
  <1>8. TypeOK' /\ DownIsEmpty'
    <2>1. DOMAIN mem' \subseteq Nat /\ IsFiniteSet(DOMAIN mem')
      <3>1. IsFiniteSet(DOMAIN mem) /\ DOMAIN mem \subseteq Nat
        BY DEF TypeOK
      <3>2. IsFiniteSet(DOMAIN mem \ {k.id})
        BY <3>1, FS_RemoveElement
      <3> QED BY <1>6, <3>1, <3>2
    <2> QED BY <1>1, <1>5, <1>6, <1>7, <2>1 DEF TypeOK, DownIsEmpty
  <1>9. HandlesKept
    BY <1>1, SameHandles
  <1>10. TasksLinked' /\ CallsLinked'
    <2>1. CallLinked(call[c])'
      BY <1>1, <1>2, <1>4, <1>5 DEF CallLinked
    <2> QED BY <1>1, <1>5, <1>7, <1>9, <2>1, LinksKept
  <1>11. BitvSound' /\ ChecksSound' /\ HadOnDisk'
    BY <1>1, <1>9, ClaimsKept
  <1>12. ASSUME up, persist PROVE FlushedOrPending'
    <2> SUFFICES ASSUME NEW n \in (DOMAIN mem \cup DOMAIN json)', ~SameEntry(n)', n \notin stale'
                 PROVE  \E d \in Callers : call'[d].pc = "flush" /\ call'[d].id = n
      BY DEF FlushedOrPending
    <2>1. CASE n = k.id /\ k.id \in DOMAIN mem
      BY <1>4, <1>5, <2>1
    <2>2. CASE ~(n = k.id /\ k.id \in DOMAIN mem)
      <3>1. n \in DOMAIN mem \cup DOMAIN json /\ ~SameEntry(n) /\ n \notin stale
        BY <1>1, <1>6, <2>2 DEF SameEntry
      <3>2. PICK d \in Callers : call[d].pc = "flush" /\ call[d].id = n
        BY <1>12, <3>1 DEF EntriesSound, FlushedOrPending
      <3> QED BY <1>1, <1>5, <3>2 DEF Others
    <2> QED BY <2>1, <2>2
  <1>13. ASSUME up, persist, NEW h \in db PROVE HasEntry(h)'
    <2>1. CASE tor[h].id = k.id
      BY <1>1, <2>1 DEF HasEntry
    <2>2. CASE tor[h].id # k.id
      <3>1. HasEntry(h)
        BY <1>13 DEF EntriesSound
      <3>2. tor[h].id \in stale => tor[h].id \in stale'
        BY <1>1, <2>2
      <3> QED BY <1>1, <1>5, <1>6, <2>2, <3>1, <3>2 DEF HasEntry, Others
    <2> QED BY <2>1, <2>2
  <1>14. ASSUME up, persist, NEW n \in DOMAIN mem' PROVE HasTorrent(n)'
    <2>1. HasTorrent(n) /\ n # k.id
      BY <1>6, <1>14 DEF EntriesSound
    <2> QED BY <1>1, <1>5, <2>1 DEF HasTorrent, Others
  <1>15. IdsDiffer' /\ EntriesSound'
    BY <1>1, <1>12, <1>13, <1>14 DEF EntriesSound, IdsDiffer
  <1> QED BY <1>8, <1>10, <1>11, <1>15

-----------------------------------------------------------------------------
(* Calls that begin *)

(* A call begins where none was: nobody waited for what it would do.       *)
LEMMA Begins ==
  ASSUME IndInv, NEW c \in Callers, Calls(c)
  PROVE  up /\ restore = {} /\ call[c].pc = "idle" /\ left > 0 /\ left' = left - 1 /\ left' \in Nat
  BY IdleCall DEF Calls, Spend, IndInv, TypeOK

LEMMA StartInitializingFacts ==
  ASSUME NEW t \in Torrents
  PROVE  /\ StartInitializing(t) \in Torrents /\ StartInitializing(t).hash = t.hash
         /\ StartInitializing(t).id = t.id /\ StartInitializing(t).paused = t.paused
         /\ StartInitializing(t).st = t.st /\ StartInitializing(t).have = t.have
  <1>1. ASSUME NEW n \in Nat, NEW b \in BOOLEAN, NEW u, u = [t EXCEPT !.spawned = n, !.twice = b]
        PROVE  /\ u \in Torrents /\ u.hash = t.hash /\ u.id = t.id /\ u.paused = t.paused
               /\ u.st = t.st /\ u.have = t.have
    BY <1>1 DEF Torrents
  <1> DEFINE n == t.spawned + 1
             b == t.twice \/ t.spawned > 0
  <1>2. n \in Nat /\ b \in BOOLEAN
    BY DEF Torrents
  <1>3. StartInitializing(t) = [t EXCEPT !.spawned = n, !.twice = b]
    BY DEF StartInitializing
  <1> HIDE DEF n, b
  <1>4. PICK u : u = StartInitializing(t)
    OBVIOUS
  <1>5. /\ u \in Torrents /\ u.hash = t.hash /\ u.id = t.id /\ u.paused = t.paused
        /\ u.st = t.st /\ u.have = t.have
    <2>1. u = [t EXCEPT !.spawned = n, !.twice = b]
      BY <1>3, <1>4
    <2> QED BY <1>1, <1>2, <2>1, Zenon
  <1> QED BY <1>4, <1>5

LEMMA ErrorToInitializingFacts ==
  ASSUME NEW t \in Torrents
  PROVE  /\ ErrorToInitializing(t) \in Torrents /\ ErrorToInitializing(t).hash = t.hash
         /\ ErrorToInitializing(t).id = t.id /\ ErrorToInitializing(t).paused = t.paused
         /\ ErrorToInitializing(t).st = "initializing"
  <1> DEFINE m == t.obj + 1
             n == t.spawned + 1
             b == TRUE
             u == ErrorToInitializing(t)
  <1>2. m \in Nat /\ n \in Nat /\ b \in BOOLEAN /\ "initializing" \in TorrentStates
    BY DEF Torrents, TorrentStates
  <1>3. u = [t EXCEPT !.st = "initializing", !.obj = m, !.errored = b, !.spawned = n]
    BY DEF ErrorToInitializing
  <1> HIDE DEF m, n, b, u
  <1>4. /\ u \in Torrents /\ u.hash = t.hash /\ u.id = t.id /\ u.paused = t.paused
        /\ u.st = "initializing"
    BY <1>2, <1>3 DEF Torrents
  <1> QED BY <1>4 DEF u

LEMMA StartTorrentFacts ==
  ASSUME TypeOK, NEW h \in DOMAIN tor, NEW paused \in BOOLEAN, StartTorrent(h, paused)
  PROVE  /\ HandlesKept /\ DOMAIN tor' = DOMAIN tor
         /\ \A k \in DOMAIN tor \ {h} : tor'[k] = tor[k]
         /\ tor'[h].paused = paused
         /\ tor'[h].st \in {"paused", "live"} =>
               tor[h].st \in {"paused", "live"} /\ tor'[h].have = tor[h].have
         /\ inits' \subseteq InitTasks
         /\ \A i \in inits' : i \in inits \/ (i.pc = "check" /\ i.h = h /\ i.hash = tor[h].hash)
  <1> DEFINE t == [tor[h] EXCEPT !.paused = paused]
             o == [t EXCEPT !.obj = @ + 1, !.errored = TRUE]
             u == CASE t.st = "initializing" -> StartInitializing(t)
                    [] t.st = "paused" /\ ~paused -> PausedToLive(t)
                    [] t.st = "error" -> ErrorToInitializing(t)
                    [] OTHER -> t
  <1>1. tor[h] \in Torrents /\ h \in Nat
    BY HandleType
  <1>2. /\ t \in Torrents /\ t.hash = tor[h].hash /\ t.id = tor[h].id /\ t.st = tor[h].st
        /\ t.have = tor[h].have /\ t.paused = paused
    BY <1>1 DEF Torrents
  <1>3. tor' = [tor EXCEPT ![h] = u]
    BY DEF StartTorrent
  <1>4. \/ inits' = inits
        \/ inits' = inits \cup {InitTask(h, t, paused)}
        \/ inits' = inits \cup {InitTask(h, o, paused)}
    BY DEF StartTorrent
  <1> HIDE DEF t
  <1>5. /\ StartInitializing(t) \in Torrents /\ StartInitializing(t).hash = t.hash
        /\ StartInitializing(t).id = t.id /\ StartInitializing(t).paused = t.paused
        /\ StartInitializing(t).st = t.st /\ StartInitializing(t).have = t.have
    BY <1>2, StartInitializingFacts
  <1>6. /\ PausedToLive(t) \in Torrents /\ PausedToLive(t).hash = t.hash
        /\ PausedToLive(t).id = t.id /\ PausedToLive(t).paused = t.paused
        /\ PausedToLive(t).have = t.have
    BY <1>2 DEF Torrents, PausedToLive, TorrentStates
  <1>7. /\ ErrorToInitializing(t) \in Torrents /\ ErrorToInitializing(t).hash = t.hash
        /\ ErrorToInitializing(t).id = t.id /\ ErrorToInitializing(t).paused = t.paused
        /\ ErrorToInitializing(t).st = "initializing"
    BY <1>2, ErrorToInitializingFacts
  <1>8. /\ u \in Torrents /\ u.hash = tor[h].hash /\ u.id = tor[h].id /\ u.paused = paused
        /\ u.st \in {"paused", "live"} => tor[h].st \in {"paused", "live"} /\ u.have = tor[h].have
    BY <1>2, <1>5, <1>6, <1>7
  <1>9. o \in Torrents /\ o.hash = t.hash
    <2> DEFINE n == t.obj + 1
               b == TRUE
    <2>1. n \in Nat /\ b \in BOOLEAN
      BY <1>2 DEF Torrents
    <2>2. o = [t EXCEPT !.obj = n, !.errored = b]
      OBVIOUS
    <2> HIDE DEF n, b, o
    <2> QED BY <1>2, <2>1, <2>2 DEF Torrents
  <1>10. \A v \in Torrents : /\ InitTask(h, v, paused) \in InitTasks
                             /\ InitTask(h, v, paused).h = h
                             /\ InitTask(h, v, paused).hash = v.hash
                             /\ InitTask(h, v, paused).pc = "check"
    BY <1>1 DEF InitTask, InitTasks, Torrents
  <1> HIDE DEF u, o
  <1>11. /\ HandlesKept /\ DOMAIN tor' = DOMAIN tor /\ tor'[h] = u
         /\ \A k \in DOMAIN tor \ {h} : tor'[k] = tor[k]
    BY <1>3, <1>8, OneHandle
  <1>12. /\ inits' \subseteq InitTasks
         /\ \A i \in inits' : i \in inits \/ (i.pc = "check" /\ i.h = h /\ i.hash = tor[h].hash)
    BY <1>2, <1>4, <1>9, <1>10 DEF TypeOK
  <1> QED BY <1>8, <1>11, <1>12

(* try_update_persistence_metadata begins to write the entry of h.         *)
LEMMA UpdateMetadataFacts ==
  ASSUME IndInv, NEW c \in Callers, NEW h \in DOMAIN tor, call[c].pc = "idle",
         UpdateMetadata(c, "update", h)
  PROVE  /\ call' \in [Callers -> Requests] /\ Others(c)
         /\ ~persist => call' = call
         /\ persist => /\ call'[c].pc = "read" /\ call'[c].h = h /\ call'[c].op = "update"
                       /\ call'[c].id = tor[h].id /\ call'[c].hash = tor[h].hash
  <1> USE DEF IndInv
  <1> DEFINE k == [Idle EXCEPT !.op = "update", !.pc = "read", !.h = h,
                               !.id = tor[h].id, !.hash = tor[h].hash]
  <1>1. tor[h] \in Torrents /\ h \in Nat
    BY HandleType
  <1>2. /\ k \in Requests /\ k.pc = "read" /\ k.h = h /\ k.op = "update"
        /\ k.id = tor[h].id /\ k.hash = tor[h].hash
    BY <1>1 DEF Idle, Requests, Torrents
  <1>3. persist => call' = [call EXCEPT ![c] = k]
    BY DEF UpdateMetadata
  <1>4. ~persist => call' = call
    BY DEF UpdateMetadata
  <1> HIDE DEF k
  <1>5. CASE persist
    <2>1. call' \in [Callers -> Requests] /\ Others(c) /\ call'[c] = k
      BY <1>2, <1>3, <1>5, OneCall
    <2> QED BY <1>2, <1>5, <2>1
  <1>6. CASE ~persist
    BY <1>4, <1>6 DEF TypeOK, Others
  <1> QED BY <1>5, <1>6

(* Pausing, unpausing and selecting: the handle changes and its entry is   *)
(* to be written again.                                                    *)
LEMMA UpdateInv ==
  ASSUME IndInv, NEW c \in Callers, NEW h \in db, Calls(c), UpdateMetadata(c, "update", h),
         HandlesKept, DOMAIN tor' = DOMAIN tor, \A k \in DOMAIN tor \ {h} : tor'[k] = tor[k],
         tor'[h].st \in {"paused", "live"} =>
             tor[h].st \in {"paused", "live"} /\ tor'[h].have = tor[h].have,
         inits' \subseteq InitTasks,
         \A i \in inits' : i \in inits \/ (i.pc = "check" /\ i.h = h /\ i.hash = tor[h].hash),
         UNCHANGED <<persist, up, db, nextId, files, restore, stale, swept>>
  PROVE  IndInv'
  <1> USE DEF IndInv
  <1>1. h \in DOMAIN tor /\ db \subseteq DOMAIN tor
    BY DEF TypeOK
  <1>2. up /\ restore = {} /\ call[c].pc = "idle" /\ left' \in Nat
    BY Begins
  <1>3. /\ call' \in [Callers -> Requests] /\ Others(c)
        /\ ~persist => call' = call
        /\ persist => /\ call'[c].pc = "read" /\ call'[c].h = h /\ call'[c].op = "update"
                      /\ call'[c].id = tor[h].id /\ call'[c].hash = tor[h].hash
    BY <1>1, <1>2, UpdateMetadataFacts
  <1>4. UNCHANGED <<persist, up, db, nextId, mem, json, tfile, bitv, disk, restore, stale, swept>>
    BY DEF files
  <1>5. TypeOK' /\ DownIsEmpty'
    BY <1>1, <1>2, <1>3, <1>4 DEF TypeOK, DownIsEmpty, HandlesKept
  <1>6. TasksLinked' /\ CallsLinked'
    <2>1. CallLinked(call[c])'
      <3>1. CASE persist
        <4>1. tor[h] \in Torrents /\ tor'[h].hash = tor[h].hash /\ tor'[h].id = tor[h].id
          BY <1>1, HandleType DEF HandlesKept
        <4> QED BY <1>1, <1>3, <3>1, <4>1 DEF CallLinked, Torrents
      <3>2. CASE ~persist
        BY <1>2, <1>3, <3>2 DEF CallLinked, CallsLinked
      <3> QED BY <3>1, <3>2
    <2>2. \A i \in inits' : \/ i.h \in DOMAIN tor' /\ i.hash = tor'[i.h].hash
                            \/ \E j \in inits : i.h = j.h /\ i.hash = j.hash
      BY <1>1 DEF HandlesKept
    <2> QED BY <1>2, <1>3, <1>4, <2>1, <2>2, LinksKept
  <1>7. BitvSound' /\ ChecksSound' /\ HadOnDisk'
    <2>1. \A k \in db' : \/ tor'[k].st \notin {"paused", "live"}
                         \/ /\ k \in db /\ tor[k].st \in {"paused", "live"}
                            /\ tor'[k].have = tor[k].have
      BY <1>1, <1>4
    <2>2. \A i \in inits' : \/ i.pc # "commit"
                            \/ \E j \in inits : /\ j.pc = "commit" /\ i.h = j.h
                                                /\ i.hash = j.hash /\ i.have = j.have
      OBVIOUS
    <2> QED BY <1>4, <2>1, <2>2, ClaimsKept
  <1>8. IdsDiffer' /\ EntriesSound'
    <2>1. persist => \A k \in db' : \/ tor'[k].paused = tor[k].paused
                                    \/ tor[k].id \in stale'
                                    \/ call'[c].pc = "read" /\ call'[c].h = k
      BY <1>1, <1>3, <1>4
    <2> QED BY <1>2, <1>3, <1>4, <2>1, EntriesKept
  <1> QED BY <1>5, <1>6, <1>7, <1>8

LEMMA PauseInv ==
  ASSUME IndInv, NEW c \in Callers, NEW h \in db, Pause(c, h)
  PROVE  IndInv'
  <1>1. PICK t \in PausedFrom(tor[h]) : tor' = [tor EXCEPT ![h] = t]
    BY DEF Pause
  <1>2. /\ Calls(c) /\ tor[h].st = "live" /\ UpdateMetadata(c, "update", h)
        /\ UNCHANGED <<persist, up, db, nextId, files, inits, restore, stale, swept>>
    BY DEF Pause
  <1>3. h \in DOMAIN tor /\ inits \subseteq InitTasks /\ TypeOK
    BY DEF IndInv, TypeOK
  <1>4. tor[h] \in Torrents
    BY <1>3, HandleType
  <1>5. t \in Torrents /\ t.hash = tor[h].hash /\ t.id = tor[h].id /\ t.have = tor[h].have
    <2>1. PICK f \in {FALSE, tor[h].fatal} : t = [tor[h] EXCEPT !.st = "paused", !.paused = TRUE, !.fatal = f]
      BY DEF PausedFrom
    <2>2. f \in BOOLEAN
      BY <1>4, <2>1 DEF Torrents
    <2>3. "paused" \in TorrentStates
      BY DEF TorrentStates
    <2> QED BY <1>4, <2>1, <2>2, <2>3 DEF Torrents
  <1>6. /\ HandlesKept /\ DOMAIN tor' = DOMAIN tor /\ tor'[h] = t
        /\ \A k \in DOMAIN tor \ {h} : tor'[k] = tor[k]
    BY <1>1, <1>3, <1>5, OneHandle
  <1> QED BY <1>2, <1>3, <1>5, <1>6, UpdateInv

LEMMA UnpauseInv ==
  ASSUME IndInv, NEW c \in Callers, NEW h \in db, Unpause(c, h)
  PROVE  IndInv'
  <1>1. h \in DOMAIN tor /\ TypeOK
    BY DEF IndInv, TypeOK
  <1>2. /\ Calls(c) /\ StartTorrent(h, FALSE) /\ UpdateMetadata(c, "update", h)
        /\ UNCHANGED <<persist, up, db, nextId, files, restore, stale, swept>>
    BY DEF Unpause
  <1> QED BY <1>1, <1>2, StartTorrentFacts, UpdateInv

LEMMA UpdateOnlyFilesInv ==
  ASSUME IndInv, NEW c \in Callers, NEW h \in db, UpdateOnlyFiles(c, h)
  PROVE  IndInv'
  <1>1. inits \subseteq InitTasks /\ HandlesKept
    BY SameHandles DEF IndInv, TypeOK, UpdateOnlyFiles
  <1> QED BY <1>1, UpdateInv DEF UpdateOnlyFiles

LEMMA AddTorrentInv ==
  ASSUME IndInv, NEW c \in Callers, NEW hash \in Hashes, NEW paused \in BOOLEAN,
         AddTorrent(c, hash, paused)
  PROVE  IndInv'
  <1> USE DEF IndInv
  <1> DEFINE id == FreshId
             k == [AddCall(hash, paused) EXCEPT !.id = id]
  <1>1. /\ Calls(c) /\ call' = [call EXCEPT ![c] = k]
        /\ nextId' = IF persist THEN nextId ELSE nextId + 1
        /\ UNCHANGED <<persist, up, tor, db, mem, json, tfile, bitv, disk, inits, restore, stale, swept>>
    BY DEF AddTorrent, files
  <1>2. up /\ restore = {} /\ call[c].pc = "idle" /\ left' \in Nat
    BY <1>1, Begins
  <1>3. id \in Nat
    <2>1. CASE persist /\ DOMAIN mem # {}
      <3> DEFINE m == CHOOSE i \in DOMAIN mem : \A j \in DOMAIN mem : j <= i
      <3>1. \E i \in DOMAIN mem : \A j \in DOMAIN mem : j <= i
        BY <2>1, LargestExists DEF TypeOK
      <3>2. m \in DOMAIN mem
        BY <3>1
      <3>3. id = 1 + m
        BY <2>1 DEF FreshId, JsonNextId
      <3> HIDE DEF m, id
      <3> QED BY <3>2, <3>3 DEF TypeOK
    <2>2. CASE ~(persist /\ DOMAIN mem # {})
      BY <2>2 DEF FreshId, JsonNextId, TypeOK
    <2> QED BY <2>1, <2>2
  <1> HIDE DEF id
  <1>4. k \in Requests /\ k.pc = "create" /\ k.op = "add" /\ k.hash = hash
    BY <1>3 DEF AddCall, Idle, Requests
  <1> HIDE DEF k
  <1>5. call' \in [Callers -> Requests] /\ Others(c) /\ call'[c] = k
    BY <1>1, <1>4, OneCall
  <1>6. TypeOK' /\ DownIsEmpty'
    BY <1>1, <1>2, <1>5 DEF TypeOK, DownIsEmpty
  <1>7. HandlesKept
    BY <1>1, SameHandles
  <1>8. TasksLinked' /\ CallsLinked'
    <2>1. CallLinked(call[c])'
      BY <1>4, <1>5 DEF CallLinked
    <2> QED BY <1>1, <1>2, <1>5, <1>7, <2>1, LinksKept
  <1>9. BitvSound' /\ ChecksSound' /\ HadOnDisk'
    BY <1>1, <1>7, ClaimsKept
  <1>10. IdsDiffer' /\ EntriesSound'
    BY <1>1, <1>2, <1>5, <1>7, EntriesKept
  <1> QED BY <1>6, <1>8, <1>9, <1>10

LEMMA NewTorrentFacts ==
  ASSUME NEW hash \in Hashes, NEW id \in Nat, NEW paused \in BOOLEAN, NEW t,
         t = NewTorrent(hash, id, paused)
  PROVE  /\ t \in Torrents /\ t.hash = hash /\ t.id = id /\ t.paused = paused
         /\ t.st = "initializing" /\ t.spawned = 0
  <1> DEFINE b == FALSE
  <1>1. t = [hash |-> hash, id |-> id, st |-> "initializing", paused |-> paused,
             have |-> {}, mapped |-> b, obj |-> 1, errored |-> b, taken |-> {},
             sound |-> b, spawned |-> 0, twice |-> b, fatal |-> b]
    BY DEF NewTorrent
  <1>2. b \in BOOLEAN /\ "initializing" \in TorrentStates
    BY DEF TorrentStates
  <1> HIDE DEF b
  <1> QED BY <1>1, <1>2 DEF Torrents

(* The new torrent has a hash and an id of its own, and its entry is to be *)
(* written.                                                                *)
LEMMA AddCreatesInv ==
  ASSUME IndInv, NEW c \in Callers, AddCreates(c)
  PROVE  IndInv'
  <1> USE DEF IndInv
  <1> DEFINE k == call[c]
             h == Len(tor) + 1
             t == NewTorrent(k.hash, k.id, k.opt)
             l == [k EXCEPT !.pc = IF persist THEN "read" ELSE "start", !.h = h]
  <1>1. /\ k.pc = "create"
        /\ UNCHANGED <<persist, up, nextId, mem, json, tfile, bitv, disk, inits, restore, stale, swept, left>>
    BY DEF AddCreates, files
  <1>2. k \in Requests /\ CallLinked(k) /\ up /\ restore = {}
    BY <1>1, IdleCall DEF TypeOK, CallsLinked
  <1>3. CASE Managed(k.hash, k.id)
    <2>1. call' = [call EXCEPT ![c] = Idle] /\ UNCHANGED <<tor, db>>
      BY <1>3 DEF AddCreates
    <2>2. call' \in [Callers -> Requests] /\ Others(c) /\ call'[c] = Idle
      BY <2>1, IdleCall, OneCall
    <2>3. TypeOK' /\ DownIsEmpty'
      BY <1>1, <2>1, <2>2 DEF TypeOK, DownIsEmpty
    <2>4. HandlesKept
      BY <2>1, SameHandles
    <2>5. TasksLinked' /\ CallsLinked'
      <3>1. CallLinked(call[c])'
        BY <2>2, IdleCall DEF CallLinked
      <3> QED BY <1>1, <1>2, <2>1, <2>2, <2>4, <3>1, LinksKept
    <2>6. BitvSound' /\ ChecksSound' /\ HadOnDisk'
      BY <1>1, <2>1, <2>4, ClaimsKept
    <2>7. IdsDiffer' /\ EntriesSound'
      BY <1>1, <2>1, <2>2, <2>4, EntriesKept
    <2> QED BY <2>3, <2>5, <2>6, <2>7
  <1>4. CASE ~Managed(k.hash, k.id)
    <2>1. tor' = Append(tor, t) /\ db' = db \cup {h} /\ call' = [call EXCEPT ![c] = l]
      BY <1>4 DEF AddCreates
    <2>2. k.hash \in Hashes
      BY <1>1, <1>2 DEF CallLinked
    <2>3. k.id \in Nat /\ k.opt \in BOOLEAN
      BY <1>2 DEF Requests
    <2>4. /\ t \in Torrents /\ t.hash = k.hash /\ t.id = k.id /\ t.paused = k.opt
          /\ t.st = "initializing"
      BY <2>2, <2>3, NewTorrentFacts
    <2>5. h \in Nat /\ h # 0
      BY DEF TypeOK
    <2>6. /\ l \in Requests /\ l.h = h /\ l.id = k.id /\ l.hash = k.hash /\ l.op = k.op
          /\ l.pc = IF persist THEN "read" ELSE "start"
      <3> DEFINE pc == IF persist THEN "read" ELSE "start"
      <3>1. pc \in {"read", "start"} /\ l = [k EXCEPT !.pc = pc, !.h = h]
        OBVIOUS
      <3> HIDE DEF pc, l, h
      <3>2. /\ l \in Requests /\ l.h = h /\ l.id = k.id /\ l.hash = k.hash /\ l.op = k.op
            /\ l.pc = pc
        BY <1>2, <2>5, <3>1 DEF Requests
      <3> QED BY <3>2 DEF pc
    <2> HIDE DEF t, l
    <2>7. /\ HandlesKept /\ h \notin DOMAIN tor
          /\ DOMAIN tor' = DOMAIN tor \cup {h} /\ tor'[h] = t
          /\ \A g \in DOMAIN tor : tor'[g] = tor[g]
      BY <2>1, <2>4, NewHandle
    <2> HIDE DEF h
    <2>8. call' \in [Callers -> Requests] /\ Others(c) /\ call'[c] = l
      BY <2>1, <2>6, OneCall
    <2>9. TypeOK' /\ DownIsEmpty'
      BY <1>1, <1>2, <2>1, <2>7, <2>8 DEF TypeOK, DownIsEmpty, HandlesKept
    <2>10. TasksLinked' /\ CallsLinked'
      <3>1. CallLinked(call[c])'
        BY <1>2, <2>2, <2>4, <2>6, <2>7, <2>8 DEF CallLinked
      <3> QED BY <1>1, <1>2, <2>7, <2>8, <3>1, LinksKept
    <2>11. BitvSound' /\ ChecksSound' /\ HadOnDisk'
      <3>1. \A g \in db' : \/ tor'[g].st \notin {"paused", "live"}
                           \/ /\ g \in db /\ tor[g].st \in {"paused", "live"}
                              /\ tor'[g].have = tor[g].have
        BY <2>1, <2>4, <2>7 DEF TypeOK
      <3>2. db' \cap DOMAIN tor \subseteq db
        BY <2>1, <2>7
      <3> QED BY <1>1, <2>7, <3>1, <3>2, ClaimsKept
    <2>12. db \subseteq DOMAIN tor /\ \A g \in db : tor'[g] = tor[g] /\ tor[g].id # k.id /\ g # h
      BY <1>4, <2>7 DEF TypeOK, Managed
    <2>13. IdsDiffer'
      BY <2>1, <2>4, <2>7, <2>12 DEF IdsDiffer
    <2>14. ASSUME persist PROVE FlushedOrPending'
      <3>1. FlushedOrPending
        BY <1>2, <2>14 DEF EntriesSound
      <3> QED BY <1>1, <2>8, <3>1 DEF FlushedOrPending, SameEntry, Others
    <2>15. ASSUME persist, NEW g \in db' PROVE HasEntry(g)'
      <3>1. CASE g = h
        BY <2>6, <2>8, <2>15, <3>1 DEF HasEntry
      <3>2. CASE g # h
        <4>1. g \in db /\ HasEntry(g)
          BY <1>2, <2>1, <2>15, <3>2 DEF EntriesSound
        <4> QED BY <1>1, <2>8, <2>12, <4>1 DEF HasEntry, Others
      <3> QED BY <3>1, <3>2
    <2>16. ASSUME persist, NEW n \in DOMAIN mem PROVE HasTorrent(n)'
      <3>1. HasTorrent(n)
        BY <1>2, <2>16 DEF EntriesSound
      <3> QED BY <1>1, <2>1, <2>8, <2>12, <3>1 DEF HasTorrent, Others
    <2>17. EntriesSound'
      BY <1>1, <2>14, <2>15, <2>16 DEF EntriesSound
    <2> QED BY <2>9, <2>10, <2>11, <2>13, <2>17
  <1> QED BY <1>3, <1>4

LEMMA AddStartsInv ==
  ASSUME IndInv, NEW c \in Callers, AddStarts(c)
  PROVE  IndInv'
  <1> USE DEF IndInv
  <1> DEFINE k == call[c]
             h == k.h
  <1>1. /\ k.pc = "start" /\ StartTorrent(h, k.opt) /\ call' = [call EXCEPT ![c] = Idle]
        /\ stale' = IF tor[h].paused # k.opt THEN stale \cup {k.id} ELSE stale
        /\ UNCHANGED <<persist, up, db, nextId, mem, json, tfile, bitv, disk, restore, swept, left>>
    BY DEF AddStarts, files
  <1>2. k \in Requests /\ CallLinked(k) /\ up /\ restore = {}
    BY <1>1, IdleCall DEF TypeOK, CallsLinked
  <1>3. h \in DOMAIN tor /\ k.id = tor[h].id /\ k.opt \in BOOLEAN
    BY <1>1, <1>2 DEF CallLinked, Requests
  <1>4. /\ HandlesKept /\ DOMAIN tor' = DOMAIN tor
        /\ \A g \in DOMAIN tor \ {h} : tor'[g] = tor[g]
        /\ tor'[h].paused = k.opt
        /\ tor'[h].st \in {"paused", "live"} =>
              tor[h].st \in {"paused", "live"} /\ tor'[h].have = tor[h].have
        /\ inits' \subseteq InitTasks
        /\ \A i \in inits' : i \in inits \/ (i.pc = "check" /\ i.h = h /\ i.hash = tor[h].hash)
    BY <1>1, <1>3, StartTorrentFacts
  <1>5. call' \in [Callers -> Requests] /\ Others(c) /\ call'[c] = Idle
    BY <1>1, IdleCall, OneCall
  <1>6. TypeOK' /\ DownIsEmpty'
    BY <1>1, <1>2, <1>4, <1>5 DEF TypeOK, DownIsEmpty, HandlesKept
  <1>7. TasksLinked' /\ CallsLinked'
    <2>1. CallLinked(call[c])'
      BY <1>5, IdleCall DEF CallLinked
    <2>2. \A i \in inits' : \/ i.h \in DOMAIN tor' /\ i.hash = tor'[i.h].hash
                            \/ \E j \in inits : i.h = j.h /\ i.hash = j.hash
      BY <1>3, <1>4 DEF HandlesKept
    <2> QED BY <1>1, <1>2, <1>4, <1>5, <2>1, <2>2, LinksKept
  <1>8. BitvSound' /\ ChecksSound' /\ HadOnDisk'
    <2>1. \A g \in db' : \/ tor'[g].st \notin {"paused", "live"}
                         \/ /\ g \in db /\ tor[g].st \in {"paused", "live"}
                            /\ tor'[g].have = tor[g].have
      BY <1>1, <1>4 DEF TypeOK
    <2>2. \A i \in inits' : \/ i.pc # "commit"
                            \/ \E j \in inits : /\ j.pc = "commit" /\ i.h = j.h
                                                /\ i.hash = j.hash /\ i.have = j.have
      BY <1>4
    <2> QED BY <1>1, <1>4, <2>1, <2>2, ClaimsKept
  <1>9. IdsDiffer' /\ EntriesSound'
    <2>1. \A g \in db' : tor'[g].paused = tor[g].paused \/ tor[g].id \in stale'
      BY <1>1, <1>3, <1>4 DEF TypeOK
    <2> QED BY <1>1, <1>4, <1>5, <2>1, EntriesKept
  <1> QED BY <1>6, <1>7, <1>8, <1>9

-----------------------------------------------------------------------------
(* Deleting *)

LEMMA TakeFilesFacts ==
  ASSUME NEW t \in Torrents, NEW o \in Nat
  PROVE  /\ TakeFiles(t, o) \in Torrents /\ TakeFiles(t, o).hash = t.hash /\ TakeFiles(t, o).id = t.id
         /\ TakeFiles(t, o).st = t.st /\ TakeFiles(t, o).have = t.have
         /\ TakeFiles(t, o).paused = t.paused
  BY DEF TakeFiles, Torrents

LEMMA DeleteInv ==
  ASSUME IndInv, NEW c \in Callers, NEW h \in DOMAIN tor, NEW remove \in BOOLEAN, Delete(c, h, remove)
  PROVE  IndInv'
  <1> USE DEF IndInv
  <1> DEFINE b == tor[h].paused \/ tor[h].st = "live"
             t == [tor[h] EXCEPT !.st = "none", !.have = {}, !.paused = b]
             u == TakeFiles(t, tor[h].obj)
             pc == IF persist THEN "forget" ELSE "files"
             k == [Idle EXCEPT !.op = "delete", !.h = h, !.id = tor[h].id, !.hash = tor[h].hash,
                               !.opt = remove, !.pc = pc]
  <1>1. /\ Calls(c) /\ h \in db /\ db' = db \ {h}
        /\ call' = [call EXCEPT ![c] = k]
        /\ UNCHANGED <<persist, up, nextId, mem, json, tfile, bitv, disk, inits, restore, stale, swept>>
    BY DEF Delete, Handle, files
  <1>2. tor' = [tor EXCEPT ![h] = u]
    BY DEF Delete
  <1>3. up /\ restore = {} /\ call[c].pc = "idle" /\ left' \in Nat
    BY <1>1, Begins
  <1>4. tor[h] \in Torrents /\ h \in Nat
    BY HandleType
  <1>5. b \in BOOLEAN /\ "none" \in TorrentStates /\ tor[h].obj \in Nat
    BY <1>4 DEF Torrents, TorrentStates
  <1> HIDE DEF b
  <1>6. t \in Torrents /\ t.hash = tor[h].hash /\ t.id = tor[h].id
    BY <1>4, <1>5 DEF Torrents
  <1> HIDE DEF t
  <1>7. u \in Torrents /\ u.hash = tor[h].hash /\ u.id = tor[h].id
    BY <1>5, <1>6, TakeFilesFacts
  <1> HIDE DEF u
  <1>8. /\ HandlesKept /\ DOMAIN tor' = DOMAIN tor
        /\ \A g \in DOMAIN tor \ {h} : tor'[g] = tor[g]
    BY <1>2, <1>7, OneHandle
  <1>9. pc \in {"forget", "files"}
    OBVIOUS
  <1> HIDE DEF pc
  <1>10. /\ k \in Requests /\ k.pc = pc /\ k.op = "delete" /\ k.id = tor[h].id /\ k.hash = tor[h].hash
         /\ k.hash \in Hashes
    BY <1>4, <1>9 DEF Idle, Requests, Torrents
  <1> HIDE DEF k
  <1>11. call' \in [Callers -> Requests] /\ Others(c) /\ call'[c] = k
    BY <1>1, <1>10, OneCall
  <1>12. TypeOK' /\ DownIsEmpty'
    BY <1>1, <1>3, <1>8, <1>11 DEF TypeOK, DownIsEmpty, HandlesKept
  <1>13. TasksLinked' /\ CallsLinked'
    <2>1. CallLinked(call[c])'
      BY <1>9, <1>10, <1>11 DEF CallLinked
    <2> QED BY <1>1, <1>3, <1>8, <1>11, <2>1, LinksKept
  <1>14. BitvSound' /\ ChecksSound' /\ HadOnDisk'
    <2>1. \A g \in db' : g \in db /\ tor'[g] = tor[g]
      BY <1>1, <1>8 DEF TypeOK
    <2> QED BY <1>1, <1>8, <2>1, ClaimsKept
  <1>15. IdsDiffer' /\ EntriesSound'
    <2>1. \A g \in db' : tor'[g] = tor[g]
      BY <1>1, <1>8 DEF TypeOK
    <2>2. persist => \A g \in db \ db' : call'[c].pc = "forget" /\ call'[c].id = tor[g].id
      BY <1>1, <1>10, <1>11 DEF pc
    <2> QED BY <1>1, <1>3, <1>8, <1>11, <2>1, <2>2, EntriesKept
  <1> QED BY <1>12, <1>13, <1>14, <1>15

LEMMA CutOffHandle ==
  ASSUME NEW t \in Torrents, NEW hash
  PROVE  /\ CutOff(t, hash) \in Torrents /\ CutOff(t, hash).hash = t.hash /\ CutOff(t, hash).id = t.id
         /\ CutOff(t, hash).st = t.st /\ CutOff(t, hash).have = t.have
         /\ CutOff(t, hash).paused = t.paused
  <1> DEFINE b == FALSE
             u == [t EXCEPT !.mapped = b]
  <1>1. CutOff(t, hash) \in {t, u} /\ b \in BOOLEAN
    BY DEF CutOff
  <1> HIDE DEF b
  <1>2. /\ u \in Torrents /\ u.hash = t.hash /\ u.id = t.id
        /\ u.st = t.st /\ u.have = t.have /\ u.paused = t.paused
    BY <1>1 DEF Torrents
  <1> HIDE DEF u
  <1> QED BY <1>1, <1>2

LEMMA CutOffTask ==
  ASSUME NEW i \in InitTasks, NEW hash
  PROVE  /\ CutOff(i, hash) \in InitTasks /\ CutOff(i, hash).hash = i.hash /\ CutOff(i, hash).h = i.h
         /\ CutOff(i, hash).pc = i.pc /\ CutOff(i, hash).have = i.have
  <1> DEFINE b == FALSE
             u == [i EXCEPT !.mapped = b]
  <1>1. CutOff(i, hash) \in {i, u} /\ b \in BOOLEAN
    BY DEF CutOff
  <1> HIDE DEF b
  <1>2. /\ u \in InitTasks /\ u.hash = i.hash /\ u.h = i.h
        /\ u.pc = i.pc /\ u.have = i.have
    BY <1>1 DEF InitTasks
  <1> HIDE DEF u
  <1> QED BY <1>1, <1>2

(* Handles that all change at once, and keep what they are.                *)
LEMMA AllHandles ==
  ASSUME TypeOK, tor' \in [DOMAIN tor -> Torrents],
         \A h \in DOMAIN tor : tor'[h].hash = tor[h].hash /\ tor'[h].id = tor[h].id
  PROVE  HandlesKept /\ DOMAIN tor' = DOMAIN tor
  <1>1. DOMAIN tor = 1..Len(tor) /\ Len(tor) \in Nat
    BY LenProperties DEF TypeOK
  <1>2. tor' \in Seq(Torrents)
    BY <1>1, SeqDef
  <1> QED BY <1>2 DEF HandlesKept

LEMMA DeleteUnlinksInv ==
  ASSUME IndInv, NEW c \in Callers, DeleteUnlinks(c)
  PROVE  IndInv'
  <1> USE DEF IndInv
  <1> DEFINE k == call[c]
             gone == k.removed
             l == [k EXCEPT !.pc = "files"]
  <1>1. /\ k.pc = "unlink" /\ tfile' = tfile \ {gone} /\ bitv' = Drop(bitv, gone)
        /\ tor' = [h \in DOMAIN tor |-> CutOff(tor[h], gone)]
        /\ inits' = {CutOff(i, gone) : i \in inits}
        /\ call' = [call EXCEPT ![c] = l]
        /\ UNCHANGED <<persist, up, db, nextId, mem, json, disk, restore, stale, swept, left>>
    BY DEF DeleteUnlinks, TypeOK
  <1>2. k \in Requests /\ CallLinked(k) /\ up /\ restore = {}
    BY <1>1, IdleCall DEF TypeOK, CallsLinked
  <1>3. l \in Requests /\ l.pc = "files" /\ l.op = k.op /\ l.hash = k.hash
    BY <1>2 DEF Requests
  <1> HIDE DEF l
  <1>4. call' \in [Callers -> Requests] /\ Others(c) /\ call'[c] = l
    BY <1>1, <1>3, OneCall
  <1>5. /\ DOMAIN bitv' \subseteq DOMAIN bitv /\ \A hash \in DOMAIN bitv' : bitv'[hash] = bitv[hash]
        /\ bitv' \in [DOMAIN bitv' -> SUBSET Pieces]
    BY <1>1 DEF Drop, TypeOK
  <1>6. \A h \in DOMAIN tor : /\ tor'[h] \in Torrents /\ tor'[h].hash = tor[h].hash
                              /\ tor'[h].id = tor[h].id /\ tor'[h].st = tor[h].st
                              /\ tor'[h].have = tor[h].have /\ tor'[h].paused = tor[h].paused
    <2> SUFFICES ASSUME NEW h \in DOMAIN tor
                 PROVE  /\ tor'[h] \in Torrents /\ tor'[h].hash = tor[h].hash
                        /\ tor'[h].id = tor[h].id /\ tor'[h].st = tor[h].st
                        /\ tor'[h].have = tor[h].have /\ tor'[h].paused = tor[h].paused
      OBVIOUS
    <2>1. tor'[h] = CutOff(tor[h], gone) /\ tor[h] \in Torrents
      BY <1>1, HandleType
    <2> QED BY <2>1, CutOffHandle
  <1>7. HandlesKept /\ DOMAIN tor' = DOMAIN tor
    <2>1. tor' \in [DOMAIN tor -> Torrents]
      BY <1>1, <1>6
    <2> QED BY <1>6, <2>1, AllHandles
  <1>8. \A i \in inits' : /\ i \in InitTasks
                          /\ \E j \in inits : /\ j.pc = i.pc /\ i.h = j.h
                                              /\ i.hash = j.hash /\ i.have = j.have
    <2> SUFFICES ASSUME NEW j \in inits
                 PROVE  LET i == CutOff(j, gone) IN
                        /\ i \in InitTasks
                        /\ j.pc = i.pc /\ i.h = j.h /\ i.hash = j.hash /\ i.have = j.have
      BY <1>1
    <2>1. j \in InitTasks
      BY DEF TypeOK
    <2> QED BY <2>1, CutOffTask
  <1>9. TypeOK' /\ DownIsEmpty'
    BY <1>1, <1>2, <1>4, <1>5, <1>7, <1>8 DEF TypeOK, DownIsEmpty, HandlesKept
  <1>10. TasksLinked' /\ CallsLinked'
    <2>1. CallLinked(call[c])'
      BY <1>1, <1>2, <1>3, <1>4 DEF CallLinked
    <2> QED BY <1>1, <1>2, <1>4, <1>7, <1>8, <2>1, LinksKept
  <1>11. BitvSound' /\ ChecksSound' /\ HadOnDisk'
    <2>1. \A h \in db' : h \in db /\ tor'[h].st = tor[h].st /\ tor'[h].have = tor[h].have
      BY <1>1, <1>6 DEF TypeOK
    <2> QED BY <1>1, <1>5, <1>7, <1>8, <2>1, ClaimsKept
  <1>12. IdsDiffer' /\ EntriesSound'
    <2>1. \A h \in db' : tor'[h].paused = tor[h].paused
      BY <1>1, <1>6 DEF TypeOK
    <2> QED BY <1>1, <1>4, <1>7, <2>1, EntriesKept
  <1> QED BY <1>9, <1>10, <1>11, <1>12

(* No managed torrent loses its files, unless it is in swept.              *)
LEMMA DeleteFilesInv ==
  ASSUME IndInv, NEW c \in Callers, DeleteFiles(c)
  PROVE  IndInv'
  <1> USE DEF IndInv
  <1> DEFINE k == call[c]
  <1>1. /\ k.pc = "files" /\ disk' = IF k.opt THEN RemoveFilesAndDirs(k.hash) ELSE disk
        /\ swept' = IF k.opt /\ \E h \in db : tor[h].hash = k.hash THEN swept \cup {k.hash} ELSE swept
        /\ call' = [call EXCEPT ![c] = Idle]
        /\ UNCHANGED <<persist, up, tor, db, nextId, mem, json, tfile, bitv, inits, restore, stale, left>>
    BY DEF DeleteFiles
  <1>2. k \in Requests /\ k.hash \in Hashes /\ up /\ restore = {}
    BY <1>1, IdleCall DEF TypeOK, CallsLinked, CallLinked
  <1>3. call' \in [Callers -> Requests] /\ Others(c) /\ call'[c] = Idle
    BY <1>1, IdleCall, OneCall
  <1>4. HandlesKept
    BY <1>1, SameHandles
  <1>5. NoFiles \in [full: SUBSET Files, good: SUBSET Pieces] /\ NoFiles.full = {}
    BY DEF NoFiles
  <1>6. /\ disk' \in [Hashes -> [full: SUBSET Files, good: SUBSET Pieces]]
        /\ \A hash \in Hashes : \/ disk'[hash] = disk[hash]
                                \/ hash = k.hash /\ k.opt /\ disk'[hash] = NoFiles
    BY <1>1, <1>2, <1>5 DEF RemoveFilesAndDirs, TypeOK
  <1>7. TypeOK' /\ DownIsEmpty'
    BY <1>1, <1>2, <1>3, <1>6 DEF TypeOK, DownIsEmpty
  <1>8. TasksLinked' /\ CallsLinked'
    <2>1. CallLinked(call[c])'
      BY <1>3, IdleCall DEF CallLinked
    <2> QED BY <1>1, <1>2, <1>3, <1>4, <2>1, LinksKept
  <1>9. BitvSound'
    <2> SUFFICES ASSUME NEW hash \in DOMAIN bitv, NEW p \in bitv[hash]
                 PROVE  \/ p \in disk'[hash].good
                        \/ \E f \in Files : p \in FilePieces[f] /\ f \notin disk'[hash].full
      BY <1>1 DEF BitvSound
    <2>1. hash \in Hashes /\ p \in Pieces
      BY DEF TypeOK
    <2>2. \E f \in Files : p \in FilePieces[f]
      BY <2>1, SessionAssumption
    <2> QED BY <1>5, <1>6, <2>1, <2>2 DEF BitvSound
  <1>10. ChecksSound' /\ HadOnDisk'
    <2>1. \A h \in db : tor[h].hash \notin swept' =>
                       /\ tor[h].hash \in Hashes /\ tor[h].hash \notin swept
                       /\ disk'[tor[h].hash] = disk[tor[h].hash]
      <3> SUFFICES ASSUME NEW h \in db, tor[h].hash \notin swept'
                   PROVE  /\ tor[h].hash \in Hashes /\ tor[h].hash \notin swept
                          /\ disk'[tor[h].hash] = disk[tor[h].hash]
        OBVIOUS
      <3>1. tor[h] \in Torrents
        BY HandleType DEF TypeOK
      <3>2. tor[h].hash \in Hashes
        BY <3>1 DEF Torrents
      <3> QED BY <1>1, <1>6, <3>2
    <2>2. HadOnDisk'
      BY <1>1, <2>1 DEF HadOnDisk
    <2>3. ChecksSound'
      BY <1>1, <2>1 DEF ChecksSound, TasksLinked
    <2> QED BY <2>2, <2>3
  <1>11. IdsDiffer' /\ EntriesSound'
    BY <1>1, <1>3, <1>4, EntriesKept
  <1> QED BY <1>7, <1>8, <1>9, <1>10, <1>11

-----------------------------------------------------------------------------
(* Steps of torrents and their tasks *)

FilesOnDisk == [full: SUBSET Files, good: SUBSET Pieces]

(* What is kept by every step that leaves the calls, the database and the  *)
(* paused flags alone.                                                     *)
LEMMA QuietStep ==
  ASSUME IndInv, HandlesKept, up, DOMAIN tor' = DOMAIN tor,
         \A h \in DOMAIN tor : tor'[h].paused = tor[h].paused,
         inits' \subseteq InitTasks,
         \A i \in inits' : \E j \in inits : i.h = j.h /\ i.hash = j.hash,
         left' \in Nat, disk' \in [Hashes -> FilesOnDisk],
         DOMAIN bitv' \subseteq Hashes, bitv' \in [DOMAIN bitv' -> SUBSET Pieces],
         UNCHANGED <<persist, up, db, nextId, mem, json, tfile, call, restore, stale, swept>>
  PROVE  /\ TypeOK' /\ DownIsEmpty' /\ TasksLinked' /\ CallsLinked'
         /\ IdsDiffer' /\ EntriesSound'
  <1> USE DEF IndInv
  <1>1. TypeOK' /\ DownIsEmpty'
    BY DEF TypeOK, DownIsEmpty, HandlesKept, FilesOnDisk
  <1>2. TasksLinked'
    BY DEF TasksLinked, HandlesKept
  <1>3. CallsLinked'
    <2>1. ASSUME NEW c \in Callers PROVE CallLinked(call[c])'
      <3>1. CallLinked(call[c]) /\ call'[c] = call[c]
        BY DEF CallsLinked
      <3> QED BY <3>1 DEF CallLinked, HandlesKept
    <2> QED BY <2>1 DEF CallsLinked
  <1>4. \A h \in db : /\ tor'[h].id = tor[h].id /\ tor'[h].hash = tor[h].hash
                      /\ tor'[h].paused = tor[h].paused
    BY DEF TypeOK, HandlesKept
  <1>5. IdsDiffer'
    BY <1>4 DEF IdsDiffer
  <1>6. ASSUME persist PROVE FlushedOrPending'
    <2>1. FlushedOrPending
      BY <1>6 DEF EntriesSound
    <2> QED BY <2>1 DEF FlushedOrPending, SameEntry
  <1>7. ASSUME persist, NEW h \in db' PROVE HasEntry(h)'
    <2>1. h \in db /\ HasEntry(h)
      BY <1>7 DEF EntriesSound
    <2> QED BY <1>4, <2>1 DEF HasEntry
  <1>8. ASSUME persist, NEW n \in DOMAIN mem PROVE HasTorrent(n)'
    <2>1. HasTorrent(n)
      BY <1>8 DEF EntriesSound
    <2> QED BY <1>4, <2>1 DEF HasTorrent
  <1>9. EntriesSound'
    BY <1>6, <1>7, <1>8 DEF EntriesSound
  <1> QED BY <1>1, <1>2, <1>3, <1>5, <1>9

(* One handle changes, and its claims at most.                             *)
LEMMA HandleStep ==
  ASSUME IndInv, NEW h \in DOMAIN tor, NEW t \in Torrents,
         t.hash = tor[h].hash, t.id = tor[h].id, t.paused = tor[h].paused,
         tor' = [tor EXCEPT ![h] = t], inits' \subseteq inits, left' \in Nat,
         UNCHANGED <<persist, up, db, nextId, mem, json, tfile, bitv, disk, call, restore, stale, swept>>,
         t.st \in {"paused", "live"} /\ h \in db /\ t.hash \notin swept =>
             t.have \subseteq disk[t.hash].good
  PROVE  IndInv'
  <1> USE DEF IndInv
  <1>1. /\ HandlesKept /\ DOMAIN tor' = DOMAIN tor /\ tor'[h] = t
        /\ \A k \in DOMAIN tor \ {h} : tor'[k] = tor[k]
    BY OneHandle
  <1>2. up
    BY DEF DownIsEmpty
  <1>3. \A k \in DOMAIN tor : tor'[k].paused = tor[k].paused
    BY <1>1
  <1>4. /\ inits' \subseteq InitTasks
        /\ \A i \in inits' : \E j \in inits : i.h = j.h /\ i.hash = j.hash
    BY DEF TypeOK
  <1>5. /\ disk' \in [Hashes -> FilesOnDisk]
        /\ DOMAIN bitv' \subseteq Hashes /\ bitv' \in [DOMAIN bitv' -> SUBSET Pieces]
    BY DEF TypeOK, FilesOnDisk
  <1>6. /\ TypeOK' /\ DownIsEmpty' /\ TasksLinked' /\ CallsLinked'
        /\ IdsDiffer' /\ EntriesSound'
    BY <1>1, <1>2, <1>3, <1>4, <1>5, QuietStep
  <1>7. BitvSound' /\ ChecksSound'
    BY DEF BitvSound, ChecksSound
  <1>8. HadOnDisk'
    BY <1>1 DEF HadOnDisk, TypeOK
  <1> QED BY <1>6, <1>7, <1>8

LEMMA StopWithErrorInv ==
  ASSUME IndInv, NEW h \in DOMAIN tor, StopWithError(h)
  PROVE  IndInv'
  <1> DEFINE b == FALSE
             t == [tor[h] EXCEPT !.fatal = b, !.st = "error"]
  <1>1. /\ tor' = [tor EXCEPT ![h] = t] /\ inits' = inits /\ left' = left
        /\ UNCHANGED <<persist, up, db, nextId, mem, json, tfile, bitv, disk, call, restore, stale, swept>>
    BY DEF StopWithError, files, IndInv, TypeOK
  <1>2. tor[h] \in Torrents /\ b \in BOOLEAN /\ "error" \in TorrentStates /\ left \in Nat
    BY HandleType DEF IndInv, TypeOK, TorrentStates
  <1> HIDE DEF b
  <1>3. /\ t \in Torrents /\ t.hash = tor[h].hash /\ t.id = tor[h].id /\ t.paused = tor[h].paused
        /\ t.st = "error"
    BY <1>2 DEF Torrents
  <1> HIDE DEF t
  <1> QED BY <1>1, <1>2, <1>3, HandleStep

LEMMA FatalErrorInv ==
  ASSUME IndInv, NEW h \in DOMAIN tor, FatalError(h)
  PROVE  IndInv'
  <1> DEFINE b == TRUE
             t == [tor[h] EXCEPT !.fatal = b]
  <1>1. /\ tor' = [tor EXCEPT ![h] = t] /\ inits' = inits
        /\ UNCHANGED <<persist, up, db, nextId, mem, json, tfile, bitv, disk, call, restore, stale, swept>>
    BY DEF FatalError, files, IndInv, TypeOK
  <1>2. tor[h] \in Torrents /\ b \in BOOLEAN /\ tor[h].st = "live"
    BY HandleType DEF IndInv, FatalError
  <1>3. left' \in Nat
    BY DEF FatalError, Spend, IndInv, TypeOK
  <1> HIDE DEF b
  <1>4. /\ t \in Torrents /\ t.hash = tor[h].hash /\ t.id = tor[h].id /\ t.paused = tor[h].paused
        /\ t.st = "live" /\ t.have = tor[h].have
    BY <1>2 DEF Torrents
  <1> HIDE DEF t
  <1>5. h \in db /\ t.hash \notin swept => t.have \subseteq disk[t.hash].good
    BY <1>2, <1>4 DEF IndInv, HadOnDisk
  <1> QED BY <1>1, <1>3, <1>4, <1>5, HandleStep

LEMMA InitFailsInv ==
  ASSUME IndInv, NEW i \in inits, InitFails(i)
  PROVE  IndInv'
  <1> DEFINE h == i.h
             t == [tor[h] EXCEPT !.st = "error"]
  <1>1. /\ tor' = [tor EXCEPT ![h] = t] /\ inits' \subseteq inits /\ left > 0 /\ left' = left - 1
        /\ UNCHANGED <<persist, up, db, nextId, mem, json, tfile, bitv, disk, call, restore, stale, swept>>
    BY DEF InitFails, Spend, files, IndInv, TypeOK
  <1>2. h \in DOMAIN tor /\ "error" \in TorrentStates /\ left' \in Nat
    BY <1>1 DEF IndInv, TypeOK, TasksLinked, TorrentStates
  <1>3. tor[h] \in Torrents
    BY <1>2, HandleType DEF IndInv
  <1>4. /\ t \in Torrents /\ t.hash = tor[h].hash /\ t.id = tor[h].id /\ t.paused = tor[h].paused
        /\ t.st = "error"
    BY <1>2, <1>3 DEF Torrents
  <1> HIDE DEF t
  <1> QED BY <1>1, <1>2, <1>4, HandleStep

(* What a finished check claims is in the files by ChecksSound.            *)
LEMMA InitCommitInv ==
  ASSUME IndInv, NEW i \in inits, InitCommit(i)
  PROVE  IndInv'
  <1> DEFINE h == i.h
             st == IF i.paused THEN "paused" ELSE "live"
             u == [tor[h] EXCEPT !.st = st, !.have = i.have, !.mapped = i.mapped, !.sound = i.sound]
             t == IF tor[h].st # "initializing" THEN tor[h] ELSE u
  <1>1. /\ i.pc = "commit" /\ inits' \subseteq inits /\ left' = left
        /\ UNCHANGED <<persist, up, db, nextId, mem, json, tfile, bitv, disk, call, restore, stale, swept>>
    BY DEF InitCommit, files
  <1>2. /\ h \in DOMAIN tor /\ i.hash = tor[h].hash /\ left' \in Nat
        /\ i \in InitTasks /\ tor \in Seq(Torrents)
    BY <1>1 DEF IndInv, TypeOK, TasksLinked
  <1>3. tor[h] \in Torrents
    BY <1>2, HandleType DEF IndInv
  <1>4. tor' = [tor EXCEPT ![h] = t]
    <2>1. CASE tor[h].st # "initializing"
      <3>1. tor' = tor /\ t = tor[h]
        BY <2>1 DEF InitCommit
      <3> HIDE DEF t
      <3> QED BY <1>2, <3>1
    <2>2. CASE tor[h].st = "initializing"
      <3>1. tor' = [tor EXCEPT ![h] = u]
        BY <2>2 DEF InitCommit
      <3>2. t = u
        BY <2>2
      <3> HIDE DEF t, u
      <3> QED BY <3>1, <3>2
    <2> QED BY <2>1, <2>2
  <1>5. st \in TorrentStates
    BY DEF TorrentStates
  <1> HIDE DEF st
  <1>6. /\ u \in Torrents /\ u.hash = tor[h].hash /\ u.id = tor[h].id /\ u.paused = tor[h].paused
        /\ u.have = i.have
    BY <1>2, <1>3, <1>5 DEF Torrents, InitTasks
  <1> HIDE DEF u
  <1>7. /\ t \in Torrents /\ t.hash = tor[h].hash /\ t.id = tor[h].id /\ t.paused = tor[h].paused
        /\ t = tor[h] \/ t.have = i.have
    BY <1>3, <1>6
  <1> HIDE DEF t
  <1>8. t.st \in {"paused", "live"} /\ h \in db /\ t.hash \notin swept =>
            t.have \subseteq disk[t.hash].good
    BY <1>1, <1>2, <1>7 DEF IndInv, HadOnDisk, ChecksSound
  <1> QED BY <1>1, <1>2, <1>4, <1>7, <1>8, HandleStep

(* A piece is in the files before it is claimed.                           *)
LEMMA DownloadInv ==
  ASSUME IndInv, NEW h \in DOMAIN tor, NEW p \in Pieces, Download(h, p)
  PROVE  IndInv'
  <1> USE DEF IndInv
  <1> DEFINE t == [tor[h] EXCEPT !.have = tor[h].have \cup {p}]
             hash == tor[h].hash
             d == [disk[hash] EXCEPT !.good = disk[hash].good \cup {p}]
  <1>1. tor[h] \in Torrents
    BY HandleType
  <1>2. /\ tor[h].st = "live" /\ tor' = [tor EXCEPT ![h] = t]
        /\ disk' = [disk EXCEPT ![hash] = d]
        /\ bitv' = IF tor[h].mapped THEN [bitv EXCEPT ![hash] = @ \cup {p}] ELSE bitv
        /\ UNCHANGED <<persist, up, db, nextId, mem, json, tfile, call, inits, restore, stale, swept, left>>
    BY DEF Download, SetBit, TypeOK
  <1>3. /\ t \in Torrents /\ t.hash = tor[h].hash /\ t.id = tor[h].id /\ t.paused = tor[h].paused
        /\ t.st = "live" /\ t.have = tor[h].have \cup {p}
    BY <1>1, <1>2 DEF Torrents
  <1>4. hash \in Hashes
    BY <1>1 DEF Torrents
  <1>5. d \in FilesOnDisk /\ d.full = disk[hash].full /\ d.good = disk[hash].good \cup {p}
    BY <1>4 DEF TypeOK, FilesOnDisk
  <1> HIDE DEF t, d
  <1>6. /\ HandlesKept /\ DOMAIN tor' = DOMAIN tor /\ tor'[h] = t
        /\ \A k \in DOMAIN tor \ {h} : tor'[k] = tor[k]
    BY <1>2, <1>3, OneHandle
  <1>7. /\ disk' \in [Hashes -> FilesOnDisk] /\ disk'[hash] = d
        /\ \A g \in Hashes : /\ disk'[g].full = disk[g].full
                             /\ disk[g].good \subseteq disk'[g].good
    BY <1>2, <1>4, <1>5 DEF TypeOK, FilesOnDisk
  <1>8. /\ DOMAIN bitv' = DOMAIN bitv /\ bitv' \in [DOMAIN bitv -> SUBSET Pieces]
        /\ \A g \in DOMAIN bitv : \A q \in bitv'[g] : q \in bitv[g] \/ (g = hash /\ q = p)
    BY <1>2 DEF TypeOK
  <1>9. up /\ \A k \in DOMAIN tor : tor'[k].paused = tor[k].paused
    BY <1>3, <1>6 DEF DownIsEmpty
  <1>10. /\ TypeOK' /\ DownIsEmpty' /\ TasksLinked' /\ CallsLinked'
         /\ IdsDiffer' /\ EntriesSound'
    <2>1. inits' \subseteq InitTasks /\ left' \in Nat /\ DOMAIN bitv' \subseteq Hashes
      BY <1>2, <1>8 DEF TypeOK
    <2> QED BY <1>2, <1>6, <1>7, <1>8, <1>9, <2>1, QuietStep
  <1>11. BitvSound'
    <2>1. ~persist' => DOMAIN bitv' = {}
      BY <1>2, <1>8 DEF BitvSound
    <2>2. ASSUME NEW g \in DOMAIN bitv', NEW q \in bitv'[g]
          PROVE  \/ q \in disk'[g].good
                 \/ \E f \in Files : q \in FilePieces[f] /\ f \notin disk'[g].full
      <3>1. g \in DOMAIN bitv /\ g \in Hashes
        BY <1>8 DEF TypeOK
      <3>2. CASE g = hash /\ q = p
        BY <1>5, <1>7, <3>2
      <3>3. CASE q \in bitv[g]
        BY <1>7, <3>1, <3>3 DEF BitvSound
      <3> QED BY <1>8, <3>1, <3>2, <3>3
    <2> QED BY <2>1, <2>2 DEF BitvSound
  <1>12. ChecksSound'
    <2> SUFFICES ASSUME NEW i \in inits, i.pc = "commit", i.h \in db, i.hash \notin swept
                 PROVE  i.have \subseteq disk'[i.hash].good
      BY <1>2 DEF ChecksSound
    <2>1. i.hash \in Hashes /\ i.have \subseteq disk[i.hash].good
      BY DEF ChecksSound, TypeOK, InitTasks
    <2> QED BY <1>7, <2>1
  <1>13. HadOnDisk'
    <2> SUFFICES ASSUME NEW g \in db, tor'[g].st \in {"paused", "live"}, tor'[g].hash \notin swept
                 PROVE  tor'[g].have \subseteq disk'[tor'[g].hash].good
      BY <1>2 DEF HadOnDisk
    <2>1. g \in DOMAIN tor
      BY DEF TypeOK
    <2>2. tor[g] \in Torrents
      BY <2>1, HandleType
    <2>3. tor[g].hash \in Hashes
      BY <2>2 DEF Torrents
    <2>4. CASE g = h
      <3>1. tor[h].have \subseteq disk[hash].good
        BY <1>2, <1>3, <1>6, <2>4 DEF HadOnDisk
      <3> QED BY <1>3, <1>5, <1>6, <1>7, <2>4, <3>1
    <2>5. CASE g # h
      <3>1. tor'[g] = tor[g] /\ tor[g].have \subseteq disk[tor[g].hash].good
        BY <1>6, <2>1, <2>5 DEF HadOnDisk
      <3> QED BY <1>7, <2>3, <3>1
    <2> QED BY <2>4, <2>5
  <1> QED BY <1>10, <1>11, <1>12, <1>13

-----------------------------------------------------------------------------
(* The check *)

(* The fast resume reads a claimed piece of every file that has one.       *)
LEMMA EveryFileSampled ==
  ASSUME NEW claimed \in SUBSET Pieces, NEW s \in Samples(claimed), NEW f \in Files,
         FilePieces[f] \cap claimed # {}
  PROVE  \E p \in s : p \in FilePieces[f]
  <1> DEFINE S(g) == FilePieces[g] \cap claimed
             Least(g) == CHOOSE p \in S(g) : \A q \in S(g) : p <= q
             first == {Least(g) : g \in {g \in Files : S(g) # {}}}
  <1>1. S(f) \in SUBSET Nat /\ S(f) # {}
    BY SessionAssumption
  <1>2. \E p \in S(f) : \A q \in S(f) : p <= q
    <2> HIDE DEF S
    <2> QED BY <1>1, LeastExists
  <1>3. Least(f) \in S(f)
    <2> HIDE DEF S
    <2> QED BY <1>2
  <1>4. Least(f) \in first
    <2> HIDE DEF S, Least
    <2> QED BY <1>1
  <1>5. \E r \in SUBSET (claimed \ first) : s = first \cup r
    BY DEF Samples
  <1>6. Least(f) \in s
    <2> HIDE DEF first, Least
    <2> QED BY <1>4, <1>5
  <1> HIDE DEF Least
  <1> QED BY <1>3, <1>6

(* So a claim that passes is right: a piece that is missing lies in a file *)
(* that is missing, of which no piece can be read.                         *)
LEMMA ValidatedIsGood ==
  ASSUME IndInv, NEW i \in inits, i.hash \in DOMAIN bitv,
         NEW s \in Samples(bitv[i.hash]), s \subseteq Readable(i)
  PROVE  bitv[i.hash] \subseteq disk[i.hash].good
  <1> USE DEF IndInv
  <1> DEFINE claimed == bitv[i.hash]
  <1>1. claimed \in SUBSET Pieces
    BY DEF TypeOK
  <1>2. SUFFICES ASSUME NEW p \in claimed, p \notin disk[i.hash].good PROVE FALSE
    OBVIOUS
  <1>3. PICK f \in Files : p \in FilePieces[f] /\ f \notin disk[i.hash].full
    BY <1>2 DEF BitvSound
  <1>4. FilePieces[f] \cap claimed # {}
    BY <1>2, <1>3
  <1>5. PICK q \in s : q \in FilePieces[f]
    BY <1>1, <1>4, EveryFileSampled
  <1>6. q \in Readable(i)
    BY <1>5
  <1> QED BY <1>3, <1>5, <1>6 DEF Readable

LEMMA InitCheckInv ==
  ASSUME IndInv, NEW i \in inits, InitCheck(i)
  PROVE  IndInv'
  <1> USE DEF IndInv
  <1> DEFINE hash == i.hash
             found == Readable(i) \cap disk[hash].good
             sound == i.obj \notin tor[i.h].taken
             loads == ~i.errored /\ LoadBitv(i.hash)
  <1>1. PICK ok \in IF loads THEN ValidateFastresume(bitv[hash], Readable(i)) ELSE {FALSE} :
          LET have == IF ok THEN bitv[hash] ELSE found
              done == [i EXCEPT !.pc = "commit", !.have = have,
                                !.mapped = persist, !.sound = sound]
              cut(r) == IF ok \/ ~persist THEN r ELSE CutOff(r, hash)
          IN  /\ IF ok THEN UNCHANGED bitv ELSE StoreInitialCheck(hash, found)
              /\ tor' = [k \in DOMAIN tor |->
                            IF k = i.h THEN TakeFiles(cut(tor[k]), i.obj)
                            ELSE cut(tor[k])]
              /\ inits' = {cut(j) : j \in inits \ {i}} \cup {done}
    BY DEF InitCheck
  <1> DEFINE have == IF ok THEN bitv[hash] ELSE found
             done == [i EXCEPT !.pc = "commit", !.have = have,
                               !.mapped = persist, !.sound = sound]
             cut(r) == IF ok \/ ~persist THEN r ELSE CutOff(r, hash)
  <1>2. /\ IF sound THEN EnsureFileLength(hash) ELSE UNCHANGED disk
        /\ UNCHANGED <<persist, up, db, nextId, mem, json, tfile, call, restore, stale, swept, left>>
    BY DEF InitCheck
  <1>3. /\ i \in InitTasks /\ i.h \in DOMAIN tor /\ hash = tor[i.h].hash /\ up
    BY DEF TypeOK, TasksLinked, DownIsEmpty
  <1>4. hash \in Hashes /\ i.obj \in Nat
    BY <1>3 DEF InitTasks
  <1>5. ok => hash \in DOMAIN bitv /\ bitv[hash] \subseteq disk[hash].good
    <2> SUFFICES ASSUME ok PROVE hash \in DOMAIN bitv /\ bitv[hash] \subseteq disk[hash].good
      OBVIOUS
    <2>1. loads /\ ok \in ValidateFastresume(bitv[hash], Readable(i))
      <3> HIDE DEF loads
      <3> QED OBVIOUS
    <2>2. PICK s \in Samples(bitv[hash]) : ok = (s \subseteq Readable(i))
      BY <2>1 DEF ValidateFastresume
    <2>3. s \subseteq Readable(i)
      BY <2>2
    <2>4. hash \in DOMAIN bitv
      BY <2>1 DEF LoadBitv
    <2> QED BY <2>3, <2>4, ValidatedIsGood
  <1>6. /\ disk' \in [Hashes -> FilesOnDisk] /\ disk'[hash].good = disk[hash].good
        /\ \A g \in Hashes \ {hash} : disk'[g] = disk[g]
    <2>1. disk \in [Hashes -> FilesOnDisk] /\ disk[hash] \in FilesOnDisk
      BY <1>4 DEF TypeOK, FilesOnDisk
    <2> QED BY <1>2, <1>4, <2>1 DEF EnsureFileLength, FilesOnDisk
  <1>7. have \subseteq disk[hash].good /\ have \in SUBSET Pieces
    BY <1>4, <1>5 DEF TypeOK
  <1>8. /\ DOMAIN bitv' \subseteq Hashes /\ bitv' \in [DOMAIN bitv' -> SUBSET Pieces]
        /\ ~persist => DOMAIN bitv' = {}
        /\ \A g \in DOMAIN bitv' : \/ g # hash /\ g \in DOMAIN bitv /\ bitv'[g] = bitv[g]
                                   \/ g = hash /\ bitv'[g] \subseteq disk[hash].good
    <2>1. CASE ok
      <3>1. bitv' = bitv
        BY <1>1, <2>1
      <3> QED BY <1>5, <2>1, <3>1 DEF TypeOK, BitvSound
    <2>2. CASE ~ok /\ ~persist
      <3>1. bitv' = bitv
        BY <1>1, <2>2 DEF StoreInitialCheck, KeptInMemory
      <3> QED BY <2>2, <3>1 DEF TypeOK, BitvSound
    <2>3. CASE ~ok /\ persist
      <3>1. bitv' = Put(bitv, hash, found)
        BY <1>1, <2>3 DEF StoreInitialCheck
      <3>2. found \subseteq disk[hash].good /\ found \in SUBSET Pieces
        BY <1>4 DEF TypeOK
      <3> HIDE DEF found
      <3> QED BY <1>4, <2>3, <3>1, <3>2 DEF Put, TypeOK
    <2> QED BY <2>1, <2>2, <2>3
  <1>9. ASSUME NEW t \in Torrents
        PROVE  /\ cut(t) \in Torrents /\ cut(t).hash = t.hash /\ cut(t).id = t.id
               /\ cut(t).st = t.st /\ cut(t).have = t.have /\ cut(t).paused = t.paused
    BY CutOffHandle
  <1>10. ASSUME NEW j \in inits
         PROVE  /\ cut(j) \in InitTasks /\ cut(j).hash = j.hash /\ cut(j).h = j.h
                /\ cut(j).pc = j.pc /\ cut(j).have = j.have
    <2>1. j \in InitTasks
      BY DEF TypeOK
    <2> QED BY <2>1, CutOffTask
  <1>11. done \in InitTasks /\ done.h = i.h /\ done.hash = hash /\ done.pc = "commit" /\ done.have = have
    <2>1. persist \in BOOLEAN /\ sound \in BOOLEAN
      BY DEF TypeOK
    <2> HIDE DEF have, sound
    <2> QED BY <1>3, <1>7, <2>1 DEF InitTasks
  <1>12. /\ tor' = [k \in DOMAIN tor |-> IF k = i.h THEN TakeFiles(cut(tor[k]), i.obj) ELSE cut(tor[k])]
         /\ inits' = {cut(j) : j \in inits \ {i}} \cup {done}
    BY <1>1
  <1> HIDE DEF cut, done, have, found, loads, sound
  <1>13. \A k \in DOMAIN tor : /\ tor'[k] \in Torrents /\ tor'[k].hash = tor[k].hash
                               /\ tor'[k].id = tor[k].id /\ tor'[k].st = tor[k].st
                               /\ tor'[k].have = tor[k].have /\ tor'[k].paused = tor[k].paused
    <2> SUFFICES ASSUME NEW k \in DOMAIN tor
                 PROVE  /\ tor'[k] \in Torrents /\ tor'[k].hash = tor[k].hash
                        /\ tor'[k].id = tor[k].id /\ tor'[k].st = tor[k].st
                        /\ tor'[k].have = tor[k].have /\ tor'[k].paused = tor[k].paused
      OBVIOUS
    <2>1. tor[k] \in Torrents
      BY HandleType
    <2>2. /\ cut(tor[k]) \in Torrents /\ cut(tor[k]).hash = tor[k].hash /\ cut(tor[k]).id = tor[k].id
          /\ cut(tor[k]).st = tor[k].st /\ cut(tor[k]).have = tor[k].have
          /\ cut(tor[k]).paused = tor[k].paused
      BY <1>9, <2>1
    <2>3. tor'[k] \in {cut(tor[k]), TakeFiles(cut(tor[k]), i.obj)}
      BY <1>12
    <2> QED BY <1>4, <2>2, <2>3, TakeFilesFacts
  <1>14. HandlesKept /\ DOMAIN tor' = DOMAIN tor
    <2>1. tor' \in [DOMAIN tor -> Torrents]
      BY <1>12, <1>13
    <2> QED BY <1>13, <2>1, AllHandles
  <1>15. /\ inits' \subseteq InitTasks
         /\ \A k \in inits' : \/ k = done
                              \/ \E j \in inits : /\ j.pc = k.pc /\ k.h = j.h
                                                  /\ k.hash = j.hash /\ k.have = j.have
    BY <1>10, <1>11, <1>12
  <1>16. /\ TypeOK' /\ DownIsEmpty' /\ TasksLinked' /\ CallsLinked'
         /\ IdsDiffer' /\ EntriesSound'
    <2>1. \A k \in inits' : \E j \in inits : k.h = j.h /\ k.hash = j.hash
      BY <1>11, <1>15
    <2>2. left' \in Nat
      BY <1>2 DEF TypeOK
    <2> QED BY <1>2, <1>3, <1>6, <1>8, <1>13, <1>14, <1>15, <2>1, <2>2, QuietStep
  <1>17. BitvSound'
    <2>1. ASSUME NEW g \in DOMAIN bitv', NEW p \in bitv'[g]
          PROVE  \/ p \in disk'[g].good
                 \/ \E f \in Files : p \in FilePieces[f] /\ f \notin disk'[g].full
      <3>1. CASE g = hash
        BY <1>6, <1>8, <3>1
      <3>2. CASE g # hash
        <4>1. g \in DOMAIN bitv /\ bitv'[g] = bitv[g] /\ disk'[g] = disk[g]
          BY <1>6, <1>8, <3>2
        <4> QED BY <4>1 DEF BitvSound
      <3> QED BY <3>1, <3>2
    <2> QED BY <1>2, <1>8, <2>1 DEF BitvSound
  <1>18. \A g \in Hashes : disk'[g].good = disk[g].good
    BY <1>6
  <1>19. ChecksSound'
    <2> SUFFICES ASSUME NEW k \in inits', k.pc = "commit", k.h \in db, k.hash \notin swept
                 PROVE  k.have \subseteq disk'[k.hash].good
      BY <1>2 DEF ChecksSound
    <2>1. CASE k = done
      BY <1>4, <1>7, <1>11, <1>18, <2>1
    <2>2. CASE \E j \in inits : j.pc = k.pc /\ k.h = j.h /\ k.hash = j.hash /\ k.have = j.have
      <3>1. k.hash \in Hashes
        BY <1>15 DEF InitTasks
      <3> QED BY <1>18, <2>2, <3>1 DEF ChecksSound
    <2> QED BY <1>15, <2>1, <2>2
  <1>20. HadOnDisk'
    <2> SUFFICES ASSUME NEW g \in db, tor'[g].st \in {"paused", "live"}, tor'[g].hash \notin swept
                 PROVE  tor'[g].have \subseteq disk'[tor'[g].hash].good
      BY <1>2 DEF HadOnDisk
    <2>1. g \in DOMAIN tor
      BY DEF TypeOK
    <2>2. tor'[g].hash \in Hashes
      BY <1>13, <2>1 DEF Torrents
    <2> QED BY <1>13, <1>18, <2>1, <2>2 DEF HadOnDisk
  <1> QED BY <1>16, <1>17, <1>19, <1>20

-----------------------------------------------------------------------------
(* Restarts *)

LEMMA EmptyMap == DOMAIN Empty = {} /\ IsFiniteSet(DOMAIN Empty)
  BY FS_EmptySet DEF Empty

LEMMA InitInv ==
  ASSUME Init
  PROVE  IndInv
  <1> USE DEF Init
  <1>1. \A c \in Callers : call[c] = Idle
    OBVIOUS
  <1>2. NoFiles \in [full: SUBSET Files, good: SUBSET Pieces]
    BY DEF NoFiles
  <1>3. call \in [Callers -> Requests] /\ disk \in [Hashes -> [full: SUBSET Files, good: SUBSET Pieces]]
    BY <1>2, IdleCall
  <1>4. TypeOK
    BY <1>3, EmptyMap, SessionAssumption DEF TypeOK
  <1>5. DownIsEmpty /\ TasksLinked /\ ChecksSound /\ HadOnDisk /\ IdsDiffer
    BY DEF DownIsEmpty, TasksLinked, ChecksSound, HadOnDisk, IdsDiffer
  <1>6. CallsLinked
    BY <1>1, IdleCall DEF CallsLinked, CallLinked
  <1>7. BitvSound /\ EntriesSound
    BY EmptyMap DEF BitvSound, EntriesSound, FlushedOrPending
  <1> QED BY <1>4, <1>5, <1>6, <1>7 DEF IndInv

LEMMA StopInv ==
  ASSUME IndInv, Stop
  PROVE  IndInv'
  <1> USE DEF IndInv
  <1>1. /\ up' = FALSE /\ tor' = <<>> /\ db' = {} /\ mem' = Empty /\ inits' = {} /\ restore' = {}
        /\ swept' = {} /\ left > 0 /\ left' = left - 1 /\ call' = [c \in Callers |-> Idle]
        /\ UNCHANGED <<persist, nextId, json, tfile, bitv, disk, stale>>
    BY DEF Stop, Spend
  <1>2. call' \in [Callers -> Requests] /\ \A c \in Callers : call'[c] = Idle
    BY <1>1, IdleCall
  <1>3. left' \in Nat /\ mem' \in [DOMAIN mem' -> Entries]
    BY <1>1, EmptyMap DEF TypeOK, Empty
  <1>3a. DOMAIN mem' = {} /\ IsFiniteSet(DOMAIN mem')
    BY <1>1, EmptyMap
  <1>3b. up' \in BOOLEAN
    BY <1>1
  <1>3c. tor' \in Seq(Torrents)
    BY <1>1
  <1>4. TypeOK'
    BY <1>1, <1>2, <1>3, <1>3a, <1>3b, <1>3c DEF TypeOK
  <1>5. /\ DownIsEmpty' /\ TasksLinked' /\ ChecksSound' /\ HadOnDisk' /\ IdsDiffer'
        /\ BitvSound' /\ EntriesSound'
    BY <1>1 DEF DownIsEmpty, TasksLinked, ChecksSound, HadOnDisk, IdsDiffer, BitvSound, EntriesSound
  <1>6. CallsLinked'
    BY <1>2, IdleCall DEF CallsLinked, CallLinked
  <1> QED BY <1>4, <1>5, <1>6

(* A piece that is lost lies in the file that is lost.                     *)
LEMMA FileLostInv ==
  ASSUME IndInv, NEW hash \in Hashes, NEW f \in Files, FileLost(hash, f)
  PROVE  IndInv'
  <1> USE DEF IndInv
  <1> DEFINE d == [disk[hash] EXCEPT !.full = @ \ {f}, !.good = @ \ FilePieces[f]]
  <1>1. /\ ~up /\ left > 0 /\ left' = left - 1 /\ disk' = [disk EXCEPT ![hash] = d]
        /\ UNCHANGED <<persist, up, tor, db, nextId, mem, json, tfile, bitv, call, inits, restore, stale, swept>>
    BY DEF FileLost, Spend, TypeOK
  <1>2. /\ d \in [full: SUBSET Files, good: SUBSET Pieces]
        /\ d.full = disk[hash].full \ {f} /\ d.good = disk[hash].good \ FilePieces[f]
    BY DEF TypeOK
  <1> HIDE DEF d
  <1>3. /\ disk' \in [Hashes -> [full: SUBSET Files, good: SUBSET Pieces]]
        /\ \A g \in Hashes : disk'[g] = IF g = hash THEN d ELSE disk[g]
    BY <1>1, <1>2 DEF TypeOK
  <1>4. TypeOK'
    BY <1>1, <1>3 DEF TypeOK
  <1>5. BitvSound'
    <2> SUFFICES ASSUME NEW g \in DOMAIN bitv, NEW p \in bitv[g]
                 PROVE  \/ p \in disk'[g].good
                        \/ \E e \in Files : p \in FilePieces[e] /\ e \notin disk'[g].full
      BY <1>1 DEF BitvSound
    <2>1. g \in Hashes
      BY DEF TypeOK
    <2> QED BY <1>2, <1>3, <2>1 DEF BitvSound
  <1>6. db = {} /\ inits = {}
    BY <1>1 DEF DownIsEmpty
  <1>7. /\ DownIsEmpty' /\ TasksLinked' /\ ChecksSound' /\ HadOnDisk' /\ IdsDiffer' /\ EntriesSound'
    BY <1>1, <1>6 DEF DownIsEmpty, TasksLinked, ChecksSound, HadOnDisk, IdsDiffer, EntriesSound
  <1>8. CallsLinked'
    BY <1>1, IdleCall DEF CallsLinked, CallLinked
  <1> QED BY <1>4, <1>5, <1>7, <1>8

LEMMA NewSessionInv ==
  ASSUME IndInv, NewSession
  PROVE  IndInv'
  <1> USE DEF IndInv
  <1>1. /\ ~up /\ up' = TRUE /\ nextId' = 0 /\ mem' = (IF persist THEN json ELSE Empty)
        /\ restore' = DOMAIN mem'
        /\ UNCHANGED <<persist, tor, db, json, tfile, bitv, disk, call, inits, stale, swept, left>>
    BY DEF NewSession, StreamAll
  <1>2. db = {} /\ inits = {} /\ \A c \in Callers : call'[c] = Idle
    BY <1>1 DEF DownIsEmpty, CallsLinked
  <1>3. DOMAIN mem' \subseteq Nat /\ IsFiniteSet(DOMAIN mem') /\ mem' \in [DOMAIN mem' -> Entries]
    <2>1. CASE persist
      BY <1>1, <2>1 DEF TypeOK
    <2>2. CASE ~persist
      <3>1. mem' = Empty
        BY <1>1, <2>2
      <3> QED BY <3>1, EmptyMap DEF Empty
    <2> QED BY <2>1, <2>2
  <1>4. TypeOK'
    BY <1>1, <1>3 DEF TypeOK
  <1>5. /\ DownIsEmpty' /\ TasksLinked' /\ ChecksSound' /\ HadOnDisk' /\ IdsDiffer' /\ BitvSound'
    BY <1>1, <1>2 DEF DownIsEmpty, TasksLinked, ChecksSound, HadOnDisk, IdsDiffer, BitvSound
  <1>6. CallsLinked'
    BY <1>2, IdleCall DEF CallsLinked, CallLinked
  <1>7. ASSUME persist PROVE FlushedOrPending'
    <2>1. mem' = json /\ json' = json
      BY <1>1, <1>7
    <2> QED BY <2>1 DEF FlushedOrPending, SameEntry
  <1>8. EntriesSound'
    BY <1>1, <1>2, <1>7 DEF EntriesSound, HasTorrent
  <1> QED BY <1>4, <1>5, <1>6, <1>8

LEMMA RestoreInv ==
  ASSUME IndInv, NEW id \in restore, Restore(id)
  PROVE  IndInv'
  <1> USE DEF IndInv
  <1> DEFINE e == mem[id]
             h == Len(tor) + 1
             t == NewTorrent(e.hash, id, e.paused)
             u == StartInitializing(t)
             i == InitTask(h, t, e.paused)
  <1>1. restore' = restore \ {id} /\ UNCHANGED <<persist, up, nextId, mem, bitv, disk, call, swept>>
    BY DEF Restore
  <1>2. /\ up /\ id \in DOMAIN mem /\ id \in Nat /\ e \in Entries
        /\ \A c \in Callers : call[c] = Idle /\ call'[c] = Idle
    BY <1>1 DEF TypeOK, CallsLinked, DownIsEmpty
  <1>3. CallsLinked'
    BY <1>2, IdleCall DEF CallsLinked, CallLinked
  <1>4. CASE /\ stale' = stale \cup {id} /\ UNCHANGED <<tor, db, inits, tfile, json>>
             /\ left' \in Nat
    <2>1. TypeOK' /\ DownIsEmpty' /\ TasksLinked' /\ IdsDiffer'
      BY <1>1, <1>4 DEF TypeOK, DownIsEmpty, TasksLinked, IdsDiffer
    <2>2. BitvSound' /\ ChecksSound' /\ HadOnDisk'
      BY <1>1, <1>4 DEF BitvSound, ChecksSound, HadOnDisk
    <2>3. ASSUME persist PROVE FlushedOrPending' /\ (\A g \in db : HasEntry(g)') /\ \A n \in DOMAIN mem : HasTorrent(n)'
      <3>1. FlushedOrPending /\ (\A g \in db : HasEntry(g)) /\ \A n \in DOMAIN mem : HasTorrent(n)
        BY <1>2, <2>3 DEF EntriesSound
      <3>2. FlushedOrPending'
        BY <1>1, <1>4, <3>1 DEF FlushedOrPending, SameEntry
      <3>3. \A g \in db : HasEntry(g)'
        BY <1>1, <1>4, <3>1 DEF HasEntry
      <3>4. \A n \in DOMAIN mem : HasTorrent(n)'
        BY <1>1, <1>4, <3>1 DEF HasTorrent
      <3> QED BY <3>2, <3>3, <3>4
    <2>4. EntriesSound'
      BY <1>1, <1>4, <2>3 DEF EntriesSound
    <2> QED BY <1>3, <2>1, <2>2, <2>4
  <1>5. CASE /\ ~Managed(e.hash, id) /\ tor' = Append(tor, u) /\ inits' = inits \cup {i}
             /\ db' = db \cup {h} /\ tfile' = tfile \cup {e.hash} /\ json' = mem
             /\ stale' = stale \ {id} /\ left' = left
    <2>1. e.hash \in Hashes /\ e.paused \in BOOLEAN /\ e = SerializedTorrent(e.hash, e.paused)
      BY <1>2 DEF Entries, SerializedTorrent
    <2>2. /\ t \in Torrents /\ t.hash = e.hash /\ t.id = id /\ t.paused = e.paused
          /\ t.st = "initializing"
      BY <1>2, <2>1, NewTorrentFacts
    <2>3. /\ u \in Torrents /\ u.hash = e.hash /\ u.id = id /\ u.paused = e.paused
          /\ u.st = "initializing"
      BY <2>2, StartInitializingFacts
    <2>4. h \in Nat
      BY DEF TypeOK
    <2> HIDE DEF u
    <2>5. /\ HandlesKept /\ h \notin DOMAIN tor
          /\ DOMAIN tor' = DOMAIN tor \cup {h} /\ tor'[h] = u
          /\ \A g \in DOMAIN tor : tor'[g] = tor[g]
      BY <1>5, <2>3, NewHandle
    <2> HIDE DEF t, h
    <2>6. i \in InitTasks /\ i.h = h /\ i.hash = e.hash /\ i.pc = "check"
      BY <2>1, <2>2, <2>4 DEF InitTask, InitTasks, Torrents
    <2> HIDE DEF i
    <2>7. TypeOK' /\ DownIsEmpty'
      BY <1>1, <1>2, <1>5, <2>1, <2>5, <2>6 DEF TypeOK, DownIsEmpty, HandlesKept
    <2>8. TasksLinked'
      BY <1>5, <2>3, <2>5, <2>6 DEF TasksLinked
    <2>9. BitvSound' /\ ChecksSound' /\ HadOnDisk'
      <3>1. \A g \in db' : \/ tor'[g].st \notin {"paused", "live"}
                           \/ /\ g \in db /\ tor[g].st \in {"paused", "live"}
                              /\ tor'[g].have = tor[g].have
        BY <1>5, <2>3, <2>5 DEF TypeOK
      <3>2. db' \cap DOMAIN tor \subseteq db
        BY <1>5, <2>5
      <3>3. \A j \in inits' : \/ j.pc # "commit"
                              \/ \E k \in inits : /\ k.pc = "commit" /\ j.h = k.h
                                                  /\ j.hash = k.hash /\ j.have = k.have
        BY <1>5, <2>6
      <3> QED BY <1>1, <2>5, <3>1, <3>2, <3>3, ClaimsKept
    <2>10. db \subseteq DOMAIN tor /\ \A g \in db : tor'[g] = tor[g] /\ tor[g].id # id /\ g # h
      BY <1>5, <2>5 DEF TypeOK, Managed
    <2>11. IdsDiffer'
      BY <1>5, <2>3, <2>5, <2>10 DEF IdsDiffer
    <2>12. FlushedOrPending'
      <3>1. json' = mem /\ mem' = mem
        BY <1>1, <1>5
      <3> QED BY <3>1 DEF FlushedOrPending, SameEntry
    <2>13. ASSUME persist, NEW g \in db' PROVE HasEntry(g)'
      <3>1. CASE g = h
        BY <1>1, <1>2, <2>1, <2>3, <2>5, <3>1 DEF HasEntry
      <3>2. CASE g # h
        <4>1. g \in db /\ HasEntry(g)
          BY <1>2, <1>5, <2>13, <3>2 DEF EntriesSound
        <4> QED BY <1>1, <1>5, <2>10, <4>1 DEF HasEntry
      <3> QED BY <3>1, <3>2
    <2>14. ASSUME persist, NEW n \in DOMAIN mem PROVE HasTorrent(n)'
      <3>1. HasTorrent(n)
        BY <1>2, <2>14 DEF EntriesSound
      <3>2. CASE n = id
        BY <1>5, <2>3, <2>5, <3>2 DEF HasTorrent
      <3>3. CASE n # id
        BY <1>1, <1>5, <2>10, <3>1, <3>3 DEF HasTorrent
      <3> QED BY <3>2, <3>3
    <2>15. EntriesSound'
      BY <1>1, <2>12, <2>13, <2>14 DEF EntriesSound
    <2> QED BY <1>3, <2>7, <2>8, <2>9, <2>11, <2>15
  <1>6. left > 0 => left - 1 \in Nat
    BY DEF TypeOK
  <1>7. left \in Nat
    BY DEF TypeOK
  <1> QED BY <1>4, <1>5, <1>6, <1>7 DEF Restore, Spend

-----------------------------------------------------------------------------
(* The theorems *)

LEMMA CallerInv ==
  ASSUME IndInv, NEW c \in Callers,
         \/ CallStep(c) \/ FlushFails(c)
         \/ \E hash \in Hashes, paused \in BOOLEAN : AddTorrent(c, hash, paused)
         \/ \E h \in DOMAIN tor :
               \/ ActionPause(c, h) \/ ActionStart(c, h) \/ ActionUpdateOnlyFiles(c, h)
               \/ ActionForget(c, h) \/ ActionDelete(c, h)
  PROVE  IndInv'
  <1>1. CASE CallStep(c)
    BY <1>1, UpdateDbReadsInv, UpdateDbInsertsInv, FlushInv, AddCreatesInv, AddStartsInv,
       DeleteForgetsInv, DeleteUnlinksInv, DeleteFilesInv DEF CallStep
  <1>2. CASE FlushFails(c)
    BY <1>2, FlushFailsInv
  <1>3. CASE \E hash \in Hashes, paused \in BOOLEAN : AddTorrent(c, hash, paused)
    BY <1>3, AddTorrentInv
  <1>4. ASSUME NEW h \in DOMAIN tor, ActionPause(c, h) \/ ActionStart(c, h) \/ ActionUpdateOnlyFiles(c, h)
        PROVE  IndInv'
    BY <1>4, PauseInv, UnpauseInv, UpdateOnlyFilesInv
       DEF ActionPause, ActionStart, ActionUpdateOnlyFiles, Handle
  <1>5. ASSUME NEW h \in DOMAIN tor, ActionForget(c, h) \/ ActionDelete(c, h)
        PROVE  IndInv'
    <2>1. PICK remove \in BOOLEAN : Delete(c, h, remove)
      BY <1>5 DEF ActionForget, ActionDelete
    <2> QED BY <2>1, DeleteInv
  <1> QED BY <1>1, <1>2, <1>3, <1>4, <1>5

LEMMA NextInv ==
  ASSUME IndInv, [Next]_vars
  PROVE  IndInv'
  <1>1. CASE \E c \in Callers :
               \/ CallStep(c) \/ FlushFails(c)
               \/ \E hash \in Hashes, paused \in BOOLEAN : AddTorrent(c, hash, paused)
               \/ \E h \in DOMAIN tor :
                     \/ ActionPause(c, h) \/ ActionStart(c, h) \/ ActionUpdateOnlyFiles(c, h)
                     \/ ActionForget(c, h) \/ ActionDelete(c, h)
    BY <1>1, CallerInv
  <1>2. CASE InitStep
    BY <1>2, InitCheckInv, InitCommitInv DEF InitStep
  <1>3. CASE \E i \in inits : InitFails(i)
    BY <1>3, InitFailsInv
  <1>4. CASE \E h \in DOMAIN tor : FatalError(h) \/ StopWithError(h) \/ \E p \in Pieces : Download(h, p)
    BY <1>4, FatalErrorInv, StopWithErrorInv, DownloadInv
  <1>5. CASE Stop \/ NewSession
    BY <1>5, StopInv, NewSessionInv
  <1>6. CASE \E hash \in Hashes, f \in Files : FileLost(hash, f)
    BY <1>6, FileLostInv
  <1>7. CASE \E id \in restore : Restore(id)
    BY <1>7, RestoreInv
  <1>8. CASE UNCHANGED vars
    BY <1>8 DEF vars, files, IndInv, TypeOK, DownIsEmpty, TasksLinked, CallsLinked, CallLinked,
                BitvSound, ChecksSound, HadOnDisk, IdsDiffer, EntriesSound, FlushedOrPending,
                SameEntry, HasEntry, HasTorrent
  <1> QED BY <1>1, <1>2, <1>3, <1>4, <1>5, <1>6, <1>7, <1>8 DEF Next

(* The invariant the others rest on holds in every state a session gets to.*)
THEOREM Invariance == Spec => []IndInv
  <1>1. Init => IndInv
    BY InitInv
  <1>2. IndInv /\ [Next]_vars => IndInv'
    BY NextInv
  <1> QED BY <1>1, <1>2, PTL DEF Spec

(* A torrent never claims a piece that its files do not hold, whatever is  *)
(* deleted, added again, lost or cut short by a crash: initial checks, fast*)
(* resume and downloads keep HadOnDisk.                                    *)
THEOREM ClaimsOnlyWhatIsThere == Spec => []HadOnDisk
  <1>1. IndInv => HadOnDisk
    BY DEF IndInv
  <1> QED BY <1>1, Invariance, PTL

(* Whenever no call is under way session.json holds exactly the managed    *)
(* torrents with their paused flags, stale entries aside: JsonMatches.     *)
THEOREM JsonIsTheSession == Spec => []JsonMatches
  <1>1. ASSUME IndInv PROVE JsonMatches
    <2> SUFFICES ASSUME up, persist, restore = {}, \A c \in Callers : call[c] = Idle
                 PROVE  /\ \A h \in db :
                              tor[h].id \in stale
                              \/ /\ tor[h].id \in DOMAIN json
                                 /\ json[tor[h].id] = SerializedTorrent(tor[h].hash, tor[h].paused)
                        /\ DOMAIN json \subseteq {tor[h].id : h \in db} \cup stale
      BY DEF JsonMatches
    <2>1. \A c \in Callers : call[c].pc = "idle"
      BY IdleCall
    <2>2. \A n \in DOMAIN mem \cup DOMAIN json : SameEntry(n) \/ n \in stale
      BY <1>1, <2>1 DEF IndInv, EntriesSound, FlushedOrPending
    <2>3. ASSUME NEW h \in db, tor[h].id \notin stale
          PROVE  /\ tor[h].id \in DOMAIN json
                 /\ json[tor[h].id] = SerializedTorrent(tor[h].hash, tor[h].paused)
      <3>1. tor[h].id \in DOMAIN mem /\ mem[tor[h].id] = SerializedTorrent(tor[h].hash, tor[h].paused)
        BY <1>1, <2>1, <2>3 DEF IndInv, EntriesSound, HasEntry
      <3> QED BY <2>2, <2>3, <3>1 DEF SameEntry
    <2>4. ASSUME NEW n \in DOMAIN json, n \notin stale
          PROVE  \E h \in db : tor[h].id = n
      <3>1. n \in DOMAIN mem
        BY <2>2, <2>4 DEF SameEntry
      <3> QED BY <1>1, <2>1, <2>4, <3>1 DEF IndInv, EntriesSound, HasTorrent
    <2> QED BY <2>3, <2>4
  <1> QED BY <1>1, Invariance, PTL
=============================================================================
