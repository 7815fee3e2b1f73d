---------------------------- MODULE PeersProofs ----------------------------
(***************************************************************************)
(* Proofs about the peer table, for any number of addresses and permits    *)
(* and any number of retries.                                              *)
(***************************************************************************)
EXTENDS Peers, FiniteSetTheorems, TLAPS

Tables == [Addrs -> States \cup {"absent"}]
Active == {"connecting", "live"}
Running == {"dial", "hello", "run"}

-----------------------------------------------------------------------------
(* What set_state keeps up to date                                         *)

LEMMA InState ==
  ASSUME NEW u, NEW s
  PROVE  Cardinality({a \in Addrs : u[a] = s}) \in Nat
  <1>1. {a \in Addrs : u[a] = s} \subseteq Addrs
    OBVIOUS
  <1> QED BY <1>1, PeersAssumption, FS_Subset, FS_CardinalityType

(* incdec keeps the counters equal to the numbers they stand for.          *)
LEMMA Recounted ==
  ASSUME SummariesInSync, NEW u
  PROVE  /\ Recount(tab, u) \in [States -> Int]
         /\ \A s \in States : Recount(tab, u)[s] = Cardinality({a \in Addrs : u[a] = s})
  <1> DEFINE n(f, s) == Cardinality({a \in Addrs : f[a] = s})
  <1>1. \A s \in States : n(u, s) \in Nat /\ n(tab, s) \in Nat /\ count[s] = n(tab, s)
    <2> TAKE s \in States
    <2>1. n(u, s) \in Nat
      BY InState
    <2>2. n(tab, s) \in Nat
      BY InState
    <2> QED BY <2>1, <2>2 DEF SummariesInSync
  <1>2. Recount(tab, u) = [s \in States |-> count[s] + n(u, s) - n(tab, s)]
    BY DEF Recount
  <1> HIDE DEF n
  <1>3. \A s \in States : count[s] + n(u, s) - n(tab, s) = n(u, s) /\ n(u, s) \in Int
    BY <1>1
  <1>4. \A s \in States : Recount(tab, u)[s] = n(u, s)
    BY <1>2, <1>3
  <1>5. Recount(tab, u) \in [States -> Int]
    BY <1>2, <1>3
  <1> QED BY <1>4, <1>5 DEF n

(* set_state announces no address that no live peer has.                   *)
LEMMA AnnouncedLive ==
  ASSUME TypeOK, SummariesInSync, NEW u, NEW m \in SUBSET Addrs
  PROVE  Announced(u, m) \subseteq stray \cup {out[a] : a \in {b \in Addrs : u[b] = "live"}}
  BY DEF Announced, SummariesInSync

LEMMA SetTableSync ==
  ASSUME IndInv, NEW u \in Tables, NEW m \in SUBSET Addrs, SetTable(u, m),
         out' = out, stray \subseteq stray'
  PROVE  tab' \in Tables /\ count' \in [States -> Int] /\ SummariesInSync'
  <1> USE DEF IndInv
  <1>1. tab' = u /\ count' = Recount(tab, u) /\ pex' = Announced(u, m)
    BY DEF SetTable
  <1>2. \A s \in States : count'[s] = Cardinality({a \in Addrs : tab'[a] = s})
    BY <1>1, Recounted
  <1>3. pex' \subseteq stray' \cup {out'[a] : a \in {b \in Addrs : tab'[b] = "live"}}
    BY <1>1, AnnouncedLive
  <1> QED BY <1>1, <1>2, <1>3, Recounted DEF SummariesInSync

LEMMA SetStateSync ==
  ASSUME IndInv, NEW a \in Addrs, NEW new \in States, SetState(a, new),
         out' = out, stray \subseteq stray'
  PROVE  /\ tab' = [tab EXCEPT ![a] = new] /\ tab' \in Tables
         /\ count' \in [States -> Int] /\ SummariesInSync'
  <1>1. [tab EXCEPT ![a] = new] \in Tables /\ met \in SUBSET Addrs
    BY DEF IndInv, TypeOK, Tables
  <1>2. SetTable([tab EXCEPT ![a] = new], met)
    BY DEF SetState
  <1>3. tab' = [tab EXCEPT ![a] = new]
    BY <1>2 DEF SetTable
  <1> QED BY <1>1, <1>2, <1>3, SetTableSync

(* A peer that enters or leaves the table: pex is left alone, so what the  *)
(* entry was announced as must be accounted for.                           *)
LEMMA InTableSync ==
  ASSUME IndInv, NEW a \in Addrs, NEW new \in States \cup {"absent"}, InTable(a, new),
         \A b \in Addrs \ {a} : out'[b] = out[b],
         stray \subseteq stray',
         tab[a] = "live" => pex \cap {out[a]} \subseteq stray'
  PROVE  /\ tab' = [tab EXCEPT ![a] = new] /\ tab' \in Tables
         /\ count' \in [States -> Int] /\ SummariesInSync'
  <1> USE DEF IndInv
  <1>1. tab' = [tab EXCEPT ![a] = new] /\ count' = Recount(tab, tab') /\ pex' = pex
    BY DEF InTable
  <1>2. tab' \in Tables
    BY <1>1 DEF TypeOK, Tables
  <1>3. \A s \in States : count'[s] = Cardinality({b \in Addrs : tab'[b] = s})
    <2>1. \A s \in States : Recount(tab, tab')[s] = Cardinality({b \in Addrs : tab'[b] = s})
      BY Recounted, Zenon
    <2> QED BY <1>1, <2>1
  <1>4. pex' \subseteq stray' \cup {out'[b] : b \in {c \in Addrs : tab'[c] = "live"}}
    <2> SUFFICES ASSUME NEW x \in pex, x \notin stray'
                 PROVE  \E b \in Addrs : tab'[b] = "live" /\ x = out'[b]
      BY <1>1
    <2>1. PICK b \in Addrs : tab[b] = "live" /\ x = out[b]
      BY DEF SummariesInSync
    <2>2. b # a
      BY <2>1
    <2> QED BY <1>1, <2>1, <2>2 DEF TypeOK
  <1> QED BY <1>1, <1>2, <1>3, <1>4, Recounted DEF SummariesInSync

LEMMA UntouchedSync ==
  ASSUME IndInv, UNCHANGED <<tab, count, pex>>, out' = out, stray \subseteq stray'
  PROVE  tab' \in Tables /\ count' \in [States -> Int] /\ SummariesInSync'
  BY DEF IndInv, TypeOK, Tables, SummariesInSync

-----------------------------------------------------------------------------
(* What a task is while it is one                                          *)

LEMMA TaskType ==
  ASSUME TypeOK, NEW s \in Slots, task[s].pc # "none"
  PROVE  task[s] \in Tasks /\ task[s].addr \in Addrs
  BY DEF TypeOK, Tasks, NoTask

LEMMA NewPeerType ==
  ASSUME TypeOK, NEW a \in Addrs, NEW address \in Addrs \cup {NoAddr}, NewPeer(a, address)
  PROVE  /\ out' \in [Addrs -> Addrs \cup {NoAddr}]
         /\ \A b \in Addrs \ {a} : out'[b] = out[b]
         /\ tries' \in [Addrs -> 0..MaxTries]
         /\ met' \subseteq Addrs
  BY PeersAssumption DEF NewPeer, TypeOK

(* A live or connecting peer keeps its task as long as its slot does not   *)
(* stop running.                                                           *)
LEMMA TaskFrame ==
  ASSUME TypeOK, LiveHasTask, tx' = tx,
         \A a \in Addrs : tab'[a] \in Active => tab[a] \in Active,
         \A a \in Addrs : tab'[a] \in Active =>
            /\ task'[tx[a]].addr = task[tx[a]].addr
            /\ task[tx[a]].pc \in Running => task'[tx[a]].pc \in Running
  PROVE  LiveHasTask'
  BY DEF LiveHasTask, Active, Running

LEMMA InitInv == Init => IndInv
  <1> SUFFICES ASSUME Init PROVE IndInv
    OBVIOUS
  <1>1. TypeOK
    BY PeersAssumption DEF Init, TypeOK
  <1>2. \A s \in States : {a \in Addrs : tab[a] = s} = {}
    BY DEF Init, States
  <1>3. Cardinality({}) = 0
    BY FS_EmptySet
  <1>4. SummariesInSync
    <2>1. \A s \in States : count[s] = 0
      BY DEF Init
    <2>2. pex = {}
      BY DEF Init
    <2> QED BY <1>2, <1>3, <2>1, <2>2 DEF SummariesInSync
  <1>5. LiveHasTask
    BY DEF Init, LiveHasTask
  <1> QED BY <1>1, <1>4, <1>5 DEF IndInv

-----------------------------------------------------------------------------
(* One lemma per action                                                    *)

LEMMA AddPeerInv ==
  ASSUME IndInv, NEW a \in Addrs, AddPeerIfNotSeen(a)
  PROVE  IndInv'
  <1> USE DEF IndInv
  <1>1. /\ tab[a] = "absent" /\ InTable(a, "queued") /\ NewPeer(a, a) /\ Enqueue(a)
        /\ UNCHANGED <<tx, stray, adder, task, timer, ent>>
    BY DEF AddPeerIfNotSeen
  <1>2. /\ tab' = [tab EXCEPT ![a] = "queued"] /\ tab' \in Tables
        /\ count' \in [States -> Int] /\ SummariesInSync'
    BY <1>1, NewPeerType, InTableSync DEF States
  <1>3. TypeOK'
    BY <1>1, <1>2, NewPeerType DEF TypeOK, Tables, Enqueue
  <1>4. LiveHasTask'
    BY <1>1, <1>2, TaskFrame DEF TypeOK, Active
  <1> QED BY <1>2, <1>3, <1>4

LEMMA IncomingInv ==
  ASSUME IndInv, NEW a \in Addrs, NEW s \in Slots, AddIncoming(a, s)
  PROVE  IndInv'
  <1> USE DEF IndInv
  <1>1. /\ task[s].pc = "none" /\ tab[a] \notin Active
        /\ tx' = [tx EXCEPT ![a] = s] /\ task' = [task EXCEPT ![s] = IncomingTask(a)]
        /\ UNCHANGED <<stray, queue, adder, timer, ent>>
    BY DEF AddIncoming, Permit, Free, IncomingConnection, Active
  <1>2. /\ tab' = [tab EXCEPT ![a] = "live"] /\ tab' \in Tables
        /\ count' \in [States -> Int] /\ SummariesInSync'
        /\ out' \in [Addrs -> Addrs \cup {NoAddr}]
        /\ tries' \in [Addrs -> 0..MaxTries]
        /\ met' \subseteq Addrs
    <2>1. CASE tab[a] = "absent"
      <3>1. InTable(a, "live") /\ NewPeer(a, NoAddr)
        BY <2>1 DEF AddIncoming
      <3> QED BY <1>1, <2>1, <3>1, NewPeerType, InTableSync DEF States
    <2>2. CASE tab[a] # "absent"
      <3>1. SetState(a, "live") /\ UNCHANGED <<out, tries, met>>
        BY <2>2 DEF AddIncoming
      <3> QED BY <1>1, <3>1, SetStateSync DEF States, TypeOK
    <2> QED BY <2>1, <2>2
  <1>3. IncomingTask(a) \in Tasks
    BY DEF IncomingTask, Tasks
  <1>4. TypeOK'
    BY <1>1, <1>2, <1>3 DEF TypeOK, Tables
  <1>5. LiveHasTask'
    <2> SUFFICES ASSUME NEW b \in Addrs, tab'[b] \in Active
                 PROVE  tx'[b] # NoSlot /\ task'[tx'[b]].addr = b /\ task'[tx'[b]].pc \in Running
      BY DEF LiveHasTask, Active, Running
    <2>1. CASE b = a
      BY <1>1, <2>1, PeersAssumption DEF TypeOK, IncomingTask, Running
    <2>2. CASE b # a
      <3>1. tab[b] \in Active /\ tx'[b] = tx[b]
        BY <1>1, <1>2, <2>2 DEF TypeOK
      <3>2. tx[b] # NoSlot /\ task[tx[b]].addr = b /\ task[tx[b]].pc \in Running
        BY <3>1 DEF LiveHasTask, Active, Running
      <3>3. tx[b] # s /\ tx[b] \in Slots
        BY <1>1, <3>2 DEF Running, TypeOK
      <3> QED BY <1>1, <3>1, <3>2, <3>3 DEF TypeOK
    <2> QED BY <2>1, <2>2
  <1> QED BY <1>2, <1>4, <1>5

(* Steps of a task that leave the table alone.                             *)
LEMMA HandshakeInInv ==
  ASSUME IndInv, NEW s \in Slots, HandshakeIn(s)
  PROVE  IndInv'
  <1> USE DEF IndInv
  <1>1. /\ task[s].pc = "hello" /\ task' = [task EXCEPT ![s].pc = "run"]
        /\ UNCHANGED <<tab, tx, out, count, met, pex, stray, queue, adder, timer, tries, ent>>
    BY DEF HandshakeIn, known
  <1>2. task[s] \in Tasks
    BY <1>1, TaskType
  <1>3. task' \in [Slots -> Tasks \cup {NoTask}]
    BY <1>1, <1>2 DEF TypeOK, Tasks
  <1>4. TypeOK' /\ SummariesInSync'
    BY <1>1, <1>3, UntouchedSync DEF TypeOK, Tables
  <1>5. \A r \in Slots : task'[r].addr = task[r].addr /\ (task[r].pc \in Running => task'[r].pc \in Running)
    BY <1>1, <1>2 DEF TypeOK, Running, Tasks
  <1>6. LiveHasTask'
    <2>1. \A a \in Addrs : tab[a] \in Active => tx[a] \in Slots
      BY DEF LiveHasTask, Active, TypeOK
    <2> QED BY <1>1, <1>5, <2>1, TaskFrame
  <1> QED BY <1>4, <1>6

LEMMA LearnOutgoingInv ==
  ASSUME IndInv, NEW s \in Slots, LearnOutgoing(s)
  PROVE  IndInv'
  <1> USE DEF IndInv
  <1> DEFINE a == task[s].addr
  <1>1. /\ task[s].pc = "run" /\ out' = [out EXCEPT ![a] = Outgoing[a]]
        /\ stray' = IF tab[a] = "live" /\ out[a] \in pex THEN stray \cup {out[a]} ELSE stray
        /\ UNCHANGED <<tab, tx, count, met, pex, queue, adder, task, timer, tries, ent>>
    BY DEF LearnOutgoing
  <1>2. a \in Addrs
    BY <1>1, TaskType
  <1>3. TypeOK'
    BY <1>1, <1>2, PeersAssumption DEF TypeOK
  <1>4. pex \subseteq stray' \cup {out'[x] : x \in {b \in Addrs : tab[b] = "live"}}
    <2> HIDE DEF a
    <2> SUFFICES ASSUME NEW x \in pex, x \notin stray'
                 PROVE  \E b \in Addrs : tab[b] = "live" /\ x = out'[b]
      OBVIOUS
    <2>1. PICK b \in Addrs : tab[b] = "live" /\ x = out[b]
      BY <1>1 DEF SummariesInSync
    <2>2. b # a
      BY <1>1, <2>1
    <2> QED BY <1>1, <1>2, <2>1, <2>2 DEF TypeOK
  <1>5. SummariesInSync'
    BY <1>1, <1>4 DEF SummariesInSync
  <1>6. LiveHasTask'
    BY <1>1 DEF LiveHasTask
  <1> QED BY <1>3, <1>5, <1>6

LEMMA ResetBackoffInv ==
  ASSUME IndInv, NEW s \in Slots, ResetBackoff(s)
  PROVE  IndInv'
  <1> USE DEF IndInv
  <1>1. /\ \E a : tries' = [tries EXCEPT ![a] = MaxTries]
        /\ UNCHANGED <<tab, tx, out, count, met, pex, stray, queue, adder, task, timer, ent>>
    BY DEF ResetBackoff, known
  <1>2. tries' \in [Addrs -> 0..MaxTries]
    <2>1. MaxTries \in 0..MaxTries
      BY PeersAssumption
    <2> QED BY <1>1, <2>1 DEF TypeOK
  <1>3. TypeOK'
    BY <1>1, <1>2 DEF TypeOK
  <1> QED BY <1>1, <1>3 DEF SummariesInSync, LiveHasTask

LEMMA AdderRecvInv ==
  ASSUME IndInv, AdderRecv
  PROVE  IndInv'
  <1> USE DEF IndInv
  <1> DEFINE a == Head(queue)
  <1>1. /\ queue # <<>> /\ queue' = Tail(queue)
        /\ UNCHANGED <<tx, out, met, stray, task, timer, tries, ent>>
    BY DEF AdderRecv
  <1>2. a \in Addrs /\ queue' \in Seq(Addrs)
    BY <1>1 DEF TypeOK
  <1>3. \/ adder' = adder /\ SetState(a, "notneeded")
        \/ adder' \in {adder, NoAddr, a} /\ UNCHANGED <<tab, count, pex>>
    BY DEF AdderRecv, MarkNotNeeded
  <1> HIDE DEF a
  <1>4. CASE adder' = adder /\ SetState(a, "notneeded")
    <2>1. /\ tab' = [tab EXCEPT ![a] = "notneeded"] /\ tab' \in Tables
          /\ count' \in [States -> Int] /\ SummariesInSync'
      BY <1>1, <1>2, <1>4, SetStateSync DEF States
    <2>2. LiveHasTask'
      BY <1>1, <1>2, <2>1, TaskFrame DEF TypeOK, Active
    <2>3. TypeOK'
      BY <1>1, <1>2, <1>4, <2>1 DEF TypeOK, Tables
    <2> QED BY <2>1, <2>2, <2>3
  <1>5. CASE adder' \in {adder, NoAddr, a} /\ UNCHANGED <<tab, count, pex>>
    BY <1>1, <1>2, <1>5 DEF TypeOK, SummariesInSync, LiveHasTask
  <1> QED BY <1>3, <1>4, <1>5

LEMMA AdderSpawnInv ==
  ASSUME IndInv, NEW s \in Slots, AdderSpawn(s)
  PROVE  IndInv'
  <1> USE DEF IndInv
  <1>1. /\ task[s].pc = "none" /\ adder \in Addrs /\ adder' = NoAddr
        /\ task' = [task EXCEPT ![s] = OutgoingTask(adder)]
        /\ UNCHANGED <<tab, tx, out, count, met, pex, stray, queue, timer, tries, ent>>
    BY DEF AdderSpawn, Permit, Free, known, TypeOK
  <1>2. OutgoingTask(adder) \in Tasks
    BY <1>1 DEF OutgoingTask, Tasks
  <1>3. TypeOK' /\ SummariesInSync'
    BY <1>1, <1>2, UntouchedSync DEF TypeOK
  <1>4. LiveHasTask'
    <2>1. \A a \in Addrs : tab[a] \in Active =>
              tx[a] # NoSlot /\ task[tx[a]].pc # "none"
      BY DEF LiveHasTask, Active
    <2>2. \A a \in Addrs : tab[a] \in Active => tx[a] \in Slots /\ tx[a] # s
      BY <1>1, <2>1 DEF TypeOK
    <2>3. \A a \in Addrs : tab[a] \in Active => task'[tx[a]] = task[tx[a]]
      BY <1>1, <2>2 DEF TypeOK
    <2> QED BY <1>1, <2>3, TaskFrame
  <1> QED BY <1>3, <1>4

(* The task of s stops running, or never ran: a peer that is live or       *)
(* connecting afterwards has another one.                                  *)
LEMMA TaskLeaves ==
  ASSUME TypeOK, LiveHasTask, NEW s \in Slots, tx' = tx,
         \A a \in Addrs : tab'[a] \in Active => tab[a] \in Active,
         task[s].pc \in Running => tab'[task[s].addr] \notin Active,
         \A r \in Slots \ {s} : task'[r] = task[r]
  PROVE  LiveHasTask'
  <1>1. ASSUME NEW a \in Addrs, tab'[a] \in Active
        PROVE  tx[a] \in Slots \ {s}
    <2>1. tx[a] \in Slots /\ task[tx[a]].addr = a /\ task[tx[a]].pc \in Running
      BY <1>1 DEF LiveHasTask, TypeOK, Active, Running
    <2> QED BY <1>1, <2>1
  <1> QED BY <1>1, TaskFrame

LEMMA MarkConnectingInv ==
  ASSUME IndInv, NEW s \in Slots, MarkConnecting(s)
  PROVE  IndInv'
  <1> USE DEF IndInv
  <1> DEFINE a == task[s].addr
  <1>1. /\ task[s].pc = "start"
        /\ UNCHANGED <<out, met, stray, queue, adder, timer, tries, ent>>
    BY DEF MarkConnecting
  <1>2. task[s] \in Tasks /\ a \in Addrs
    BY <1>1, TaskType
  <1>3. CASE IdleToConnecting(a)
    <2>1. /\ SetState(a, "connecting") /\ tx' = [tx EXCEPT ![a] = s]
          /\ task' = [task EXCEPT ![s].pc = "dial"]
      BY <1>3 DEF MarkConnecting
    <2>2. /\ tab' = [tab EXCEPT ![a] = "connecting"] /\ tab' \in Tables
          /\ count' \in [States -> Int] /\ SummariesInSync'
      <3> HIDE DEF a
      <3> QED BY <1>1, <1>2, <2>1, SetStateSync DEF States
    <2>3. /\ task' \in [Slots -> Tasks \cup {NoTask}]
          /\ task'[s].addr = a /\ task'[s].pc = "dial"
          /\ \A r \in Slots \ {s} : task'[r] = task[r]
      BY <1>2, <2>1 DEF TypeOK, Tasks
    <2>4. TypeOK'
      BY <1>1, <2>1, <2>2, <2>3 DEF TypeOK, Tables
    <2>5. LiveHasTask'
      <3> HIDE DEF a
      <3> SUFFICES ASSUME NEW b \in Addrs, tab'[b] \in Active
                   PROVE  tx'[b] # NoSlot /\ task'[tx'[b]].addr = b /\ task'[tx'[b]].pc \in Running
        BY DEF LiveHasTask, Active, Running
      <3>1. CASE b = a
        BY <2>1, <2>3, <3>1, PeersAssumption DEF TypeOK, Running
      <3>2. CASE b # a
        <4>1. tab[b] \in Active /\ tx'[b] = tx[b]
          BY <2>1, <2>2, <3>2 DEF TypeOK
        <4>2. tx[b] \in Slots /\ task[tx[b]].addr = b /\ task[tx[b]].pc \in Running
          BY <4>1 DEF LiveHasTask, Active, Running, TypeOK
        <4>3. tx[b] # s
          BY <1>1, <4>2 DEF Running
        <4> QED BY <2>3, <4>1, <4>2, <4>3, PeersAssumption
      <3> QED BY <3>1, <3>2
    <2> QED BY <2>2, <2>4, <2>5
  <1>4. CASE ~IdleToConnecting(a)
    <2>1. End(s) /\ UNCHANGED <<tab, tx, count, pex>>
      BY <1>4 DEF MarkConnecting
    <2>2. LiveHasTask'
      BY <1>1, <2>1, TaskLeaves DEF End, TypeOK, Running
    <2>3. TypeOK' /\ SummariesInSync'
      BY <1>1, <2>1, UntouchedSync DEF TypeOK, End
    <2> QED BY <2>2, <2>3
  <1> QED BY <1>3, <1>4

LEMMA OnHandshakeInv ==
  ASSUME IndInv, NEW s \in Slots, OnHandshake(s)
  PROVE  IndInv'
  <1> USE DEF IndInv
  <1> DEFINE a == task[s].addr
  <1>1. /\ task[s].pc = "dial" /\ task' = [task EXCEPT ![s].pc = "run"]
        /\ met' \in {met, met \cup {a}}
        /\ UNCHANGED <<tx, out, stray, queue, adder, timer, tries, ent>>
    BY DEF OnHandshake, OnConnected
  <1>2. task[s] \in Tasks /\ a \in Addrs
    BY <1>1, TaskType
  <1>3. met' \in SUBSET Addrs
    BY <1>1, <1>2 DEF TypeOK
  <1>4. /\ tab' \in Tables /\ count' \in [States -> Int] /\ SummariesInSync'
        /\ \A b \in Addrs : tab'[b] \in Active => tab[b] \in Active
    <2>1. CASE tab[a] # "connecting"
      <3>1. UNCHANGED <<tab, count, pex>>
        BY <2>1 DEF OnHandshake
      <3> QED BY <1>1, <3>1, UntouchedSync
    <2>2. CASE tab[a] = "connecting"
      <3> DEFINE u == [tab EXCEPT ![a] = "live"]
      <3>1. SetTable(u, met')
        BY <2>2 DEF OnHandshake
      <3>2. u \in Tables
        BY <1>2 DEF TypeOK, Tables, States
      <3>3. tab' = u
        BY <3>1 DEF SetTable
      <3>4. \A b \in Addrs : tab'[b] \in Active => tab[b] \in Active
        BY <1>2, <2>2, <3>3 DEF TypeOK, Active
      <3>5. tab' \in Tables /\ count' \in [States -> Int] /\ SummariesInSync'
        <4> HIDE DEF u
        <4> QED BY <1>1, <1>3, <3>1, <3>2, SetTableSync
      <3> QED BY <3>4, <3>5
    <2> QED BY <2>1, <2>2
  <1>5. /\ task' \in [Slots -> Tasks \cup {NoTask}]
        /\ \A r \in Slots : task'[r].addr = task[r].addr /\ (task[r].pc \in Running => task'[r].pc \in Running)
    BY <1>1, <1>2 DEF TypeOK, Tasks, Running
  <1>6. TypeOK'
    BY <1>1, <1>3, <1>4, <1>5 DEF TypeOK, Tables
  <1>7. LiveHasTask'
    <2>1. \A b \in Addrs : tab[b] \in Active => tx[b] \in Slots
      BY DEF LiveHasTask, Active, TypeOK
    <2> QED BY <1>1, <1>4, <1>5, <2>1, TaskFrame
  <1> QED BY <1>4, <1>6, <1>7

(* on_peer_died takes the state of its address away whichever task that    *)
(* state is of, so no live peer is left behind without a task.             *)
LEMMA DiedInv ==
  ASSUME IndInv, NEW s \in Slots, NEW err \in BOOLEAN, Died(s, err)
  PROVE  IndInv'
  <1> USE DEF IndInv
  <1> DEFINE a == task[s].addr
  <1>1. /\ task[s].pc \in Running
        /\ met' \in {met, met \cup {a}}
        /\ UNCHANGED <<tx, out, stray, queue, adder, timer, tries>>
    BY DEF Died, Ends, OnConnected, Running
  <1>2. task[s] \in Tasks /\ a \in Addrs
    BY <1>1, TaskType DEF Running
  <1>3. /\ \/ UNCHANGED <<tab, count, pex>> /\ tab[a] \notin Active
           \/ SetState(a, "queued")
        /\ ent' \in {ent, [ent EXCEPT ![a] = s]}
        /\ \/ task' = [task EXCEPT ![s] = NoTask]
           \/ task' = [task EXCEPT ![s].pc = "drop"]
           \/ task' = [task EXCEPT ![s].pc = "dying", ![s].err = err]
    BY DEF Died, End, Active
  <1>4. /\ task' \in [Slots -> Tasks \cup {NoTask}]
        /\ \A r \in Slots \ {s} : task'[r] = task[r]
    <2>1. PICK t \in Tasks \cup {NoTask} : task' = [task EXCEPT ![s] = t]
      <3>1. [task[s] EXCEPT !.pc = "drop"] \in Tasks
        BY <1>2 DEF Tasks
      <3>2. [task[s] EXCEPT !.pc = "dying", !.err = err] \in Tasks
        BY <1>2 DEF Tasks
      <3>3. CASE task' = [task EXCEPT ![s].pc = "dying", ![s].err = err]
        <4>1. task' = [task EXCEPT ![s] = [task[s] EXCEPT !.pc = "dying", !.err = err]]
          BY <3>3 DEF TypeOK
        <4> QED BY <3>2, <4>1
      <3> QED BY <1>3, <3>1, <3>3
    <2> QED BY <2>1 DEF TypeOK
  <1>5. /\ tab' \in Tables /\ count' \in [States -> Int] /\ SummariesInSync'
        /\ tab'[a] \notin Active
        /\ \A b \in Addrs : tab'[b] \in Active => tab[b] \in Active
    <2> HIDE DEF a
    <2>1. CASE SetState(a, "queued")
      <3>1. /\ tab' = [tab EXCEPT ![a] = "queued"] /\ tab' \in Tables
            /\ count' \in [States -> Int] /\ SummariesInSync'
        BY <1>1, <1>2, <2>1, SetStateSync DEF States
      <3> QED BY <1>2, <3>1 DEF TypeOK, Active
    <2>2. CASE UNCHANGED <<tab, count, pex>> /\ tab[a] \notin Active
      BY <1>1, <2>2, UntouchedSync
    <2> QED BY <1>3, <2>1, <2>2
  <1>6. ent' \in [Addrs -> Slots \cup {NoSlot}] /\ met' \subseteq Addrs
    <2> HIDE DEF a
    <2>1. ent \in [Addrs -> Slots \cup {NoSlot}] /\ met \subseteq Addrs
      BY DEF TypeOK
    <2>2. ent' \in [Addrs -> Slots \cup {NoSlot}]
      BY <1>3, <2>1
    <2>3. met' \subseteq Addrs
      BY <1>1, <1>2, <2>1
    <2> QED BY <2>2, <2>3
  <1>7. TypeOK'
    BY <1>1, <1>4, <1>5, <1>6 DEF TypeOK, Tables
  <1>8. LiveHasTask'
    BY <1>1, <1>4, <1>5, TaskLeaves
  <1> QED BY <1>5, <1>7, <1>8

LEMMA BuryInv ==
  ASSUME IndInv, NEW s \in Slots, Bury(s)
  PROVE  IndInv'
  <1> USE DEF IndInv
  <1> DEFINE a == task[s].addr
  <1>1. /\ task[s].pc = "dying"
        /\ ent' = [ent EXCEPT ![a] = NoSlot]
        /\ \/ UNCHANGED <<timer, tries>>
           \/ /\ tries[a] > 0
              /\ timer' = [timer EXCEPT ![a] = @ + 1]
              /\ tries' = [tries EXCEPT ![a] = @ - 1]
        /\ \/ task' = [task EXCEPT ![s].pc = "drop"]
           \/ task' = [task EXCEPT ![s] = NoTask]
        /\ UNCHANGED <<tx, out, met, stray, queue, adder>>
    BY DEF Bury, NextBackoff
  <1>2. PICK new \in {"dead", "notneeded"} : SetState(a, new)
    BY DEF Bury
  <1>3. task[s] \in Tasks /\ a \in Addrs
    BY <1>1, TaskType
  <1>4. /\ task' \in [Slots -> Tasks \cup {NoTask}]
        /\ \A r \in Slots \ {s} : task'[r] = task[r]
    <2>1. [task[s] EXCEPT !.pc = "drop"] \in Tasks
      BY <1>3 DEF Tasks
    <2>2. PICK t \in Tasks \cup {NoTask} : task' = [task EXCEPT ![s] = t]
      BY <1>1, <2>1
    <2> QED BY <2>2 DEF TypeOK
  <1>5. timer' \in [Addrs -> Nat] /\ tries' \in [Addrs -> 0..MaxTries]
    <2> HIDE DEF a
    <2>1. /\ timer \in [Addrs -> Nat] /\ tries \in [Addrs -> 0..MaxTries]
          /\ timer[a] + 1 \in Nat /\ (tries[a] > 0 => tries[a] - 1 \in 0..MaxTries)
      BY <1>3, PeersAssumption DEF TypeOK
    <2> QED BY <1>1, <1>3, <2>1
  <1> HIDE DEF a
  <1>6. /\ tab' = [tab EXCEPT ![a] = new] /\ tab' \in Tables
        /\ count' \in [States -> Int] /\ SummariesInSync'
    BY <1>1, <1>2, <1>3, SetStateSync DEF States
  <1>7. TypeOK'
    BY <1>1, <1>4, <1>5, <1>6 DEF TypeOK, Tables
  <1>8. LiveHasTask'
    <2>1. \A b \in Addrs : tab'[b] \in Active => tab[b] \in Active
      BY <1>3, <1>6 DEF TypeOK, Active
    <2> QED BY <1>1, <1>4, <2>1, TaskLeaves DEF Running
  <1> QED BY <1>6, <1>7, <1>8

(* drop_peer removes whatever the address is by now; the task of a peer    *)
(* that is live again keeps running, but the peer is no longer shown.      *)
LEMMA DropPeerInv ==
  ASSUME IndInv, NEW s \in Slots, DropPeer(s)
  PROVE  IndInv'
  <1> USE DEF IndInv
  <1> DEFINE a == task[s].addr
  <1>1. /\ task[s].pc = "drop" /\ InTable(a, "absent") /\ End(s)
        /\ stray' = IF tab[a] = "live" THEN stray \cup (pex \cap {out[a]}) ELSE stray
        /\ UNCHANGED <<tx, out, met, queue, adder, timer, tries, ent>>
    BY DEF DropPeer
  <1>2. a \in Addrs
    BY <1>1, TaskType
  <1> HIDE DEF a
  <1>3. /\ tab' = [tab EXCEPT ![a] = "absent"] /\ tab' \in Tables
        /\ count' \in [States -> Int] /\ SummariesInSync'
    BY <1>1, <1>2, InTableSync
  <1>4. TypeOK'
    BY <1>1, <1>3 DEF TypeOK, Tables, End
  <1>5. LiveHasTask'
    <2>1. \A b \in Addrs : tab'[b] \in Active => tab[b] \in Active
      BY <1>2, <1>3 DEF TypeOK, Active
    <2>2. \A r \in Slots \ {s} : task'[r] = task[r]
      BY <1>1 DEF End, TypeOK
    <2> QED BY <1>1, <2>1, <2>2, TaskLeaves DEF Running
  <1> QED BY <1>3, <1>4, <1>5

LEMMA DeadToQueuedInv ==
  ASSUME IndInv, NEW a \in Addrs, DeadToQueued(a)
  PROVE  IndInv'
  <1> USE DEF IndInv
  <1>1. /\ timer[a] > 0 /\ timer' = [timer EXCEPT ![a] = @ - 1]
        /\ UNCHANGED <<tx, out, met, stray, adder, task, tries, ent>>
    BY DEF DeadToQueued
  <1>2. timer' \in [Addrs -> Nat]
    BY <1>1 DEF TypeOK
  <1>3. CASE tab[a] = "dead"
    <2>1. SetState(a, "queued") /\ Enqueue(a)
      BY <1>3 DEF DeadToQueued
    <2>2. /\ tab' = [tab EXCEPT ![a] = "queued"] /\ tab' \in Tables
          /\ count' \in [States -> Int] /\ SummariesInSync'
      BY <1>1, <2>1, SetStateSync DEF States
    <2>3. queue' \in Seq(Addrs)
      BY <2>1 DEF Enqueue, TypeOK
    <2>4. TypeOK'
      BY <1>1, <1>2, <2>2, <2>3 DEF TypeOK, Tables
    <2>5. LiveHasTask'
      BY <1>1, <2>2, TaskFrame DEF TypeOK, Active
    <2> QED BY <2>2, <2>4, <2>5
  <1>4. CASE tab[a] # "dead"
    <2>1. UNCHANGED <<tab, count, pex, queue>>
      BY <1>4 DEF DeadToQueued
    <2> QED BY <1>1, <1>2, <2>1 DEF TypeOK, SummariesInSync, LiveHasTask
  <1> QED BY <1>3, <1>4

LEMMA DisconnectAllInv ==
  ASSUME IndInv, DisconnectAll
  PROVE  IndInv'
  <1> USE DEF IndInv
  <1> DEFINE full == {a \in Full : tab[a] = "live"}
             u == [a \in Addrs |-> IF a \in full THEN "notneeded" ELSE tab[a]]
  <1>1. /\ SetTable(u, met)
        /\ task' = [s \in Slots |-> IF \E a \in full : tx[a] = s
                                    THEN [task[s] EXCEPT !.disc = TRUE] ELSE task[s]]
        /\ UNCHANGED <<tx, out, met, stray, queue, adder, timer, tries, ent>>
    BY DEF DisconnectAll
  <1>2. u \in Tables /\ met \in SUBSET Addrs
    BY DEF TypeOK, Tables, States
  <1>3. tab' = u
    BY <1>1 DEF SetTable
  <1>4. \A a \in Addrs : tab'[a] \in Active => tab[a] \in Active
    BY <1>3 DEF Active
  <1>5. tab' \in Tables /\ count' \in [States -> Int] /\ SummariesInSync'
    <2> HIDE DEF u
    <2> QED BY <1>1, <1>2, SetTableSync
  <1>6. ASSUME NEW s \in Slots
        PROVE  /\ task'[s] \in Tasks \cup {NoTask}
               /\ task'[s].addr = task[s].addr /\ task'[s].pc = task[s].pc
    <2>1. CASE \E a \in full : tx[a] = s
      <3>1. PICK a \in Addrs : tab[a] = "live" /\ tx[a] = s
        BY <2>1, PeersAssumption
      <3>2. task[s] \in Tasks
        BY <3>1, TaskType DEF LiveHasTask
      <3>3. task'[s] = [task[s] EXCEPT !.disc = TRUE]
        BY <1>1, <2>1
      <3> QED BY <3>2, <3>3 DEF Tasks
    <2>2. CASE ~\E a \in full : tx[a] = s
      BY <1>1, <2>2 DEF TypeOK
    <2> QED BY <2>1, <2>2
  <1>7. TypeOK'
    <2>1. task' \in [Slots -> Tasks \cup {NoTask}]
      BY <1>1, <1>6
    <2> QED BY <1>1, <1>5, <2>1 DEF TypeOK, Tables
  <1>8. LiveHasTask'
    <2>1. \A a \in Addrs : tab[a] \in Active => tx[a] \in Slots
      BY DEF LiveHasTask, Active, TypeOK
    <2> HIDE DEF full, u
    <2> QED BY <1>1, <1>4, <1>6, <2>1, TaskFrame
  <1> QED BY <1>5, <1>7, <1>8

LEMMA ReconnectInv ==
  ASSUME IndInv, ReconnectAll,
         UNCHANGED <<tx, out, met, stray, adder, task, timer, tries, ent>>
  PROVE  IndInv'
  <1> USE DEF IndInv
  <1> DEFINE again == {a \in Addrs : tab[a] = "notneeded" /\ out[a] # NoAddr}
             own == {a \in again : out[a] = a}
             u == [a \in Addrs |-> IF a \in own THEN "queued" ELSE tab[a]]
  <1>1. SetTable(u, met)
    BY DEF ReconnectAll
  <1>2. PICK order \in [1..Cardinality(again) -> again] :
                queue' = queue \o [i \in DOMAIN order |-> out[order[i]]]
    BY DEF ReconnectAll
  <1>3. queue' \in Seq(Addrs)
    <2> DEFINE tail == [i \in 1..Cardinality(again) |-> out[order[i]]]
    <2>1. Cardinality(again) \in Nat
      <3>1. again \subseteq Addrs
        OBVIOUS
      <3> HIDE DEF again
      <3> QED BY <3>1, PeersAssumption, FS_Subset, FS_CardinalityType
    <2>2. \A i \in 1..Cardinality(again) : out[order[i]] \in Addrs
      BY DEF TypeOK
    <2> HIDE DEF again
    <2>3. tail \in Seq(Addrs)
      BY <2>1, <2>2
    <2>4. queue' = queue \o tail
      BY <1>2
    <2> HIDE DEF tail
    <2> QED BY <2>3, <2>4 DEF TypeOK
  <1>4. u \in Tables /\ met \in SUBSET Addrs
    BY DEF TypeOK, Tables, States
  <1>5. tab' = u
    BY <1>1 DEF SetTable
  <1>6. \A a \in Addrs : tab'[a] \in Active => tab[a] \in Active
    BY <1>5 DEF Active
  <1>7. tab' \in Tables /\ count' \in [States -> Int] /\ SummariesInSync'
    <2> HIDE DEF u
    <2> QED BY <1>1, <1>4, SetTableSync
  <1>8. TypeOK'
    BY <1>3, <1>7 DEF TypeOK, Tables
  <1>9. LiveHasTask'
    BY <1>6, TaskFrame
  <1> QED BY <1>7, <1>8, <1>9

LEMMA NextInv == IndInv /\ [Next]_vars => IndInv'
  <1> SUFFICES ASSUME IndInv, [Next]_vars PROVE IndInv'
    OBVIOUS
  <1>1. ASSUME NEW s \in Slots, TaskStep(s) PROVE IndInv'
    BY <1>1, MarkConnectingInv, OnHandshakeInv, HandshakeInInv, DiedInv, BuryInv, DropPeerInv
       DEF TaskStep
  <1>2. CASE Finish \/ UpdateOnlyFiles \/ StreamInserted \/ UNCHANGED vars
    <2>1. UNCHANGED <<tab, tx, out, count, met, pex, stray, queue, adder, task, timer, tries, ent>>
      BY <1>2 DEF Finish, UpdateOnlyFiles, StreamInserted, vars, known
    <2> QED BY <2>1 DEF IndInv, TypeOK, SummariesInSync, LiveHasTask
  <1>3. CASE UpdateReconnects \/ StreamReconnects
    BY <1>3, ReconnectInv DEF UpdateReconnects, StreamReconnects
  <1> QED BY <1>1, <1>2, <1>3, AddPeerInv, DeadToQueuedInv, IncomingInv, AdderSpawnInv,
             LearnOutgoingInv, ResetBackoffInv, AdderRecvInv, DisconnectAllInv
          DEF Next, PeerReceived, OnPexMessage, TcpListener

-----------------------------------------------------------------------------

(* The types of the peer table and the two invariants below, together.     *)
THEOREM Invariance == Spec => []IndInv
  BY InitInv, NextInv, PTL DEF Spec

(* The counters shown to the user are the numbers of peers in each state,  *)
(* so that no u32 wraps, and PEX announces only live peers and strays,     *)
(* though set_state only adds and takes away.                              *)
THEOREM SummariesFollow == Spec => []SummariesInSync
  <1>1. IndInv => SummariesInSync
    BY DEF IndInv
  <1> QED BY <1>1, Invariance, PTL

(* A peer shown as connecting or live has a running task on its channel,   *)
(* whichever of the tasks of its address ends, and in whatever order.      *)
THEOREM LivePeersRun == Spec => []LiveHasTask
  <1>1. IndInv => LiveHasTask
    BY DEF IndInv
  <1> QED BY <1>1, Invariance, PTL
=============================================================================
