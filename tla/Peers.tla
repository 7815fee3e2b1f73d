------------------------------- MODULE Peers -------------------------------
(***************************************************************************)
(* The peer table of a live torrent in librqbit: the adder task with its   *)
(* queue and semaphore, one task per outgoing or incoming connection, the  *)
(* backoff timers, and the two ways all peers are touched at once:         *)
(* disconnecting the seeds when the torrent is finished, and reconnecting  *)
(* the peers that were not needed when files are selected or streamed.     *)
(* on_peer_died keeps the entry of its peer locked while it takes the      *)
(* global lock; update_only_files takes them the other way round.          *)
(***************************************************************************)
EXTENDS Integers, Sequences, FiniteSets

CONSTANTS
    Addrs, NoAddr,
    Slots, NoSlot,  \* the permits of peer_semaphore, one task each
    User,           \* the holder of the global lock in update_only_files
    Outgoing,       \* the listening address an incoming peer announces
    Full,           \* peers that have the full torrent
    Blocked,        \* the blocklist
    DisableUpload,  \* the feature of that name
    MaxTries,       \* bound: retries until the backoff is exhausted
    MaxEvents       \* bound: discoveries, incoming connections, resets, user actions

ASSUME PeersAssumption ==
    /\ IsFiniteSet(Addrs)
    /\ NoAddr \notin Addrs
    /\ NoSlot \notin Slots
    /\ User \notin Slots \cup {NoSlot}
    /\ Outgoing \in [Addrs -> Addrs]
    /\ Full \subseteq Addrs /\ Blocked \subseteq Addrs
    /\ DisableUpload \in BOOLEAN
    /\ MaxTries \in Nat /\ MaxEvents \in Nat

VARIABLES
    tab,    \* the state of each address; "absent" is not in the table
    tx,     \* whose channel the Connecting or Live state holds
    out,    \* outgoing_address
    count,  \* AggregatePeerStats
    met,    \* addresses with outgoing_connections > 0
    pex,    \* live_outgoing_peers: what PEX messages announce
    stray,  \* addresses left in pex by mistake: for the properties
    queue,  \* peer_queue
    adder,  \* the address for which task_peer_adder waits for a permit
    task,   \* the tasks
    timer,  \* pending wait_for_peer tasks per address
    tries,  \* what the backoff of each address has left
    ent,    \* who holds the entry of an address across steps
    glob,   \* who holds the global lock across steps
    done,   \* is_finished_and_no_active_streams
    todo,   \* "disconnect" or "insert": the second half of a step
    left    \* how much of MaxEvents is left

known == <<met, pex, stray>>
vars == <<tab, tx, out, count, known, queue, adder, task, timer, tries, ent, glob, done, todo, left>>

States == {"queued", "connecting", "live", "dead", "notneeded"}
NoTask == [addr |-> NoAddr, pc |-> "none", incoming |-> FALSE, disc |-> FALSE, err |-> FALSE]
Free == {s \in Slots : task[s].pc = "none"}
(* Permits are all alike: the next one is any that is free.                *)
Permit(s) == s \in Free /\ s = CHOOSE x \in Free : TRUE
Entry(a) == ent[a] = NoSlot
Spend == left > 0 /\ left' = left - 1
AllEntries == \A a \in Addrs : Entry(a)

(* AggregatePeerStatsAtomic.incdec for the step from table t to table u.   *)
Recount(t, u) ==
    LET n(f, s) == Cardinality({a \in Addrs : f[a] = s})
    IN  [s \in States |-> count[s] + n(u, s) - n(t, s)]

(* set_state: the address announced by PEX leaves when Live is left, and   *)
(* comes when it is entered by a peer we have connected to before.         *)
Announced(u, m) ==
    (pex \ {out[a] : a \in {b \in Addrs : tab[b] = "live" /\ u[b] # "live"}})
        \cup {out[a] : a \in {b \in m : tab[b] # "live" /\ u[b] = "live" /\ out[b] # NoAddr}}

(* set_state: the table, its counters and live_outgoing_peers.             *)
SetTable(u, m) == tab' = u /\ count' = Recount(tab, u) /\ pex' = Announced(u, m)

(* Mutant: the counters lose track of the peers that die.                  *)
SetStateOnly(a, new) ==
    /\ tab' = [tab EXCEPT ![a] = new]
    /\ count' = IF new = "dead" THEN count ELSE Recount(tab, tab')
    /\ pex' = Announced(tab', met)

SetState(a, new) == SetTable([tab EXCEPT ![a] = new], met)

(* A peer enters or leaves the table itself.                               *)
InTable(a, new) ==
    /\ tab' = [tab EXCEPT ![a] = new]
    /\ count' = Recount(tab, tab')
    /\ UNCHANGED pex

(* Peer::new: a fresh backoff, no connections counted.                     *)
NewPeer(a, address) ==
    /\ out' = [out EXCEPT ![a] = address]
    /\ tries' = [tries EXCEPT ![a] = MaxTries]
    /\ met' = met \ {a}

End(s) == task' = [task EXCEPT ![s] = NoTask]

Init ==
    /\ tab = [a \in Addrs |-> "absent"]
    /\ tx = [a \in Addrs |-> NoSlot]
    /\ out = [a \in Addrs |-> NoAddr]
    /\ count = [s \in States |-> 0]
    /\ met = {}
    /\ pex = {}
    /\ stray = {}
    /\ queue = <<>>
    /\ adder = NoAddr
    /\ task = [s \in Slots |-> NoTask]
    /\ timer = [a \in Addrs |-> 0]
    /\ tries = [a \in Addrs |-> MaxTries]
    /\ ent = [a \in Addrs |-> NoSlot]
    /\ glob = NoSlot
    /\ done = FALSE
    /\ todo = {}
    /\ left = MaxEvents

-----------------------------------------------------------------------------
(* add_peer_if_not_seen *)
Enqueue(a) == queue' = Append(queue, a)

AddPeerIfNotSeen(a) ==
    /\ Spend
    /\ Entry(a)
    /\ tab[a] = "absent"
    /\ InTable(a, "queued")
    /\ NewPeer(a, a)
    /\ Enqueue(a)
    /\ UNCHANGED <<tx, stray, adder, task, timer, ent, glob, done, todo>>

(* spawn_peer_adder: an address of the DHT or a tracker.                   *)
PeerReceived(a) == AddPeerIfNotSeen(a)

(* on_pex_message: added and dropped peers alike.                          *)
OnPexMessage(s, a) == task[s].pc = "run" /\ AddPeerIfNotSeen(a)

(* check_incoming_connection: the blocklist, and a handshake that names a  *)
(* live torrent and is not ours.                                           *)
CheckIncoming(a) == a \notin Blocked

IncomingTask(a) == [addr |-> a, pc |-> "hello", incoming |-> TRUE, disc |-> FALSE, err |-> FALSE]

(* incoming_connection refuses a peer that is active already.              *)
IncomingConnection(a) == tab[a] \notin {"connecting", "live"}

(* add_incoming_peer with a permit; without one the connection is dropped. *)
AddIncoming(a, s) ==
    /\ Spend
    /\ Permit(s)
    /\ Entry(a)
    /\ IncomingConnection(a)
    /\ IF tab[a] = "absent" THEN InTable(a, "live") /\ NewPeer(a, NoAddr)
       ELSE SetState(a, "live") /\ UNCHANGED <<out, tries, met>>
    /\ tx' = [tx EXCEPT ![a] = s]
    /\ task' = [task EXCEPT ![s] = IncomingTask(a)]
    /\ UNCHANGED <<stray, queue, adder, timer, ent, glob, done, todo>>

(* task_tcp_listener hands over the connections that pass the check.       *)
TcpListener(a, s) == CheckIncoming(a) /\ AddIncoming(a, s)

(* manage_peer_incoming: our handshake is written.                         *)
HandshakeIn(s) ==
    /\ task[s].pc = "hello" /\ task[s].incoming
    /\ task' = [task EXCEPT ![s].pc = "run"]
    /\ UNCHANGED <<tab, tx, out, count, known, queue, adder, timer, tries, ent, glob, done, todo, left>>

(* on_extended_handshake of an incoming peer.                              *)
LearnOutgoing(s) ==
    LET a == task[s].addr IN
    /\ task[s].pc = "run" /\ task[s].incoming
    /\ Entry(a) /\ tab[a] # "absent" /\ out[a] # Outgoing[a]
    /\ out' = [out EXCEPT ![a] = Outgoing[a]]
    /\ stray' = IF tab[a] = "live" /\ out[a] \in pex THEN stray \cup {out[a]} ELSE stray
    /\ UNCHANGED <<tab, tx, count, met, pex, queue, adder, task, timer, tries, ent, glob, done, todo, left>>

MarkNotNeeded(a) ==
    IF tab[a] = "absent" THEN UNCHANGED <<tab, count, pex>> ELSE SetState(a, "notneeded")

(* task_peer_adder takes an address.                                       *)
AdderRecv ==
    /\ adder = NoAddr
    /\ queue # <<>>
    /\ DisableUpload => glob = NoSlot
    /\ queue' = Tail(queue)
    /\ LET a == Head(queue) IN
       IF DisableUpload /\ done
       THEN /\ Entry(a)
            /\ MarkNotNeeded(a)
            /\ UNCHANGED adder
       ELSE /\ adder' = IF a \in Blocked THEN NoAddr ELSE a
            /\ UNCHANGED <<tab, count, pex>>
    /\ UNCHANGED <<tx, out, met, stray, task, timer, tries, ent, glob, done, todo, left>>

OutgoingTask(a) == [addr |-> a, pc |-> "start", incoming |-> FALSE, disc |-> FALSE, err |-> FALSE]

AdderSpawn(s) ==
    /\ adder # NoAddr
    /\ Permit(s)
    /\ task' = [task EXCEPT ![s] = OutgoingTask(adder)]
    /\ adder' = NoAddr
    /\ UNCHANGED <<tab, tx, out, count, known, queue, timer, tries, ent, glob, done, todo, left>>

IdleToConnecting(a) == tab[a] \in {"queued", "notneeded"}

(* task_manage_outgoing_peer: mark_peer_connecting, or give up.            *)
MarkConnecting(s) ==
    LET a == task[s].addr IN
    /\ task[s].pc = "start"
    /\ Entry(a)
    /\ IF IdleToConnecting(a)
       THEN /\ SetState(a, "connecting")
            /\ tx' = [tx EXCEPT ![a] = s]
            /\ task' = [task EXCEPT ![s].pc = "dial"]
       ELSE /\ End(s)
            /\ UNCHANGED <<tab, tx, count, pex>>
    /\ UNCHANGED <<out, met, stray, queue, adder, timer, tries, ent, glob, done, todo, left>>

(* on_connected counts the connection of the entry there is by now.        *)
OnConnected(a) == IF tab[a] = "absent" THEN met ELSE met \cup {a}

(* on_handshake: connecting_to_live keeps the channel that is there.       *)
OnHandshake(s) ==
    LET a == task[s].addr IN
    /\ task[s].pc = "dial"
    /\ Entry(a)
    /\ met' = OnConnected(a)
    /\ IF tab[a] # "connecting" THEN UNCHANGED <<tab, count, pex>>
       ELSE SetTable([tab EXCEPT ![a] = "live"], met')
    /\ task' = [task EXCEPT ![s].pc = "run"]
    /\ UNCHANGED <<tx, out, stray, queue, adder, timer, tries, ent, glob, done, todo, left>>

(* A verified piece: reset_peer_backoff.                                   *)
ResetBackoff(s) ==
    LET a == task[s].addr IN
    /\ Spend
    /\ task[s].pc = "run" /\ tab[a] = "live" /\ Entry(a) /\ tries[a] # MaxTries
    /\ tries' = [tries EXCEPT ![a] = MaxTries]
    /\ UNCHANGED <<tab, tx, out, count, known, queue, adder, task, timer, ent, glob, done, todo>>

(* The task's select ends: the connection fails, or it was told to         *)
(* disconnect or its requester found nothing left to do.                   *)
Ends(s, err) ==
    IF err THEN task[s].pc \in {"dial", "hello", "run"}
    ELSE task[s].pc = "run" /\ (task[s].disc \/ done)

(* Mutant: a connection that ends in good order skips on_peer_died.        *)
DiedUnseen(s, err) ==
    /\ Ends(s, err)
    /\ Entry(task[s].addr)
    /\ End(s)
    /\ UNCHANGED <<tab, count, known, ent, tx, out, queue, adder, timer, tries, glob, done, todo, left>>

(* on_peer_died takes the state, whichever task it is of.  A connection    *)
(* that never got to its handshake may have been counted.                  *)
Died(s, err) ==
    LET a == task[s].addr IN
    /\ Ends(s, err)
    /\ Entry(a)
    /\ CASE tab[a] \in {"absent", "notneeded"} -> End(s) /\ UNCHANGED <<tab, count, pex, ent>>
         [] tab[a] \in {"queued", "dead"} -> /\ SetState(a, "queued")
                                            /\ task' = [task EXCEPT ![s].pc = "drop"]
                                            /\ UNCHANGED ent
         [] OTHER -> /\ SetState(a, "queued")
                     /\ ent' = [ent EXCEPT ![a] = s]
                     /\ task' = [task EXCEPT ![s].pc = "dying", ![s].err = err]
    /\ met' \in IF task[s].pc = "dial" THEN {met, OnConnected(a)} ELSE {met}
    /\ UNCHANGED <<tx, out, stray, queue, adder, timer, tries, glob, done, todo, left>>

(* backoff.next_backoff: nothing when the time is used up.                 *)
NextBackoff(a) == tries[a] > 0

(* ... and, with the entry still held, looks at the torrent.               *)
Bury(s) ==
    LET a == task[s].addr
        dead == task[s].err /\ ~done
        retry == dead /\ ~task[s].incoming
    IN
    /\ task[s].pc = "dying"
    /\ glob = NoSlot
    /\ ent' = [ent EXCEPT ![a] = NoSlot]
    /\ SetState(a, IF dead THEN "dead" ELSE "notneeded")
    /\ timer' = IF retry /\ NextBackoff(a) THEN [timer EXCEPT ![a] = @ + 1] ELSE timer
    /\ tries' = IF retry /\ NextBackoff(a) THEN [tries EXCEPT ![a] = @ - 1] ELSE tries
    /\ task' = [task EXCEPT ![s] = IF retry /\ ~NextBackoff(a)
                                   THEN [@ EXCEPT !.pc = "drop"] ELSE NoTask]
    /\ UNCHANGED <<tx, out, met, stray, queue, adder, glob, done, todo, left>>

(* drop_peer, after the entry was let go: whatever is there by now.  Unlike*)
(* destroy it leaves the address of a live peer to PEX.                    *)
DropPeer(s) ==
    LET a == task[s].addr IN
    /\ task[s].pc = "drop"
    /\ Entry(a)
    /\ InTable(a, "absent")
    /\ stray' = IF tab[a] = "live" THEN stray \cup (pex \cap {out[a]}) ELSE stray
    /\ End(s)
    /\ UNCHANGED <<tx, out, met, queue, adder, timer, tries, ent, glob, done, todo, left>>

(* The backoff of a dead peer is over.                                     *)
DeadToQueued(a) ==
    /\ timer[a] > 0
    /\ Entry(a)
    /\ timer' = [timer EXCEPT ![a] = @ - 1]
    /\ IF tab[a] = "dead"
       THEN SetState(a, "queued") /\ Enqueue(a)
       ELSE UNCHANGED <<tab, count, pex, queue>>
    /\ UNCHANGED <<tx, out, met, stray, adder, task, tries, ent, glob, done, todo, left>>

-----------------------------------------------------------------------------
(* The last selected piece is verified; on_piece_completed lets go of the  *)
(* lock before it disconnects.                                             *)
Finish ==
    /\ ~done /\ glob = NoSlot
    /\ done' = TRUE
    /\ todo' = todo \cup {"disconnect"}
    /\ UNCHANGED <<tab, tx, out, count, known, queue, adder, task, timer, tries, ent, glob, left>>

DisconnectAll ==
    LET full == {a \in Full : tab[a] = "live"} IN
    /\ "disconnect" \in todo
    /\ AllEntries
    /\ todo' = todo \ {"disconnect"}
    /\ SetTable([a \in Addrs |-> IF a \in full THEN "notneeded" ELSE tab[a]], met)
    /\ task' = [s \in Slots |-> IF \E a \in full : tx[a] = s
                                THEN [task[s] EXCEPT !.disc = TRUE] ELSE task[s]]
    /\ UNCHANGED <<tx, out, met, stray, queue, adder, timer, tries, ent, glob, done, left>>

(* Mutant: the state is changed and the address is not sent.               *)
ReconnectSilently ==
    /\ SetTable([a \in Addrs |-> IF tab[a] = "notneeded" /\ out[a] = a THEN "queued" ELSE tab[a]], met)
    /\ UNCHANGED queue

(* reconnect_all_not_needed_peers, in some order.  A peer known by another *)
(* outgoing address stays as it is and that address is queued.             *)
ReconnectAll ==
    LET again == {a \in Addrs : tab[a] = "notneeded" /\ out[a] # NoAddr}
        own == {a \in again : out[a] = a}
    IN  /\ SetTable([a \in Addrs |-> IF a \in own THEN "queued" ELSE tab[a]], met)
        /\ \E order \in {f \in [1..Cardinality(again) -> again] :
                            \A i, j \in DOMAIN f : f[i] = f[j] => i = j} :
              queue' = queue \o [i \in DOMAIN order |-> out[order[i]]]

(* update_only_files holds the global lock while it reconnects.            *)
UpdateOnlyFiles ==
    /\ glob = NoSlot
    /\ Spend
    /\ glob' = User
    /\ done' = FALSE
    /\ UNCHANGED <<tab, tx, out, count, known, queue, adder, task, timer, tries, ent, todo>>

UpdateReconnects ==
    /\ glob = User
    /\ AllEntries
    /\ ReconnectAll
    /\ glob' = NoSlot
    /\ UNCHANGED <<tx, out, met, stray, adder, task, timer, tries, ent, done, todo, left>>

(* A stream of an unfinished file: reconnect, then insert the stream.      *)
StreamReconnects ==
    /\ Spend
    /\ AllEntries
    /\ ReconnectAll
    /\ todo' = todo \cup {"insert"}
    /\ UNCHANGED <<tx, out, met, stray, adder, task, timer, tries, ent, glob, done>>

StreamInserted ==
    /\ "insert" \in todo
    /\ todo' = todo \ {"insert"}
    /\ done' = FALSE
    /\ UNCHANGED <<tab, tx, out, count, known, queue, adder, task, timer, tries, ent, glob, left>>

TaskStep(s) ==
    \/ MarkConnecting(s) \/ OnHandshake(s) \/ HandshakeIn(s)
    \/ Died(s, TRUE) \/ Died(s, FALSE) \/ Bury(s) \/ DropPeer(s)

Next ==
    \/ \E a \in Addrs : PeerReceived(a) \/ DeadToQueued(a)
    \/ \E a \in Addrs, s \in Slots : TcpListener(a, s) \/ OnPexMessage(s, a)
    \/ \E s \in Slots : AdderSpawn(s) \/ TaskStep(s) \/ LearnOutgoing(s) \/ ResetBackoff(s)
    \/ AdderRecv
    \/ Finish \/ DisconnectAll
    \/ UpdateOnlyFiles \/ UpdateReconnects \/ StreamReconnects \/ StreamInserted

Spec == Init /\ [][Next]_vars

FairSpec ==
    /\ Spec
    /\ WF_vars(AdderRecv) /\ WF_vars(UpdateReconnects)
    /\ SF_vars(\E s \in Slots : AdderSpawn(s))
    /\ \A s \in Slots : WF_vars(TaskStep(s))

-----------------------------------------------------------------------------

(* update_only_files waits for an entry whose holder waits for the global  *)
(* lock.                                                                   *)
LockCycle ==
    /\ glob = User
    /\ \E s \in Slots : task[s].pc = "dying"

Tasks ==
    [addr: Addrs, pc: {"start", "dial", "hello", "run", "dying", "drop"},
     incoming: BOOLEAN, disc: BOOLEAN, err: BOOLEAN]

TypeOK ==
    /\ tab \in [Addrs -> States \cup {"absent"}]
    /\ tx \in [Addrs -> Slots \cup {NoSlot}]
    /\ out \in [Addrs -> Addrs \cup {NoAddr}]
    /\ count \in [States -> Int]
    /\ met \subseteq Addrs
    /\ queue \in Seq(Addrs)
    /\ adder \in Addrs \cup {NoAddr}
    /\ task \in [Slots -> Tasks \cup {NoTask}]
    /\ timer \in [Addrs -> Nat] /\ tries \in [Addrs -> 0..MaxTries]
    /\ ent \in [Addrs -> Slots \cup {NoSlot}]

(* What is derived from the peer table agrees with it.  The counters shown *)
(* to the user are the numbers of peers in each state (u32 counters would  *)
(* wrap below zero), and PEX announces an address only while a live peer   *)
(* has it; the strays come from drop_peer of a peer that is live again and *)
(* from an incoming peer that announces another address while it is live.  *)
SummariesInSync ==
    /\ \A s \in States : count[s] = Cardinality({a \in Addrs : tab[a] = s})
    /\ pex \subseteq stray \cup {out[a] : a \in {b \in Addrs : tab[b] = "live"}}

(* A peer shown as connecting or live has a task that runs and holds the   *)
(* other end of its channel, however many tasks the address has had.       *)
LiveHasTask ==
    \A a \in Addrs : tab[a] \in {"connecting", "live"} =>
        tx[a] # NoSlot /\ task[tx[a]].addr = a /\ task[tx[a]].pc \in {"dial", "hello", "run"}

(* All that is proved of the table is inductive together with its types.   *)
IndInv == TypeOK /\ SummariesInSync /\ LiveHasTask

(* A queued peer is never forgotten: unless its address is blocked it is   *)
(* taken up, or the torrent is in a lock cycle for good.                   *)
QueuedTakenUp ==
    \A a \in Addrs \ Blocked : (tab[a] = "queued") ~> (tab[a] # "queued" \/ LockCycle)

(* torrent_state/live/mod.rs, deadlock notice: the peers' lock first, then *)
(* the global one.                                                         *)
NoLockCycle == ~LockCycle
=============================================================================
