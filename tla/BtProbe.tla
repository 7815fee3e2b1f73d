------------------------------ MODULE BtProbe ------------------------------
(***************************************************************************)
(* The metadata prober puresource-btprobe (main.py, qbt.py): POST /probe   *)
(* is acknowledged at once and run on a thread of the executor, which adds *)
(* the magnet to qBittorrent, polls for its metadata, reads the file list, *)
(* sets every priority to zero, deletes the torrent and calls the main     *)
(* service back.  All probes share one qBittorrent, whose torrents are     *)
(* known by their info hash alone; it is modelled from the five calls made *)
(* to it, each of which may fail.                                          *)
(***************************************************************************)
EXTENDS Integers, FiniteSets

CONSTANTS
    Probes,         \* requests, each accepted at most once
    Hashes,         \* info hashes
    NoHash,         \* a magnet without a v1 info hash
    HashOf,         \* the info hash of each probe's magnet
    Pool,           \* threads of the default executor
    MaxPolls,       \* rounds of the poll loop that fit before the deadline
    MaxProbeCrashes \* bound: restarts of the prober

ASSUME BtProbeAssumption ==
    /\ NoHash \notin Hashes
    /\ HashOf \in [Probes -> Hashes \cup {NoHash}]
    /\ Pool \in Nat \ {0}
    /\ MaxPolls \in Nat
    /\ MaxProbeCrashes \in Nat

VARIABLES
    torrent,      \* qBittorrent, by hash: absent, fetching its metadata, or ready
    zeroed,       \* hashes whose files have priority zero
    pc,           \* where each probe is
    polls,        \* rounds of the poll loop
    listed,       \* whether /files gave the probe any file
    res,          \* the ProbeResult
    probeCrashes, \* restarts so far
    faulted,      \* history: probes with a failed call or killed under way
    overlapped    \* history: probes under way together with one of their hash

qbt == <<torrent, zeroed>>
probeVars == <<qbt, pc, polls, listed, res, probeCrashes, faulted, overlapped>>

Running == {"add", "poll", "waiting", "files", "prio", "delete"}
Pcs == Running \cup {"none", "queued", "callback", "done", "dead"}
Results == {"none", "files", "empty", "failed", "expired"}

UnderWay(p) == pc[p] \in Running
Rivals(p) == {q \in Probes \ {p} : HashOf[q] = HashOf[p]}

ProbeInit ==
    /\ torrent = [h \in Hashes |-> "absent"]
    /\ zeroed = {}
    /\ pc = [p \in Probes |-> "none"]
    /\ polls = [p \in Probes |-> 0]
    /\ listed = [p \in Probes |-> FALSE]
    /\ res = [p \in Probes |-> "none"]
    /\ probeCrashes = 0
    /\ faulted = {}
    /\ overlapped = {}

-----------------------------------------------------------------------------
(* qBittorrent fetches the metadata of a torrent; stopCondition then pauses *)
(* the torrent.                                                             *)
Metadata(h) ==
    /\ torrent[h] = "fetching"
    /\ torrent' = [torrent EXCEPT ![h] = "ready"]
    /\ UNCHANGED <<zeroed, pc, polls, listed, res, probeCrashes, faulted,
                   overlapped>>

(* /torrents/add: a hash qBittorrent has already is left as it is.         *)
Added(h) ==
    /\ torrent' = [torrent EXCEPT ![h] = IF @ = "absent" THEN "fetching" ELSE @]
    /\ UNCHANGED zeroed

Deleted(h) ==
    /\ torrent' = [torrent EXCEPT ![h] = "absent"]
    /\ zeroed' = zeroed \ {h}

-----------------------------------------------------------------------------
(* POST /probe *)
Probe(p) ==
    /\ pc[p] = "none"
    /\ pc' = [pc EXCEPT ![p] = "queued"]
    /\ UNCHANGED <<qbt, polls, listed, res, probeCrashes, faulted, overlapped>>

(* The probe goes from its current call to where, with the other variables *)
(* of the thread left alone.                                               *)
GoTo(p, where) ==
    /\ pc' = [pc EXCEPT ![p] = where]
    /\ UNCHANGED <<probeCrashes, overlapped>>

Return(p, result) ==
    /\ res' = [res EXCEPT ![p] = result]
    /\ GoTo(p, "callback")
    /\ UNCHANGED <<polls, listed>>

(* QbtError, httpx.HTTPError or any other exception out of a call: the     *)
(* probe returns "failed" from where it is.                                *)
Fails(p) ==
    /\ faulted' = faulted \cup {p}
    /\ Return(p, "failed")

(* A free thread takes the probe up: run_probe starts.                     *)
RunProbe(p) ==
    /\ pc[p] = "queued"
    /\ Cardinality({q \in Probes : UnderWay(q)}) < Pool
    /\ IF HashOf[p] = NoHash
       THEN Return(p, "failed") /\ UNCHANGED overlapped
       ELSE /\ pc' = [pc EXCEPT ![p] = "add"]
            /\ overlapped' = LET R == {q \in Rivals(p) : UnderWay(q)} IN
                             IF R = {} THEN overlapped
                             ELSE overlapped \cup R \cup {p}
            /\ UNCHANGED <<polls, listed, res, probeCrashes>>
    /\ UNCHANGED <<qbt, faulted>>

(* Login and add.  A call that fails may have been carried out.            *)
AddPaused(p) ==
    /\ pc[p] = "add"
    /\ \/ /\ Added(HashOf[p])
          /\ GoTo(p, "poll")
          /\ UNCHANGED <<polls, listed, res, faulted>>
       \/ /\ UNCHANGED qbt \/ Added(HashOf[p])
          /\ Fails(p)

(* Mutant: any answer of /info will do, whether its size is known or not.  *)
InfoAnyAnswer(p) ==
    /\ pc[p] = "poll"
    /\ UNCHANGED qbt
    /\ GoTo(p, IF torrent[HashOf[p]] = "absent" THEN "waiting" ELSE "files")
    /\ UNCHANGED <<polls, listed, res, faulted>>

(* One round of the loop: ask /info whether the size is known.             *)
Info(p) ==
    /\ pc[p] = "poll"
    /\ UNCHANGED qbt
    /\ \/ /\ GoTo(p, IF torrent[HashOf[p]] = "ready" THEN "files" ELSE "waiting")
          /\ UNCHANGED <<polls, listed, res, faulted>>
       \/ Fails(p)

(* Mutants: the loop has no deadline; at the deadline the probe returns    *)
(* and leaves the torrent.                                                 *)
SleepForever(p) ==
    /\ pc[p] = "waiting"
    /\ GoTo(p, "poll")
    /\ UNCHANGED <<qbt, polls, listed, res, faulted>>

ExpireOnly(p) ==
    /\ pc[p] = "waiting"
    /\ \/ /\ polls[p] < MaxPolls
          /\ polls' = [polls EXCEPT ![p] = @ + 1]
          /\ GoTo(p, "poll")
          /\ UNCHANGED <<listed, res>>
       \/ Return(p, "expired")
    /\ UNCHANGED <<qbt, faulted>>

(* Sleep; then ask once more, or find that the deadline has passed, which  *)
(* a slow answer of /info may bring about in any round.                    *)
Sleep(p) ==
    /\ pc[p] = "waiting"
    /\ \/ /\ polls[p] < MaxPolls
          /\ polls' = [polls EXCEPT ![p] = @ + 1]
          /\ GoTo(p, "poll")
          /\ UNCHANGED <<listed, res>>
       \/ /\ res' = [res EXCEPT ![p] = "expired"]
          /\ GoTo(p, "delete")
          /\ UNCHANGED <<polls, listed>>
    /\ UNCHANGED <<qbt, faulted>>

(* /files is 404 for an unknown hash and empty for a torrent without       *)
(* metadata.                                                               *)
Files(p) ==
    /\ pc[p] = "files"
    /\ UNCHANGED qbt
    /\ LET t == torrent[HashOf[p]] IN
       \/ /\ t # "absent"
          /\ listed' = [listed EXCEPT ![p] = t = "ready"]
          /\ GoTo(p, IF t = "ready" THEN "prio" ELSE "delete")
          /\ res' = [res EXCEPT ![p] = IF t = "ready" THEN @ ELSE "empty"]
          /\ UNCHANGED <<polls, faulted>>
       \/ /\ t = "absent"
          /\ Return(p, "failed")
          /\ UNCHANGED faulted
       \/ Fails(p)

(* set_all_files_zero_prio is refused unless the torrent has its metadata. *)
ZeroPrio(p) ==
    /\ pc[p] = "prio"
    /\ LET h == HashOf[p] IN
       \/ /\ torrent[h] = "ready"
          /\ zeroed' = zeroed \cup {h}
          /\ res' = [res EXCEPT ![p] = "files"]
          /\ GoTo(p, "delete")
          /\ UNCHANGED <<torrent, polls, listed, faulted>>
       \/ /\ torrent[h] # "ready"
          /\ Return(p, "failed")
          /\ UNCHANGED <<qbt, faulted>>
       \/ Fails(p) /\ UNCHANGED qbt

(* _safe_delete: a failure is logged and ignored.                          *)
SafeDelete(p) ==
    /\ pc[p] = "delete"
    /\ GoTo(p, "callback")
    /\ \/ Deleted(HashOf[p]) /\ UNCHANGED faulted
       \/ UNCHANGED qbt /\ faulted' = faulted \cup {p}
    /\ UNCHANGED <<polls, listed, res>>

(* _post_callback: made once; whether it arrives is nothing to the prober, *)
(* which logs a failure and goes on.                                       *)
PostCallback(p) ==
    /\ pc[p] = "callback"
    /\ pc' = [pc EXCEPT ![p] = "done"]
    /\ UNCHANGED <<qbt, polls, listed, res, probeCrashes, faulted, overlapped>>

(* The prober is killed and restarted: what was acknowledged is forgotten. *)
ProbeCrash ==
    /\ probeCrashes < MaxProbeCrashes
    /\ probeCrashes' = probeCrashes + 1
    /\ pc' = [p \in Probes |-> IF pc[p] \in {"none", "done"} THEN pc[p]
                               ELSE "dead"]
    /\ faulted' = faulted \cup {p \in Probes : UnderWay(p)}
    /\ UNCHANGED <<qbt, polls, listed, res, overlapped>>

Step(p) ==
    \/ RunProbe(p) \/ AddPaused(p) \/ Info(p) \/ Sleep(p) \/ Files(p)
    \/ ZeroPrio(p) \/ SafeDelete(p) \/ PostCallback(p)

(* Every probe is over: the service waits for more.                         *)
Quiescent ==
    /\ \A p \in Probes : pc[p] \in {"done", "dead"}
    /\ UNCHANGED probeVars

ProbeNext ==
    \/ \E p \in Probes : Probe(p) \/ Step(p)
    \/ \E h \in Hashes : Metadata(h)
    \/ ProbeCrash
    \/ Quiescent

ProbeSpec == ProbeInit /\ [][ProbeNext]_probeVars

(* Every call of a probe has a timeout, so that its thread goes on; nothing *)
(* makes metadata arrive.                                                   *)
ProbeFairSpec == ProbeSpec /\ \A p \in Probes : WF_probeVars(Step(p))

-----------------------------------------------------------------------------
(* Properties *)

(* The variables have their types, a probe has a ProbeResult by the time it*)
(* deletes the torrent, and only a magnet with a hash gets that far.       *)
ProbeTypeOK ==
    /\ torrent \in [Hashes -> {"absent", "fetching", "ready"}]
    /\ zeroed \subseteq Hashes
    /\ pc \in [Probes -> Pcs]
    /\ polls \in [Probes -> 0..MaxPolls]
    /\ listed \in [Probes -> BOOLEAN]
    /\ res \in [Probes -> Results]
    /\ probeCrashes \in 0..MaxProbeCrashes
    /\ faulted \subseteq Probes
    /\ overlapped \subseteq Probes
    /\ \A p \in Probes :
          /\ pc[p] \in {"delete", "callback", "done"} => res[p] # "none"
          /\ UnderWay(p) => HashOf[p] # NoHash

(* A torrent in qBittorrent belongs to a probe under way, or a probe of it *)
(* met a failed call or a crash: no interleaving of two probes of one hash *)
(* and no deadline leaves one behind.  Where every probe of it that is     *)
(* over reported its files, what is left has priority zero: a failed       *)
(* delete does not let qBittorrent load the content.                       *)
ResidueAccounted ==
    \A h \in Hashes : torrent[h] # "absent" =>
        /\ \E p \in Probes : HashOf[p] = h /\ (UnderWay(p) \/ p \in faulted)
        /\ \/ torrent[h] # "ready"
           \/ h \in zeroed
           \/ \E p \in Probes :
                 /\ HashOf[p] = h /\ pc[p] \notin {"none", "queued"}
                 /\ ~(pc[p] \in {"callback", "done"} /\ res[p] = "files")

(* A probe that has its hash to itself and meets no failed call ends with  *)
(* the torrent's files or by its deadline, never with an empty or failed   *)
(* result.                                                                 *)
SoundAlone ==
    \A p \in Probes :
        pc[p] \in {"callback", "done"} /\ HashOf[p] # NoHash
                /\ p \notin faulted \cup overlapped
            => res[p] \in {"files", "expired"}

(* The inductive invariant behind the two.  A torrent that fetches its     *)
(* metadata has a probe that still polls or is about to delete it, one that*)
(* is ready any probe past its add, unless a call failed.  A probe that is *)
(* not through with set_all_files_zero_prio stands for every torrent whose *)
(* files may be loaded.  And a probe alone with its hash finds the torrent *)
(* as it left it.                                                          *)
Unreported(p) ==
    \/ pc[p] \in {"poll", "waiting", "files", "prio", "dead"}
    \/ pc[p] \in {"delete", "callback", "done"} /\ res[p] # "files"

Held(h, where) ==
    \E p \in Probes : HashOf[p] = h /\ (p \in faulted \/ pc[p] \in where)

TorrentsHeld ==
    \A h \in Hashes :
        /\ torrent[h] = "fetching" => Held(h, {"poll", "waiting", "delete"})
        /\ torrent[h] = "ready" => Held(h, Running \ {"add"})
        /\ torrent[h] # "absent" /\ h \notin zeroed =>
              \E p \in Probes : HashOf[p] = h /\ Unreported(p)

AloneKeepsTorrent ==
    \A p \in Probes : HashOf[p] # NoHash /\ p \notin faulted \cup overlapped =>
        /\ UnderWay(p) => \A q \in Rivals(p) : ~UnderWay(q)
        /\ pc[p] \in {"files", "prio"} => torrent[HashOf[p]] = "ready"
        /\ pc[p] \in {"delete", "callback", "done"} => res[p] \in {"files", "expired"}

ProbeIndInv == ProbeTypeOK /\ TorrentsHeld /\ AloneKeepsTorrent

(* Every accepted probe comes to its callback, however many wait for a     *)
(* thread, unless the prober is killed.                                    *)
ProbeAnswered ==
    \A p \in Probes : pc[p] = "queued" ~> pc[p] \in {"done", "dead"}

=============================================================================
