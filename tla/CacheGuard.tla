----------------------------- MODULE CacheGuard -----------------------------
(***************************************************************************)
(* scripts/cache_guard.sh, run by a systemd timer beside bt-player: when   *)
(* the cache directory is over its limit, delete first-level directories   *)
(* until it is below the floor.  The player goes on filling the cache      *)
(* while the script runs (a torrent of several files in a directory of its *)
(* own, one of a single file in CACHE_DIR itself, beside bt_player.db);    *)
(* the list of candidates is read once.                                    *)
(***************************************************************************)
EXTENDS Integers, Sequences, FiniteSets

CONSTANTS
    Dirs,       \* names of first-level directories of CACHE_DIR
    Protected,  \* PROTECT_NAME
    MaxBytes,   \* max_bytes
    FloorBytes, \* floor_bytes
    MaxWrites,  \* bound: writes of the player
    MaxAborts   \* bound: runs that end in an error of du

ASSUME CacheGuardAssumption ==
    /\ IsFiniteSet(Dirs)
    /\ Protected \in Dirs
    /\ MaxBytes \in Nat
    /\ FloorBytes \in 0..MaxBytes
    /\ MaxWrites \in Nat
    /\ MaxAborts \in Nat

VARIABLES
    size,       \* bytes per directory, 0 when there is no such directory
    mtime,      \* per directory, 0 when there is none
    root,       \* bytes of the files in CACHE_DIR itself
    writes,     \* writes so far, which date the directories
    at,         \* where the script is
    candidates, \* directories still to come to, in order
    listedAt,   \* mtimes when the candidates were listed
    total,      \* total_bytes, as du last gave it
    aborts      \* runs that failed so far

cache == <<size, mtime, root, writes>>
guardVars == <<cache, at, candidates, listedAt, total, aborts>>

Present == {d \in Dirs : mtime[d] # 0}

(* dir_size_bytes "$CACHE_DIR": du counts what is in use.                  *)
DirSizeBytes == root + Cardinality({b \in Dirs \X (1..MaxWrites) : b[2] <= size[b[1]]})

NoTimes == [d \in Dirs |-> 0]

GuardInit ==
    /\ size = [d \in Dirs |-> 0]
    /\ mtime = NoTimes
    /\ root = 0
    /\ writes = 0
    /\ at = "idle"
    /\ candidates = <<>>
    /\ listedAt = NoTimes
    /\ total = 0
    /\ aborts = 0

(* The player writes a piece into a directory, which it creates if need be, *)
(* or into a file of CACHE_DIR itself.                                      *)
Write(d) ==
    /\ writes < MaxWrites
    /\ writes' = writes + 1
    /\ \/ /\ size' = [size EXCEPT ![d] = @ + 1]
          /\ mtime' = [mtime EXCEPT ![d] = writes + 1]
          /\ UNCHANGED root
       \/ /\ root' = root + 1
          /\ UNCHANGED <<size, mtime>>
    /\ UNCHANGED <<at, candidates, listedAt, total, aborts>>

(* Mutant: the limit is taken in the wrong unit.                           *)
CheckHigh ==
    /\ at = "idle"
    /\ total' = DirSizeBytes
    /\ at' = IF DirSizeBytes > 2 * MaxBytes THEN "list" ELSE "idle"
    /\ UNCHANGED <<cache, candidates, listedAt, aborts>>

(* The timer starts the script, which measures the cache.                  *)
Check ==
    /\ at = "idle"
    /\ total' = DirSizeBytes
    /\ at' = IF DirSizeBytes > MaxBytes THEN "list" ELSE "idle"
    /\ UNCHANGED <<cache, candidates, listedAt, aborts>>

(* ls -1dt: newest first, and no two have the same time.                   *)
Listings ==
    {s \in [1..Cardinality(Present) -> Present] :
        \A i, j \in DOMAIN s : i < j => mtime[s[i]] > mtime[s[j]]}

(* mapfile *)
List ==
    /\ at = "list"
    /\ candidates' \in Listings
    /\ listedAt' = mtime
    /\ at' = "each"
    /\ UNCHANGED <<cache, total, aborts>>

Skip ==
    /\ at = "each"
    /\ candidates # <<>>
    /\ Head(candidates) = Protected
    /\ candidates' = Tail(candidates)
    /\ UNCHANGED <<cache, at, listedAt, total, aborts>>

(* rm -rf *)
RemoveDir ==
    /\ at = "each"
    /\ candidates # <<>>
    /\ LET d == Head(candidates) IN
          /\ d # Protected
          /\ size' = [size EXCEPT ![d] = 0]
          /\ mtime' = [mtime EXCEPT ![d] = 0]
    /\ candidates' = Tail(candidates)
    /\ at' = "measure"
    /\ UNCHANGED <<root, writes, listedAt, total, aborts>>

(* Mutant: the loop does not stop at the floor.                            *)
MeasureOnly ==
    /\ at = "measure"
    /\ total' = DirSizeBytes
    /\ at' = "each"
    /\ UNCHANGED <<cache, candidates, listedAt, aborts>>

Measure ==
    /\ at = "measure"
    /\ total' = DirSizeBytes
    /\ IF DirSizeBytes <= FloorBytes
       THEN at' = "idle" /\ candidates' = <<>>
       ELSE at' = "each" /\ UNCHANGED candidates
    /\ UNCHANGED <<cache, listedAt, aborts>>

Done ==
    /\ at = "each"
    /\ candidates = <<>>
    /\ at' = "idle"
    /\ UNCHANGED <<cache, candidates, listedAt, total, aborts>>

(* du fails, for a file the player has just removed: set -e and pipefail   *)
(* end the script.                                                         *)
Abort ==
    /\ at = "measure"
    /\ aborts < MaxAborts
    /\ aborts' = aborts + 1
    /\ at' = "idle"
    /\ candidates' = <<>>
    /\ UNCHANGED <<cache, listedAt, total>>

Guard == Check \/ List \/ Skip \/ RemoveDir \/ Measure \/ Done \/ Abort

GuardNext == Guard \/ \E d \in Dirs : Write(d)

GuardSpec == GuardInit /\ [][GuardNext]_guardVars

(* The timer starts the script every ten minutes and it runs to its end;   *)
(* nothing makes the player write.                                         *)
GuardFairSpec == GuardSpec /\ WF_guardVars(Guard)

-----------------------------------------------------------------------------
(* Properties *)

(* Nothing is larger or later than the writes so far.                      *)
GuardTypeOK ==
    /\ writes \in 0..MaxWrites /\ root \in 0..writes
    /\ size \in [Dirs -> 0..writes] /\ mtime \in [Dirs -> 0..writes]
    /\ at \in {"idle", "list", "each", "measure"}
    /\ candidates \in Seq(Dirs) /\ listedAt \in [Dirs -> 0..writes]
    /\ total \in Nat /\ aborts \in 0..MaxAborts

(* No directory has changed since they were listed.                        *)
AsListed == \A e \in Dirs : listedAt[e] = mtime[e]

(* The script deletes a directory only when the cache, measured after its  *)
(* previous deletion, is above the floor, and starts to when it is above   *)
(* the limit.                                                              *)
StopsAtFloor ==
    [][\A d \in Present : mtime'[d] = 0 =>
          total > IF AsListed THEN MaxBytes ELSE FloorBytes]_guardVars

(* What it rests on: the loop goes on above the floor, its candidates were *)
(* there when they were listed, and a deletion or a write leaves a time    *)
(* that is not the listed one.                                             *)
GuardIndInv ==
    /\ GuardTypeOK
    /\ at = "list" => total > MaxBytes
    /\ at = "each" => total > FloorBytes /\ (AsListed => total > MaxBytes)
    /\ at = "measure" => ~AsListed
    /\ at \in {"each", "measure"} =>
          \A k \in DOMAIN candidates : listedAt[candidates[k]] # 0

(* A cache over its limit comes back under it, or nothing is left that the *)
(* script may delete; files in CACHE_DIR itself are beyond its reach.      *)
LimitEnforced ==
    DirSizeBytes > MaxBytes ~>
        DirSizeBytes <= MaxBytes \/ Present \subseteq {Protected}

=============================================================================
