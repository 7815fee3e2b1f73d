---------------------------- MODULE PlayerProofs ----------------------------
(***************************************************************************)
(* Proofs about bt-player, for any number of pages, links and restarts,    *)
(* any files of the torrents and any range requests.                       *)
(***************************************************************************)
EXTENDS Player, SequenceTheorems, WellFoundedInduction, TLAPS

-----------------------------------------------------------------------------
(* The default file                                                        *)

(* Some member of a non-empty part of a sequence has the largest value.    *)
LEMMA LargestExists ==
  ASSUME NEW n \in Nat, NEW f \in [1..n -> Nat], NEW S \in SUBSET (1..n), S # {}
  PROVE  \E i \in S : \A j \in S : f[j] <= f[i]
  <1> DEFINE Part(k) == S \cap 1..k
             Largest(k) == \E i \in Part(k) : \A j \in Part(k) : f[j] <= f[i]
             T == {k \in 0..n : Part(k) # {} /\ ~Largest(k)}
             R == OpToRel(<, Nat)
  <1>1. CASE T = {}
    <2>1. Part(n) = S
      OBVIOUS
    <2>2. Largest(n)
      <3>1. n \in 0..n /\ n \notin T
        <4> HIDE DEF T
        <4> QED BY <1>1
      <3>2. Part(n) = {} \/ Largest(n)
        <4> HIDE DEF Part, Largest
        <4> QED BY <3>1
      <3> QED BY <2>1, <3>2
    <2> QED BY <2>1, <2>2
  <1>2. CASE T # {}
    <2>1. PICK k \in T : \A y \in T : <<y, k>> \notin R
      <3>1. IsWellFoundedOn(R, Nat)
        BY NatLessThanWellFounded
      <3>2. T \subseteq Nat
        <4> HIDE DEF Part, Largest
        <4> QED OBVIOUS
      <3> HIDE DEF T, R
      <3> QED BY <1>2, <3>1, <3>2, WFMin
    <2>2. k \in 0..n /\ Part(k) # {} /\ ~Largest(k)
      BY <2>1
    <2>3. k # 0 /\ k - 1 \in 0..n /\ k - 1 \in Nat /\ k \in Nat /\ k - 1 < k
      BY <2>2
    <2>4. k - 1 \notin T
      BY <2>1, <2>3 DEF OpToRel
    <2>5. Part(k - 1) = {} \/ Largest(k - 1)
      BY <2>3, <2>4
    <2>6. \A x \in Part(k) : x = k \/ x \in Part(k - 1)
      BY <2>3
    <2>7. \A x \in Part(k - 1) : x \in Part(k)
      BY <2>3
    <2>8. \A x \in Part(k) : f[x] \in Nat
      BY <2>2
    <2> HIDE DEF Part
    <2>9. CASE Part(k - 1) = {}
      BY <2>2, <2>6, <2>8, <2>9
    <2>10. CASE Largest(k - 1)
      <3>1. PICK i \in Part(k - 1) : \A j \in Part(k - 1) : f[j] <= f[i]
        BY <2>10
      <3>2. i \in Part(k) /\ f[i] \in Nat
        BY <2>7, <2>8
      <3>3. CASE k \notin Part(k) \/ f[k] <= f[i]
        BY <2>2, <2>6, <3>1, <3>2, <3>3
      <3>4. CASE k \in Part(k) /\ ~(f[k] <= f[i])
        <4>1. f[k] \in Nat /\ f[i] <= f[k]
          BY <2>8, <3>2, <3>4
        <4>2. \A j \in Part(k) : f[j] <= f[k]
          BY <2>6, <2>7, <2>8, <3>1, <3>2, <4>1
        <4> QED BY <2>2, <3>4, <4>2
      <3> QED BY <3>3, <3>4
    <2> QED BY <2>5, <2>9, <2>10
  <1> QED BY <1>1, <1>2

(* The default is a file, and no suspected ad when there is another.       *)
LEMMA DefaultFileSound ==
  ASSUME NEW files \in Seq([size: Nat, ad: BOOLEAN]), files # <<>>
  PROVE  /\ DefaultFile(files) \in Int
         /\ DefaultFile(files) + 1 \in DOMAIN files
         /\ \A i \in DOMAIN files : ~files[i].ad => ~files[DefaultFile(files) + 1].ad
  <1> DEFINE n == Len(files)
             good == {i \in DOMAIN files : ~files[i].ad}
             best == {i \in good : \A j \in good : files[j].size <= files[i].size}
             last == CHOOSE i \in best : \A j \in best : j <= i
  <1>1. n \in Nat \ {0} /\ DOMAIN files = 1..n
    OBVIOUS
  <1>2. DefaultFile(files) = IF good = {} THEN 0 ELSE last - 1
    BY DEF DefaultFile
  <1>3. CASE good = {}
    <2>1. DefaultFile(files) = 0 /\ 1 \in DOMAIN files
      BY <1>1, <1>2, <1>3
    <2> QED BY <1>3, <2>1
  <1>4. CASE good # {}
    <2>1. good \in SUBSET (1..n)
      BY <1>1
    <2>2. best # {}
      <3> DEFINE f == [i \in 1..n |-> files[i].size]
      <3>1. f \in [1..n -> Nat] /\ \A i \in 1..n : f[i] = files[i].size
        <4>1. \A i \in 1..n : files[i] \in [size: Nat, ad: BOOLEAN]
          <5> DEFINE D == [size: Nat, ad: BOOLEAN]
          <5>1. files \in Seq(D)
            OBVIOUS
          <5> HIDE DEF D
          <5>2. \A i \in 1..n : files[i] \in D
            BY <5>1, ElementOfSeq
          <5> QED BY <5>2 DEF D
        <4>2. \A i \in 1..n : files[i].size \in Nat
          BY <4>1
        <4>3. \A i \in 1..n : f[i] = files[i].size
          OBVIOUS
        <4>4. f \in [1..n -> Nat]
          BY <4>2, Zenon
        <4> QED BY <4>3, <4>4
      <3> HIDE DEF f, good
      <3>2. PICK i \in good : \A j \in good : f[j] <= f[i]
        BY <1>1, <1>4, <2>1, <3>1, LargestExists
      <3> QED BY <2>1, <3>1, <3>2
    <2>3. best \in SUBSET (1..n)
      BY <2>1
    <2>4. \E i \in best : \A j \in best : j <= i
      <3> DEFINE f == [i \in 1..n |-> i]
      <3>1. f \in [1..n -> Nat] /\ \A i \in 1..n : f[i] = i
        BY <1>1
      <3> HIDE DEF f, best
      <3>2. PICK i \in best : \A j \in best : f[j] <= f[i]
        BY <1>1, <2>2, <2>3, <3>1, LargestExists
      <3> QED BY <2>3, <3>1, <3>2
    <2>5. last \in best
      <3> HIDE DEF best
      <3> QED BY <2>4
    <2>6. last \in good /\ last \in 1..n
      BY <2>3, <2>5
    <2> HIDE DEF last
    <2>7. DefaultFile(files) = last - 1 /\ last \in Int /\ DefaultFile(files) + 1 = last
      BY <1>2, <1>4, <2>6
    <2> QED BY <1>1, <2>6, <2>7
  <1> QED BY <1>3, <1>4

-----------------------------------------------------------------------------
(* The resolver chain                                                      *)

LEMMA ChainFirst ==
  ASSUME NEW l
  PROVE  /\ Chain(l) = "magnet" <=> MagnetHandles(l)
         /\ Chain(l) \in {"magnet", "hls", "page", "none"}
  <1>1. CASE MagnetHandles(l)
    BY <1>1 DEF Chain
  <1>2. CASE ~MagnetHandles(l) /\ M3u8Handles(l)
    BY <1>2 DEF Chain, M3u8Handles, WebPageHandles
  <1>3. CASE ~MagnetHandles(l) /\ ~M3u8Handles(l) /\ WebPageHandles(l)
    BY <1>3 DEF Chain
  <1>4. CASE ~MagnetHandles(l) /\ ~M3u8Handles(l) /\ ~WebPageHandles(l)
    BY <1>4 DEF Chain
  <1> QED BY <1>1, <1>2, <1>3, <1>4

LEMMA TorrentFiles ==
  ASSUME NEW l \in Links, MagnetHandles(l)
  PROVE  /\ TorrentOf[l] \in DOMAIN FilesOf
         /\ FilesOf[TorrentOf[l]] # <<>>
         /\ FilesOf[TorrentOf[l]] \in Seq([size: Nat, ad: BOOLEAN])
  BY PlayerAssumption DEF MagnetHandles

LEMMA InitInv == Init => IndInv
  <1> SUFFICES ASSUME Init PROVE IndInv
    OBVIOUS
  <1>1. TypeOK
    BY DEF Init, TypeOK, Idle, Nothing, Requests, Answers
  <1>2. QueueSound
    BY DEF Init, QueueSound, Idle
  <1>3. ReadsOwnTree
    BY DEF Init, ReadsOwnTree, Idle
  <1>4. AnswersSound /\ HistorySound
    BY DEF Init, AnswersSound, HistorySound
  <1>5. OneId
    BY DEF Init, OneId
  <1> QED BY <1>1, <1>2, <1>3, <1>4, <1>5 DEF IndInv

-----------------------------------------------------------------------------
(* Steps that leave part of the state alone                                *)

LEMMA AnswersKept ==
  ASSUME AnswersSound, UNCHANGED <<torrents, boot, shown>>
  PROVE  AnswersSound'
  <1> SUFFICES ASSUME NEW t \in Tabs, shown[t] # Nothing PROVE AnswerSound(shown[t])'
    BY DEF AnswersSound
  <1>1. AnswerSound(shown[t])
    BY DEF AnswersSound
  <1> QED BY <1>1 DEF AnswerSound, InSession, MagnetHandles

LEMMA RequestsKept ==
  ASSUME TypeOK, QueueSound, ReadsOwnTree, OneId,
         UNCHANGED <<torrents, nextId, boot, queue, holder, req, shown>>
  PROVE  TypeOK' /\ QueueSound' /\ ReadsOwnTree' /\ OneId'
  <1>1. TypeOK'
    BY DEF TypeOK
  <1>2. QueueSound'
    BY DEF QueueSound
  <1>3. ReadsOwnTree'
    BY DEF ReadsOwnTree, InSession, MagnetHandles
  <1>4. OneId'
    BY DEF OneId
  <1> QED BY <1>1, <1>2, <1>3, <1>4

LEMMA HistoryKept ==
  ASSUME HistorySound, UNCHANGED <<torrents, boot, history>>
  PROVE  HistorySound'
  BY DEF HistorySound, InSession

-----------------------------------------------------------------------------
(* The requests                                                            *)

(* HandleResolve: an idle page is in no place of the queue, so that its    *)
(* request is appended once.                                               *)
LEMMA HandleResolveInv ==
  ASSUME IndInv, NEW t \in Tabs, NEW l \in Links, HandleResolve(t, l)
  PROVE  IndInv'
  <1> USE DEF IndInv
  <1> DEFINE new == [Idle EXCEPT !.st = "queued", !.link = l]
  <1>1. /\ req[t] = Idle /\ req' = [req EXCEPT ![t] = new]
        /\ shown' = [shown EXCEPT ![t] = Nothing]
        /\ queue' = Append(queue, t)
        /\ UNCHANGED <<torrents, nextId, boot, holder, history>>
    BY DEF HandleResolve
  <1>2. new \in Requests /\ new.st = "queued" /\ new.link = l /\ Nothing \in Answers
    <2>1. Idle \in Requests
      BY DEF Idle, Requests
    <2>2. Nothing \in Answers
      BY DEF Nothing, Answers
    <2>3. new \in Requests /\ new.st = "queued" /\ new.link = l
      BY <2>1 DEF Requests
    <2> QED BY <2>2, <2>3
  <1> HIDE DEF new
  <1>3. \A u \in Tabs : /\ req'[u] = IF u = t THEN new ELSE req[u]
                        /\ shown'[u] = IF u = t THEN Nothing ELSE shown[u]
    BY <1>1 DEF TypeOK
  <1>4. TypeOK'
    BY <1>1, <1>2 DEF TypeOK
  <1>5. QueueSound'
    <2>1. /\ Len(queue') = Len(queue) + 1 /\ Len(queue) \in Nat
          /\ \A i \in 1..Len(queue) : queue'[i] = queue[i] /\ queue[i] \in Tabs
          /\ queue'[Len(queue) + 1] = t
      BY <1>1 DEF TypeOK
    <2>2. \A i \in 1..Len(queue) : queue[i] # t
      BY <1>1 DEF QueueSound, Idle
    <2>3. \A i \in 1..Len(queue') : i = Len(queue) + 1 \/ i \in 1..Len(queue)
      BY <2>1
    <2>4. \A i \in 1..Len(queue') : req'[queue'[i]].st = "queued"
      BY <1>2, <1>3, <2>1, <2>2, <2>3 DEF QueueSound
    <2>5. \A i, j \in 1..Len(queue') : queue'[i] = queue'[j] => i = j
      BY <2>1, <2>2, <2>3 DEF QueueSound
    <2>6. \A u \in Tabs : req'[u].st # "idle" => req'[u].link \in Links
      BY <1>2, <1>3 DEF QueueSound
    <2> QED BY <2>4, <2>5, <2>6 DEF QueueSound
  <1>6. ReadsOwnTree'
    BY <1>1, <1>2, <1>3 DEF ReadsOwnTree, InSession, MagnetHandles
  <1>7. AnswersSound'
    <2> SUFFICES ASSUME NEW u \in Tabs, shown'[u] # Nothing
                 PROVE  AnswerSound(shown[u])' /\ shown'[u] = shown[u]
      BY DEF AnswersSound
    <2>1. shown'[u] = shown[u] /\ AnswerSound(shown[u])
      BY <1>3 DEF AnswersSound, Nothing
    <2> QED BY <1>1, <2>1 DEF AnswerSound, InSession, MagnetHandles
  <1>8. HistorySound' /\ OneId'
    BY <1>1 DEF HistorySound, OneId, InSession
  <1> QED BY <1>4, <1>5, <1>6, <1>7, <1>8

(* LockChain: the head of the queue leaves it.                             *)
LEMMA LockChainInv ==
  ASSUME IndInv, NEW t \in Tabs, LockChain(t)
  PROVE  IndInv'
  <1> USE DEF IndInv
  <1>1. /\ queue # <<>> /\ Head(queue) = t /\ queue' = Tail(queue) /\ holder' = t
        /\ req' = [req EXCEPT ![t].st = "resolving"]
        /\ UNCHANGED <<torrents, nextId, boot, shown, history>>
    BY DEF LockChain
  <1>2. \A u \in Tabs : /\ u # t => req'[u] = req[u]
                        /\ u = t => req'[u] = [req[u] EXCEPT !.st = "resolving"]
    BY <1>1 DEF TypeOK
  <1>3. req[t] \in Requests
    BY DEF TypeOK
  <1>4. /\ req'[t] \in Requests /\ req'[t].st = "resolving"
        /\ req'[t].link = req[t].link
    BY <1>2, <1>3 DEF Requests
  <1>5. TypeOK'
    <2>1. queue' \in Seq(Tabs)
      BY <1>1 DEF TypeOK
    <2>2. req' \in [Tabs -> Requests]
      BY <1>1, <1>4 DEF TypeOK
    <2> QED BY <1>1, <2>1, <2>2 DEF TypeOK
  <1>6. QueueSound'
    <2>0. queue \in Seq(Tabs) /\ queue # <<>>
      BY <1>1 DEF TypeOK
    <2>1. /\ Len(queue) \in Nat \ {0} /\ Len(queue') = Len(queue) - 1 /\ queue[1] = t
          /\ \A i \in 1..Len(queue') : queue'[i] = queue[i + 1] /\ i + 1 \in 1..Len(queue)
      <3>1. /\ Len(Tail(queue)) = Len(queue) - 1
            /\ \A i \in 1..Len(Tail(queue)) : Tail(queue)[i] = queue[i + 1]
            /\ Head(queue) = queue[1]
        BY <2>0, HeadTailProperties
      <3>2. Len(queue) \in Nat \ {0}
        BY <2>0
      <3> QED BY <1>1, <3>1, <3>2
    <2>2. \A i \in 1..Len(queue') : queue'[i] # t /\ queue'[i] \in Tabs
      BY <2>1 DEF QueueSound, TypeOK
    <2>3. \A i \in 1..Len(queue') : req'[queue'[i]].st = "queued"
      <3>1. \A i \in 1..Len(queue') : req'[queue'[i]] = req[queue'[i]]
        BY <1>2, <2>2
      <3>2. \A i \in 1..Len(queue') : req[queue'[i]].st = "queued"
        BY <2>1 DEF QueueSound
      <3> QED BY <3>1, <3>2
    <2>4. \A i, j \in 1..Len(queue') : queue'[i] = queue'[j] => i = j
      <3> SUFFICES ASSUME NEW i \in 1..Len(queue'), NEW j \in 1..Len(queue'), queue'[i] = queue'[j]
                   PROVE  i = j
        OBVIOUS
      <3>1. /\ queue[i + 1] = queue[j + 1]
            /\ i + 1 \in 1..Len(queue) /\ j + 1 \in 1..Len(queue)
        BY <2>1
      <3>2. i + 1 = j + 1
        BY <3>1 DEF QueueSound
      <3> QED BY <3>2
    <2>5. req[t].st # "idle"
      BY <2>1 DEF QueueSound
    <2>6. \A u \in Tabs : req'[u].st # "idle" => req'[u].link \in Links
      BY <1>2, <1>4, <2>5 DEF QueueSound
    <2> QED BY <2>3, <2>4, <2>6 DEF QueueSound
  <1>7. ReadsOwnTree'
    <2>1. \A u \in Tabs : req'[u].st = "tree" => req'[u] = req[u]
      BY <1>2, <1>4
    <2> QED BY <1>1, <2>1 DEF ReadsOwnTree, InSession, MagnetHandles
  <1>8. AnswersSound' /\ HistorySound'
    BY <1>1, AnswersKept, HistoryKept
  <1>9. OneId'
    BY <1>1 DEF OneId
  <1> QED BY <1>5, <1>6, <1>7, <1>8, <1>9

(* Play: the row has the id of an answer, which is in the session when the *)
(* answer is of this run of the process.                                   *)
LEMMA PlayInv ==
  ASSUME IndInv, NEW t \in Tabs, NEW l \in Links, Play(t, l)
  PROVE  IndInv'
  <1> USE DEF IndInv
  <1> DEFINE row == [link |-> l, of |-> shown[t].of, id |-> shown[t].id, boot |-> shown[t].boot]
  <1>1. /\ shown[t] # Nothing /\ history' = history \cup {row}
        /\ UNCHANGED <<torrents, nextId, boot, queue, holder, req, shown, resolves>>
    BY DEF Play, InsertPlayHistory
  <1>2. AnswerSound(shown[t])
    BY <1>1 DEF AnswersSound
  <1>3. row.boot \in Nat /\ row.boot <= boot /\ (row.id # -1 /\ row.boot = boot => InSession(row.id, row.of))
    BY <1>2 DEF AnswerSound
  <1>4. HistorySound'
    BY <1>1, <1>3 DEF HistorySound, InSession
  <1>5. (TypeOK /\ QueueSound /\ ReadsOwnTree /\ AnswersSound /\ OneId)'
    BY <1>1, AnswersKept, RequestsKept
  <1> QED BY <1>4, <1>5

-----------------------------------------------------------------------------
(* The answers                                                             *)

(* An answer that is sound leaves the rest sound: the page that gets it    *)
(* was not in the queue.                                                   *)
LEMMA AnswerInv ==
  ASSUME IndInv, NEW t \in Tabs, NEW what \in Answers, Answer(t, what),
         req[t].st # "queued", what # Nothing => AnswerSound(what),
         UNCHANGED <<torrents, nextId, boot, queue, history>>
  PROVE  IndInv'
  <1> USE DEF IndInv
  <1>1. /\ holder' = NoTab
        /\ req' = [req EXCEPT ![t] = Idle] /\ shown' = [shown EXCEPT ![t] = what]
        /\ UNCHANGED <<torrents, nextId, boot, queue, history>>
    BY DEF Answer
  <1>2. Idle \in Requests /\ Idle.st = "idle"
    BY DEF Idle, Requests
  <1>3. \A u \in Tabs : /\ req'[u] = IF u = t THEN Idle ELSE req[u]
                        /\ shown'[u] = IF u = t THEN what ELSE shown[u]
    BY <1>1 DEF TypeOK
  <1>4. TypeOK'
    BY <1>1, <1>2 DEF TypeOK
  <1>5. QueueSound'
    <2>1. \A i \in 1..Len(queue) : queue[i] \in Tabs /\ req[queue[i]].st = "queued"
      BY ElementOfSeq DEF TypeOK, QueueSound
    <2>2. \A i \in 1..Len(queue) : req'[queue[i]] = req[queue[i]]
      BY <1>3, <2>1
    <2>3. \A u \in Tabs : req'[u].st # "idle" => req'[u].link \in Links
      BY <1>2, <1>3 DEF QueueSound
    <2> QED BY <1>1, <2>1, <2>2, <2>3 DEF QueueSound
  <1>6. ReadsOwnTree'
    BY <1>1, <1>2, <1>3 DEF ReadsOwnTree, InSession, MagnetHandles
  <1>7. AnswersSound'
    <2> SUFFICES ASSUME NEW u \in Tabs, shown'[u] # Nothing
                 PROVE  AnswerSound(shown[u])'
      BY DEF AnswersSound
    <2>1. AnswerSound(shown'[u])
      <3>1. CASE u = t
        BY <1>3, <3>1
      <3>2. CASE u # t
        BY <1>3, <3>2 DEF AnswersSound
      <3> QED BY <3>1, <3>2
    <2> QED BY <1>1, <2>1 DEF AnswerSound, InSession, MagnetHandles
  <1>8. HistorySound' /\ OneId'
    BY <1>1 DEF HistorySound, OneId, InSession
  <1> QED BY <1>4, <1>5, <1>6, <1>7, <1>8

LEMMA ResolveFailsInv ==
  ASSUME IndInv, NEW t \in Tabs, ResolveFails(t)
  PROVE  IndInv'
  <1>1. Nothing \in Answers
    BY DEF Nothing, Answers
  <1>2. req[t].st # "queued" /\ Answer(t, Nothing) /\ UNCHANGED <<torrents, nextId, boot, queue, history>>
    BY DEF ResolveFails, Resolving, ReadsTree
  <1> QED BY <1>1, <1>2, AnswerInv

(* ResolveDirect: the link is no magnet, or the first resolver would have  *)
(* taken it.                                                               *)
LEMMA ResolveDirectInv ==
  ASSUME IndInv, NEW t \in Tabs, ResolveDirect(t)
  PROVE  IndInv'
  <1> DEFINE link == req[t].link
             what == [link |-> link, of |-> link, id |-> -1, default |-> 0, boot |-> boot]
  <1>1. /\ req[t].st = "resolving" /\ Resolver(t) \in {"hls", "page"}
        /\ Answer(t, what) /\ UNCHANGED <<torrents, nextId, boot, queue, history>>
    BY DEF ResolveDirect, Resolving
  <1>2. link \in Links /\ boot \in Nat
    BY <1>1 DEF IndInv, QueueSound, TypeOK
  <1>3. ~MagnetHandles(link)
    <2> HIDE DEF link
    <2>1. Chain(link) # "magnet"
      BY <1>1 DEF Resolver, link
    <2> QED BY <2>1, ChainFirst
  <1>4. what \in Answers /\ AnswerSound(what)
    <2> HIDE DEF link
    <2>1. what \in Answers
      BY <1>2 DEF Answers
    <2> QED BY <1>2, <1>3, <2>1 DEF AnswerSound
  <1> HIDE DEF what
  <1> QED BY <1>1, <1>4, AnswerInv

(* FileTreeById: the request's id is of its own torrent, and the default   *)
(* is a file of it.                                                        *)
LEMMA FileTreeByIdInv ==
  ASSUME IndInv, NEW t \in Tabs, FileTreeById(t)
  PROVE  IndInv'
  <1> DEFINE link == req[t].link
             m == torrents[req[t].id]
             files == FilesOf[m]
             what == [link |-> link, of |-> m, id |-> req[t].id,
                      default |-> DefaultFile(files), boot |-> boot]
  <1>1. /\ req[t].st = "tree" /\ Answer(t, what)
        /\ UNCHANGED <<torrents, nextId, boot, queue, history>>
    BY DEF FileTreeById, ReadsTree
  <1>2. link \in Links /\ boot \in Nat /\ req[t].id \in Int
    BY <1>1 DEF IndInv, QueueSound, TypeOK, Requests
  <1>3. MagnetHandles(link) /\ m = TorrentOf[link] /\ InSession(req[t].id, m)
    BY <1>1 DEF IndInv, ReadsOwnTree, InSession
  <1>4. /\ m \in DOMAIN FilesOf
        /\ files # <<>> /\ files \in Seq([size: Nat, ad: BOOLEAN])
    BY <1>2, <1>3, TorrentFiles
  <1>5. /\ DefaultFile(files) \in Int
        /\ DefaultFile(files) + 1 \in DOMAIN files
        /\ \A i \in DOMAIN files : ~files[i].ad => ~files[DefaultFile(files) + 1].ad
    <2> HIDE DEF files
    <2> QED BY <1>4, DefaultFileSound
  <1>6. what \in Answers
    <2> HIDE DEF link, m, files
    <2> QED BY <1>2, <1>4, <1>5 DEF Answers
  <1>7. AnswerSound(what)
    <2>1. /\ what.link = link /\ what.of = m /\ what.id = req[t].id
          /\ what.default = DefaultFile(files) /\ what.boot = boot
      OBVIOUS
    <2> HIDE DEF what, link
    <2> QED BY <1>2, <1>3, <1>5, <2>1 DEF AnswerSound
  <1> HIDE DEF what
  <1> QED BY <1>1, <1>6, <1>7, AnswerInv

-----------------------------------------------------------------------------
(* The session                                                             *)

(* ParseMagnet: a torrent that is found keeps its id; one that is added    *)
(* gets an id nobody has, and no other torrent has its hash.               *)
LEMMA ParseMagnetInv ==
  ASSUME IndInv, NEW t \in Tabs, ParseMagnet(t)
  PROVE  IndInv'
  <1> USE DEF IndInv
  <1> DEFINE link == req[t].link
             m == TorrentOf[link]
             same == {id \in DOMAIN torrents : torrents[id] = m}
             found == same # {}
             got == IF found THEN CHOOSE id \in same : TRUE ELSE nextId
             more == [id \in DOMAIN torrents \cup {nextId} |->
                        IF id = nextId THEN m ELSE torrents[id]]
  <1>1. /\ req[t].st = "resolving" /\ Resolver(t) = "magnet" /\ nextId' = nextId + 1
        /\ req' = [req EXCEPT ![t].st = "tree", ![t].id = got]
        /\ torrents' = IF found THEN torrents ELSE more
        /\ UNCHANGED <<boot, queue, holder, shown, history>>
    BY DEF ParseMagnet, Resolving
  <1>2. link \in Links /\ nextId \in Nat /\ req[t] \in Requests
    BY <1>1 DEF QueueSound, TypeOK
  <1>3. MagnetHandles(link)
    <2> HIDE DEF link
    <2>1. Chain(link) = "magnet"
      BY <1>1 DEF Resolver, link
    <2> QED BY <2>1, ChainFirst
  <1>4. m \in DOMAIN FilesOf
    <2> HIDE DEF link
    <2> QED BY <1>2, <1>3, TorrentFiles
  <1>5. nextId \notin DOMAIN torrents
    BY <1>2 DEF TypeOK
  <1> HIDE DEF link
  <1>6. \A id \in DOMAIN torrents : id \in DOMAIN torrents' /\ torrents'[id] = torrents[id]
    BY <1>1, <1>5
  <1>7. got \in DOMAIN torrents' /\ torrents'[got] = m /\ got \in Int
    <2>1. CASE found
      <3> HIDE DEF same
      <3>1. got \in same
        BY <2>1
      <3>2. got \in DOMAIN torrents /\ torrents[got] = m
        BY <3>1 DEF same
      <3> QED BY <1>2, <1>6, <3>2 DEF TypeOK
    <2>2. CASE ~found
      BY <1>1, <1>2, <2>2
    <2> QED BY <2>1, <2>2
  <1>8. OneId'
    <2>1. CASE found
      BY <1>1, <2>1 DEF OneId
    <2>2. CASE ~found
      <3>1. \A id \in DOMAIN torrents : torrents[id] # m
        BY <2>2
      <3>2. torrents' = more
        BY <1>1, <2>2
      <3> QED BY <1>5, <3>1, <3>2 DEF OneId
    <2> QED BY <2>1, <2>2
  <1>9. /\ torrents' \in [DOMAIN torrents' -> DOMAIN FilesOf]
        /\ DOMAIN torrents' \subseteq 0 .. nextId' - 1
    <2>1. CASE found
      BY <1>1, <1>2, <2>1 DEF TypeOK
    <2>2. CASE ~found
      <3>1. torrents' = more /\ DOMAIN torrents' = DOMAIN torrents \cup {nextId}
        BY <1>1, <2>2
      <3>2. more \in [DOMAIN torrents \cup {nextId} -> DOMAIN FilesOf]
        BY <1>4 DEF TypeOK
      <3>3. DOMAIN torrents \cup {nextId} \subseteq 0 .. nextId' - 1
        BY <1>1, <1>2 DEF TypeOK
      <3> QED BY <3>1, <3>2, <3>3
    <2> QED BY <2>1, <2>2
  <1> HIDE DEF got, found, more
  <1>10. /\ req' \in [Tabs -> Requests]
         /\ \A u \in Tabs : u # t => req'[u] = req[u]
         /\ req'[t].st = "tree" /\ req'[t].link = link /\ req'[t].id = got
    <2>1. req'[t] = [[req[t] EXCEPT !.st = "tree"] EXCEPT !.id = got]
      BY <1>1 DEF TypeOK
    <2>2. req'[t] \in Requests /\ req'[t].st = "tree" /\ req'[t].link = link /\ req'[t].id = got
      BY <1>2, <1>7, <2>1 DEF Requests, link
    <2>3. \A u \in Tabs : u # t => req'[u] = req[u]
      BY <1>1 DEF TypeOK
    <2>4. req' \in [Tabs -> Requests]
      BY <1>1, <2>2, <2>3 DEF TypeOK
    <2> QED BY <2>2, <2>3, <2>4
  <1>11. TypeOK'
    BY <1>1, <1>2, <1>9, <1>10 DEF TypeOK
  <1>12. QueueSound'
    <2>1. \A i \in 1..Len(queue) : queue[i] \in Tabs /\ req[queue[i]].st = "queued"
      BY ElementOfSeq DEF TypeOK, QueueSound
    <2>2. \A i \in 1..Len(queue) : req'[queue[i]].st = "queued"
      BY <1>1, <1>10, <2>1
    <2>3. \A i, j \in 1..Len(queue) : queue[i] = queue[j] => i = j
      BY DEF QueueSound
    <2>4. \A u \in Tabs : req'[u].st # "idle" => req'[u].link \in Links
      BY <1>2, <1>10 DEF QueueSound
    <2>5. queue' = queue
      BY <1>1
    <2> QED BY <2>2, <2>3, <2>4, <2>5 DEF QueueSound
  <1>13. \A id, of : InSession(id, of) => InSession(id, of)'
    BY <1>6 DEF InSession
  <1>14. ReadsOwnTree'
    <2> SUFFICES ASSUME NEW u \in Tabs, req'[u].st = "tree"
                 PROVE  (MagnetHandles(req[u].link) /\ InSession(req[u].id, TorrentOf[req[u].link]))'
      BY DEF ReadsOwnTree
    <2>1. CASE u = t
      BY <1>3, <1>7, <1>10, <2>1 DEF InSession, MagnetHandles
    <2>2. CASE u # t
      <3>1. req'[u] = req[u]
        BY <1>10, <2>2
      <3>2. MagnetHandles(req[u].link) /\ InSession(req[u].id, TorrentOf[req[u].link])
        BY <3>1 DEF ReadsOwnTree
      <3> QED BY <1>6, <3>1, <3>2 DEF InSession, MagnetHandles
    <2> QED BY <2>1, <2>2
  <1>15. AnswersSound'
    <2> SUFFICES ASSUME NEW u \in Tabs, shown[u] # Nothing
                 PROVE  AnswerSound(shown[u])'
      BY <1>1 DEF AnswersSound
    <2>1. AnswerSound(shown[u])
      BY DEF AnswersSound
    <2> QED BY <1>1, <1>13, <2>1 DEF AnswerSound, MagnetHandles
  <1>16. HistorySound'
    BY <1>1, <1>13 DEF HistorySound
  <1> QED BY <1>8, <1>11, <1>12, <1>14, <1>15, <1>16

(* Restart: nothing is in the session, and nothing of this run of the      *)
(* process is shown or in the history.                                     *)
LEMMA RestartInv ==
  ASSUME IndInv, Restart
  PROVE  IndInv'
  <1> USE DEF IndInv
  <1>1. /\ boot' = boot + 1 /\ torrents' = <<>> /\ nextId' = 0 /\ queue' = <<>>
        /\ holder' = NoTab /\ req' = [t \in Tabs |-> Idle] /\ UNCHANGED <<shown, history>>
    BY DEF Restart
  <1>2. Idle \in Requests /\ Idle.st = "idle"
    BY DEF Idle, Requests
  <1>3. TypeOK'
    BY <1>1, <1>2 DEF TypeOK
  <1>4. QueueSound' /\ ReadsOwnTree' /\ OneId'
    BY <1>1, <1>2 DEF QueueSound, ReadsOwnTree, OneId
  <1>5. AnswersSound'
    <2> SUFFICES ASSUME NEW u \in Tabs, shown[u] # Nothing
                 PROVE  AnswerSound(shown[u])'
      BY <1>1 DEF AnswersSound
    <2>1. AnswerSound(shown[u]) /\ boot \in Nat
      BY DEF AnswersSound, TypeOK
    <2>2. shown[u].boot \in Nat /\ shown[u].boot < boot'
      BY <1>1, <2>1 DEF AnswerSound
    <2> QED BY <1>1, <2>1, <2>2 DEF AnswerSound, MagnetHandles
  <1>6. HistorySound'
    BY <1>1 DEF HistorySound, TypeOK
  <1> QED BY <1>3, <1>4, <1>5, <1>6

LEMMA NextInv == IndInv /\ [Next]_vars => IndInv'
  <1> SUFFICES ASSUME IndInv, [Next]_vars PROVE IndInv'
    OBVIOUS
  <1>1. CASE UNCHANGED vars
    BY <1>1, AnswersKept, RequestsKept, HistoryKept DEF vars, IndInv
  <1>2. CASE Restart
    BY <1>2, RestartInv
  <1>3. ASSUME NEW t \in Tabs, Serve(t)
        PROVE  IndInv'
    BY <1>3, LockChainInv, ParseMagnetInv, ResolveFailsInv, ResolveDirectInv, FileTreeByIdInv DEF Serve
  <1>4. ASSUME NEW t \in Tabs, NEW l \in Links, HandleResolve(t, l) \/ Play(t, l)
        PROVE  IndInv'
    BY <1>4, HandleResolveInv, PlayInv
  <1> QED BY <1>1, <1>2, <1>3, <1>4 DEF Next

(* Whatever pages resolve and play and however often the process restarts: *)
(* the queue holds each waiting page once, a request reads the tree of its *)
(* own torrent, and answers and rows of this run have ids in the session.  *)
THEOREM Invariance == Spec => []IndInv
  BY InitInv, NextInv, PTL DEF Spec

(* The url of a file that is in the session leads to that file alone.      *)
LEMMA LocalFileFound ==
  ASSUME NEW id, NEW of, NEW idx, InSession(id, of), idx + 1 \in DOMAIN FilesOf[of]
  PROVE  LocalFile(id, idx) = {[of |-> of, idx |-> idx]}
  <1> DEFINE found == {i \in DOMAIN torrents : i = id /\ idx + 1 \in DOMAIN FilesOf[torrents[i]]}
  <1>1. found = {id} /\ torrents[id] = of
    BY DEF InSession
  <1>2. LocalFile(id, idx) = {[of |-> torrents[i], idx |-> idx] : i \in found}
    BY DEF LocalFile
  <1> HIDE DEF found
  <1> QED BY <1>1, <1>2

(* A page shows the files of the link it asked for, with a default that    *)
(* can be played and a url that leads to it, whichever links the other     *)
(* pages resolve meanwhile, and no torrent has two ids.                    *)
THEOREM PagesShowTheirOwn == Spec => []ShownIsAsked
  <1>1. IndInv => ShownIsAsked
    <2> SUFFICES ASSUME IndInv PROVE ShownIsAsked
      OBVIOUS
    <2>1. ASSUME NEW t \in Tabs, shown[t] # Nothing
          PROVE  LET s == shown[t] IN
                 IF ~MagnetHandles(s.link) THEN s.of = s.link
                 ELSE LET files == FilesOf[TorrentOf[s.link]] IN
                      /\ s.of = TorrentOf[s.link]
                      /\ \A i \in DOMAIN files : ~files[i].ad => ~files[s.default + 1].ad
                      /\ s.boot = boot =>
                            LocalFile(s.id, s.default) = {[of |-> TorrentOf[s.link], idx |-> s.default]}
      <3> DEFINE s == shown[t]
      <3>1. AnswerSound(s)
        BY <2>1 DEF IndInv, AnswersSound
      <3> HIDE DEF s
      <3>2. MagnetHandles(s.link) /\ s.boot = boot =>
               LocalFile(s.id, s.default) = {[of |-> TorrentOf[s.link], idx |-> s.default]}
        BY <3>1, LocalFileFound DEF AnswerSound
      <3>3. IF ~MagnetHandles(s.link) THEN s.of = s.link
            ELSE LET files == FilesOf[TorrentOf[s.link]] IN
                 /\ s.of = TorrentOf[s.link]
                 /\ \A i \in DOMAIN files : ~files[i].ad => ~files[s.default + 1].ad
                 /\ s.boot = boot =>
                       LocalFile(s.id, s.default) = {[of |-> TorrentOf[s.link], idx |-> s.default]}
        BY <3>1, <3>2 DEF AnswerSound
      <3> QED BY <3>3 DEF s
    <2>2. \A h \in history : h.id # -1 /\ h.boot = boot => torrents[h.id] = h.of
      BY DEF IndInv, HistorySound, InSession
    <2>3. \A a, b \in DOMAIN torrents : torrents[a] = torrents[b] => a = b
      BY DEF IndInv, OneId
    <2> QED BY <2>1, <2>2, <2>3 DEF ShownIsAsked
  <1> QED BY <1>1, Invariance, PTL

-----------------------------------------------------------------------------
(* The local stream                                                        *)

(* Of any length, any range, present or not: what is sent is what of the   *)
(* range is in the file.                                                   *)
LEMMA LocalStreamSound ==
  ASSUME NEW len \in Nat, NEW hasRange \in BOOLEAN, NEW s \in Nat \cup {None}, NEW e \in Nat \cup {None}
  PROVE  AnsweredInFull(len, hasRange, s, e)
  <1> USE DEF None
  <1> DEFINE wanted == Wanted(len, hasRange, s, e)
             r == LocalStream(len, hasRange, s, e)
             there == wanted \cap 0 .. len - 1
  <1> SUFFICES IF r.status \in {200, 206}
               THEN there # {} /\ r.from .. r.to = there
               ELSE len = 0 \/ e >= len \/ there = {}
    BY DEF AnsweredInFull
  <1>0. len \in Int /\ s \in Int /\ e \in Int /\ s >= -1 /\ e >= -1
    OBVIOUS
  <1>1. CASE len = 0
    <2>1. r.status = 500
      BY <1>1 DEF LocalStream
    <2> HIDE DEF r, there
    <2>2. r.status \notin {200, 206}
      BY <2>1
    <2> QED BY <1>1, <2>2
  <1>2. CASE len > 0 /\ ~hasRange
    <2>1. r.status = 200 /\ r.from = 0 /\ r.to = len - 1
      BY <1>2 DEF LocalStream
    <2>2. wanted = 0 .. len - 1
      BY <1>2 DEF Wanted
    <2> HIDE DEF wanted, r
    <2>3. there = 0 .. len - 1 /\ 0 \in there
      BY <1>2, <2>2
    <2> QED BY <2>1, <2>3
  <1>3. CASE len > 0 /\ hasRange
    <2>1. r = LocalRange(len, s, e)
      BY <1>3 DEF LocalStream
    <2>2. CASE s # None /\ e # None
      <3>1. wanted = s .. e
        BY <1>3, <2>2 DEF Wanted
      <3>2. CASE s <= e /\ e < len
        <4>1. r.status = 206 /\ r.from = s /\ r.to = e
          BY <2>1, <2>2, <3>2 DEF LocalRange, Partial
        <4> HIDE DEF wanted, r
        <4>2. there = s .. e /\ s \in there
          BY <1>0, <2>2, <3>1, <3>2
        <4> QED BY <4>1, <4>2
      <3>3. CASE ~(s <= e /\ e < len)
        <4>1. r.status = 416
          BY <2>1, <2>2, <3>3 DEF LocalRange, Refused
        <4> HIDE DEF wanted, r
        <4>2. e >= len \/ there = {}
          BY <1>0, <3>1, <3>3
        <4> QED BY <4>1, <4>2
      <3> QED BY <3>2, <3>3
    <2>3. CASE s # None /\ e = None
      <3>1. wanted = s .. len - 1
        BY <1>3, <2>3 DEF Wanted
      <3>2. CASE s < len
        <4>1. r.status = 206 /\ r.from = s /\ r.to = len - 1
          BY <2>1, <2>3, <3>2 DEF LocalRange, Partial
        <4> HIDE DEF wanted, r
        <4>2. there = s .. len - 1 /\ s \in there
          BY <1>0, <2>3, <3>1, <3>2
        <4> QED BY <4>1, <4>2
      <3>3. CASE ~(s < len)
        <4>1. r.status = 416
          BY <2>1, <2>3, <3>3 DEF LocalRange, Refused
        <4> HIDE DEF wanted, r
        <4>2. there = {}
          BY <1>0, <3>1, <3>3
        <4> QED BY <4>1, <4>2
      <3> QED BY <3>2, <3>3
    <2>4. CASE s = None /\ e # None
      <3>1. wanted = len - e .. len - 1
        BY <1>3, <2>4 DEF Wanted
      <3>2. CASE e > 0
        <4>1. r.status = 206 /\ r.from = len - (IF e < len THEN e ELSE len) /\ r.to = len - 1
          BY <2>1, <2>4, <3>2 DEF LocalRange, Partial
        <4> HIDE DEF wanted, r
        <4>2. there = len - (IF e < len THEN e ELSE len) .. len - 1 /\ len - 1 \in there
          BY <1>0, <1>3, <3>1, <3>2
        <4> QED BY <4>1, <4>2
      <3>3. CASE ~(e > 0)
        <4>1. r.status = 416
          BY <2>1, <2>4, <3>3 DEF LocalRange, Refused
        <4> HIDE DEF wanted, r
        <4>2. there = {}
          BY <1>0, <2>4, <3>1, <3>3
        <4> QED BY <4>1, <4>2
      <3> QED BY <3>2, <3>3
    <2>5. CASE s = None /\ e = None
      <3>1. wanted = {}
        BY <1>3, <2>5 DEF Wanted
      <3>2. r.status = 416
        BY <2>1, <2>5 DEF LocalRange, Refused
      <3> HIDE DEF wanted, r
      <3> QED BY <3>1, <3>2
    <2> HIDE DEF wanted, r
    <2> QED BY <2>2, <2>3, <2>4, <2>5
  <1> HIDE DEF wanted, r
  <1> QED BY <1>0, <1>1, <1>2, <1>3

(* Of every torrent the session ever has, the local stream answers every   *)
(* range of every file with the bytes of the range that are in the file.   *)
THEOREM RangesServed == Spec => []RangeSound
  <1>1. IndInv => RangeSound
    <2> SUFFICES ASSUME IndInv,
                        NEW m \in Range(torrents), NEW f \in ToSet(FilesOf[m]), NEW len \in 0 .. f.size,
                        NEW hasRange \in BOOLEAN, NEW s \in None .. len + 1, NEW e \in None .. len + 1
                 PROVE  AnsweredInFull(len, hasRange, s, e)
      BY DEF RangeSound
    <2>1. m \in DOMAIN FilesOf
      BY DEF IndInv, TypeOK, Range
    <2>2. f.size \in Nat
      <3> DEFINE D == [size: Nat, ad: BOOLEAN]
      <3>1. FilesOf[m] \in Seq(D)
        BY <2>1, PlayerAssumption
      <3>2. PICK i \in DOMAIN FilesOf[m] : f = FilesOf[m][i]
        BY DEF ToSet
      <3> HIDE DEF D
      <3>3. DOMAIN FilesOf[m] = 1 .. Len(FilesOf[m])
        BY <3>1
      <3>4. f \in D
        BY <3>1, <3>2, <3>3, ElementOfSeq
      <3> QED BY <3>4 DEF D
    <2>3. len \in Nat /\ s \in Nat \cup {None} /\ e \in Nat \cup {None}
      BY <2>2 DEF None
    <2> QED BY <2>3, LocalStreamSound
  <1> QED BY <1>1, Invariance, PTL
=============================================================================
