------------------------------- MODULE Player -------------------------------
(***************************************************************************)
(* bt-player: pages that ask for links, the resolver chain behind one      *)
(* mutex, the engine that gives torrents their ids, play history, and the  *)
(* range arithmetic of the local stream (lib.rs, engine, resolver, db.rs,  *)
(* App.tsx).  The session keeps nothing across a restart of the process;   *)
(* the history and the open pages do.                                      *)
(***************************************************************************)
EXTENDS Integers, Sequences, FiniteSets, SequencesExt

CONSTANTS
    Tabs,
    NoTab,
    Links,
    LinkHas,      \* what a link's text shows: "magnet:", "hash", ".m3u8", "http"
    NoLink,
    TorrentOf,    \* the info hash a magnet or a bare hash names
    FilesOf,      \* the files of a torrent: [size, ad]
    MaxResolves,  \* bound: clicks on resolve
    MaxPlays,     \* bound: rows of the history
    MaxRestarts   \* bound

ASSUME PlayerAssumption ==
    /\ NoTab \notin Tabs /\ NoLink \notin Links
    /\ LinkHas \in [Links -> SUBSET {"magnet:", "hash", ".m3u8", "http"}]
    /\ \A l \in Links : LinkHas[l] \cap {"magnet:", "hash"} # {} => TorrentOf[l] \in DOMAIN FilesOf
    /\ \A m \in DOMAIN FilesOf : FilesOf[m] # <<>> /\ FilesOf[m] \in Seq([size: Nat, ad: BOOLEAN])
    /\ MaxResolves \in Nat /\ MaxPlays \in Nat /\ MaxRestarts \in Nat

VARIABLES
    torrents,  \* the session's: id -> info hash
    nextId,
    boot,      \* how often the process was restarted
    queue,     \* handlers that wait for the mutex of the chain, in order
    holder,    \* the handler that has it
    req,       \* each page's request
    shown,     \* the answer each page shows
    history,   \* play_history
    resolves

vars == <<torrents, nextId, boot, queue, holder, req, shown, history, resolves>>

Idle == [st |-> "idle", link |-> NoLink, id |-> -1]
Nothing == [link |-> NoLink, of |-> NoLink, id |-> -1, default |-> -1, boot |-> -1]

Init ==
    /\ torrents = <<>>
    /\ nextId = 0
    /\ boot = 0
    /\ queue = <<>>
    /\ holder = NoTab
    /\ req = [t \in Tabs |-> Idle]
    /\ shown = [t \in Tabs |-> Nothing]
    /\ history = {}
    /\ resolves = 0

-----------------------------------------------------------------------------
(* The page.  The text in its box is whatever the user has typed by then.  *)

(* handleResolve; the button is disabled while a request is loading.       *)
HandleResolve(t, l) ==
    /\ req[t] = Idle /\ resolves < MaxResolves
    /\ resolves' = resolves + 1
    /\ req' = [req EXCEPT ![t] = [Idle EXCEPT !.st = "queued", !.link = l]]
    /\ shown' = [shown EXCEPT ![t] = Nothing]
    /\ queue' = Append(queue, t)
    /\ UNCHANGED <<torrents, nextId, boot, holder, history>>

(* insert_play_history: the url of the file and the link it is said to be  *)
(* of, as they come; nothing is looked up and no row is replaced.          *)
InsertPlayHistory(link, stream) ==
    history' = history \cup {[link |-> link, of |-> stream.of, id |-> stream.id, boot |-> stream.boot]}

(* A click on a file saves a row with the text of the box, whatever link   *)
(* the files came from.                                                    *)
Play(t, l) ==
    /\ shown[t] # Nothing /\ Cardinality(history) < MaxPlays
    /\ InsertPlayHistory(l, shown[t])
    /\ UNCHANGED <<torrents, nextId, boot, queue, holder, req, shown, resolves>>

-----------------------------------------------------------------------------
(* handle_resolve *)
LockChain(t) ==
    /\ queue # <<>> /\ Head(queue) = t /\ holder = NoTab
    /\ queue' = Tail(queue)
    /\ holder' = t
    /\ req' = [req EXCEPT ![t].st = "resolving"]
    /\ UNCHANGED <<torrents, nextId, boot, shown, history, resolves>>

Resolving(t) == holder = t /\ req[t].st = "resolving"
ReadsTree(t) == holder = t /\ req[t].st = "tree"

(* can_handle of the three resolvers.  A magnet or a page with .m3u8 in    *)
(* it is an HLS link to the second as well.                                *)
MagnetHandles(l) == LinkHas[l] \cap {"magnet:", "hash"} # {}
M3u8Handles(l) == ".m3u8" \in LinkHas[l]
WebPageHandles(l) == "http" \in LinkHas[l] /\ ".m3u8" \notin LinkHas[l]

(* The first resolver registered that can handle the link: magnets, then   *)
(* HLS, then pages.                                                        *)
Chain(l) ==
    CASE MagnetHandles(l) -> "magnet"
      [] ~MagnetHandles(l) /\ M3u8Handles(l) -> "hls"
      [] ~MagnetHandles(l) /\ WebPageHandles(l) -> "page"
      [] OTHER -> "none"

Resolver(t) == Chain(req[t].link)

Answer(t, what) ==
    /\ holder' = NoTab
    /\ req' = [req EXCEPT ![t] = Idle]
    /\ shown' = [shown EXCEPT ![t] = what]

(* parse_magnet: add_torrent finds the torrent by its hash or adds it; the *)
(* id that was drawn is used up either way.  A bare hash was completed to  *)
(* a magnet, so that both find the same torrent.                           *)
ParseMagnet(t) ==
    LET m == TorrentOf[req[t].link]
        same == {id \in DOMAIN torrents : torrents[id] = m}
    IN
    /\ Resolving(t) /\ Resolver(t) = "magnet"
    /\ nextId' = nextId + 1
    /\ IF same # {}
       THEN /\ req' = [req EXCEPT ![t].st = "tree", ![t].id = CHOOSE id \in same : TRUE]
            /\ UNCHANGED torrents
       ELSE /\ req' = [req EXCEPT ![t].st = "tree", ![t].id = nextId]
            /\ torrents' = [id \in DOMAIN torrents \cup {nextId} |->
                               IF id = nextId THEN m ELSE torrents[id]]
    /\ UNCHANGED <<boot, queue, holder, shown, history, resolves>>

(* Mutant: an error is answered and the mutex stays locked.                *)
FailLocked(t) ==
    /\ Resolving(t) \/ ReadsTree(t)
    /\ Resolver(t) # "hls"
    /\ req' = [req EXCEPT ![t] = Idle]
    /\ UNCHANGED <<torrents, nextId, boot, queue, holder, shown, history, resolves>>

(* No resolver, an error, the 60 seconds of add_torrent, the 30 of a page  *)
(* or the 10 of the file tree: the chain does not try another resolver.    *)
ResolveFails(t) ==
    /\ Resolving(t) \/ ReadsTree(t)
    /\ Resolver(t) # "hls"
    /\ Answer(t, Nothing)
    /\ UNCHANGED <<torrents, nextId, boot, queue, history, resolves>>

(* An m3u8 link is its own stream, a page's is taken from its source: one  *)
(* entry that is no torrent's.                                             *)
ResolveDirect(t) ==
    /\ Resolving(t) /\ Resolver(t) \in {"hls", "page"}
    /\ Answer(t, [link |-> req[t].link, of |-> req[t].link, id |-> -1, default |-> 0, boot |-> boot])
    /\ UNCHANGED <<torrents, nextId, boot, queue, history, resolves>>

(* The largest file that is no suspected ad, the last of equals; else 0.   *)
DefaultFile(files) ==
    LET good == {i \in DOMAIN files : ~files[i].ad}
        best == {i \in good : \A j \in good : files[j].size <= files[i].size}
    IN  IF good = {} THEN 0 ELSE (CHOOSE i \in best : \A j \in best : j <= i) - 1

(* Mutant: the files of the newest torrent (get_file_tree) are shown.      *)
TreeOfLatest(t) ==
    LET id == CHOOSE i \in DOMAIN torrents : \A j \in DOMAIN torrents : j <= i IN
    /\ ReadsTree(t)
    /\ Answer(t, [link |-> req[t].link, of |-> torrents[id], id |-> req[t].id,
                  default |-> DefaultFile(FilesOf[torrents[id]]), boot |-> boot])
    /\ UNCHANGED <<torrents, nextId, boot, queue, history, resolves>>

(* get_file_tree_by_id, with the mutex still held.                         *)
FileTreeById(t) ==
    LET m == torrents[req[t].id] IN
    /\ ReadsTree(t)
    /\ Answer(t, [link |-> req[t].link, of |-> m, id |-> req[t].id,
                  default |-> DefaultFile(FilesOf[m]), boot |-> boot])
    /\ UNCHANGED <<torrents, nextId, boot, queue, history, resolves>>

(* TorrentEngine::new: no persistence, so ids start at 0 again.  Requests  *)
(* under way end in an error; pages and history stay.                      *)
Restart ==
    /\ boot < MaxRestarts
    /\ boot' = boot + 1
    /\ torrents' = <<>>
    /\ nextId' = 0
    /\ queue' = <<>>
    /\ holder' = NoTab
    /\ req' = [t \in Tabs |-> Idle]
    /\ UNCHANGED <<shown, history, resolves>>

-----------------------------------------------------------------------------
(* get_local_file_path_by_id_and_index: the file a url of the local stream *)
(* leads to, if the session has the torrent and the torrent the file.      *)
LocalFile(id, idx) ==
    {[of |-> torrents[i], idx |-> idx] : i \in {i \in DOMAIN torrents :
        i = id /\ idx + 1 \in DOMAIN FilesOf[torrents[i]]}}

(* The range bytes=s-e of a file of len bytes, with None for a part that   *)
(* is missing or no number.                                                *)
None == -1
Refused == [status |-> 416, from |-> 0, to |-> 0]
Partial(from, to) == [status |-> 206, from |-> from, to |-> to]

(* Mutant: a suffix is not cut to the file.                                *)
RangeUncut(len, s, e) ==
    CASE s # None /\ e # None /\ s <= e /\ e < len -> Partial(s, e)
      [] s # None /\ e = None /\ s < len -> Partial(s, len - 1)
      [] s = None /\ e # None /\ e > 0 -> Partial(len - e, len - 1)
      [] OTHER -> Refused

LocalRange(len, s, e) ==
    CASE s # None /\ e # None /\ s <= e /\ e < len -> Partial(s, e)
      [] s # None /\ e = None /\ s < len -> Partial(s, len - 1)
      [] s = None /\ e # None /\ e > 0 ->
            Partial(len - (IF e < len THEN e ELSE len), len - 1)
      [] OTHER -> Refused

(* handle_local_stream of a file that was found; hasRange says whether the *)
(* request has a header bytes=...                                          *)
LocalStream(len, hasRange, s, e) ==
    CASE len = 0 -> [status |-> 500, from |-> 0, to |-> 0]
      [] len > 0 /\ hasRange -> LocalRange(len, s, e)
      [] OTHER -> [status |-> 200, from |-> 0, to |-> len - 1]

-----------------------------------------------------------------------------

Serve(t) ==
    \/ LockChain(t) \/ ParseMagnet(t) \/ ResolveFails(t) \/ ResolveDirect(t) \/ FileTreeById(t)

Next ==
    \/ \E t \in Tabs :
          \/ Serve(t)
          \/ \E l \in Links : HandleResolve(t, l) \/ Play(t, l)
    \/ Restart

Spec == Init /\ [][Next]_vars

(* tokio runs what is ready, its mutex is fair, and every step that waits  *)
(* for somebody else has a timeout.                                        *)
FairSpec == Spec /\ \A t \in Tabs : WF_vars(Serve(t))

-----------------------------------------------------------------------------

Requests ==
    [st: {"idle", "queued", "resolving", "tree"}, link: Links \cup {NoLink}, id: Int]

Answers ==
    [link: Links \cup {NoLink}, of: Links \cup {NoLink} \cup DOMAIN FilesOf,
     id: Int, default: Int, boot: Int]

TypeOK ==
    /\ nextId \in Nat /\ boot \in Nat
    /\ torrents \in [DOMAIN torrents -> DOMAIN FilesOf]
    /\ DOMAIN torrents \subseteq 0 .. nextId - 1
    /\ queue \in Seq(Tabs)
    /\ holder \in Tabs \cup {NoTab}
    /\ req \in [Tabs -> Requests]
    /\ shown \in [Tabs -> Answers]

(* What a page shows is what it asked for, whichever links other pages     *)
(* resolve meanwhile and however often: the files are of the link, the     *)
(* default is one that can be played, its url leads the local stream to    *)
(* that file unless the process was restarted, as does the url of a row in *)
(* the history, and a torrent has one id though it was asked for by magnet *)
(* and by hash.                                                            *)
ShownIsAsked ==
    /\ \A t \in Tabs : LET s == shown[t] IN s # Nothing =>
          IF ~MagnetHandles(s.link) THEN s.of = s.link
          ELSE LET files == FilesOf[TorrentOf[s.link]] IN
               /\ s.of = TorrentOf[s.link]
               /\ \A i \in DOMAIN files : ~files[i].ad => ~files[s.default + 1].ad
               /\ s.boot = boot =>
                     LocalFile(s.id, s.default) = {[of |-> TorrentOf[s.link], idx |-> s.default]}
    /\ \A h \in history : h.id # -1 /\ h.boot = boot => torrents[h.id] = h.of
    /\ \A a, b \in DOMAIN torrents : torrents[a] = torrents[b] => a = b

(* What makes it inductive: every page in the queue is queued once, with a *)
(* link; a request that reads the tree has the id of its torrent; answers  *)
(* and rows of this run of the process have ids that are in the session.   *)
QueueSound ==
    /\ \A i \in 1 .. Len(queue) : req[queue[i]].st = "queued"
    /\ \A i, j \in 1 .. Len(queue) : queue[i] = queue[j] => i = j
    /\ \A t \in Tabs : req[t].st # "idle" => req[t].link \in Links

InSession(id, of) == id \in DOMAIN torrents /\ torrents[id] = of

ReadsOwnTree ==
    \A t \in Tabs : req[t].st = "tree" =>
        MagnetHandles(req[t].link) /\ InSession(req[t].id, TorrentOf[req[t].link])

AnswerSound(s) ==
    /\ s.link \in Links /\ s.boot \in Nat /\ s.boot <= boot
    /\ ~MagnetHandles(s.link) => s.of = s.link /\ s.id = -1
    /\ MagnetHandles(s.link) =>
          LET files == FilesOf[TorrentOf[s.link]] IN
          /\ s.of = TorrentOf[s.link]
          /\ s.default + 1 \in DOMAIN files
          /\ \A i \in DOMAIN files : ~files[i].ad => ~files[s.default + 1].ad
          /\ s.boot = boot => InSession(s.id, s.of)

AnswersSound == \A t \in Tabs : shown[t] # Nothing => AnswerSound(shown[t])

HistorySound ==
    \A h \in history : h.boot \in Nat /\ h.boot <= boot /\ (h.id # -1 /\ h.boot = boot => InSession(h.id, h.of))

OneId == \A a, b \in DOMAIN torrents : torrents[a] = torrents[b] => a = b

IndInv == TypeOK /\ QueueSound /\ ReadsOwnTree /\ AnswersSound /\ HistorySound /\ OneId

(* Every request is answered, though one magnet after another may hold the *)
(* mutex for a minute (lib.rs line 179).                                   *)
RequestsServed == \A t \in Tabs : (req[t] # Idle) ~> (req[t] = Idle)

(* The bytes of the file that a request asks for.                          *)
Wanted(len, hasRange, s, e) ==
    CASE ~hasRange -> 0 .. len - 1
      [] hasRange /\ s # None /\ e # None -> s .. e
      [] hasRange /\ s # None /\ e = None -> s .. len - 1
      [] hasRange /\ s = None /\ e # None -> len - e .. len - 1
      [] OTHER -> {}

AnsweredInFull(len, hasRange, s, e) ==
    LET r == LocalStream(len, hasRange, s, e)
        there == Wanted(len, hasRange, s, e) \cap 0 .. len - 1
    IN  IF r.status \in {200, 206}
        THEN there # {} /\ r.from .. r.to = there
        ELSE len = 0 \/ e >= len \/ there = {}

(* Of a file of a torrent, however much of it is there yet, the local      *)
(* stream sends bytes that were asked for and, of those, all it has; it    *)
(* refuses a range that ends past the file, which it could cut, one with   *)
(* nothing in the file, and an empty file.                                 *)
RangeSound ==
    \A len \in UNION {0 .. f.size : f \in UNION {ToSet(FilesOf[m]) : m \in Range(torrents)}} :
    \A hasRange \in BOOLEAN : \A s, e \in None .. len + 1 : AnsweredInFull(len, hasRange, s, e)
=============================================================================
