--------------------------- MODULE AnalyzerWorker ---------------------------
(***************************************************************************)
(* The analyzer of the language server (src/tools/analyzer): the thread of *)
(* the server, which handles requests, and the worker thread, which keeps  *)
(* the archives of the modules up to date (analyzer_worker.{h,cpp}), over  *)
(* the SourceManager (source.cpp) and the ModuleArchives (archive.cpp).    *)
(*                                                                         *)
(* A section under the mutex is one step.  A run of the worker is one step *)
(* per analyzed module.  A source manager is the sequence of its entries;  *)
(* the id of a source is its index.  An archive is the text it was built   *)
(* from and the digests of what it imports, a digest being what a module   *)
(* exports with the digests of its imports.  Imports are not circular.     *)
(* Containers without an order are gone through in every order: an operator *)
(* that depends on it, or on the disk, gives the set of its outcomes.       *)
(***************************************************************************)
EXTENDS Naturals, Sequences, FiniteSets, FiniteSetsExt

CONSTANTS
  Path,          \* full paths of scripts
  Text,          \* contents of scripts
  Imports,       \* Imports[p][x]: what p imports when it contains x
  Exports,       \* Exports[x]: what is visible of a script that contains x
  Disk,          \* Disk[p]: what opening and reading the file may give
  NotOpened,     \* ... it cannot be opened, or is not a regular file
  NotRead,       \* ... it cannot be read, or is too large
  Empty,         \* the empty content
  ModLimit,      \* SYS_LIMIT_MOD_ID
  MaxCallbacks,  \* MAX_PENDING_CALLBACKS
  MaxRequests,   \* bound: documents are opened, changed and closed this often
  NoPath

VARIABLES
  srcMan,    \* state.srcMan
  archives,  \* state.archives
  modified,  \* state.modifiedSrcIds
  status,
  closing,   \* closingSrcIds
  callbacks, \* number of finishedCallbacks
  task,      \* the state of the task
  shared,    \* state and task have the same source manager
  pc,        \* where the worker is
  kick,      \* number of tmpCallbacks
  server,    \* where the thread of the server is
  stop,
  opened,    \* documents the client has opened and not closed
  requests   \* number of documents opened, changed and closed

vars == <<srcMan, archives, modified, status, closing, callbacks, task, shared, pc, kick,
          server, stop, opened, requests>>

-----------------------------------------------------------------------------
(* SourceManager *)

Unused == [path |-> NoPath, text |-> Empty]

\* find: 0 if there is no source of the path.
Find(m, p) == LET ids == {i \in DOMAIN m : m[i].path = p} IN IF ids = {} THEN 0 ELSE Min(ids)

Ids(m) == {i \in DOMAIN m : m[i].path # NoPath}

\* The ids update can give to a path: its own, one that is not used, or a new
\* one; none at the limit.
IdsFor(m, p) ==
  IF Find(m, p) # 0 THEN {Find(m, p)}
  ELSE IF Ids(m) # DOMAIN m THEN DOMAIN m \ Ids(m)
  ELSE {Len(m) + 1} \ {ModLimit}

Update(m, p, x) ==
  {[i \in DOMAIN m \cup {id} |-> IF i = id THEN [path |-> p, text |-> x] ELSE m[i]] :
     id \in IdsFor(m, p)}

RemoveSource(m, id) == IF id = Len(m) THEN SubSeq(m, 1, id - 1) ELSE [m EXCEPT ![id] = Unused]

-----------------------------------------------------------------------------
(* ModuleArchives: a function on the ids that have an entry; null is a reverted one *)

\* `refused' is no part of the archive: the imports that the limit refused.
Null == [null |-> TRUE, text |-> Empty, imported |-> << >>, refused |-> {}]

Live(a, i) == i \in DOMAIN a /\ ~a[i].null

\* A digest: what is exported and the digests of the imports, by id.
Digest(ar) == [exports |-> Exports[ar.text], imported |-> ar.imported]

Put(a, i, ar) == [j \in DOMAIN a \cup {i} |-> IF j = i THEN ar ELSE a[j]]

\* isRevertedArchive: the archive imports, directly or not, a reverted module,
\* or one that has no archive.
RECURSIVE Reverted(_, _, _)
Reverted(a, ids, i) ==
  i \in ids \/ \E d \in DOMAIN a[i].imported : ~Live(a, d) \/ Reverted(a, ids, d)

\* Variant: only the modules that import them directly are reverted.
RevertDirect(a, ids) ==
  [i \in DOMAIN a |-> IF i \in ids \/ DOMAIN a[i].imported \cap ids # {} THEN Null ELSE a[i]]

Revert(a, ids) == [i \in DOMAIN a |-> IF Live(a, i) /\ Reverted(a, ids, i) THEN Null ELSE a[i]]

RECURSIVE Imported(_, _, _)
Imported(a, i, id) == \E d \in DOMAIN a[i].imported : d = id \/ Imported(a, d, id)

\* State::remove, with removeIfUnused.
Remove(s, id) ==
  IF /\ Live(s.archives, id)
     /\ \A i \in DOMAIN s.archives : Live(s.archives, i) => ~Imported(s.archives, i, id)
  THEN [s EXCEPT !.archives = [i \in DOMAIN s.archives \ {id} |-> s.archives[i]],
                 !.srcs = RemoveSource(@, id)]
  ELSE s

-----------------------------------------------------------------------------
(* Analyzer *)

\* What has been imported so far, in state s.
Loaded(s, ids) == [state |-> s, ids |-> ids, refused |-> {}]

RECURSIVE Analyze(_, _), Load(_, _), ImportAll(_, _)

\* analyze: an import that fails is an error of the module and is left out.
Analyze(s, id) ==
  LET x == s.srcs[id].text
      Archive(r) == [null |-> FALSE, text |-> x, refused |-> r.refused,
                     imported |-> [d \in r.ids |-> Digest(r.state.archives[d])]]
  IN  {[r.state EXCEPT !.archives = Put(@, id, Archive(r))] :
         r \in ImportAll(Loaded(s, {}), Imports[s.srcs[id].path][x])}

\* load: the file is opened first.  A module that is known is taken from its
\* archive or analyzed again; one that is not gets a source with an empty
\* content, which stays when the file cannot be read.
Load(s, p) ==
  LET id == Find(s.srcs, p)
      Known == {Loaded(t, {id}) : t \in IF Live(s.archives, id) THEN {s} ELSE Analyze(s, id)}
      New(x) == UNION {{Loaded(t, {Find(m, p)}) :
                          t \in Analyze([s EXCEPT !.srcs = m], Find(m, p))} :
                         m \in Update(s.srcs, p, x)}
      Dummy == {Loaded([s EXCEPT !.srcs = m], {}) : m \in Update(s.srcs, p, Empty)}
      Open(y) == IF id # 0 THEN Known
                 ELSE IF IdsFor(s.srcs, p) = {} THEN {[Loaded(s, {}) EXCEPT !.refused = {p}]}
                 ELSE IF y = NotRead THEN Dummy ELSE New(y)
  IN  UNION {IF y = NotOpened THEN {Loaded(s, {})} ELSE Open(y) : y \in Disk[p]}

ImportAll(r, deps) ==
  IF deps = {} THEN {r}
  ELSE UNION {UNION {ImportAll([state   |-> l.state,
                                ids     |-> r.ids \cup l.ids,
                                refused |-> r.refused \cup l.refused], deps \ {p}) :
                       l \in Load(r.state, p)} :
                p \in deps}

-----------------------------------------------------------------------------
(* The thread of the server *)

NoTask == [srcs |-> << >>, archives |-> << >>, modified |-> {}]

Init ==
  /\ srcMan = << >> /\ archives = << >> /\ modified = {} /\ status = "FINISHED"
  /\ closing = {} /\ callbacks = 0
  /\ task = NoTask /\ shared = FALSE /\ pc = "wait" /\ kick = 0
  /\ server = "idle" /\ stop = FALSE /\ opened = {} /\ requests = 0

Ready == server = "idle" /\ ~stop

\* The client sends a notification about a document.
Notified == Ready /\ requests < MaxRequests /\ requests' = requests + 1

\* Variant: a pending close is not cleared.
RequestUpdateClosing(p, x) ==
  \E m \in Update(srcMan, p, x) :
    LET id  == Find(m, p)
        new == Find(srcMan, p) = 0 \/ srcMan[id].text # x
    IN  /\ srcMan' = m
        /\ task' = IF shared THEN [task EXCEPT !.srcs = m] ELSE task
        /\ modified' = IF new THEN modified \cup {id} ELSE modified
        /\ status' = IF new /\ status = "FINISHED" THEN "PENDING" ELSE status
        /\ UNCHANGED <<archives, closing, callbacks, shared, pc, kick, server, stop>>

\* requestSourceUpdateUnsafe.
RequestUpdate(p, x) ==
  \E m \in Update(srcMan, p, x) :
    LET id  == Find(m, p)
        new == Find(srcMan, p) = 0 \/ srcMan[id].text # x
    IN  /\ srcMan' = m
        /\ task' = IF shared THEN [task EXCEPT !.srcs = m] ELSE task
        /\ closing' = closing \ {id}
        /\ modified' = IF new THEN modified \cup {id} ELSE modified
        /\ status' = IF new /\ status = "FINISHED" THEN "PENDING" ELSE status
        /\ UNCHANGED <<archives, callbacks, shared, pc, kick, server, stop>>

RequestSourceOpen(p, x) ==
  /\ Notified /\ p \notin opened
  /\ opened' = opened \cup {p}
  /\ RequestUpdate(p, x)

\* ... at the limit nothing is changed, the document is not opened.
RequestOpenRefused(p) ==
  /\ Notified /\ p \notin opened
  /\ IdsFor(srcMan, p) = {}
  /\ UNCHANGED <<srcMan, archives, modified, status, closing, callbacks, task, shared, pc, kick,
                 server, stop, opened>>

\* requestSourceChange; a document that is not known is ignored.
RequestSourceChange(p, x) ==
  /\ Notified /\ p \in opened
  /\ Find(srcMan, p) # 0
  /\ UNCHANGED opened
  /\ RequestUpdate(p, x)

RequestSourceClose(p) ==
  LET id == Find(srcMan, p)
      s  == Remove([srcs |-> srcMan, archives |-> archives], id)
  IN  /\ Notified /\ p \in opened
      /\ opened' = opened \ {p}
      /\ IF id # 0 /\ status = "FINISHED"
         THEN /\ srcMan' = s.srcs /\ archives' = s.archives
              /\ task' = IF shared THEN [task EXCEPT !.srcs = s.srcs] ELSE task
              /\ UNCHANGED closing
         ELSE /\ closing' = IF id # 0 THEN closing \cup {id} ELSE closing
              /\ UNCHANGED <<srcMan, archives, task>>
      /\ UNCHANGED <<modified, status, callbacks, shared, pc, kick, server, stop>>

\* waitStateWith, after requestForceRebuild: blocked until the status is FINISHED.
WaitStateWith ==
  /\ Ready
  /\ server' = "wait"
  /\ UNCHANGED <<srcMan, archives, modified, status, closing, callbacks, task, shared, pc, kick,
                 stop, opened, requests>>

StateReady ==
  /\ server = "wait" /\ status = "FINISHED"
  /\ server' = "idle"
  /\ UNCHANGED <<srcMan, archives, modified, status, closing, callbacks, task, shared, pc, kick,
                 stop, opened, requests>>

\* asyncStateWith: the status is read under one lock (the callback is called at
\* once when it is FINISHED), and the callback is put under another.
AsyncStateWith ==
  /\ Ready /\ status # "FINISHED"
  /\ server' = "put"
  /\ UNCHANGED <<srcMan, archives, modified, status, closing, callbacks, task, shared, pc, kick,
                 stop, opened, requests>>

\* Variant: the status is not read again under the second lock.
PutCallbackStale ==
  /\ server = "put"
  /\ IF callbacks < MaxCallbacks
     THEN callbacks' = callbacks + 1 /\ server' = "idle"
     ELSE server' = "wait" /\ UNCHANGED callbacks
  /\ UNCHANGED <<srcMan, archives, modified, status, closing, task, shared, pc, kick, stop, opened,
                 requests>>

PutCallback ==
  /\ server = "put"
  /\ IF status # "FINISHED" /\ callbacks < MaxCallbacks
     THEN callbacks' = callbacks + 1 /\ server' = "idle"
     ELSE server' = "wait" /\ UNCHANGED callbacks
  /\ UNCHANGED <<srcMan, archives, modified, status, closing, task, shared, pc, kick, stop,
                 opened, requests>>

\* ~AnalyzerWorker.
Stop ==
  /\ Ready
  /\ stop' = TRUE
  /\ UNCHANGED <<srcMan, archives, modified, status, closing, callbacks, task, shared, pc, kick,
                 server, opened, requests>>

-----------------------------------------------------------------------------
(* The worker *)

\* The worker works on its task, and on the source manager of the state if it is
\* the same.
Work(t, next) ==
  /\ task' = t
  /\ srcMan' = IF shared THEN t.srcs ELSE srcMan
  /\ pc' = next
  /\ UNCHANGED <<archives, modified, status, closing, callbacks, shared, kick, server, stop,
                 opened, requests>>

\* A request is pending, and the time to wait for more of them is over.
Wake ==
  /\ pc = "wait" /\ ~stop
  /\ status = "PENDING" /\ modified # {}
  /\ pc' = "prepare"
  /\ UNCHANGED <<srcMan, archives, modified, status, closing, callbacks, task, shared, kick,
                 server, stop, opened, requests>>

\* The task gets a copy of the state, under another lock.
Prepare ==
  /\ pc = "prepare"
  /\ status' = "RUNNING" /\ modified' = {}
  /\ task' = [srcs |-> srcMan, archives |-> archives, modified |-> modified]
  /\ shared' = FALSE /\ pc' = "start"
  /\ UNCHANGED <<srcMan, archives, closing, callbacks, kick, server, stop, opened, requests>>

\* Variant: a worker that waits for requests does not look at stop.
ExitRunning ==
  /\ pc = "start" /\ stop
  /\ pc' = "exit"
  /\ UNCHANGED <<srcMan, archives, modified, status, closing, callbacks, task, shared, kick,
                 server, stop, opened, requests>>

Exit ==
  /\ pc \in {"wait", "start"} /\ stop
  /\ pc' = "exit"
  /\ UNCHANGED <<srcMan, archives, modified, status, closing, callbacks, task, shared, kick,
                 server, stop, opened, requests>>

\* Task::run, one modified source: the modules that import it are analyzed
\* again only if its digest has changed.
RunFast ==
  /\ pc = "start" /\ ~stop
  /\ Cardinality(task.modified) = 1
  /\ \E id \in task.modified : \E t \in Analyze([task EXCEPT !.modified = {}], id) :
       LET ret == t.archives[id]
       IN  Work(IF ~Live(task.archives, id) \/ Digest(ret) = Digest(task.archives[id]) THEN t
                ELSE [t EXCEPT !.archives = Put(Revert(@, {id}), id, ret)], "remain")

\* Several modified sources.
RunSlow ==
  /\ pc = "start" /\ ~stop
  /\ Cardinality(task.modified) # 1
  /\ Work([task EXCEPT !.archives = Revert(@, task.modified)], "modified")

RunModified ==
  /\ pc = "modified"
  /\ IF task.modified = {} THEN Work(task, "remain")
     ELSE \E id \in task.modified :
            \E t \in IF Live(task.archives, id) THEN {task} ELSE Analyze(task, id) :
              Work([t EXCEPT !.modified = @ \ {id}], "modified")

RunReverted ==
  /\ pc = "remain"
  /\ LET null == {i \in DOMAIN task.archives : ~Live(task.archives, i)}
     IN  IF null # {} THEN \E t \in Analyze(task, Min(null)) : Work(t, "remain")
         ELSE Work([task EXCEPT !.modified = {}], "merge")

\* mergeSources: the sources modified since the task got its copy.
RECURSIVE MergeSources(_, _)
MergeSources(t, ids) ==
  IF ids = {} THEN {t}
  ELSE UNION {LET p == srcMan[id].path
              IN  UNION {MergeSources([t EXCEPT !.srcs = m, !.modified = @ \cup {Find(m, p)}],
                                      ids \ {id}) :
                           m \in Update(t.srcs, p, srcMan[id].text)} :
                id \in ids}

RECURSIVE RemoveAll(_, _)
RemoveAll(s, ids) ==
  IF ids = {} THEN {s} ELSE UNION {RemoveAll(Remove(s, id), ids \ {id}) : id \in ids}

\* The result becomes the state.  If there are modified sources the task is run
\* again, on the same source manager; otherwise the pending documents are closed.
Merge ==
  /\ pc = "merge"
  /\ \E t \in MergeSources(task, modified) : \E s \in RemoveAll(t, closing) :
      /\ modified' = {} /\ shared' = TRUE
      /\ IF t.modified # {}
         THEN /\ task' = t /\ srcMan' = t.srcs /\ archives' = t.archives
              /\ status' = "RUNNING" /\ pc' = "start"
              /\ UNCHANGED <<closing, callbacks, kick>>
         ELSE /\ task' = [t EXCEPT !.srcs = s.srcs] /\ srcMan' = s.srcs /\ archives' = s.archives
              /\ status' = "FINISHED" /\ pc' = "kick"
              /\ kick' = callbacks /\ callbacks' = 0 /\ closing' = {}
      /\ UNCHANGED <<server, stop, opened, requests>>

\* The callbacks are called, without the mutex, unless the server has stopped by
\* then; the task is deleted.
Kick ==
  /\ pc = "kick"
  /\ pc' = IF stop THEN "delete" ELSE "call"
  /\ UNCHANGED <<srcMan, archives, modified, status, closing, callbacks, task, shared, kick,
                 server, stop, opened, requests>>

KickCallback ==
  /\ pc \in {"call", "delete"}
  /\ IF pc = "call" /\ kick > 0 THEN kick' = kick - 1 /\ UNCHANGED <<pc, task, shared>>
     ELSE kick' = 0 /\ pc' = "wait" /\ task' = NoTask /\ shared' = FALSE
  /\ UNCHANGED <<srcMan, archives, modified, status, closing, callbacks, server, stop,
                 opened, requests>>

-----------------------------------------------------------------------------

\* A document closed while the worker is running has the same id in the task.
CloseKnown(p) == status # "RUNNING" \/ Find(srcMan, p) = Find(task.srcs, p)

\* A document opened while the worker is running leaves room in the task for
\* all that it may still import.
OpenFits(p) ==
  LET Paths(m) == {m[i].path : i \in Ids(m)}
      all == {p} \cup Paths(srcMan) \cup Paths(task.srcs)
             \cup UNION {UNION {Imports[q][x] : x \in DOMAIN Imports[q]} : q \in Path}
  IN  status # "RUNNING" \/ shared \/ Find(task.srcs, p) # 0 \/ Cardinality(all) < ModLimit

Worker ==
  \/ Wake \/ Prepare \/ Exit \/ RunFast \/ RunSlow \/ RunModified \/ RunReverted
  \/ Merge \/ Kick \/ KickCallback

Server ==
  \/ \E p \in Path : \/ RequestOpenRefused(p)
                     \/ \E x \in DOMAIN Imports[p] :
                          \/ OpenFits(p) /\ RequestSourceOpen(p, x)
                          \/ RequestSourceChange(p, x)
                     \/ CloseKnown(p) /\ RequestSourceClose(p)
  \/ WaitStateWith \/ AsyncStateWith \/ Stop

Blocked == StateReady \/ PutCallback

Next == Worker \/ Server \/ Blocked

\* No action of the worker but Exit is possible.
Idle ==
  \/ pc = "exit"
  \/ pc \in {"wait", "start"} /\ stop
  \/ pc = "wait" /\ (status # "PENDING" \/ modified = {})

\* The worker thread runs unless it has nothing to do (only the worker changes
\* what is named here), and so does the server thread when it is not blocked;
\* requests need not come.
WorkerRuns ==
  /\ []<>Idle \/ []<><<TRUE>>_<<pc, kick, task.modified, task.archives>>
  /\ WF_vars(Exit)
ServerRuns == WF_vars(Blocked)

Spec == Init /\ [][Next]_vars /\ WorkerRuns /\ ServerRuns

-----------------------------------------------------------------------------
(* Properties *)

\* When the analysis is finished every archive is of the current content of its
\* source and of the current archives of what it imports, although requests came
\* while the worker was running (analyzer_worker.cpp:87-113, 325-389), and
\* neither a change nor a callback is left behind.  A source is without archive
\* only when its file could not be read and its content is empty, and an import
\* is missing only when its file may fail or the limit refused it.
UpToDate ==
  status = "FINISHED" =>
    /\ modified = {} /\ callbacks = 0
    /\ DOMAIN archives \subseteq Ids(srcMan)
    /\ \A i \in Ids(srcMan) \ DOMAIN archives :
         srcMan[i].text = Empty /\ NotRead \in Disk[srcMan[i].path]
    /\ \A i \in DOMAIN archives :
         LET a == archives[i]
             deps == Imports[srcMan[i].path][srcMan[i].text]
         IN  /\ Live(archives, i) /\ a.text = srcMan[i].text
             /\ DOMAIN a.imported \subseteq {Find(srcMan, p) : p \in deps}
             /\ \A p \in deps : Disk[p] \subseteq Text /\ p \notin a.refused
                                 => Find(srcMan, p) \in DOMAIN a.imported
             /\ \A d \in DOMAIN a.imported :
                  Live(archives, d) /\ a.imported[d] = Digest(archives[d])

\* An open document stays known to the server: a close only removes the document
\* that was closed (analyzer_worker.cpp:106-111, 182).
OpenedKnown == \A p \in opened : Find(srcMan, p) # 0

\* A request that waits for the analysis is served (analyzer_worker.h:153), and
\* a callback is called (analyzer_worker.cpp:116-123) unless the server stops.
RequestsServed ==
  /\ server # "idle" ~> server = "idle"
  /\ callbacks > 0 ~> callbacks = 0 \/ stop

\* The worker ends when the server stops (analyzer_worker.cpp:128).
WorkerJoined == stop ~> pc = "exit"

=============================================================================
