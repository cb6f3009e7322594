--------------------------- MODULE LspDiagnostics ---------------------------
(***************************************************************************)
(* The document and diagnostics core of dudu-lsp                           *)
(* (src/dudu/lsp/language_server.cpp, language_server_documents.cpp).      *)
(*                                                                         *)
(* Two threads share the server object.  The main thread reads one client  *)
(* message at a time and runs its handler; the diagnostics worker takes a  *)
(* job from pending_diagnostics_, computes without any lock, and publishes *)
(* under diagnostics_mutex_ if the job's revision is still the document's. *)
(* documents_ belongs to the main thread alone.  Each action below is the  *)
(* code between two points where the other thread, the client or the disk  *)
(* can intervene.                                                          *)
(***************************************************************************)
EXTENDS Integers, FiniteSets

CONSTANTS
    Uris,         \* documents; numbers, because std::map orders its keys
    Texts,        \* document contents the properties tell apart
    NoText,       \* a closed document, a file that does not exist
    TextsOf,      \* TextsOf[u]: the contents an editor may give document u
    FilesOf,      \* FilesOf[u]: the contents file u may have, NoText if none
    Imports,      \* Imports[t]: the documents a text t imports
    InitDisk,     \* the files at startup
    MaxVersion,   \* largest version number the client sends
    MaxMessages   \* number of client messages and file writes

ASSUME UrisAssumption == Uris \subseteq Nat /\ IsFiniteSet(Uris)
ASSUME TextsAssumption ==
    /\ NoText \notin Texts
    /\ TextsOf \in [Uris -> SUBSET Texts]
    /\ FilesOf \in [Uris -> SUBSET (Texts \cup {NoText})]
    /\ Imports \in [Texts -> SUBSET Uris]
    /\ InitDisk \in [Uris -> Texts \cup {NoText}]
    /\ \A u \in Uris : InitDisk[u] \in FilesOf[u]
ASSUME BoundsAssumption == MaxVersion \in Nat /\ MaxMessages \in Nat

VARIABLES
    docText,    \* documents_: text by uri, NoText when the map has no entry
    docVersion, \* documents_: version by uri
    revision,   \* document_revisions_ (0: no entry yet)
    ready,      \* native_ready_revisions_ (0: no entry)
    pending,    \* pending_diagnostics_
    stopping,   \* diagnostics_stopping_
    main,       \* what the main thread does next, and for which document
    affected,   \* the handler's set of documents to queue
    todo,       \* the part of it the current loop has not reached
    worker,     \* where the diagnostics worker is
    job,        \* the job it holds
    disk,       \* file contents
    unnoticed,  \* a file changed and didChangeWatchedFiles is still to come
    shown,      \* the last publishDiagnostics the client got, by uri
    budget      \* messages and file writes left

docVars    == <<docText, docVersion>>
mainVars   == <<main, affected, todo>>
workerVars == <<worker, job>>
envVars    == <<disk, unnoticed, budget>>
vars == <<docVars, revision, ready, pending, stopping, mainVars, workerVars,
          envVars, shown>>

-----------------------------------------------------------------------------
(* Values *)

MaybeText == Texts \cup {NoText}
Versions  == 0 .. MaxVersion
Overlay   == [Uris -> MaybeText]

\* A DiagnosticsJob: the document, the snapshot of every open document, the
\* revision it was queued for, and (once computed) the sources it was
\* computed from.
Job == [uri : Uris, version : Versions, overlay : Overlay, revision : Nat]

\* A publishDiagnostics notification.  "cleared" is the one that didClose
\* sends: no diagnostics, no version.  A "full" one is identified with the
\* sources it was computed from.
Publication == [kind : {"none", "cleared", "syntax", "full"},
                version : Versions, sources : Overlay]

NoSources == [u \in Uris |-> NoText]
NoJob == [uri |-> 0, version |-> 0, overlay |-> NoSources, revision |-> 0]

IsOpen(u) == docText[u] # NoText
OpenUris  == {u \in Uris : IsOpen(u)}

\* An overlay hides the file below it.
Merge(overlay, files) ==
    [u \in Uris |-> IF overlay[u] # NoText THEN overlay[u] ELSE files[u]]

\* The imports of u that exist: load_one reports the others and goes on.
Edges(src, u) ==
    IF src[u] = NoText THEN {} ELSE {v \in Imports[src[u]] : src[v] # NoText}

\* The modules a load from the documents in from visits.
Closure(src, from) ==
    {v \in Uris : \A S \in SUBSET Uris :
        (from \subseteq S /\ \A w \in S : Edges(src, w) \subseteq S) => v \in S}

\* load_one throws on an import cycle, recovering or not.
HasCycle(src, u) ==
    \E v \in Closure(src, {u}) : v \in Closure(src, Edges(src, v))

\* What the diagnostics of u depend on: the text of every module it loads,
\* and of its imports the ones that are missing.
SourcesOf(src, u) ==
    [v \in Uris |-> IF v \in Closure(src, {u}) THEN src[v] ELSE NoText]

CurrentSources == Merge(docText, disk)

\* A variant: every document on its own.
AffectedNothing(changed) == {}

\* affected_open_documents: the open documents whose index loads, has the
\* changed file, and reaches their own module from it over reverse imports.
AffectedOpenDocuments(changed) ==
    LET src == CurrentSources
    IN  {u \in OpenUris : /\ src[changed] # NoText
                          /\ ~HasCycle(src, u)
                          /\ changed \in Closure(src, {u})}

\* diagnostics_for_document_snapshot: what a job reports, as the sources its
\* project index is loaded from.
DiagnosticsForSnapshot(j) == SourcesOf(Merge(j.overlay, disk), j.uri)

\* std::map and std::set iterate in key order.
Firsts(S) == {u \in S : \A v \in S : u <= v}

\* What the main thread does next, in which handler, for which document.
Main == [at : {"idle", "closing", "syntax", "find", "invalidate", "clear",
               "queue", "join", "returned"},
         op : {"none", "open", "change", "save", "close", "all"},
         uri : Uris \cup {0}]

-----------------------------------------------------------------------------
(* Initial state *)

Idle == [at |-> "idle", op |-> "none", uri |-> 0]

Init ==
    /\ docText    = [u \in Uris |-> NoText]
    /\ docVersion = [u \in Uris |-> 0]
    /\ revision   = [u \in Uris |-> 0]
    /\ ready      = [u \in Uris |-> 0]
    /\ pending    = {}
    /\ stopping   = FALSE
    /\ main       = Idle
    /\ affected   = {}
    /\ todo       = {}
    /\ worker     = "check"
    /\ job        = NoJob
    /\ disk       = InitDisk
    /\ unnoticed  = FALSE
    /\ shown      = [u \in Uris |-> [kind |-> "none", version |-> 0,
                                     sources |-> NoSources]]
    /\ budget     = MaxMessages

-----------------------------------------------------------------------------
(* Pieces of the handlers *)

\* The main thread starts on the next message; the client has sent it.
Receive(op, u) ==
    /\ main.at = "idle"
    /\ budget > 0
    /\ budget' = budget - 1
    /\ main' = [at |-> "syntax", op |-> op, uri |-> u]

Goto(label) == main' = [main EXCEPT !.at = label]

\* invalidate_workspace_cache(uri).
Invalidate(u) == revision' = [revision EXCEPT ![u] = @ + 1]

\* The loop of queue_full_diagnostics(uris) begins, or has nothing to do.
QueueAll(uris) ==
    /\ todo' = uris
    /\ main' = IF uris = {} THEN Idle ELSE [main EXCEPT !.at = "queue"]

\* The loop of invalidate_workspace_cache(uris) is over.  did_close tells the
\* client before it queues the dependents, which are open.
AfterInvalidation(uris) ==
    IF main.op = "close"
    THEN Goto("clear") /\ todo' = {}
    ELSE QueueAll(uris)

\* A variant: the worker is not woken.
NotifyNobody == worker' = worker

\* diagnostics_cv_.notify_one().
NotifyWorker == worker' = IF worker = "waiting" THEN "check" ELSE worker

\* Variants: a queue without replacement, and one that keeps the older job.
PushBack(new) == pending' = pending \cup {new}
Emplace(new) ==
    pending' = IF \E j \in pending : j.uri = new.uri THEN pending
                                                    ELSE pending \cup {new}

\* pending_diagnostics_.insert_or_assign.
InsertOrAssign(new) ==
    pending' = {j \in pending : j.uri # new.uri} \cup {new}

\* A variant: whatever was computed is published.
AlwaysCurrent == TRUE

\* The job the worker holds is for the document as it is.
JobIsCurrent == job.revision = revision[job.uri]

-----------------------------------------------------------------------------
(* The main thread: one action per handler, then one per stretch of it that *)
(* the worker can see.  The client opens what is closed and changes, saves  *)
(* and closes what is open.                                                 *)

DidOpen(u, t, v) ==
    /\ ~IsOpen(u)
    /\ Receive("open", u)
    /\ docText' = [docText EXCEPT ![u] = t]
    /\ docVersion' = [docVersion EXCEPT ![u] = v]
    /\ Invalidate(u)
    /\ UNCHANGED <<ready, pending, stopping, affected, todo, workerVars, disk,
                   unnoticed, shown>>

\* A version that is not newer is ignored.
DidChange(u, t, v) ==
    /\ IsOpen(u)
    /\ v > docVersion[u]
    /\ Receive("change", u)
    /\ docText' = [docText EXCEPT ![u] = t]
    /\ docVersion' = [docVersion EXCEPT ![u] = v]
    /\ Invalidate(u)
    /\ UNCHANGED <<ready, pending, stopping, affected, todo, workerVars, disk,
                   unnoticed, shown>>

\* did_save queues the document and not its dependents.
DidSave(u) ==
    /\ IsOpen(u)
    /\ Receive("save", u)
    /\ Invalidate(u)
    /\ affected' = {u}
    /\ UNCHANGED <<docVars, ready, pending, stopping, todo, workerVars, disk,
                   unnoticed, shown>>

\* The first critical section of did_close.
DidClose(u) ==
    /\ IsOpen(u)
    /\ main.at = "idle"
    /\ budget > 0
    /\ budget' = budget - 1
    /\ main' = [at |-> "closing", op |-> "close", uri |-> u]
    /\ pending' = {j \in pending : j.uri # u}
    /\ ready' = [ready EXCEPT ![u] = 0]
    /\ UNCHANGED <<docVars, revision, stopping, affected, todo, workerVars,
                   disk, unnoticed, shown>>

\* Variants: the revision is forgotten with the document; it is left alone.
EraseForgetsRevision ==
    /\ main.at = "closing"
    /\ docText' = [docText EXCEPT ![main.uri] = NoText]
    /\ docVersion' = [docVersion EXCEPT ![main.uri] = 0]
    /\ revision' = [revision EXCEPT ![main.uri] = 0]
    /\ Goto("find")
    /\ UNCHANGED <<ready, pending, stopping, affected, todo, workerVars,
                   envVars, shown>>

EraseKeepsRevision ==
    /\ main.at = "closing"
    /\ docText' = [docText EXCEPT ![main.uri] = NoText]
    /\ docVersion' = [docVersion EXCEPT ![main.uri] = 0]
    /\ Goto("find")
    /\ UNCHANGED <<revision, ready, pending, stopping, affected, todo,
                   workerVars, envVars, shown>>

\* documents_.erase(uri) and the invalidation that follows it.
EraseDocument ==
    /\ main.at = "closing"
    /\ docText' = [docText EXCEPT ![main.uri] = NoText]
    /\ docVersion' = [docVersion EXCEPT ![main.uri] = 0]
    /\ Invalidate(main.uri)
    /\ Goto("find")
    /\ UNCHANGED <<ready, pending, stopping, affected, todo, workerVars,
                   envVars, shown>>

\* publish_syntax_diagnostics: outside diagnostics_mutex_.
PublishSyntax ==
    /\ main.at = "syntax"
    /\ shown' = [shown EXCEPT ![main.uri] =
                    [kind |-> "syntax", version |-> docVersion[main.uri],
                     sources |-> NoSources]]
    /\ IF main.op = "save" THEN QueueAll(affected)
                           ELSE Goto("find") /\ todo' = {}
    /\ UNCHANGED <<docVars, revision, ready, pending, stopping, affected,
                   workerVars, envVars>>

FindAffected ==
    /\ main.at = "find"
    /\ LET found == AffectedOpenDocuments(main.uri)
       IN  /\ affected' = IF main.op = "close" THEN found
                                               ELSE found \cup {main.uri}
           /\ IF found \ {main.uri} = {}
              THEN AfterInvalidation(affected')
              ELSE Goto("invalidate") /\ todo' = found \ {main.uri}
    /\ UNCHANGED <<docVars, revision, ready, pending, stopping, workerVars,
                   envVars, shown>>

InvalidateAffected ==
    /\ main.at = "invalidate"
    /\ \E u \in Firsts(todo) :
          /\ Invalidate(u)
          /\ IF todo = {u} THEN AfterInvalidation(affected)
                           ELSE todo' = todo \ {u} /\ main' = main
    /\ UNCHANGED <<docVars, affected, ready, pending, stopping, workerVars, envVars,
                   shown>>

\* publish_diagnostics(uri, {}, nullopt) at the end of did_close.
PublishCleared ==
    /\ main.at = "clear"
    /\ shown' = [shown EXCEPT ![main.uri] =
                    [kind |-> "cleared", version |-> 0, sources |-> NoSources]]
    /\ QueueAll(affected)
    /\ UNCHANGED <<docVars, revision, ready, pending, stopping, affected,
                   workerVars, envVars>>

\* queue_full_diagnostics(uri): the revision is read and the job inserted
\* under two locks, but only this thread writes revisions and documents.
QueueNext ==
    /\ main.at = "queue"
    /\ \E u \in Firsts(todo) :
          /\ InsertOrAssign([uri |-> u, version |-> docVersion[u],
                             overlay |-> docText, revision |-> revision[u]])
          /\ QueueAll(todo \ {u})
    /\ NotifyWorker
    /\ UNCHANGED <<docVars, revision, ready, stopping, affected, job, envVars,
                   shown>>

\* invalidate_all_open_documents and the queueing of every open document, for
\* didChangeWatchedFiles and didChangeWorkspaceFolders.
InvalidateAllOpen ==
    /\ main.at = "idle"
    /\ revision' = [u \in Uris |-> IF IsOpen(u) THEN revision[u] + 1
                                                ELSE revision[u]]
    /\ ready' = [u \in Uris |-> 0]
    /\ affected' = OpenUris
    /\ QueueAll(OpenUris)
    /\ UNCHANGED <<docVars, pending, stopping, workerVars, disk, shown>>

DidChangeWatchedFiles ==
    /\ unnoticed
    /\ unnoticed' = FALSE
    /\ InvalidateAllOpen
    /\ UNCHANGED budget

DidChangeWorkspaceFolders ==
    /\ budget > 0
    /\ budget' = budget - 1
    /\ InvalidateAllOpen
    /\ UNCHANGED unnoticed

\* run returns on "exit" or end of input, and the destructor stops the worker.
Exit ==
    /\ main.at = "idle"
    /\ stopping' = TRUE
    /\ Goto("join")
    /\ NotifyWorker
    /\ UNCHANGED <<docVars, revision, ready, pending, affected, todo, job,
                   envVars, shown>>

Join ==
    /\ main.at = "join"
    /\ worker = "exited"
    /\ Goto("returned")
    /\ UNCHANGED <<docVars, revision, ready, pending, stopping, affected, todo,
                   workerVars, envVars, shown>>

-----------------------------------------------------------------------------
(* diagnostics_worker_loop *)

\* The wait's predicate is false: the mutex is released and the thread sleeps.
WorkerWait ==
    /\ worker = "check"
    /\ ~stopping /\ pending = {}
    /\ worker' = "waiting"
    /\ UNCHANGED <<docVars, revision, ready, pending, stopping, mainVars, job,
                   envVars, shown>>

WorkerTake ==
    /\ worker = "check"
    /\ \E j \in pending :
          /\ j.uri \in Firsts({k.uri : k \in pending})
          /\ job' = j
          /\ pending' = pending \ {j}
    /\ worker' = "computing"
    /\ UNCHANGED <<docVars, revision, ready, stopping, mainVars, envVars,
                   shown>>

WorkerReturn ==
    /\ worker = "check"
    /\ stopping /\ pending = {}
    /\ worker' = "exited"
    /\ UNCHANGED <<docVars, revision, ready, pending, stopping, mainVars, job,
                   envVars, shown>>

\* Unlocked.  From here on the job's overlay holds what was loaded.
WorkerCompute ==
    /\ worker = "computing"
    /\ job' = [job EXCEPT !.overlay = DiagnosticsForSnapshot(job)]
    /\ worker' = "computed"
    /\ UNCHANGED <<docVars, revision, ready, pending, stopping, mainVars,
                   envVars, shown>>

\* The check and the publication are one critical section.
WorkerPublish ==
    /\ worker = "computed"
    /\ IF JobIsCurrent
       THEN /\ ready' = [ready EXCEPT ![job.uri] = job.revision]
            /\ shown' = [shown EXCEPT ![job.uri] =
                            [kind |-> "full", version |-> job.version,
                             sources |-> job.overlay]]
       ELSE UNCHANGED <<ready, shown>>
    /\ worker' = "check"
    /\ UNCHANGED <<docVars, revision, pending, stopping, mainVars, job,
                   envVars>>

-----------------------------------------------------------------------------
(* The disk *)

DiskWrite(u, t) ==
    /\ budget > 0
    /\ budget' = budget - 1
    /\ disk' = [disk EXCEPT ![u] = t]
    /\ unnoticed' = TRUE
    /\ UNCHANGED <<docVars, revision, ready, pending, stopping, mainVars,
                   workerVars, shown>>

\* Both threads are gone.
Terminated == main.at = "returned" /\ UNCHANGED vars

-----------------------------------------------------------------------------
Handler ==
    \/ \E u \in Uris : \/ \E t \in TextsOf[u], v \in Versions :
                             DidOpen(u, t, v) \/ DidChange(u, t, v)
                       \/ DidSave(u)
                       \/ DidClose(u)
    \/ DidChangeWorkspaceFolders
    \/ Exit

\* What the main thread does on its own once it has a message.
MainStep == \/ EraseDocument \/ PublishSyntax \/ FindAffected
            \/ InvalidateAffected \/ PublishCleared \/ QueueNext \/ Join

WorkerStep == WorkerWait \/ WorkerTake \/ WorkerReturn \/ WorkerCompute
              \/ WorkerPublish

Environment == \E u \in Uris : \E t \in FilesOf[u] : DiskWrite(u, t)

Next == Handler \/ DidChangeWatchedFiles \/ MainStep \/ WorkerStep
        \/ Environment \/ Terminated

Spec == Init /\ [][Next]_vars

\* A thread that can run does run, and the editor's file watcher reports.
\* Nothing obliges the client to send anything else.
Fairness == WF_vars(MainStep) /\ WF_vars(WorkerStep)
            /\ WF_vars(DidChangeWatchedFiles)

FairSpec == Spec /\ Fairness

-----------------------------------------------------------------------------
(* Projects a report is promised to be current in *)

\* Every module is a file, whether or not it is open.
FilesExist == \A u \in Uris : FilesOf[u] \subseteq Texts

\* No edit or write makes the imports circular.
ImportsAreAcyclic ==
    \A src \in Overlay :
        (\A v \in Uris : src[v] \in TextsOf[v] \cup FilesOf[v]) =>
            \A u \in Uris : ~HasCycle(src, u)

-----------------------------------------------------------------------------
(* Properties *)

\* Every variable has its type, and pending_diagnostics_ holds at most one
\* job for a document.
TypeOK ==
    /\ docText \in [Uris -> MaybeText]
    /\ docVersion \in [Uris -> Versions]
    /\ revision \in [Uris -> Nat]
    /\ ready \in [Uris -> Nat]
    /\ pending \subseteq Job
    /\ \A j, k \in pending : j.uri = k.uri => j = k
    /\ stopping \in BOOLEAN
    /\ main \in Main
    /\ main.at \in {"closing", "syntax", "find", "invalidate", "clear"}
          => main.uri \in Uris
    /\ affected \subseteq Uris /\ todo \subseteq Uris
    /\ worker \in {"check", "waiting", "computing", "computed", "exited"}
    /\ job \in Job \cup {NoJob}
    /\ worker \in {"computing", "computed"} => job \in Job
    /\ disk \in Overlay
    /\ unnoticed \in BOOLEAN
    /\ shown \in [Uris -> Publication]
    /\ budget \in 0 .. MaxMessages

Quiescent ==
    /\ main.at \in {"idle", "returned"}
    /\ pending = {}
    /\ worker \in {"check", "waiting", "exited"}
    /\ ~unnoticed

\* The client shows the full report of u, for the text it has, computed from
\* the sources as they are now.
Fresh(u) ==
    /\ shown[u].kind = "full"
    /\ shown[u].version = docVersion[u]
    /\ shown[u].sources = SourcesOf(CurrentSources, u)

\* When nothing is left to do, every open document shows a full report of the
\* sources as they are: no edit, close, save or file event left a dependent
\* with an older one.
SettledFresh == Quiescent => \A u \in OpenUris : Fresh(u)

\* A document that was open and is closed shows nothing once did_close is
\* through, whatever the worker was computing for it.
ClosedCleared ==
    main.at \in {"idle", "join", "returned"} =>
        \A u \in Uris : ~IsOpen(u) => shown[u].kind \in {"none", "cleared"}

\* full_diagnostics_ready, which lets semantic tokens use the native index:
\* when a request asks, the answer is about the sources as they are.
FullDiagnosticsReady(u) == ready[u] # 0 /\ ready[u] = revision[u]

ReadyIsFresh ==
    main.at = "idle" /\ ~unnoticed =>
        \A u \in OpenUris : FullDiagnosticsReady(u) => Fresh(u)

\* The reports of one document never go back to an older version while it
\* stays open.
NoOlderReport ==
    \A u \in Uris :
        shown[u].kind \in {"syntax", "full"} /\ shown'[u].kind \in {"syntax", "full"}
            => shown'[u].version >= shown[u].version

VersionsNeverGoBack == [][NoOlderReport]_shown

\* A full report is only ever published for a document that is open, at the
\* version the server has, and about the text it has.
CurrentFullReport ==
    \A u \in Uris :
        shown'[u] # shown[u] /\ shown'[u].kind = "full"
            => /\ IsOpen(u)
               /\ shown'[u].version = docVersion[u]
               /\ shown'[u].sources[u] = docText[u]

FullReportsAreCurrent == [][CurrentFullReport]_shown

\* From some point on every open document shows a fresh report, unless a file
\* event is still to be delivered.
EventuallyFresh ==
    <>[](unnoticed \/ \A u \in OpenUris : Fresh(u))

\* The destructor returns: the worker finishes what is queued and exits.
ShutdownCompletes == stopping ~> main.at = "returned"

=============================================================================
