------------------------ MODULE LspDiagnosticsProofs ------------------------
(***************************************************************************)
(* Safety of LspDiagnostics for any documents, texts, import graph and     *)
(* bounds: what the revision check under diagnostics_mutex_ guarantees.    *)
(* The argument is one inductive invariant, IInv: a job whose revision is  *)
(* still current is a snapshot of the document as it is now, because every *)
(* handler that changes a document bumps its revision and none ever lowers *)
(* it.  For the freshness of reports FreshInv says more: an open document's *)
(* report is fresh, or a job with the present sources will make it so, or  *)
(* the running handler is still to find or queue the document (Awaited).   *)
(***************************************************************************)
EXTENDS LspDiagnostics, TLAPS

\* The job is no newer than its document, and at the same revision it holds
\* the text and version the server has.
JobMatches(j) ==
    /\ j.revision <= revision[j.uri]
    /\ j.revision = revision[j.uri] =>
          /\ IsOpen(j.uri)
          /\ j.version = docVersion[j.uri]
          /\ j.overlay[j.uri] = docText[j.uri]

JobsMatch ==
    /\ \A j \in pending : JobMatches(j)
    /\ worker \in {"computing", "computed"} => JobMatches(job)

\* What a handler is about to publish or queue is open.
HandlerTargetsOpen ==
    /\ main.at = "syntax" => main.op # "close" /\ IsOpen(main.uri)
    /\ main.at = "syntax" /\ main.op = "save" => affected = {main.uri}
    /\ main.at = "find" /\ main.op # "close" => IsOpen(main.uri)
    /\ main.at \in {"closing", "clear"} => main.op = "close"
    /\ main.at \in {"find", "invalidate", "clear"} /\ main.op = "close" => ~IsOpen(main.uri)
    /\ main.at \in {"invalidate", "clear"} => affected \subseteq OpenUris
    /\ main.at = "queue" => todo \subseteq OpenUris

\* did_close is between documents_.erase and its own publication for u.
BeingCleared(u) ==
    main.op = "close" /\ main.uri = u /\ main.at \in {"find", "invalidate", "clear"}

ClosedShowNothing ==
    \A u \in Uris :
        ~IsOpen(u) /\ ~BeingCleared(u) => shown[u].kind \in {"none", "cleared"}

ShownNotNewer ==
    \A u \in Uris :
        IsOpen(u) /\ shown[u].kind \in {"syntax", "full"}
            => shown[u].version <= docVersion[u]

IInv == TypeOK /\ JobsMatch /\ HandlerTargetsOpen /\ ClosedShowNothing /\ ShownNotNewer

-----------------------------------------------------------------------------
USE UrisAssumption, TextsAssumption, BoundsAssumption

\* A module's closure holds the module, so its sources hold its own text.
LEMMA OwnSource ==
    ASSUME NEW src \in Overlay, NEW u \in Uris
    PROVE  SourcesOf(src, u) \in Overlay /\ SourcesOf(src, u)[u] = src[u]
<1>1. u \in Closure(src, {u})
  BY DEF Closure
<1>2. QED
  BY <1>1 DEF SourcesOf, Overlay, MaybeText

\* What a job is computed from has the job's own text for its document.
LEMMA ComputedOwnText ==
    ASSUME TypeOK, NEW j \in Job
    PROVE  /\ DiagnosticsForSnapshot(j) \in Overlay
           /\ j.overlay[j.uri] # NoText =>
                 DiagnosticsForSnapshot(j)[j.uri] = j.overlay[j.uri]
<1> DEFINE src == Merge(j.overlay, disk)
<1>1. src \in Overlay /\ j.uri \in Uris
  BY DEF TypeOK, Merge, Overlay, Job, MaybeText
<1>2. j.overlay[j.uri] # NoText => src[j.uri] = j.overlay[j.uri]
  BY <1>1 DEF Merge
<1> HIDE DEF src
<1>3. SourcesOf(src, j.uri) \in Overlay /\ SourcesOf(src, j.uri)[j.uri] = src[j.uri]
  BY <1>1, OwnSource
<1>4. QED
  BY <1>2, <1>3 DEF DiagnosticsForSnapshot, src

LEMMA InitTypeOK == Init => TypeOK
<1> SUFFICES ASSUME Init PROVE TypeOK
  OBVIOUS
<1> USE DEF Init, MaybeText, Versions
<1>1. main \in Main /\ main.at = "idle"
  BY DEF Idle, Main
<1>2. shown \in [Uris -> Publication]
  BY DEF Publication, NoSources, Overlay
<1>3. disk \in Overlay
  BY DEF Overlay
<1>4. stopping \in BOOLEAN /\ unnoticed \in BOOLEAN
  BY Zenon
<1>5. docText \in [Uris -> MaybeText] /\ docVersion \in [Uris -> Versions]
      /\ revision \in [Uris -> Nat] /\ ready \in [Uris -> Nat]
      /\ budget \in 0 .. MaxMessages
  OBVIOUS
<1>6. QED
  BY <1>1, <1>2, <1>3, <1>4, <1>5 DEF TypeOK

\* Every step keeps the types.
LEMMA NextTypeOK == TypeOK /\ [Next]_vars => TypeOK'
<1> SUFFICES ASSUME TypeOK, [Next]_vars PROVE TypeOK'
  OBVIOUS
<1> USE DEF TypeOK, Main, MaybeText, Versions
<1>1. ASSUME NEW u \in Uris, NEW t \in TextsOf[u], NEW v \in Versions,
             DidOpen(u, t, v) \/ DidChange(u, t, v)
      PROVE  TypeOK'
  <2>1. t \in Texts
    OBVIOUS
  <2>2. main' \in Main /\ main'.uri = u
    BY <1>1 DEF DidOpen, DidChange, Receive
  <2>3. /\ docText' = [docText EXCEPT ![u] = t]
        /\ docVersion' = [docVersion EXCEPT ![u] = v]
        /\ revision' = [revision EXCEPT ![u] = @ + 1]
        /\ budget' \in 0 .. MaxMessages
        /\ UNCHANGED <<ready, pending, stopping, affected, todo, worker, job, disk,
                       unnoticed, shown>>
    BY <1>1 DEF DidOpen, DidChange, Receive, Invalidate, workerVars
  <2>4. QED
    BY <2>1, <2>2, <2>3
<1>2. ASSUME NEW u \in Uris, DidSave(u) PROVE TypeOK'
  BY <1>2 DEF DidSave, Receive, Invalidate, workerVars, docVars
<1>3. ASSUME NEW u \in Uris, DidClose(u) PROVE TypeOK'
  BY <1>3 DEF DidClose, workerVars, docVars
<1>4. ASSUME EraseDocument PROVE TypeOK'
  BY <1>4 DEF EraseDocument, Invalidate, Goto, workerVars, envVars
<1>5. ASSUME PublishSyntax PROVE TypeOK'
  <2>1. main.uri \in Uris
    BY <1>5 DEF PublishSyntax
  <2>2. [kind |-> "syntax", version |-> docVersion[main.uri], sources |-> NoSources]
           \in Publication
    BY <2>1 DEF Publication, NoSources, Overlay
  <2>3. shown' \in [Uris -> Publication]
    BY <1>5, <2>2 DEF PublishSyntax
  <2>4. QED
    BY <1>5, <2>1, <2>3 DEF PublishSyntax, QueueAll, Idle, Goto, workerVars, envVars, docVars
<1>6. ASSUME FindAffected PROVE TypeOK'
  <2>1. AffectedOpenDocuments(main.uri) \subseteq Uris
    BY DEF AffectedOpenDocuments, OpenUris
  <2>2. QED
    BY <1>6, <2>1 DEF FindAffected, AfterInvalidation, QueueAll, Idle, Goto, workerVars,
                      envVars, docVars
<1>7. ASSUME InvalidateAffected PROVE TypeOK'
  BY <1>7 DEF InvalidateAffected, Firsts, Invalidate, AfterInvalidation, QueueAll, Idle,
              Goto, workerVars, envVars, docVars
<1>8. ASSUME PublishCleared PROVE TypeOK'
  <2>1. [kind |-> "cleared", version |-> 0, sources |-> NoSources] \in Publication
    BY DEF Publication, NoSources, Overlay
  <2>2. shown' \in [Uris -> Publication]
    BY <1>8, <2>1 DEF PublishCleared
  <2>3. QED
    BY <1>8, <2>2 DEF PublishCleared, QueueAll, Idle, workerVars, envVars, docVars
<1>9. ASSUME QueueNext PROVE TypeOK'
  <2>1. PICK u \in Firsts(todo) :
          /\ InsertOrAssign([uri |-> u, version |-> docVersion[u],
                             overlay |-> docText, revision |-> revision[u]])
          /\ QueueAll(todo \ {u})
    BY <1>9 DEF QueueNext
  <2>2. u \in Uris
    BY DEF Firsts
  <2>3. [uri |-> u, version |-> docVersion[u], overlay |-> docText,
         revision |-> revision[u]] \in Job
    BY <2>2 DEF Job, Overlay
  <2>4. /\ pending' \subseteq Job
        /\ \A j, k \in pending' : j.uri = k.uri => j = k
    BY <2>1, <2>3 DEF InsertOrAssign
  <2>5. QED
    BY <1>9, <2>1, <2>4 DEF QueueNext, QueueAll, Idle, NotifyWorker, envVars, docVars
<1>10. ASSUME DidChangeWatchedFiles \/ DidChangeWorkspaceFolders PROVE TypeOK'
  <2>1. InvalidateAllOpen /\ budget' \in 0 .. MaxMessages
    BY <1>10 DEF DidChangeWatchedFiles, DidChangeWorkspaceFolders
  <2>2. unnoticed' \in BOOLEAN
    BY <1>10, Zenon DEF DidChangeWatchedFiles, DidChangeWorkspaceFolders
  <2>3. revision' \in [Uris -> Nat] /\ ready' \in [Uris -> Nat]
    BY <2>1 DEF InvalidateAllOpen
  <2>4. OpenUris \subseteq Uris
    BY DEF OpenUris
  <2>5. main' \in Main /\ main'.at \in {"idle", "queue"} /\ affected' \subseteq Uris
        /\ todo' \subseteq Uris
    BY <2>1, <2>4 DEF InvalidateAllOpen, QueueAll, Idle
  <2>6. QED
    BY <2>1, <2>2, <2>3, <2>5 DEF InvalidateAllOpen, workerVars, docVars
<1>11. ASSUME Exit PROVE TypeOK'
  BY <1>11 DEF Exit, Goto, NotifyWorker, envVars, docVars
<1>12. ASSUME Join PROVE TypeOK'
  BY <1>12 DEF Join, Goto, workerVars, envVars, docVars
<1>13. ASSUME WorkerWait \/ WorkerTake \/ WorkerReturn PROVE TypeOK'
  BY <1>13 DEF WorkerWait, WorkerTake, WorkerReturn, mainVars, envVars, docVars
<1>14. ASSUME WorkerCompute PROVE TypeOK'
  <2>1. job \in Job /\ DiagnosticsForSnapshot(job) \in Overlay
    BY <1>14, ComputedOwnText DEF WorkerCompute
  <2>2. job' \in Job
    BY <1>14, <2>1 DEF WorkerCompute, Job
  <2>3. QED
    BY <1>14, <2>2 DEF WorkerCompute, mainVars, envVars, docVars
<1>15. ASSUME WorkerPublish PROVE TypeOK'
  BY <1>15 DEF WorkerPublish, mainVars, envVars, docVars, Publication, Job
<1>16. ASSUME NEW u \in Uris, NEW t \in FilesOf[u], DiskWrite(u, t) PROVE TypeOK'
  BY <1>16 DEF DiskWrite, mainVars, workerVars, docVars, Overlay
<1>17. CASE UNCHANGED vars
  BY <1>17 DEF vars, mainVars, workerVars, envVars, docVars
<1>18. QED
  BY <1>1, <1>2, <1>3, <1>4, <1>5, <1>6, <1>7, <1>8, <1>9, <1>10, <1>11, <1>12, <1>13,
     <1>14, <1>15, <1>16, <1>17
     DEF Next, Handler, MainStep, WorkerStep, Environment, Terminated

\* The types hold in every reachable state.
THEOREM TypeCorrect == Spec => []TypeOK
<1>1. QED
  BY InitTypeOK, NextTypeOK, PTL DEF Spec

-----------------------------------------------------------------------------
(* Handlers and revisions *)

\* A step that changes a document raises its revision; none lowers one.
DocumentsGuarded ==
    \A u \in Uris :
        \/ revision'[u] > revision[u]
        \/ /\ revision'[u] = revision[u]
           /\ docText'[u] = docText[u]
           /\ docVersion'[u] = docVersion[u]

LEMMA StepsGuardDocuments == TypeOK /\ [Next]_vars => DocumentsGuarded
<1> SUFFICES ASSUME TypeOK, [Next]_vars PROVE DocumentsGuarded
  OBVIOUS
<1> USE DEF DocumentsGuarded
<1>1. ASSUME UNCHANGED <<docText, docVersion, revision>> PROVE DocumentsGuarded
  BY <1>1
<1>2. ASSUME NEW u \in Uris, revision' = [revision EXCEPT ![u] = @ + 1],
             \A v \in Uris \ {u} : docText'[v] = docText[v] /\ docVersion'[v] = docVersion[v]
      PROVE  DocumentsGuarded
  BY <1>2 DEF TypeOK
<1>3. ASSUME NEW u \in Uris, NEW t, NEW v, DidOpen(u, t, v) \/ DidChange(u, t, v)
      PROVE  DocumentsGuarded
  BY <1>2, <1>3 DEF DidOpen, DidChange, Invalidate, TypeOK
<1>4. ASSUME NEW u \in Uris, DidSave(u) PROVE DocumentsGuarded
  BY <1>2, <1>4 DEF DidSave, Invalidate, docVars
<1>5. ASSUME EraseDocument PROVE DocumentsGuarded
  BY <1>2, <1>5 DEF EraseDocument, Invalidate, TypeOK
<1>6. ASSUME InvalidateAffected PROVE DocumentsGuarded
  BY <1>2, <1>6 DEF InvalidateAffected, Firsts, Invalidate, docVars, TypeOK
<1>7. ASSUME DidChangeWatchedFiles \/ DidChangeWorkspaceFolders PROVE DocumentsGuarded
  BY <1>7 DEF DidChangeWatchedFiles, DidChangeWorkspaceFolders, InvalidateAllOpen, docVars,
              TypeOK
<1>8. ASSUME \/ \E u \in Uris : DidClose(u)
             \/ PublishSyntax \/ FindAffected \/ PublishCleared \/ QueueNext \/ Exit \/ Join
             \/ WorkerStep \/ Environment \/ Terminated \/ UNCHANGED vars
      PROVE  UNCHANGED <<docText, docVersion, revision>>
  BY <1>8 DEF DidClose, PublishSyntax, FindAffected, PublishCleared, QueueNext, Exit, Join,
              WorkerStep, WorkerWait, WorkerTake, WorkerReturn, WorkerCompute, WorkerPublish,
              Environment, DiskWrite, Terminated, docVars, vars
<1>9. QED
  BY <1>1, <1>3, <1>4, <1>5, <1>6, <1>7, <1>8 DEF Next, Handler, MainStep

\* So a job that matched its document before a step matches it after.
LEMMA MatchesPreserved ==
    ASSUME TypeOK, TypeOK', DocumentsGuarded
    PROVE  \A j \in Job : JobMatches(j) => JobMatches(j)'
<1> SUFFICES ASSUME NEW j \in Job, JobMatches(j) PROVE JobMatches(j)'
  OBVIOUS
<1>1. j.uri \in Uris /\ j.revision \in Nat
      /\ revision[j.uri] \in Nat /\ revision'[j.uri] \in Nat
  BY DEF TypeOK, Job
<1>2. CASE revision'[j.uri] > revision[j.uri]
  BY <1>1, <1>2 DEF JobMatches
<1>3. CASE /\ revision'[j.uri] = revision[j.uri]
           /\ docText'[j.uri] = docText[j.uri]
           /\ docVersion'[j.uri] = docVersion[j.uri]
  BY <1>1, <1>3 DEF JobMatches, IsOpen
<1>4. QED
  BY <1>1, <1>2, <1>3 DEF DocumentsGuarded

LEMMA InitIInv == Init => IInv
<1> SUFFICES ASSUME Init PROVE IInv
  OBVIOUS
<1>1. TypeOK
  BY InitTypeOK
<1>2. main.at = "idle" /\ worker = "check" /\ pending = {}
      /\ \A u \in Uris : shown[u].kind = "none" /\ docText[u] = NoText
  BY DEF Init, Idle
<1>3. QED
  BY <1>1, <1>2 DEF IInv, JobsMatch, HandlerTargetsOpen, ClosedShowNothing, ShownNotNewer,
                   IsOpen

LEMMA NextJobsMatch == IInv /\ [Next]_vars => JobsMatch'
<1> SUFFICES ASSUME IInv, [Next]_vars PROVE JobsMatch'
  OBVIOUS
<1>1. TypeOK /\ TypeOK' /\ DocumentsGuarded
  BY NextTypeOK, StepsGuardDocuments DEF IInv
<1>2. \A j \in Job : JobMatches(j) => JobMatches(j)'
  BY <1>1, MatchesPreserved
<1>3. /\ \A j \in pending : j \in Job /\ JobMatches(j)
      /\ worker \in {"computing", "computed"} => job \in Job /\ JobMatches(job)
  BY <1>1 DEF IInv, JobsMatch, TypeOK
<1>4. ASSUME pending' \subseteq pending, job' = job,
             worker' \in {"computing", "computed"} => worker' = worker
      PROVE  JobsMatch'
  BY <1>2, <1>3, <1>4 DEF JobsMatch, JobMatches, IsOpen
<1>5. ASSUME QueueNext PROVE JobsMatch'
  <2>1. PICK u \in Firsts(todo) :
          InsertOrAssign([uri |-> u, version |-> docVersion[u],
                          overlay |-> docText, revision |-> revision[u]])
    BY <1>5 DEF QueueNext
  <2>2. u \in Uris /\ IsOpen(u)
    BY <1>1, <1>5 DEF IInv, HandlerTargetsOpen, QueueNext, Firsts, OpenUris
  <2> DEFINE new == [uri |-> u, version |-> docVersion[u],
                     overlay |-> docText, revision |-> revision[u]]
  <2>3. ASSUME NEW j, j = new PROVE JobMatches(j)'
    BY <1>1, <1>5, <2>2, <2>3 DEF JobMatches, QueueNext, docVars, IsOpen, TypeOK
  <2>4. \A j \in pending' : j \in pending \/ j = new
    BY <2>1 DEF InsertOrAssign
  <2>5. \A j \in pending' : JobMatches(j)'
    BY <1>2, <1>3, <2>3, <2>4 DEF JobMatches, IsOpen
  <2>6. worker' \in {"computing", "computed"} => worker' = worker
    BY <1>5 DEF QueueNext, NotifyWorker
  <2>7. job' = job
    BY <1>5 DEF QueueNext
  <2>8. QED
    BY <1>2, <1>3, <2>5, <2>6, <2>7 DEF JobsMatch, JobMatches, IsOpen
<1>6. ASSUME WorkerTake PROVE JobsMatch'
  BY <1>2, <1>3, <1>6 DEF WorkerTake, JobsMatch, JobMatches, IsOpen
<1>7. ASSUME WorkerCompute PROVE JobsMatch'
  <2>1. job \in Job /\ JobMatches(job)
    BY <1>3, <1>7 DEF WorkerCompute
  <2>2. /\ DiagnosticsForSnapshot(job) \in Overlay
        /\ job.overlay[job.uri] # NoText =>
              DiagnosticsForSnapshot(job)[job.uri] = job.overlay[job.uri]
    BY <1>1, <2>1, ComputedOwnText
  <2>3. /\ job'.uri = job.uri /\ job'.version = job.version
        /\ job'.revision = job.revision
        /\ job'.overlay = DiagnosticsForSnapshot(job)
    BY <1>7, <2>1 DEF WorkerCompute, Job
  <2>4. JobMatches(job)'
    BY <1>7, <2>1, <2>2, <2>3 DEF JobMatches, WorkerCompute, docVars, IsOpen
  <2>5. \A j \in pending' : JobMatches(j)'
    BY <1>2, <1>3, <1>7 DEF WorkerCompute, JobMatches, IsOpen
  <2>6. QED
    BY <2>4, <2>5 DEF JobsMatch
<1>8. ASSUME NEW u \in Uris, DidClose(u) PROVE JobsMatch'
  BY <1>4, <1>8 DEF DidClose, workerVars
<1>9. ASSUME NEW u \in Uris, NEW t, NEW v,
             DidOpen(u, t, v) \/ DidChange(u, t, v) \/ DidSave(u) \/ DiskWrite(u, t)
      PROVE  JobsMatch'
  BY <1>4, <1>9 DEF DidOpen, DidChange, DidSave, DiskWrite, workerVars
<1>10. ASSUME \/ DidChangeWatchedFiles \/ DidChangeWorkspaceFolders \/ EraseDocument
              \/ PublishSyntax \/ FindAffected \/ InvalidateAffected \/ PublishCleared
              \/ Join \/ Terminated \/ UNCHANGED vars
       PROVE  JobsMatch'
  BY <1>4, <1>10 DEF DidChangeWatchedFiles, DidChangeWorkspaceFolders, InvalidateAllOpen,
       EraseDocument, PublishSyntax, FindAffected, InvalidateAffected, PublishCleared, Join,
       Terminated, workerVars, vars
<1>11. ASSUME Exit \/ WorkerWait \/ WorkerReturn \/ WorkerPublish PROVE JobsMatch'
  BY <1>4, <1>11 DEF Exit, NotifyWorker, WorkerWait, WorkerReturn, WorkerPublish
<1>12. QED
  BY <1>5, <1>6, <1>7, <1>8, <1>9, <1>10, <1>11
     DEF Next, Handler, MainStep, WorkerStep, Environment

LEMMA NextHandlerTargetsOpen == IInv /\ [Next]_vars => HandlerTargetsOpen'
<1> SUFFICES ASSUME IInv, [Next]_vars PROVE HandlerTargetsOpen'
  OBVIOUS
<1> USE DEF IsOpen, OpenUris
<1>1. TypeOK /\ HandlerTargetsOpen
  BY DEF IInv
<1>2. ASSUME UNCHANGED <<docText, main, affected, todo>> PROVE HandlerTargetsOpen'
  BY <1>1, <1>2 DEF HandlerTargetsOpen
<1>3. ASSUME NEW u \in Uris, NEW t \in TextsOf[u], NEW v \in Versions,
             DidOpen(u, t, v) \/ DidChange(u, t, v)
      PROVE  HandlerTargetsOpen'
  <2>1. t # NoText
    OBVIOUS
  <2>2. /\ docText' = [docText EXCEPT ![u] = t]
        /\ main'.at = "syntax" /\ main'.op \in {"open", "change"} /\ main'.uri = u
    BY <1>3 DEF DidOpen, DidChange, Receive
  <2>3. QED
    BY <1>1, <2>1, <2>2 DEF HandlerTargetsOpen, TypeOK
<1>4. ASSUME NEW u \in Uris, DidSave(u) PROVE HandlerTargetsOpen'
  BY <1>1, <1>4 DEF DidSave, Receive, docVars, HandlerTargetsOpen
<1>5. ASSUME NEW u \in Uris, DidClose(u) PROVE HandlerTargetsOpen'
  BY <1>1, <1>5 DEF DidClose, docVars, HandlerTargetsOpen
<1>6. ASSUME EraseDocument PROVE HandlerTargetsOpen'
  BY <1>1, <1>6 DEF EraseDocument, Goto, TypeOK, Main, HandlerTargetsOpen
<1>7. ASSUME PublishSyntax PROVE HandlerTargetsOpen'
  BY <1>1, <1>7 DEF PublishSyntax, QueueAll, Idle, Goto, docVars, TypeOK, Main,
                    HandlerTargetsOpen
<1>8. ASSUME FindAffected PROVE HandlerTargetsOpen'
  <2>1. AffectedOpenDocuments(main.uri) \subseteq OpenUris
    BY DEF AffectedOpenDocuments
  <2>2. affected' \subseteq OpenUris /\ docText' = docText
    BY <1>1, <1>8, <2>1 DEF FindAffected, docVars, TypeOK, HandlerTargetsOpen
  <2>3. main.op = "close" => ~IsOpen(main.uri)
    BY <1>1, <1>8 DEF FindAffected, HandlerTargetsOpen
  <2>4. \/ main' = [main EXCEPT !.at = "clear"] /\ main.op = "close"
        \/ main' = Idle
        \/ main' = [main EXCEPT !.at = "queue"] /\ todo' = affected'
        \/ main' = [main EXCEPT !.at = "invalidate"]
    BY <1>8 DEF FindAffected, AfterInvalidation, QueueAll, Goto
  <2>5. QED
    BY <1>1, <2>2, <2>3, <2>4 DEF Idle, TypeOK, Main, HandlerTargetsOpen
<1>9. ASSUME InvalidateAffected PROVE HandlerTargetsOpen'
  BY <1>1, <1>9 DEF InvalidateAffected, AfterInvalidation, QueueAll, Idle, Goto, docVars,
                    TypeOK, Main, HandlerTargetsOpen
<1>10. ASSUME PublishCleared PROVE HandlerTargetsOpen'
  BY <1>1, <1>10 DEF PublishCleared, QueueAll, Idle, docVars, TypeOK, Main,
                     HandlerTargetsOpen
<1>11. ASSUME QueueNext PROVE HandlerTargetsOpen'
  BY <1>1, <1>11 DEF QueueNext, QueueAll, Idle, docVars, TypeOK, Main, HandlerTargetsOpen
<1>12. ASSUME DidChangeWatchedFiles \/ DidChangeWorkspaceFolders PROVE HandlerTargetsOpen'
  BY <1>1, <1>12 DEF DidChangeWatchedFiles, DidChangeWorkspaceFolders, InvalidateAllOpen,
                     QueueAll, Idle, docVars, TypeOK, Main, HandlerTargetsOpen
<1>13. ASSUME Exit \/ Join PROVE HandlerTargetsOpen'
  BY <1>1, <1>13 DEF Exit, Join, Goto, docVars, TypeOK, Main, HandlerTargetsOpen
<1>14. ASSUME WorkerStep \/ Environment \/ Terminated \/ UNCHANGED vars
       PROVE  HandlerTargetsOpen'
  BY <1>2, <1>14 DEF WorkerStep, WorkerWait, WorkerTake, WorkerReturn, WorkerCompute,
       WorkerPublish, Environment, DiskWrite, Terminated, docVars, mainVars, vars
<1>15. QED
  BY <1>3, <1>4, <1>5, <1>6, <1>7, <1>8, <1>9, <1>10, <1>11, <1>12, <1>13, <1>14
     DEF Next, Handler, MainStep

\* Only three actions publish; the worker's publication is of a current job.
LEMMA Publications ==
    IInv /\ [Next]_vars =>
      \/ shown' = shown
      \/ PublishSyntax /\ main.uri \in Uris /\ IsOpen(main.uri)
      \/ PublishCleared /\ main.uri \in Uris
      \/ /\ WorkerPublish
         /\ shown' = [shown EXCEPT ![job.uri] = [kind |-> "full", version |-> job.version,
                                                 sources |-> job.overlay]]
         /\ job.uri \in Uris /\ IsOpen(job.uri)
         /\ job.version = docVersion[job.uri]
         /\ job.overlay[job.uri] = docText[job.uri]
<1> SUFFICES ASSUME IInv, [Next]_vars, shown' # shown
             PROVE  \/ PublishSyntax /\ main.uri \in Uris /\ IsOpen(main.uri)
                    \/ PublishCleared /\ main.uri \in Uris
                    \/ /\ WorkerPublish
                       /\ shown' = [shown EXCEPT ![job.uri] =
                             [kind |-> "full", version |-> job.version,
                              sources |-> job.overlay]]
                       /\ job.uri \in Uris /\ IsOpen(job.uri)
                       /\ job.version = docVersion[job.uri]
                       /\ job.overlay[job.uri] = docText[job.uri]
  OBVIOUS
<1>1. PublishSyntax \/ PublishCleared \/ WorkerPublish
  BY DEF Next, Handler, MainStep, WorkerStep, Environment, DidOpen, DidChange, DidSave,
         DidClose, DidChangeWatchedFiles, DidChangeWorkspaceFolders, InvalidateAllOpen, Exit,
         EraseDocument, FindAffected, InvalidateAffected, QueueNext, Join, WorkerWait,
         WorkerTake, WorkerReturn, WorkerCompute, DiskWrite, Terminated, vars
<1>2. CASE PublishSyntax
  BY <1>2 DEF PublishSyntax, IInv, TypeOK, HandlerTargetsOpen
<1>3. CASE PublishCleared
  BY <1>3 DEF PublishCleared, IInv, TypeOK
<1>4. CASE WorkerPublish
  <2>1. JobIsCurrent /\ job \in Job /\ JobMatches(job)
    BY <1>4 DEF WorkerPublish, IInv, TypeOK, JobsMatch
  <2>2. QED
    BY <1>4, <2>1 DEF WorkerPublish, JobIsCurrent, JobMatches, Job
<1>5. QED
  BY <1>1, <1>2, <1>3, <1>4

\* Documents only open at a handler's start and only close in EraseDocument.
LEMMA OpenAndClose ==
    ASSUME IInv, [Next]_vars, NEW u \in Uris
    PROVE  /\ IsOpen(u) /\ ~IsOpen(u)' => BeingCleared(u)'
           /\ BeingCleared(u) => BeingCleared(u)' \/ PublishCleared
           /\ ~IsOpen(u) /\ IsOpen(u)' => main.at = "idle" /\ shown' = shown
           /\ IsOpen(u) /\ IsOpen(u)' => docVersion'[u] >= docVersion[u]
<1> USE DEF IsOpen, BeingCleared
<1>1. TypeOK
  BY DEF IInv
<1>2. CASE UNCHANGED <<docText, docVersion, main>>
  BY <1>1, <1>2 DEF TypeOK, Versions
<1>3. CASE UNCHANGED <<docText, docVersion>> /\ main.at \in {"idle", "syntax", "queue", "join"}
  BY <1>1, <1>3 DEF TypeOK, Versions
<1>4. ASSUME NEW w \in Uris, NEW t \in TextsOf[w], NEW v \in Versions,
             DidOpen(w, t, v) \/ DidChange(w, t, v)
      PROVE  /\ IsOpen(u) => IsOpen(u)' /\ docVersion'[u] >= docVersion[u]
             /\ main.at = "idle" /\ shown' = shown
  <2>1. t # NoText
    OBVIOUS
  <2>2. QED
    BY <1>1, <1>4, <2>1 DEF DidOpen, DidChange, Receive, TypeOK, Versions
<1>5. CASE EraseDocument
  BY <1>1, <1>5 DEF EraseDocument, Goto, TypeOK, Main, Versions, IInv, HandlerTargetsOpen
<1>6. CASE FindAffected \/ InvalidateAffected
  <2>1. UNCHANGED <<docText, docVersion>>
    BY <1>6 DEF FindAffected, InvalidateAffected, docVars
  <2>2. main.op = "close" =>
          main' = main \/ main' = [main EXCEPT !.at = "clear"]
                       \/ main' = [main EXCEPT !.at = "invalidate"]
    BY <1>6 DEF FindAffected, InvalidateAffected, AfterInvalidation, Goto
  <2>3. QED
    BY <1>1, <2>1, <2>2 DEF TypeOK, Main, Versions
<1>7. CASE PublishCleared
  BY <1>1, <1>7 DEF PublishCleared, docVars, TypeOK, Versions
<1>8. CASE \/ \E w \in Uris : DidSave(w) \/ DidClose(w)
           \/ DidChangeWatchedFiles \/ DidChangeWorkspaceFolders \/ Exit \/ PublishSyntax
           \/ QueueNext \/ Join
  BY <1>3, <1>8 DEF DidSave, DidClose, Receive, DidChangeWatchedFiles,
       DidChangeWorkspaceFolders, InvalidateAllOpen, Exit, PublishSyntax, QueueNext, Join,
       docVars
<1>9. CASE WorkerStep \/ Environment \/ Terminated \/ UNCHANGED vars
  BY <1>2, <1>9 DEF WorkerStep, WorkerWait, WorkerTake, WorkerReturn, WorkerCompute,
       WorkerPublish, Environment, DiskWrite, Terminated, docVars, mainVars, vars
<1>10. ASSUME NEW w \in Uris, NEW t \in TextsOf[w], NEW v \in Versions,
              DidOpen(w, t, v) \/ DidChange(w, t, v)
       PROVE  ~BeingCleared(u)
  BY <1>10 DEF DidOpen, DidChange, Receive
<1>11. QED
  BY <1>4, <1>5, <1>6, <1>7, <1>8, <1>9, <1>10 DEF Next, Handler, MainStep

LEMMA NextClosedShowNothing == IInv /\ [Next]_vars => ClosedShowNothing'
<1> SUFFICES ASSUME IInv, [Next]_vars, NEW u \in Uris, ~IsOpen(u)', ~BeingCleared(u)'
             PROVE  shown'[u].kind \in {"none", "cleared"}
  BY DEF ClosedShowNothing
<1>1. ~IsOpen(u) /\ (~BeingCleared(u) \/ PublishCleared)
  BY OpenAndClose
<1>2. shown \in [Uris -> Publication]
  BY DEF IInv, TypeOK
<1>3. CASE PublishCleared
  BY <1>1, <1>2, <1>3 DEF PublishCleared, IInv, ClosedShowNothing, BeingCleared
<1>4. CASE ~PublishCleared
  <2>1. shown[u].kind \in {"none", "cleared"}
    BY <1>1, <1>4 DEF IInv, ClosedShowNothing
  <2>2. shown'[u] = shown[u]
    BY <1>1, <1>2, <1>4, Publications DEF PublishSyntax, IsOpen
  <2>3. QED
    BY <2>1, <2>2
<1>5. QED
  BY <1>3, <1>4

\* What is published for an open document: nothing new, or its version.
LEMMA PublishedVersion ==
    ASSUME IInv, [Next]_vars, NEW u \in Uris, IsOpen(u),
           shown'[u].kind \in {"syntax", "full"}
    PROVE  shown'[u] = shown[u] \/ shown'[u].version = docVersion[u]
<1>1. shown \in [Uris -> Publication]
  BY DEF IInv, TypeOK
<1>2. QED
  BY <1>1, Publications DEF PublishSyntax, PublishCleared

LEMMA NextShownNotNewer == IInv /\ [Next]_vars => ShownNotNewer'
<1> SUFFICES ASSUME IInv, [Next]_vars, NEW u \in Uris, IsOpen(u)',
                    shown'[u].kind \in {"syntax", "full"}
             PROVE  shown'[u].version <= docVersion'[u]
  BY DEF ShownNotNewer
<1>1. TypeOK /\ TypeOK'
  BY NextTypeOK DEF IInv
<1>2. CASE ~IsOpen(u)
  BY <1>2, OpenAndClose DEF IInv, ClosedShowNothing, BeingCleared
<1>3. CASE IsOpen(u)
  <2>1. docVersion'[u] >= docVersion[u]
    BY <1>3, OpenAndClose
  <2>2. shown'[u] = shown[u] \/ shown'[u].version = docVersion[u]
    BY <1>3, PublishedVersion
  <2>3. shown'[u] = shown[u] => shown'[u].version <= docVersion[u]
    BY <1>3 DEF IInv, ShownNotNewer
  <2>4. docVersion[u] \in Int /\ docVersion'[u] \in Int /\ shown'[u].version \in Int
    BY <1>1 DEF TypeOK, Versions, Publication
  <2>5. QED
    BY <2>1, <2>2, <2>3, <2>4
<1>4. QED
  BY <1>2, <1>3

\* The inductive invariant.
THEOREM Invariance == Spec => []IInv
<1>1. IInv /\ [Next]_vars => IInv'
  BY NextTypeOK, NextJobsMatch, NextHandlerTargetsOpen, NextClosedShowNothing,
     NextShownNotNewer DEF IInv
<1>2. QED
  BY InitIInv, <1>1, PTL DEF Spec

-----------------------------------------------------------------------------
(* The properties *)

\* did_close leaves nothing on screen: a report computed while the document
\* was being closed is never published after the empty one.
THEOREM ClosedDocumentsShowNothing == Spec => []ClosedCleared
<1>1. IInv => ClosedCleared
  BY DEF IInv, ClosedShowNothing, ClosedCleared, BeingCleared
<1>2. QED
  BY Invariance, <1>1, PTL

\* Every full report is about the version and the text the server has.
THEOREM FullReportsCurrent == Spec => FullReportsAreCurrent
<1>1. IInv /\ [Next]_vars => [CurrentFullReport]_shown
  <2> SUFFICES ASSUME IInv, [Next]_vars, NEW u \in Uris,
                      shown'[u] # shown[u], shown'[u].kind = "full"
               PROVE  /\ IsOpen(u)
                      /\ shown'[u].version = docVersion[u]
                      /\ shown'[u].sources[u] = docText[u]
    BY DEF CurrentFullReport
  <2>1. shown \in [Uris -> Publication]
    BY DEF IInv, TypeOK
  <2>2. QED
    BY <2>1, Publications DEF PublishSyntax, PublishCleared
<1>2. QED
  BY Invariance, <1>1, PTL DEF Spec, FullReportsAreCurrent

\* The versions a client sees for an open document never decrease.
THEOREM VersionsMonotone == Spec => VersionsNeverGoBack
<1>1. IInv /\ [Next]_vars => [NoOlderReport]_shown
  <2> SUFFICES ASSUME IInv, [Next]_vars, NEW u \in Uris, shown' # shown,
                      shown[u].kind \in {"syntax", "full"},
                      shown'[u].kind \in {"syntax", "full"}
               PROVE  shown'[u].version >= shown[u].version
    BY DEF NoOlderReport
  <2>1. shown[u].version \in Int /\ shown'[u].version \in Int
    BY NextTypeOK DEF IInv, TypeOK, Publication, Versions
  <2>2. CASE shown'[u] = shown[u]
    BY <2>1, <2>2
  <2>3. CASE shown'[u] # shown[u]
    <3>1. IsOpen(u)
      BY <2>3, Publications DEF PublishSyntax, PublishCleared, IInv, TypeOK
    <3>2. shown[u].version <= docVersion[u]
      BY <3>1 DEF IInv, ShownNotNewer
    <3>3. shown'[u].version = docVersion[u]
      BY <2>3, <3>1, PublishedVersion
    <3>4. QED
      BY <2>1, <3>2, <3>3
  <2>4. QED
    BY <2>2, <2>3
<1>2. QED
  BY Invariance, <1>1, PTL DEF Spec, VersionsNeverGoBack

-----------------------------------------------------------------------------
(* Fresh reports *)

\* A report of u is still to be made: a file event comes, or the handler that
\* runs will find u affected, or has, and queue it.
Awaited(u) ==
    \/ unnoticed
    \/ main.at = "closing" /\ main.uri = u
    \/ main.at = "syntax" /\ main.op = "save" /\ main.uri = u
    \/ main.at = "syntax" /\ main.op # "save" /\ main.uri \in Closure(CurrentSources, {u})
    \/ main.at = "find" /\ main.uri \in Closure(CurrentSources, {u})
    \/ main.at \in {"invalidate", "clear"} /\ u \in affected
    \/ main.at = "queue" /\ u \in todo

\* The jobs for u that will be published.
Jobs(u) == {j \in pending : j.uri = u /\ j.revision = revision[u]}
Holds(u) ==
    worker \in {"computing", "computed"} /\ job.uri = u /\ job.revision = revision[u]

\* The report of u is fresh or a job will make it so; and none will do worse.
Covered(u) ==
    /\ Fresh(u) \/ Jobs(u) # {} \/ Holds(u)
    /\ \A j \in Jobs(u) : DiagnosticsForSnapshot(j) = SourcesOf(CurrentSources, u)
    /\ Holds(u) /\ worker = "computing" =>
          DiagnosticsForSnapshot(job) = SourcesOf(CurrentSources, u)
    /\ Holds(u) /\ worker = "computed" => job.overlay = SourcesOf(CurrentSources, u)
    /\ FullDiagnosticsReady(u) => Fresh(u)

FreshInv == \A u \in OpenUris : Awaited(u) \/ Covered(u)

\* Nothing that is queued, held or ready is for the revision of u.
NoCurrent(u) == Jobs(u) = {} /\ ~Holds(u) /\ ~FullDiagnosticsReady(u)

\* What a handler is to queue has been invalidated before.
BumpedInv ==
    /\ main.at = "syntax" => NoCurrent(main.uri)
    /\ main.at = "find" /\ main.op # "close" => NoCurrent(main.uri)
    /\ main.at = "invalidate" => \A u \in affected \ todo : NoCurrent(u)
    /\ main.at = "clear" => \A u \in affected : NoCurrent(u)
    /\ main.at = "queue" => \A u \in todo : NoCurrent(u)
    /\ \A u \in Uris : ready[u] <= revision[u]

\* Documents and files have contents they may have.
Possible ==
    \A u \in Uris : docText[u] \in TextsOf[u] \cup {NoText} /\ disk[u] \in FilesOf[u]

\* Clients and the disk are as the constants say.
LEMMA NextPossible == TypeOK /\ Possible /\ [Next]_vars => Possible'
<1> SUFFICES ASSUME TypeOK, Possible, [Next]_vars PROVE Possible'
  OBVIOUS
<1> USE DEF Possible
<1>1. ASSUME NEW u \in Uris, NEW t \in TextsOf[u], NEW v \in Versions,
             DidOpen(u, t, v) \/ DidChange(u, t, v)
      PROVE  Possible'
  BY <1>1 DEF DidOpen, DidChange, TypeOK
<1>2. CASE EraseDocument
  BY <1>2 DEF EraseDocument, TypeOK, envVars
<1>3. ASSUME NEW u \in Uris, NEW t \in FilesOf[u], DiskWrite(u, t) PROVE Possible'
  BY <1>3 DEF DiskWrite, TypeOK, docVars, Overlay
<1>4. CASE \/ \E w \in Uris : DidSave(w) \/ DidClose(w)
           \/ DidChangeWatchedFiles \/ DidChangeWorkspaceFolders \/ Exit \/ PublishSyntax
           \/ FindAffected \/ InvalidateAffected \/ PublishCleared \/ QueueNext \/ Join
  BY <1>4 DEF DidSave, DidClose, DidChangeWatchedFiles, DidChangeWorkspaceFolders,
       InvalidateAllOpen, Exit, PublishSyntax, FindAffected, InvalidateAffected,
       PublishCleared, QueueNext, Join, docVars, envVars
<1>5. CASE WorkerStep \/ Terminated \/ UNCHANGED vars
  BY <1>5 DEF WorkerStep, WorkerWait, WorkerTake, WorkerReturn, WorkerCompute,
       WorkerPublish, Terminated, docVars, envVars, vars
<1>6. QED
  BY <1>1, <1>2, <1>3, <1>4, <1>5 DEF Next, Handler, MainStep, Environment

\* Where every file exists, what the server sees has a text for every document.
LEMMA SourcesExist ==
    ASSUME FilesExist, Possible
    PROVE  CurrentSources \in [Uris -> Texts]
           /\ \A v \in Uris : CurrentSources[v] \in TextsOf[v] \cup FilesOf[v]
BY DEF FilesExist, Possible, CurrentSources, Merge

\* A document that is not loaded has no say in what is.
LEMMA ClosureElsewhere ==
    ASSUME NEW s \in [Uris -> Texts], NEW t \in [Uris -> Texts], NEW u \in Uris, NEW w,
           \A v \in Uris : v # w => s[v] = t[v], w \notin Closure(s, {u})
    PROVE  Closure(t, {u}) \subseteq Closure(s, {u})
<1> DEFINE C == Closure(s, {u})
<1>1. u \in C /\ C \in SUBSET Uris
  BY DEF Closure
<1>2. \A v \in Uris : Edges(s, v) = Imports[s[v]] /\ Edges(t, v) = Imports[t[v]]
  <2>1. ASSUME NEW r \in [Uris -> Texts], NEW v \in Uris PROVE Edges(r, v) = Imports[r[v]]
    <3>1. r[v] \in Texts /\ Imports[r[v]] \subseteq Uris
      OBVIOUS
    <3>2. \A x \in Imports[r[v]] : r[x] # NoText
      BY <3>1
    <3>3. QED
      BY <3>1, <3>2 DEF Edges
  <2>2. QED
    BY <2>1
<1>3. \A v \in C : Edges(s, v) \subseteq C
  BY <1>2 DEF Closure
<1>4. \A v \in C : Edges(t, v) \subseteq C
  BY <1>1, <1>2, <1>3
<1>5. QED
  <2> HIDE DEF C
  <2>1. Closure(t, {u}) \subseteq C
    BY <1>1, <1>4 DEF Closure
  <2>2. QED
    BY <2>1 DEF C

\* So a change of it changes no report.
LEMMA SourcesElsewhere ==
    ASSUME NEW s \in [Uris -> Texts], NEW t \in [Uris -> Texts], NEW u \in Uris, NEW w,
           \A v \in Uris : v # w => s[v] = t[v], w \notin Closure(t, {u})
    PROVE  w \notin Closure(s, {u}) /\ SourcesOf(t, u) = SourcesOf(s, u)
<1>1. Closure(s, {u}) \subseteq Closure(t, {u})
  BY ClosureElsewhere
<1>2. Closure(t, {u}) \subseteq Closure(s, {u})
  BY <1>1, ClosureElsewhere
<1>3. \A v \in Closure(t, {u}) : s[v] = t[v]
  BY DEF Closure
<1>4. QED
  BY <1>1, <1>2, <1>3 DEF SourcesOf

\* A step that has nothing to do with u leaves it covered.
LEMMA CoveredKept ==
    ASSUME NEW u \in Uris, Covered(u),
           SourcesOf(CurrentSources', u) = SourcesOf(CurrentSources, u), disk' = disk,
           docVersion'[u] = docVersion[u], revision'[u] = revision[u],
           shown'[u] = shown[u], ready'[u] \in {ready[u], 0},
           {j \in pending' : j.uri = u} = {j \in pending : j.uri = u},
           job' = job,
           worker' = worker \/ {worker, worker'} \cap {"computing", "computed"} = {}
    PROVE  Covered(u)'
<1>1. Fresh(u)' <=> Fresh(u)
  BY DEF Fresh
<1>2. Jobs(u)' = Jobs(u)
  BY DEF Jobs
<1>3. Holds(u)' <=> Holds(u)
  BY DEF Holds
<1>4. \A j : DiagnosticsForSnapshot(j)' = DiagnosticsForSnapshot(j)
  BY DEF DiagnosticsForSnapshot
<1>5. FullDiagnosticsReady(u)' => FullDiagnosticsReady(u)
  BY DEF FullDiagnosticsReady
<1>6. Holds(u) => worker' = worker
  BY DEF Holds
<1>7. QED
  BY <1>1, <1>2, <1>3, <1>4, <1>5, <1>6 DEF Covered

\* A document's own text is among its sources.
LEMMA OwnClosure == \A src : \A u \in Uris : u \in Closure(src, {u})
BY DEF Closure

\* A handler changes the text of a document: who loads it awaits a report, who
\* does not has nothing to await.
LEMMA TextChanged ==
    ASSUME FilesExist, TypeOK, Possible, Possible', FreshInv, NEW w \in Uris,
           \A v \in Uris \ {w} : docText'[v] = docText[v] /\ docVersion'[v] = docVersion[v]
                                 /\ revision'[v] = revision[v],
           UNCHANGED <<ready, pending, workerVars, disk, unnoticed, shown>>,
           \/ main.at = "idle" /\ main'.at = "syntax" /\ main'.op # "save"
           \/ main.at = "closing" /\ main.uri = w /\ main'.at = "find",
           main'.uri = w
    PROVE  FreshInv'
<1> SUFFICES ASSUME NEW u \in Uris, IsOpen(u)' PROVE Awaited(u)' \/ Covered(u)'
  BY DEF FreshInv, OpenUris
<1>1. CASE w \in Closure(CurrentSources', {u})
  BY <1>1 DEF Awaited
<1>2. CASE w \notin Closure(CurrentSources', {u})
  <2>1. u # w
    BY <1>2, OwnClosure
  <2>2. IsOpen(u)
    BY <2>1 DEF IsOpen
  <2>3. CurrentSources \in [Uris -> Texts] /\ CurrentSources' \in [Uris -> Texts]
    BY SourcesExist DEF FilesExist, Possible, CurrentSources, Merge
  <2>4. \A v \in Uris : v # w => CurrentSources[v] = CurrentSources'[v]
    BY DEF CurrentSources, Merge
  <2>5. SourcesOf(CurrentSources', u) = SourcesOf(CurrentSources, u)
    BY <1>2, <2>3, <2>4, SourcesElsewhere
  <2>6. Awaited(u) \/ Covered(u)
    BY <2>2 DEF FreshInv, OpenUris
  <2>7. CASE Awaited(u)
    BY <2>1, <2>7 DEF Awaited
  <2>8. CASE Covered(u)
    BY <2>1, <2>5, <2>8, CoveredKept DEF workerVars
  <2>9. QED
    BY <2>6, <2>7, <2>8
<1>3. QED
  BY <1>1, <1>2

\* No step of a handler that leaves texts alone takes away what is awaited, but
\* by queueing a job.
LEMMA OthersCovered ==
    ASSUME FreshInv, docVars' = docVars, disk' = disk, job' = job,
           worker' = worker \/ {worker, worker'} \cap {"computing", "computed"} = {},
           \A u \in OpenUris :
              Awaited(u) =>
                 Awaited(u)',
           \A u \in OpenUris :
              Awaited(u)' \/ (/\ shown'[u] = shown[u] /\ revision'[u] = revision[u]
                              /\ ready'[u] \in {ready[u], 0}
                              /\ {j \in pending' : j.uri = u} = {j \in pending : j.uri = u})
    PROVE  FreshInv'
<1> SUFFICES ASSUME NEW u \in Uris, IsOpen(u)' PROVE Awaited(u)' \/ Covered(u)'
  BY DEF FreshInv, OpenUris
<1>1. u \in OpenUris /\ CurrentSources' = CurrentSources /\ docVersion' = docVersion
  BY DEF docVars, OpenUris, IsOpen, CurrentSources
<1>2. CASE Awaited(u)
  BY <1>1, <1>2
<1>3. CASE Covered(u)
  BY <1>1, <1>3, CoveredKept
<1>4. QED
  BY <1>1, <1>2, <1>3 DEF FreshInv

\* A document's revision is raised: what is queued, held or ready for it is not
\* for the new one.
LEMMA Invalidated ==
    ASSUME IInv, BumpedInv, NEW u \in Uris, revision'[u] = revision[u] + 1,
           \A j \in pending' : j.uri = u => j \in pending,
           worker' = worker, job' = job, ready'[u] \in {ready[u], 0}
    PROVE  NoCurrent(u)'
<1>1. revision[u] \in Int /\ ready[u] \in Int /\ revision'[u] = revision[u] + 1
  BY DEF IInv, TypeOK
<1>2. \A j \in pending : j.uri = u => j.revision \in Int /\ j.revision <= revision[u]
  BY DEF IInv, TypeOK, Job, JobsMatch, JobMatches
<1>3. worker \in {"computing", "computed"} /\ job.uri = u =>
        job.revision \in Int /\ job.revision <= revision[u]
  BY DEF IInv, TypeOK, Job, JobsMatch, JobMatches
<1>4. ready[u] <= revision[u]
  BY DEF BumpedInv
<1>5. Jobs(u)' = {}
  BY <1>1, <1>2 DEF Jobs
<1>6. ~Holds(u)'
  BY <1>1, <1>3 DEF Holds
<1>7. ~FullDiagnosticsReady(u)'
  BY <1>1, <1>4 DEF FullDiagnosticsReady
<1>8. QED
  BY <1>5, <1>6, <1>7 DEF NoCurrent

\* And stays so until it is queued.
LEMMA NoCurrentKept ==
    ASSUME NEW u \in Uris, NoCurrent(u), revision'[u] = revision[u],
           \A j \in pending' : j.uri = u => j \in pending,
           ready'[u] \in {ready[u], 0},
           \/ worker' \notin {"computing", "computed"}
           \/ job' \in pending
           \/ /\ worker \in {"computing", "computed"}
              /\ job'.uri = job.uri /\ job'.revision = job.revision
    PROVE  NoCurrent(u)'
<1>1. Jobs(u)' = {}
  BY DEF NoCurrent, Jobs
<1>2. ~Holds(u)'
  BY DEF NoCurrent, Jobs, Holds
<1>3. ~FullDiagnosticsReady(u)'
  BY DEF NoCurrent, FullDiagnosticsReady
<1>4. QED
  BY <1>1, <1>2, <1>3 DEF NoCurrent

\* A worker's step leaves what the handlers have to queue alone.
LEMMA WorkerKeepsBumped == IInv /\ BumpedInv /\ WorkerStep => BumpedInv'
<1> SUFFICES ASSUME IInv, BumpedInv, WorkerStep PROVE BumpedInv'
  OBVIOUS
<1> USE DEF WorkerStep, WorkerWait, WorkerTake, WorkerReturn, WorkerCompute, WorkerPublish,
            mainVars
<1>1. revision' = revision /\ main' = main /\ affected' = affected /\ todo' = todo
      /\ pending' \subseteq pending
  OBVIOUS
<1>2. \/ worker' \notin {"computing", "computed"}
      \/ job' \in pending
      \/ /\ worker \in {"computing", "computed"}
         /\ job'.uri = job.uri /\ job'.revision = job.revision
  BY DEF IInv, TypeOK, Job
<1>3. ASSUME NEW u \in Uris, NoCurrent(u) PROVE ready'[u] \in {ready[u], 0}
  BY <1>3 DEF NoCurrent, Holds, JobIsCurrent, IInv, TypeOK
<1>4. ASSUME NEW u \in Uris, NoCurrent(u) PROVE NoCurrent(u)'
  BY <1>1, <1>2, <1>3, <1>4, NoCurrentKept
<1>5. \A u \in Uris : ready'[u] <= revision'[u]
  <2>1. \A u \in Uris : ready'[u] = ready[u] \/ ready'[u] = revision[u]
    BY DEF JobIsCurrent, IInv, TypeOK
  <2>2. \A u \in Uris : revision[u] \in Int /\ ready[u] <= revision[u]
    BY DEF IInv, TypeOK, BumpedInv
  <2>3. QED
    BY <1>1, <2>1, <2>2
<1> HIDE DEF WorkerStep, WorkerWait, WorkerTake, WorkerReturn, WorkerCompute, WorkerPublish,
             mainVars
<1>6. /\ affected \subseteq Uris /\ todo \subseteq Uris
      /\ main.at \in {"closing", "syntax", "find", "invalidate", "clear"} => main.uri \in Uris
  BY DEF IInv, TypeOK
<1>7. ASSUME NEW u \in Uris, u = main.uri, NoCurrent(u) PROVE NoCurrent(main.uri)'
  BY <1>1, <1>4, <1>7 DEF NoCurrent, Jobs, Holds, FullDiagnosticsReady
<1>8. QED
  BY <1>1, <1>4, <1>5, <1>6, <1>7 DEF BumpedInv

\* What a step invalidates it may queue; what it does not, stays as it was.
LEMMA NextBumped == IInv /\ BumpedInv /\ [Next]_vars => BumpedInv'
<1> SUFFICES ASSUME IInv, BumpedInv, [Next]_vars PROVE BumpedInv'
  OBVIOUS
<1> USE DEF docVars, mainVars, workerVars, envVars
<1>a. /\ affected \subseteq Uris /\ todo \subseteq Uris
      /\ main.at \in {"closing", "syntax", "find", "invalidate", "clear"} => main.uri \in Uris
      /\ revision \in [Uris -> Nat] /\ ready \in [Uris -> Nat] /\ main \in Main
  BY DEF IInv, TypeOK
<1>b. \A u \in Uris : ready[u] <= revision[u]
  BY DEF BumpedInv
<1>k. ASSUME NEW u \in Uris, NoCurrent(u), revision'[u] = revision[u],
             \A j \in pending' : j.uri = u => j \in pending,
             ready'[u] \in {ready[u], 0}, UNCHANGED job,
             worker' \in {"computing", "computed"} => worker' = worker
      PROVE  NoCurrent(u)'
  BY <1>k, NoCurrentKept
<1>1. ASSUME NEW u \in Uris, revision' = [revision EXCEPT ![u] = @ + 1],
             ready' = ready, pending' = pending, worker' = worker, job' = job,
             main'.at = "syntax", main'.uri = u
      PROVE  BumpedInv'
  <2>1. NoCurrent(u)'
    BY <1>a, <1>1, Invalidated
  <2>2. \A v \in Uris : ready'[v] <= revision'[v]
    BY <1>a, <1>b, <1>1
  <2>3. NoCurrent(main.uri)'
    BY <1>1, <2>1 DEF NoCurrent, Jobs, Holds, FullDiagnosticsReady
  <2>4. QED
    BY <1>1, <2>2, <2>3 DEF BumpedInv
<1>2. ASSUME NEW u \in Uris, NEW t, NEW v, DidOpen(u, t, v) \/ DidChange(u, t, v)
      PROVE  BumpedInv'
  BY <1>1, <1>2 DEF DidOpen, DidChange, Receive, Invalidate
<1>3. ASSUME NEW u \in Uris, DidSave(u) PROVE BumpedInv'
  BY <1>1, <1>3 DEF DidSave, Receive, Invalidate
<1>4. ASSUME NEW u \in Uris, DidClose(u) PROVE BumpedInv'
  BY <1>a, <1>b, <1>4 DEF DidClose, BumpedInv
<1>5. CASE EraseDocument
  <2>1. main'.at = "find" /\ main'.op = "close"
    BY <1>a, <1>5 DEF EraseDocument, Goto, Main, IInv, HandlerTargetsOpen
  <2>2. \A v \in Uris : ready'[v] <= revision'[v]
    BY <1>a, <1>b, <1>5 DEF EraseDocument, Invalidate
  <2>3. QED
    BY <2>1, <2>2 DEF BumpedInv
<1>6. CASE PublishSyntax
  <2>1. /\ UNCHANGED <<revision, ready, pending, worker, job>> /\ main.at = "syntax"
        /\ main' \in Main
        /\ \/ main'.at = "find" /\ main'.uri = main.uri
           \/ main'.at = "queue" /\ todo' = {main.uri}
    BY <1>a, <1>6, SMTT(30) DEF PublishSyntax, QueueAll, Goto, Main, IInv, HandlerTargetsOpen
  <2>2. PICK u \in Uris : u = main.uri
    BY <1>a, <2>1
  <2>3. NoCurrent(u)'
    BY <1>k, <2>1, <2>2 DEF BumpedInv
  <2>4. main'.at = "find" => NoCurrent(main.uri)'
    BY <2>1, <2>2, <2>3 DEF NoCurrent, Jobs, Holds, FullDiagnosticsReady
  <2>5. main'.at = "queue" => \A v \in todo' : NoCurrent(v)'
    BY <2>1, <2>2, <2>3
  <2>6. QED
    BY <1>b, <2>1, <2>4, <2>5 DEF BumpedInv
<1>7. CASE FindAffected
  <2> DEFINE found == AffectedOpenDocuments(main.uri)
  <2>1. /\ UNCHANGED <<revision, ready, pending, worker, job>> /\ main.at = "find"
        /\ affected' = IF main.op = "close" THEN found ELSE found \cup {main.uri}
        /\ IF found \ {main.uri} = {}
           THEN IF main.op = "close" THEN main'.at = "clear"
                                     ELSE main'.at \in {"queue", "idle"} /\ todo' = affected'
           ELSE main'.at = "invalidate" /\ todo' = found \ {main.uri}
    BY <1>a, <1>7, Zenon DEF FindAffected, AfterInvalidation, QueueAll, Goto, Main, Idle
  <2>2. found \subseteq OpenUris
    BY DEF AffectedOpenDocuments
  <2>3. main.op = "close" => main.uri \notin found
    BY <2>1, <2>2 DEF IInv, HandlerTargetsOpen, OpenUris
  <2> HIDE DEF found
  <2>4. PICK u \in Uris : u = main.uri
    BY <1>a, <2>1
  <2>5. main.op # "close" => NoCurrent(u)'
    BY <1>k, <2>1, <2>4 DEF BumpedInv
  <2>6. \A v \in affected' \ todo' : main'.at = "invalidate" => NoCurrent(v)'
    BY <2>1, <2>3, <2>4, <2>5
  <2>7. main'.at = "clear" => affected' = {}
    BY <2>1, <2>3
  <2>8. main'.at = "queue" => \A v \in todo' : NoCurrent(v)'
    BY <2>1, <2>3, <2>4, <2>5
  <2>9. QED
    BY <1>b, <2>1, <2>6, <2>7, <2>8 DEF BumpedInv
<1>8. CASE InvalidateAffected
  <2>1. PICK u \in todo :
          /\ main.at = "invalidate" /\ revision' = [revision EXCEPT ![u] = @ + 1]
          /\ UNCHANGED <<affected, ready, pending, worker, job>>
          /\ IF todo = {u}
             THEN main'.at = "clear" \/ (main'.at \in {"queue", "idle"} /\ todo' = affected)
             ELSE todo' = todo \ {u} /\ main' = main
    <3>1. PICK u \in Firsts(todo) :
            /\ Invalidate(u)
            /\ IF todo = {u} THEN AfterInvalidation(affected)
                             ELSE todo' = todo \ {u} /\ main' = main
      BY ONLY <1>8 DEF InvalidateAffected
    <3>2. u \in todo /\ revision' = [revision EXCEPT ![u] = revision[u] + 1]
      BY <3>1 DEF Firsts, Invalidate
    <3>3. AfterInvalidation(affected) =>
            main'.at = "clear" \/ (main'.at \in {"queue", "idle"} /\ todo' = affected)
      BY <1>a DEF AfterInvalidation, QueueAll, Goto, Main, Idle
    <3>4. main.at = "invalidate" /\ UNCHANGED <<affected, ready, pending, worker, job>>
      BY ONLY <1>8 DEF InvalidateAffected, workerVars
    <3>5. QED
      BY ONLY <3>1, <3>2, <3>3, <3>4
  <2>2. u \in Uris /\ NoCurrent(u)'
    BY <1>a, <2>1, Invalidated
  <2>3. ASSUME NEW v \in affected \ todo, v # u PROVE NoCurrent(v)'
    <3>1. v \in Uris /\ NoCurrent(v) /\ revision'[v] = revision[v]
      BY <1>a, <2>1, <2>3 DEF BumpedInv
    <3>2. QED
      BY <1>k, <2>1, <3>1
  <2>4. \A v \in Uris : ready'[v] <= revision'[v]
    BY <1>a, <1>b, <2>1
  <2>5. \A v \in affected' \ (todo \ {u}) : NoCurrent(v)'
    BY <2>1, <2>2, <2>3
  <2>6. todo = {u} => todo \ {u} = {}
    OBVIOUS
  <2>7. QED
    BY <2>1, <2>4, <2>5, <2>6 DEF BumpedInv
<1>9. CASE PublishCleared
  <2>1. /\ UNCHANGED <<revision, ready, pending, worker, job>> /\ main.at = "clear"
        /\ main'.at \in {"queue", "idle"} /\ todo' = affected
    BY <1>a, <1>9 DEF PublishCleared, QueueAll, Main, Idle
  <2>2. \A v \in affected : NoCurrent(v)'
    BY <1>a, <1>k, <2>1 DEF BumpedInv
  <2>3. QED
    BY <1>b, <2>1, <2>2 DEF BumpedInv
<1>10. CASE QueueNext
  <2>1. PICK u \in todo :
          /\ main.at = "queue" /\ UNCHANGED <<revision, ready, job>>
          /\ \A j \in pending' : j.uri # u => j \in pending
          /\ main'.at \in {"queue", "idle"} /\ todo' = todo \ {u}
          /\ worker' \in {"computing", "computed"} => worker' = worker
    BY <1>a, <1>10 DEF QueueNext, Firsts, InsertOrAssign, QueueAll, NotifyWorker, Main, Idle
  <2>2. \A v \in todo' : NoCurrent(v)'
    BY <1>a, <1>k, <2>1 DEF BumpedInv
  <2>3. QED
    BY <1>b, <2>1, <2>2 DEF BumpedInv
<1>11. CASE DidChangeWatchedFiles \/ DidChangeWorkspaceFolders
  <2>1. /\ revision' = [u \in Uris |-> IF IsOpen(u) THEN revision[u] + 1 ELSE revision[u]]
        /\ ready' = [u \in Uris |-> 0] /\ UNCHANGED <<pending, worker, job>>
        /\ main'.at \in {"queue", "idle"} /\ todo' = OpenUris
    BY <1>a, <1>11 DEF DidChangeWatchedFiles, DidChangeWorkspaceFolders, InvalidateAllOpen,
                       QueueAll, Main, Idle
  <2>2. ASSUME NEW u \in OpenUris PROVE NoCurrent(u)'
    <3>1. u \in Uris /\ revision'[u] = revision[u] + 1 /\ ready'[u] = 0
      BY <2>1, <2>2 DEF OpenUris
    <3>2. QED
      BY <2>1, <3>1, Invalidated
  <2>3. \A v \in Uris : ready'[v] <= revision'[v]
    BY <1>a, <2>1
  <2>4. QED
    BY <2>1, <2>2, <2>3 DEF BumpedInv
<1>12. CASE Exit \/ Join
  BY <1>a, <1>b, <1>12 DEF Exit, Join, Goto, Main, BumpedInv
<1>13. ASSUME NEW u \in Uris, NEW t, DiskWrite(u, t) PROVE BumpedInv'
  <2>1. UNCHANGED <<revision, ready, pending, worker, job, main, affected, todo>>
    BY <1>13 DEF DiskWrite
  <2>2. QED
    BY <2>1 DEF BumpedInv, NoCurrent, Jobs, Holds, FullDiagnosticsReady
<1>14. CASE Terminated \/ UNCHANGED vars
  <2>1. UNCHANGED <<revision, ready, pending, worker, job, main, affected, todo>>
    BY <1>14 DEF Terminated, vars
  <2>2. QED
    BY <2>1 DEF BumpedInv, NoCurrent, Jobs, Holds, FullDiagnosticsReady
<1>15. CASE WorkerStep
  BY <1>15, WorkerKeepsBumped
<1> HIDE DEF docVars, mainVars, workerVars, envVars
<1>16. QED
  BY <1>2, <1>3, <1>4, <1>5, <1>6, <1>7, <1>8, <1>9, <1>10, <1>11, <1>12, <1>13, <1>14,
     <1>15 DEF Next, Handler, MainStep, Environment

\* A document that loads the changed file is found.
LEMMA FoundIfLoaded ==
    ASSUME FilesExist, ImportsAreAcyclic, Possible, NEW w \in Uris, NEW u \in OpenUris,
           w \in Closure(CurrentSources, {u})
    PROVE  u \in AffectedOpenDocuments(w)
<1>1. CurrentSources \in [Uris -> Texts]
      /\ \A v \in Uris : CurrentSources[v] \in TextsOf[v] \cup FilesOf[v]
  BY SourcesExist
<1>2. CurrentSources \in Overlay
  BY <1>1 DEF Overlay, MaybeText
<1>3. u \in Uris /\ ~HasCycle(CurrentSources, u)
  BY <1>1, <1>2 DEF ImportsAreAcyclic, OpenUris
<1>4. CurrentSources[w] # NoText
  BY <1>1
<1>5. QED
  BY <1>3, <1>4 DEF AffectedOpenDocuments

\* The worker's jobs make reports fresh.
LEMMA WorkerKeepsFresh == IInv /\ FreshInv /\ BumpedInv /\ WorkerStep => FreshInv'
<1> SUFFICES ASSUME IInv, FreshInv, BumpedInv, WorkerStep, NEW u \in Uris, IsOpen(u)'
             PROVE  Awaited(u)' \/ Covered(u)'
  BY DEF FreshInv, OpenUris
<1> USE DEF WorkerStep, WorkerWait, WorkerTake, WorkerReturn, WorkerCompute, WorkerPublish
<1>1. UNCHANGED <<docText, docVersion, revision, main, affected, todo, disk, unnoticed>>
  BY DEF docVars, mainVars, envVars
<1> HIDE DEF WorkerStep, WorkerWait, WorkerTake, WorkerReturn, WorkerCompute, WorkerPublish
<1>2. CurrentSources' = CurrentSources /\ u \in OpenUris
  BY <1>1 DEF CurrentSources, OpenUris, IsOpen
<1>3. CASE Awaited(u)
  BY <1>1, <1>2, <1>3 DEF Awaited
<1>4. CASE Covered(u)
  <2> DEFINE Src == SourcesOf(CurrentSources, u)
  <2>1. Src' = Src /\ \A j : DiagnosticsForSnapshot(j)' = DiagnosticsForSnapshot(j)
    BY <1>1, <1>2 DEF DiagnosticsForSnapshot
  <2>2. ASSUME UNCHANGED <<pending, shown, ready, job>>,
               {worker, worker'} \cap {"computing", "computed"} = {}
        PROVE  Covered(u)'
    BY <1>1, <1>2, <1>4, <2>2, CoveredKept
  <2>3. CASE WorkerWait \/ WorkerReturn
    BY <2>2, <2>3 DEF WorkerWait, WorkerReturn
  <2>4. CASE WorkerTake
    <3>1. PICK j \in pending : job' = j /\ pending' = pending \ {j}
      BY <2>4 DEF WorkerTake
    <3>2. worker = "check" /\ worker' = "computing" /\ UNCHANGED <<shown, ready>>
      BY <2>4 DEF WorkerTake
    <3>3. Jobs(u)' \subseteq Jobs(u) /\ (Jobs(u) # {} => Jobs(u)' # {} \/ Holds(u)')
      BY <1>1, <3>1, <3>2 DEF Jobs, Holds
    <3>4. Holds(u)' => job' \in Jobs(u)
      BY <1>1, <3>1, <3>2 DEF Jobs, Holds
    <3>5. ~Holds(u)
      BY <3>2 DEF Holds
    <3>6. (Fresh(u)' <=> Fresh(u)) /\ (FullDiagnosticsReady(u)' <=> FullDiagnosticsReady(u))
      BY <1>1, <2>1, <3>2 DEF Fresh, FullDiagnosticsReady
    <3>7. Holds(u)' => DiagnosticsForSnapshot(job') = Src
      BY <1>4, <3>4 DEF Covered
    <3>8. DiagnosticsForSnapshot(job)' = DiagnosticsForSnapshot(job')
      BY <1>1 DEF DiagnosticsForSnapshot
    <3>9. QED
      BY <1>4, <2>1, <3>2, <3>3, <3>5, <3>6, <3>7, <3>8 DEF Covered
  <2>5. CASE WorkerCompute
    <3>1. /\ worker = "computing" /\ worker' = "computed" /\ UNCHANGED <<pending, shown, ready>>
          /\ job' = [job EXCEPT !.overlay = DiagnosticsForSnapshot(job)]
      BY <2>5 DEF WorkerCompute
    <3>2. /\ job'.uri = job.uri /\ job'.revision = job.revision
          /\ job'.overlay = DiagnosticsForSnapshot(job)
      BY <3>1 DEF IInv, TypeOK, Job
    <3>3. Jobs(u)' = Jobs(u) /\ (Holds(u)' <=> Holds(u))
      BY <1>1, <3>1, <3>2 DEF Jobs, Holds
    <3>4. (Fresh(u)' <=> Fresh(u)) /\ (FullDiagnosticsReady(u)' <=> FullDiagnosticsReady(u))
      BY <1>1, <2>1, <3>1 DEF Fresh, FullDiagnosticsReady
    <3>5. QED
      BY <1>4, <2>1, <3>1, <3>2, <3>3, <3>4 DEF Covered
  <2>6. CASE WorkerPublish
    <3>1. /\ worker = "computed" /\ worker' = "check" /\ pending' = pending
          /\ IF JobIsCurrent
             THEN /\ ready' = [ready EXCEPT ![job.uri] = job.revision]
                  /\ shown' = [shown EXCEPT ![job.uri] =
                                  [kind |-> "full", version |-> job.version,
                                   sources |-> job.overlay]]
             ELSE UNCHANGED <<ready, shown>>
      BY <2>6 DEF WorkerPublish
    <3>2. Jobs(u)' = Jobs(u) /\ ~Holds(u)'
      BY <1>1, <3>1 DEF Jobs, Holds
    <3>3. CASE Holds(u)
      <4>1. JobIsCurrent /\ job.uri = u
        BY <3>3 DEF Holds, JobIsCurrent
      <4>2. job.overlay = Src /\ job.version = docVersion[u]
        BY <1>4, <3>1, <3>3, <4>1 DEF Covered, IInv, JobsMatch, JobMatches, JobIsCurrent
      <4>3. shown'[u] = [kind |-> "full", version |-> job.version, sources |-> job.overlay]
        BY <3>1, <4>1 DEF IInv, TypeOK
      <4>4. Fresh(u)'
        BY <1>1, <2>1, <4>2, <4>3 DEF Fresh
      <4>5. QED
        BY <1>4, <2>1, <3>2, <4>4 DEF Covered
    <3>4. CASE ~Holds(u)
      <4>1. shown'[u] = shown[u] /\ ready'[u] = ready[u]
        BY <1>1, <3>1, <3>4 DEF Holds, JobIsCurrent, IInv, TypeOK
      <4>2. (Fresh(u)' <=> Fresh(u)) /\ (FullDiagnosticsReady(u)' <=> FullDiagnosticsReady(u))
        BY <1>1, <2>1, <4>1 DEF Fresh, FullDiagnosticsReady
      <4>3. QED
        BY <1>4, <2>1, <3>2, <3>4, <4>2 DEF Covered
    <3>5. QED
      BY <3>3, <3>4
  <2>7. QED
    BY <2>3, <2>4, <2>5, <2>6 DEF WorkerStep
<1>5. QED
  BY <1>2, <1>3, <1>4 DEF FreshInv

\* What is invalidated is also queued.
TodoInv == main.at = "invalidate" => todo \subseteq affected

\* Every step keeps it so.
LEMMA NextTodo == IInv /\ TodoInv /\ [Next]_vars => TodoInv'
<1> SUFFICES ASSUME IInv, TodoInv, [Next]_vars, main'.at = "invalidate"
             PROVE  todo' \subseteq affected'
  BY DEF TodoInv
<1>1. main \in Main
  BY DEF IInv, TypeOK
<1>2. CASE FindAffected
  BY <1>1, <1>2 DEF FindAffected, AfterInvalidation, QueueAll, Goto, Main, Idle
<1>3. CASE InvalidateAffected
  <2>1. main.at = "invalidate" /\ affected' = affected /\ todo' \subseteq todo
    BY <1>1, <1>3 DEF InvalidateAffected, AfterInvalidation, QueueAll, Goto, Main, Idle
  <2>2. QED
    BY <2>1 DEF TodoInv
<1>4. ASSUME UNCHANGED <<main, affected, todo>> PROVE todo' \subseteq affected'
  BY <1>4 DEF TodoInv
<1>5. CASE WorkerStep \/ Environment \/ Terminated \/ UNCHANGED vars
  BY <1>4, <1>5 DEF WorkerStep, WorkerWait, WorkerTake, WorkerReturn, WorkerCompute,
       WorkerPublish, Environment, DiskWrite, Terminated, mainVars, vars
<1>6. CASE \/ EraseDocument \/ PublishSyntax \/ PublishCleared \/ QueueNext \/ Join \/ Exit
           \/ DidChangeWatchedFiles \/ DidChangeWorkspaceFolders
  BY <1>1, <1>6 DEF EraseDocument, PublishSyntax, PublishCleared, QueueNext, Join, Exit,
       DidChangeWatchedFiles, DidChangeWorkspaceFolders, InvalidateAllOpen, QueueAll, Goto,
       Main, Idle
<1>7. ASSUME NEW u, NEW t, NEW v,
             DidOpen(u, t, v) \/ DidChange(u, t, v) \/ DidSave(u) \/ DidClose(u)
      PROVE  FALSE
  BY <1>7 DEF DidOpen, DidChange, DidSave, DidClose, Receive
<1>8. QED
  BY <1>2, <1>3, <1>5, <1>6, <1>7 DEF Next, Handler, MainStep

\* A queued job is of the documents as they are, and the only one that will be
\* published for its document.
LEMMA QueueKeepsFresh == IInv /\ FreshInv /\ BumpedInv /\ QueueNext => FreshInv'
<1> SUFFICES ASSUME IInv, FreshInv, BumpedInv, QueueNext, NEW u \in Uris, IsOpen(u)'
             PROVE  Awaited(u)' \/ Covered(u)'
  BY DEF FreshInv, OpenUris
<1> DEFINE New(w) == [uri |-> w, version |-> docVersion[w], overlay |-> docText,
                      revision |-> revision[w]]
<1>1. PICK w \in Firsts(todo) : InsertOrAssign(New(w)) /\ QueueAll(todo \ {w})
  BY DEF QueueNext
<1>2. w \in todo /\ w \in Uris
  BY <1>1 DEF Firsts, IInv, TypeOK
<1>3. /\ pending' = {j \in pending : j.uri # w} \cup {New(w)}
      /\ todo' = todo \ {w}
      /\ main' = IF todo \ {w} = {} THEN Idle ELSE [main EXCEPT !.at = "queue"]
  BY <1>1 DEF InsertOrAssign, QueueAll
<1>4. /\ main.at = "queue"
      /\ UNCHANGED <<docText, docVersion, revision, ready, affected, job, disk, unnoticed,
                     shown>>
      /\ worker' = worker \/ {worker, worker'} \cap {"computing", "computed"} = {}
  BY DEF QueueNext, NotifyWorker, docVars, envVars
<1>5. CurrentSources' = CurrentSources /\ u \in OpenUris
  BY <1>4 DEF CurrentSources, OpenUris, IsOpen
<1>6. CASE u = w
  <2>1. NoCurrent(u)
    BY <1>2, <1>4, <1>6 DEF BumpedInv
  <2>2. Jobs(u)' = {New(w)}
    BY <1>3, <1>4, <1>6 DEF Jobs
  <2>3. ASSUME NEW j \in Jobs(u)'
        PROVE  DiagnosticsForSnapshot(j)' = SourcesOf(CurrentSources, u)'
    <3>1. j.uri = u /\ j.overlay = docText
      BY <1>6, <2>2
    <3>2. QED
      BY <1>4, <3>1 DEF DiagnosticsForSnapshot, CurrentSources
  <2>4. ~Holds(u)' /\ ~FullDiagnosticsReady(u)'
    BY <1>4, <2>1 DEF NoCurrent, Holds, FullDiagnosticsReady
  <2> HIDE DEF New
  <2>5. QED
    BY <2>2, <2>3, <2>4 DEF Covered
<1>7. CASE u # w /\ Covered(u)
  <2>1. {j \in pending' : j.uri = u} = {j \in pending : j.uri = u}
    BY <1>3, <1>7
  <2>2. QED
    BY <1>4, <1>5, <1>7, <2>1, CoveredKept
<1>8. CASE u # w /\ Awaited(u)
  <2>1. unnoticed \/ u \in todo
    BY <1>4, <1>8 DEF Awaited
  <2>2. u \in todo => main'.at = "queue" /\ u \in todo'
    BY <1>3, <1>8 DEF IInv, TypeOK, Main
  <2>3. QED
    BY <1>4, <2>1, <2>2 DEF Awaited
<1>9. QED
  BY <1>5, <1>6, <1>7, <1>8 DEF FreshInv

\* Every step leaves each open document's report awaited or covered.
LEMMA NextFresh ==
    FilesExist /\ ImportsAreAcyclic /\ IInv /\ Possible /\ TodoInv /\ BumpedInv /\ FreshInv
       /\ [Next]_vars => FreshInv'
<1> SUFFICES ASSUME FilesExist, ImportsAreAcyclic, IInv, Possible, TodoInv, BumpedInv,
                    FreshInv, [Next]_vars
             PROVE  FreshInv'
  OBVIOUS
<1>a. TypeOK /\ main \in Main /\ HandlerTargetsOpen /\ Possible'
  BY NextPossible DEF IInv, TypeOK
<1> USE DEF docVars, mainVars, workerVars, envVars
<1>1. ASSUME NEW u \in Uris, NEW t, NEW v, DidOpen(u, t, v) \/ DidChange(u, t, v)
      PROVE  FreshInv'
  <2>1. /\ \A x \in Uris \ {u} : docText'[x] = docText[x] /\ docVersion'[x] = docVersion[x]
                                 /\ revision'[x] = revision[x]
        /\ UNCHANGED <<ready, pending, workerVars, disk, unnoticed, shown>>
    BY <1>a, <1>1 DEF DidOpen, DidChange, Invalidate, TypeOK
  <2>2. main.at = "idle" /\ main'.at = "syntax" /\ main'.op # "save" /\ main'.uri = u
    BY <1>1 DEF DidOpen, DidChange, Receive
  <2>3. QED
    BY <1>a, <2>1, <2>2, TextChanged
<1>2. ASSUME NEW u \in Uris, DidSave(u) PROVE FreshInv'
  <2>1. /\ main.at = "idle" /\ main'.at = "syntax" /\ main'.op = "save" /\ main'.uri = u
        /\ \A v \in Uris : v # u => revision'[v] = revision[v]
        /\ UNCHANGED <<docVars, ready, pending, workerVars, disk, unnoticed, shown>>
    BY <1>a, <1>2 DEF DidSave, Receive, Invalidate, TypeOK
  <2>2. \A v \in OpenUris : Awaited(v) => Awaited(v)'
    BY <2>1 DEF Awaited
  <2>3. \A v \in OpenUris : v = u => Awaited(v)'
    BY <2>1 DEF Awaited
  <2>4. QED
    BY <2>1, <2>2, <2>3, OthersCovered DEF OpenUris
<1>3. ASSUME NEW u \in Uris, DidClose(u) PROVE FreshInv'
  <2>1. /\ main.at = "idle" /\ main'.at = "closing" /\ main'.uri = u
        /\ pending' = {j \in pending : j.uri # u} /\ ready' = [ready EXCEPT ![u] = 0]
        /\ UNCHANGED <<docVars, revision, workerVars, disk, unnoticed, shown>>
    BY <1>3 DEF DidClose
  <2>2. \A v \in OpenUris : Awaited(v) => Awaited(v)'
    BY <2>1 DEF Awaited
  <2>3. \A v \in OpenUris : v = u => Awaited(v)'
    BY <2>1 DEF Awaited
  <2>4. \A v \in Uris : v # u => {j \in pending' : j.uri = v} = {j \in pending : j.uri = v}
                                 /\ ready'[v] = ready[v]
    BY <1>a, <2>1 DEF TypeOK
  <2>5. QED
    BY <2>1, <2>2, <2>3, <2>4, OthersCovered DEF OpenUris
<1>4. CASE EraseDocument
  <2>1. PICK u \in Uris : u = main.uri
    BY <1>a, <1>4 DEF EraseDocument, TypeOK
  <2>2. /\ \A x \in Uris \ {u} : docText'[x] = docText[x] /\ docVersion'[x] = docVersion[x]
                                 /\ revision'[x] = revision[x]
        /\ UNCHANGED <<ready, pending, workerVars, disk, unnoticed, shown>>
    BY <1>a, <1>4, <2>1 DEF EraseDocument, Invalidate, TypeOK
  <2>3. main.at = "closing" /\ main'.at = "find" /\ main'.uri = u /\ main.uri = u
    BY <1>a, <1>4, <2>1 DEF EraseDocument, Goto, Main
  <2>4. QED
    BY <1>a, <2>2, <2>3, TextChanged
<1>5. CASE PublishSyntax
  <2>1. /\ main.at = "syntax" /\ main.uri \in Uris
        /\ \A v \in Uris : v # main.uri => shown'[v] = shown[v]
        /\ UNCHANGED <<docVars, revision, ready, pending, workerVars, disk, unnoticed>>
        /\ IF main.op = "save" THEN main'.at = "queue" /\ todo' = {main.uri}
                               ELSE main'.at = "find" /\ main'.uri = main.uri
    BY <1>a, <1>5 DEF PublishSyntax, QueueAll, Goto, Main, HandlerTargetsOpen, TypeOK
  <2>2. CurrentSources' = CurrentSources
    BY <2>1 DEF CurrentSources
  <2>3. \A v \in OpenUris : Awaited(v) => Awaited(v)'
    BY <2>1, <2>2 DEF Awaited
  <2>4. \A v \in OpenUris : v = main.uri => Awaited(v)'
    BY <2>1, <2>2, OwnClosure DEF Awaited
  <2>5. QED
    BY <2>1, <2>3, <2>4, OthersCovered DEF OpenUris
<1>6. CASE FindAffected
  <2> DEFINE found == AffectedOpenDocuments(main.uri)
  <2>1. /\ UNCHANGED <<docVars, revision, ready, pending, workerVars, disk, unnoticed, shown>>
        /\ main.at = "find" /\ main.uri \in Uris
        /\ affected' = IF main.op = "close" THEN found ELSE found \cup {main.uri}
        /\ IF found \ {main.uri} = {} THEN AfterInvalidation(affected')
                                      ELSE main'.at = "invalidate"
    BY <1>a, <1>6 DEF FindAffected, Goto, Main, TypeOK
  <2>2. ASSUME NEW v \in OpenUris, Awaited(v) PROVE Awaited(v)'
    <3>1. unnoticed \/ v \in found
      BY <2>1, <2>2, FoundIfLoaded DEF Awaited
    <3> HIDE DEF found
    <3>2. CASE v \in found
      <4>1. v \in affected'
        BY <2>1, <3>2
      <4>2. AfterInvalidation(affected') =>
              main'.at = "clear" \/ (main'.at = "queue" /\ v \in todo')
        BY <1>a, <4>1 DEF AfterInvalidation, QueueAll, Goto, Main
      <4>3. QED
        BY <2>1, <4>1, <4>2 DEF Awaited
    <3>3. QED
      BY <2>1, <3>1, <3>2 DEF Awaited
  <2>3. QED
    BY <2>1, <2>2, OthersCovered DEF OpenUris
<1>7. CASE InvalidateAffected
  <2>1. PICK u \in todo :
          /\ main.at = "invalidate" /\ revision' = [revision EXCEPT ![u] = @ + 1]
          /\ UNCHANGED <<docVars, affected, ready, pending, workerVars, disk, unnoticed, shown>>
          /\ \/ main'.at \in {"invalidate", "clear"}
             \/ main'.at = "queue" /\ todo' = affected
             \/ affected = {}
    <3>1. PICK u \in Firsts(todo) :
            /\ Invalidate(u)
            /\ IF todo = {u} THEN AfterInvalidation(affected)
                             ELSE todo' = todo \ {u} /\ main' = main
      BY ONLY <1>7 DEF InvalidateAffected
    <3>2. u \in todo /\ revision' = [revision EXCEPT ![u] = revision[u] + 1]
      BY <3>1 DEF Firsts, Invalidate
    <3>3. AfterInvalidation(affected) =>
            main'.at = "clear" \/ (main'.at = "queue" /\ todo' = affected) \/ affected = {}
      BY <1>a DEF AfterInvalidation, QueueAll, Goto, Main
    <3>4. /\ main.at = "invalidate"
          /\ UNCHANGED <<docVars, affected, ready, pending, workerVars, disk, unnoticed, shown>>
      BY ONLY <1>7 DEF InvalidateAffected, workerVars, envVars
    <3>5. QED
      BY ONLY <3>1, <3>2, <3>3, <3>4
  <2>2. u \in affected
    BY <2>1 DEF TodoInv
  <2>3. \A v \in OpenUris : Awaited(v) => Awaited(v)'
    BY <2>1 DEF Awaited
  <2>4. \A v \in OpenUris : v = u => Awaited(v)'
    BY <2>1, <2>2 DEF Awaited
  <2>5. \A v \in Uris : v # u => revision'[v] = revision[v]
    BY <1>a, <2>1 DEF TypeOK
  <2>6. QED
    BY <2>1, <2>3, <2>4, <2>5, OthersCovered DEF OpenUris
<1>8. CASE PublishCleared
  <2>1. /\ main.at = "clear" /\ ~IsOpen(main.uri)
        /\ \A v \in Uris : v # main.uri => shown'[v] = shown[v]
        /\ UNCHANGED <<docVars, revision, ready, pending, workerVars, disk, unnoticed>>
        /\ affected = {} \/ (main'.at = "queue" /\ todo' = affected)
    BY <1>a, <1>8 DEF PublishCleared, QueueAll, Main, HandlerTargetsOpen, TypeOK
  <2>2. \A v \in OpenUris : Awaited(v) => Awaited(v)'
    BY <2>1 DEF Awaited
  <2>3. QED
    BY <2>1, <2>2, OthersCovered DEF OpenUris
<1>9. CASE QueueNext
  BY <1>9, QueueKeepsFresh
<1>10. CASE DidChangeWatchedFiles \/ DidChangeWorkspaceFolders
  <2>1. docText' = docText /\ (OpenUris # {} => main'.at = "queue" /\ todo' = OpenUris)
    BY <1>a, <1>10 DEF DidChangeWatchedFiles, DidChangeWorkspaceFolders, InvalidateAllOpen,
                       QueueAll, Main
  <2>2. QED
    BY <2>1 DEF FreshInv, OpenUris, IsOpen, Awaited
<1>11. CASE Exit \/ Join
  <2>1. /\ UNCHANGED <<docVars, revision, ready, pending, job, disk, unnoticed, shown>>
        /\ worker' = worker \/ {worker, worker'} \cap {"computing", "computed"} = {}
        /\ main.at \in {"idle", "join"}
    BY <1>11 DEF Exit, Join, NotifyWorker
  <2>2. \A v \in OpenUris : Awaited(v) => Awaited(v)'
    BY <2>1 DEF Awaited
  <2>3. QED
    BY <2>1, <2>2, OthersCovered
<1>12. ASSUME NEW u \in Uris, NEW t, DiskWrite(u, t) PROVE FreshInv'
  BY <1>12 DEF DiskWrite, FreshInv, Awaited
<1>13. CASE Terminated \/ UNCHANGED vars
  <2>1. UNCHANGED vars
    BY <1>13 DEF Terminated
  <2>2. /\ UNCHANGED <<docVars, revision, ready, pending, job, worker, disk, unnoticed, shown>>
        /\ UNCHANGED <<main, affected, todo>>
    BY <2>1 DEF vars
  <2>3. \A v \in OpenUris : Awaited(v) => Awaited(v)'
    BY <2>2 DEF Awaited, CurrentSources
  <2>4. QED
    BY <2>2, <2>3, OthersCovered
<1>14. CASE WorkerStep
  BY <1>14, WorkerKeepsFresh
<1> HIDE DEF docVars, mainVars, workerVars, envVars
<1>15. QED
  BY <1>1, <1>2, <1>3, <1>4, <1>5, <1>6, <1>7, <1>8, <1>9, <1>10, <1>11, <1>12, <1>13,
     <1>14 DEF Next, Handler, MainStep, Environment

\* At startup nothing is open.
LEMMA InitFresh == Init => Possible /\ TodoInv /\ BumpedInv /\ FreshInv
<1> SUFFICES ASSUME Init PROVE Possible /\ TodoInv /\ BumpedInv /\ FreshInv
  OBVIOUS
<1>1. main.at = "idle" /\ OpenUris = {}
  BY DEF Init, Idle, OpenUris, IsOpen
<1>2. \A u \in Uris : ready[u] = 0 /\ revision[u] = 0
  BY DEF Init
<1>3. Possible
  BY DEF Init, Possible
<1>4. TodoInv /\ BumpedInv /\ FreshInv
  BY <1>1, <1>2 DEF TodoInv, BumpedInv, FreshInv
<1>5. QED
  BY <1>3, <1>4

\* Where every module is a file and no text makes the imports circular, every
\* open document's report is fresh or on its way.
THEOREM FreshInvariance ==
    ASSUME FilesExist, ImportsAreAcyclic
    PROVE  Spec => [](BumpedInv /\ FreshInv)
<1> DEFINE Inv == Possible /\ TodoInv /\ BumpedInv /\ FreshInv
<1>2. Init => Inv
  BY InitFresh
<1>3. IInv /\ Inv /\ [Next]_vars => Inv'
  BY NextPossible, NextTodo, NextBumped, NextFresh DEF IInv
<1>4. Inv => BumpedInv /\ FreshInv
  OBVIOUS
<1> HIDE DEF Inv
<1>5. QED
  BY <1>2, <1>3, <1>4, Invariance, PTL DEF Spec

\* SettledFresh, of queue_full_diagnostics and what precedes it in each handler:
\* once nothing is left to do every open document shows its full report of the
\* sources as they are.
THEOREM SettledFreshHolds ==
    ASSUME FilesExist, ImportsAreAcyclic
    PROVE  Spec => []SettledFresh
<1>1. FreshInv => SettledFresh
  <2> SUFFICES ASSUME FreshInv, Quiescent, NEW u \in OpenUris PROVE Fresh(u)
    BY DEF SettledFresh
  <2>1. ~Awaited(u) /\ Jobs(u) = {} /\ ~Holds(u)
    BY DEF Quiescent, Awaited, Jobs, Holds
  <2>2. QED
    BY <2>1 DEF FreshInv, Covered
<1>2. QED
  BY <1>1, FreshInvariance, PTL

\* ReadyIsFresh, of full_diagnostics_ready: what a semantic token request is
\* answered from is about the sources as they are.
THEOREM ReadyIsFreshHolds ==
    ASSUME FilesExist, ImportsAreAcyclic
    PROVE  Spec => []ReadyIsFresh
<1>1. FreshInv => ReadyIsFresh
  BY DEF FreshInv, Awaited, Covered, ReadyIsFresh
<1>2. QED
  BY <1>1, FreshInvariance, PTL

=============================================================================
