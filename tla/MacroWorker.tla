----------------------------- MODULE MacroWorker -----------------------------
(***************************************************************************)
(* The compiler's side and the worker's side of macro expansion.           *)
(*                                                                         *)
(* A macro package is compiled into a worker binary.  The first call that  *)
(* needs the package launches the binary, says Hello, asks it to Describe  *)
(* itself and keeps it as the package's session; later calls send it one   *)
(* Expand request each over a pipe.  A rebuilt package has a binary of     *)
(* another identity, and the next call replaces the session.  Any thread   *)
(* of the compiler or of the language server may call; one mutex is held   *)
(* for the whole call, over every package.                                 *)
(*                                                                         *)
(* Workers crash, hang, and answer nonsense.  Processes are numbered in    *)
(* the order of their birth; 0 is no process.                              *)
(***************************************************************************)
EXTENDS Naturals, Sequences

CONSTANTS
  Threads,      \* the threads that expand macros
  Packages,     \* the macro packages: the keys of the session table
  Binaries,     \* the worker binaries, old builds included
  PackageOf,    \* the package a binary was built from
  None,
  MaxEvents     \* bound on the calls of all threads and the faults together

ASSUME PackageOfAssumption == PackageOf \in [Binaries -> Packages]
ASSUME MaxEventsAssumption == MaxEvents \in Nat
ASSUME NoneAssumption == None \notin Threads \cup Binaries

VARIABLES
  compiler, \* "running", "exiting" (static destructors), "exited", and dead
            \* of "SIGPIPE" or of "SIGKILL"
  wants,    \* per thread, its call in progress [binary, number], or None
  answer,   \* per thread, how its last call ended
  blamed,   \* per thread: something went wrong during its own exchange
  holder,   \* the thread that holds WorkerSessions::mutex_
  at,       \* what the holder, or the exiting process, does next
  kind,     \* the request it sends or waits for
  peer,     \* the worker it talks to
  victim,   \* the worker it stops
  session,  \* per package, [identity, process]
  process,  \* per number, the worker's state, image, pipes and request ids
  events    \* calls and faults so far: a bound, and the number of each call

callerVars == <<wants, answer, blamed>>
holderVars == <<holder, at, kind, peer, victim>>
vars == <<compiler, callerVars, holderVars, session, process, events>>

Numbers == 1..MaxEvents \* a call launches at most one worker
Dead == {"SIGPIPE", "SIGKILL"}
Kinds == {"Hello", "Describe", "Expand"}

NoSession == [identity |-> None, process |-> 0]
Unborn == [state |-> "unborn", image |-> None, inbox |-> <<>>,
           outbox |-> <<>>, nextId |-> 1]
NoAnswer == [outcome |-> "none"]
Failed == [outcome |-> "failed"]
Expanded(image, call) ==
  [outcome |-> "expanded", image |-> image, call |-> call]

\* What the process table says: child_pid_ >= 0 until waitpid has returned.
Alive(w) == process[w].state \in {"reading", "busy", "hung"}
Running(w) == w # 0 /\ (Alive(w) \/ process[w].state = "dead")

Init ==
  /\ compiler = "running"
  /\ wants = [t \in Threads |-> None]
  /\ answer = [t \in Threads |-> NoAnswer]
  /\ blamed = [t \in Threads |-> FALSE]
  /\ holder = None /\ at = "idle" /\ kind = "Hello" /\ peer = 0 /\ victim = 0
  /\ session = [p \in Packages |-> NoSession]
  /\ process = [w \in Numbers |-> Unborn]
  /\ events = 0

\* Something goes wrong in worker w; it is the holder's if it talks to w.
Fault(w) ==
  /\ events < MaxEvents
  /\ events' = events + 1
  /\ blamed' = [t \in Threads |-> blamed[t] \/ (t = holder /\ w = peer)]

-----------------------------------------------------------------------------
(* Calling, and choosing a worker.                                         *)

\* expand_module_macros has missed the expansion cache.
Call(t, b) ==
  /\ compiler = "running" /\ wants[t] = None /\ events < MaxEvents
  /\ events' = events + 1
  /\ wants' = [wants EXCEPT ![t] = [binary |-> b, number |-> events + 1]]
  /\ answer' = [answer EXCEPT ![t] = NoAnswer]
  /\ blamed' = [blamed EXCEPT ![t] = FALSE]
  /\ UNCHANGED <<compiler, holderVars, session, process>>

\* (Mutants: each forgets one of the two conditions.)
UsableEvenRetired(b) == session[PackageOf[b]].identity = b
UsableOfAnyBuild(b) == Running(session[PackageOf[b]].process)

\* The session's worker is of the build asked for, and has not been retired.
Usable(b) ==
  LET s == session[PackageOf[b]]
  IN s.identity = b /\ Running(s.process)

Lock(t) ==
  /\ compiler = "running" /\ holder = None /\ wants[t] # None
  /\ holder' = t /\ at' = "send"
  /\ UNCHANGED <<compiler, wants, answer, victim, session>>

\* A running session of the right identity is asked to expand.
Reuse(t) ==
  /\ Lock(t)
  /\ Usable(wants[t].binary)
  /\ kind' = "Expand" /\ peer' = session[PackageOf[wants[t].binary]].process
  /\ UNCHANGED <<blamed, process, events>>

\* Otherwise a worker is forked.  What the executable's path then names may
\* have been replaced, which only its catalog will tell.
Launch(t) ==
  /\ Lock(t)
  /\ ~Usable(wants[t].binary)
  /\ \E w \in Numbers, image \in Binaries :
       /\ process[w].state = "unborn"
       /\ \A v \in 1..(w - 1) : process[v].state # "unborn"
       /\ process' = [process EXCEPT ![w] =
                        [Unborn EXCEPT !.state = "reading", !.image = image]]
       /\ kind' = "Hello" /\ peer' = w
       /\ \/ image = wants[t].binary /\ UNCHANGED <<blamed, events>>
          \/ /\ image # wants[t].binary /\ events < MaxEvents
             /\ events' = events + 1
             /\ blamed' = [blamed EXCEPT ![t] = TRUE]

-----------------------------------------------------------------------------
(* The exchange, as the holder of the mutex sees it.                       *)

Return(result) ==
  /\ answer' = [answer EXCEPT ![holder] = result]
  /\ wants' = [wants EXCEPT ![holder] = None]
  /\ holder' = None /\ at' = "idle" /\ kind' = "Hello"
  /\ peer' = 0 /\ victim' = 0
  /\ UNCHANGED <<compiler, session>>

\* request() did not get its answer: the worker is killed and waited for,
\* and the call fails.
Retire ==
  /\ process' = [process EXCEPT ![peer].state = "reaped"]
  /\ Return(Failed)

\* Nothing in the compiler changes what SIGPIPE does.
BrokenPipe ==
  /\ compiler' = "SIGPIPE"
  /\ UNCHANGED <<callerVars, holderVars, session, process, events>>

Send ==
  /\ compiler = "running" /\ at = "send"
  /\ \/ ~Alive(peer) /\ BrokenPipe
     \/ /\ Alive(peer)
        /\ process' = [process EXCEPT
             ![peer].inbox = Append(@, [kind |-> kind,
                                        id |-> process[peer].nextId,
                                        call |-> wants[holder]]),
             ![peer].nextId = @ + 1]
        /\ at' = "await"
        /\ UNCHANGED <<compiler, callerVars, holder, kind, peer, victim,
                       session, events>>

Awaiting == compiler = "running" /\ at = "await"

\* The next response, and the test that it is whole and answers the request
\* in flight.
Response == Head(process[peer].outbox)
Received == Awaiting /\ process[peer].outbox # <<>>
Matches(r) == r.outcome # "garbage" /\ r.id = process[peer].nextId - 1

Consumed == [process EXCEPT ![peer].outbox = Tail(@)]

Reject ==
  /\ Received /\ ~Matches(Response)
  /\ Retire
  /\ UNCHANGED <<blamed, events>>

\* A WorkerError frame: the macro failed and the worker is fine.
MacroFailed ==
  /\ Received /\ Matches(Response) /\ Response.outcome = "error"
  /\ process' = Consumed
  /\ Return(Failed)
  /\ UNCHANGED <<blamed, events>>

Answered ==
  /\ Received /\ Matches(Response) /\ Response.outcome = "ok"
  /\ process' = Consumed
  /\ UNCHANGED <<blamed, events>>

NextRequest(k) ==
  /\ kind' = k /\ at' = "send"
  /\ UNCHANGED <<compiler, wants, answer, holder, peer, victim>>

HelloAcked ==
  /\ Answered /\ kind = "Hello"
  /\ NextRequest("Describe")
  /\ UNCHANGED session

\* The entry made of, or assigned, the described worker.
Install ==
  session' = [session EXCEPT ![PackageOf[wants[holder].binary]] =
                [identity |-> wants[holder].binary, process |-> peer]]

StopBefore(w) ==
  /\ victim' = w /\ at' = "stop"
  /\ UNCHANGED <<compiler, wants, answer, holder, kind, peer, session>>

OldWorker == session[PackageOf[wants[holder].binary]].process

SameIdentity == process[peer].image = wants[holder].binary

\* (Mutant: the old worker is not stopped.)
DescribedAndForgotten ==
  /\ Answered /\ kind = "Describe" /\ SameIdentity
  /\ Install /\ NextRequest("Expand")

\* The catalog names the binary asked for: the worker becomes the session's,
\* after the session's old worker has been stopped.
Described ==
  /\ Answered /\ kind = "Describe" /\ SameIdentity
  /\ IF Running(OldWorker)
     THEN StopBefore(OldWorker)
     ELSE Install /\ NextRequest("Expand")

\* It names another: the worker is stopped, and the call fails.
Misidentified ==
  /\ Answered /\ kind = "Describe" /\ ~SameIdentity
  /\ StopBefore(peer)

ExpansionResult ==
  /\ Answered /\ kind = "Expand"
  /\ Return(Expanded(process[peer].image, Response.call))

\* End of file: the worker is dead and its pipe is drained.
Closed ==
  /\ Awaiting /\ process[peer].outbox = <<>> /\ ~Alive(peer)
  /\ Retire
  /\ UNCHANGED <<blamed, events>>

\* (Mutant: an expansion that timed out leaves its worker in the session.)
TimeoutAndKeep ==
  /\ Awaiting /\ process[peer].outbox = <<>> /\ Alive(peer)
  /\ events < MaxEvents \/ process[peer].state = "hung"
  /\ events' = IF process[peer].state = "hung" THEN events ELSE events + 1
  /\ blamed' = [blamed EXCEPT ![holder] = TRUE]
  /\ IF kind = "Expand" THEN Return(Failed) /\ UNCHANGED process ELSE Retire

\* The deadline passes with nothing to read, whatever the worker is doing.
Timeout ==
  /\ Awaiting /\ process[peer].outbox = <<>> /\ Alive(peer)
  /\ events < MaxEvents \/ process[peer].state = "hung"
  /\ events' = IF process[peer].state = "hung" THEN events ELSE events + 1
  /\ blamed' = [blamed EXCEPT ![holder] = TRUE]
  /\ Retire

-----------------------------------------------------------------------------
(* Stopping a worker in good order: stop_noexcept and shutdown.            *)

\* (Mutant: the request pipe is closed and no Shutdown is written.)
StopByClosing ==
  /\ compiler \in {"running", "exiting"} /\ at = "stop"
  /\ at' = "reap"
  /\ UNCHANGED <<compiler, callerVars, holder, kind, peer, victim, session,
                 process, events>>

Stop ==
  /\ compiler \in {"running", "exiting"} /\ at = "stop"
  /\ \/ ~Alive(victim) /\ BrokenPipe
     \/ /\ Alive(victim)
        /\ process' = [process EXCEPT
             ![victim].inbox = Append(@, [kind |-> "Shutdown",
                                          id |-> process[victim].nextId,
                                          call |-> None]),
             ![victim].nextId = @ + 1]
        /\ at' = "reap"
        /\ UNCHANGED <<compiler, callerVars, holder, kind, peer, victim,
                       session, events>>

\* waitpid, without a deadline.
Reaped ==
  /\ at = "reap" /\ process[victim].state = "dead"
  /\ process' = [process EXCEPT ![victim].state = "reaped"]

\* The old worker is gone: the session is the new one's.
Replaced ==
  /\ compiler = "running" /\ victim # peer
  /\ Reaped
  /\ Install
  /\ kind' = "Expand" /\ at' = "send" /\ victim' = 0
  /\ UNCHANGED <<compiler, callerVars, holder, peer, events>>

\* The impostor is gone.
Dismissed ==
  /\ compiler = "running" /\ victim = peer
  /\ Reaped
  /\ Return(Failed)
  /\ UNCHANGED <<blamed, events>>

\* main returns; no thread is left in a call.
Exit ==
  /\ compiler = "running" /\ \A t \in Threads : wants[t] = None
  /\ compiler' = "exiting"
  /\ UNCHANGED <<callerVars, holderVars, session, process, events>>

\* The session table is destroyed, one worker after another.
Destroy ==
  /\ compiler = "exiting" /\ at = "idle"
  /\ \E p \in Packages :
       /\ Running(session[p].process)
       /\ victim' = session[p].process /\ at' = "stop"
  /\ UNCHANGED <<compiler, callerVars, holder, kind, peer, session, process,
                 events>>

Destroyed ==
  /\ compiler = "exiting"
  /\ Reaped
  /\ at' = "idle" /\ victim' = 0
  /\ UNCHANGED <<compiler, callerVars, holder, kind, peer, session, events>>

\* An editor kills the language server, or a user the compiler.
Kill ==
  /\ compiler \in {"running", "exiting"} /\ events < MaxEvents
  /\ compiler' = "SIGKILL" /\ events' = events + 1
  /\ UNCHANGED <<callerVars, holderVars, session, process>>

Exited ==
  /\ compiler = "exiting" /\ at = "idle"
  /\ \A p \in Packages : ~Running(session[p].process)
  /\ compiler' = "exited"
  /\ UNCHANGED <<callerVars, holderVars, session, process, events>>

-----------------------------------------------------------------------------
(* The worker: serve_worker.                                               *)

callerSide == <<compiler, wants, answer, holderVars, session>>

\* The next request is read; a Shutdown ends the worker.
Serve(w) ==
  /\ process[w].state = "reading" /\ process[w].inbox # <<>>
  /\ process' = [process EXCEPT
       ![w].state = IF Head(process[w].inbox).kind = "Shutdown"
                    THEN "dead" ELSE "busy"]
  /\ UNCHANGED <<callerSide, blamed, events>>

\* The compiler closes its end of the request pipe when it stops the worker.
CompilerHolds(w) == compiler \notin Dead /\ ~(at = "reap" /\ victim = w)

\* (Mutant: children inherit the write ends of their elders and juniors.)
WriteEndOpenAnywhere(w) ==
  \/ CompilerHolds(w)
  \/ \E v \in Numbers : v # w /\ Alive(v)

\* The pipes are not close-on-exec: every worker forked later has inherited
\* the compiler's ends of both.
Inherited(w) == \E v \in Numbers : v > w /\ Alive(v)

WriteEndOpen(w) ==
  CompilerHolds(w) \/ Inherited(w)

ReadEndOpen(w) == compiler \notin Dead \/ Inherited(w)

\* A response to the request being served, or what the macro printed where
\* the responses go.  Without a reader the worker dies of SIGPIPE.
Respond(w, outcome) ==
  LET request == Head(process[w].inbox)
  IN /\ process[w].state = "busy"
     /\ outcome = "error" => request.kind = "Expand"
     /\ process' = [process EXCEPT
          ![w].state = IF ReadEndOpen(w) THEN "reading" ELSE "dead",
          ![w].inbox = Tail(@),
          ![w].outbox = Append(@, [outcome |-> outcome, id |-> request.id,
                                   call |-> request.call])]
     /\ UNCHANGED callerSide

Answer(w) == Respond(w, "ok") /\ UNCHANGED <<blamed, events>>
Misbehave(w) == \E o \in {"error", "garbage"} : Respond(w, o) /\ Fault(w)

Crash(w) ==
  /\ Alive(w)
  /\ process' = [process EXCEPT ![w].state = "dead"]
  /\ Fault(w)
  /\ UNCHANGED callerSide

\* The macro does not come back.
Hang(w) ==
  /\ process[w].state = "busy"
  /\ process' = [process EXCEPT ![w].state = "hung"]
  /\ Fault(w)
  /\ UNCHANGED callerSide

EndOfInput(w) ==
  /\ process[w].state = "reading" /\ process[w].inbox = <<>>
  /\ ~WriteEndOpen(w)
  /\ process' = [process EXCEPT ![w].state = "dead"]
  /\ UNCHANGED <<callerSide, blamed, events>>

-----------------------------------------------------------------------------
HolderStep ==
  \/ Send \/ Reject \/ MacroFailed \/ HelloAcked \/ Described \/ Misidentified
  \/ ExpansionResult \/ Closed \/ Timeout
  \/ Stop \/ Replaced \/ Dismissed

ExitStep == Destroy \/ Destroyed \/ Exited

WorkerStep(w) == Serve(w) \/ Answer(w) \/ EndOfInput(w)

\* Nothing is left of w, or nothing but a hung macro keeps it.
Orphan(w) ==
  Alive(w) => \E v \in Numbers : v >= w /\ process[v].state = "hung"

Terminated ==
  /\ compiler \in {"exited"} \cup Dead
  /\ \A w \in Numbers : Orphan(w)
  /\ UNCHANGED vars

Next ==
  \/ \E t \in Threads : Reuse(t) \/ Launch(t) \/ \E b \in Binaries : Call(t, b)
  \/ HolderStep
  \/ Exit \/ ExitStep \/ Kill
  \/ \E w \in Numbers :
       WorkerStep(w) \/ Misbehave(w) \/ Crash(w) \/ Hang(w)
  \/ Terminated

Spec == Init /\ [][Next]_vars

\* The compiler's threads run, its deadlines pass and a worker that has not
\* hung goes on.  Nothing makes a macro hang or a process crash, and nothing
\* makes the program call or exit.
FairSpec ==
  /\ Spec
  /\ \A t \in Threads : WF_vars(Reuse(t) \/ Launch(t))
  /\ WF_vars(HolderStep) /\ WF_vars(ExitStep)
  /\ \A w \in Numbers : WF_vars(WorkerStep(w))

-----------------------------------------------------------------------------
(* Properties.                                                             *)

Requests == [kind : Kinds \cup {"Shutdown"}, id : Nat,
             call : [binary : Binaries, number : 1..MaxEvents] \cup {None}]
Responses == [outcome : {"ok", "error", "garbage"}, id : Nat,
              call : [binary : Binaries, number : 1..MaxEvents]]
Results == {NoAnswer, Failed} \cup
             {Expanded(b, [binary |-> c, number |-> n]) :
                b \in Binaries, c \in Binaries, n \in 1..MaxEvents}

\* Types, and that the mutex is held exactly by a thread in a call and the
\* worker it talks to is one it has not yet waited for.
TypeOK ==
  /\ compiler \in {"running", "exiting", "exited"} \cup Dead
  /\ \A t \in Threads :
       /\ wants[t] # None =>
            wants[t] \in [binary : Binaries, number : 1..MaxEvents]
       /\ answer[t] \in Results
  /\ blamed \in [Threads -> BOOLEAN]
  /\ at \in {"idle", "send", "await", "stop", "reap"}
  /\ kind \in Kinds
  /\ session \in [Packages ->
       [identity : Binaries \cup {None}, process : 0..MaxEvents]]
  /\ \A w \in Numbers :
       /\ process[w].state \in
            {"unborn", "reading", "busy", "hung", "dead", "reaped"}
       /\ process[w].inbox \in Seq(Requests)
       /\ process[w].outbox \in Seq(Responses)
  /\ holder # None => wants[holder] # None /\ Running(peer)
  /\ (holder = None /\ compiler = "running") => at = "idle"

\* A call that succeeds returns the expansion that the binary it asked for,
\* in the build it asked for, made of its own request: not one of an older
\* build, of another package, or of an earlier call whose answer came late
\* (WorkerSessions::expand and WorkerProcess::request).
AnswersAreOwn ==
  [][\A t \in Threads :
       (wants[t] # None /\ answer'[t].outcome = "expanded") =>
         /\ answer'[t].call = wants[t]
         /\ answer'[t].image = wants[t].binary]_vars

\* Every worker that was forked and not waited for is one the compiler still
\* refers to, so that the last of them goes when the compiler exits: no
\* failed, replaced or misidentified worker is left running.
NoStrays ==
  compiler \notin Dead =>
    \A w \in Numbers :
      Running(w) =>
        \/ w \in {peer, victim}
        \/ compiler # "exited" /\ \E p \in Packages : session[p].process = w

\* A call fails only because of what happened in its own exchange: a worker
\* that crashed, hung or answered nonsense to somebody else is never the one
\* that a later call is served by.
FailuresAreOwn == \A t \in Threads : answer[t] = Failed => blamed[t]

\* Every call returns, whatever the workers do: a hung worker is given up at
\* its deadline, and stopping one, which has no deadline, never waits for a
\* worker that was not told.
CallsReturn ==
  \A t \in Threads :
    wants[t] # None ~> (wants[t] = None \/ compiler \in Dead)

\* When the compiler dies without stopping them its workers follow, each
\* reading the end of its input once those that inherited the pipe are gone;
\* only a hung macro can keep itself and the workers older than it.
WorkersFollow == compiler \in Dead ~> \A w \in Numbers : Orphan(w)

\* A worker's death becomes a diagnostic and is not the compiler's.
CompilerSurvives == compiler # "SIGPIPE"

=============================================================================
