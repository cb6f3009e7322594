--------------------------- MODULE MacroWorkerProofs ---------------------------
(***************************************************************************)
(* Types, no stray workers, and answers and failures that are a call's     *)
(* own, for any threads, packages and binaries, and any faults.            *)
(***************************************************************************)
EXTENDS MacroWorker, TLAPS

States == {"unborn", "reading", "busy", "hung", "dead", "reaped"}
Calls == [binary : Binaries, number : 1 .. MaxEvents]

\* A pipe has at most one message in it.
Asked == [kind : Kinds, id : Nat, call : Calls]
Told == [kind : {"Shutdown"}, id : Nat, call : {None}]
Inboxes == {<<>>} \cup {<<r>> : r \in Asked \cup Told}
Outboxes == {<<>>} \cup {<<r>> : r \in Responses}
Workers == [state : States, image : Binaries \cup {None}, inbox : Inboxes,
            outbox : Outboxes, nextId : Nat]

\* Types of the compiler's side.
Callers ==
  /\ wants \in [Threads -> Calls \cup {None}]
  /\ holder \in Threads \cup {None}
  /\ compiler \in {"running", "exiting", "exited"} \cup Dead
  /\ at \in {"idle", "send", "await", "stop", "reap"}
  /\ kind \in Kinds
  /\ peer \in 0 .. MaxEvents /\ victim \in 0 .. MaxEvents
  /\ session \in [Packages ->
        [identity : Binaries \cup {None}, process : 0 .. MaxEvents]]
  /\ events \in 0 .. MaxEvents

\* While a worker serves a request there is no other, and no answer.
Pipes ==
  /\ process \in [Numbers -> Workers]
  /\ \A w \in Numbers :
        /\ process[w].state \in {"busy", "hung"} =>
              process[w].inbox # <<>> /\ Head(process[w].inbox) \in Asked
        /\ process[w].inbox # <<>> => process[w].outbox = <<>>

\* Who holds the mutex is in a call and talks to a worker; whoever is to be
\* stopped has not been waited for.
Held ==
  /\ holder # None => at # "idle" /\ wants[holder] # None /\ Running(peer)
  /\ holder = None => peer = 0 /\ at \notin {"send", "await"}
  /\ holder = None /\ compiler = "running" => at = "idle"
  /\ compiler \in {"exiting", "exited"} => holder = None
  /\ compiler = "exited" => at = "idle"
  /\ at \in {"idle", "send", "await"} => victim = 0
  /\ at \in {"stop", "reap"} => Running(victim)

\* A session names a worker that was born, and the build it is of; an
\* expansion goes to the session's worker, a greeting to one that is not yet
\* anybody's.
Served ==
  /\ \A p \in Packages : session[p].process # 0 =>
        /\ process[session[p].process].state # "unborn"
        /\ process[session[p].process].image = session[p].identity
  /\ holder # None => LET b == wants[holder].binary IN
        /\ at \in {"send", "await"} /\ kind = "Expand" =>
              session[PackageOf[b]] = [identity |-> b, process |-> peer]
        /\ at \in {"send", "await"} /\ kind # "Expand" =>
              \A p \in Packages : session[p].process # peer
        /\ at \in {"stop", "reap"} =>
              /\ kind = "Describe"
              /\ victim = peer => process[peer].image # b
              /\ victim # peer => /\ process[peer].image = b
                                  /\ victim = session[PackageOf[b]].process

\* A worker that has nothing to do, or is dead.
Resting(w) ==
  /\ process[w].inbox = <<>> /\ process[w].outbox = <<>>
  /\ process[w].state \in {"reading", "dead"}

\* What the holder waits for: the request in flight, or its answer.
Asking(w) ==
  /\ process[w].inbox # <<>> =>
        LET r == Head(process[w].inbox)
        IN  r.kind = kind /\ r.id + 1 = process[w].nextId /\ r.call = wants[holder]
  /\ process[w].outbox # <<>> =>
        LET r == Head(process[w].outbox)
        IN  /\ r.outcome = "error" => kind = "Expand"
            /\ r.id + 1 = process[w].nextId /\ r.call = wants[holder]

\* A worker that is told to end has nothing else to do.
Leaving(w) ==
  /\ process[w].outbox = <<>> /\ process[w].state \in {"reading", "dead"}
  /\ process[w].inbox # <<>> => Head(process[w].inbox) \in Told

\* All others rest.
Mail ==
  compiler \notin Dead => \A w \in Numbers : Running(w) =>
    /\ at = "await" /\ w = peer => Asking(w)
    /\ at = "reap" /\ w = victim => Leaving(w)
    /\ ~(at = "await" /\ w = peer) /\ ~(at = "reap" /\ w = victim) => Resting(w)

\* What an exchange has to do with its worker if nothing has gone wrong in it.
Sound ==
  /\ at = "await" =>
        /\ process[peer].state \in {"reading", "busy"}
        /\ process[peer].outbox # <<>> => Head(process[peer].outbox).outcome = "ok"
  /\ at \in {"send", "await"} => process[peer].image = wants[holder].binary
  /\ at \in {"stop", "reap"} => victim # peer

\* A Boolean that the provers take for a formula.
Blamed(t) == blamed[t]

\* What went wrong in an exchange is known to be its own.
Blame == compiler \notin Dead /\ holder # None => Blamed(holder) \/ Sound

Flags == blamed \in [Threads -> BOOLEAN]

\* A call in progress has no answer yet; a failed one is to blame.
Answers ==
  /\ answer \in [Threads -> Results]
  /\ \A t \in Threads : wants[t] # None => answer[t] = NoAnswer
  /\ \A t \in Threads : answer[t] = Failed => Blamed(t)

-----------------------------------------------------------------------------
\* There are naturally many workers, and 0 is none.
LEMMA NumbersAreNatural == \A w \in Numbers : w \in Nat /\ w # 0
BY MaxEventsAssumption DEF Numbers

\* What one message in a pipe amounts to.
LEMMA OneMessage ==
    ASSUME NEW m PROVE /\ Append(<<>>, m) = <<m>> /\ Head(<<m>>) = m
                       /\ Tail(<<m>>) = <<>> /\ <<m>> # <<>>
OBVIOUS

\* A pipe that has something in it has one message.
LEMMA InboxHead ==
    ASSUME NEW b \in Inboxes, b # <<>>
    PROVE  Head(b) \in Asked \cup Told /\ Tail(b) = <<>>
BY OneMessage DEF Inboxes

\* The same of the answers.
LEMMA OutboxHead ==
    ASSUME NEW b \in Outboxes, b # <<>>
    PROVE  Head(b) \in Responses /\ Tail(b) = <<>>
BY OneMessage DEF Outboxes

\* Worker w changes its state, and nothing else.
Moved(w, s) ==
  /\ process' \in [Numbers -> Workers]
  /\ process'[w].state = s
  /\ process'[w].image = process[w].image /\ process'[w].nextId = process[w].nextId
  /\ process'[w].inbox = process[w].inbox /\ process'[w].outbox = process[w].outbox
  /\ \A v \in Numbers \ {w} : process'[v] = process[v]

\* That is what an assignment to its state does.
LEMMA StateMoves ==
    ASSUME Pipes, NEW w \in Numbers, NEW s \in States,
           process' = [process EXCEPT ![w].state = s]
    PROVE  Moved(w, s)
BY DEF Pipes, Workers, Moved

\* Request m is written to worker w, whose pipe is empty.
Pushed(w, m) ==
  /\ process' \in [Numbers -> Workers]
  /\ process'[w].state = process[w].state /\ process'[w].image = process[w].image
  /\ process'[w].nextId = process[w].nextId + 1
  /\ process'[w].inbox # <<>> /\ Head(process'[w].inbox) = m
  /\ process'[w].outbox = process[w].outbox
  /\ \A v \in Numbers \ {w} : process'[v] = process[v]

\* That is what writing a request does.
LEMMA RequestIsPushed ==
    ASSUME Pipes, NEW w \in Numbers, process[w].inbox = <<>>,
           NEW m \in Asked \cup Told,
           process' = [process EXCEPT ![w].inbox = Append(@, m), ![w].nextId = @ + 1]
    PROVE  Pushed(w, m)
<1>1. Append(process[w].inbox, m) = <<m>>
    BY OneMessage
<1>2. <<m>> \in Inboxes
    BY DEF Inboxes
<1>3. process \in [Numbers -> Workers]
    BY DEF Pipes
<1>4. /\ process' \in [Numbers -> Workers]
      /\ process'[w].state = process[w].state /\ process'[w].image = process[w].image
      /\ process'[w].nextId = process[w].nextId + 1
      /\ process'[w].inbox = <<m>>
      /\ process'[w].outbox = process[w].outbox
      /\ \A v \in Numbers \ {w} : process'[v] = process[v]
    BY <1>1, <1>2, <1>3 DEF Workers
<1> QED  BY <1>4, OneMessage DEF Pushed

\* The answer of worker w is read.
Popped(w) ==
  /\ process' \in [Numbers -> Workers]
  /\ process'[w].state = process[w].state /\ process'[w].image = process[w].image
  /\ process'[w].nextId = process[w].nextId
  /\ process'[w].inbox = process[w].inbox /\ process'[w].outbox = <<>>
  /\ \A v \in Numbers \ {w} : process'[v] = process[v]

\* That is what reading an answer does.
LEMMA AnswerIsPopped ==
    ASSUME Pipes, peer \in Numbers, process[peer].outbox # <<>>, process' = Consumed
    PROVE  Popped(peer)
<1>1. process \in [Numbers -> Workers] /\ process[peer].outbox \in Outboxes
    BY DEF Pipes, Workers
<1>2. Tail(process[peer].outbox) = <<>> /\ <<>> \in Outboxes
    BY <1>1, OutboxHead DEF Outboxes
<1> QED  BY <1>1, <1>2 DEF Workers, Consumed, Popped

\* Worker w answers its request, and goes on to state s.
Replied(w, s, outcome) ==
  LET request == Head(process[w].inbox)
  IN  /\ process' \in [Numbers -> Workers]
      /\ process'[w].state = s /\ process'[w].image = process[w].image
      /\ process'[w].nextId = process[w].nextId
      /\ process'[w].inbox = <<>> /\ process'[w].outbox # <<>>
      /\ Head(process'[w].outbox) =
            [outcome |-> outcome, id |-> request.id, call |-> request.call]
      /\ \A v \in Numbers \ {w} : process'[v] = process[v]

\* That is what serve_worker does with a request.
LEMMA AnswerIsWritten ==
    ASSUME Pipes, NEW w \in Numbers, process[w].state = "busy",
           NEW outcome \in {"ok", "error", "garbage"}, NEW s \in States,
           process' = [process EXCEPT
             ![w].state = s,
             ![w].inbox = Tail(@),
             ![w].outbox = Append(@, [outcome |-> outcome, id |-> Head(process[w].inbox).id,
                                      call |-> Head(process[w].inbox).call])]
    PROVE  Replied(w, s, outcome)
<1> DEFINE m == [outcome |-> outcome, id |-> Head(process[w].inbox).id,
                 call |-> Head(process[w].inbox).call]
<1>1. /\ process \in [Numbers -> Workers] /\ process[w].inbox \in Inboxes
      /\ process[w].inbox # <<>> /\ Head(process[w].inbox) \in Asked
      /\ process[w].outbox = <<>>
    BY DEF Pipes, Workers
<1>2. m \in Responses
    BY <1>1 DEF Asked, Calls, Responses
<1>3. Tail(process[w].inbox) = <<>> /\ Append(process[w].outbox, m) = <<m>>
    BY <1>1, InboxHead, OneMessage
<1>4. <<m>> \in Outboxes /\ <<>> \in Inboxes
    BY <1>2 DEF Inboxes, Outboxes
<1>5. /\ process' \in [Numbers -> Workers]
      /\ process'[w].state = s /\ process'[w].image = process[w].image
      /\ process'[w].nextId = process[w].nextId
      /\ process'[w].inbox = <<>> /\ process'[w].outbox = <<m>>
      /\ \A v \in Numbers \ {w} : process'[v] = process[v]
    <2> HIDE DEF m
    <2>1. process' = [process EXCEPT ![w].state = s, ![w].inbox = Tail(@),
                                     ![w].outbox = Append(@, m)]
        BY DEF m
    <2> QED  BY <1>1, <1>3, <1>4, <2>1 DEF Workers
<1> QED  BY <1>5, OneMessage DEF Replied

-----------------------------------------------------------------------------
\* What does not depend on blame.
Inv == Callers /\ Pipes /\ Held /\ Served /\ Mail

\* The holder and the worker it talks to are a thread and a process.
LEMMA HolderTalks ==
    ASSUME Callers, Held, holder # None
    PROVE  /\ holder \in Threads /\ peer \in Numbers
           /\ wants[holder] \in Calls /\ wants[holder].binary \in Binaries
BY NoneAssumption DEF Callers, Held, Running, Numbers, Calls

\* So is the worker that is stopped.
LEMMA VictimIsWorker ==
    ASSUME Callers, Held, at \in {"stop", "reap"} PROVE victim \in Numbers
BY DEF Callers, Held, Running, Numbers

\* Giving up a request reaps its worker.
LEMMA RetireEffect ==
    ASSUME Inv, Awaiting, Retire
    PROVE  /\ holder # None /\ holder \in Threads /\ peer \in Numbers
           /\ Moved(peer, "reaped") /\ Return(Failed)
<1>1. holder # None /\ holder \in Threads /\ peer \in Numbers
    BY HolderTalks DEF Inv, Held, Awaiting
<1>2. process' = [process EXCEPT ![peer].state = "reaped"] /\ Return(Failed)
    BY DEF Retire
<1>3. "reaped" \in States
    BY DEF States
<1> QED  BY <1>1, <1>2, <1>3, StateMoves DEF Inv

\* A request is sent, unless nobody is there to read it.
LEMMA SendEffect ==
    ASSUME Inv, Send
    PROVE  /\ holder # None /\ holder \in Threads /\ peer \in Numbers
           /\ compiler = "running" /\ at = "send"
           /\ \/ BrokenPipe
              \/ /\ Pushed(peer, [kind |-> kind, id |-> process[peer].nextId,
                                  call |-> wants[holder]])
                 /\ [kind |-> kind, id |-> process[peer].nextId, call |-> wants[holder]]
                       \in Asked
                 /\ process[peer].state = "reading"
                 /\ process[peer].inbox = <<>> /\ process[peer].outbox = <<>>
                 /\ at' = "await"
                 /\ UNCHANGED <<compiler, callerVars, holder, kind, peer, victim,
                                session, events>>
<1> DEFINE m == [kind |-> kind, id |-> process[peer].nextId, call |-> wants[holder]]
<1>1. compiler = "running" /\ at = "send"
    BY DEF Send
<1>2. holder # None
    BY <1>1 DEF Inv, Held
<1>3. holder \in Threads /\ peer \in Numbers /\ wants[holder] \in Calls
    BY <1>2, HolderTalks DEF Inv
<1>4. process[peer].nextId \in Nat /\ kind \in Kinds
    BY <1>3 DEF Inv, Callers, Pipes, Workers
<1>5. m \in Asked
    BY <1>3, <1>4 DEF Asked
<1>6. Running(peer)
    BY <1>2 DEF Inv, Held
<1>7. Resting(peer)
    BY <1>1, <1>3, <1>6 DEF Inv, Mail, Dead
<1>8. CASE BrokenPipe
    BY <1>1, <1>2, <1>3, <1>8
<1>9. CASE ~BrokenPipe
    <2>1. /\ Alive(peer) /\ at' = "await"
          /\ process' = [process EXCEPT ![peer].inbox = Append(@, m), ![peer].nextId = @ + 1]
          /\ UNCHANGED <<compiler, callerVars, holder, kind, peer, victim, session, events>>
        BY <1>9 DEF Send
    <2> HIDE DEF m
    <2>2. Pushed(peer, m)
        BY <1>3, <1>5, <1>7, <2>1, RequestIsPushed DEF Inv, Resting
    <2>3. process[peer].state = "reading"
        BY <1>7, <2>1 DEF Resting, Alive
    <2> QED  BY <1>1, <1>2, <1>3, <1>5, <1>7, <2>1, <2>2, <2>3 DEF m, Resting
<1> QED  BY <1>8, <1>9

\* The same of the message that ends a worker.
LEMMA StopEffect ==
    ASSUME Inv, Stop
    PROVE  /\ compiler \in {"running", "exiting"} /\ at = "stop" /\ victim \in Numbers
           /\ \/ BrokenPipe
              \/ /\ Pushed(victim, [kind |-> "Shutdown", id |-> process[victim].nextId,
                                    call |-> None])
                 /\ [kind |-> "Shutdown", id |-> process[victim].nextId, call |-> None]
                       \in Told
                 /\ process[victim].state = "reading"
                 /\ process[victim].inbox = <<>> /\ process[victim].outbox = <<>>
                 /\ at' = "reap"
                 /\ UNCHANGED <<compiler, callerVars, holder, kind, peer, victim,
                                session, events>>
<1> DEFINE m == [kind |-> "Shutdown", id |-> process[victim].nextId, call |-> None]
<1>1. compiler \in {"running", "exiting"} /\ at = "stop"
    BY DEF Stop
<1>2. victim \in Numbers
    BY <1>1, VictimIsWorker DEF Inv
<1>3. m \in Told
    BY <1>2 DEF Inv, Pipes, Workers, Told
<1>4. Running(victim)
    BY <1>1 DEF Inv, Held
<1>5. Resting(victim)
    BY <1>1, <1>2, <1>4 DEF Inv, Mail, Dead
<1>6. CASE BrokenPipe
    BY <1>1, <1>2, <1>6
<1>7. CASE ~BrokenPipe
    <2>1. /\ Alive(victim) /\ at' = "reap"
          /\ process' = [process EXCEPT ![victim].inbox = Append(@, m),
                                        ![victim].nextId = @ + 1]
          /\ UNCHANGED <<compiler, callerVars, holder, kind, peer, victim, session, events>>
        BY <1>7 DEF Stop
    <2> HIDE DEF m
    <2>2. Pushed(victim, m)
        BY <1>2, <1>3, <1>5, <2>1, RequestIsPushed DEF Inv, Resting
    <2>3. process[victim].state = "reading"
        BY <1>5, <2>1 DEF Resting, Alive
    <2> QED  BY <1>1, <1>2, <1>3, <1>5, <2>1, <2>2, <2>3 DEF m, Resting
<1> QED  BY <1>6, <1>7

\* A stopped worker is waited for.
LEMMA ReapedEffect ==
    ASSUME Inv, Reaped
    PROVE  /\ at = "reap" /\ victim \in Numbers /\ process[victim].state = "dead"
           /\ Moved(victim, "reaped")
<1>1. at = "reap" /\ victim \in Numbers
    BY VictimIsWorker DEF Reaped, Inv
<1>2. "reaped" \in States
    BY DEF States
<1> QED  BY <1>1, <1>2, StateMoves DEF Reaped, Inv

\* An answer is read: it is there, and the request was of this kind.
LEMMA ReceivedEffect ==
    ASSUME Inv, Received, process' = Consumed
    PROVE  /\ holder # None /\ holder \in Threads /\ peer \in Numbers
           /\ compiler = "running" /\ at = "await"
           /\ Popped(peer) /\ process[peer].inbox = <<>>
<1>1. holder # None /\ compiler = "running" /\ at = "await"
    BY DEF Inv, Held, Received, Awaiting
<1>2. holder \in Threads /\ peer \in Numbers
    BY <1>1, HolderTalks DEF Inv
<1>3. process[peer].outbox # <<>>
    BY DEF Received
<1>4. Popped(peer)
    BY <1>2, <1>3, AnswerIsPopped DEF Inv
<1>5. process[peer].inbox = <<>>
    BY <1>2, <1>3 DEF Inv, Pipes
<1> QED  BY <1>1, <1>2, <1>4, <1>5

\* A worker is forked: its pipes are empty.
LEMMA LaunchEffect ==
    ASSUME Inv, NEW t \in Threads, Launch(t)
    PROVE  \E w \in Numbers, image \in Binaries :
             /\ process[w].state = "unborn" /\ kind' = "Hello" /\ peer' = w
             /\ process' \in [Numbers -> Workers]
             /\ process'[w].state = "reading" /\ process'[w].image = image
             /\ process'[w].inbox = <<>> /\ process'[w].outbox = <<>>
             /\ \A v \in Numbers \ {w} : process'[v] = process[v]
             /\ \/ image = wants[t].binary /\ blamed' = blamed /\ events' = events
                \/ /\ image # wants[t].binary /\ events < MaxEvents
                   /\ events' = events + 1
                   /\ blamed' = [blamed EXCEPT ![t] = TRUE]
<1>1. PICK w \in Numbers, image \in Binaries :
        /\ process[w].state = "unborn" /\ kind' = "Hello" /\ peer' = w
        /\ process' = [process EXCEPT ![w] =
                         [Unborn EXCEPT !.state = "reading", !.image = image]]
        /\ \/ image = wants[t].binary /\ UNCHANGED <<blamed, events>>
           \/ /\ image # wants[t].binary /\ events < MaxEvents
              /\ events' = events + 1
              /\ blamed' = [blamed EXCEPT ![t] = TRUE]
    BY Zenon DEF Launch
<1>a. \/ image = wants[t].binary /\ blamed' = blamed /\ events' = events
      \/ /\ image # wants[t].binary /\ events < MaxEvents
         /\ events' = events + 1
         /\ blamed' = [blamed EXCEPT ![t] = TRUE]
    BY ONLY <1>1
<1> DEFINE n == [Unborn EXCEPT !.state = "reading", !.image = image]
<1>2. /\ n \in Workers /\ n.state = "reading" /\ n.image = image
      /\ n.inbox = <<>> /\ n.outbox = <<>>
    BY DEF Unborn, Workers, States, Inboxes, Outboxes
<1> HIDE DEF n
<1>3. /\ process' \in [Numbers -> Workers] /\ process'[w] = n
      /\ \A v \in Numbers \ {w} : process'[v] = process[v]
    <2>1. process' = [process EXCEPT ![w] = n]
        BY <1>1 DEF n
    <2> QED  BY <1>2, <2>1 DEF Inv, Pipes
<1> QED  BY ONLY <1>1, <1>2, <1>3, <1>a, Zenon

\* What a worker does to its own end of the pipes.
LEMMA WorkerEffect ==
    ASSUME Inv, NEW w \in Numbers
    PROVE  /\ Serve(w) => /\ process[w].state = "reading" /\ process[w].inbox # <<>>
                          /\ \/ /\ Moved(w, "dead")
                                /\ Head(process[w].inbox).kind = "Shutdown"
                             \/ /\ Moved(w, "busy")
                                /\ Head(process[w].inbox).kind # "Shutdown"
           /\ Crash(w) => Moved(w, "dead")
           /\ Hang(w) => Moved(w, "hung")
           /\ EndOfInput(w) => Moved(w, "dead")
<1>1. "dead" \in States /\ "busy" \in States /\ "hung" \in States /\ Pipes
    BY DEF States, Inv
<1>2. ASSUME Serve(w)
      PROVE  /\ process[w].state = "reading" /\ process[w].inbox # <<>>
             /\ \/ /\ Moved(w, "dead")
                   /\ Head(process[w].inbox).kind = "Shutdown"
                \/ /\ Moved(w, "busy")
                   /\ Head(process[w].inbox).kind # "Shutdown"
    <2>1. CASE Head(process[w].inbox).kind = "Shutdown"
        <3>1. process' = [process EXCEPT ![w].state = "dead"]
            BY <1>2, <2>1 DEF Serve
        <3> QED  BY <1>1, <1>2, <2>1, <3>1, StateMoves DEF Serve
    <2>2. CASE Head(process[w].inbox).kind # "Shutdown"
        <3>1. process' = [process EXCEPT ![w].state = "busy"]
            BY <1>2, <2>2 DEF Serve
        <3> QED  BY <1>1, <1>2, <2>2, <3>1, StateMoves DEF Serve
    <2> QED  BY <2>1, <2>2
<1>3. Crash(w) => Moved(w, "dead")
    BY <1>1, StateMoves DEF Crash
<1>4. Hang(w) => Moved(w, "hung")
    BY <1>1, StateMoves DEF Hang
<1>5. EndOfInput(w) => Moved(w, "dead")
    BY <1>1, StateMoves DEF EndOfInput
<1> QED  BY <1>2, <1>3, <1>4, <1>5

\* A worker answers, and dies if nobody can read it.
LEMMA RespondEffect ==
    ASSUME Inv, NEW w \in Numbers, NEW outcome \in {"ok", "error", "garbage"},
           Respond(w, outcome)
    PROVE  /\ process[w].state = "busy" /\ process[w].inbox # <<>>
           /\ outcome = "error" => Head(process[w].inbox).kind = "Expand"
           /\ UNCHANGED callerSide
           /\ \/ compiler \notin Dead /\ Replied(w, "reading", outcome)
              \/ compiler \in Dead /\ \E s \in {"reading", "dead"} : Replied(w, s, outcome)
<1> DEFINE s == IF ReadEndOpen(w) THEN "reading" ELSE "dead"
<1>1. /\ process[w].state = "busy" /\ UNCHANGED callerSide
      /\ outcome = "error" => Head(process[w].inbox).kind = "Expand"
    BY DEF Respond
<1>2. process[w].inbox # <<>>
    BY <1>1 DEF Inv, Pipes
<1>3. s \in States /\ s \in {"reading", "dead"} /\ (compiler \notin Dead => s = "reading")
    BY DEF States, ReadEndOpen
<1>4. process' = [process EXCEPT
        ![w].state = s,
        ![w].inbox = Tail(@),
        ![w].outbox = Append(@, [outcome |-> outcome, id |-> Head(process[w].inbox).id,
                                 call |-> Head(process[w].inbox).call])]
    BY DEF Respond
<1> HIDE DEF s
<1>5. Replied(w, s, outcome)
    BY <1>1, <1>3, <1>4, AnswerIsWritten DEF Inv
<1> QED  BY <1>1, <1>2, <1>3, <1>5

-----------------------------------------------------------------------------
\* The steps, one by one.
LEMMA StepCases ==
    ASSUME NEW P, [Next]_vars,
           \A t \in Threads : \A b \in Binaries : Call(t, b) => P,
           \A t \in Threads : Reuse(t) => P,
           \A t \in Threads : Launch(t) => P,
           Send => P,
           Reject => P,
           MacroFailed => P,
           HelloAcked => P,
           Described => P,
           Misidentified => P,
           ExpansionResult => P,
           Closed => P,
           Timeout => P,
           Stop => P,
           Replaced => P,
           Dismissed => P,
           Exit => P,
           Destroy => P,
           Destroyed => P,
           Exited => P,
           Kill => P,
           \A w \in Numbers : Serve(w) => P,
           \A w \in Numbers : Answer(w) => P,
           \A w \in Numbers : EndOfInput(w) => P,
           \A w \in Numbers : Misbehave(w) => P,
           \A w \in Numbers : Crash(w) => P,
           \A w \in Numbers : Hang(w) => P,
           UNCHANGED vars => P
    PROVE  P
BY DEF Next, HolderStep, ExitStep, WorkerStep, Terminated

\* Faults keep to their bound.
LEMMA FaultsAreCounted ==
    ASSUME Inv, NEW w, Fault(w) PROVE events' \in 0 .. MaxEvents
BY MaxEventsAssumption DEF Fault, Inv, Callers

\* The compiler's variables have their types.
LEMMA CallersStep == Inv /\ [Next]_vars => Callers'
<1> SUFFICES ASSUME Inv, [Next]_vars PROVE Callers'
    OBVIOUS
<1> USE DEF callerVars, holderVars, callerSide
<1>0. 0 \in 0 .. MaxEvents
    BY MaxEventsAssumption
<1> USE <1>0
<1>1. ASSUME NEW t \in Threads, NEW b \in Binaries, Call(t, b) PROVE Callers'
    <2>1. MaxEvents \in Nat
        BY MaxEventsAssumption
    <2>2. [binary |-> b, number |-> events + 1] \in Calls
        BY <1>1, <2>1 DEF Call, Inv, Callers, Calls
    <2> QED  BY <1>1, <2>1, <2>2 DEF Call, Inv, Callers
<1>2. ASSUME NEW t \in Threads, Reuse(t) PROVE Callers'
    <2>1. wants[t].binary \in Binaries /\ PackageOf[wants[t].binary] \in Packages
        BY <1>2, PackageOfAssumption DEF Reuse, Lock, Inv, Callers, Calls
    <2> QED  BY <1>2, <2>1 DEF Reuse, Lock, Inv, Callers, Kinds
<1>3. ASSUME NEW t \in Threads, Launch(t) PROVE Callers'
    <2>0. /\ peer' \in Numbers /\ kind' = "Hello"
          /\ events' = events \/ (events < MaxEvents /\ events' = events + 1)
        <3>1. PICK w \in Numbers, image \in Binaries :
                /\ process[w].state = "unborn" /\ kind' = "Hello" /\ peer' = w
                /\ process' = [process EXCEPT ![w] =
                                 [Unborn EXCEPT !.state = "reading", !.image = image]]
                /\ \/ image = wants[t].binary /\ UNCHANGED <<blamed, events>>
                   \/ /\ image # wants[t].binary /\ events < MaxEvents
                      /\ events' = events + 1
                      /\ blamed' = [blamed EXCEPT ![t] = TRUE]
            BY <1>3, Zenon DEF Launch
        <3> QED  BY ONLY <3>1
    <2>1. events' \in 0 .. MaxEvents /\ peer' \in 0 .. MaxEvents
        BY <2>0, MaxEventsAssumption DEF Inv, Callers, Numbers
    <2> QED  BY <1>3, <2>0, <2>1 DEF Launch, Lock, Inv, Callers, Kinds
<1>4. ASSUME Send PROVE Callers'
    BY <1>4, SendEffect DEF BrokenPipe, Inv, Callers, Dead
<1>5. ASSUME Reject PROVE Callers'
    <2>1. Return(Failed) /\ holder \in Threads /\ events' = events
        BY <1>5, RetireEffect DEF Reject, Received
    <2> QED  BY <2>1 DEF Return, Inv, Callers, Kinds
<1>6. ASSUME MacroFailed PROVE Callers'
    <2>1. Return(Failed) /\ holder \in Threads /\ events' = events
        BY <1>6, ReceivedEffect DEF MacroFailed
    <2> QED  BY <2>1 DEF Return, Inv, Callers, Kinds
<1>7. ASSUME HelloAcked PROVE Callers'
    BY <1>7 DEF HelloAcked, Answered, NextRequest, Inv, Callers, Kinds
<1>8. ASSUME Described PROVE Callers'
    <2>1. holder \in Threads /\ peer \in Numbers /\ events' = events
        BY <1>8, ReceivedEffect DEF Described, Answered
    <2>2. wants[holder].binary \in Binaries /\ PackageOf[wants[holder].binary] \in Packages
        BY <1>8, PackageOfAssumption, HolderTalks, ReceivedEffect DEF Described, Answered, Inv
    <2>3. session' \in [Packages ->
            [identity : Binaries \cup {None}, process : 0 .. MaxEvents]]
        BY <1>8, <2>1, <2>2 DEF Described, Install, StopBefore, Inv, Callers
    <2>4. OldWorker \in 0 .. MaxEvents
        BY <2>2 DEF OldWorker, Inv, Callers
    <2> QED  BY <1>8, <2>1, <2>3, <2>4 DEF Described, NextRequest, StopBefore, Inv, Callers, Kinds
<1>9. ASSUME Misidentified PROVE Callers'
    BY <1>9 DEF Misidentified, Answered, StopBefore, Inv, Callers, Kinds
<1>10. ASSUME ExpansionResult PROVE Callers'
    <2>1. Return(Expanded(process[peer].image, Response.call)) /\ holder \in Threads
          /\ events' = events
        BY <1>10, ReceivedEffect DEF ExpansionResult, Answered
    <2> QED  BY <2>1 DEF Return, Inv, Callers, Kinds
<1>11. ASSUME Closed PROVE Callers'
    <2>1. Return(Failed) /\ holder \in Threads /\ events' = events
        BY <1>11, RetireEffect DEF Closed
    <2> QED  BY <2>1 DEF Return, Inv, Callers, Kinds
<1>12. ASSUME Timeout PROVE Callers'
    <2>1. Return(Failed) /\ holder \in Threads
        BY <1>12, RetireEffect DEF Timeout
    <2>2. events' \in 0 .. MaxEvents
        <3>1. process[peer].state = "hung" \/ events < MaxEvents
            BY <1>12 DEF Timeout
        <3>2. events' = IF process[peer].state = "hung" THEN events ELSE events + 1
            BY ONLY <1>12, Zenon DEF Timeout
        <3> QED  BY <3>1, <3>2, MaxEventsAssumption DEF Inv, Callers
    <2> QED  BY <2>1, <2>2 DEF Return, Inv, Callers, Kinds
<1>13. ASSUME Stop PROVE Callers'
    BY <1>13, StopEffect DEF BrokenPipe, Inv, Callers, Dead
<1>14. ASSUME Replaced PROVE Callers'
    <2>1. peer \in 0 .. MaxEvents /\ holder # None
        BY <1>14 DEF Replaced, Reaped, Inv, Callers, Held
    <2>2. wants[holder].binary \in Binaries /\ PackageOf[wants[holder].binary] \in Packages
        BY <2>1, PackageOfAssumption, HolderTalks DEF Inv
    <2>3. session' \in [Packages ->
            [identity : Binaries \cup {None}, process : 0 .. MaxEvents]]
        BY <1>14, <2>1, <2>2 DEF Replaced, Install, Inv, Callers
    <2> QED  BY <1>14, <2>3 DEF Replaced, Inv, Callers, Kinds
<1>15. ASSUME Dismissed PROVE Callers'
    <2>1. holder # None
        BY <1>15 DEF Dismissed, Reaped, Inv, Held
    <2>2. Return(Failed) /\ holder \in Threads /\ events' = events
        BY <1>15, <2>1, HolderTalks DEF Dismissed, Inv
    <2> QED  BY <2>2 DEF Return, Inv, Callers, Kinds
<1>16. ASSUME Exit PROVE Callers'
    BY <1>16 DEF Exit, Inv, Callers
<1>17. ASSUME Destroy PROVE Callers'
    BY <1>17 DEF Destroy, Inv, Callers
<1>18. ASSUME Destroyed PROVE Callers'
    BY <1>18 DEF Destroyed, Inv, Callers
<1>19. ASSUME Exited PROVE Callers'
    BY <1>19 DEF Exited, Inv, Callers
<1>20. ASSUME Kill PROVE Callers'
    <2>1. events' \in 0 .. MaxEvents /\ compiler' \in Dead
        BY <1>20, MaxEventsAssumption DEF Kill, Inv, Callers, Dead
    <2> QED  BY <1>20, <2>1 DEF Kill, Inv, Callers
<1>21. ASSUME NEW w \in Numbers, Serve(w) PROVE Callers'
    BY <1>21 DEF Serve, Inv, Callers
<1>22. ASSUME NEW w \in Numbers, Answer(w) PROVE Callers'
    BY <1>22 DEF Answer, Respond, Inv, Callers
<1>23. ASSUME NEW w \in Numbers, EndOfInput(w) PROVE Callers'
    BY <1>23 DEF EndOfInput, Inv, Callers
<1>24. ASSUME NEW w \in Numbers, Misbehave(w) PROVE Callers'
    BY <1>24, FaultsAreCounted DEF Misbehave, Respond, Inv, Callers
<1>25. ASSUME NEW w \in Numbers, Crash(w) PROVE Callers'
    BY <1>25, FaultsAreCounted DEF Crash, Inv, Callers
<1>26. ASSUME NEW w \in Numbers, Hang(w) PROVE Callers'
    BY <1>26, FaultsAreCounted DEF Hang, Inv, Callers
<1>27. ASSUME UNCHANGED vars PROVE Callers'
    BY <1>27 DEF vars, Inv, Callers
<1> HIDE DEF callerVars, holderVars, callerSide
<1> QED  BY <1>1, <1>2, <1>3, <1>4, <1>5, <1>6, <1>7, <1>8, <1>9, <1>10, <1>11, <1>12,
            <1>13, <1>14, <1>15, <1>16, <1>17, <1>18, <1>19, <1>20, <1>21, <1>22, <1>23,
            <1>24, <1>25, <1>26, <1>27, StepCases

\* The workers and what is in their pipes have theirs.
LEMMA PipesStep == Inv /\ [Next]_vars => Pipes'
<1> SUFFICES ASSUME Inv, [Next]_vars PROVE Pipes'
    OBVIOUS
<1> USE DEF callerVars, holderVars, callerSide
<1>1. ASSUME NEW t \in Threads, NEW b \in Binaries, Call(t, b) PROVE Pipes'
    BY <1>1 DEF Call, Inv, Pipes
<1>2. ASSUME NEW t \in Threads, Reuse(t) PROVE Pipes'
    BY <1>2 DEF Reuse, Lock, Inv, Pipes
<1>3. ASSUME NEW t \in Threads, Launch(t) PROVE Pipes'
    BY <1>3, LaunchEffect DEF Inv, Pipes
<1>4. ASSUME Send PROVE Pipes'
    BY <1>4, SendEffect, OneMessage DEF BrokenPipe, Pushed, Inv, Pipes
<1>5. ASSUME Reject PROVE Pipes'
    BY <1>5, RetireEffect DEF Reject, Received, Moved, Inv, Pipes
<1>6. ASSUME MacroFailed PROVE Pipes'
    BY <1>6, ReceivedEffect DEF MacroFailed, Popped, Inv, Pipes
<1>7. ASSUME HelloAcked PROVE Pipes'
    BY <1>7, ReceivedEffect DEF HelloAcked, Answered, Popped, Inv, Pipes
<1>8. ASSUME Described PROVE Pipes'
    BY <1>8, ReceivedEffect DEF Described, Answered, Popped, Inv, Pipes
<1>9. ASSUME Misidentified PROVE Pipes'
    BY <1>9, ReceivedEffect DEF Misidentified, Answered, Popped, Inv, Pipes
<1>10. ASSUME ExpansionResult PROVE Pipes'
    BY <1>10, ReceivedEffect DEF ExpansionResult, Answered, Popped, Inv, Pipes
<1>11. ASSUME Closed PROVE Pipes'
    BY <1>11, RetireEffect DEF Closed, Moved, Inv, Pipes
<1>12. ASSUME Timeout PROVE Pipes'
    BY <1>12, RetireEffect DEF Timeout, Moved, Inv, Pipes
<1>13. ASSUME Stop PROVE Pipes'
    BY <1>13, StopEffect DEF BrokenPipe, Pushed, Inv, Pipes
<1>14. ASSUME Replaced PROVE Pipes'
    BY <1>14, ReapedEffect DEF Replaced, Moved, Inv, Pipes
<1>15. ASSUME Dismissed PROVE Pipes'
    BY <1>15, ReapedEffect DEF Dismissed, Moved, Inv, Pipes
<1>16. ASSUME Exit PROVE Pipes'
    BY <1>16 DEF Exit, Inv, Pipes
<1>17. ASSUME Destroy PROVE Pipes'
    BY <1>17 DEF Destroy, Inv, Pipes
<1>18. ASSUME Destroyed PROVE Pipes'
    BY <1>18, ReapedEffect DEF Destroyed, Moved, Inv, Pipes
<1>19. ASSUME Exited PROVE Pipes'
    BY <1>19 DEF Exited, Inv, Pipes
<1>20. ASSUME Kill PROVE Pipes'
    BY <1>20 DEF Kill, Inv, Pipes
<1>21. ASSUME NEW w \in Numbers, Serve(w) PROVE Pipes'
    <2>1. process[w].inbox \in Inboxes
        BY DEF Inv, Pipes, Workers
    <2>2. process[w].inbox # <<>>
        BY <1>21 DEF Serve
    <2>3. Head(process[w].inbox).kind # "Shutdown" => Head(process[w].inbox) \in Asked
        BY <2>1, <2>2, InboxHead DEF Told
    <2> QED  BY <1>21, <2>2, <2>3, WorkerEffect DEF Moved, Inv, Pipes
<1>22. ASSUME NEW w \in Numbers, Answer(w) PROVE Pipes'
    <2>1. Respond(w, "ok")
        BY <1>22 DEF Answer
    <2>2. PICK s \in {"reading", "dead"} : Replied(w, s, "ok")
        BY <2>1, RespondEffect
    <2> QED  BY <2>2 DEF Replied, Inv, Pipes
<1>23. ASSUME NEW w \in Numbers, EndOfInput(w) PROVE Pipes'
    BY <1>23, WorkerEffect DEF Moved, Inv, Pipes
<1>24. ASSUME NEW w \in Numbers, Misbehave(w) PROVE Pipes'
    <2>1. PICK o \in {"error", "garbage"} : Respond(w, o)
        BY <1>24 DEF Misbehave
    <2>2. PICK s \in {"reading", "dead"} : Replied(w, s, o)
        BY <2>1, RespondEffect
    <2> QED  BY <2>2 DEF Replied, Inv, Pipes
<1>25. ASSUME NEW w \in Numbers, Crash(w) PROVE Pipes'
    BY <1>25, WorkerEffect DEF Moved, Inv, Pipes
<1>26. ASSUME NEW w \in Numbers, Hang(w) PROVE Pipes'
    BY <1>26, WorkerEffect, ZenonT(60) DEF Moved, Hang, Inv, Pipes
<1>27. ASSUME UNCHANGED vars PROVE Pipes'
    BY <1>27 DEF vars, Inv, Pipes
<1> HIDE DEF callerVars, holderVars, callerSide
<1> QED  BY <1>1, <1>2, <1>3, <1>4, <1>5, <1>6, <1>7, <1>8, <1>9, <1>10, <1>11, <1>12,
            <1>13, <1>14, <1>15, <1>16, <1>17, <1>18, <1>19, <1>20, <1>21, <1>22, <1>23,
            <1>24, <1>25, <1>26, <1>27, StepCases

\* What workers do among themselves changes nothing for the holder.
LEMMA RunningKept ==
    ASSUME Inv, UNCHANGED callerSide,
           \A v \in Numbers : Alive(v) \/ process[v].state = "dead" =>
              (Alive(v))' \/ process'[v].state = "dead"
    PROVE  Held'
<1> USE DEF callerSide, holderVars
<1>1. ASSUME NEW v \in 0 .. MaxEvents, Running(v)
      PROVE  v # 0 /\ ((Alive(v))' \/ process'[v].state = "dead")
    BY <1>1 DEF Running, Numbers
<1>2. peer \in 0 .. MaxEvents /\ victim \in 0 .. MaxEvents
    BY DEF Inv, Callers
<1> QED  BY <1>1, <1>2 DEF Inv, Held, Running

\* Who holds the mutex, or is to be stopped, is as it should be.
LEMMA HeldStep == Inv /\ [Next]_vars => Held'
<1> SUFFICES ASSUME Inv, [Next]_vars PROVE Held'
    OBVIOUS
<1> USE DEF callerVars, holderVars, callerSide
<1>1. ASSUME NEW t \in Threads, NEW b \in Binaries, Call(t, b) PROVE Held'
    <2>1. holder # None => wants'[holder] = wants[holder]
        BY <1>1 DEF Call, Inv, Callers, Held
    <2> QED  BY <1>1, <2>1 DEF Call, Inv, Held, Running, Alive
<1>2. ASSUME NEW t \in Threads, Reuse(t) PROVE Held'
    <2>1. Running(session[PackageOf[wants[t].binary]].process)
        BY <1>2 DEF Reuse, Usable
    <2> QED  BY <1>2, <2>1, NoneAssumption DEF Reuse, Lock, Inv, Held, Running, Alive
<1>3. ASSUME NEW t \in Threads, Launch(t) PROVE Held'
    <2>1. peer' \in Numbers /\ process'[peer'].state = "reading"
        BY <1>3, LaunchEffect
    <2> QED  BY <1>3, <2>1, NumbersAreNatural, NoneAssumption
             DEF Launch, Lock, Inv, Held, Running, Alive
<1>4. ASSUME Send PROVE Held'
    BY <1>4, SendEffect DEF BrokenPipe, Pushed, Inv, Held, Running, Alive
<1>5. ASSUME Reject PROVE Held'
    BY <1>5, RetireEffect DEF Reject, Received, Awaiting, Return, Inv, Held
<1>6. ASSUME MacroFailed PROVE Held'
    BY <1>6, ReceivedEffect DEF MacroFailed, Return, Inv, Held
<1>7. ASSUME HelloAcked PROVE Held'
    <2>1. Popped(peer) /\ holder # None /\ compiler = "running" /\ at = "await"
        BY <1>7, ReceivedEffect DEF HelloAcked, Answered
    <2> QED  BY <1>7, <2>1 DEF HelloAcked, NextRequest, Popped, Inv, Held, Running, Alive
<1>8. ASSUME Described PROVE Held'
    <2>1. /\ Popped(peer) /\ holder # None /\ compiler = "running" /\ at = "await"
          /\ holder \in Threads
        BY <1>8, ReceivedEffect DEF Described, Answered
    <2>2. PackageOf[wants[holder].binary] \in Packages
        BY <2>1, HolderTalks, PackageOfAssumption DEF Inv
    <2>3. Running(OldWorker) => OldWorker \in Numbers
        BY <2>2 DEF OldWorker, Running, Inv, Callers, Numbers
    <2>4. \A v \in Numbers : process'[v].state = process[v].state
        BY <2>1 DEF Popped
    <2>5. peer \in Numbers
        BY <2>1, HolderTalks DEF Inv
    <2> QED  BY <1>8, <2>1, <2>3, <2>4, <2>5
             DEF Described, Install, StopBefore, NextRequest, Inv, Held, Running, Alive
<1>9. ASSUME Misidentified PROVE Held'
    <2>1. /\ Popped(peer) /\ holder # None /\ compiler = "running" /\ at = "await"
        BY <1>9, ReceivedEffect DEF Misidentified, Answered
    <2> QED  BY <1>9, <2>1 DEF Misidentified, StopBefore, Popped, Inv, Held, Running, Alive
<1>10. ASSUME ExpansionResult PROVE Held'
    BY <1>10, ReceivedEffect DEF ExpansionResult, Answered, Return, Inv, Held
<1>11. ASSUME Closed PROVE Held'
    BY <1>11, RetireEffect DEF Closed, Awaiting, Return, Inv, Held
<1>12. ASSUME Timeout PROVE Held'
    BY <1>12, RetireEffect DEF Timeout, Awaiting, Return, Inv, Held
<1>13. ASSUME Stop PROVE Held'
    <2>1. holder # None => peer \in Numbers
        BY HolderTalks DEF Inv
    <2>2. victim \in Numbers /\ at = "stop" /\ compiler \in {"running", "exiting"}
        BY <1>13, StopEffect
    <2>3. CASE BrokenPipe
        BY <2>2, <2>3 DEF BrokenPipe, Inv, Held, Running, Alive
    <2>4. CASE ~BrokenPipe
        <3>1. /\ \A v \in Numbers : process'[v].state = process[v].state
              /\ at' = "reap"
              /\ UNCHANGED <<compiler, callerVars, holder, kind, peer, victim, session, events>>
            BY <1>13, <2>4, StopEffect DEF Pushed
        <3> QED  BY <2>1, <2>2, <3>1 DEF Inv, Held, Running, Alive
    <2> QED  BY <2>3, <2>4
<1>14. ASSUME Replaced PROVE Held'
    <2>1. at = "reap" /\ Moved(victim, "reaped") /\ victim \in Numbers
        BY <1>14, ReapedEffect DEF Replaced
    <2>2. holder # None /\ Running(peer)
        BY <1>14, <2>1 DEF Replaced, Inv, Held
    <2>3. peer \in Numbers
        BY <2>2, HolderTalks DEF Inv
    <2> QED  BY <1>14, <2>1, <2>2, <2>3 DEF Replaced, Moved, Inv, Held, Running, Alive
<1>15. ASSUME Dismissed PROVE Held'
    BY <1>15, ReapedEffect DEF Dismissed, Return, Inv, Held
<1>16. ASSUME Exit PROVE Held'
    <2>1. holder = None
        BY <1>16 DEF Exit, Inv, Callers, Held
    <2> QED  BY <1>16, <2>1 DEF Exit, Inv, Held, Running, Alive
<1>17. ASSUME Destroy PROVE Held'
    BY <1>17 DEF Destroy, Inv, Held, Running, Alive
<1>18. ASSUME Destroyed PROVE Held'
    <2>1. holder = None
        BY <1>18 DEF Destroyed, Inv, Held
    <2> QED  BY <1>18, <2>1 DEF Destroyed, Inv, Held
<1>19. ASSUME Exited PROVE Held'
    BY <1>19 DEF Exited, Inv, Held
<1>20. ASSUME Kill PROVE Held'
    BY <1>20 DEF Kill, Dead, Inv, Held, Running, Alive
<1>21. ASSUME NEW w \in Numbers, Serve(w) PROVE Held'
    BY <1>21, WorkerEffect, RunningKept DEF Serve, Moved, Alive
<1>22. ASSUME NEW w \in Numbers, Answer(w) PROVE Held'
    <2>1. Respond(w, "ok")
        BY <1>22 DEF Answer
    <2>2. PICK s \in {"reading", "dead"} : Replied(w, s, "ok")
        BY <2>1, RespondEffect
    <2> QED  BY <2>1, <2>2, RunningKept DEF Respond, Replied, Alive
<1>23. ASSUME NEW w \in Numbers, EndOfInput(w) PROVE Held'
    BY <1>23, WorkerEffect, RunningKept DEF EndOfInput, Moved, Alive
<1>24. ASSUME NEW w \in Numbers, Misbehave(w) PROVE Held'
    <2>1. PICK o \in {"error", "garbage"} : Respond(w, o)
        BY <1>24 DEF Misbehave
    <2>2. PICK s \in {"reading", "dead"} : Replied(w, s, o)
        BY <2>1, RespondEffect
    <2> QED  BY <2>1, <2>2, RunningKept DEF Respond, Replied, Alive
<1>25. ASSUME NEW w \in Numbers, Crash(w) PROVE Held'
    BY <1>25, WorkerEffect, RunningKept DEF Crash, Moved, Alive
<1>26. ASSUME NEW w \in Numbers, Hang(w) PROVE Held'
    BY <1>26, WorkerEffect, RunningKept DEF Hang, Moved, Alive
<1>27. ASSUME UNCHANGED vars PROVE Held'
    BY <1>27 DEF vars, Inv, Held, Running, Alive
<1> HIDE DEF callerVars, holderVars, callerSide
<1> QED  BY <1>1, <1>2, <1>3, <1>4, <1>5, <1>6, <1>7, <1>8, <1>9, <1>10, <1>11, <1>12,
            <1>13, <1>14, <1>15, <1>16, <1>17, <1>18, <1>19, <1>20, <1>21, <1>22, <1>23,
            <1>24, <1>25, <1>26, <1>27, StepCases

\* Whoever was born is, and is of the same build.
BornAsBefore ==
  \A w \in Numbers : /\ process[w].state # "unborn" => process'[w].state # "unborn"
                     /\ process'[w].image = process[w].image

\* Then the sessions stay what they are.
LEMMA BirthsKept ==
    ASSUME Inv, BornAsBefore, session' = session
    PROVE  \A p \in Packages : session'[p].process # 0 =>
             /\ process'[session'[p].process].state # "unborn"
             /\ process'[session'[p].process].image = session'[p].identity
<1>1. \A p \in Packages : session[p].process # 0 => session[p].process \in Numbers
    BY DEF Inv, Callers, Numbers
<1> QED  BY <1>1 DEF BornAsBefore, Inv, Served

\* Nor does a worker's own step disturb what the holder does.
LEMMA WorkersApart ==
    ASSUME Inv, BornAsBefore, UNCHANGED callerSide PROVE Served'
<1> USE DEF callerSide, holderVars
<1>1. holder # None => peer \in Numbers
    BY HolderTalks DEF Inv
<1>2. holder # None => process'[peer].image = process[peer].image
    BY <1>1 DEF BornAsBefore
<1> QED  BY <1>2, BirthsKept DEF Inv, Served

\* The worker that was described becomes the package's.
LEMMA Installed ==
    ASSUME Inv, BornAsBefore, Install, UNCHANGED <<wants, holder, peer>>,
           kind' = "Expand", at' = "send", holder # None, peer \in Numbers,
           PackageOf[wants[holder].binary] \in Packages,
           process[peer].image = wants[holder].binary,
           process[peer].state # "unborn", peer # 0
    PROVE  Served'
<1> DEFINE q == PackageOf[wants[holder].binary]
<1>1. /\ session'[q] = [identity |-> wants[holder].binary, process |-> peer]
      /\ \A p \in Packages \ {q} : session'[p] = session[p]
    BY DEF Install, Inv, Callers
<1>2. /\ process'[peer].state # "unborn"
      /\ process'[peer].image = wants[holder].binary
    BY DEF BornAsBefore
<1>3. \A p \in Packages \ {q} : session[p].process # 0 =>
        /\ process'[session[p].process].state # "unborn"
        /\ process'[session[p].process].image = session[p].identity
    <2>1. \A p \in Packages : session[p].process # 0 => session[p].process \in Numbers
        BY DEF Inv, Callers, Numbers
    <2> QED  BY <2>1 DEF BornAsBefore, Inv, Served
<1> QED  BY <1>1, <1>2, <1>3 DEF Served

\* Sessions name workers of the build they say.
LEMMA ServedStep == Inv /\ [Next]_vars => Served'
<1> SUFFICES ASSUME Inv, [Next]_vars PROVE Served'
    OBVIOUS
<1> USE DEF callerVars, holderVars, callerSide
<1>1. ASSUME NEW t \in Threads, NEW b \in Binaries, Call(t, b) PROVE Served'
    <2>1. holder # None => wants'[holder] = wants[holder]
        BY <1>1 DEF Call, Inv, Callers, Held
    <2> QED  BY <1>1, <2>1 DEF Call, Inv, Served
<1>2. ASSUME NEW t \in Threads, Reuse(t) PROVE Served'
    <2>1. PackageOf[wants[t].binary] \in Packages
        BY <1>2, PackageOfAssumption DEF Reuse, Lock, Inv, Callers, Calls
    <2>2. session[PackageOf[wants[t].binary]].identity = wants[t].binary
        BY <1>2 DEF Reuse, Usable
    <2>3. session[PackageOf[wants[t].binary]]
            = [identity |-> wants[t].binary,
               process |-> session[PackageOf[wants[t].binary]].process]
        BY <2>1, <2>2 DEF Inv, Callers
    <2> QED  BY <1>2, <2>3 DEF Reuse, Lock, Inv, Served
<1>3. ASSUME NEW t \in Threads, Launch(t) PROVE Served'
    <2>1. PICK w \in Numbers : /\ process[w].state = "unborn" /\ kind' = "Hello"
                               /\ peer' = w
                               /\ \A v \in Numbers \ {w} : process'[v] = process[v]
        BY <1>3, LaunchEffect
    <2>2. \A p \in Packages : session[p].process # 0 => session[p].process \in Numbers \ {w}
        BY <2>1 DEF Inv, Callers, Served, Numbers
    <2>3. \A p \in Packages : session[p].process # w
        BY <2>2, NumbersAreNatural
    <2>4. /\ session' = session /\ wants' = wants /\ holder' = t /\ at' = "send"
        BY <1>3 DEF Launch, Lock
    <2>5. \A p \in Packages : session[p].process # 0 =>
            process'[session[p].process] = process[session[p].process]
        BY <2>1, <2>2
    <2> QED  BY <2>1, <2>3, <2>4, <2>5 DEF Inv, Served
<1>4. ASSUME Send PROVE Served'
    <2>1. BornAsBefore /\ UNCHANGED <<wants, session, holder, kind, peer, victim>>
          /\ at = "send" /\ at' \in {"send", "await"}
        BY <1>4, SendEffect DEF BrokenPipe, Pushed, BornAsBefore
    <2> QED  BY <2>1, BirthsKept DEF Inv, Served
<1>5. ASSUME Reject PROVE Served'
    <2>1. BornAsBefore /\ session' = session /\ holder' = None
        BY <1>5, RetireEffect DEF Reject, Received, Moved, Return, BornAsBefore
    <2> QED  BY <2>1, BirthsKept DEF Served
<1>6. ASSUME MacroFailed PROVE Served'
    <2>1. BornAsBefore /\ session' = session /\ holder' = None
        BY <1>6, ReceivedEffect DEF MacroFailed, Popped, Return, BornAsBefore
    <2> QED  BY <2>1, BirthsKept DEF Served
<1>7. ASSUME HelloAcked PROVE Served'
    <2>1. BornAsBefore /\ session' = session
        BY <1>7, ReceivedEffect DEF HelloAcked, Answered, Popped, BornAsBefore
    <2>2. holder # None /\ at = "await" /\ kind = "Hello"
        BY <1>7, ReceivedEffect DEF HelloAcked, Answered
    <2> QED  BY <1>7, <2>1, <2>2, BirthsKept DEF HelloAcked, NextRequest, Inv, Served
<1>8. ASSUME Described PROVE Served'
    <2>1. /\ BornAsBefore /\ holder # None /\ holder \in Threads /\ peer \in Numbers
          /\ compiler = "running" /\ at = "await"
        BY <1>8, ReceivedEffect DEF Described, Answered, Popped, BornAsBefore
    <2>2. /\ PackageOf[wants[holder].binary] \in Packages
          /\ process[peer].image = wants[holder].binary
          /\ process[peer].state # "unborn" /\ peer # 0
        BY <1>8, <2>1, HolderTalks, PackageOfAssumption, NumbersAreNatural
           DEF Described, SameIdentity, Inv, Held, Running, Alive
    <2>3. CASE Running(OldWorker)
        <3>1. /\ session' = session /\ wants' = wants /\ holder' = holder /\ kind' = kind
              /\ peer' = peer /\ victim' = OldWorker /\ at' = "stop"
              /\ kind = "Describe"
            BY <1>8, <2>3 DEF Described, Answered, StopBefore
        <3>2. \A v \in Numbers : process'[v].image = process[v].image
            BY <2>1 DEF BornAsBefore
        <3>3. OldWorker # peer
            BY <2>1, <2>2, <3>1 DEF OldWorker, Inv, Served
        <3> QED  BY <2>1, <2>2, <3>1, <3>2, <3>3, BirthsKept DEF OldWorker, Served
    <2>4. CASE ~Running(OldWorker)
        <3>1. Install /\ UNCHANGED <<wants, holder, peer>> /\ kind' = "Expand" /\ at' = "send"
            BY <1>8, <2>4 DEF Described, NextRequest
        <3> QED  BY <2>1, <2>2, <3>1, Installed
    <2> QED  BY <2>3, <2>4
<1>9. ASSUME Misidentified PROVE Served'
    <2>1. BornAsBefore /\ session' = session /\ peer \in Numbers
        BY <1>9, ReceivedEffect DEF Misidentified, Answered, Popped, StopBefore, BornAsBefore
    <2> QED  BY <1>9, <2>1, BirthsKept
             DEF Misidentified, Answered, SameIdentity, StopBefore, BornAsBefore, Served
<1>10. ASSUME ExpansionResult PROVE Served'
    <2>1. BornAsBefore /\ session' = session /\ holder' = None
        BY <1>10, ReceivedEffect DEF ExpansionResult, Answered, Popped, Return, BornAsBefore
    <2> QED  BY <2>1, BirthsKept DEF Served
<1>11. ASSUME Closed PROVE Served'
    <2>1. BornAsBefore /\ session' = session /\ holder' = None
        BY <1>11, RetireEffect DEF Closed, Moved, Return, BornAsBefore
    <2> QED  BY <2>1, BirthsKept DEF Served
<1>12. ASSUME Timeout PROVE Served'
    <2>1. BornAsBefore /\ session' = session /\ holder' = None
        BY <1>12, RetireEffect DEF Timeout, Moved, Return, BornAsBefore
    <2> QED  BY <2>1, BirthsKept DEF Served
<1>13. ASSUME Stop PROVE Served'
    <2>1. BornAsBefore /\ UNCHANGED <<wants, session, holder, kind, peer, victim>>
          /\ at = "stop" /\ at' \in {"stop", "reap"}
        BY <1>13, StopEffect DEF BrokenPipe, Pushed, BornAsBefore
    <2>2. holder # None => peer \in Numbers
        BY HolderTalks DEF Inv
    <2> QED  BY <2>1, <2>2, BirthsKept DEF BornAsBefore, Inv, Served
<1>14. ASSUME Replaced PROVE Served'
    <2>1. /\ at = "reap" /\ Moved(victim, "reaped") /\ victim \in Numbers
          /\ victim # peer /\ compiler = "running"
        BY <1>14, ReapedEffect DEF Replaced
    <2>2. BornAsBefore
        BY <2>1 DEF Moved, BornAsBefore
    <2>3. holder # None
        BY <2>1 DEF Inv, Held
    <2>4. holder \in Threads /\ peer \in Numbers /\ Running(peer)
        BY <2>3, HolderTalks DEF Inv, Held
    <2>5. /\ PackageOf[wants[holder].binary] \in Packages
          /\ process[peer].image = wants[holder].binary
          /\ process[peer].state # "unborn" /\ peer # 0
        BY <2>1, <2>3, <2>4, HolderTalks, PackageOfAssumption DEF Inv, Served, Running, Alive
    <2>6. Install /\ UNCHANGED <<wants, holder, peer>> /\ kind' = "Expand" /\ at' = "send"
        BY <1>14 DEF Replaced
    <2> QED  BY <2>2, <2>3, <2>4, <2>5, <2>6, Installed
<1>15. ASSUME Dismissed PROVE Served'
    <2>1. BornAsBefore /\ session' = session /\ holder' = None
        BY <1>15, ReapedEffect DEF Dismissed, Moved, Return, BornAsBefore
    <2> QED  BY <2>1, BirthsKept DEF Served
<1>16. ASSUME Exit PROVE Served'
    BY <1>16 DEF Exit, Inv, Served
<1>17. ASSUME Destroy PROVE Served'
    <2>1. holder = None
        BY <1>17 DEF Destroy, Inv, Held
    <2> QED  BY <1>17, <2>1 DEF Destroy, Inv, Served
<1>18. ASSUME Destroyed PROVE Served'
    <2>1. BornAsBefore /\ session' = session /\ holder' = None
        BY <1>18, ReapedEffect DEF Destroyed, Moved, BornAsBefore, Inv, Held
    <2> QED  BY <2>1, BirthsKept DEF Served
<1>19. ASSUME Exited PROVE Served'
    BY <1>19 DEF Exited, Inv, Served
<1>20. ASSUME Kill PROVE Served'
    BY <1>20 DEF Kill, Inv, Served
<1>21. ASSUME NEW w \in Numbers, Serve(w) PROVE Served'
    BY <1>21, WorkerEffect, WorkersApart DEF Serve, Moved, BornAsBefore
<1>22. ASSUME NEW w \in Numbers, Answer(w) PROVE Served'
    <2>1. Respond(w, "ok")
        BY <1>22 DEF Answer
    <2>2. PICK s \in {"reading", "dead"} : Replied(w, s, "ok")
        BY <2>1, RespondEffect
    <2>3. BornAsBefore
        BY <2>1, <2>2 DEF Respond, Replied, BornAsBefore
    <2> QED  BY <2>1, <2>3, WorkersApart DEF Respond
<1>23. ASSUME NEW w \in Numbers, EndOfInput(w) PROVE Served'
    BY <1>23, WorkerEffect, WorkersApart DEF EndOfInput, Moved, Alive, BornAsBefore
<1>24. ASSUME NEW w \in Numbers, Misbehave(w) PROVE Served'
    <2>1. PICK o \in {"error", "garbage"} : Respond(w, o)
        BY <1>24 DEF Misbehave
    <2>2. PICK s \in {"reading", "dead"} : Replied(w, s, o)
        BY <2>1, RespondEffect
    <2>3. BornAsBefore
        BY <2>1, <2>2 DEF Respond, Replied, BornAsBefore
    <2> QED  BY <2>1, <2>3, WorkersApart DEF Respond
<1>25. ASSUME NEW w \in Numbers, Crash(w) PROVE Served'
    BY <1>25, WorkerEffect, WorkersApart DEF Crash, Moved, Alive, BornAsBefore
<1>26. ASSUME NEW w \in Numbers, Hang(w) PROVE Served'
    BY <1>26, WorkerEffect, WorkersApart DEF Hang, Moved, Alive, BornAsBefore
<1>27. ASSUME UNCHANGED vars PROVE Served'
    BY <1>27 DEF vars, Inv, Served
<1> HIDE DEF callerVars, holderVars, callerSide
<1> QED  BY <1>1, <1>2, <1>3, <1>4, <1>5, <1>6, <1>7, <1>8, <1>9, <1>10, <1>11, <1>12,
            <1>13, <1>14, <1>15, <1>16, <1>17, <1>18, <1>19, <1>20, <1>21, <1>22, <1>23,
            <1>24, <1>25, <1>26, <1>27, StepCases

\* A worker whose request and answer have been read has nothing more to do.
LEMMA Drained ==
    ASSUME Inv, NEW w \in Numbers, Running(w), process[w].inbox = <<>>
    PROVE  process[w].state \in {"reading", "dead"}
BY NumbersAreNatural DEF Inv, Pipes, Running, Alive

\* A worker that only changes its state keeps its mail; if it is busy or hangs
\* it is the one that was asked.
LEMMA OneWorkerMoves ==
    ASSUME Inv, NEW w \in Numbers, NEW s \in {"busy", "hung", "dead"}, Alive(w),
           Moved(w, s), UNCHANGED callerSide,
           s # "dead" /\ compiler \notin Dead => at = "await" /\ w = peer
    PROVE  Mail'
<1> USE DEF callerSide, holderVars
<1>1. SUFFICES ASSUME compiler \notin Dead, NEW v \in Numbers, (Running(v))'
               PROVE  /\ at = "await" /\ v = peer => (Asking(v))'
                      /\ at = "reap" /\ v = victim => (Leaving(v))'
                      /\ ~(at = "await" /\ v = peer) /\ ~(at = "reap" /\ v = victim)
                            => (Resting(v))'
    BY DEF Mail
<1>2. Running(v)
    BY <1>1, NumbersAreNatural DEF Moved, Running, Alive
<1>3. /\ process'[v].inbox = process[v].inbox /\ process'[v].outbox = process[v].outbox
      /\ process'[v].nextId = process[v].nextId
      /\ v # w => process'[v].state = process[v].state
      /\ v = w => process'[v].state = s
    BY DEF Moved
<1>4. at = "await" => at # "reap"
    OBVIOUS
<1> QED  BY <1>1, <1>2, <1>3, <1>4 DEF Inv, Mail, Asking, Leaving, Resting

\* A worker answers only what it was asked.
LEMMA ResponseIsExpected ==
    ASSUME Inv, NEW w \in Numbers, NEW o \in {"ok", "error", "garbage"}, Respond(w, o)
    PROVE  Mail'
<1> USE DEF callerSide, holderVars
<1>1. SUFFICES ASSUME compiler \notin Dead PROVE Mail'
    BY DEF Mail, Respond
<1>2. /\ process[w].state = "busy" /\ process[w].inbox # <<>> /\ UNCHANGED callerSide
      /\ o = "error" => Head(process[w].inbox).kind = "Expand"
      /\ Replied(w, "reading", o)
    BY <1>1, RespondEffect
<1>3. Running(w)
    BY <1>2, NumbersAreNatural DEF Running, Alive
<1>4. at = "await" /\ w = peer /\ Asking(w)
    BY <1>1, <1>2, <1>3 DEF Inv, Mail, Leaving, Resting
<1>5. (Asking(w))'
    BY <1>2, <1>4 DEF Replied, Asking
<1>6. \A v \in Numbers \ {w} : (Running(v))' => (Resting(v))'
    <2>1. \A v \in Numbers \ {w} : process'[v] = process[v]
        BY <1>2 DEF Replied
    <2> QED  BY <1>1, <1>4, <2>1 DEF Inv, Mail, Running, Alive, Resting
<1> QED  BY <1>2, <1>4, <1>5, <1>6 DEF Mail

\* What is in the pipes stays what the holder expects.
LEMMA MailStep == Inv /\ [Next]_vars => Mail'
<1> SUFFICES ASSUME Inv, [Next]_vars PROVE Mail'
    OBVIOUS
<1> USE DEF callerVars, holderVars, callerSide
<1>1. ASSUME NEW t \in Threads, NEW b \in Binaries, Call(t, b) PROVE Mail'
    <2>1. holder # None => wants'[holder] = wants[holder]
        BY <1>1 DEF Call, Inv, Callers, Held
    <2>2. at = "await" => holder # None
        BY DEF Inv, Held
    <2> QED  BY <1>1, <2>1, <2>2 DEF Call, Inv, Mail, Running, Alive, Asking, Leaving, Resting
<1>2. ASSUME NEW t \in Threads, Reuse(t) PROVE Mail'
    <2>1. at = "idle" /\ compiler = "running" /\ at' = "send"
        BY <1>2 DEF Reuse, Lock, Inv, Held
    <2> QED  BY <1>2, <2>1 DEF Reuse, Inv, Mail, Running, Alive, Resting, Dead
<1>3. ASSUME NEW t \in Threads, Launch(t) PROVE Mail'
    <2>1. at = "idle" /\ compiler = "running" /\ at' = "send"
        BY <1>3 DEF Launch, Lock, Inv, Held
    <2>2. PICK w \in Numbers : /\ process'[w].state = "reading"
                               /\ process'[w].inbox = <<>> /\ process'[w].outbox = <<>>
                               /\ \A v \in Numbers \ {w} : process'[v] = process[v]
        BY <1>3, LaunchEffect
    <2>3. \A v \in Numbers : Running(v) => Resting(v)
        BY <2>1 DEF Inv, Mail, Dead
    <2>4. \A v \in Numbers : (Running(v))' => (Resting(v))'
        BY <2>2, <2>3 DEF Running, Alive, Resting
    <2> QED  BY <2>1, <2>4 DEF Mail
<1>4. ASSUME Send PROVE Mail'
    <2>1. compiler = "running" /\ at = "send" /\ peer \in Numbers
        BY <1>4, SendEffect
    <2>2. CASE BrokenPipe
        BY <2>2 DEF BrokenPipe, Mail, Dead
    <2>3. CASE ~BrokenPipe
        <3> DEFINE m == [kind |-> kind, id |-> process[peer].nextId, call |-> wants[holder]]
        <3>1. /\ Pushed(peer, m) /\ m \in Asked /\ process[peer].outbox = <<>>
              /\ at' = "await" /\ peer' = peer /\ kind' = kind /\ holder' = holder
              /\ wants' = wants
            BY <1>4, <2>3, SendEffect
        <3>2. \A v \in Numbers : Running(v) => Resting(v)
            BY <2>1 DEF Inv, Mail, Dead
        <3>3. (Asking(peer))'
            <4>1. m.kind = kind /\ m.id = process[peer].nextId /\ m.call = wants[holder]
                OBVIOUS
            <4>2. process[peer].nextId \in Nat
                BY <2>1 DEF Inv, Pipes, Workers
            <4> HIDE DEF m
            <4> QED  BY <3>1, <4>1, <4>2 DEF Pushed, Asking
        <3>4. \A v \in Numbers \ {peer} : (Running(v))' => (Resting(v))'
            <4> HIDE DEF m
            <4> QED  BY <3>1, <3>2 DEF Pushed, Running, Alive, Resting
        <3> QED  BY <3>1, <3>3, <3>4 DEF Mail
    <2> QED  BY <2>2, <2>3
<1>5. ASSUME Reject PROVE Mail'
    <2>1. /\ peer \in Numbers /\ compiler = "running" /\ at = "await"
          /\ Moved(peer, "reaped") /\ at' = "idle"
        BY <1>5, RetireEffect DEF Reject, Received, Awaiting, Return
    <2>2. compiler \notin Dead
        BY <2>1 DEF Dead
    <2>3. \A v \in Numbers \ {peer} : Running(v) => Resting(v)
        BY <2>1, <2>2 DEF Inv, Mail
    <2>4. \A v \in Numbers : (Running(v))' => (Resting(v))'
        BY <2>1, <2>3 DEF Moved, Running, Alive, Resting
    <2> QED  BY <2>1, <2>4 DEF Mail
<1>6. ASSUME MacroFailed PROVE Mail'
    <2>1. /\ peer \in Numbers /\ compiler = "running" /\ at = "await"
          /\ Popped(peer) /\ process[peer].inbox = <<>>
          /\ at' \in {"idle", "send", "stop"}
        BY <1>6, ReceivedEffect DEF MacroFailed, Return
    <2>2. compiler \notin Dead
        BY <2>1 DEF Dead
    <2>3. \A v \in Numbers \ {peer} : Running(v) => Resting(v)
        BY <2>1, <2>2 DEF Inv, Mail
    <2>4. \A v \in Numbers : (Running(v))' => (Resting(v))'
        BY <2>1, <2>3, Drained DEF Popped, Running, Alive, Resting
    <2> QED  BY <2>1, <2>4 DEF Mail
<1>7. ASSUME HelloAcked PROVE Mail'
    <2>1. /\ peer \in Numbers /\ compiler = "running" /\ at = "await"
          /\ Popped(peer) /\ process[peer].inbox = <<>>
          /\ at' \in {"idle", "send", "stop"}
        BY <1>7, ReceivedEffect DEF HelloAcked, Answered, NextRequest
    <2>2. compiler \notin Dead
        BY <2>1 DEF Dead
    <2>3. \A v \in Numbers \ {peer} : Running(v) => Resting(v)
        BY <2>1, <2>2 DEF Inv, Mail
    <2>4. \A v \in Numbers : (Running(v))' => (Resting(v))'
        BY <2>1, <2>3, Drained DEF Popped, Running, Alive, Resting
    <2> QED  BY <2>1, <2>4 DEF Mail
<1>8. ASSUME Described PROVE Mail'
    <2>1. /\ peer \in Numbers /\ compiler = "running" /\ at = "await"
          /\ Popped(peer) /\ process[peer].inbox = <<>>
          /\ at' \in {"idle", "send", "stop"}
        BY <1>8, ReceivedEffect DEF Described, Answered, NextRequest, StopBefore
    <2>2. compiler \notin Dead
        BY <2>1 DEF Dead
    <2>3. \A v \in Numbers \ {peer} : Running(v) => Resting(v)
        BY <2>1, <2>2 DEF Inv, Mail
    <2>4. \A v \in Numbers : (Running(v))' => (Resting(v))'
        BY <2>1, <2>3, Drained DEF Popped, Running, Alive, Resting
    <2> QED  BY <2>1, <2>4 DEF Mail
<1>9. ASSUME Misidentified PROVE Mail'
    <2>1. /\ peer \in Numbers /\ compiler = "running" /\ at = "await"
          /\ Popped(peer) /\ process[peer].inbox = <<>>
          /\ at' \in {"idle", "send", "stop"}
        BY <1>9, ReceivedEffect DEF Misidentified, Answered, StopBefore
    <2>2. compiler \notin Dead
        BY <2>1 DEF Dead
    <2>3. \A v \in Numbers \ {peer} : Running(v) => Resting(v)
        BY <2>1, <2>2 DEF Inv, Mail
    <2>4. \A v \in Numbers : (Running(v))' => (Resting(v))'
        BY <2>1, <2>3, Drained DEF Popped, Running, Alive, Resting
    <2> QED  BY <2>1, <2>4 DEF Mail
<1>10. ASSUME ExpansionResult PROVE Mail'
    <2>1. /\ peer \in Numbers /\ compiler = "running" /\ at = "await"
          /\ Popped(peer) /\ process[peer].inbox = <<>>
          /\ at' \in {"idle", "send", "stop"}
        BY <1>10, ReceivedEffect DEF ExpansionResult, Answered, Return
    <2>2. compiler \notin Dead
        BY <2>1 DEF Dead
    <2>3. \A v \in Numbers \ {peer} : Running(v) => Resting(v)
        BY <2>1, <2>2 DEF Inv, Mail
    <2>4. \A v \in Numbers : (Running(v))' => (Resting(v))'
        BY <2>1, <2>3, Drained DEF Popped, Running, Alive, Resting
    <2> QED  BY <2>1, <2>4 DEF Mail
<1>11. ASSUME Closed PROVE Mail'
    <2>1. /\ peer \in Numbers /\ compiler = "running" /\ at = "await"
          /\ Moved(peer, "reaped") /\ at' = "idle"
        BY <1>11, RetireEffect DEF Closed, Awaiting, Return
    <2>2. compiler \notin Dead
        BY <2>1 DEF Dead
    <2>3. \A v \in Numbers \ {peer} : Running(v) => Resting(v)
        BY <2>1, <2>2 DEF Inv, Mail
    <2>4. \A v \in Numbers : (Running(v))' => (Resting(v))'
        BY <2>1, <2>3 DEF Moved, Running, Alive, Resting
    <2> QED  BY <2>1, <2>4 DEF Mail
<1>12. ASSUME Timeout PROVE Mail'
    <2>1. /\ peer \in Numbers /\ compiler = "running" /\ at = "await"
          /\ Moved(peer, "reaped") /\ at' = "idle"
        BY <1>12, RetireEffect DEF Timeout, Awaiting, Return
    <2>2. compiler \notin Dead
        BY <2>1 DEF Dead
    <2>3. \A v \in Numbers \ {peer} : Running(v) => Resting(v)
        BY <2>1, <2>2 DEF Inv, Mail
    <2>4. \A v \in Numbers : (Running(v))' => (Resting(v))'
        BY <2>1, <2>3 DEF Moved, Running, Alive, Resting
    <2> QED  BY <2>1, <2>4 DEF Mail
<1>13. ASSUME Stop PROVE Mail'
    <2>1. compiler \in {"running", "exiting"} /\ at = "stop" /\ victim \in Numbers
        BY <1>13, StopEffect
    <2>2. CASE BrokenPipe
        BY <2>2 DEF BrokenPipe, Mail, Dead
    <2>3. CASE ~BrokenPipe
        <3> DEFINE m == [kind |-> "Shutdown", id |-> process[victim].nextId, call |-> None]
        <3>1. /\ Pushed(victim, m) /\ m \in Told /\ process[victim].outbox = <<>>
              /\ process[victim].state = "reading"
              /\ at' = "reap" /\ victim' = victim
            BY <1>13, <2>3, StopEffect
        <3>2. \A v \in Numbers : Running(v) => Resting(v)
            BY <2>1 DEF Inv, Mail, Dead
        <3> HIDE DEF m
        <3>3. (Leaving(victim))'
            BY <3>1 DEF Pushed, Leaving
        <3>4. \A v \in Numbers \ {victim} : (Running(v))' => (Resting(v))'
            BY <3>1, <3>2 DEF Pushed, Running, Alive, Resting
        <3> QED  BY <3>1, <3>3, <3>4 DEF Mail
    <2> QED  BY <2>2, <2>3
<1>14. ASSUME Replaced PROVE Mail'
    <2>1. /\ victim \in Numbers /\ compiler \in {"running", "exiting"}
          /\ at = "reap" /\ Moved(victim, "reaped") /\ at' \in {"idle", "send"}
        BY <1>14, ReapedEffect DEF Replaced
    <2>2. compiler \notin Dead
        BY <2>1 DEF Dead
    <2>3. \A v \in Numbers \ {victim} : Running(v) => Resting(v)
        BY <2>1, <2>2 DEF Inv, Mail
    <2>4. \A v \in Numbers : (Running(v))' => (Resting(v))'
        BY <2>1, <2>3 DEF Moved, Running, Alive, Resting
    <2> QED  BY <2>1, <2>4 DEF Mail
<1>15. ASSUME Dismissed PROVE Mail'
    <2>1. /\ victim \in Numbers /\ compiler \in {"running", "exiting"}
          /\ at = "reap" /\ Moved(victim, "reaped") /\ at' \in {"idle", "send"}
        BY <1>15, ReapedEffect DEF Dismissed, Return
    <2>2. compiler \notin Dead
        BY <2>1 DEF Dead
    <2>3. \A v \in Numbers \ {victim} : Running(v) => Resting(v)
        BY <2>1, <2>2 DEF Inv, Mail
    <2>4. \A v \in Numbers : (Running(v))' => (Resting(v))'
        BY <2>1, <2>3 DEF Moved, Running, Alive, Resting
    <2> QED  BY <2>1, <2>4 DEF Mail
<1>16. ASSUME Exit PROVE Mail'
    BY <1>16 DEF Exit, Dead, Inv, Mail, Running, Alive, Asking, Leaving, Resting
<1>17. ASSUME Destroy PROVE Mail'
    BY <1>17 DEF Destroy, Inv, Mail, Running, Alive, Asking, Leaving, Resting
<1>18. ASSUME Destroyed PROVE Mail'
    <2>1. /\ victim \in Numbers /\ compiler \in {"running", "exiting"}
          /\ at = "reap" /\ Moved(victim, "reaped") /\ at' \in {"idle", "send"}
        BY <1>18, ReapedEffect DEF Destroyed
    <2>2. compiler \notin Dead
        BY <2>1 DEF Dead
    <2>3. \A v \in Numbers \ {victim} : Running(v) => Resting(v)
        BY <2>1, <2>2 DEF Inv, Mail
    <2>4. \A v \in Numbers : (Running(v))' => (Resting(v))'
        BY <2>1, <2>3 DEF Moved, Running, Alive, Resting
    <2> QED  BY <2>1, <2>4 DEF Mail
<1>19. ASSUME Exited PROVE Mail'
    BY <1>19 DEF Exited, Dead, Inv, Mail, Running, Alive, Asking, Leaving, Resting
<1>20. ASSUME Kill PROVE Mail'
    BY <1>20 DEF Kill, Dead, Mail
<1>21. ASSUME NEW w \in Numbers, Serve(w) PROVE Mail'
    <2>0. process[w].inbox # <<>> /\ process[w].state = "reading" /\ UNCHANGED callerSide
        BY <1>21 DEF Serve
    <2>1. CASE /\ Moved(w, "dead") /\ Head(process[w].inbox).kind = "Shutdown"
        BY <2>0, <2>1, OneWorkerMoves DEF Alive
    <2>2. CASE /\ Moved(w, "busy") /\ Head(process[w].inbox).kind # "Shutdown"
        <3>1. ASSUME compiler \notin Dead PROVE at = "await" /\ w = peer
            BY <2>0, <2>2, <3>1, NumbersAreNatural
               DEF Inv, Mail, Running, Alive, Leaving, Resting, Told
        <3> QED  BY <2>0, <2>2, <3>1, OneWorkerMoves DEF Alive
    <2> QED  BY <1>21, <2>1, <2>2, WorkerEffect
<1>22. ASSUME NEW w \in Numbers, Answer(w) PROVE Mail'
    <2>1. Respond(w, "ok")
        BY <1>22 DEF Answer
    <2> QED  BY <2>1, ResponseIsExpected
<1>23. ASSUME NEW w \in Numbers, EndOfInput(w) PROVE Mail'
    BY <1>23, WorkerEffect, OneWorkerMoves DEF EndOfInput, Alive
<1>24. ASSUME NEW w \in Numbers, Misbehave(w) PROVE Mail'
    <2>1. PICK o \in {"error", "garbage"} : Respond(w, o)
        BY <1>24 DEF Misbehave
    <2> QED  BY <2>1, ResponseIsExpected
<1>25. ASSUME NEW w \in Numbers, Crash(w) PROVE Mail'
    BY <1>25, WorkerEffect, OneWorkerMoves DEF Crash
<1>26. ASSUME NEW w \in Numbers, Hang(w) PROVE Mail'
    <2>1. ASSUME compiler \notin Dead PROVE at = "await" /\ w = peer
        BY <1>26, <2>1, NumbersAreNatural
           DEF Hang, Inv, Mail, Running, Alive, Leaving, Resting
    <2> QED  BY <1>26, <2>1, WorkerEffect, OneWorkerMoves DEF Hang, Alive
<1>27. ASSUME UNCHANGED vars PROVE Mail'
    BY <1>27 DEF vars, Inv, Mail, Running, Alive, Asking, Leaving, Resting
<1> HIDE DEF callerVars, holderVars, callerSide
<1> QED  BY <1>1, <1>2, <1>3, <1>4, <1>5, <1>6, <1>7, <1>8, <1>9, <1>10, <1>11, <1>12,
            <1>13, <1>14, <1>15, <1>16, <1>17, <1>18, <1>19, <1>20, <1>21, <1>22, <1>23,
            <1>24, <1>25, <1>26, <1>27, StepCases

\* While nobody is born and nobody let go there are no strays.
LEMMA StraysKept ==
    ASSUME NoStrays, UNCHANGED <<peer, victim, session, compiler>>,
           \A v \in Numbers : (Running(v))' => Running(v)
    PROVE  NoStrays'
BY DEF NoStrays

\* Answering brings nobody into the world.
LEMMA RespondersRun ==
    ASSUME Inv, NoStrays, NEW w \in Numbers, NEW o \in {"ok", "error", "garbage"},
           Respond(w, o)
    PROVE  NoStrays'
<1>1. UNCHANGED <<peer, victim, session, compiler>>
    BY DEF Respond, callerSide, holderVars
<1>2. PICK s \in {"reading", "dead"} : Replied(w, s, o)
    BY RespondEffect
<1>3. process[w].state = "busy"
    BY DEF Respond
<1>4. \A v \in Numbers : (Running(v))' => Running(v)
    BY <1>2, <1>3 DEF Replied, Running, Alive
<1> QED  BY <1>1, <1>4, StraysKept

\* An expansion that has ended leaves its worker to the session.
LEMMA SessionKeepsPeer ==
    ASSUME Inv, NoStrays, holder # None, peer \in Numbers, Popped(peer), at = "await",
           compiler = "running", kind = "Expand", NEW r, Return(r)
    PROVE  NoStrays'
<1>1. session[PackageOf[wants[holder].binary]].process = peer
    BY DEF Inv, Served
<1>2. PackageOf[wants[holder].binary] \in Packages
    BY HolderTalks, PackageOfAssumption DEF Inv
<1>3. victim = 0 /\ session' = session /\ compiler' = compiler
    BY DEF Inv, Held, Return
<1>4. \A v \in Numbers : process'[v].state = process[v].state
    BY DEF Popped
<1> QED  BY <1>1, <1>2, <1>3, <1>4, NumbersAreNatural DEF NoStrays, Running, Alive

\* No worker is forgotten.
LEMMA NoStraysStep == Inv /\ NoStrays /\ [Next]_vars => NoStrays'
<1> SUFFICES ASSUME Inv, NoStrays, [Next]_vars PROVE NoStrays'
    OBVIOUS
<1> USE DEF callerVars, holderVars, callerSide
<1>1. ASSUME NEW t \in Threads, NEW b \in Binaries, Call(t, b) PROVE NoStrays'
    BY <1>1 DEF Call, NoStrays, Running, Alive
<1>2. ASSUME NEW t \in Threads, Reuse(t) PROVE NoStrays'
    <2>1. peer = 0 /\ victim = 0
        BY <1>2 DEF Reuse, Lock, Inv, Held
    <2> QED  BY <1>2, <2>1, NumbersAreNatural DEF Reuse, Lock, NoStrays, Running, Alive
<1>3. ASSUME NEW t \in Threads, Launch(t) PROVE NoStrays'
    <2>1. peer = 0 /\ victim = 0
        BY <1>3 DEF Launch, Lock, Inv, Held
    <2>2. PICK w \in Numbers : peer' = w /\ \A v \in Numbers \ {w} : process'[v] = process[v]
        BY <1>3, LaunchEffect
    <2> QED  BY <1>3, <2>1, <2>2, NumbersAreNatural DEF Launch, Lock, NoStrays, Running, Alive
<1>4. ASSUME Send PROVE NoStrays'
    <2>1. CASE BrokenPipe
        BY <2>1 DEF BrokenPipe, NoStrays, Dead
    <2>2. CASE ~BrokenPipe
        <3>1. /\ peer' = peer /\ victim' = victim /\ session' = session /\ compiler' = compiler
              /\ \A v \in Numbers : process'[v].state = process[v].state
            BY <1>4, <2>2, SendEffect DEF Pushed
        <3> QED  BY <3>1 DEF NoStrays, Running, Alive
    <2> QED  BY <2>1, <2>2
<1>5. ASSUME Reject PROVE NoStrays'
    <2>1. /\ peer \in Numbers /\ Moved(peer, "reaped") /\ compiler' = compiler
          /\ session' = session /\ victim = 0
        BY <1>5, RetireEffect DEF Reject, Received, Awaiting, Return, Inv, Held
    <2>2. \A v \in Numbers : (Running(v))' => Running(v) /\ v # peer
        BY <2>1 DEF Moved, Running, Alive
    <2> QED  BY <2>1, <2>2, NumbersAreNatural DEF NoStrays
<1>6. ASSUME MacroFailed PROVE NoStrays'
    <2>1. /\ holder # None /\ peer \in Numbers /\ Popped(peer) /\ at = "await"
          /\ compiler = "running"
        BY <1>6, ReceivedEffect DEF MacroFailed
    <2>2. Asking(peer)
        BY <2>1 DEF Inv, Mail, Held, Dead
    <2>3. kind = "Expand"
        BY <1>6, <2>2 DEF MacroFailed, Received, Response, Asking
    <2>4. Return(Failed)
        BY <1>6 DEF MacroFailed
    <2> QED  BY <2>1, <2>3, <2>4, SessionKeepsPeer
<1>7. ASSUME HelloAcked PROVE NoStrays'
    <2>1. /\ peer' = peer /\ victim' = victim /\ session' = session /\ compiler' = compiler
          /\ \A v \in Numbers : process'[v].state = process[v].state
        BY <1>7, ReceivedEffect DEF HelloAcked, Answered, NextRequest, Popped
    <2> QED  BY <2>1 DEF NoStrays, Running, Alive
<1>8. ASSUME Described PROVE NoStrays'
    <2>1. /\ holder # None /\ peer \in Numbers /\ Popped(peer) /\ at = "await"
          /\ holder \in Threads /\ compiler = "running" /\ victim = 0
        BY <1>8, ReceivedEffect DEF Described, Answered, Inv, Held
    <2>2. \A v \in Numbers : process'[v].state = process[v].state
        BY <2>1 DEF Popped
    <2>3. CASE Running(OldWorker)
        <3>1. peer' = peer /\ session' = session /\ compiler' = compiler
            BY <1>8, <2>3 DEF Described, StopBefore
        <3> QED  BY <2>1, <2>2, <3>1, NumbersAreNatural DEF NoStrays, Running, Alive
    <2>4. CASE ~Running(OldWorker)
        <3>1. peer' = peer /\ victim' = victim /\ Install /\ compiler' = compiler
            BY <1>8, <2>4 DEF Described, NextRequest
        <3>2. \A p \in Packages : p # PackageOf[wants[holder].binary] => session'[p] = session[p]
            BY <3>1 DEF Install, Inv, Callers
        <3>3. ASSUME NEW w \in Numbers, Running(w)', w \notin {peer, victim}
              PROVE  \E p \in Packages : session'[p].process = w
            <4>1. Running(w) /\ w # OldWorker
                BY <2>2, <2>4, <3>3 DEF Running, Alive
            <4>2. PICK p \in Packages : session[p].process = w
                BY <2>1, <3>3, <4>1 DEF NoStrays, Dead
            <4>3. session'[p] = session[p]
                BY <3>2, <4>1, <4>2 DEF OldWorker
            <4> QED  BY <4>2, <4>3
        <3> QED  BY <2>1, <3>1, <3>3 DEF NoStrays
    <2> QED  BY <2>3, <2>4
<1>9. ASSUME Misidentified PROVE NoStrays'
    <2>1. /\ peer' = peer /\ victim = 0 /\ session' = session /\ compiler' = compiler
          /\ \A v \in Numbers : process'[v].state = process[v].state
        BY <1>9, ReceivedEffect DEF Misidentified, Answered, StopBefore, Popped, Inv, Held
    <2> QED  BY <2>1, NumbersAreNatural DEF NoStrays, Running, Alive
<1>10. ASSUME ExpansionResult PROVE NoStrays'
    <2>1. /\ holder # None /\ peer \in Numbers /\ Popped(peer) /\ at = "await"
          /\ compiler = "running"
        BY <1>10, ReceivedEffect DEF ExpansionResult, Answered
    <2>2. kind = "Expand" /\ Return(Expanded(process[peer].image, Response.call))
        BY <1>10 DEF ExpansionResult
    <2> QED  BY <2>1, <2>2, SessionKeepsPeer
<1>11. ASSUME Closed PROVE NoStrays'
    <2>1. /\ peer \in Numbers /\ Moved(peer, "reaped") /\ compiler' = compiler
          /\ session' = session /\ victim = 0
        BY <1>11, RetireEffect DEF Closed, Awaiting, Return, Inv, Held
    <2>2. \A v \in Numbers : (Running(v))' => Running(v) /\ v # peer
        BY <2>1 DEF Moved, Running, Alive
    <2> QED  BY <2>1, <2>2, NumbersAreNatural DEF NoStrays
<1>12. ASSUME Timeout PROVE NoStrays'
    <2>1. /\ peer \in Numbers /\ Moved(peer, "reaped") /\ compiler' = compiler
          /\ session' = session /\ victim = 0
        BY <1>12, RetireEffect DEF Timeout, Awaiting, Return, Inv, Held
    <2>2. \A v \in Numbers : (Running(v))' => Running(v) /\ v # peer
        BY <2>1 DEF Moved, Running, Alive
    <2> QED  BY <2>1, <2>2, NumbersAreNatural DEF NoStrays
<1>13. ASSUME Stop PROVE NoStrays'
    <2>1. CASE BrokenPipe
        BY <2>1 DEF BrokenPipe, NoStrays, Dead
    <2>2. CASE ~BrokenPipe
        <3>1. /\ peer' = peer /\ victim' = victim /\ session' = session /\ compiler' = compiler
              /\ \A v \in Numbers : process'[v].state = process[v].state
            BY <1>13, <2>2, StopEffect DEF Pushed
        <3> QED  BY <3>1 DEF NoStrays, Running, Alive
    <2> QED  BY <2>1, <2>2
<1>14. ASSUME Replaced PROVE NoStrays'
    <2>1. /\ at = "reap" /\ victim \in Numbers /\ Moved(victim, "reaped")
          /\ compiler = "running" /\ compiler' = compiler /\ peer' = peer
          /\ Install /\ victim # peer
        BY <1>14, ReapedEffect DEF Replaced
    <2>2. holder # None
        BY <2>1 DEF Inv, Held
    <2>3. victim = session[PackageOf[wants[holder].binary]].process
        BY <2>1, <2>2 DEF Inv, Served
    <2>4. \A p \in Packages : p # PackageOf[wants[holder].binary] => session'[p] = session[p]
        BY <2>1 DEF Install, Inv, Callers
    <2>5. \A v \in Numbers : (Running(v))' => Running(v) /\ v # victim
        BY <2>1 DEF Moved, Running, Alive
    <2> QED  BY <2>1, <2>3, <2>4, <2>5 DEF NoStrays
<1>15. ASSUME Dismissed PROVE NoStrays'
    <2>1. /\ victim \in Numbers /\ Moved(victim, "reaped") /\ compiler' = compiler
          /\ session' = session /\ peer = victim
        BY <1>15, ReapedEffect DEF Dismissed, Return
    <2>2. \A v \in Numbers : (Running(v))' => Running(v) /\ v # victim
        BY <2>1 DEF Moved, Running, Alive
    <2> QED  BY <2>1, <2>2, NumbersAreNatural DEF NoStrays
<1>16. ASSUME Exit PROVE NoStrays'
    BY <1>16 DEF Exit, Dead, NoStrays, Running, Alive
<1>17. ASSUME Destroy PROVE NoStrays'
    <2>1. victim = 0
        BY <1>17 DEF Destroy, Inv, Held
    <2> QED  BY <1>17, <2>1, NumbersAreNatural DEF Destroy, NoStrays, Running, Alive
<1>18. ASSUME Destroyed PROVE NoStrays'
    <2>1. /\ victim \in Numbers /\ Moved(victim, "reaped") /\ compiler' = compiler
          /\ session' = session /\ peer' = peer
        BY <1>18, ReapedEffect DEF Destroyed
    <2>2. \A v \in Numbers : (Running(v))' => Running(v) /\ v # victim
        BY <2>1 DEF Moved, Running, Alive
    <2> QED  BY <2>1, <2>2, NumbersAreNatural DEF NoStrays
<1>19. ASSUME Exited PROVE NoStrays'
    <2>1. victim = 0 /\ peer = 0 /\ process' = process
        BY <1>19 DEF Exited, Inv, Held
    <2>2. \A v \in Numbers : ~Running(v)
        BY <1>19, <2>1, NumbersAreNatural DEF Exited, NoStrays, Dead
    <2> QED  BY <2>1, <2>2 DEF NoStrays, Running, Alive
<1>20. ASSUME Kill PROVE NoStrays'
    BY <1>20 DEF Kill, Dead, NoStrays
<1>21. ASSUME NEW w \in Numbers, Serve(w) PROVE NoStrays'
    <2>1. peer' = peer /\ victim' = victim /\ session' = session /\ UNCHANGED compiler
        BY <1>21, WorkerEffect DEF Serve, Moved
    <2>2. \A v \in Numbers : (Running(v))' => Running(v)
        BY <1>21, WorkerEffect DEF Serve, Moved, Running, Alive
    <2> QED  BY <2>1, <2>2, StraysKept
<1>22. ASSUME NEW w \in Numbers, Answer(w) PROVE NoStrays'
    <2>1. Respond(w, "ok")
        BY <1>22 DEF Answer
    <2> QED  BY <2>1, RespondersRun
<1>23. ASSUME NEW w \in Numbers, EndOfInput(w) PROVE NoStrays'
    <2>1. peer' = peer /\ victim' = victim /\ session' = session /\ UNCHANGED compiler
        BY <1>23, WorkerEffect DEF EndOfInput, Moved
    <2>2. \A v \in Numbers : (Running(v))' => Running(v)
        BY <1>23, WorkerEffect DEF EndOfInput, Moved, Running, Alive
    <2> QED  BY <2>1, <2>2, StraysKept
<1>24. ASSUME NEW w \in Numbers, Misbehave(w) PROVE NoStrays'
    <2>1. PICK o \in {"error", "garbage"} : Respond(w, o)
        BY <1>24 DEF Misbehave
    <2> QED  BY <2>1, RespondersRun
<1>25. ASSUME NEW w \in Numbers, Crash(w) PROVE NoStrays'
    <2>1. peer' = peer /\ victim' = victim /\ session' = session /\ UNCHANGED compiler
        BY <1>25, WorkerEffect DEF Crash, Moved
    <2>2. \A v \in Numbers : (Running(v))' => Running(v)
        BY <1>25, WorkerEffect DEF Crash, Moved, Running, Alive
    <2> QED  BY <2>1, <2>2, StraysKept
<1>26. ASSUME NEW w \in Numbers, Hang(w) PROVE NoStrays'
    <2>1. peer' = peer /\ victim' = victim /\ session' = session /\ UNCHANGED compiler
        BY <1>26, WorkerEffect DEF Hang, Moved
    <2>2. \A v \in Numbers : (Running(v))' => Running(v)
        BY <1>26, WorkerEffect DEF Hang, Moved, Running, Alive
    <2> QED  BY <2>1, <2>2, StraysKept
<1>27. ASSUME UNCHANGED vars PROVE NoStrays'
    BY <1>27 DEF vars, NoStrays, Running, Alive
<1> HIDE DEF callerVars, holderVars, callerSide
<1> QED  BY <1>1, <1>2, <1>3, <1>4, <1>5, <1>6, <1>7, <1>8, <1>9, <1>10, <1>11, <1>12,
            <1>13, <1>14, <1>15, <1>16, <1>17, <1>18, <1>19, <1>20, <1>21, <1>22, <1>23,
            <1>24, <1>25, <1>26, <1>27, StepCases

\* Blame is a truth value.
LEMMA FlagsStep == Inv /\ Flags /\ [Next]_vars => Flags'
<1> SUFFICES ASSUME Inv, Flags, [Next]_vars PROVE Flags'
    OBVIOUS
<1> USE DEF callerVars, holderVars, callerSide
<1>1. ASSUME NEW t \in Threads, NEW b \in Binaries, Call(t, b) PROVE Flags'
    <2>1. blamed' = [blamed EXCEPT ![t] = FALSE]
        BY <1>1 DEF Call
    <2> QED  BY <2>1, Zenon DEF Flags
<1>2. ASSUME NEW t \in Threads, Reuse(t) PROVE Flags'
    <2>1. blamed' = blamed
        BY <1>2 DEF Reuse
    <2> QED  BY <2>1, Zenon DEF Flags
<1>3. ASSUME NEW t \in Threads, Launch(t) PROVE Flags'
    <2>1. blamed' = blamed \/ blamed' = [blamed EXCEPT ![t] = TRUE]
        BY <1>3, LaunchEffect
    <2> QED  BY <2>1, Zenon DEF Flags
<1>4. ASSUME Send PROVE Flags'
    <2>1. blamed' = blamed
        BY <1>4 DEF Send, BrokenPipe
    <2> QED  BY <2>1, Zenon DEF Flags
<1>5. ASSUME Reject PROVE Flags'
    <2>1. blamed' = blamed
        BY <1>5 DEF Reject
    <2> QED  BY <2>1, Zenon DEF Flags
<1>6. ASSUME MacroFailed PROVE Flags'
    <2>1. blamed' = blamed
        BY <1>6 DEF MacroFailed
    <2> QED  BY <2>1, Zenon DEF Flags
<1>7. ASSUME HelloAcked PROVE Flags'
    <2>1. blamed' = blamed
        BY <1>7 DEF HelloAcked, Answered
    <2> QED  BY <2>1, Zenon DEF Flags
<1>8. ASSUME Described PROVE Flags'
    <2>1. blamed' = blamed
        BY <1>8 DEF Described, Answered
    <2> QED  BY <2>1, Zenon DEF Flags
<1>9. ASSUME Misidentified PROVE Flags'
    <2>1. blamed' = blamed
        BY <1>9 DEF Misidentified, Answered
    <2> QED  BY <2>1, Zenon DEF Flags
<1>10. ASSUME ExpansionResult PROVE Flags'
    <2>1. blamed' = blamed
        BY <1>10 DEF ExpansionResult, Answered
    <2> QED  BY <2>1, Zenon DEF Flags
<1>11. ASSUME Closed PROVE Flags'
    <2>1. blamed' = blamed
        BY <1>11 DEF Closed
    <2> QED  BY <2>1, Zenon DEF Flags
<1>12. ASSUME Timeout PROVE Flags'
    <2>1. blamed' = [blamed EXCEPT ![holder] = TRUE]
        BY <1>12 DEF Timeout
    <2> QED  BY <2>1, Zenon DEF Flags
<1>13. ASSUME Stop PROVE Flags'
    <2>1. blamed' = blamed
        BY <1>13 DEF Stop, BrokenPipe
    <2> QED  BY <2>1, Zenon DEF Flags
<1>14. ASSUME Replaced PROVE Flags'
    <2>1. blamed' = blamed
        BY <1>14 DEF Replaced
    <2> QED  BY <2>1, Zenon DEF Flags
<1>15. ASSUME Dismissed PROVE Flags'
    <2>1. blamed' = blamed
        BY <1>15 DEF Dismissed
    <2> QED  BY <2>1, Zenon DEF Flags
<1>16. ASSUME Exit PROVE Flags'
    <2>1. blamed' = blamed
        BY <1>16 DEF Exit
    <2> QED  BY <2>1, Zenon DEF Flags
<1>17. ASSUME Destroy PROVE Flags'
    <2>1. blamed' = blamed
        BY <1>17 DEF Destroy
    <2> QED  BY <2>1, Zenon DEF Flags
<1>18. ASSUME Destroyed PROVE Flags'
    <2>1. blamed' = blamed
        BY <1>18 DEF Destroyed
    <2> QED  BY <2>1, Zenon DEF Flags
<1>19. ASSUME Exited PROVE Flags'
    <2>1. blamed' = blamed
        BY <1>19 DEF Exited
    <2> QED  BY <2>1, Zenon DEF Flags
<1>20. ASSUME Kill PROVE Flags'
    <2>1. blamed' = blamed
        BY <1>20 DEF Kill
    <2> QED  BY <2>1, Zenon DEF Flags
<1>21. ASSUME NEW w \in Numbers, Serve(w) PROVE Flags'
    <2>1. blamed' = blamed
        BY <1>21 DEF Serve
    <2> QED  BY <2>1, Zenon DEF Flags
<1>22. ASSUME NEW w \in Numbers, Answer(w) PROVE Flags'
    <2>1. blamed' = blamed
        BY <1>22 DEF Answer
    <2> QED  BY <2>1, Zenon DEF Flags
<1>23. ASSUME NEW w \in Numbers, EndOfInput(w) PROVE Flags'
    <2>1. blamed' = blamed
        BY <1>23 DEF EndOfInput
    <2> QED  BY <2>1, Zenon DEF Flags
<1>24. ASSUME NEW w \in Numbers, Misbehave(w) PROVE Flags'
    BY <1>24, Zenon DEF Misbehave, Fault, Flags
<1>25. ASSUME NEW w \in Numbers, Crash(w) PROVE Flags'
    BY <1>25, Zenon DEF Crash, Fault, Flags
<1>26. ASSUME NEW w \in Numbers, Hang(w) PROVE Flags'
    BY <1>26, Zenon DEF Hang, Fault, Flags
<1>27. ASSUME UNCHANGED vars PROVE Flags'
    <2>1. blamed' = blamed
        BY <1>27 DEF vars
    <2> QED  BY <2>1, Zenon DEF Flags
<1> HIDE DEF callerVars, holderVars, callerSide
<1> QED  BY <1>1, <1>2, <1>3, <1>4, <1>5, <1>6, <1>7, <1>8, <1>9, <1>10, <1>11, <1>12,
            <1>13, <1>14, <1>15, <1>16, <1>17, <1>18, <1>19, <1>20, <1>21, <1>22, <1>23,
            <1>24, <1>25, <1>26, <1>27, StepCases

\* What a worker does well blames nobody.
LEMMA SoundKept ==
    ASSUME Inv, Blame, NEW w \in Numbers, UNCHANGED callerSide, blamed' = blamed,
           \A v \in Numbers \ {w} : process'[v] = process[v],
           process'[w].image = process[w].image,
           compiler \notin Dead /\ at = "await" /\ w = peer =>
             /\ process'[w].state \in {"reading", "busy"}
             /\ \/ process'[w].outbox = process[w].outbox
                \/ Head(process'[w].outbox).outcome = "ok"
    PROVE  Blame'
<1> USE DEF callerSide, holderVars
<1>1. SUFFICES ASSUME compiler \notin Dead, holder # None, Sound PROVE Sound'
    BY DEF Blame, Blamed
<1>2. peer \in Numbers
    BY <1>1, HolderTalks DEF Inv
<1>3. process'[peer].image = process[peer].image
    BY <1>2
<1>4. CASE w = peer
    BY <1>1, <1>3, <1>4 DEF Sound
<1>5. CASE w # peer
    <2>1. process'[peer] = process[peer]
        BY <1>2, <1>5
    <2> QED  BY <1>1, <2>1 DEF Sound
<1> QED  BY <1>4, <1>5

\* A fault is blamed on the exchange it happens in, and forgives nobody.
LEMMA FaultBlames ==
    ASSUME Flags, NEW w, Fault(w)
    PROVE  /\ \A t \in Threads : Blamed(t) => Blamed(t)'
           /\ w = peer /\ holder \in Threads => blamed'[holder]
BY Zenon DEF Flags, Fault, Blamed

\* So an exchange that a fault meets is either still sound or blamed.
LEMMA FaultIsBlamed ==
    ASSUME Inv, Flags, Blame, NEW w \in Numbers, UNCHANGED callerSide, Fault(w),
           \A v \in Numbers \ {w} : process'[v] = process[v],
           process'[w].image = process[w].image
    PROVE  Blame'
<1>1. UNCHANGED <<compiler, wants, holder, at, kind, peer, victim>>
    BY DEF callerSide, holderVars
<1>2. CASE holder = None \/ compiler \in Dead
    BY <1>1, <1>2 DEF Blame
<1>3. CASE holder # None /\ compiler \notin Dead
    <2>1. holder \in Threads /\ peer \in Numbers
        BY <1>3, HolderTalks DEF Inv
    <2>2. Blamed(holder) \/ w = peer => Blamed(holder)'
        BY <1>1, <2>1, FaultBlames, Zenon DEF Blamed
    <2>3. CASE Blamed(holder) \/ w = peer
        <3>1. Blamed(holder)'
            BY <2>2, <2>3
        <3> QED  BY <1>1, <3>1 DEF Blame, Blamed
    <2>4. CASE ~Blamed(holder) /\ w # peer
        <3>1. process'[peer] = process[peer] /\ Sound
            BY <1>3, <2>1, <2>4 DEF Blame
        <3> QED  BY <1>1, <3>1 DEF Blame, Sound
    <2> QED  BY <2>3, <2>4
<1> QED  BY <1>2, <1>3

\* Nothing goes wrong in an exchange unnoticed.
LEMMA BlameStep == Inv /\ Flags /\ Blame /\ [Next]_vars => Blame'
<1> SUFFICES ASSUME Inv, Flags, Blame, [Next]_vars PROVE Blame'
    OBVIOUS
<1> USE DEF callerVars, holderVars, callerSide
<1>1. ASSUME NEW t \in Threads, NEW b \in Binaries, Call(t, b) PROVE Blame'
    <2>1. CASE holder = None
        BY <1>1, <2>1 DEF Call, Blame
    <2>2. CASE holder # None
        <3>1. holder # t /\ holder \in Threads
            BY <1>1, <2>2, HolderTalks DEF Call, Inv, Held
        <3>2. blamed'[holder] = blamed[holder] /\ wants'[holder] = wants[holder]
            BY <1>1, <3>1 DEF Call, Flags, Inv, Callers
        <3>3. UNCHANGED <<compiler, holderVars, session, process>>
            BY <1>1 DEF Call
        <3> QED  BY <3>2, <3>3 DEF Blame, Blamed, Sound
    <2> QED  BY <2>1, <2>2
<1>2. ASSUME NEW t \in Threads, Reuse(t) PROVE Blame'
    <2>1. LET b == wants[t].binary IN
            /\ session[PackageOf[b]].identity = b /\ session[PackageOf[b]].process # 0
            /\ peer' = session[PackageOf[b]].process /\ PackageOf[b] \in Packages
        BY <1>2, PackageOfAssumption DEF Reuse, Lock, Usable, Running, Inv, Callers, Calls
    <2>2. process[peer'].image = wants[t].binary
        BY <2>1 DEF Inv, Served
    <2> QED  BY <1>2, <2>2 DEF Reuse, Lock, Blame, Sound
<1>3. ASSUME NEW t \in Threads, Launch(t) PROVE Blame'
    <2>1. \/ process'[peer'].image = wants[t].binary
          \/ blamed' = [blamed EXCEPT ![t] = TRUE]
        BY <1>3, LaunchEffect
    <2>2. holder' = t /\ at' = "send" /\ wants' = wants
        BY <1>3 DEF Launch, Lock
    <2>3. CASE blamed' = [blamed EXCEPT ![t] = TRUE]
        <3>1. Blamed(t)'
            BY <2>3, Zenon DEF Blamed, Flags
        <3> QED  BY <2>2, <3>1 DEF Blame, Blamed
    <2>4. CASE process'[peer'].image = wants[t].binary
        BY <2>2, <2>4 DEF Blame, Sound
    <2> QED  BY <2>1, <2>3, <2>4
<1>4. ASSUME Send PROVE Blame'
    <2>1. CASE BrokenPipe
        BY <2>1 DEF BrokenPipe, Blame, Dead
    <2>2. CASE ~BrokenPipe
        <3>1. /\ at = "send" /\ at' = "await"
              /\ UNCHANGED <<compiler, blamed, wants, holder, peer>> /\ peer \in Numbers
              /\ process'[peer].state = "reading" /\ process'[peer].outbox = <<>>
              /\ process'[peer].image = process[peer].image
            BY <1>4, <2>2, SendEffect DEF Pushed
        <3> QED  BY <3>1 DEF Blame, Blamed, Sound
    <2> QED  BY <2>1, <2>2
<1>5. ASSUME Reject PROVE Blame'
    <2>1. holder' = None
        BY <1>5 DEF Reject, Retire, Return
    <2> QED  BY <2>1 DEF Blame
<1>6. ASSUME MacroFailed PROVE Blame'
    <2>1. holder' = None
        BY <1>6 DEF MacroFailed, Return
    <2> QED  BY <2>1 DEF Blame
<1>7. ASSUME HelloAcked PROVE Blame'
    <2>1. /\ peer \in Numbers /\ Popped(peer) /\ at = "await"
        BY <1>7, ReceivedEffect DEF HelloAcked, Answered
    <2>2. UNCHANGED <<compiler, blamed, wants, holder, peer>> /\ at' = "send"
        BY <1>7 DEF HelloAcked, Answered, NextRequest
    <2> QED  BY <2>1, <2>2 DEF Popped, Blame, Blamed, Sound
<1>8. ASSUME Described PROVE Blame'
    <2>1. /\ peer \in Numbers /\ Popped(peer) /\ at = "await"
          /\ process[peer].image = wants[holder].binary
          /\ holder # None /\ holder \in Threads
        BY <1>8, ReceivedEffect DEF Described, Answered, SameIdentity
    <2>2. CASE Running(OldWorker)
        <3>1. OldWorker # peer
            <4>1. PackageOf[wants[holder].binary] \in Packages
                BY <2>1, HolderTalks, PackageOfAssumption DEF Inv
            <4>2. kind = "Describe"
                BY <1>8 DEF Described
            <4> QED  BY <2>1, <4>1, <4>2 DEF OldWorker, Inv, Served
        <3>2. UNCHANGED <<compiler, blamed, wants, holder, peer>> /\ at' = "stop"
              /\ victim' = OldWorker
            BY <1>8, <2>2 DEF Described, Answered, StopBefore
        <3> QED  BY <3>1, <3>2 DEF Blame, Sound
    <2>3. CASE ~Running(OldWorker)
        <3>1. UNCHANGED <<compiler, blamed, wants, holder, peer>> /\ at' = "send"
            BY <1>8, <2>3 DEF Described, Answered, NextRequest
        <3> QED  BY <2>1, <3>1 DEF Popped, Blame, Sound
    <2> QED  BY <2>2, <2>3
<1>9. ASSUME Misidentified PROVE Blame'
    <2>1. /\ at = "await" /\ process[peer].image # wants[holder].binary
          /\ UNCHANGED <<compiler, blamed, wants, holder, peer>>
        BY <1>9, ReceivedEffect DEF Misidentified, Answered, SameIdentity, StopBefore
    <2> QED  BY <2>1 DEF Blame, Blamed, Sound
<1>10. ASSUME ExpansionResult PROVE Blame'
    <2>1. holder' = None
        BY <1>10 DEF ExpansionResult, Return
    <2> QED  BY <2>1 DEF Blame
<1>11. ASSUME Closed PROVE Blame'
    <2>1. holder' = None
        BY <1>11 DEF Closed, Retire, Return
    <2> QED  BY <2>1 DEF Blame
<1>12. ASSUME Timeout PROVE Blame'
    <2>1. holder' = None
        BY <1>12 DEF Timeout, Retire, Return
    <2> QED  BY <2>1 DEF Blame
<1>13. ASSUME Stop PROVE Blame'
    <2>1. CASE BrokenPipe
        BY <2>1 DEF BrokenPipe, Blame, Dead
    <2>2. CASE ~BrokenPipe
        <3>1. /\ at = "stop" /\ at' = "reap"
              /\ UNCHANGED <<compiler, blamed, wants, holder, peer, victim>>
            BY <1>13, <2>2, StopEffect
        <3> QED  BY <3>1 DEF Blame, Blamed, Sound
    <2> QED  BY <2>1, <2>2
<1>14. ASSUME Replaced PROVE Blame'
    <2>1. /\ at = "reap" /\ victim \in Numbers /\ Moved(victim, "reaped")
          /\ victim # peer /\ at' = "send" /\ compiler = "running"
          /\ UNCHANGED <<compiler, blamed, wants, holder, peer>>
        BY <1>14, ReapedEffect DEF Replaced
    <2>2. holder # None
        BY <2>1 DEF Inv, Held
    <2>3. process[peer].image = wants[holder].binary /\ peer \in Numbers
        BY <2>1, <2>2, HolderTalks DEF Inv, Served
    <2> QED  BY <2>1, <2>3 DEF Moved, Blame, Sound
<1>15. ASSUME Dismissed PROVE Blame'
    <2>1. holder' = None
        BY <1>15 DEF Dismissed, Return
    <2> QED  BY <2>1 DEF Blame
<1>16. ASSUME Exit PROVE Blame'
    <2>1. holder = None /\ holder' = holder
        BY <1>16 DEF Exit, Inv, Callers, Held
    <2> QED  BY <2>1 DEF Blame
<1>17. ASSUME Destroy PROVE Blame'
    <2>1. holder = None /\ holder' = holder
        BY <1>17 DEF Destroy, Inv, Held
    <2> QED  BY <2>1 DEF Blame
<1>18. ASSUME Destroyed PROVE Blame'
    <2>1. holder = None /\ holder' = holder
        BY <1>18 DEF Destroyed, Inv, Held
    <2> QED  BY <2>1 DEF Blame
<1>19. ASSUME Exited PROVE Blame'
    <2>1. holder = None /\ holder' = holder
        BY <1>19 DEF Exited, Inv, Held
    <2> QED  BY <2>1 DEF Blame
<1>20. ASSUME Kill PROVE Blame'
    BY <1>20 DEF Kill, Blame, Dead
<1>21. ASSUME NEW w \in Numbers, Serve(w) PROVE Blame'
    <2>1. UNCHANGED callerSide /\ blamed' = blamed
        BY <1>21 DEF Serve
    <2>2. ASSUME compiler \notin Dead, at = "await", w = peer
          PROVE  Moved(w, "busy")
        <3>1. Running(w) /\ process[w].inbox # <<>>
            BY <1>21, NumbersAreNatural DEF Serve, Running, Alive
        <3>2. Head(process[w].inbox).kind = kind
            BY <2>2, <3>1 DEF Inv, Mail, Asking
        <3>3. Head(process[w].inbox).kind # "Shutdown"
            BY <3>2 DEF Inv, Callers, Kinds
        <3> QED  BY <1>21, <3>3, WorkerEffect
    <2>3. Moved(w, "busy") \/ Moved(w, "dead")
        BY <1>21, WorkerEffect
    <2> QED  BY <2>1, <2>2, <2>3, SoundKept DEF Moved
<1>22. ASSUME NEW w \in Numbers, Answer(w) PROVE Blame'
    <2>1. UNCHANGED callerSide /\ blamed' = blamed /\ Respond(w, "ok")
        BY <1>22 DEF Answer, Respond
    <2>2. CASE compiler \in Dead
        BY <2>1, <2>2 DEF Blame
    <2>3. CASE compiler \notin Dead
        <3>1. Replied(w, "reading", "ok")
            BY <2>1, <2>3, RespondEffect
        <3> QED  BY <2>1, <3>1, SoundKept DEF Replied
    <2> QED  BY <2>2, <2>3
<1>23. ASSUME NEW w \in Numbers, EndOfInput(w) PROVE Blame'
    <2>1. UNCHANGED callerSide /\ blamed' = blamed /\ Moved(w, "dead")
        BY <1>23, WorkerEffect DEF EndOfInput
    <2>2. compiler \notin Dead => at # "await"
        BY <1>23 DEF EndOfInput, WriteEndOpen, CompilerHolds
    <2> QED  BY <2>1, <2>2, SoundKept DEF Moved
<1>24. ASSUME NEW w \in Numbers, Misbehave(w) PROVE Blame'
    <2>1. PICK o \in {"error", "garbage"} : Respond(w, o) /\ Fault(w)
        BY <1>24 DEF Misbehave
    <2>2. UNCHANGED callerSide
        BY <2>1 DEF Respond
    <2>3. PICK s \in {"reading", "dead"} : Replied(w, s, o)
        BY <2>1, RespondEffect
    <2> QED  BY <2>1, <2>2, <2>3, FaultIsBlamed DEF Replied
<1>25. ASSUME NEW w \in Numbers, Crash(w) PROVE Blame'
    <2>1. UNCHANGED callerSide /\ Fault(w)
        BY <1>25 DEF Crash
    <2> QED  BY <1>25, <2>1, WorkerEffect, FaultIsBlamed DEF Moved
<1>26. ASSUME NEW w \in Numbers, Hang(w) PROVE Blame'
    <2>1. UNCHANGED callerSide /\ Fault(w)
        BY <1>26 DEF Hang
    <2> QED  BY <1>26, <2>1, WorkerEffect, FaultIsBlamed DEF Moved
<1>27. ASSUME UNCHANGED vars PROVE Blame'
    BY <1>27 DEF vars, Blame, Blamed, Sound
<1> HIDE DEF callerVars, holderVars, callerSide
<1> QED  BY <1>1, <1>2, <1>3, <1>4, <1>5, <1>6, <1>7, <1>8, <1>9, <1>10, <1>11, <1>12,
            <1>13, <1>14, <1>15, <1>16, <1>17, <1>18, <1>19, <1>20, <1>21, <1>22, <1>23,
            <1>24, <1>25, <1>26, <1>27, StepCases

\* The three kinds of result differ.
LEMMA Outcomes ==
    /\ NoAnswer \in Results /\ Failed \in Results /\ NoAnswer # Failed
    /\ NoAnswer.outcome # "expanded" /\ Failed.outcome # "expanded"
    /\ \A b, c : /\ Expanded(b, c).image = b /\ Expanded(b, c).call = c
                 /\ Expanded(b, c) # Failed /\ Expanded(b, c) # NoAnswer
<1>1. NoAnswer \in Results /\ Failed \in Results
    BY DEF Results
<1>2. /\ NoAnswer # Failed
      /\ NoAnswer.outcome # "expanded" /\ Failed.outcome # "expanded"
      /\ \A b, c : /\ Expanded(b, c).image = b /\ Expanded(b, c).call = c
                   /\ Expanded(b, c).outcome = "expanded"
    BY DEF NoAnswer, Failed, Expanded
<1> QED  BY <1>1, <1>2

\* The expansion of a call is a result.
LEMMA ExpansionIsResult ==
    ASSUME NEW b \in Binaries, NEW c \in Calls PROVE Expanded(b, c) \in Results
<1>1. ASSUME NEW d \in Binaries, NEW n \in 1..MaxEvents
      PROVE  Expanded(b, [binary |-> d, number |-> n]) \in Results
    BY DEF Results
<1>2. /\ c.binary \in Binaries /\ c.number \in 1..MaxEvents
      /\ c = [binary |-> c.binary, number |-> c.number]
    BY DEF Calls
<1> QED  BY ONLY <1>1, <1>2

\* A thread that has no new answer and no new blame keeps what it has.
LEMMA AnswersKept ==
    ASSUME Answers, UNCHANGED <<wants, answer, blamed>> PROVE Answers'
BY DEF Answers, Blamed

\* An answer is given to the holder; if it is a failure then it is to blame.
LEMMA Returned ==
    ASSUME Inv, Answers, holder \in Threads, NEW r, Return(r),
           r \in Results, r # NoAnswer,
           \A u \in Threads : Blamed(u) => Blamed(u)',
           r = Failed => blamed'[holder]
    PROVE  Answers'
<1>1. /\ answer' = [answer EXCEPT ![holder] = r]
      /\ wants' = [wants EXCEPT ![holder] = None]
    BY DEF Return
<1>2. /\ \A u \in Threads : answer'[u] = IF u = holder THEN r ELSE answer[u]
      /\ \A u \in Threads : wants'[u] = IF u = holder THEN None ELSE wants[u]
    BY <1>1 DEF Answers, Inv, Callers
<1>3. answer' \in [Threads -> Results]
    BY <1>1 DEF Answers
<1>4. \A u \in Threads : wants'[u] # None => answer'[u] = NoAnswer
    BY <1>2 DEF Answers
<1>5. \A u \in Threads : answer'[u] = Failed => Blamed(u)'
    <2>1. SUFFICES ASSUME NEW u \in Threads, answer'[u] = Failed PROVE blamed'[u]
        BY DEF Blamed
    <2>2. CASE u = holder
        BY <1>2, <2>1, <2>2
    <2>3. CASE u # holder
        BY <1>2, <2>1, <2>3 DEF Answers, Blamed
    <2> QED  BY <2>2, <2>3
<1> QED  BY <1>3, <1>4, <1>5 DEF Answers

\* So it is with a failure that was the holder's own.
LEMMA FailureReturned ==
    ASSUME Inv, Answers, holder \in Threads, Blamed(holder), blamed' = blamed,
           Return(Failed)
    PROVE  Answers'
<1>1. blamed'[holder] /\ \A u \in Threads : Blamed(u) => Blamed(u)'
    BY DEF Blamed
<1> QED  BY <1>1, Outcomes, Returned

\* An expansion is of the binary and the request that were asked for.
LEMMA ExpansionIsOwn ==
    ASSUME Inv, ExpansionResult
    PROVE  process[peer].image = wants[holder].binary /\ Response.call = wants[holder]
<1>1. /\ holder # None /\ holder \in Threads /\ peer \in Numbers /\ kind = "Expand"
      /\ at = "await" /\ compiler = "running" /\ process[peer].outbox # <<>>
    BY ReceivedEffect DEF ExpansionResult, Answered, Received
<1>2. Running(peer)
    BY <1>1 DEF Inv, Held
<1>3. Response.call = wants[holder]
    BY <1>1, <1>2 DEF Inv, Mail, Dead, Asking, Response
<1>4. session[PackageOf[wants[holder].binary]]
        = [identity |-> wants[holder].binary, process |-> peer]
    BY <1>1 DEF Inv, Served
<1>5. PackageOf[wants[holder].binary] \in Packages /\ peer # 0
    BY <1>1, HolderTalks, PackageOfAssumption, NumbersAreNatural DEF Inv
<1>6. process[peer].image = wants[holder].binary
    BY <1>4, <1>5 DEF Inv, Served
<1> QED  BY <1>3, <1>6

\* A thread that fails is to blame.
LEMMA AnswersStep == Inv /\ Flags /\ Blame /\ Answers /\ [Next]_vars => Answers'
<1> SUFFICES ASSUME Inv, Flags, Blame, Answers, [Next]_vars PROVE Answers'
    OBVIOUS
<1> USE DEF callerVars, holderVars, callerSide
<1>1. ASSUME NEW t \in Threads, NEW b \in Binaries, Call(t, b) PROVE Answers'
    <2>1. /\ answer' = [answer EXCEPT ![t] = NoAnswer]
          /\ wants' = [wants EXCEPT ![t] = [binary |-> b, number |-> events + 1]]
          /\ blamed' = [blamed EXCEPT ![t] = FALSE]
        BY <1>1 DEF Call
    <2>2. \A u \in Threads \ {t} : Blamed(u) => Blamed(u)'
        BY <2>1, Zenon DEF Blamed, Flags
    <2>3. NoAnswer # Failed
        BY Outcomes
    <2>4. \A u \in Threads : answer'[u] = IF u = t THEN NoAnswer ELSE answer[u]
        BY <2>1 DEF Answers
    <2>5. \A u \in Threads : u # t => wants'[u] = wants[u]
        BY <2>1 DEF Inv, Callers
    <2>6. answer' \in [Threads -> Results]
        BY <2>1, Outcomes DEF Answers
    <2> QED  BY <2>2, <2>3, <2>4, <2>5, <2>6 DEF Answers
<1>2. ASSUME NEW t \in Threads, Reuse(t) PROVE Answers'
    <2>1. UNCHANGED <<wants, answer, blamed>>
        BY <1>2 DEF Reuse, Lock
    <2> QED  BY <2>1, AnswersKept
<1>3. ASSUME NEW t \in Threads, Launch(t) PROVE Answers'
    <2>1. wants' = wants /\ answer' = answer
        BY <1>3 DEF Launch, Lock
    <2>2. blamed' = blamed \/ blamed' = [blamed EXCEPT ![t] = TRUE]
        BY <1>3, LaunchEffect
    <2>3. \A u \in Threads : Blamed(u) => Blamed(u)'
        BY <2>2, Zenon DEF Blamed, Flags
    <2> QED  BY <2>1, <2>3 DEF Answers
<1>4. ASSUME Send PROVE Answers'
    <2>1. UNCHANGED <<wants, answer, blamed>>
        BY <1>4 DEF Send, BrokenPipe
    <2> QED  BY <2>1, AnswersKept
<1>5. ASSUME Reject PROVE Answers'
    <2>1. /\ holder \in Threads /\ Return(Failed) /\ blamed' = blamed
        BY <1>5, RetireEffect DEF Reject, Received
    <2>2. Blamed(holder)
        <3>1. /\ holder # None /\ compiler = "running" /\ at = "await" /\ peer \in Numbers
              /\ process[peer].outbox # <<>> /\ ~Matches(Response)
            BY <1>5, RetireEffect DEF Reject, Received, Awaiting
        <3>2. Asking(peer)
            BY <3>1 DEF Inv, Mail, Held, Dead
        <3>3. process[peer].outbox \in Outboxes /\ process[peer].nextId \in Nat
            BY <3>1 DEF Inv, Pipes, Workers
        <3>4. Response \in Responses
            BY <3>1, <3>3, OutboxHead DEF Response
        <3>5. Response.id \in Nat /\ Response.id + 1 = process[peer].nextId
            BY <3>1, <3>2, <3>4 DEF Response, Asking, Responses
        <3>6. Response.outcome = "garbage"
            BY <3>1, <3>3, <3>5 DEF Matches
        <3> QED  BY <3>1, <3>6 DEF Response, Blame, Sound, Dead
    <2> QED  BY <2>1, <2>2, FailureReturned
<1>6. ASSUME MacroFailed PROVE Answers'
    <2>1. /\ holder \in Threads /\ Return(Failed) /\ blamed' = blamed
        BY <1>6, ReceivedEffect DEF MacroFailed
    <2>2. Blamed(holder)
        BY <1>6, ReceivedEffect DEF MacroFailed, Received, Response, Blame, Sound, Dead
    <2> QED  BY <2>1, <2>2, FailureReturned
<1>7. ASSUME HelloAcked PROVE Answers'
    <2>1. UNCHANGED <<wants, answer, blamed>>
        BY <1>7 DEF HelloAcked, Answered, NextRequest
    <2> QED  BY <2>1, AnswersKept
<1>8. ASSUME Described PROVE Answers'
    <2>1. UNCHANGED <<wants, answer, blamed>>
        BY <1>8 DEF Described, Answered, NextRequest, StopBefore
    <2> QED  BY <2>1, AnswersKept
<1>9. ASSUME Misidentified PROVE Answers'
    <2>1. UNCHANGED <<wants, answer, blamed>>
        BY <1>9 DEF Misidentified, Answered, StopBefore
    <2> QED  BY <2>1, AnswersKept
<1>10. ASSUME ExpansionResult PROVE Answers'
    <2>1. /\ holder \in Threads /\ Return(Expanded(process[peer].image, Response.call))
          /\ blamed' = blamed
        BY <1>10, ReceivedEffect DEF ExpansionResult, Answered
    <2>2. process[peer].image = wants[holder].binary /\ Response.call = wants[holder]
        BY <1>10, ExpansionIsOwn
    <2>3. wants[holder].binary \in Binaries /\ wants[holder] \in Calls
        BY <2>1, HolderTalks, NoneAssumption DEF Inv
    <2>4. Return(Expanded(wants[holder].binary, wants[holder]))
        BY <2>1, <2>2
    <2>5. \A u \in Threads : Blamed(u) => Blamed(u)'
        BY <2>1 DEF Blamed
    <2>6. LET e == Expanded(wants[holder].binary, wants[holder])
          IN  e \in Results /\ e # Failed /\ e # NoAnswer
        BY <2>3, Outcomes, ExpansionIsResult
    <2> QED  BY <2>1, <2>3, <2>4, <2>5, <2>6, Returned
<1>11. ASSUME Closed PROVE Answers'
    <2>1. /\ holder \in Threads /\ Return(Failed) /\ blamed' = blamed
        BY <1>11, RetireEffect DEF Closed
    <2>2. Blamed(holder)
        BY <1>11, RetireEffect DEF Closed, Awaiting, Alive, Blame, Sound, Dead
    <2> QED  BY <2>1, <2>2, FailureReturned
<1>12. ASSUME Timeout PROVE Answers'
    <2>1. /\ holder \in Threads /\ Return(Failed)
          /\ blamed' = [blamed EXCEPT ![holder] = TRUE]
        BY <1>12, RetireEffect DEF Timeout
    <2>2. blamed'[holder] /\ \A u \in Threads : Blamed(u) => Blamed(u)'
        BY <2>1, Zenon DEF Blamed, Flags
    <2> QED  BY <2>1, <2>2, Outcomes, Returned
<1>13. ASSUME Stop PROVE Answers'
    <2>1. UNCHANGED <<wants, answer, blamed>>
        BY <1>13 DEF Stop, BrokenPipe
    <2> QED  BY <2>1, AnswersKept
<1>14. ASSUME Replaced PROVE Answers'
    <2>1. UNCHANGED <<wants, answer, blamed>>
        BY <1>14 DEF Replaced
    <2> QED  BY <2>1, AnswersKept
<1>15. ASSUME Dismissed PROVE Answers'
    <2>1. /\ holder # None /\ Return(Failed) /\ blamed' = blamed
        BY <1>15 DEF Dismissed, Reaped, Inv, Held
    <2>2. holder \in Threads /\ Blamed(holder)
        BY <1>15, <2>1, HolderTalks DEF Dismissed, Reaped, Blame, Sound, Dead, Inv
    <2> QED  BY <2>1, <2>2, FailureReturned
<1>16. ASSUME Exit PROVE Answers'
    <2>1. UNCHANGED <<wants, answer, blamed>>
        BY <1>16 DEF Exit
    <2> QED  BY <2>1, AnswersKept
<1>17. ASSUME Destroy PROVE Answers'
    <2>1. UNCHANGED <<wants, answer, blamed>>
        BY <1>17 DEF Destroy
    <2> QED  BY <2>1, AnswersKept
<1>18. ASSUME Destroyed PROVE Answers'
    <2>1. UNCHANGED <<wants, answer, blamed>>
        BY <1>18 DEF Destroyed
    <2> QED  BY <2>1, AnswersKept
<1>19. ASSUME Exited PROVE Answers'
    <2>1. UNCHANGED <<wants, answer, blamed>>
        BY <1>19 DEF Exited
    <2> QED  BY <2>1, AnswersKept
<1>20. ASSUME Kill PROVE Answers'
    <2>1. UNCHANGED <<wants, answer, blamed>>
        BY <1>20 DEF Kill
    <2> QED  BY <2>1, AnswersKept
<1>21. ASSUME NEW w \in Numbers, Serve(w) PROVE Answers'
    <2>1. UNCHANGED <<wants, answer, blamed>>
        BY <1>21 DEF Serve
    <2> QED  BY <2>1, AnswersKept
<1>22. ASSUME NEW w \in Numbers, Answer(w) PROVE Answers'
    <2>1. UNCHANGED <<wants, answer, blamed>>
        BY <1>22 DEF Answer, Respond
    <2> QED  BY <2>1, AnswersKept
<1>23. ASSUME NEW w \in Numbers, EndOfInput(w) PROVE Answers'
    <2>1. UNCHANGED <<wants, answer, blamed>>
        BY <1>23 DEF EndOfInput
    <2> QED  BY <2>1, AnswersKept
<1>24. ASSUME NEW w \in Numbers, Misbehave(w) PROVE Answers'
    <2>1. UNCHANGED callerSide /\ Fault(w)
        BY <1>24 DEF Misbehave, Respond
    <2>2. \A u \in Threads : Blamed(u) => Blamed(u)'
        BY <2>1, FaultBlames
    <2> QED  BY <2>1, <2>2 DEF Answers
<1>25. ASSUME NEW w \in Numbers, Crash(w) PROVE Answers'
    <2>1. UNCHANGED callerSide /\ Fault(w)
        BY <1>25 DEF Crash
    <2>2. \A u \in Threads : Blamed(u) => Blamed(u)'
        BY <2>1, FaultBlames
    <2> QED  BY <2>1, <2>2 DEF Answers
<1>26. ASSUME NEW w \in Numbers, Hang(w) PROVE Answers'
    <2>1. UNCHANGED callerSide /\ Fault(w)
        BY <1>26 DEF Hang
    <2>2. \A u \in Threads : Blamed(u) => Blamed(u)'
        BY <2>1, FaultBlames
    <2> QED  BY <2>1, <2>2 DEF Answers
<1>27. ASSUME UNCHANGED vars PROVE Answers'
    <2>1. UNCHANGED <<wants, answer, blamed>>
        BY <1>27 DEF vars
    <2> QED  BY <2>1, AnswersKept
<1> HIDE DEF callerVars, holderVars, callerSide
<1> QED  BY <1>1, <1>2, <1>3, <1>4, <1>5, <1>6, <1>7, <1>8, <1>9, <1>10, <1>11, <1>12,
            <1>13, <1>14, <1>15, <1>16, <1>17, <1>18, <1>19, <1>20, <1>21, <1>22, <1>23,
            <1>24, <1>25, <1>26, <1>27, StepCases

\* No answer is given, or none is left, or the holder's call fails.
NoExpansion ==
  \/ answer' = answer
  \/ \E u \in Threads : answer' = [answer EXCEPT ![u] = NoAnswer]
  \/ answer' = [answer EXCEPT ![holder] = Failed]

\* So it is in every other step.
LEMMA OtherAnswers ==
    ASSUME [Next]_vars, ~ExpansionResult PROVE NoExpansion
<1> USE DEF callerVars, holderVars, callerSide, NoExpansion
<1>1. ASSUME NEW t \in Threads, NEW b \in Binaries, Call(t, b) PROVE NoExpansion
    BY <1>1 DEF Call
<1>2. ASSUME NEW t \in Threads, Reuse(t) PROVE NoExpansion
    BY <1>2 DEF Reuse, Lock
<1>3. ASSUME NEW t \in Threads, Launch(t) PROVE NoExpansion
    BY <1>3 DEF Launch, Lock
<1>4. ASSUME Send PROVE NoExpansion
    BY <1>4 DEF Send, BrokenPipe
<1>5. ASSUME Reject PROVE NoExpansion
    BY <1>5 DEF Reject, Retire, Return
<1>6. ASSUME MacroFailed PROVE NoExpansion
    BY <1>6 DEF MacroFailed, Return
<1>7. ASSUME HelloAcked PROVE NoExpansion
    BY <1>7 DEF HelloAcked, Answered, NextRequest
<1>8. ASSUME Described PROVE NoExpansion
    BY <1>8 DEF Described, Answered, NextRequest, StopBefore
<1>9. ASSUME Misidentified PROVE NoExpansion
    BY <1>9 DEF Misidentified, Answered, StopBefore
<1>10. ASSUME ExpansionResult PROVE NoExpansion
    BY <1>10, ~ExpansionResult
<1>11. ASSUME Closed PROVE NoExpansion
    BY <1>11 DEF Closed, Retire, Return
<1>12. ASSUME Timeout PROVE NoExpansion
    BY <1>12 DEF Timeout, Retire, Return
<1>13. ASSUME Stop PROVE NoExpansion
    BY <1>13 DEF Stop, BrokenPipe
<1>14. ASSUME Replaced PROVE NoExpansion
    BY <1>14 DEF Replaced
<1>15. ASSUME Dismissed PROVE NoExpansion
    BY <1>15 DEF Dismissed, Return
<1>16. ASSUME Exit PROVE NoExpansion
    BY <1>16 DEF Exit
<1>17. ASSUME Destroy PROVE NoExpansion
    BY <1>17 DEF Destroy
<1>18. ASSUME Destroyed PROVE NoExpansion
    BY <1>18 DEF Destroyed
<1>19. ASSUME Exited PROVE NoExpansion
    BY <1>19 DEF Exited
<1>20. ASSUME Kill PROVE NoExpansion
    BY <1>20 DEF Kill
<1>21. ASSUME NEW w \in Numbers, Serve(w) PROVE NoExpansion
    BY <1>21 DEF Serve
<1>22. ASSUME NEW w \in Numbers, Answer(w) PROVE NoExpansion
    BY <1>22 DEF Answer, Respond
<1>23. ASSUME NEW w \in Numbers, EndOfInput(w) PROVE NoExpansion
    BY <1>23 DEF EndOfInput
<1>24. ASSUME NEW w \in Numbers, Misbehave(w) PROVE NoExpansion
    BY <1>24 DEF Misbehave, Respond
<1>25. ASSUME NEW w \in Numbers, Crash(w) PROVE NoExpansion
    BY <1>25 DEF Crash
<1>26. ASSUME NEW w \in Numbers, Hang(w) PROVE NoExpansion
    BY <1>26 DEF Hang
<1>27. ASSUME UNCHANGED vars PROVE NoExpansion
    BY <1>27 DEF vars
<1> HIDE DEF callerVars, holderVars, callerSide
<1> QED  BY <1>1, <1>2, <1>3, <1>4, <1>5, <1>6, <1>7, <1>8, <1>9, <1>10, <1>11, <1>12,
            <1>13, <1>14, <1>15, <1>16, <1>17, <1>18, <1>19, <1>20, <1>21, <1>22, <1>23,
            <1>24, <1>25, <1>26, <1>27, StepCases
-----------------------------------------------------------------------------
\* What all four theorems start from.
LEMMA Invariance == Spec => []Inv
<1>1. Init => Inv
    <2> SUFFICES ASSUME Init PROVE Inv
        OBVIOUS
    <2>0. MaxEvents \in Nat
        BY MaxEventsAssumption
    <2>1. Callers
        BY <2>0 DEF Init, Callers, NoSession, Kinds
    <2>2. Pipes
        BY DEF Init, Pipes, Unborn, Workers, States, Inboxes, Outboxes
    <2>3. Held
        BY DEF Init, Held
    <2>4. Served
        BY DEF Init, Served, NoSession
    <2>5. Mail
        BY NumbersAreNatural DEF Init, Mail, Running, Alive, Unborn
    <2> QED  BY <2>1, <2>2, <2>3, <2>4, <2>5 DEF Inv
<1>2. Inv /\ [Next]_vars => Inv'
    BY CallersStep, PipesStep, HeldStep, ServedStep, MailStep DEF Inv
<1> QED  BY <1>1, <1>2, PTL DEF Spec

\* However workers crash, hang and answer, and whoever kills the compiler: a
\* process that was forked and not waited for is in the session table or is the
\* one that a thread is dealing with, and an orderly exit leaves none.
THEOREM NoStraysHolds == Spec => []NoStrays
<1>1. Init => NoStrays
    BY NumbersAreNatural DEF Init, NoStrays, Running, Alive, Unborn
<1>2. Inv /\ NoStrays /\ [Next]_vars => NoStrays'
    BY NoStraysStep
<1> QED  BY <1>1, <1>2, Invariance, PTL DEF Spec

\* What is known of blame and of answers.
LEMMA Accounting == Spec => [](Inv /\ Flags /\ Blame /\ Answers)
<1>1. Init => Flags
    BY Zenon DEF Init, Flags
<1>2. Init => Blame /\ Answers
    <2> SUFFICES ASSUME Init PROVE Blame /\ Answers
        OBVIOUS
    <2>1. NoAnswer \in Results /\ NoAnswer # Failed
        BY Outcomes
    <2>2. wants = [t \in Threads |-> None] /\ answer = [t \in Threads |-> NoAnswer]
          /\ holder = None
        BY DEF Init
    <2>3. Answers
        BY <2>1, <2>2 DEF Answers
    <2> QED  BY <2>2, <2>3 DEF Blame
<1>3. Inv /\ Flags /\ [Next]_vars => Flags'
    BY FlagsStep
<1>4. Inv /\ Flags /\ Blame /\ [Next]_vars => Blame'
    BY BlameStep
<1>5. Inv /\ Flags /\ Blame /\ Answers /\ [Next]_vars => Answers'
    BY AnswersStep
<1> QED  BY <1>1, <1>2, <1>3, <1>4, <1>5, Invariance, PTL DEF Spec

\* A call fails only if something went wrong in its own exchange: it is never
\* served by a worker that somebody else's call has left dead, hung or confused.
THEOREM FailuresAreOwnHolds == Spec => []FailuresAreOwn
<1>1. Answers => FailuresAreOwn
    BY DEF Answers, Blamed, FailuresAreOwn
<1> QED  BY <1>1, Accounting, PTL

\* Variables have their types, the mutex is held by a thread in a call, and the
\* worker it talks to has not been waited for.
THEOREM TypeCorrect == Spec => []TypeOK
<1>1. Inv /\ Flags /\ Answers => TypeOK
    <2> SUFFICES ASSUME Inv, Flags, Answers PROVE TypeOK
        OBVIOUS
    <2>1. /\ compiler \in {"running", "exiting", "exited"} \cup Dead
          /\ at \in {"idle", "send", "await", "stop", "reap"} /\ kind \in Kinds
          /\ session \in [Packages ->
               [identity : Binaries \cup {None}, process : 0..MaxEvents]]
          /\ \A t \in Threads : wants[t] # None =>
               wants[t] \in [binary : Binaries, number : 1..MaxEvents]
        BY DEF Inv, Callers, Calls
    <2>2. \A t \in Threads : answer[t] \in Results
        BY DEF Answers
    <2>3. blamed \in [Threads -> BOOLEAN]
        BY DEF Flags
    <2>4. \A w \in Numbers :
            /\ process[w].state \in {"unborn", "reading", "busy", "hung", "dead", "reaped"}
            /\ process[w].inbox \in Inboxes /\ process[w].outbox \in Outboxes
        BY DEF Inv, Pipes, Workers, States
    <2>5. Inboxes \subseteq Seq(Requests)
        <3>1. Asked \subseteq Requests /\ Told \subseteq Requests
            BY DEF Asked, Told, Requests, Calls
        <3>2. SUFFICES ASSUME NEW b \in Inboxes PROVE b \in Seq(Requests)
            OBVIOUS
        <3>3. CASE b # <<>>
            <4>1. PICK r \in Asked \cup Told : b = <<r>>
                BY <3>3, Zenon DEF Inboxes
            <4> QED  BY <3>1, <4>1
        <3>4. CASE b = <<>>
            BY <3>4
        <3> QED  BY <3>3, <3>4
    <2>6. Outboxes \subseteq Seq(Responses)
        <3>1. SUFFICES ASSUME NEW b \in Outboxes PROVE b \in Seq(Responses)
            OBVIOUS
        <3>2. CASE b # <<>>
            <4>1. PICK r \in Responses : b = <<r>>
                BY <3>2, Zenon DEF Outboxes
            <4> QED  BY <4>1
        <3>3. CASE b = <<>>
            BY <3>3
        <3> QED  BY <3>2, <3>3
    <2>7. /\ holder # None => wants[holder] # None /\ Running(peer)
          /\ (holder = None /\ compiler = "running") => at = "idle"
        BY DEF Inv, Held
    <2>8. \A w \in Numbers :
            /\ process[w].state \in {"unborn", "reading", "busy", "hung", "dead", "reaped"}
            /\ process[w].inbox \in Seq(Requests) /\ process[w].outbox \in Seq(Responses)
        BY <2>4, <2>5, <2>6
    <2>9. \A t \in Threads :
            /\ wants[t] # None =>
                 wants[t] \in [binary : Binaries, number : 1..MaxEvents]
            /\ answer[t] \in Results
        BY ONLY <2>1, <2>2, Zenon
    <2> QED  BY ONLY <2>1, <2>3, <2>7, <2>8, <2>9, Zenon DEF TypeOK
<1> QED  BY <1>1, Accounting, PTL

\* A call that succeeds returns the expansion of its own request, made by the
\* very build it asked for.
THEOREM AnswersAreOwnHolds == Spec => AnswersAreOwn
<1> DEFINE Own == \A t \in Threads :
              (wants[t] # None /\ answer'[t].outcome = "expanded") =>
                /\ answer'[t].call = wants[t]
                /\ answer'[t].image = wants[t].binary
<1>1. Inv /\ Flags /\ Blame /\ Answers /\ [Next]_vars => [Own]_vars
    <2> SUFFICES ASSUME Inv, Flags, Blame, Answers, [Next]_vars PROVE Own
        OBVIOUS
    <2>1. /\ NoAnswer.outcome # "expanded" /\ Failed.outcome # "expanded"
          /\ \A b, c : /\ Expanded(b, c).image = b /\ Expanded(b, c).call = c
        BY Outcomes
    <2>2. CASE ExpansionResult
        <3>1. /\ holder \in Threads
              /\ answer' = [answer EXCEPT ![holder] =
                              Expanded(wants[holder].binary, wants[holder])]
            BY <2>2, ReceivedEffect, ExpansionIsOwn DEF ExpansionResult, Answered, Return
        <3>2. \A t \in Threads : answer'[t] =
                IF t = holder THEN Expanded(wants[holder].binary, wants[holder])
                              ELSE answer[t]
            BY <3>1 DEF Answers
        <3> QED  BY <2>1, <3>2 DEF Answers
    <2>3. CASE ~ExpansionResult
        <3>1. ASSUME NEW t \in Threads, wants[t] # None
              PROVE  answer'[t] \in {NoAnswer, Failed}
            <4>1. answer[t] = NoAnswer
                BY <3>1 DEF Answers
            <4>2. \/ answer' = answer
                  \/ \E u \in Threads : answer' = [answer EXCEPT ![u] = NoAnswer]
                  \/ answer' = [answer EXCEPT ![holder] = Failed]
                BY <2>3, OtherAnswers DEF NoExpansion
            <4> QED  BY <4>1, <4>2 DEF Answers
        <3> QED  BY <2>1, <3>1
    <2> QED  BY <2>2, <2>3
<1> QED  BY <1>1, Accounting, PTL DEF Spec, AnswersAreOwn

=============================================================================
