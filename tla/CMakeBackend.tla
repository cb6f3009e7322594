----------------------------- MODULE CMakeBackend -----------------------------
(***************************************************************************)
(* run_cmake_backend and run_user_cmake_backend                            *)
(* (project/cmake_backend.cpp): several `dudu build` over one build        *)
(* directory.  A lock directory keeps them apart; CMakeLists.txt is        *)
(* written only if its text changed; and CMake's configure step is skipped *)
(* if neither that text nor the configure command did.                     *)
(*                                                                         *)
(* A build wants a text of CMakeLists.txt (generated from dudu.toml and    *)
(* the entry, or the user's own file) and a configure command (compiler,   *)
(* duc, options).  CMake is external: a configure step stores the          *)
(* command's values in CMakeCache.txt even when it fails; `cmake --build`  *)
(* generates the build tree anew when that file or CMakeLists.txt changed. *)
(***************************************************************************)
EXTENDS Naturals, FiniteSets

CONSTANTS
    Drivers,
    Lists,         \* texts of CMakeLists.txt
    Commands,      \* configure commands
    Absent,        \* a file that is not there
    Torn,          \* a file that was truncated and not filled
    Scenarios,     \* see Scenario
    MaxAttempts,   \* 2400 in the code
    MaxCalls,
    MaxEvents      \* number of failures, kills, cleans and edits

\* Whether CMakeLists.txt is the user's; the commands in use; whether the
\* configure step may fail, and drivers be killed.
Scenario == [owned : BOOLEAN, commands : SUBSET Commands, broken : BOOLEAN]

ASSUME CMakeAssumption ==
    /\ Lists # {} /\ Commands # {}
    /\ Absent # Torn /\ {Absent, Torn} \cap (Lists \cup Commands) = {}
    /\ Scenarios \subseteq Scenario
    /\ MaxAttempts \in Nat /\ MaxCalls \in Nat /\ MaxEvents \in Nat

Wants == [lists : Lists, command : Commands]

VARIABLES
    lock,       \* .dudu.lock exists
    lists,      \* source/CMakeLists.txt
    cmakeCache, \* build/CMakeCache.txt: the command whose values it has
    tree,       \* what the build tree was generated from
    artifact,   \* what the target was built from
    recorded,   \* configure.command
    pc,
    want,       \* want[p]: what p builds
    attempts,
    changed,    \* write_text_file wrote CMakeLists.txt
    scenario,
    calls, events

buildDir == <<lists, cmakeCache, tree, artifact, recorded>>
locals == <<want, attempts, changed>>
bounds == <<scenario, calls, events>>
vars == <<lock, buildDir, pc, locals, bounds>>

Holding == {"generate", "fill", "configure", "configuring", "record", "fill record",
            "build", "built"}
Places == Holding \cup {"idle", "wait"}

Idle(p) == pc[p] = "idle"
Goto(p, where) == pc' = [pc EXCEPT ![p] = where]
Event == events < MaxEvents /\ events' = events + 1

TypeOK ==
    /\ lock \in BOOLEAN
    /\ lists \in Lists \cup {Absent, Torn}
    /\ cmakeCache \in Commands \cup {Absent}
    /\ tree \in Wants \cup {Absent}
    /\ artifact \in Wants \cup {Absent}
    /\ recorded \in Commands \cup {Absent, Torn}
    /\ pc \in [Drivers -> Places]
    /\ want \in [Drivers -> Wants]
    /\ attempts \in [Drivers -> 0 .. MaxAttempts]
    /\ changed \in [Drivers -> BOOLEAN]
    /\ scenario \in Scenarios
    /\ calls \in 0 .. MaxCalls /\ events \in 0 .. MaxEvents

Init ==
    /\ scenario \in Scenarios
    /\ lists \in IF scenario.owned THEN Lists ELSE {Absent}
    /\ lock = FALSE
    /\ cmakeCache = Absent /\ tree = Absent /\ artifact = Absent /\ recorded = Absent
    /\ pc = [p \in Drivers |-> "idle"]
    /\ want \in [Drivers -> {CHOOSE w \in Wants : TRUE}]
    /\ attempts = [p \in Drivers |-> 0]
    /\ changed = [p \in Drivers |-> FALSE]
    /\ calls = 0 /\ events = 0

-----------------------------------------------------------------------------
(* The lock *)

Call(p, w) ==
    /\ Idle(p) /\ calls < MaxCalls
    /\ w.command \in scenario.commands
    /\ scenario.owned => w.lists = lists
    /\ calls' = calls + 1
    /\ want' = [want EXCEPT ![p] = w]
    /\ attempts' = [attempts EXCEPT ![p] = 0]
    /\ changed' = [changed EXCEPT ![p] = FALSE]
    /\ Goto(p, "wait")
    /\ UNCHANGED <<lock, buildDir, scenario, events>>

\* A variant: whether the directory is there is not asked while it is made.
AcquireAnyway(p) ==
    /\ pc[p] = "wait"
    /\ lock' = TRUE
    /\ Goto(p, IF scenario.owned THEN "configure" ELSE "generate")
    /\ UNCHANGED <<buildDir, locals, bounds>>

\* create_directory made it: there was none.
Acquire(p) ==
    /\ pc[p] = "wait" /\ ~lock
    /\ lock' = TRUE
    /\ Goto(p, IF scenario.owned THEN "configure" ELSE "generate")
    /\ UNCHANGED <<buildDir, locals, bounds>>

\* A variant: it waits as long as it takes.
WaitForever(p) == pc[p] = "wait" /\ lock /\ UNCHANGED vars

\* A variant: one attempt too many.
WaitOnce(p) ==
    /\ pc[p] = "wait" /\ lock
    /\ attempts[p] <= MaxAttempts
    /\ attempts' = [attempts EXCEPT ![p] = @ + 1]
    /\ UNCHANGED <<lock, buildDir, pc, want, changed, bounds>>

\* Another 50 ms.
Wait(p) ==
    /\ pc[p] = "wait" /\ lock
    /\ attempts[p] < MaxAttempts
    /\ attempts' = [attempts EXCEPT ![p] = @ + 1]
    /\ UNCHANGED <<lock, buildDir, pc, want, changed, bounds>>

\* "CMake backend is locked by another dudu process".
GiveUp(p) ==
    /\ pc[p] = "wait" /\ lock
    /\ attempts[p] = MaxAttempts
    /\ Goto(p, "idle")
    /\ UNCHANGED <<lock, buildDir, locals, bounds>>

\* The end of run_cmake_backend, by return or exception: ~BackendLock.
Leave(p) == lock' = FALSE /\ Goto(p, "idle")

-----------------------------------------------------------------------------
(* CMakeLists.txt *)

\* write_text_file: truncates it, if it has another text.
Generate(p) ==
    LET differs == lists # want[p].lists
    IN  /\ pc[p] = "generate"
        /\ lists' = IF differs THEN Torn ELSE lists
        /\ changed' = [changed EXCEPT ![p] = differs]
        /\ Goto(p, IF differs THEN "fill" ELSE "configure")
        /\ UNCHANGED <<lock, cmakeCache, tree, artifact, recorded, want, attempts, bounds>>

Fill(p) ==
    /\ pc[p] = "fill"
    /\ lists' = want[p].lists
    /\ Goto(p, "configure")
    /\ UNCHANGED <<lock, cmakeCache, tree, artifact, recorded, locals, bounds>>

-----------------------------------------------------------------------------
(* Configuring *)

\* A variant: a cache is enough.
CacheExists(p) == cmakeCache # Absent

\* configure_is_current
ConfigureIsCurrent(p) == cmakeCache # Absent /\ recorded = want[p].command

Configure(p) ==
    /\ pc[p] = "configure"
    /\ Goto(p, IF changed[p] \/ ~ConfigureIsCurrent(p) THEN "configuring" ELSE "build")
    /\ UNCHANGED <<lock, buildDir, locals, bounds>>

Configured(p) ==
    /\ pc[p] = "configuring"
    /\ cmakeCache' = want[p].command
    /\ tree' = [lists |-> lists, command |-> want[p].command]
    /\ Goto(p, "record")
    /\ UNCHANGED <<lock, lists, artifact, recorded, locals, bounds>>

\* A compiler is missing, say.  The command is not recorded.
ConfigureFails(p) ==
    /\ scenario.broken /\ Event
    /\ pc[p] = "configuring"
    /\ cmakeCache' = want[p].command
    /\ Leave(p)
    /\ UNCHANGED <<lists, tree, artifact, recorded, locals, scenario, calls>>

\* record_configure_command: write_text_file again.
Record(p) ==
    LET differs == recorded # want[p].command
    IN  /\ pc[p] = "record"
        /\ recorded' = IF differs THEN Torn ELSE recorded
        /\ Goto(p, IF differs THEN "fill record" ELSE "build")
        /\ UNCHANGED <<lock, lists, cmakeCache, tree, artifact, locals, bounds>>

FillRecord(p) ==
    /\ pc[p] = "fill record"
    /\ recorded' = want[p].command
    /\ Goto(p, "build")
    /\ UNCHANGED <<lock, lists, cmakeCache, tree, artifact, locals, bounds>>

-----------------------------------------------------------------------------
(* Building *)

\* cmake --build: the tree, if it is out of date, and the target.
Build(p) ==
    LET now == [lists |-> lists, command |-> cmakeCache]
    IN  /\ pc[p] = "build"
        /\ tree' = now
        /\ artifact' = now
        /\ Goto(p, "built")
        /\ UNCHANGED <<lock, lists, cmakeCache, recorded, locals, bounds>>

\* The program does not compile.
BuildFails(p) ==
    /\ Event
    /\ pc[p] = "build"
    /\ Leave(p)
    /\ UNCHANGED <<buildDir, locals, scenario, calls>>

\* The artifact's path is returned.
Return(p) ==
    /\ pc[p] = "built"
    /\ Leave(p)
    /\ UNCHANGED <<buildDir, locals, bounds>>

-----------------------------------------------------------------------------
(* What happens besides *)

\* A driver dies, and CMake with it; the lock directory stays.
Kill(p) ==
    /\ scenario.broken /\ ~Idle(p) /\ Event
    /\ Goto(p, "idle")
    /\ UNCHANGED <<lock, buildDir, locals, scenario, calls>>

\* clean_project, which knows nothing of the lock; while nobody builds.
Clean ==
    /\ Event /\ \A p \in Drivers : Idle(p)
    /\ lock' = FALSE
    /\ lists' = IF scenario.owned THEN lists ELSE Absent
    /\ cmakeCache' = Absent /\ tree' = Absent /\ artifact' = Absent /\ recorded' = Absent
    /\ UNCHANGED <<pc, locals, scenario, calls>>

\* The user removes the lock that the message names, of a driver that is dead.
Unlock ==
    /\ lock /\ \A p \in Drivers : Idle(p)
    /\ lock' = FALSE
    /\ UNCHANGED <<buildDir, pc, locals, bounds>>

\* The user edits his CMakeLists.txt, while nobody builds.
Edit(l) ==
    /\ scenario.owned /\ lists # l
    /\ Event /\ \A p \in Drivers : Idle(p)
    /\ lists' = l
    /\ UNCHANGED <<lock, cmakeCache, tree, artifact, recorded, pc, locals, scenario, calls>>

Finished ==
    /\ calls = MaxCalls /\ \A p \in Drivers : Idle(p)
    /\ UNCHANGED vars

\* Without another driver's help, a kill or a failure.
Proceed(p) ==
    \/ Acquire(p) \/ Wait(p) \/ GiveUp(p) \/ Generate(p) \/ Fill(p)
    \/ Configure(p) \/ Configured(p) \/ Record(p) \/ FillRecord(p)
    \/ Build(p) \/ Return(p)

Next ==
    \/ \E p \in Drivers :
          \/ \E w \in Wants : Call(p, w)
          \/ Proceed(p) \/ ConfigureFails(p) \/ BuildFails(p) \/ Kill(p)
    \/ Clean \/ Unlock
    \/ \E l \in Lists : Edit(l)
    \/ Finished

\* The commands that a driver runs end, and so does its sleep.
Fairness == \A p \in Drivers : WF_vars(Proceed(p))

Spec == Init /\ [][Next]_vars /\ Fairness

-----------------------------------------------------------------------------
(* Properties *)

\* At most one driver works in the build directory, and while it does the lock
\* directory is there.
OneAtATime ==
    LET inside == {p \in Drivers : pc[p] \in Holding}
    IN  /\ \A p, q \in inside : p = q
        /\ inside # {} => lock

\* A build that succeeds has built what it was asked for, although it skipped
\* the configure step, other drivers wanted something else, or an earlier one
\* failed or was killed half way.
BuildsAreOwn == \A p \in Drivers : pc[p] = "built" => artifact = want[p]

\* Every call returns, also when the lock's owner is dead.
CallsEnd == \A p \in Drivers : pc[p] # "idle" ~> pc[p] = "idle"
===============================================================================
