------------------------------ MODULE Toolchain ------------------------------
(***************************************************************************)
(* install.sh: installing, updating, rolling back and uninstalling         *)
(* toolchains under one prefix.  A version is built in a staging directory *)
(* that is renamed when it is whole; `current` and `previous` are links,   *)
(* each replaced by a rename, and the commands in bin/ go through          *)
(* `current`; installs.json says what the links are.  An uninstall unlinks *)
(* the commands and then removes the rest with one rm -rf, file by file.   *)
(* There is no lock, and a script may be killed at any moment, also while  *)
(* it removes.                                                             *)
(*                                                                         *)
(* A staging directory has the process's number in its name, and nobody    *)
(* else looks at it; it is left out, also where two installs of a version  *)
(* overlap and the second one's ends up inside the whole toolchain.        *)
(* Release archives, checksums, native dependencies and the shell profile  *)
(* are left out too.                                                       *)
(***************************************************************************)
EXTENDS Naturals, Sequences

CONSTANTS
    Scripts,     \* invocations of install.sh that may run at a time
    Versions,
    Tools,       \* dudu, duc, dudu-lsp
    None,
    Scenarios,   \* whether scripts overlap; then nobody uninstalls
    MaxKills, MaxOperations

ASSUME ToolchainAssumption ==
    /\ None \notin Versions
    /\ Scenarios \subseteq [overlap : BOOLEAN]
    /\ MaxKills \in Nat /\ MaxOperations \in Nat

VARIABLES
    toolchain,   \* toolchains/: of each version "none" or a "whole" toolchain, one
                 \* that is "gutted", files other than bin/dudu being gone, or the
                 \* "remains" of one, a directory without bin/dudu
    current, previous,
    commands,    \* the links in bin/
    foreign,     \* tools that bin/ has a file of somebody else's for
    metadata,    \* installs.json
    pc,
    operation,   \* operation[s]: "install", "rollback" or "uninstall"
    version,     \* what s installs
    seen,        \* the link that s read
    todo,        \* the tools that s has not linked yet
    before,      \* <<current, previous>> when s began
    done,        \* the operation that completed last, if it was alone and
                 \* nothing happened since
    torn,        \* the versions an uninstall has removed files of that nobody has
                 \* built since, while no uninstall has completed
    scenario, kills, operations

links == <<current, previous>>
tree == <<toolchain, torn>>
locals == <<operation, version, seen, todo, before>>
bounds == <<scenario, kills, operations>>
vars == <<tree, links, commands, foreign, metadata, pc, locals, done, bounds>>

InstallSteps == <<"build", "read", "previous", "current", "commands", "metadata">>
RollbackSteps == <<"read", "current", "previous", "metadata">>

\* A variant: the toolchains go first.
UninstallStateFirst == <<"remove", "commands">>

UninstallSteps == <<"commands", "remove">>

Steps(s) == CASE operation[s] = "install"   -> InstallSteps
              [] operation[s] = "rollback"  -> RollbackSteps
              [] operation[s] = "uninstall" -> UninstallSteps
Places == {"idle", "build", "read", "previous", "current", "commands", "metadata", "remove"}

Maybe == Versions \cup {None}

TypeOK ==
    /\ toolchain \in [Versions -> {"none", "whole", "gutted", "remains"}]
    /\ torn \subseteq Versions
    /\ current \in Maybe /\ previous \in Maybe
    /\ commands \subseteq Tools \ foreign /\ foreign \subseteq Tools
    /\ metadata \in (Versions \X Maybe) \cup {<<>>}
    /\ pc \in [Scripts -> Places]
    /\ operation \in [Scripts -> {"install", "rollback", "uninstall"}]
    /\ version \in [Scripts -> Maybe]
    /\ seen \in [Scripts -> Maybe \X Maybe]
    /\ todo \in [Scripts -> SUBSET Tools]
    /\ before \in [Scripts -> Maybe \X Maybe]
    /\ done \in Scripts \cup {None}
    /\ scenario \in Scenarios
    /\ kills \in 0 .. MaxKills /\ operations \in 0 .. MaxOperations

\* The toolchains with nothing missing, those with bin/dudu in them, which is all
\* that the script looks for, and those with anything in them.
Whole == {v \in Versions : toolchain[v] = "whole"}
Runs == {v \in Versions : toolchain[v] \in {"whole", "gutted"}}
There == {v \in Versions : toolchain[v] # "none"}

Idle(s) == pc[s] = "idle"
Alone(s) == \A other \in Scripts : other # s => Idle(other)
Goto(s, where) == pc' = [pc EXCEPT ![s] = where]

\* The place after this one in the plan of s's operation.
After(s) ==
    LET plan == Steps(s)
        here == CHOOSE i \in 1 .. Len(plan) : plan[i] = pc[s]
    IN  plan[here + 1]

Init ==
    /\ scenario \in Scenarios
    /\ toolchain = [v \in Versions |-> "none"] /\ torn = {}
    /\ current = None /\ previous = None
    /\ commands = {}
    /\ foreign \in SUBSET Tools
    /\ metadata = <<>>
    /\ pc = [s \in Scripts |-> "idle"]
    /\ operation = [s \in Scripts |-> "install"]
    /\ version = [s \in Scripts |-> None]
    /\ seen = [s \in Scripts |-> <<None, None>>]
    /\ todo = [s \in Scripts |-> {}]
    /\ before = [s \in Scripts |-> <<None, None>>]
    /\ done = None
    /\ kills = 0 /\ operations = 0

-----------------------------------------------------------------------------
(* Starting *)

Begin(s, what, v) ==
    /\ Idle(s) /\ operations < MaxOperations
    /\ scenario.overlap \/ Alone(s)
    /\ operations' = operations + 1
    /\ operation' = [operation EXCEPT ![s] = what]
    /\ version' = [version EXCEPT ![s] = v]
    /\ todo' = [todo EXCEPT ![s] = Tools]
    /\ before' = [before EXCEPT ![s] = links]
    /\ done' = None
    /\ UNCHANGED <<tree, links, commands, foreign, metadata, seen, scenario, kills>>

\* The bootstrap script, or `dudu update`.
Install(s, v) == Begin(s, "install", v) /\ Goto(s, "build")

\* `dudu update --rollback`, from a toolchain that runs: a gutted one may.
Rollback(s) ==
    /\ current \in Runs
    /\ Begin(s, "rollback", None) /\ Goto(s, "read")

Uninstall(s) ==
    /\ current \in Runs /\ ~scenario.overlap
    /\ Begin(s, "uninstall", None) /\ Goto(s, UninstallSteps[1])

\* die
Die(s) ==
    /\ Goto(s, "idle")
    /\ done' = None
    /\ UNCHANGED <<tree, links, commands, foreign, metadata, locals, bounds>>

Complete(s) ==
    /\ Goto(s, "idle")
    /\ done' = IF scenario.overlap THEN None ELSE s

-----------------------------------------------------------------------------
(* Installing and rolling back *)

\* Fetched, built in a staging directory, tried and moved into place, unless
\* bin/dudu is there.  Into a directory without it mv puts the staging directory,
\* beside what remains.
Build(s) ==
    /\ pc[s] = "build"
    /\ IF toolchain[version[s]] = "none"
       THEN /\ toolchain' = [toolchain EXCEPT ![version[s]] = "whole"]
            /\ torn' = torn \ {version[s]}
       ELSE UNCHANGED tree
    /\ Goto(s, After(s))
    /\ UNCHANGED <<links, commands, foreign, metadata, locals, done, bounds>>

\* It cannot be fetched, its checksum is wrong, it does not compile or run.
BuildFails(s) == pc[s] = "build" /\ Die(s)

\* The first lines of link_version: nothing to do, or no previous version.
ReadCurrent(s) ==
    /\ pc[s] = "read" /\ operation[s] = "install"
    /\ seen' = [seen EXCEPT ![s] = <<version[s], current>>]
    /\ Goto(s, CASE current = version[s] -> "commands"
                 [] current = None       -> "current"
                 [] OTHER                -> "previous")
    /\ UNCHANGED <<tree, links, commands, foreign, metadata, operation, version, todo,
                   before, done, bounds>>

\* The first lines of perform_rollback: there are both, and the previous one
\* has its bin/dudu.
ReadBoth(s) ==
    /\ pc[s] = "read" /\ operation[s] = "rollback"
    /\ current # None /\ previous \in Runs
    /\ seen' = [seen EXCEPT ![s] = <<previous, current>>]
    /\ Goto(s, After(s))
    /\ UNCHANGED <<tree, links, commands, foreign, metadata, operation, version, todo,
                   before, done, bounds>>

NothingToRestore(s) ==
    /\ pc[s] = "read" /\ operation[s] = "rollback"
    /\ current = None \/ previous \notin Runs
    /\ Die(s)

\* atomic_link
LinkCurrent(s) ==
    /\ pc[s] = "current"
    /\ current' = seen[s][1]
    /\ Goto(s, After(s))
    /\ UNCHANGED <<tree, previous, commands, foreign, metadata, locals, done, bounds>>

LinkPrevious(s) ==
    /\ pc[s] = "previous"
    /\ previous' = seen[s][2]
    /\ Goto(s, After(s))
    /\ UNCHANGED <<tree, current, commands, foreign, metadata, locals, done, bounds>>

\* A variant: a file that is in the way is replaced.
LinkOver(s, t) ==
    /\ pc[s] = "commands" /\ operation[s] = "install"
    /\ t \in todo[s]
    /\ commands' = commands \cup {t}
    /\ todo' = [todo EXCEPT ![s] = @ \ {t}]
    /\ Goto(s, IF todo[s] = {t} THEN After(s) ELSE "commands")
    /\ UNCHANGED <<tree, links, foreign, metadata, operation, version, seen, before,
                   done, bounds>>

\* link_commands, one after another.
LinkCommand(s, t) ==
    /\ pc[s] = "commands" /\ operation[s] = "install"
    /\ t \in todo[s] \ foreign
    /\ commands' = commands \cup {t}
    /\ todo' = [todo EXCEPT ![s] = @ \ {t}]
    /\ Goto(s, IF todo[s] = {t} THEN After(s) ELSE "commands")
    /\ UNCHANGED <<tree, links, foreign, metadata, operation, version, seen, before,
                   done, bounds>>

\* "refusing to replace non-symlink command"
RefuseCommand(s) ==
    /\ pc[s] = "commands" /\ operation[s] = "install"
    /\ todo[s] \cap foreign # {}
    /\ Die(s)

\* A variant: what was read when the operation began.
AsRead(s) == seen[s]

\* An install reads `previous` again, a rollback knows it.
Recorded(s) == IF operation[s] = "install" THEN <<version[s], previous>> ELSE seen[s]

\* write_metadata: a new file that is renamed.
WriteMetadata(s) ==
    /\ pc[s] = "metadata"
    /\ metadata' = Recorded(s)
    /\ Complete(s)
    /\ UNCHANGED <<tree, links, commands, foreign, locals, bounds>>

-----------------------------------------------------------------------------
(* Uninstalling *)

UnlinkCommand(s, t) ==
    /\ pc[s] = "commands" /\ operation[s] = "uninstall"
    /\ t \in todo[s]
    /\ commands' = commands \ {t}
    /\ todo' = [todo EXCEPT ![s] = @ \ {t}]
    /\ IF todo[s] # {t} THEN UNCHANGED <<pc, done>>
       ELSE IF Steps(s)[Len(Steps(s))] = "commands" THEN Complete(s)
       ELSE Goto(s, After(s)) /\ UNCHANGED done
    /\ UNCHANGED <<tree, links, foreign, metadata, operation, version, seen, before,
                   bounds>>

\* rm -rf share/dudu, in whatever order: a file of a toolchain, which may be
\* bin/dudu or the last one...
RemoveFrom(s, v) ==
    /\ pc[s] = "remove"
    /\ \E left \in CASE toolchain[v] = "whole"   -> {"gutted", "remains"}
                     [] toolchain[v] = "gutted"  -> {"remains"}
                     [] toolchain[v] = "remains" -> {"none"}
                     [] toolchain[v] = "none"    -> {} :
          toolchain' = [toolchain EXCEPT ![v] = left]
    /\ torn' = torn \cup {v}
    /\ UNCHANGED <<links, commands, foreign, metadata, pc, locals, done, bounds>>

\* ... a link, or installs.json.
RemoveLink(s) ==
    /\ pc[s] = "remove"
    /\ \/ current # None /\ current' = None /\ UNCHANGED <<previous, metadata>>
       \/ previous # None /\ previous' = None /\ UNCHANGED <<current, metadata>>
       \/ metadata # <<>> /\ metadata' = <<>> /\ UNCHANGED links
    /\ UNCHANGED <<tree, commands, foreign, pc, locals, done, bounds>>

\* Nothing is left.
Removed(s) ==
    /\ pc[s] = "remove"
    /\ There = {} /\ links = <<None, None>> /\ metadata = <<>>
    /\ torn' = {}
    /\ IF Steps(s)[Len(Steps(s))] = "remove" THEN Complete(s)
       ELSE Goto(s, After(s)) /\ UNCHANGED done
    /\ UNCHANGED <<toolchain, links, commands, foreign, metadata, locals, bounds>>

\* Something cannot be removed.
RemoveFails(s) == pc[s] = "remove" /\ Die(s)

-----------------------------------------------------------------------------

Kill(s) ==
    /\ ~Idle(s) /\ kills < MaxKills
    /\ kills' = kills + 1
    /\ Goto(s, "idle")
    /\ UNCHANGED <<tree, links, commands, foreign, metadata, locals, done, scenario,
                   operations>>

Finished ==
    /\ operations = MaxOperations /\ \A s \in Scripts : Idle(s)
    /\ UNCHANGED vars

Next ==
    \/ \E s \in Scripts :
          \/ \E v \in Versions : Install(s, v)
          \/ Rollback(s) \/ Uninstall(s)
          \/ Build(s) \/ BuildFails(s) \/ ReadCurrent(s) \/ ReadBoth(s) \/ NothingToRestore(s)
          \/ LinkCurrent(s) \/ LinkPrevious(s) \/ RefuseCommand(s) \/ WriteMetadata(s)
          \/ \E t \in Tools : LinkCommand(s, t) \/ UnlinkCommand(s, t)
          \/ \E v \in Versions : RemoveFrom(s, v)
          \/ RemoveLink(s) \/ Removed(s) \/ RemoveFails(s) \/ Kill(s)
    \/ Finished

Spec == Init /\ [][Next]_vars

-----------------------------------------------------------------------------
(* Properties *)

\* A command that is linked leads to a toolchain that is there and whole, at every
\* moment of any operation, also of several at a time, and whatever was killed; so
\* do the links, if they are there.  The versions are excepted that an uninstall
\* which did not complete has taken files of: a later install takes one that still
\* has its bin/dudu for whole, or builds beside what remains, and links commands to
\* it; of these it is only said that something is there.  Nothing is excepted while
\* an uninstall removes: no command leads to what is going.
CommandsRun ==
    /\ commands # {} => \/ current \in Whole
                        \/ current \in There \cap torn /\ \A s \in Scripts : pc[s] # "remove"
    /\ {current, previous} \subseteq Whole \cup torn \cup {None}

\* An operation that completes has done what it says, also after others that
\* were killed or died half way: an install has made its version the current
\* one, and the one that was current the previous one, if they differ; a
\* rollback has exchanged the two; the metadata is what the links are.
CompletedIsConsistent ==
    done # None =>
        LET was == before[done]
        IN  CASE operation[done] = "install" ->
                    /\ current = version[done]
                    /\ was[1] \notin {None, current} => previous = was[1]
                    /\ metadata = links /\ commands = Tools
              [] operation[done] = "rollback" ->
                    links = <<was[2], was[1]>> /\ metadata = links
              [] operation[done] = "uninstall" ->
                    commands = {} /\ There = {} /\ links = <<None, None>>
===============================================================================
