---------------------------- MODULE ToolchainProofs ----------------------------
(***************************************************************************)
(* A command that is linked can be run, and an operation that completes    *)
(* has done what it says, for any number of scripts, tools and versions,   *)
(* killed at any place.                                                    *)
(***************************************************************************)
EXTENDS Toolchain, TLAPS

\* The types that the rest needs.
Core ==
    /\ toolchain \in [Versions -> {"none", "whole", "gutted", "remains"}]
    /\ torn \subseteq Versions
    /\ current \in Maybe /\ previous \in Maybe
    /\ commands \subseteq Tools
    /\ pc \in [Scripts -> Places]
    /\ operation \in [Scripts -> {"install", "rollback", "uninstall"}]
    /\ version \in [Scripts -> Maybe]
    /\ seen \in [Scripts -> Maybe \X Maybe]
    /\ todo \in [Scripts -> SUBSET Tools]

\* A script is at a place of its operation's plan.
PlanInv ==
    \A s \in Scripts :
        /\ operation[s] = "install" => pc[s] # "remove"
        /\ operation[s] = "rollback" => pc[s] \notin {"build", "commands", "remove"}
        /\ operation[s] = "uninstall" => pc[s] \in {"idle", "commands", "remove"}
        /\ pc[s] = "build" => version[s] \in Versions

\* Whoever uninstalls is alone.
AloneInv ==
    /\ ~scenario.overlap => \A s, t \in Scripts : pc[s] # "idle" /\ pc[t] # "idle" => s = t
    /\ \A s \in Scripts : pc[s] # "idle" /\ operation[s] = "uninstall" => ~scenario.overlap

\* What a link may lead to.
Sound == Whole \cup torn \cup {None}

\* What is linked, or is about to be, is there; what an uninstall has damaged and
\* nobody has replaced is known.
LinkInv ==
    /\ There \subseteq Whole \cup torn
    /\ current \in Sound /\ previous \in Sound
    /\ commands # {} => current \in There
    /\ \A s \in Scripts :
          /\ pc[s] = "remove" => commands = {}
          /\ pc[s] = "commands" => IF operation[s] = "uninstall" THEN commands \subseteq todo[s]
                                                                ELSE current \in There
          /\ operation[s] = "install" /\ pc[s] \notin {"idle", "build"} => version[s] \in There
          /\ pc[s] \in {"current", "previous"} => seen[s][1] \in There /\ seen[s][2] \in Sound
          /\ operation[s] = "rollback" /\ pc[s] = "metadata" => seen[s][1] \in There

\* What nothing depends on.
RestInv ==
    /\ foreign \subseteq Tools /\ commands \cap foreign = {}
    /\ metadata \in (Versions \X Maybe) \cup {<<>>}
    /\ before \in [Scripts -> Maybe \X Maybe]
    /\ done \in Scripts \cup {None}
    /\ scenario \in Scenarios

Counters == kills \in 0 .. MaxKills /\ operations \in 0 .. MaxOperations

\* How far a script that is alone has come, and what the one that completed
\* last left behind.
AimInv ==
    /\ done # None => ~scenario.overlap /\ \A s \in Scripts : pc[s] = "idle"
    /\ ~scenario.overlap => \A s \in Scripts :
          /\ pc[s] \in {"build", "read"} => links = before[s]
          /\ operation[s] = "install" =>
                /\ pc[s] \in {"build", "read", "previous", "current"} => todo[s] = Tools
                /\ pc[s] = "previous" =>
                      links = before[s] /\ seen[s] = <<version[s], before[s][1]>>
                /\ pc[s] = "current" => seen[s][1] = version[s]
                /\ pc[s] \in {"commands", "metadata"} => current = version[s]
                /\ pc[s] \in {"current", "commands", "metadata"} =>
                      (before[s][1] \notin {None, version[s]} => previous = before[s][1])
                /\ pc[s] = "commands" => Tools \ todo[s] \subseteq commands
                /\ pc[s] = "metadata" => Tools \subseteq commands
          /\ operation[s] = "rollback" /\ pc[s] \in {"current", "previous", "metadata"} =>
                /\ seen[s] = <<before[s][2], before[s][1]>>
                /\ pc[s] = "current" => links = before[s]
                /\ pc[s] # "current" => current = before[s][2]
                /\ pc[s] = "metadata" => previous = before[s][1]

-----------------------------------------------------------------------------
\* The steps, one by one.
LEMMA StepCases ==
    ASSUME NEW P, [Next]_vars,
           \A s \in Scripts, v \in Versions : Install(s, v) => P,
           \A s \in Scripts : Rollback(s) => P,
           \A s \in Scripts : Uninstall(s) => P,
           \A s \in Scripts : Build(s) => P,
           \A s \in Scripts : BuildFails(s) => P,
           \A s \in Scripts : ReadCurrent(s) => P,
           \A s \in Scripts : ReadBoth(s) => P,
           \A s \in Scripts : NothingToRestore(s) => P,
           \A s \in Scripts : LinkCurrent(s) => P,
           \A s \in Scripts : LinkPrevious(s) => P,
           \A s \in Scripts : RefuseCommand(s) => P,
           \A s \in Scripts : WriteMetadata(s) => P,
           \A s \in Scripts, t \in Tools : LinkCommand(s, t) => P,
           \A s \in Scripts, t \in Tools : UnlinkCommand(s, t) => P,
           \A s \in Scripts, v \in Versions : RemoveFrom(s, v) => P,
           \A s \in Scripts : RemoveLink(s) => P,
           \A s \in Scripts : Removed(s) => P,
           \A s \in Scripts : RemoveFails(s) => P,
           \A s \in Scripts : Kill(s) => P,
           UNCHANGED vars => P
    PROVE  P
BY DEF Next, Finished

\* What comes after a place in a plan.
LEMMA PlanNext ==
    ASSUME NEW plan, NEW place, NEW i \in 1 .. Len(plan), plan[i] = place,
           \A j \in 1 .. Len(plan) : plan[j] = place => j = i
    PROVE  plan[(CHOOSE j \in 1 .. Len(plan) : plan[j] = place) + 1] = plan[i + 1]
<1>1. (CHOOSE j \in 1 .. Len(plan) : plan[j] = place) = i
    BY Zenon
<1> QED  BY ONLY <1>1

\* The three plans, place by place.
LEMMA AfterPlaces ==
    ASSUME NEW s \in Scripts
    PROVE  /\ operation[s] = "install" =>
                /\ pc[s] = "build" => After(s) = "read"
                /\ pc[s] = "previous" => After(s) = "current"
                /\ pc[s] = "current" => After(s) = "commands"
                /\ pc[s] = "commands" => After(s) = "metadata"
           /\ operation[s] = "rollback" =>
                /\ pc[s] = "read" => After(s) = "current"
                /\ pc[s] = "current" => After(s) = "previous"
                /\ pc[s] = "previous" => After(s) = "metadata"
           /\ operation[s] = "uninstall" =>
                /\ pc[s] = "commands" => After(s) = "remove"
                /\ Steps(s)[Len(Steps(s))] = "remove"
<1>1. ASSUME operation[s] = "install" PROVE Steps(s) = InstallSteps
    BY <1>1 DEF Steps
<1>2. ASSUME operation[s] = "rollback" PROVE Steps(s) = RollbackSteps
    BY <1>2 DEF Steps
<1>3. ASSUME operation[s] = "uninstall" PROVE Steps(s) = UninstallSteps
    BY <1>3 DEF Steps
<1>4. ASSUME operation[s] = "install", pc[s] = "build" PROVE After(s) = "read"
    <2>1. /\ 1 \in 1 .. Len(InstallSteps)
          /\ InstallSteps[1] = "build"
          /\ InstallSteps[1 + 1] = "read"
          /\ \A j \in 1 .. Len(InstallSteps) : InstallSteps[j] = "build" => j = 1
        BY DEF InstallSteps
    <2>2. InstallSteps[(CHOOSE j \in 1 .. Len(InstallSteps) : InstallSteps[j] = "build") + 1]
              = InstallSteps[1 + 1]
        BY ONLY <2>1, PlanNext
    <2> QED  BY ONLY <1>1, <1>4, <2>1, <2>2, Zenon DEF After
<1>5. ASSUME operation[s] = "install", pc[s] = "previous" PROVE After(s) = "current"
    <2>1. /\ 3 \in 1 .. Len(InstallSteps)
          /\ InstallSteps[3] = "previous"
          /\ InstallSteps[3 + 1] = "current"
          /\ \A j \in 1 .. Len(InstallSteps) : InstallSteps[j] = "previous" => j = 3
        BY DEF InstallSteps
    <2>2. InstallSteps[(CHOOSE j \in 1 .. Len(InstallSteps) : InstallSteps[j] = "previous") + 1]
              = InstallSteps[3 + 1]
        BY ONLY <2>1, PlanNext
    <2> QED  BY ONLY <1>1, <1>5, <2>1, <2>2, Zenon DEF After
<1>6. ASSUME operation[s] = "install", pc[s] = "current" PROVE After(s) = "commands"
    <2>1. /\ 4 \in 1 .. Len(InstallSteps)
          /\ InstallSteps[4] = "current"
          /\ InstallSteps[4 + 1] = "commands"
          /\ \A j \in 1 .. Len(InstallSteps) : InstallSteps[j] = "current" => j = 4
        BY DEF InstallSteps
    <2>2. InstallSteps[(CHOOSE j \in 1 .. Len(InstallSteps) : InstallSteps[j] = "current") + 1]
              = InstallSteps[4 + 1]
        BY ONLY <2>1, PlanNext
    <2> QED  BY ONLY <1>1, <1>6, <2>1, <2>2, Zenon DEF After
<1>7. ASSUME operation[s] = "install", pc[s] = "commands" PROVE After(s) = "metadata"
    <2>1. /\ 5 \in 1 .. Len(InstallSteps)
          /\ InstallSteps[5] = "commands"
          /\ InstallSteps[5 + 1] = "metadata"
          /\ \A j \in 1 .. Len(InstallSteps) : InstallSteps[j] = "commands" => j = 5
        BY DEF InstallSteps
    <2>2. InstallSteps[(CHOOSE j \in 1 .. Len(InstallSteps) : InstallSteps[j] = "commands") + 1]
              = InstallSteps[5 + 1]
        BY ONLY <2>1, PlanNext
    <2> QED  BY ONLY <1>1, <1>7, <2>1, <2>2, Zenon DEF After
<1>8. ASSUME operation[s] = "rollback", pc[s] = "read" PROVE After(s) = "current"
    <2>1. /\ 1 \in 1 .. Len(RollbackSteps)
          /\ RollbackSteps[1] = "read"
          /\ RollbackSteps[1 + 1] = "current"
          /\ \A j \in 1 .. Len(RollbackSteps) : RollbackSteps[j] = "read" => j = 1
        BY DEF RollbackSteps
    <2>2. RollbackSteps[(CHOOSE j \in 1 .. Len(RollbackSteps) : RollbackSteps[j] = "read") + 1]
              = RollbackSteps[1 + 1]
        BY ONLY <2>1, PlanNext
    <2> QED  BY ONLY <1>2, <1>8, <2>1, <2>2, Zenon DEF After
<1>9. ASSUME operation[s] = "rollback", pc[s] = "current" PROVE After(s) = "previous"
    <2>1. /\ 2 \in 1 .. Len(RollbackSteps)
          /\ RollbackSteps[2] = "current"
          /\ RollbackSteps[2 + 1] = "previous"
          /\ \A j \in 1 .. Len(RollbackSteps) : RollbackSteps[j] = "current" => j = 2
        BY DEF RollbackSteps
    <2>2. RollbackSteps[(CHOOSE j \in 1 .. Len(RollbackSteps) : RollbackSteps[j] = "current") + 1]
              = RollbackSteps[2 + 1]
        BY ONLY <2>1, PlanNext
    <2> QED  BY ONLY <1>2, <1>9, <2>1, <2>2, Zenon DEF After
<1>10. ASSUME operation[s] = "rollback", pc[s] = "previous" PROVE After(s) = "metadata"
    <2>1. /\ 3 \in 1 .. Len(RollbackSteps)
          /\ RollbackSteps[3] = "previous"
          /\ RollbackSteps[3 + 1] = "metadata"
          /\ \A j \in 1 .. Len(RollbackSteps) : RollbackSteps[j] = "previous" => j = 3
        BY DEF RollbackSteps
    <2>2. RollbackSteps[(CHOOSE j \in 1 .. Len(RollbackSteps) : RollbackSteps[j] = "previous") + 1]
              = RollbackSteps[3 + 1]
        BY ONLY <2>1, PlanNext
    <2> QED  BY ONLY <1>2, <1>10, <2>1, <2>2, Zenon DEF After
<1>11. ASSUME operation[s] = "uninstall", pc[s] = "commands" PROVE After(s) = "remove"
    <2>1. /\ 1 \in 1 .. Len(UninstallSteps)
          /\ UninstallSteps[1] = "commands"
          /\ UninstallSteps[1 + 1] = "remove"
          /\ \A j \in 1 .. Len(UninstallSteps) : UninstallSteps[j] = "commands" => j = 1
        BY DEF UninstallSteps
    <2>2. UninstallSteps[(CHOOSE j \in 1 .. Len(UninstallSteps) : UninstallSteps[j] = "commands") + 1]
              = UninstallSteps[1 + 1]
        BY ONLY <2>1, PlanNext
    <2> QED  BY ONLY <1>3, <1>11, <2>1, <2>2, Zenon DEF After
<1>12. ASSUME operation[s] = "uninstall" PROVE Steps(s)[Len(Steps(s))] = "remove"
    <2>1. Steps(s) = UninstallSteps
        BY <1>3, <1>12
    <2>2. UninstallSteps[Len(UninstallSteps)] = "remove"
        BY DEF UninstallSteps
    <2> QED  BY ONLY <2>1, <2>2
<1> QED  BY Zenon, <1>4, <1>5, <1>6, <1>7, <1>8, <1>9, <1>10, <1>11, <1>12

\* Types of the variables that the arguments below index.
LEMMA CoreStep ==
    ASSUME Core, PlanInv, [Next]_vars
    PROVE  Core'
<1> USE DEF Core, PlanInv, Maybe, Places, Begin, Idle, Goto, Die, Complete,
        UninstallSteps, tree, links, locals, bounds
<1>1. ASSUME NEW s \in Scripts, NEW v \in Versions, Install(s, v) PROVE Core'
    BY <1>1 DEF Install
<1>2. ASSUME NEW s \in Scripts, Rollback(s) PROVE Core'
    BY <1>2 DEF Rollback
<1>3. ASSUME NEW s \in Scripts, Uninstall(s) PROVE Core'
    BY <1>3 DEF Uninstall
<1>4. ASSUME NEW s \in Scripts, Build(s) PROVE Core'
    BY <1>4, AfterPlaces DEF Build
<1>5. ASSUME NEW s \in Scripts, BuildFails(s) PROVE Core'
    BY <1>5 DEF BuildFails
<1>6. ASSUME NEW s \in Scripts, ReadCurrent(s) PROVE Core'
    BY <1>6 DEF ReadCurrent
<1>7. ASSUME NEW s \in Scripts, ReadBoth(s) PROVE Core'
    BY <1>7, AfterPlaces DEF ReadBoth
<1>8. ASSUME NEW s \in Scripts, NothingToRestore(s) PROVE Core'
    BY <1>8 DEF NothingToRestore
<1>9. ASSUME NEW s \in Scripts, LinkCurrent(s) PROVE Core'
    BY <1>9, AfterPlaces DEF LinkCurrent
<1>10. ASSUME NEW s \in Scripts, LinkPrevious(s) PROVE Core'
    BY <1>10, AfterPlaces DEF LinkPrevious
<1>11. ASSUME NEW s \in Scripts, RefuseCommand(s) PROVE Core'
    BY <1>11 DEF RefuseCommand
<1>12. ASSUME NEW s \in Scripts, WriteMetadata(s) PROVE Core'
    BY <1>12 DEF WriteMetadata
<1>13. ASSUME NEW s \in Scripts, NEW t \in Tools, LinkCommand(s, t) PROVE Core'
    BY <1>13, AfterPlaces DEF LinkCommand
<1>14. ASSUME NEW s \in Scripts, NEW t \in Tools, UnlinkCommand(s, t) PROVE Core'
    BY <1>14, AfterPlaces DEF UnlinkCommand
<1>15. ASSUME NEW s \in Scripts, NEW v \in Versions, RemoveFrom(s, v) PROVE Core'
    BY <1>15 DEF RemoveFrom
<1>16. ASSUME NEW s \in Scripts, RemoveLink(s) PROVE Core'
    BY <1>16 DEF RemoveLink
<1>17. ASSUME NEW s \in Scripts, Removed(s) PROVE Core'
    BY <1>17, AfterPlaces DEF Removed
<1>18. ASSUME NEW s \in Scripts, RemoveFails(s) PROVE Core'
    BY <1>18 DEF RemoveFails
<1>19. ASSUME NEW s \in Scripts, Kill(s) PROVE Core'
    BY <1>19 DEF Kill
<1>20. ASSUME UNCHANGED vars PROVE Core'
    BY <1>20 DEF vars
<1> HIDE DEF Core
<1> QED  BY <1>1, <1>2, <1>3, <1>4, <1>5, <1>6, <1>7, <1>8, <1>9, <1>10, <1>11, <1>12,
            <1>13, <1>14, <1>15, <1>16, <1>17, <1>18, <1>19, <1>20, StepCases

\* Scripts stay within their plans.
LEMMA PlanStep ==
    ASSUME Core, PlanInv, [Next]_vars
    PROVE  PlanInv'
<1> USE DEF Core, PlanInv, Maybe, Places, Begin, Idle, Goto, Die, Complete,
        UninstallSteps, tree, links, locals, bounds
<1>1. ASSUME NEW s \in Scripts, NEW v \in Versions, Install(s, v) PROVE PlanInv'
    BY <1>1 DEF Install
<1>2. ASSUME NEW s \in Scripts, Rollback(s) PROVE PlanInv'
    BY <1>2 DEF Rollback
<1>3. ASSUME NEW s \in Scripts, Uninstall(s) PROVE PlanInv'
    BY <1>3 DEF Uninstall
<1>4. ASSUME NEW s \in Scripts, Build(s) PROVE PlanInv'
    BY <1>4, AfterPlaces DEF Build
<1>5. ASSUME NEW s \in Scripts, BuildFails(s) PROVE PlanInv'
    BY <1>5 DEF BuildFails
<1>6. ASSUME NEW s \in Scripts, ReadCurrent(s) PROVE PlanInv'
    BY <1>6 DEF ReadCurrent
<1>7. ASSUME NEW s \in Scripts, ReadBoth(s) PROVE PlanInv'
    BY <1>7, AfterPlaces DEF ReadBoth
<1>8. ASSUME NEW s \in Scripts, NothingToRestore(s) PROVE PlanInv'
    BY <1>8 DEF NothingToRestore
<1>9. ASSUME NEW s \in Scripts, LinkCurrent(s) PROVE PlanInv'
    BY <1>9, AfterPlaces DEF LinkCurrent
<1>10. ASSUME NEW s \in Scripts, LinkPrevious(s) PROVE PlanInv'
    BY <1>10, AfterPlaces DEF LinkPrevious
<1>11. ASSUME NEW s \in Scripts, RefuseCommand(s) PROVE PlanInv'
    BY <1>11 DEF RefuseCommand
<1>12. ASSUME NEW s \in Scripts, WriteMetadata(s) PROVE PlanInv'
    BY <1>12 DEF WriteMetadata
<1>13. ASSUME NEW s \in Scripts, NEW t \in Tools, LinkCommand(s, t) PROVE PlanInv'
    BY <1>13, AfterPlaces DEF LinkCommand
<1>14. ASSUME NEW s \in Scripts, NEW t \in Tools, UnlinkCommand(s, t) PROVE PlanInv'
    BY <1>14, AfterPlaces DEF UnlinkCommand
<1>15. ASSUME NEW s \in Scripts, NEW v \in Versions, RemoveFrom(s, v) PROVE PlanInv'
    BY <1>15 DEF RemoveFrom
<1>16. ASSUME NEW s \in Scripts, RemoveLink(s) PROVE PlanInv'
    BY <1>16 DEF RemoveLink
<1>17. ASSUME NEW s \in Scripts, Removed(s) PROVE PlanInv'
    BY <1>17, AfterPlaces DEF Removed
<1>18. ASSUME NEW s \in Scripts, RemoveFails(s) PROVE PlanInv'
    BY <1>18 DEF RemoveFails
<1>19. ASSUME NEW s \in Scripts, Kill(s) PROVE PlanInv'
    BY <1>19 DEF Kill
<1>20. ASSUME UNCHANGED vars PROVE PlanInv'
    BY <1>20 DEF vars
<1> HIDE DEF PlanInv
<1> QED  BY <1>1, <1>2, <1>3, <1>4, <1>5, <1>6, <1>7, <1>8, <1>9, <1>10, <1>11, <1>12,
            <1>13, <1>14, <1>15, <1>16, <1>17, <1>18, <1>19, <1>20, StepCases

\* Nobody begins beside a script that does not overlap with others.
LEMMA AloneStep ==
    ASSUME Core, PlanInv, AloneInv, [Next]_vars
    PROVE  AloneInv'
<1> USE DEF Core, PlanInv, AloneInv, Maybe, Places, Begin, Idle, Alone, Goto, Die,
        Complete, UninstallSteps, tree, links, locals, bounds
<1>1. ASSUME NEW s \in Scripts, NEW v \in Versions, Install(s, v) PROVE AloneInv'
    BY <1>1 DEF Install
<1>2. ASSUME NEW s \in Scripts, Rollback(s) PROVE AloneInv'
    BY <1>2 DEF Rollback
<1>3. ASSUME NEW s \in Scripts, Uninstall(s) PROVE AloneInv'
    BY <1>3 DEF Uninstall
<1>4. ASSUME NEW s \in Scripts, Build(s) PROVE AloneInv'
    BY <1>4, AfterPlaces DEF Build
<1>5. ASSUME NEW s \in Scripts, BuildFails(s) PROVE AloneInv'
    BY <1>5 DEF BuildFails
<1>6. ASSUME NEW s \in Scripts, ReadCurrent(s) PROVE AloneInv'
    BY <1>6 DEF ReadCurrent
<1>7. ASSUME NEW s \in Scripts, ReadBoth(s) PROVE AloneInv'
    BY <1>7, AfterPlaces DEF ReadBoth
<1>8. ASSUME NEW s \in Scripts, NothingToRestore(s) PROVE AloneInv'
    BY <1>8 DEF NothingToRestore
<1>9. ASSUME NEW s \in Scripts, LinkCurrent(s) PROVE AloneInv'
    BY <1>9, AfterPlaces DEF LinkCurrent
<1>10. ASSUME NEW s \in Scripts, LinkPrevious(s) PROVE AloneInv'
    BY <1>10, AfterPlaces DEF LinkPrevious
<1>11. ASSUME NEW s \in Scripts, RefuseCommand(s) PROVE AloneInv'
    BY <1>11 DEF RefuseCommand
<1>12. ASSUME NEW s \in Scripts, WriteMetadata(s) PROVE AloneInv'
    BY <1>12 DEF WriteMetadata
<1>13. ASSUME NEW s \in Scripts, NEW t \in Tools, LinkCommand(s, t) PROVE AloneInv'
    BY <1>13, AfterPlaces DEF LinkCommand
<1>14. ASSUME NEW s \in Scripts, NEW t \in Tools, UnlinkCommand(s, t) PROVE AloneInv'
    BY <1>14, AfterPlaces DEF UnlinkCommand
<1>15. ASSUME NEW s \in Scripts, NEW v \in Versions, RemoveFrom(s, v) PROVE AloneInv'
    BY <1>15 DEF RemoveFrom
<1>16. ASSUME NEW s \in Scripts, RemoveLink(s) PROVE AloneInv'
    BY <1>16 DEF RemoveLink
<1>17. ASSUME NEW s \in Scripts, Removed(s) PROVE AloneInv'
    BY <1>17, AfterPlaces DEF Removed
<1>18. ASSUME NEW s \in Scripts, RemoveFails(s) PROVE AloneInv'
    BY <1>18 DEF RemoveFails
<1>19. ASSUME NEW s \in Scripts, Kill(s) PROVE AloneInv'
    BY <1>19 DEF Kill
<1>20. ASSUME UNCHANGED vars PROVE AloneInv'
    BY <1>20 DEF vars
<1> HIDE DEF AloneInv
<1> QED  BY <1>1, <1>2, <1>3, <1>4, <1>5, <1>6, <1>7, <1>8, <1>9, <1>10, <1>11, <1>12,
            <1>13, <1>14, <1>15, <1>16, <1>17, <1>18, <1>19, <1>20, StepCases

\* What the sets of toolchains have to do with each other.
LEMMA SetFacts ==
    /\ Whole \subseteq There /\ Runs \subseteq There /\ There \subseteq Versions
    /\ None \notin There
    /\ None \in Sound /\ (There \subseteq Whole \cup torn => There \subseteq Sound)
BY ToolchainAssumption DEF Whole, Runs, There, Sound

\* They are the same after a step that leaves the toolchains alone.
LEMMA SameSets ==
    ASSUME UNCHANGED tree
    PROVE  Whole' = Whole /\ There' = There /\ Sound' = Sound /\ torn' = torn
BY DEF tree, Whole, There, Sound

\* Links are made to what is there, and only a lone script removes anything.
LEMMA LinkStep ==
    ASSUME Core, PlanInv, AloneInv, LinkInv, [Next]_vars
    PROVE  LinkInv'
<1> USE SetFacts DEF Core, PlanInv, AloneInv, LinkInv, Maybe, Places, Begin,
        Idle, Alone, Goto, Die, Complete, UninstallSteps, links, locals, bounds
<1>1. ASSUME NEW s \in Scripts, NEW v \in Versions, Install(s, v) PROVE LinkInv'
    BY <1>1, SameSets DEF Install
<1>2. ASSUME NEW s \in Scripts, Rollback(s) PROVE LinkInv'
    BY <1>2, SameSets DEF Rollback
<1>3. ASSUME NEW s \in Scripts, Uninstall(s) PROVE LinkInv'
    BY <1>3, SameSets DEF Uninstall
<1>4. ASSUME NEW s \in Scripts, Build(s) PROVE LinkInv'
    <2>1. CASE toolchain[version[s]] = "none"
        <3>1. /\ Whole' = Whole \cup {version[s]} /\ There' = There \cup {version[s]}
              /\ torn' = torn \ {version[s]}
            BY <1>4, <2>1 DEF Build, Whole, There
        <3>2. Sound \subseteq Sound'
            BY <3>1 DEF Sound
        <3>3. operation[s] = "install" /\ pc' = [pc EXCEPT ![s] = "read"]
            BY <1>4, AfterPlaces DEF Build
        <3> QED  BY <1>4, <3>1, <3>2, <3>3 DEF Build
    <2>2. CASE toolchain[version[s]] # "none"
        <3>1. version[s] \in There /\ UNCHANGED tree
            BY <1>4, <2>2 DEF Build, There
        <3>2. operation[s] = "install" /\ pc' = [pc EXCEPT ![s] = "read"]
            BY <1>4, AfterPlaces DEF Build
        <3> QED  BY <1>4, <3>1, <3>2, SameSets DEF Build
    <2> QED  BY <2>1, <2>2
<1>5. ASSUME NEW s \in Scripts, BuildFails(s) PROVE LinkInv'
    BY <1>5, SameSets DEF BuildFails
<1>6. ASSUME NEW s \in Scripts, ReadCurrent(s) PROVE LinkInv'
    BY <1>6, SameSets DEF ReadCurrent
<1>7. ASSUME NEW s \in Scripts, ReadBoth(s) PROVE LinkInv'
    BY <1>7, AfterPlaces, SameSets DEF ReadBoth
<1>8. ASSUME NEW s \in Scripts, NothingToRestore(s) PROVE LinkInv'
    BY <1>8, SameSets DEF NothingToRestore
<1>9. ASSUME NEW s \in Scripts, LinkCurrent(s) PROVE LinkInv'
    BY <1>9, AfterPlaces, SameSets DEF LinkCurrent
<1>10. ASSUME NEW s \in Scripts, LinkPrevious(s) PROVE LinkInv'
    BY <1>10, AfterPlaces, SameSets DEF LinkPrevious
<1>11. ASSUME NEW s \in Scripts, RefuseCommand(s) PROVE LinkInv'
    BY <1>11, SameSets DEF RefuseCommand
<1>12. ASSUME NEW s \in Scripts, WriteMetadata(s) PROVE LinkInv'
    BY <1>12, SameSets DEF WriteMetadata
<1>13. ASSUME NEW s \in Scripts, NEW t \in Tools, LinkCommand(s, t) PROVE LinkInv'
    BY <1>13, AfterPlaces, SameSets DEF LinkCommand
<1>14. ASSUME NEW s \in Scripts, NEW t \in Tools, UnlinkCommand(s, t) PROVE LinkInv'
    BY <1>14, AfterPlaces, SameSets DEF UnlinkCommand
<1>15. ASSUME NEW s \in Scripts, NEW v \in Versions, RemoveFrom(s, v) PROVE LinkInv'
    <2>1. operation[s] = "uninstall" /\ commands = {} /\ commands' = {}
        BY <1>15 DEF RemoveFrom
    <2>2. \A t \in Scripts : t # s => pc[t] = "idle"
        BY <1>15, <2>1 DEF RemoveFrom
    <2>3. \A w \in Versions \ {v} : toolchain'[w] = toolchain[w]
        BY <1>15 DEF RemoveFrom
    <2>4. torn' = torn \cup {v}
        BY <1>15 DEF RemoveFrom
    <2>5. There' \subseteq Whole' \cup torn' /\ Sound \subseteq Sound'
        BY <2>3, <2>4 DEF There, Whole, Sound
    <2> QED  BY <1>15, <2>1, <2>2, <2>5 DEF RemoveFrom
<1>16. ASSUME NEW s \in Scripts, RemoveLink(s) PROVE LinkInv'
    BY <1>16, SameSets DEF RemoveLink
<1>17. ASSUME NEW s \in Scripts, Removed(s) PROVE LinkInv'
    <2>1. operation[s] = "uninstall" /\ commands = {} /\ commands' = {}
        BY <1>17 DEF Removed
    <2>2. pc' = [pc EXCEPT ![s] = "idle"]
        BY <1>17, <2>1, AfterPlaces DEF Removed
    <2>3. \A t \in Scripts : pc'[t] = "idle"
        BY <1>17, <2>1, <2>2 DEF Removed
    <2>4. There' = {} /\ current' = None /\ previous' = None
        BY <1>17 DEF Removed, There
    <2>5. None \in Sound'
        BY DEF Sound
    <2> QED  BY <2>1, <2>3, <2>4, <2>5
<1>18. ASSUME NEW s \in Scripts, RemoveFails(s) PROVE LinkInv'
    BY <1>18, SameSets DEF RemoveFails
<1>19. ASSUME NEW s \in Scripts, Kill(s) PROVE LinkInv'
    BY <1>19, SameSets DEF Kill
<1>20. ASSUME UNCHANGED vars PROVE LinkInv'
    BY <1>20, SameSets DEF vars
<1> HIDE DEF LinkInv
<1> QED  BY <1>1, <1>2, <1>3, <1>4, <1>5, <1>6, <1>7, <1>8, <1>9, <1>10, <1>11, <1>12,
            <1>13, <1>14, <1>15, <1>16, <1>17, <1>18, <1>19, <1>20, StepCases

\* Types of the rest; other people's files are not replaced.
LEMMA RestStep ==
    ASSUME Core, PlanInv, LinkInv, RestInv, [Next]_vars
    PROVE  RestInv'
<1> USE ToolchainAssumption, SetFacts DEF Core, PlanInv, LinkInv, RestInv, Recorded, Maybe,
        Places, Begin, Idle, Alone, Goto, Die, Complete, UninstallSteps, tree, links,
        locals, bounds
<1>1. ASSUME NEW s \in Scripts, NEW v \in Versions, Install(s, v) PROVE RestInv'
    BY <1>1 DEF Install
<1>2. ASSUME NEW s \in Scripts, Rollback(s) PROVE RestInv'
    BY <1>2 DEF Rollback
<1>3. ASSUME NEW s \in Scripts, Uninstall(s) PROVE RestInv'
    BY <1>3 DEF Uninstall
<1>4. ASSUME NEW s \in Scripts, Build(s) PROVE RestInv'
    BY <1>4, AfterPlaces DEF Build
<1>5. ASSUME NEW s \in Scripts, BuildFails(s) PROVE RestInv'
    BY <1>5 DEF BuildFails
<1>6. ASSUME NEW s \in Scripts, ReadCurrent(s) PROVE RestInv'
    BY <1>6 DEF ReadCurrent
<1>7. ASSUME NEW s \in Scripts, ReadBoth(s) PROVE RestInv'
    BY <1>7, AfterPlaces DEF ReadBoth
<1>8. ASSUME NEW s \in Scripts, NothingToRestore(s) PROVE RestInv'
    BY <1>8 DEF NothingToRestore
<1>9. ASSUME NEW s \in Scripts, LinkCurrent(s) PROVE RestInv'
    BY <1>9, AfterPlaces DEF LinkCurrent
<1>10. ASSUME NEW s \in Scripts, LinkPrevious(s) PROVE RestInv'
    BY <1>10, AfterPlaces DEF LinkPrevious
<1>11. ASSUME NEW s \in Scripts, RefuseCommand(s) PROVE RestInv'
    BY <1>11 DEF RefuseCommand
<1>12. ASSUME NEW s \in Scripts, WriteMetadata(s) PROVE RestInv'
    BY <1>12 DEF WriteMetadata
<1>13. ASSUME NEW s \in Scripts, NEW t \in Tools, LinkCommand(s, t) PROVE RestInv'
    BY <1>13, AfterPlaces DEF LinkCommand
<1>14. ASSUME NEW s \in Scripts, NEW t \in Tools, UnlinkCommand(s, t) PROVE RestInv'
    BY <1>14, AfterPlaces DEF UnlinkCommand
<1>15. ASSUME NEW s \in Scripts, NEW v \in Versions, RemoveFrom(s, v) PROVE RestInv'
    BY <1>15 DEF RemoveFrom
<1>16. ASSUME NEW s \in Scripts, RemoveLink(s) PROVE RestInv'
    BY <1>16 DEF RemoveLink
<1>17. ASSUME NEW s \in Scripts, Removed(s) PROVE RestInv'
    BY <1>17, AfterPlaces DEF Removed
<1>18. ASSUME NEW s \in Scripts, RemoveFails(s) PROVE RestInv'
    BY <1>18 DEF RemoveFails
<1>19. ASSUME NEW s \in Scripts, Kill(s) PROVE RestInv'
    BY <1>19 DEF Kill
<1>20. ASSUME UNCHANGED vars PROVE RestInv'
    BY <1>20 DEF vars
<1> HIDE DEF RestInv
<1> QED  BY <1>1, <1>2, <1>3, <1>4, <1>5, <1>6, <1>7, <1>8, <1>9, <1>10, <1>11, <1>12,
            <1>13, <1>14, <1>15, <1>16, <1>17, <1>18, <1>19, <1>20, StepCases

\* The bounds are kept.
LEMMA CountersStep ==
    ASSUME Counters, [Next]_vars
    PROVE  Counters'
<1> USE ToolchainAssumption DEF Counters, Begin, Die, Complete, tree, links, locals, bounds
<1>1. ASSUME NEW s \in Scripts, NEW v \in Versions, Install(s, v) PROVE Counters'
    BY <1>1 DEF Install
<1>2. ASSUME NEW s \in Scripts, Rollback(s) PROVE Counters'
    BY <1>2 DEF Rollback
<1>3. ASSUME NEW s \in Scripts, Uninstall(s) PROVE Counters'
    BY <1>3 DEF Uninstall
<1>4. ASSUME NEW s \in Scripts, Build(s) PROVE Counters'
    BY <1>4 DEF Build
<1>5. ASSUME NEW s \in Scripts, BuildFails(s) PROVE Counters'
    BY <1>5 DEF BuildFails
<1>6. ASSUME NEW s \in Scripts, ReadCurrent(s) PROVE Counters'
    BY <1>6 DEF ReadCurrent
<1>7. ASSUME NEW s \in Scripts, ReadBoth(s) PROVE Counters'
    BY <1>7 DEF ReadBoth
<1>8. ASSUME NEW s \in Scripts, NothingToRestore(s) PROVE Counters'
    BY <1>8 DEF NothingToRestore
<1>9. ASSUME NEW s \in Scripts, LinkCurrent(s) PROVE Counters'
    BY <1>9 DEF LinkCurrent
<1>10. ASSUME NEW s \in Scripts, LinkPrevious(s) PROVE Counters'
    BY <1>10 DEF LinkPrevious
<1>11. ASSUME NEW s \in Scripts, RefuseCommand(s) PROVE Counters'
    BY <1>11 DEF RefuseCommand
<1>12. ASSUME NEW s \in Scripts, WriteMetadata(s) PROVE Counters'
    BY <1>12 DEF WriteMetadata
<1>13. ASSUME NEW s \in Scripts, NEW t \in Tools, LinkCommand(s, t) PROVE Counters'
    BY <1>13 DEF LinkCommand
<1>14. ASSUME NEW s \in Scripts, NEW t \in Tools, UnlinkCommand(s, t) PROVE Counters'
    BY <1>14 DEF UnlinkCommand
<1>15. ASSUME NEW s \in Scripts, NEW v \in Versions, RemoveFrom(s, v) PROVE Counters'
    BY <1>15 DEF RemoveFrom
<1>16. ASSUME NEW s \in Scripts, RemoveLink(s) PROVE Counters'
    BY <1>16 DEF RemoveLink
<1>17. ASSUME NEW s \in Scripts, Removed(s) PROVE Counters'
    BY <1>17 DEF Removed
<1>18. ASSUME NEW s \in Scripts, RemoveFails(s) PROVE Counters'
    BY <1>18 DEF RemoveFails
<1>19. ASSUME NEW s \in Scripts, Kill(s) PROVE Counters'
    BY <1>19 DEF Kill
<1>20. ASSUME UNCHANGED vars PROVE Counters'
    BY <1>20 DEF vars
<1> HIDE DEF Counters
<1> QED  BY <1>1, <1>2, <1>3, <1>4, <1>5, <1>6, <1>7, <1>8, <1>9, <1>10, <1>11, <1>12,
            <1>13, <1>14, <1>15, <1>16, <1>17, <1>18, <1>19, <1>20, StepCases

\* Each place finds what the places before it have made.
LEMMA AimStep ==
    ASSUME Core, PlanInv, AloneInv, LinkInv, RestInv, AimInv, [Next]_vars
    PROVE  AimInv'
<1> USE ToolchainAssumption DEF Core, PlanInv, AloneInv, LinkInv, RestInv, AimInv,
        Recorded, Maybe, Places, Begin, Idle, Alone, Goto, Die, Complete,
        UninstallSteps, tree, links, locals, bounds
<1>1. ASSUME NEW s \in Scripts, NEW v \in Versions, Install(s, v) PROVE AimInv'
    BY <1>1 DEF Install
<1>2. ASSUME NEW s \in Scripts, Rollback(s) PROVE AimInv'
    BY <1>2 DEF Rollback
<1>3. ASSUME NEW s \in Scripts, Uninstall(s) PROVE AimInv'
    BY <1>3 DEF Uninstall
<1>4. ASSUME NEW s \in Scripts, Build(s) PROVE AimInv'
    BY <1>4, AfterPlaces DEF Build
<1>5. ASSUME NEW s \in Scripts, BuildFails(s) PROVE AimInv'
    BY <1>5 DEF BuildFails
<1>6. ASSUME NEW s \in Scripts, ReadCurrent(s) PROVE AimInv'
    <2>1. ASSUME ~scenario.overlap, NEW t \in Scripts, t # s PROVE pc[t] = "idle"
        BY <1>6, <2>1 DEF ReadCurrent
    <2>2. done = None
        BY <1>6 DEF ReadCurrent
    <2>3. ASSUME current = version[s] PROVE AimInv'
        <3>1. pc' = [pc EXCEPT ![s] = "commands"]
            <4>1. current # None
                BY <1>6, <2>3, SetFacts DEF ReadCurrent
            <4> QED  BY <1>6, <2>3, <4>1 DEF ReadCurrent
        <3> QED  BY <1>6, <2>1, <2>2, <2>3, <3>1 DEF ReadCurrent
    <2>4. ASSUME current # version[s], current = None PROVE AimInv'
        <3>1. pc' = [pc EXCEPT ![s] = "current"]
            BY <1>6, <2>4 DEF ReadCurrent
        <3> QED  BY <1>6, <2>1, <2>2, <2>4, <3>1 DEF ReadCurrent
    <2>5. ASSUME current # version[s], current # None PROVE AimInv'
        <3>1. pc' = [pc EXCEPT ![s] = "previous"]
            BY <1>6, <2>5 DEF ReadCurrent
        <3> QED  BY <1>6, <2>1, <2>2, <2>5, <3>1 DEF ReadCurrent
    <2> QED  BY <2>3, <2>4, <2>5
<1>7. ASSUME NEW s \in Scripts, ReadBoth(s) PROVE AimInv'
    BY <1>7, AfterPlaces DEF ReadBoth
<1>8. ASSUME NEW s \in Scripts, NothingToRestore(s) PROVE AimInv'
    BY <1>8 DEF NothingToRestore
<1>9. ASSUME NEW s \in Scripts, LinkCurrent(s) PROVE AimInv'
    <2>1. ASSUME ~scenario.overlap, NEW t \in Scripts, t # s PROVE pc[t] = "idle"
        BY <1>9, <2>1 DEF LinkCurrent
    <2>2. done = None
        BY <1>9 DEF LinkCurrent
    <2>3. ASSUME operation[s] = "install" PROVE AimInv'
        <3>1. pc' = [pc EXCEPT ![s] = "commands"]
            BY <1>9, <2>3, AfterPlaces DEF LinkCurrent
        <3> QED  BY <1>9, <2>1, <2>2, <2>3, <3>1 DEF LinkCurrent
    <2>4. ASSUME operation[s] = "rollback" PROVE AimInv'
        <3>1. pc' = [pc EXCEPT ![s] = "previous"]
            BY <1>9, <2>4, AfterPlaces DEF LinkCurrent
        <3> QED  BY <1>9, <2>1, <2>2, <2>4, <3>1 DEF LinkCurrent
    <2>5. operation[s] # "uninstall"
        BY <1>9 DEF LinkCurrent
    <2> QED  BY <2>3, <2>4, <2>5
<1>10. ASSUME NEW s \in Scripts, LinkPrevious(s) PROVE AimInv'
    BY <1>10, AfterPlaces DEF LinkPrevious
<1>11. ASSUME NEW s \in Scripts, RefuseCommand(s) PROVE AimInv'
    BY <1>11 DEF RefuseCommand
<1>12. ASSUME NEW s \in Scripts, WriteMetadata(s) PROVE AimInv'
    BY <1>12 DEF WriteMetadata
<1>13. ASSUME NEW s \in Scripts, NEW t \in Tools, LinkCommand(s, t) PROVE AimInv'
    BY <1>13, AfterPlaces DEF LinkCommand
<1>14. ASSUME NEW s \in Scripts, NEW t \in Tools, UnlinkCommand(s, t) PROVE AimInv'
    BY <1>14, AfterPlaces DEF UnlinkCommand
<1>15. ASSUME NEW s \in Scripts, NEW v \in Versions, RemoveFrom(s, v) PROVE AimInv'
    BY <1>15 DEF RemoveFrom
<1>16. ASSUME NEW s \in Scripts, RemoveLink(s) PROVE AimInv'
    BY <1>16 DEF RemoveLink
<1>17. ASSUME NEW s \in Scripts, Removed(s) PROVE AimInv'
    <2>1. operation[s] = "uninstall" /\ pc[s] = "remove" /\ ~scenario.overlap
        BY <1>17 DEF Removed
    <2>2. \A t \in Scripts : t # s => pc[t] = "idle"
        BY <2>1
    <2>3. done' = s /\ pc' = [pc EXCEPT ![s] = "idle"]
        BY <1>17, <2>1, AfterPlaces DEF Removed
    <2>4. scenario' = scenario /\ \A t \in Scripts : pc'[t] = "idle"
        BY <1>17, <2>2, <2>3 DEF Removed
    <2> QED  BY <2>1, <2>4
<1>18. ASSUME NEW s \in Scripts, RemoveFails(s) PROVE AimInv'
    BY <1>18 DEF RemoveFails
<1>19. ASSUME NEW s \in Scripts, Kill(s) PROVE AimInv'
    BY <1>19 DEF Kill
<1>20. ASSUME UNCHANGED vars PROVE AimInv'
    BY <1>20 DEF vars
<1> HIDE DEF AimInv
<1> QED  BY <1>1, <1>2, <1>3, <1>4, <1>5, <1>6, <1>7, <1>8, <1>9, <1>10, <1>11, <1>12,
            <1>13, <1>14, <1>15, <1>16, <1>17, <1>18, <1>19, <1>20, StepCases

\* The last place of each plan completes what the operation says.
LEMMA DoneStep ==
    ASSUME Core, PlanInv, AloneInv, LinkInv, RestInv, AimInv, CompletedIsConsistent, [Next]_vars
    PROVE  CompletedIsConsistent'
<1> USE ToolchainAssumption DEF Core, PlanInv, AloneInv, LinkInv, RestInv, AimInv,
        CompletedIsConsistent, Recorded, Maybe, Places, Begin, Idle, Alone, Goto, Die,
        Complete, UninstallSteps, tree, links, locals, bounds
<1>1. ASSUME NEW s \in Scripts, NEW v \in Versions, Install(s, v) PROVE CompletedIsConsistent'
    BY <1>1 DEF Install
<1>2. ASSUME NEW s \in Scripts, Rollback(s) PROVE CompletedIsConsistent'
    BY <1>2 DEF Rollback
<1>3. ASSUME NEW s \in Scripts, Uninstall(s) PROVE CompletedIsConsistent'
    BY <1>3 DEF Uninstall
<1>4. ASSUME NEW s \in Scripts, Build(s) PROVE CompletedIsConsistent'
    BY <1>4, AfterPlaces DEF Build
<1>5. ASSUME NEW s \in Scripts, BuildFails(s) PROVE CompletedIsConsistent'
    BY <1>5 DEF BuildFails
<1>6. ASSUME NEW s \in Scripts, ReadCurrent(s) PROVE CompletedIsConsistent'
    BY <1>6 DEF ReadCurrent
<1>7. ASSUME NEW s \in Scripts, ReadBoth(s) PROVE CompletedIsConsistent'
    BY <1>7, AfterPlaces DEF ReadBoth
<1>8. ASSUME NEW s \in Scripts, NothingToRestore(s) PROVE CompletedIsConsistent'
    BY <1>8 DEF NothingToRestore
<1>9. ASSUME NEW s \in Scripts, LinkCurrent(s) PROVE CompletedIsConsistent'
    BY <1>9, AfterPlaces DEF LinkCurrent
<1>10. ASSUME NEW s \in Scripts, LinkPrevious(s) PROVE CompletedIsConsistent'
    BY <1>10, AfterPlaces DEF LinkPrevious
<1>11. ASSUME NEW s \in Scripts, RefuseCommand(s) PROVE CompletedIsConsistent'
    BY <1>11 DEF RefuseCommand
<1>12. ASSUME NEW s \in Scripts, WriteMetadata(s) PROVE CompletedIsConsistent'
    <2>1. CASE scenario.overlap
        BY <1>12, <2>1 DEF WriteMetadata
    <2>2. ASSUME ~scenario.overlap, operation[s] = "install" PROVE CompletedIsConsistent'
        <3>1. /\ current = version[s] /\ commands = Tools
              /\ before[s][1] \notin {None, current} => previous = before[s][1]
            BY <1>12, <2>2 DEF WriteMetadata
        <3>2. done' = s /\ metadata' = <<version[s], previous>>
            BY <1>12, <2>2 DEF WriteMetadata
        <3>3. UNCHANGED <<current, previous, commands, operation, version, before>>
            BY <1>12 DEF WriteMetadata
        <3> QED  BY <2>2, <3>1, <3>2, <3>3
    <2>3. ASSUME ~scenario.overlap, operation[s] = "rollback" PROVE CompletedIsConsistent'
        <3>1. /\ seen[s] = <<before[s][2], before[s][1]>>
              /\ current = before[s][2] /\ previous = before[s][1]
            BY <1>12, <2>3 DEF WriteMetadata
        <3>2. done' = s /\ metadata' = seen[s]
            BY <1>12, <2>3 DEF WriteMetadata
        <3>3. UNCHANGED <<current, previous, operation, before>>
            BY <1>12 DEF WriteMetadata
        <3> QED  BY <2>3, <3>1, <3>2, <3>3
    <2>4. operation[s] \in {"install", "rollback"}
        <3>1. operation[s] # "uninstall"
            BY <1>12 DEF WriteMetadata
        <3> QED  BY ONLY Core, <3>1 DEF Core
    <2> QED  BY ONLY <2>1, <2>2, <2>3, <2>4
<1>13. ASSUME NEW s \in Scripts, NEW t \in Tools, LinkCommand(s, t) PROVE CompletedIsConsistent'
    BY <1>13, AfterPlaces DEF LinkCommand
<1>14. ASSUME NEW s \in Scripts, NEW t \in Tools, UnlinkCommand(s, t) PROVE CompletedIsConsistent'
    BY <1>14, AfterPlaces DEF UnlinkCommand
<1>15. ASSUME NEW s \in Scripts, NEW v \in Versions, RemoveFrom(s, v) PROVE CompletedIsConsistent'
    BY <1>15 DEF RemoveFrom
<1>16. ASSUME NEW s \in Scripts, RemoveLink(s) PROVE CompletedIsConsistent'
    BY <1>16 DEF RemoveLink
<1>17. ASSUME NEW s \in Scripts, Removed(s) PROVE CompletedIsConsistent'
    <2>1. operation[s] = "uninstall" /\ pc[s] = "remove" /\ ~scenario.overlap
        BY <1>17 DEF Removed
    <2>2. \A t \in Scripts : t # s => pc[t] = "idle"
        BY <2>1
    <2>3. done' = s /\ pc' = [pc EXCEPT ![s] = "idle"]
        BY <1>17, <2>1, AfterPlaces DEF Removed
    <2>4. scenario' = scenario /\ \A t \in Scripts : pc'[t] = "idle"
        BY <1>17, <2>2, <2>3 DEF Removed
    <2>5. commands' = {} /\ There' = {} /\ links' = <<None, None>>
          /\ operation'[s] = "uninstall"
        BY <1>17, <2>1 DEF Removed, There
    <2> QED  BY <2>3, <2>5
<1>18. ASSUME NEW s \in Scripts, RemoveFails(s) PROVE CompletedIsConsistent'
    BY <1>18 DEF RemoveFails
<1>19. ASSUME NEW s \in Scripts, Kill(s) PROVE CompletedIsConsistent'
    BY <1>19 DEF Kill
<1>20. ASSUME UNCHANGED vars PROVE CompletedIsConsistent'
    BY <1>20, SameSets DEF vars
<1> HIDE DEF CompletedIsConsistent
<1> QED  BY <1>1, <1>2, <1>3, <1>4, <1>5, <1>6, <1>7, <1>8, <1>9, <1>10, <1>11, <1>12,
            <1>13, <1>14, <1>15, <1>16, <1>17, <1>18, <1>19, <1>20, StepCases

-----------------------------------------------------------------------------
Inv == Core /\ PlanInv /\ AloneInv /\ LinkInv /\ RestInv /\ AimInv

\* What every theorem starts from.
LEMMA Invariance == Spec => []Inv
<1>1. Init => Inv
    <2> SUFFICES ASSUME Init PROVE Inv
        OBVIOUS
    <2> USE DEF Init, links, Maybe, Places
    <2>1. Core /\ PlanInv
        BY DEF Core, PlanInv
    <2>2. AloneInv /\ LinkInv
        BY DEF AloneInv, LinkInv, There, Sound
    <2>3. RestInv
        BY DEF RestInv
    <2>4. AimInv
        BY DEF AimInv
    <2> QED  BY <2>1, <2>2, <2>3, <2>4 DEF Inv
<1>2. Inv /\ [Next]_vars => Inv'
    BY CoreStep, PlanStep, AloneStep, LinkStep, RestStep, AimStep DEF Inv
<1> QED  BY <1>1, <1>2, PTL DEF Spec

\* Variables have their types; a link of bin/ never stands where somebody else's
\* file is.
THEOREM TypeCorrect == Spec => []TypeOK
<1>1. Init => Counters
    BY ToolchainAssumption DEF Init, Counters
<1>2. Counters /\ [Next]_vars => Counters'
    BY CountersStep
<1>3. Inv /\ Counters => TypeOK
    BY DEF Inv, Core, RestInv, Counters, TypeOK
<1> QED  BY <1>1, <1>2, <1>3, Invariance, PTL DEF Spec

\* The links lead to toolchains that are there, and a command is linked only
\* while `current` is: whatever overlaps and whatever is killed.
THEOREM CommandsRunHolds == Spec => []CommandsRun
<1>1. Inv => CommandsRun
    BY DEF Inv, LinkInv, Sound, CommandsRun
<1> QED  BY <1>1, Invariance, PTL

\* An operation that was alone and completes has done what it says, whatever was
\* killed before.
THEOREM CompletedIsConsistentHolds == Spec => []CompletedIsConsistent
<1>1. Init => CompletedIsConsistent
    BY DEF Init, CompletedIsConsistent
<1>2. Inv /\ CompletedIsConsistent /\ [Next]_vars => CompletedIsConsistent'
    BY DoneStep DEF Inv
<1> QED  BY <1>1, <1>2, Invariance, PTL DEF Spec
===============================================================================
