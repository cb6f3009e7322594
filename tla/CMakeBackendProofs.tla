-------------------------- MODULE CMakeBackendProofs --------------------------
(***************************************************************************)
(* One driver at a time works in a build directory, and a build that       *)
(* succeeds has built what it was asked for, for any drivers, texts and    *)
(* commands.                                                               *)
(***************************************************************************)
EXTENDS CMakeBackend, TLAPS

\* Only one driver is behind the lock, and the lock is there.
LockInv ==
    /\ \A p, q \in Drivers : pc[p] \in Holding /\ pc[q] \in Holding => p = q
    /\ \A p \in Drivers : pc[p] \in Holding => lock

\* Commands are those in use; where CMakeLists.txt is the user's, nobody
\* generates it, and all who are at work want it as it is.
WantsInv ==
    /\ cmakeCache \in scenario.commands \cup {Absent}
    /\ recorded \in scenario.commands \cup {Absent, Torn}
    /\ \A p \in Drivers : pc[p] # "idle" =>
          /\ want[p].command \in scenario.commands
          /\ scenario.owned => want[p].lists = lists /\ pc[p] \notin {"generate", "fill"}

\* Unless a driver is about to record it, the recorded command is that of the
\* cache.
RecordInv ==
    \/ recorded = cmakeCache \/ recorded \in {Absent, Torn} \/ cmakeCache = Absent
    \/ \E p \in Drivers : pc[p] \in {"record", "fill record"}

\* How far the build directory is what its holder wants.
ProgressInv ==
    \A p \in Drivers :
        /\ pc[p] \in Holding \ {"generate", "fill"} => lists = want[p].lists
        /\ pc[p] \in {"record", "fill record", "build", "built"} =>
              cmakeCache = want[p].command
        /\ pc[p] = "built" => artifact = want[p]

\* What the counters and the booleans do not matter for.
Core ==
    /\ pc \in [Drivers -> Places]
    /\ want \in [Drivers -> Wants]
    /\ scenario \in Scenarios

\* What the files hold; enough of it to build.
FilesInv ==
    /\ lists \in Lists \cup {Absent, Torn}
    /\ tree \in Wants \cup {Absent} /\ artifact \in Wants \cup {Absent}
    /\ \A p \in Drivers : pc[p] \in Holding \ {"generate", "fill"} => lists = want[p].lists
    /\ \A p \in Drivers : pc[p] \in {"record", "fill record", "build"} => cmakeCache # Absent

Booleans == lock \in BOOLEAN /\ changed \in [Drivers -> BOOLEAN]

Counters ==
    /\ attempts \in [Drivers -> 0 .. MaxAttempts]
    /\ calls \in 0 .. MaxCalls /\ events \in 0 .. MaxEvents

\* Where steps fail or drivers are killed, the configure command stays the
\* same: README.md says what happens otherwise.
StableCommands == \A s \in Scenarios : s.broken => \A c, d \in s.commands : c = d

-----------------------------------------------------------------------------
\* The steps, one by one.
LEMMA StepCases ==
    ASSUME NEW P, [Next]_vars,
           \A p \in Drivers, w \in Wants : Call(p, w) => P,
           \A p \in Drivers : Acquire(p) => P,
           \A p \in Drivers : Wait(p) => P,
           \A p \in Drivers : GiveUp(p) => P,
           \A p \in Drivers : Generate(p) => P,
           \A p \in Drivers : Fill(p) => P,
           \A p \in Drivers : Configure(p) => P,
           \A p \in Drivers : Configured(p) => P,
           \A p \in Drivers : Record(p) => P,
           \A p \in Drivers : FillRecord(p) => P,
           \A p \in Drivers : Build(p) => P,
           \A p \in Drivers : Return(p) => P,
           \A p \in Drivers : ConfigureFails(p) => P,
           \A p \in Drivers : BuildFails(p) => P,
           \A p \in Drivers : Kill(p) => P,
           Clean => P,
           Unlock => P,
           \A l \in Lists : Edit(l) => P,
           UNCHANGED vars => P
    PROVE  P
BY DEF Next, Proceed, Finished

\* What a build wants consists of a text and a command.
LEMMA WantsAreRecords == \A w \in Wants : w = [lists |-> w.lists, command |-> w.command]
                                              /\ w.lists \in Lists /\ w.command \in Commands
BY DEF Wants

\* There is something to want.
LEMMA FirstWant == (CHOOSE w \in Wants : TRUE) \in Wants
<1>1. PICK l \in Lists, c \in Commands : TRUE
    BY CMakeAssumption
<1>2. [lists |-> l, command |-> c] \in Wants
    BY DEF Wants
<1> QED  BY ONLY <1>2

\* Types of the variables that the arguments below index.
LEMMA CoreStep == Core /\ [Next]_vars => Core'
<1> SUFFICES ASSUME Core, [Next]_vars PROVE Core'
    OBVIOUS
<1> USE DEF Core, Places, Holding, Leave, Goto, buildDir, locals, bounds
<1>1. ASSUME NEW p \in Drivers, NEW w \in Wants, Call(p, w) PROVE Core'
    BY <1>1 DEF Call
<1>2. ASSUME NEW p \in Drivers, Acquire(p) PROVE Core'
    BY <1>2 DEF Acquire
<1>3. ASSUME NEW p \in Drivers, Wait(p) PROVE Core'
    BY <1>3 DEF Wait
<1>4. ASSUME NEW p \in Drivers, GiveUp(p) PROVE Core'
    BY <1>4 DEF GiveUp
<1>5. ASSUME NEW p \in Drivers, Generate(p) PROVE Core'
    BY <1>5 DEF Generate
<1>6. ASSUME NEW p \in Drivers, Fill(p) PROVE Core'
    BY <1>6 DEF Fill
<1>7. ASSUME NEW p \in Drivers, Configure(p) PROVE Core'
    BY <1>7 DEF Configure
<1>8. ASSUME NEW p \in Drivers, Configured(p) PROVE Core'
    BY <1>8 DEF Configured
<1>9. ASSUME NEW p \in Drivers, Record(p) PROVE Core'
    BY <1>9 DEF Record
<1>10. ASSUME NEW p \in Drivers, FillRecord(p) PROVE Core'
    BY <1>10 DEF FillRecord
<1>11. ASSUME NEW p \in Drivers, Build(p) PROVE Core'
    BY <1>11 DEF Build
<1>12. ASSUME NEW p \in Drivers, Return(p) PROVE Core'
    BY <1>12 DEF Return
<1>13. ASSUME NEW p \in Drivers, ConfigureFails(p) PROVE Core'
    BY <1>13 DEF ConfigureFails
<1>14. ASSUME NEW p \in Drivers, BuildFails(p) PROVE Core'
    BY <1>14 DEF BuildFails
<1>15. ASSUME NEW p \in Drivers, Kill(p) PROVE Core'
    BY <1>15 DEF Kill
<1>16. ASSUME Clean PROVE Core'
    BY <1>16 DEF Clean
<1>17. ASSUME Unlock PROVE Core'
    BY <1>17 DEF Unlock
<1>18. ASSUME NEW l \in Lists, Edit(l) PROVE Core'
    BY <1>18 DEF Edit
<1>19. ASSUME UNCHANGED vars PROVE Core'
    BY <1>19 DEF vars
<1> HIDE DEF Core
<1> QED  BY <1>1, <1>2, <1>3, <1>4, <1>5, <1>6, <1>7, <1>8, <1>9, <1>10, <1>11, <1>12,
            <1>13, <1>14, <1>15, <1>16, <1>17, <1>18, <1>19, StepCases

\* create_directory lets in one; nobody takes the lock from a driver at work.
LEMMA AloneStep == Core /\ LockInv /\ [Next]_vars => LockInv'
<1> SUFFICES ASSUME Core, LockInv, [Next]_vars PROVE LockInv'
    OBVIOUS
<1> USE DEF Core, LockInv, Places, Holding, Idle, Leave, Goto, buildDir, locals, bounds
<1>1. ASSUME NEW p \in Drivers, NEW w \in Wants, Call(p, w) PROVE LockInv'
    BY <1>1 DEF Call
<1>2. ASSUME NEW p \in Drivers, Acquire(p) PROVE LockInv'
    BY <1>2 DEF Acquire
<1>3. ASSUME NEW p \in Drivers, Wait(p) PROVE LockInv'
    BY <1>3 DEF Wait
<1>4. ASSUME NEW p \in Drivers, GiveUp(p) PROVE LockInv'
    BY <1>4 DEF GiveUp
<1>5. ASSUME NEW p \in Drivers, Generate(p) PROVE LockInv'
    BY <1>5, ZenonT(60) DEF Generate
<1>6. ASSUME NEW p \in Drivers, Fill(p) PROVE LockInv'
    BY <1>6 DEF Fill
<1>7. ASSUME NEW p \in Drivers, Configure(p) PROVE LockInv'
    BY <1>7 DEF Configure
<1>8. ASSUME NEW p \in Drivers, Configured(p) PROVE LockInv'
    BY <1>8 DEF Configured
<1>9. ASSUME NEW p \in Drivers, Record(p) PROVE LockInv'
    BY <1>9 DEF Record
<1>10. ASSUME NEW p \in Drivers, FillRecord(p) PROVE LockInv'
    BY <1>10 DEF FillRecord
<1>11. ASSUME NEW p \in Drivers, Build(p) PROVE LockInv'
    BY <1>11 DEF Build
<1>12. ASSUME NEW p \in Drivers, Return(p) PROVE LockInv'
    BY <1>12 DEF Return
<1>13. ASSUME NEW p \in Drivers, ConfigureFails(p) PROVE LockInv'
    BY <1>13 DEF ConfigureFails
<1>14. ASSUME NEW p \in Drivers, BuildFails(p) PROVE LockInv'
    BY <1>14 DEF BuildFails
<1>15. ASSUME NEW p \in Drivers, Kill(p) PROVE LockInv'
    BY <1>15 DEF Kill
<1>16. ASSUME Clean PROVE LockInv'
    BY <1>16 DEF Clean
<1>17. ASSUME Unlock PROVE LockInv'
    BY <1>17 DEF Unlock
<1>18. ASSUME NEW l \in Lists, Edit(l) PROVE LockInv'
    BY <1>18 DEF Edit
<1>19. ASSUME UNCHANGED vars PROVE LockInv'
    BY <1>19 DEF vars
<1> HIDE DEF LockInv
<1> QED  BY <1>1, <1>2, <1>3, <1>4, <1>5, <1>6, <1>7, <1>8, <1>9, <1>10, <1>11, <1>12,
            <1>13, <1>14, <1>15, <1>16, <1>17, <1>18, <1>19, StepCases

\* Nobody edits or generates the user's file; commands are those in use.
LEMMA WantsStep == Core /\ WantsInv /\ [Next]_vars => WantsInv'
<1> SUFFICES ASSUME Core, WantsInv, [Next]_vars PROVE WantsInv'
    OBVIOUS
<1> USE DEF Core, WantsInv, Places, Holding, Idle, Leave, Goto, buildDir, locals, bounds
<1>1. ASSUME NEW p \in Drivers, NEW w \in Wants, Call(p, w) PROVE WantsInv'
    BY <1>1 DEF Call
<1>2. ASSUME NEW p \in Drivers, Acquire(p) PROVE WantsInv'
    BY <1>2 DEF Acquire
<1>3. ASSUME NEW p \in Drivers, Wait(p) PROVE WantsInv'
    BY <1>3 DEF Wait
<1>4. ASSUME NEW p \in Drivers, GiveUp(p) PROVE WantsInv'
    BY <1>4 DEF GiveUp
<1>5. ASSUME NEW p \in Drivers, Generate(p) PROVE WantsInv'
    BY <1>5 DEF Generate
<1>6. ASSUME NEW p \in Drivers, Fill(p) PROVE WantsInv'
    BY <1>6 DEF Fill
<1>7. ASSUME NEW p \in Drivers, Configure(p) PROVE WantsInv'
    BY <1>7 DEF Configure
<1>8. ASSUME NEW p \in Drivers, Configured(p) PROVE WantsInv'
    BY <1>8 DEF Configured
<1>9. ASSUME NEW p \in Drivers, Record(p) PROVE WantsInv'
    BY <1>9 DEF Record
<1>10. ASSUME NEW p \in Drivers, FillRecord(p) PROVE WantsInv'
    BY <1>10 DEF FillRecord
<1>11. ASSUME NEW p \in Drivers, Build(p) PROVE WantsInv'
    BY <1>11 DEF Build
<1>12. ASSUME NEW p \in Drivers, Return(p) PROVE WantsInv'
    BY <1>12 DEF Return
<1>13. ASSUME NEW p \in Drivers, ConfigureFails(p) PROVE WantsInv'
    BY <1>13 DEF ConfigureFails
<1>14. ASSUME NEW p \in Drivers, BuildFails(p) PROVE WantsInv'
    BY <1>14 DEF BuildFails
<1>15. ASSUME NEW p \in Drivers, Kill(p) PROVE WantsInv'
    BY <1>15 DEF Kill
<1>16. ASSUME Clean PROVE WantsInv'
    BY <1>16 DEF Clean
<1>17. ASSUME Unlock PROVE WantsInv'
    BY <1>17 DEF Unlock
<1>18. ASSUME NEW l \in Lists, Edit(l) PROVE WantsInv'
    BY <1>18 DEF Edit
<1>19. ASSUME UNCHANGED vars PROVE WantsInv'
    BY <1>19 DEF vars
<1> HIDE DEF WantsInv
<1> QED  BY <1>1, <1>2, <1>3, <1>4, <1>5, <1>6, <1>7, <1>8, <1>9, <1>10, <1>11, <1>12,
            <1>13, <1>14, <1>15, <1>16, <1>17, <1>18, <1>19, StepCases

\* The configure record is written after the cache, and by the same driver.
LEMMA RecordStep ==
    ASSUME StableCommands, Core, LockInv, WantsInv, RecordInv, ProgressInv, [Next]_vars
    PROVE  RecordInv'
<1> USE CMakeAssumption DEF Core, LockInv, WantsInv, RecordInv, ProgressInv,
        StableCommands, Places, Holding, Idle, Leave, Goto, buildDir, locals, bounds
<1>1. ASSUME NEW p \in Drivers, NEW w \in Wants, Call(p, w) PROVE RecordInv'
    BY <1>1 DEF Call
<1>2. ASSUME NEW p \in Drivers, Acquire(p) PROVE RecordInv'
    BY <1>2 DEF Acquire
<1>3. ASSUME NEW p \in Drivers, Wait(p) PROVE RecordInv'
    BY <1>3 DEF Wait
<1>4. ASSUME NEW p \in Drivers, GiveUp(p) PROVE RecordInv'
    BY <1>4 DEF GiveUp
<1>5. ASSUME NEW p \in Drivers, Generate(p) PROVE RecordInv'
    BY <1>5 DEF Generate
<1>6. ASSUME NEW p \in Drivers, Fill(p) PROVE RecordInv'
    BY <1>6 DEF Fill
<1>7. ASSUME NEW p \in Drivers, Configure(p) PROVE RecordInv'
    BY <1>7 DEF Configure
<1>8. ASSUME NEW p \in Drivers, Configured(p) PROVE RecordInv'
    BY <1>8 DEF Configured
<1>9. ASSUME NEW p \in Drivers, Record(p) PROVE RecordInv'
    BY <1>9 DEF Record
<1>10. ASSUME NEW p \in Drivers, FillRecord(p) PROVE RecordInv'
    BY <1>10 DEF FillRecord
<1>11. ASSUME NEW p \in Drivers, Build(p) PROVE RecordInv'
    BY <1>11 DEF Build
<1>12. ASSUME NEW p \in Drivers, Return(p) PROVE RecordInv'
    BY <1>12 DEF Return
<1>13. ASSUME NEW p \in Drivers, ConfigureFails(p) PROVE RecordInv'
    BY <1>13 DEF ConfigureFails
<1>14. ASSUME NEW p \in Drivers, BuildFails(p) PROVE RecordInv'
    BY <1>14 DEF BuildFails
<1>15. ASSUME NEW p \in Drivers, Kill(p) PROVE RecordInv'
    <2>1. \A c, d \in scenario.commands : c = d
        BY <1>15 DEF Kill
    <2> QED  BY <1>15, <2>1 DEF Kill
<1>16. ASSUME Clean PROVE RecordInv'
    BY <1>16 DEF Clean
<1>17. ASSUME Unlock PROVE RecordInv'
    BY <1>17 DEF Unlock
<1>18. ASSUME NEW l \in Lists, Edit(l) PROVE RecordInv'
    BY <1>18 DEF Edit
<1>19. ASSUME UNCHANGED vars PROVE RecordInv'
    BY <1>19 DEF vars
<1> HIDE DEF RecordInv
<1> QED  BY <1>1, <1>2, <1>3, <1>4, <1>5, <1>6, <1>7, <1>8, <1>9, <1>10, <1>11, <1>12,
            <1>13, <1>14, <1>15, <1>16, <1>17, <1>18, <1>19, StepCases

\* From the lock on, each stage leaves what the next one relies on.
LEMMA ProgressStep ==
    ASSUME Core, LockInv, WantsInv, RecordInv, ProgressInv, [Next]_vars
    PROVE  ProgressInv'
<1> USE CMakeAssumption DEF Core, LockInv, WantsInv, RecordInv, ProgressInv, Places,
        Holding, Idle, Leave, Goto, ConfigureIsCurrent, buildDir, locals, bounds
<1>1. ASSUME NEW p \in Drivers, NEW w \in Wants, Call(p, w) PROVE ProgressInv'
    BY <1>1, WantsAreRecords DEF Call
<1>2. ASSUME NEW p \in Drivers, Acquire(p) PROVE ProgressInv'
    BY <1>2, WantsAreRecords DEF Acquire
<1>3. ASSUME NEW p \in Drivers, Wait(p) PROVE ProgressInv'
    BY <1>3, WantsAreRecords DEF Wait
<1>4. ASSUME NEW p \in Drivers, GiveUp(p) PROVE ProgressInv'
    BY <1>4, WantsAreRecords DEF GiveUp
<1>5. ASSUME NEW p \in Drivers, Generate(p) PROVE ProgressInv'
    BY <1>5, WantsAreRecords DEF Generate
<1>6. ASSUME NEW p \in Drivers, Fill(p) PROVE ProgressInv'
    BY <1>6, WantsAreRecords DEF Fill
<1>7. ASSUME NEW p \in Drivers, Configure(p) PROVE ProgressInv'
    BY <1>7, WantsAreRecords DEF Configure
<1>8. ASSUME NEW p \in Drivers, Configured(p) PROVE ProgressInv'
    BY <1>8, WantsAreRecords DEF Configured
<1>9. ASSUME NEW p \in Drivers, Record(p) PROVE ProgressInv'
    BY <1>9, WantsAreRecords DEF Record
<1>10. ASSUME NEW p \in Drivers, FillRecord(p) PROVE ProgressInv'
    BY <1>10, WantsAreRecords DEF FillRecord
<1>11. ASSUME NEW p \in Drivers, Build(p) PROVE ProgressInv'
    BY <1>11, WantsAreRecords DEF Build
<1>12. ASSUME NEW p \in Drivers, Return(p) PROVE ProgressInv'
    BY <1>12, WantsAreRecords DEF Return
<1>13. ASSUME NEW p \in Drivers, ConfigureFails(p) PROVE ProgressInv'
    BY <1>13, WantsAreRecords DEF ConfigureFails
<1>14. ASSUME NEW p \in Drivers, BuildFails(p) PROVE ProgressInv'
    BY <1>14, WantsAreRecords DEF BuildFails
<1>15. ASSUME NEW p \in Drivers, Kill(p) PROVE ProgressInv'
    BY <1>15, WantsAreRecords DEF Kill
<1>16. ASSUME Clean PROVE ProgressInv'
    BY <1>16, WantsAreRecords DEF Clean
<1>17. ASSUME Unlock PROVE ProgressInv'
    BY <1>17, WantsAreRecords DEF Unlock
<1>18. ASSUME NEW l \in Lists, Edit(l) PROVE ProgressInv'
    BY <1>18, WantsAreRecords DEF Edit
<1>19. ASSUME UNCHANGED vars PROVE ProgressInv'
    BY <1>19, WantsAreRecords DEF vars
<1> HIDE DEF ProgressInv
<1> QED  BY <1>1, <1>2, <1>3, <1>4, <1>5, <1>6, <1>7, <1>8, <1>9, <1>10, <1>11, <1>12,
            <1>13, <1>14, <1>15, <1>16, <1>17, <1>18, <1>19, StepCases

\* A truncated file is filled before anything is made of it.
LEMMA FilesStep ==
    ASSUME Core, LockInv, WantsInv, FilesInv, [Next]_vars
    PROVE  FilesInv'
<1> USE CMakeAssumption DEF Core, LockInv, WantsInv, FilesInv, Places, Holding, Idle,
        Leave, Goto, ConfigureIsCurrent, buildDir, locals, bounds
<1>1. ASSUME NEW p \in Drivers, NEW w \in Wants, Call(p, w) PROVE FilesInv'
    BY <1>1, WantsAreRecords DEF Call
<1>2. ASSUME NEW p \in Drivers, Acquire(p) PROVE FilesInv'
    BY <1>2, WantsAreRecords DEF Acquire
<1>3. ASSUME NEW p \in Drivers, Wait(p) PROVE FilesInv'
    BY <1>3, WantsAreRecords DEF Wait
<1>4. ASSUME NEW p \in Drivers, GiveUp(p) PROVE FilesInv'
    BY <1>4, WantsAreRecords DEF GiveUp
<1>5. ASSUME NEW p \in Drivers, Generate(p) PROVE FilesInv'
    BY <1>5, WantsAreRecords DEF Generate
<1>6. ASSUME NEW p \in Drivers, Fill(p) PROVE FilesInv'
    BY <1>6, WantsAreRecords DEF Fill
<1>7. ASSUME NEW p \in Drivers, Configure(p) PROVE FilesInv'
    BY <1>7, WantsAreRecords DEF Configure
<1>8. ASSUME NEW p \in Drivers, Configured(p) PROVE FilesInv'
    <2>1. tree' = want[p]
        <3>1. lists = want[p].lists /\ want[p] \in Wants
            BY <1>8 DEF Configured
        <3>2. want[p] = [lists |-> want[p].lists, command |-> want[p].command]
            BY ONLY <3>1, WantsAreRecords
        <3>3. tree' = [lists |-> lists, command |-> want[p].command]
            BY ONLY <1>8 DEF Configured
        <3> QED  BY ONLY <3>1, <3>2, <3>3
    <2>2. /\ pc[p] = "configuring" /\ pc' = [pc EXCEPT ![p] = "record"]
          /\ cmakeCache' = want[p].command
          /\ UNCHANGED <<lists, artifact, want>>
        BY <1>8 DEF Configured
    <2> QED  BY <2>1, <2>2, WantsAreRecords
<1>9. ASSUME NEW p \in Drivers, Record(p) PROVE FilesInv'
    BY <1>9, WantsAreRecords DEF Record
<1>10. ASSUME NEW p \in Drivers, FillRecord(p) PROVE FilesInv'
    BY <1>10, WantsAreRecords DEF FillRecord
<1>11. ASSUME NEW p \in Drivers, Build(p) PROVE FilesInv'
    <2>1. PICK w \in Wants : w = [lists |-> lists, command |-> cmakeCache]
        <3>1. lists \in Lists /\ cmakeCache \in Commands
            <4>1. scenario.commands \subseteq Commands
                BY DEF Scenario
            <4> QED  BY <1>11, <4>1, WantsAreRecords, ZenonT(60) DEF Build
        <3> QED  BY ONLY <3>1 DEF Wants
    <2>2. tree' = w /\ artifact' = w
        BY ONLY <1>11, <2>1 DEF Build
    <2>3. /\ pc[p] = "build" /\ pc' = [pc EXCEPT ![p] = "built"]
          /\ UNCHANGED <<lists, cmakeCache, want>>
        BY <1>11 DEF Build
    <2> QED  BY <2>2, <2>3
<1>12. ASSUME NEW p \in Drivers, Return(p) PROVE FilesInv'
    BY <1>12, WantsAreRecords DEF Return
<1>13. ASSUME NEW p \in Drivers, ConfigureFails(p) PROVE FilesInv'
    BY <1>13, WantsAreRecords DEF ConfigureFails
<1>14. ASSUME NEW p \in Drivers, BuildFails(p) PROVE FilesInv'
    BY <1>14, WantsAreRecords DEF BuildFails
<1>15. ASSUME NEW p \in Drivers, Kill(p) PROVE FilesInv'
    BY <1>15, WantsAreRecords DEF Kill
<1>16. ASSUME Clean PROVE FilesInv'
    BY <1>16, WantsAreRecords DEF Clean
<1>17. ASSUME Unlock PROVE FilesInv'
    BY <1>17, WantsAreRecords DEF Unlock
<1>18. ASSUME NEW l \in Lists, Edit(l) PROVE FilesInv'
    BY <1>18, WantsAreRecords DEF Edit
<1>19. ASSUME UNCHANGED vars PROVE FilesInv'
    BY <1>19, WantsAreRecords DEF vars
<1> HIDE DEF FilesInv
<1> QED  BY <1>1, <1>2, <1>3, <1>4, <1>5, <1>6, <1>7, <1>8, <1>9, <1>10, <1>11, <1>12,
            <1>13, <1>14, <1>15, <1>16, <1>17, <1>18, <1>19, StepCases

\* Truth values stay truth values.
LEMMA BooleansStep ==
    ASSUME Booleans, [Next]_vars
    PROVE  Booleans'
<1> USE DEF Booleans, Leave, buildDir, locals, bounds
<1>1. ASSUME NEW p \in Drivers, NEW w \in Wants, Call(p, w) PROVE Booleans'
    BY <1>1 DEF Call
<1>2. ASSUME NEW p \in Drivers, Acquire(p) PROVE Booleans'
    BY <1>2 DEF Acquire
<1>3. ASSUME NEW p \in Drivers, Wait(p) PROVE Booleans'
    BY <1>3 DEF Wait
<1>4. ASSUME NEW p \in Drivers, GiveUp(p) PROVE Booleans'
    BY <1>4 DEF GiveUp
<1>5. ASSUME NEW p \in Drivers, Generate(p) PROVE Booleans'
    BY <1>5 DEF Generate
<1>6. ASSUME NEW p \in Drivers, Fill(p) PROVE Booleans'
    BY <1>6 DEF Fill
<1>7. ASSUME NEW p \in Drivers, Configure(p) PROVE Booleans'
    BY <1>7 DEF Configure
<1>8. ASSUME NEW p \in Drivers, Configured(p) PROVE Booleans'
    BY <1>8 DEF Configured
<1>9. ASSUME NEW p \in Drivers, Record(p) PROVE Booleans'
    BY <1>9 DEF Record
<1>10. ASSUME NEW p \in Drivers, FillRecord(p) PROVE Booleans'
    BY <1>10 DEF FillRecord
<1>11. ASSUME NEW p \in Drivers, Build(p) PROVE Booleans'
    BY <1>11 DEF Build
<1>12. ASSUME NEW p \in Drivers, Return(p) PROVE Booleans'
    BY <1>12 DEF Return
<1>13. ASSUME NEW p \in Drivers, ConfigureFails(p) PROVE Booleans'
    BY <1>13 DEF ConfigureFails
<1>14. ASSUME NEW p \in Drivers, BuildFails(p) PROVE Booleans'
    BY <1>14 DEF BuildFails
<1>15. ASSUME NEW p \in Drivers, Kill(p) PROVE Booleans'
    BY <1>15 DEF Kill
<1>16. ASSUME Clean PROVE Booleans'
    BY <1>16 DEF Clean
<1>17. ASSUME Unlock PROVE Booleans'
    BY <1>17 DEF Unlock
<1>18. ASSUME NEW l \in Lists, Edit(l) PROVE Booleans'
    BY <1>18 DEF Edit
<1>19. ASSUME UNCHANGED vars PROVE Booleans'
    BY <1>19 DEF vars
<1> HIDE DEF Booleans
<1> QED  BY <1>1, <1>2, <1>3, <1>4, <1>5, <1>6, <1>7, <1>8, <1>9, <1>10, <1>11, <1>12,
            <1>13, <1>14, <1>15, <1>16, <1>17, <1>18, <1>19, StepCases

\* The bounds are kept.
LEMMA CountersStep ==
    ASSUME Counters, [Next]_vars
    PROVE  Counters'
<1> USE CMakeAssumption DEF Counters, Event, buildDir, locals, bounds
<1>1. ASSUME NEW p \in Drivers, NEW w \in Wants, Call(p, w) PROVE Counters'
    BY <1>1 DEF Call
<1>2. ASSUME NEW p \in Drivers, Acquire(p) PROVE Counters'
    BY <1>2 DEF Acquire
<1>3. ASSUME NEW p \in Drivers, Wait(p) PROVE Counters'
    BY <1>3 DEF Wait
<1>4. ASSUME NEW p \in Drivers, GiveUp(p) PROVE Counters'
    BY <1>4 DEF GiveUp
<1>5. ASSUME NEW p \in Drivers, Generate(p) PROVE Counters'
    BY <1>5 DEF Generate
<1>6. ASSUME NEW p \in Drivers, Fill(p) PROVE Counters'
    BY <1>6 DEF Fill
<1>7. ASSUME NEW p \in Drivers, Configure(p) PROVE Counters'
    BY <1>7 DEF Configure
<1>8. ASSUME NEW p \in Drivers, Configured(p) PROVE Counters'
    BY <1>8 DEF Configured
<1>9. ASSUME NEW p \in Drivers, Record(p) PROVE Counters'
    BY <1>9 DEF Record
<1>10. ASSUME NEW p \in Drivers, FillRecord(p) PROVE Counters'
    BY <1>10 DEF FillRecord
<1>11. ASSUME NEW p \in Drivers, Build(p) PROVE Counters'
    BY <1>11 DEF Build
<1>12. ASSUME NEW p \in Drivers, Return(p) PROVE Counters'
    BY <1>12 DEF Return
<1>13. ASSUME NEW p \in Drivers, ConfigureFails(p) PROVE Counters'
    BY <1>13 DEF ConfigureFails
<1>14. ASSUME NEW p \in Drivers, BuildFails(p) PROVE Counters'
    BY <1>14 DEF BuildFails
<1>15. ASSUME NEW p \in Drivers, Kill(p) PROVE Counters'
    BY <1>15 DEF Kill
<1>16. ASSUME Clean PROVE Counters'
    BY <1>16 DEF Clean
<1>17. ASSUME Unlock PROVE Counters'
    BY <1>17 DEF Unlock
<1>18. ASSUME NEW l \in Lists, Edit(l) PROVE Counters'
    BY <1>18 DEF Edit
<1>19. ASSUME UNCHANGED vars PROVE Counters'
    BY <1>19 DEF vars
<1> HIDE DEF Counters
<1> QED  BY <1>1, <1>2, <1>3, <1>4, <1>5, <1>6, <1>7, <1>8, <1>9, <1>10, <1>11, <1>12,
            <1>13, <1>14, <1>15, <1>16, <1>17, <1>18, <1>19, StepCases

-----------------------------------------------------------------------------
\* What every theorem starts from.
LEMMA Invariance ==
    /\ Spec => []Core
    /\ Spec => []LockInv
    /\ Spec => []WantsInv
<1>1. Init => Core /\ LockInv /\ WantsInv
    BY FirstWant DEF Init, Core, LockInv, WantsInv, Places, Holding
<1>2. Spec => []Core
    BY <1>1, CoreStep, PTL DEF Spec
<1>3. Core /\ LockInv /\ [Next]_vars => LockInv'
    BY AloneStep
<1>4. Core /\ WantsInv /\ [Next]_vars => WantsInv'
    BY WantsStep
<1> QED  BY <1>1, <1>2, <1>3, <1>4, PTL DEF Spec

\* Variables have their types: no half written CMakeLists.txt is ever built
\* from, for one.
THEOREM TypeCorrect == Spec => []TypeOK
<1>1. Init => FilesInv /\ Booleans /\ Counters
    <2>1. Init => FilesInv
        BY CMakeAssumption DEF Init, FilesInv, Holding
    <2>2. Init => Booleans
        BY Zenon DEF Init, Booleans
    <2>3. Init => Counters
        BY CMakeAssumption DEF Init, Counters
    <2> QED  BY <2>1, <2>2, <2>3
<1>2. Core /\ LockInv /\ WantsInv /\ FilesInv /\ [Next]_vars => FilesInv'
    BY FilesStep
<1>3. Booleans /\ [Next]_vars => Booleans'
    BY BooleansStep
<1>4. Counters /\ [Next]_vars => Counters'
    BY CountersStep
<1>5. Core /\ WantsInv /\ FilesInv /\ Booleans /\ Counters => TypeOK
    <2> SUFFICES ASSUME Core, WantsInv, FilesInv, Booleans, Counters PROVE TypeOK
        OBVIOUS
    <2>1. scenario.commands \subseteq Commands
        BY CMakeAssumption DEF Core, Scenario
    <2>2. cmakeCache \in Commands \cup {Absent} /\ recorded \in Commands \cup {Absent, Torn}
        BY <2>1 DEF WantsInv
    <2> QED  BY <2>2, Zenon DEF TypeOK, Core, FilesInv, Booleans, Counters
<1> QED  BY <1>1, <1>2, <1>3, <1>4, <1>5, Invariance, PTL DEF Spec

\* The lock directory lets one driver at a time into the build directory.
THEOREM OneAtATimeHolds == Spec => []OneAtATime
<1>1. LockInv => OneAtATime
    BY Zenon DEF LockInv, OneAtATime
<1> QED  BY <1>1, Invariance, PTL

\* A build that succeeds has built what it was asked for, as long as the command
\* is the same wherever steps fail or drivers are killed.
THEOREM BuildsAreOwnHolds ==
    ASSUME StableCommands
    PROVE  Spec => []BuildsAreOwn
<1>1. Init => RecordInv /\ ProgressInv
    BY DEF Init, RecordInv, ProgressInv, Holding
<1>2. Core /\ LockInv /\ WantsInv /\ RecordInv /\ ProgressInv /\ [Next]_vars
          => RecordInv' /\ ProgressInv'
    BY RecordStep, ProgressStep
<1>3. ProgressInv => BuildsAreOwn
    BY DEF ProgressInv, BuildsAreOwn
<1> QED  BY <1>1, <1>2, <1>3, Invariance, PTL DEF Spec
===============================================================================
