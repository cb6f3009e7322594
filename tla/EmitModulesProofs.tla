--------------------------- MODULE EmitModulesProofs ---------------------------
(***************************************************************************)
(* Types, that a killed run for changed sources is never taken for         *)
(* finished, and that a run that succeeds leaves what a build from nothing *)
(* would, checked, with nothing to do for the next one: for any modules,   *)
(* imports, texts and events, as long as no edit of one module takes       *)
(* another into the build or out of it (DomainsAreStable).                 *)
(***************************************************************************)
EXTENDS EmitModules, TLAPS

Sources ==
    /\ text \in [Modules -> Texts \cup {NoText}]
    /\ mtime \in [Modules -> Nat]

Versions == config \in Nat /\ compiler \in Nat /\ using \in 0 .. compiler

\* The run; from the analysis on, the entry has a stamp.
Run ==
    /\ pc \in {"idle", "load", "stamp", "analyze", "write", "fill",
               "stamps", "manifest", "paths"}
    /\ mode \in Modes
    /\ loaded \in [text : [Modules -> Texts \cup {NoText}], config : Nat]
    /\ stamps \in Stamps
    /\ todo \subseteq Modules \cup {Runtime}
    /\ open \in Modules \cup {Runtime}
    /\ pc \in {"analyze", "write", "fill", "stamps", "manifest", "paths"} =>
          stamps[Entry] # -1
    /\ pc \in {"stamps", "manifest", "paths"} => todo = {}

Files ==
    /\ stampFile \in [Modes -> Stamps]
    /\ manifest \in [Modes -> [stamps : Stamps, compiler : Nat \cup {-1},
                               paths : SUBSET (Modules \cup {Runtime})]]
    /\ artifact \in [Modules \cup {Runtime} -> Content \cup {Missing, Torn}]

History ==
    /\ result \in {"none", "running", "ok", "failed", "crashed"}
    /\ events \in 0 .. MaxEvents /\ seen \subseteq Events

Flag == settled \in BOOLEAN

\* The stamps of a file are not from the future; and as long as they are all
\* current, every module that a listed one imports is listed too.
Listed(f) ==
    /\ \A m \in Modules : f[m] <= mtime[m]
    /\ (\A m \in Modules : f[m] \in {-1, mtime[m]}) =>
          \A m \in Modules : f[m] # -1 => \A n \in Edges(text, m) : f[n] # -1

\* Unless a source was saved between being read and being stamped: a run's
\* stamps are those of its sources, and no older than the stamp file's.
StampsInv ==
    "edit while loading" \notin seen =>
        /\ \A md \in Modes : Listed(stampFile[md])
        /\ pc = "stamp" => loaded.text = text
        /\ pc \in {"analyze", "write", "fill", "stamps"} =>
              /\ \A m \in Modules : stamps[m] # -1 <=> m \in Graph(loaded.text)
              /\ \A m \in Modules : stamps[m] = mtime[m] => text[m] = loaded.text[m]
              /\ \A m \in Modules : stamps[m] <= mtime[m]
              /\ \A m \in Graph(loaded.text) : stampFile[mode][m] <= stamps[m]

-----------------------------------------------------------------------------
\* The module graph is a set of modules that has the entry.
LEMMA GraphHasEntry ==
    ASSUME NEW src PROVE Graph(src) \subseteq Modules /\ Entry \in Graph(src)
BY EmitAssumption DEF Graph, Reach, ReachAround

\* It has what its modules import.
LEMMA GraphIsClosed ==
    ASSUME NEW src, \A m \in Modules : Edges(src, m) \subseteq Modules
    PROVE  \A m \in Graph(src) : Edges(src, m) \subseteq Graph(src)
BY DEF Graph, Reach, ReachAround

\* It is the least such set.
LEMMA GraphIsLeast ==
    ASSUME NEW src, NEW S \in SUBSET Modules, Entry \in S,
           \A m \in S : Edges(src, m) \subseteq S
    PROVE  Graph(src) \subseteq S
BY DEF Graph, Reach, ReachAround

\* Modules import modules.
LEMMA EdgesAreModules ==
    ASSUME NEW src \in [Modules -> Texts \cup {NoText}], NEW m \in Modules
    PROVE  Edges(src, m) \subseteq Modules
BY EmitAssumption DEF Edges

\* What may be generated is content.
LEMMA GeneratedIsContent ==
    ASSUME Run, Versions, NEW a PROVE Generated(a) \in Content
<1>1. loaded.text \in [Modules -> Texts \cup {NoText}] /\ loaded.config \in Nat
    BY DEF Run
<1>2. [n \in Modules |-> IF n \in Reach(loaded.text, IF a = Runtime THEN {Entry} ELSE {a})
                         THEN loaded.text[n] ELSE NoText]
          \in [Modules -> Texts \cup {NoText}]
    BY <1>1
<1>3. mode \in Modes /\ using \in Nat
    BY DEF Run, Versions
<1> QED  BY <1>1, <1>2, <1>3 DEF Generated, CleanArtifact, Content

\* Events keep to their bound and kinds.
LEMMA EventsAreCounted ==
    ASSUME History, NEW kind, Event(kind)
    PROVE  events' \in 0 .. MaxEvents /\ seen' \subseteq Events
<1>1. MaxEvents \in Nat
    BY EmitAssumption
<1> QED  BY <1>1 DEF History, Event

\* The steps, one by one.
LEMMA StepCases ==
    ASSUME NEW P, [Next]_vars,
           \A md \in Modes : Begin(md) => P,
           Load => P,
           Stamp => P,
           Analyze => P,
           \A a \in Modules \cup {Runtime} : KeepArtifact(a) => P,
           \A a \in Modules \cup {Runtime} : TruncateArtifact(a) => P,
           FillArtifact => P,
           TruncateStamps => P,
           FillStamps => P,
           TruncateManifest => P,
           FillManifest => P,
           \A m \in Modules : \A t \in TextsOf[m] : Edit(m, t) => P,
           Configure => P,
           Upgrade => P,
           \A a \in Modules \cup {Runtime} : DeleteArtifact(a) => P,
           Crash => P,
           UNCHANGED vars => P
    PROVE  P
BY DEF Next, RunStep, Environment

\* Texts and modification times have their types.
LEMMA SourcesStep == Sources /\ [Next]_vars => Sources'
<1> SUFFICES ASSUME Sources, [Next]_vars PROVE Sources'
    OBVIOUS
<1> USE DEF Sources, inputs, outputs, run, history
<1>1. ASSUME NEW md \in Modes, Begin(md) PROVE Sources'
    BY <1>1 DEF Begin
<1>2. ASSUME Load PROVE Sources'
    BY <1>2 DEF Load
<1>3. ASSUME Stamp PROVE Sources'
    BY <1>3 DEF Stamp
<1>4. ASSUME Analyze PROVE Sources'
    BY <1>4 DEF Analyze
<1>5. ASSUME NEW a \in Modules \cup {Runtime}, KeepArtifact(a) PROVE Sources'
    BY <1>5 DEF KeepArtifact
<1>6. ASSUME NEW a \in Modules \cup {Runtime}, TruncateArtifact(a) PROVE Sources'
    BY <1>6 DEF TruncateArtifact
<1>7. ASSUME FillArtifact PROVE Sources'
    BY <1>7 DEF FillArtifact
<1>8. ASSUME TruncateStamps PROVE Sources'
    BY <1>8 DEF TruncateStamps
<1>9. ASSUME FillStamps PROVE Sources'
    BY <1>9 DEF FillStamps
<1>10. ASSUME TruncateManifest PROVE Sources'
    BY <1>10 DEF TruncateManifest
<1>11. ASSUME FillManifest PROVE Sources'
    BY <1>11 DEF FillManifest
<1>12. ASSUME NEW m \in Modules, NEW t \in TextsOf[m], Edit(m, t) PROVE Sources'
    <2>1. t \in Texts \cup {NoText}
        BY <1>12, EmitAssumption
    <2>2. text' = [text EXCEPT ![m] = t] /\ mtime' = [mtime EXCEPT ![m] = mtime[m] + 1]
        BY <1>12, Zenon DEF Edit
    <2> QED  BY <2>1, <2>2
<1>13. ASSUME Configure PROVE Sources'
    BY <1>13 DEF Configure
<1>14. ASSUME Upgrade PROVE Sources'
    BY <1>14 DEF Upgrade
<1>15. ASSUME NEW a \in Modules \cup {Runtime}, DeleteArtifact(a) PROVE Sources'
    BY <1>15 DEF DeleteArtifact
<1>16. ASSUME Crash PROVE Sources'
    BY <1>16 DEF Crash
<1>17. ASSUME UNCHANGED vars PROVE Sources'
    BY <1>17 DEF vars, inputs, outputs, run, history
<1> HIDE DEF Sources, inputs, outputs, run, history
<1> QED  BY <1>1, <1>2, <1>3, <1>4, <1>5, <1>6, <1>7, <1>8, <1>9, <1>10, <1>11, <1>12,
            <1>13, <1>14, <1>15, <1>16, <1>17, StepCases

\* So have dudu.toml and the compilers.
LEMMA VersionsStep == Versions /\ [Next]_vars => Versions'
<1> SUFFICES ASSUME Versions, [Next]_vars PROVE Versions'
    OBVIOUS
<1> USE DEF Versions, inputs, outputs, run, history
<1>1. ASSUME NEW md \in Modes, Begin(md) PROVE Versions'
    BY <1>1 DEF Begin
<1>2. ASSUME Load PROVE Versions'
    BY <1>2 DEF Load
<1>3. ASSUME Stamp PROVE Versions'
    BY <1>3 DEF Stamp
<1>4. ASSUME Analyze PROVE Versions'
    BY <1>4 DEF Analyze
<1>5. ASSUME NEW a \in Modules \cup {Runtime}, KeepArtifact(a) PROVE Versions'
    BY <1>5 DEF KeepArtifact
<1>6. ASSUME NEW a \in Modules \cup {Runtime}, TruncateArtifact(a) PROVE Versions'
    BY <1>6 DEF TruncateArtifact
<1>7. ASSUME FillArtifact PROVE Versions'
    BY <1>7 DEF FillArtifact
<1>8. ASSUME TruncateStamps PROVE Versions'
    BY <1>8 DEF TruncateStamps
<1>9. ASSUME FillStamps PROVE Versions'
    BY <1>9 DEF FillStamps
<1>10. ASSUME TruncateManifest PROVE Versions'
    BY <1>10 DEF TruncateManifest
<1>11. ASSUME FillManifest PROVE Versions'
    BY <1>11 DEF FillManifest
<1>12. ASSUME NEW m \in Modules, NEW t \in TextsOf[m], Edit(m, t) PROVE Versions'
    BY <1>12 DEF Edit
<1>13. ASSUME Configure PROVE Versions'
    BY <1>13 DEF Configure
<1>14. ASSUME Upgrade PROVE Versions'
    <2>1. compiler' = compiler + 1 /\ using' = using /\ config' = config
        BY <1>14 DEF Upgrade
    <2> QED  BY <2>1
<1>15. ASSUME NEW a \in Modules \cup {Runtime}, DeleteArtifact(a) PROVE Versions'
    BY <1>15 DEF DeleteArtifact
<1>16. ASSUME Crash PROVE Versions'
    BY <1>16 DEF Crash
<1>17. ASSUME UNCHANGED vars PROVE Versions'
    BY <1>17 DEF vars, inputs, outputs, run, history
<1> HIDE DEF Versions, inputs, outputs, run, history
<1> QED  BY <1>1, <1>2, <1>3, <1>4, <1>5, <1>6, <1>7, <1>8, <1>9, <1>10, <1>11, <1>12,
            <1>13, <1>14, <1>15, <1>16, <1>17, StepCases

\* And the run's locals.
LEMMA RunStepKeepsRun == Run /\ Sources /\ Versions /\ [Next]_vars => Run'
<1> SUFFICES ASSUME Run, Sources, Versions, [Next]_vars PROVE Run'
    OBVIOUS
<1> USE DEF Run, Sources, Versions, inputs, outputs, run, history
<1>1. ASSUME NEW md \in Modes, Begin(md) PROVE Run'
    BY <1>1 DEF Begin, Finish
<1>2. ASSUME Load PROVE Run'
    BY <1>2 DEF Load, Finish
<1>3. ASSUME Stamp PROVE Run'
    <2>1. stamps' \in Stamps
        BY <1>3 DEF Stamp, Stamps
    <2>2. Entry \in Modules /\ stamps'[Entry] = mtime[Entry]
        BY <1>3, GraphHasEntry, EmitAssumption DEF Stamp
    <2> QED  BY <1>3, <2>1, <2>2 DEF Stamp
<1>4. ASSUME Analyze PROVE Run'
    <2>1. todo' \subseteq Modules \cup {Runtime}
        BY <1>4, GraphHasEntry, Zenon DEF Analyze, Emitted, Target
    <2> QED  BY <1>4, <2>1 DEF Analyze, Finish
<1>5. ASSUME NEW a \in Modules \cup {Runtime}, KeepArtifact(a) PROVE Run'
    BY <1>5 DEF KeepArtifact
<1>6. ASSUME NEW a \in Modules \cup {Runtime}, TruncateArtifact(a) PROVE Run'
    BY <1>6 DEF TruncateArtifact
<1>7. ASSUME FillArtifact PROVE Run'
    BY <1>7 DEF FillArtifact
<1>8. ASSUME TruncateStamps PROVE Run'
    BY <1>8 DEF TruncateStamps
<1>9. ASSUME FillStamps PROVE Run'
    BY <1>9 DEF FillStamps
<1>10. ASSUME TruncateManifest PROVE Run'
    BY <1>10 DEF TruncateManifest
<1>11. ASSUME FillManifest PROVE Run'
    BY <1>11 DEF FillManifest, Finish
<1>12. ASSUME NEW m \in Modules, NEW t \in TextsOf[m], Edit(m, t) PROVE Run'
    BY <1>12 DEF Edit
<1>13. ASSUME Configure PROVE Run'
    BY <1>13 DEF Configure
<1>14. ASSUME Upgrade PROVE Run'
    BY <1>14 DEF Upgrade
<1>15. ASSUME NEW a \in Modules \cup {Runtime}, DeleteArtifact(a) PROVE Run'
    BY <1>15 DEF DeleteArtifact
<1>16. ASSUME Crash PROVE Run'
    BY <1>16 DEF Crash, Finish
<1>17. ASSUME UNCHANGED vars PROVE Run'
    BY <1>17 DEF vars, inputs, outputs, run, history
<1> HIDE DEF Run, Sources, Versions, inputs, outputs, run, history
<1> QED  BY <1>1, <1>2, <1>3, <1>4, <1>5, <1>6, <1>7, <1>8, <1>9, <1>10, <1>11, <1>12,
            <1>13, <1>14, <1>15, <1>16, <1>17, StepCases

\* And what is in the output directory.
LEMMA FilesStep == Files /\ Run /\ Versions /\ [Next]_vars => Files'
<1> SUFFICES ASSUME Files, Run, Versions, [Next]_vars PROVE Files'
    OBVIOUS
<1> USE DEF Files, inputs, outputs, run, history
<1>1. ASSUME NEW md \in Modes, Begin(md) PROVE Files'
    BY <1>1 DEF Begin
<1>2. ASSUME Load PROVE Files'
    BY <1>2 DEF Load
<1>3. ASSUME Stamp PROVE Files'
    BY <1>3 DEF Stamp
<1>4. ASSUME Analyze PROVE Files'
    BY <1>4 DEF Analyze
<1>5. ASSUME NEW a \in Modules \cup {Runtime}, KeepArtifact(a) PROVE Files'
    BY <1>5 DEF KeepArtifact
<1>6. ASSUME NEW a \in Modules \cup {Runtime}, TruncateArtifact(a) PROVE Files'
    BY <1>6 DEF TruncateArtifact
<1>7. ASSUME FillArtifact PROVE Files'
    BY <1>7, GeneratedIsContent DEF FillArtifact, Run
<1>8. ASSUME TruncateStamps PROVE Files'
    BY <1>8 DEF TruncateStamps, Run, NoStamps, Stamps
<1>9. ASSUME FillStamps PROVE Files'
    BY <1>9 DEF FillStamps, Run
<1>10. ASSUME TruncateManifest PROVE Files'
    BY <1>10 DEF TruncateManifest, Run, NoManifest, NoStamps, Stamps
<1>11. ASSUME FillManifest PROVE Files'
    <2>1. Artifacts(loaded.text) \subseteq Modules \cup {Runtime}
        BY GraphHasEntry DEF Artifacts, Target
    <2> QED  BY <1>11, <2>1 DEF FillManifest, Run, Versions
<1>12. ASSUME NEW m \in Modules, NEW t \in TextsOf[m], Edit(m, t) PROVE Files'
    BY <1>12 DEF Edit
<1>13. ASSUME Configure PROVE Files'
    BY <1>13 DEF Configure
<1>14. ASSUME Upgrade PROVE Files'
    BY <1>14 DEF Upgrade
<1>15. ASSUME NEW a \in Modules \cup {Runtime}, DeleteArtifact(a) PROVE Files'
    BY <1>15 DEF DeleteArtifact
<1>16. ASSUME Crash PROVE Files'
    BY <1>16 DEF Crash
<1>17. ASSUME UNCHANGED vars PROVE Files'
    BY <1>17 DEF vars, inputs, outputs, run, history
<1> HIDE DEF Files, inputs, outputs, run, history
<1> QED  BY <1>1, <1>2, <1>3, <1>4, <1>5, <1>6, <1>7, <1>8, <1>9, <1>10, <1>11, <1>12,
            <1>13, <1>14, <1>15, <1>16, <1>17, StepCases

\* And how runs end and what happens besides.
LEMMA HistoryStep == History /\ [Next]_vars => History'
<1> SUFFICES ASSUME History, [Next]_vars PROVE History'
    OBVIOUS
<1> USE DEF History, inputs, outputs, run, history
<1>1. ASSUME NEW md \in Modes, Begin(md) PROVE History'
    BY <1>1 DEF Begin, Finish
<1>2. ASSUME Load PROVE History'
    BY <1>2 DEF Load, Finish
<1>3. ASSUME Stamp PROVE History'
    BY <1>3 DEF Stamp
<1>4. ASSUME Analyze PROVE History'
    BY <1>4 DEF Analyze, Finish
<1>5. ASSUME NEW a \in Modules \cup {Runtime}, KeepArtifact(a) PROVE History'
    BY <1>5 DEF KeepArtifact
<1>6. ASSUME NEW a \in Modules \cup {Runtime}, TruncateArtifact(a) PROVE History'
    BY <1>6 DEF TruncateArtifact
<1>7. ASSUME FillArtifact PROVE History'
    BY <1>7 DEF FillArtifact
<1>8. ASSUME TruncateStamps PROVE History'
    BY <1>8 DEF TruncateStamps
<1>9. ASSUME FillStamps PROVE History'
    BY <1>9 DEF FillStamps
<1>10. ASSUME TruncateManifest PROVE History'
    BY <1>10 DEF TruncateManifest
<1>11. ASSUME FillManifest PROVE History'
    BY <1>11 DEF FillManifest, Finish
<1>12. ASSUME NEW m \in Modules, NEW t \in TextsOf[m], Edit(m, t) PROVE History'
    BY <1>12, EventsAreCounted DEF Edit
<1>13. ASSUME Configure PROVE History'
    BY <1>13, EventsAreCounted DEF Configure
<1>14. ASSUME Upgrade PROVE History'
    BY <1>14, EventsAreCounted DEF Upgrade
<1>15. ASSUME NEW a \in Modules \cup {Runtime}, DeleteArtifact(a) PROVE History'
    BY <1>15, EventsAreCounted DEF DeleteArtifact
<1>16. ASSUME Crash PROVE History'
    BY <1>16, EventsAreCounted DEF Crash, Finish
<1>17. ASSUME UNCHANGED vars PROVE History'
    BY <1>17 DEF vars, inputs, outputs, run, history
<1> HIDE DEF History, inputs, outputs, run, history
<1> QED  BY <1>1, <1>2, <1>3, <1>4, <1>5, <1>6, <1>7, <1>8, <1>9, <1>10, <1>11, <1>12,
            <1>13, <1>14, <1>15, <1>16, <1>17, StepCases

\* And the flag of an undisturbed run.
LEMMA FlagStep == Flag /\ [Next]_vars => Flag'
<1> SUFFICES ASSUME Flag, [Next]_vars PROVE Flag'
    OBVIOUS
<1> USE DEF Flag, inputs, outputs, run, history
<1>1. ASSUME NEW md \in Modes, Begin(md) PROVE Flag'
    BY <1>1 DEF Begin
<1>2. ASSUME Load PROVE Flag'
    BY <1>2 DEF Load
<1>3. ASSUME Stamp PROVE Flag'
    BY <1>3 DEF Stamp
<1>4. ASSUME Analyze PROVE Flag'
    BY <1>4 DEF Analyze
<1>5. ASSUME NEW a \in Modules \cup {Runtime}, KeepArtifact(a) PROVE Flag'
    BY <1>5 DEF KeepArtifact
<1>6. ASSUME NEW a \in Modules \cup {Runtime}, TruncateArtifact(a) PROVE Flag'
    BY <1>6 DEF TruncateArtifact
<1>7. ASSUME FillArtifact PROVE Flag'
    BY <1>7 DEF FillArtifact
<1>8. ASSUME TruncateStamps PROVE Flag'
    BY <1>8 DEF TruncateStamps
<1>9. ASSUME FillStamps PROVE Flag'
    BY <1>9 DEF FillStamps
<1>10. ASSUME TruncateManifest PROVE Flag'
    BY <1>10 DEF TruncateManifest
<1>11. ASSUME FillManifest PROVE Flag'
    BY <1>11 DEF FillManifest
<1>12. ASSUME NEW m \in Modules, NEW t \in TextsOf[m], Edit(m, t) PROVE Flag'
    BY <1>12 DEF Edit
<1>13. ASSUME Configure PROVE Flag'
    BY <1>13 DEF Configure
<1>14. ASSUME Upgrade PROVE Flag'
    BY <1>14 DEF Upgrade
<1>15. ASSUME NEW a \in Modules \cup {Runtime}, DeleteArtifact(a) PROVE Flag'
    BY <1>15 DEF DeleteArtifact
<1>16. ASSUME Crash PROVE Flag'
    BY <1>16 DEF Crash
<1>17. ASSUME UNCHANGED vars PROVE Flag'
    BY <1>17 DEF vars, inputs, outputs, run, history
<1> HIDE DEF Flag, inputs, outputs, run, history
<1> QED  BY <1>1, <1>2, <1>3, <1>4, <1>5, <1>6, <1>7, <1>8, <1>9, <1>10, <1>11, <1>12,
            <1>13, <1>14, <1>15, <1>16, <1>17, StepCases
-----------------------------------------------------------------------------
\* A list stays a list when a module is saved: either it has another stamp of
\* the module, or does not have it.
LEMMA SavedListed ==
    ASSUME Sources, NEW f \in Stamps, Listed(f), NEW m \in Modules,
           mtime' = [mtime EXCEPT ![m] = @ + 1],
           \A n \in Modules \ {m} : text'[n] = text[n]
    PROVE  Listed(f)'
<1>1. \A n \in Modules : f[n] \in Nat \cup {-1} /\ mtime[n] \in Nat
    BY DEF Sources, Stamps
<1>2. mtime'[m] = mtime[m] + 1 /\ \A n \in Modules \ {m} : mtime'[n] = mtime[n]
    BY DEF Sources
<1>3. \A n \in Modules : f[n] <= mtime'[n]
    BY <1>1, <1>2 DEF Listed
<1>4. ASSUME \A n \in Modules : f[n] \in {-1, mtime'[n]}
      PROVE  \A n \in Modules : f[n] # -1 => \A o \in Edges(text', n) : f[o] # -1
    <2>1. f[m] = -1
        BY <1>1, <1>2, <1>4 DEF Listed
    <2>2. \A n \in Modules : f[n] \in {-1, mtime[n]}
        BY <1>2, <1>4, <2>1
    <2>3. \A n \in Modules : f[n] # -1 => Edges(text', n) = Edges(text, n)
        BY <2>1 DEF Edges
    <2> QED  BY <2>2, <2>3 DEF Listed
<1> QED  BY <1>3, <1>4 DEF Listed

\* A list stays a list while nothing is saved.
LEMMA UnsavedListed ==
    ASSUME NEW f, Listed(f), text' = text, mtime' = mtime PROVE Listed(f)'
BY DEF Listed, Edges


\* The stamps of a run, and those in the files.
LEMMA StampsStep == StampsInv /\ Sources /\ Run /\ Files /\ [Next]_vars => StampsInv'
<1> SUFFICES ASSUME StampsInv, Sources, Run, Files, [Next]_vars PROVE StampsInv'
    OBVIOUS
<1> USE DEF inputs, outputs, run, history
<1>1. ASSUME NEW md \in Modes, Begin(md) PROVE StampsInv'
    <2>1. pc' \in {"idle", "load"}
        BY <1>1 DEF Begin, Finish
    <2>2. text' = text /\ mtime' = mtime /\ stampFile' = stampFile /\ seen \subseteq seen'
        BY <1>1 DEF Begin, Finish, Event
    <2> QED  BY <2>1, <2>2, UnsavedListed DEF StampsInv
<1>2. ASSUME Load PROVE StampsInv'
    <2>1. pc' = "idle" \/ (pc' = "stamp" /\ loaded'.text = text)
        BY <1>2 DEF Load, Finish
    <2>2. text' = text /\ mtime' = mtime /\ stampFile' = stampFile /\ seen \subseteq seen'
        BY <1>2 DEF Load, Finish, Event
    <2> QED  BY <2>1, <2>2, UnsavedListed DEF StampsInv
<1>3. ASSUME Stamp PROVE StampsInv'
    <2>1. /\ text' = text /\ mtime' = mtime /\ stampFile' = stampFile /\ seen' = seen
          /\ pc = "stamp" /\ pc' = "analyze" /\ loaded' = loaded /\ mode' = mode
          /\ \A m \in Modules : stamps'[m] = IF m \in Graph(loaded.text) THEN mtime[m] ELSE -1
        BY <1>3 DEF Stamp
    <2>2. SUFFICES ASSUME "edit while loading" \notin seen PROVE StampsInv'
        BY <2>1 DEF StampsInv
    <2>3. \A md \in Modes : Listed(stampFile[md])'
        BY <2>1, <2>2, UnsavedListed DEF StampsInv
    <2>4. loaded.text = text /\ \A m \in Modules : mtime[m] \in Nat
        BY <2>1, <2>2 DEF StampsInv, Sources
    <2>5. \A m \in Modules : stampFile[mode][m] <= mtime[m]
        BY <2>2 DEF StampsInv, Listed, Run
    <2>6. Graph(loaded.text) \subseteq Modules
        BY GraphHasEntry
    <2>7. loaded'.text = text' /\ Graph(loaded'.text) = Graph(loaded.text)
        BY <2>1, <2>4
    <2>8. /\ \A m \in Modules : stamps'[m] # -1 <=> m \in Graph(loaded'.text)
          /\ \A m \in Modules : stamps'[m] <= mtime[m]
          /\ \A m \in Graph(loaded'.text) : stampFile[mode][m] <= stamps'[m]
        BY <2>1, <2>4, <2>5, <2>6, <2>7
    <2> QED  BY <2>1, <2>3, <2>7, <2>8 DEF StampsInv
<1>4. ASSUME Analyze PROVE StampsInv'
    <2>1. pc' \in {"idle", "write"} /\ pc = "analyze"
              /\ loaded' = loaded /\ stamps' = stamps /\ mode' = mode
        BY <1>4 DEF Analyze, Finish
    <2>2. text' = text /\ mtime' = mtime /\ stampFile' = stampFile /\ seen' = seen
        BY <1>4 DEF Analyze
    <2> QED  BY <2>1, <2>2, UnsavedListed DEF StampsInv
<1>5. ASSUME NEW a \in Modules \cup {Runtime}, KeepArtifact(a) PROVE StampsInv'
    <2>1. pc' = pc /\ loaded' = loaded /\ stamps' = stamps /\ mode' = mode
        BY <1>5 DEF KeepArtifact
    <2>2. text' = text /\ mtime' = mtime /\ stampFile' = stampFile /\ seen \subseteq seen'
        BY <1>5 DEF KeepArtifact, Event
    <2> QED  BY <2>1, <2>2, UnsavedListed DEF StampsInv
<1>6. ASSUME NEW a \in Modules \cup {Runtime}, TruncateArtifact(a) PROVE StampsInv'
    <2>1. pc \in {"write"} /\ pc' = "fill" /\ loaded' = loaded
              /\ stamps' = stamps /\ mode' = mode
        BY <1>6 DEF TruncateArtifact
    <2>2. text' = text /\ mtime' = mtime /\ stampFile' = stampFile /\ seen \subseteq seen'
        BY <1>6 DEF TruncateArtifact, Event
    <2> QED  BY <2>1, <2>2, UnsavedListed DEF StampsInv
<1>7. ASSUME FillArtifact PROVE StampsInv'
    <2>1. pc = "fill" /\ pc' = "write" /\ loaded' = loaded
              /\ stamps' = stamps /\ mode' = mode
        BY <1>7 DEF FillArtifact
    <2>2. text' = text /\ mtime' = mtime /\ stampFile' = stampFile /\ seen \subseteq seen'
        BY <1>7 DEF FillArtifact, Event
    <2> QED  BY <2>1, <2>2, UnsavedListed DEF StampsInv
<1>8. ASSUME TruncateStamps PROVE StampsInv'
    <2>1. /\ text' = text /\ mtime' = mtime /\ seen' = seen /\ stamps' = stamps
          /\ pc = "write" /\ pc' = "stamps" /\ loaded' = loaded /\ mode' = mode
          /\ stampFile' = [stampFile EXCEPT ![mode] = NoStamps]
        BY <1>8 DEF TruncateStamps
    <2>2. SUFFICES ASSUME "edit while loading" \notin seen PROVE StampsInv'
        BY <2>1 DEF StampsInv
    <2>3. stampFile'[mode] = NoStamps /\ \A md \in Modes \ {mode} : stampFile'[md] = stampFile[md]
        BY <2>1 DEF Files, Run
    <2>4. Listed(NoStamps)
        BY DEF Listed, NoStamps, Sources
    <2>5. \A md \in Modes : Listed(stampFile'[md])
        BY <2>2, <2>3, <2>4 DEF StampsInv
    <2>6. \A md \in Modes : Listed(stampFile[md])'
        BY <2>1, <2>5 DEF Listed, Edges
    <2>7. \A m \in Graph(loaded.text) : stampFile'[mode][m] <= stamps[m]
        BY <2>3, GraphHasEntry DEF NoStamps, Run, Stamps
    <2> QED  BY <2>1, <2>2, <2>6, <2>7 DEF StampsInv
<1>9. ASSUME FillStamps PROVE StampsInv'
    <2>1. /\ text' = text /\ mtime' = mtime /\ seen' = seen
          /\ pc = "stamps" /\ pc' = "manifest"
          /\ stampFile' = [stampFile EXCEPT ![mode] = stamps]
        BY <1>9 DEF FillStamps
    <2>2. SUFFICES ASSUME "edit while loading" \notin seen PROVE StampsInv'
        BY <2>1 DEF StampsInv
    <2>3. stampFile'[mode] = stamps /\ \A md \in Modes \ {mode} : stampFile'[md] = stampFile[md]
        BY <2>1 DEF Files, Run
    <2>4. Listed(stamps)
        <3>1. SUFFICES ASSUME \A m \in Modules : stamps[m] \in {-1, mtime[m]},
                              NEW m \in Modules, stamps[m] # -1
                       PROVE  \A n \in Edges(text, m) : stamps[n] # -1
            BY <2>1, <2>2 DEF StampsInv, Listed
        <3>2. m \in Graph(loaded.text) /\ text[m] = loaded.text[m]
            BY <2>1, <2>2, <3>1 DEF StampsInv
        <3>3. \A n \in Modules : Edges(loaded.text, n) \subseteq Modules
            BY EdgesAreModules DEF Run
        <3>4. Edges(loaded.text, m) \subseteq Graph(loaded.text)
            BY <3>2, <3>3, GraphIsClosed
        <3>5. Edges(text, m) = Edges(loaded.text, m)
            BY <3>2 DEF Edges
        <3> QED  BY <2>1, <2>2, <3>3, <3>4, <3>5 DEF StampsInv
    <2>5. \A md \in Modes : Listed(stampFile'[md])
        BY <2>2, <2>3, <2>4 DEF StampsInv
    <2>6. \A md \in Modes : Listed(stampFile[md])'
        BY <2>1, <2>5 DEF Listed, Edges
    <2> QED  BY <2>1, <2>6 DEF StampsInv
<1>10. ASSUME TruncateManifest PROVE StampsInv'
    <2>1. pc' = "paths"
        BY <1>10 DEF TruncateManifest
    <2>2. text' = text /\ mtime' = mtime /\ stampFile' = stampFile /\ seen \subseteq seen'
        BY <1>10 DEF TruncateManifest, Event
    <2> QED  BY <2>1, <2>2, UnsavedListed DEF StampsInv
<1>11. ASSUME FillManifest PROVE StampsInv'
    <2>1. pc' = "idle"
        BY <1>11 DEF FillManifest, Finish
    <2>2. text' = text /\ mtime' = mtime /\ stampFile' = stampFile /\ seen \subseteq seen'
        BY <1>11 DEF FillManifest, Finish, Event
    <2> QED  BY <2>1, <2>2, UnsavedListed DEF StampsInv
<1>12. ASSUME NEW m \in Modules, NEW t \in TextsOf[m], Edit(m, t) PROVE StampsInv'
    <2>0. /\ \/ pc = "idle" /\ Event("edit")
             \/ pc = "stamp" /\ Event("edit while loading")
             \/ pc \notin {"idle", "stamp"} /\ Event("edit during run")
          /\ text' = [text EXCEPT ![m] = t] /\ mtime' = [mtime EXCEPT ![m] = mtime[m] + 1]
          /\ pc' = pc /\ loaded' = loaded /\ stamps' = stamps /\ mode' = mode
          /\ stampFile' = stampFile
        BY ONLY <1>12, Zenon DEF Edit, outputs, run
    <2>a. (pc = "stamp" => "edit while loading" \in seen') /\ seen \subseteq seen'
        BY <2>0 DEF Event
    <2>1. /\ text' = [text EXCEPT ![m] = t] /\ mtime' = [mtime EXCEPT ![m] = mtime[m] + 1]
          /\ pc' = pc /\ loaded' = loaded /\ stamps' = stamps /\ mode' = mode
          /\ stampFile' = stampFile /\ seen \subseteq seen'
          /\ pc = "stamp" => "edit while loading" \in seen'
        BY <2>0, <2>a
    <2>2. SUFFICES ASSUME "edit while loading" \notin seen' PROVE StampsInv'
        BY DEF StampsInv
    <2>3. "edit while loading" \notin seen /\ pc # "stamp"
        BY <2>1, <2>2
    <2>4. \A n \in Modules \ {m} : text'[n] = text[n] /\ mtime'[n] = mtime[n]
        BY <2>1 DEF Sources
    <2>5. mtime[m] \in Nat /\ mtime'[m] = mtime[m] + 1
        BY <2>1 DEF Sources
    <2>6. \A md \in Modes : Listed(stampFile[md])'
        <3> TAKE md \in Modes
        <3>1. ASSUME NEW f \in Stamps, Listed(f) PROVE Listed(f)'
            BY ONLY <2>1, <2>4, <3>1, Sources, m \in Modules, SavedListed
        <3>2. stampFile[md] \in Stamps /\ Listed(stampFile[md]) /\ stampFile' = stampFile
            BY <2>1, <2>3 DEF Files, StampsInv
        <3> QED  BY <3>1, <3>2 DEF Listed
    <2>7. ASSUME pc \in {"analyze", "write", "fill", "stamps"}
          PROVE  /\ \A n \in Modules : stamps[n] = mtime'[n] => text'[n] = loaded.text[n]
                 /\ \A n \in Modules : stamps[n] <= mtime'[n]
        <3>1. \A n \in Modules : stamps[n] \in Nat \cup {-1} /\ stamps[n] <= mtime[n]
                                  /\ (stamps[n] = mtime[n] => text[n] = loaded.text[n])
            BY <2>3, <2>7 DEF StampsInv, Run, Stamps
        <3> QED  BY <2>4, <2>5, <3>1
    <2> QED  BY <2>1, <2>3, <2>6, <2>7 DEF StampsInv
<1>13. ASSUME Configure PROVE StampsInv'
    <2>1. pc' = pc /\ loaded' = loaded /\ stamps' = stamps /\ mode' = mode
        BY <1>13 DEF Configure
    <2>2. text' = text /\ mtime' = mtime /\ stampFile' = stampFile /\ seen \subseteq seen'
        BY <1>13 DEF Configure, Event
    <2> QED  BY <2>1, <2>2, UnsavedListed DEF StampsInv
<1>14. ASSUME Upgrade PROVE StampsInv'
    <2>1. pc' = pc /\ loaded' = loaded /\ stamps' = stamps /\ mode' = mode
        BY <1>14 DEF Upgrade
    <2>2. text' = text /\ mtime' = mtime /\ stampFile' = stampFile /\ seen \subseteq seen'
        BY <1>14 DEF Upgrade, Event
    <2> QED  BY <2>1, <2>2, UnsavedListed DEF StampsInv
<1>15. ASSUME NEW a \in Modules \cup {Runtime}, DeleteArtifact(a) PROVE StampsInv'
    <2>1. pc' = pc /\ loaded' = loaded /\ stamps' = stamps /\ mode' = mode
        BY <1>15 DEF DeleteArtifact
    <2>2. text' = text /\ mtime' = mtime /\ stampFile' = stampFile /\ seen \subseteq seen'
        BY <1>15 DEF DeleteArtifact, Event
    <2> QED  BY <2>1, <2>2, UnsavedListed DEF StampsInv
<1>16. ASSUME Crash PROVE StampsInv'
    <2>1. pc' = "idle"
        BY <1>16 DEF Crash, Finish
    <2>2. text' = text /\ mtime' = mtime /\ stampFile' = stampFile /\ seen \subseteq seen'
        BY <1>16 DEF Crash, Finish, Event
    <2> QED  BY <2>1, <2>2, UnsavedListed DEF StampsInv
<1>17. ASSUME UNCHANGED vars PROVE StampsInv'
    <2>1. pc' = pc /\ loaded' = loaded /\ stamps' = stamps /\ mode' = mode
        BY <1>17 DEF vars, inputs, outputs, run, history
    <2>2. text' = text /\ mtime' = mtime /\ stampFile' = stampFile /\ seen \subseteq seen'
        BY <1>17 DEF vars, inputs, outputs, run, history, Event
    <2> QED  BY <2>1, <2>2, UnsavedListed DEF StampsInv
<1> HIDE DEF inputs, outputs, run, history
<1> QED  BY <1>1, <1>2, <1>3, <1>4, <1>5, <1>6, <1>7, <1>8, <1>9, <1>10, <1>11, <1>12,
            <1>13, <1>14, <1>15, <1>16, <1>17, StepCases
-----------------------------------------------------------------------------
Inv == Sources /\ Versions /\ Run /\ Files

\* What both theorems start from.
LEMMA Invariance == Spec => []Inv
<1>1. Init => Inv
    <2> SUFFICES ASSUME Init PROVE Inv
        OBVIOUS
    <2>0. InitText \in [Modules -> Texts \cup {NoText}] /\ Entry \in Modules
        BY EmitAssumption
    <2>1. Sources /\ Versions
        BY <2>0 DEF Init, Sources, Versions
    <2>2. Run
        BY <2>0 DEF Init, Run, NoStamps, Stamps
    <2>3. Files
        BY DEF Init, Files, NoManifest, NoStamps, Stamps
    <2> QED  BY <2>1, <2>2, <2>3 DEF Inv
<1>2. Inv /\ [Next]_vars => Inv'
    BY SourcesStep, VersionsStep, RunStepKeepsRun, FilesStep DEF Inv
<1> QED  BY <1>1, <1>2, PTL DEF Spec

\* Variables have their types: a run that records has written all it had to,
\* and has a stamp of its entry.
THEOREM TypeCorrect == Spec => []TypeOK
<1>1. Init => History /\ Flag
    <2>0. MaxEvents \in Nat
        BY EmitAssumption
    <2>1. Init => History
        BY <2>0 DEF Init, History
    <2>2. Init => Flag
        BY Zenon DEF Init, Flag
    <2> QED  BY <2>1, <2>2
<1>2. History /\ [Next]_vars => History'
    BY HistoryStep
<1>3. Flag /\ [Next]_vars => Flag'
    BY FlagStep
<1>4. Inv /\ History /\ Flag => TypeOK
    <2> SUFFICES ASSUME Inv, History, Flag PROVE TypeOK
        OBVIOUS
    <2>1. pc \in {"stamps", "manifest", "paths"} => todo = {} /\ stamps[Entry] # -1
        BY DEF Inv, Run
    <2>2. Sources /\ Versions /\ Run /\ Files
        BY DEF Inv
    <2>3. /\ text \in [Modules -> Texts \cup {NoText}] /\ mtime \in [Modules -> Nat]
          /\ config \in Nat /\ compiler \in Nat /\ using \in 0 .. compiler
        BY <2>2, Zenon DEF Sources, Versions
    <2>4. /\ pc \in {"idle", "load", "stamp", "analyze", "write", "fill",
                    "stamps", "manifest", "paths"}
          /\ mode \in Modes
          /\ loaded \in [text : [Modules -> Texts \cup {NoText}], config : Nat]
          /\ stamps \in Stamps
          /\ todo \subseteq Modules \cup {Runtime}
          /\ open \in Modules \cup {Runtime}
        BY ONLY <2>2, Zenon DEF Run
    <2>5. Files /\ History
        BY <2>2
    <2> QED  BY ONLY <2>1, <2>3, <2>4, <2>5, Flag, Zenon
             DEF Files, History, Flag, TypeOK
<1> QED  BY <1>1, <1>2, <1>3, <1>4, Invariance, PTL DEF Spec

\* Stamps between a file's and the modules' agree with both if these agree.
LEMMA StampsAgree ==
    ASSUME NEW f \in Stamps, NEW g \in Stamps, NEW t \in [Modules -> Nat],
           NEW m \in Modules, f[m] \in {-1, t[m]}, f[m] # -1, f[m] <= g[m], g[m] <= t[m]
    PROVE  f[m] = t[m] /\ g[m] = t[m]
<1>1. f[m] \in Int /\ g[m] \in Int /\ t[m] \in Int
    BY DEF Stamps
<1> QED  BY <1>1

\* Whatever is edited, deleted or upgraded, and whenever a run is killed: while
\* it has not recorded the changed sources it was started for, the stamp file in
\* the output directory is out of date.
THEOREM KilledRunIsRedoneHolds == Spec => []KilledRunIsRedone
<1>1. Init => StampsInv
    <2> SUFFICES ASSUME Init PROVE StampsInv
        OBVIOUS
    <2>1. \A md \in Modes : Listed(stampFile[md])
        BY DEF Init, Listed, NoStamps
    <2> QED  BY <2>1 DEF Init, StampsInv
<1>2. Inv /\ StampsInv /\ [Next]_vars => StampsInv'
    BY StampsStep DEF Inv
<1>3. Inv /\ StampsInv => KilledRunIsRedone
    <2> SUFFICES ASSUME Inv, StampsInv, pc \in {"write", "fill", "stamps"},
                        "edit while loading" \notin seen, SourceStampFileCurrent(mode)
                 PROVE  ChangedSources = {}
        BY DEF KilledRunIsRedone, SkipCurrentEmission
    <2> DEFINE f == stampFile[mode]
               G == Graph(loaded.text)
               S == {m \in G : f[m] # -1}
    <2>1. G \subseteq Modules /\ Entry \in G
        BY GraphHasEntry
    <2>2. f[Entry] # -1 /\ \A m \in Modules : f[m] \in {-1, mtime[m]}
        BY DEF SourceStampFileCurrent
    <2>3. \A m \in G : f[m] <= stamps[m] /\ stamps[m] <= mtime[m]
                       /\ (stamps[m] = mtime[m] => text[m] = loaded.text[m])
        BY <2>1 DEF StampsInv
    <2>4. \A m \in S : stamps[m] = mtime[m] /\ f[m] = mtime[m]
                       /\ text[m] = loaded.text[m]
        <3> SUFFICES ASSUME NEW m, m \in G, f[m] # -1
                     PROVE  stamps[m] = mtime[m] /\ f[m] = mtime[m]
                            /\ text[m] = loaded.text[m]
            OBVIOUS
        <3>1. m \in G /\ m \in Modules /\ f[m] # -1
            BY <2>1
        <3>2. f[m] \in {-1, mtime[m]}
            BY <3>1, <2>2
        <3>3. f[m] <= stamps[m] /\ stamps[m] <= mtime[m]
              /\ (stamps[m] = mtime[m] => text[m] = loaded.text[m])
            BY <3>1, <2>3
        <3>4. f \in Stamps /\ stamps \in Stamps /\ mtime \in [Modules -> Nat]
            BY DEF Inv, Files, Run, Sources
        <3>5. f[m] = mtime[m] /\ stamps[m] = mtime[m]
            BY ONLY <3>1, <3>2, <3>3, <3>4, StampsAgree
        <3> QED  BY ONLY <3>3, <3>5
    <2>5. ASSUME NEW m \in S PROVE Edges(loaded.text, m) \subseteq S
        <3>1. Edges(loaded.text, m) = Edges(text, m)
            BY <2>4 DEF Edges
        <3>2. \A n \in Edges(text, m) : f[n] # -1
            BY <2>1, <2>2 DEF StampsInv, Listed, Inv, Run
        <3>3. Edges(loaded.text, m) \subseteq G
            BY EdgesAreModules, GraphIsClosed DEF Inv, Run
        <3> QED  BY <3>1, <3>2, <3>3
    <2>6. G \subseteq S
        BY <2>1, <2>2, <2>5, GraphIsLeast
    <2> QED  BY <2>4, <2>6 DEF ChangedSources
<1> QED  BY <1>1, <1>2, <1>3, Invariance, PTL DEF Spec
-----------------------------------------------------------------------------
(* Sources that agree on what is reached *)

\* What is reached is a set of modules that has those it starts from and what
\* its modules import past the blocked ones.
LEMMA ReachIsClosed ==
    ASSUME NEW src \in [Modules -> Texts \cup {NoText}], NEW from \in SUBSET Modules,
           NEW blocked
    PROVE  /\ from \subseteq ReachAround(src, from, blocked)
           /\ ReachAround(src, from, blocked) \subseteq Modules
           /\ \A m \in ReachAround(src, from, blocked) :
                 Edges(src, m) \ blocked \subseteq ReachAround(src, from, blocked)
BY EdgesAreModules DEF ReachAround

\* It is the least such set.
LEMMA ReachIsLeast ==
    ASSUME NEW src, NEW from, NEW blocked, NEW S \in SUBSET Modules, from \subseteq S,
           \A m \in S : Edges(src, m) \ blocked \subseteq S
    PROVE  ReachAround(src, from, blocked) \subseteq S
BY DEF ReachAround

\* Sources that agree on all that is reached reach the same.
LEMMA SameReach ==
    ASSUME NEW s \in [Modules -> Texts \cup {NoText}],
           NEW t \in [Modules -> Texts \cup {NoText}],
           NEW from \in SUBSET Modules, NEW blocked,
           Agree(s, t, ReachAround(s, from, blocked))
    PROVE  ReachAround(t, from, blocked) = ReachAround(s, from, blocked)
<1> DEFINE R == ReachAround(s, from, blocked)
           Q == ReachAround(t, from, blocked)
<1>1. from \subseteq R /\ R \subseteq Modules /\ \A m \in R : Edges(s, m) \ blocked \subseteq R
    BY ReachIsClosed
<1>2. from \subseteq Q /\ Q \subseteq Modules /\ \A m \in Q : Edges(t, m) \ blocked \subseteq Q
    BY ReachIsClosed
<1>3. \A m \in R : Edges(t, m) = Edges(s, m)
    BY DEF Agree, Edges
<1>4. Q \subseteq R
    <2> HIDE DEF Q, R
    <2>1. \A m \in R : Edges(t, m) \ blocked \subseteq R
        BY <1>1, <1>3
    <2> QED  BY <1>1, <2>1, ReachIsLeast DEF Q
<1>5. R \subseteq Q
    <2> HIDE DEF Q, R
    <2>1. \A m \in Q : Edges(s, m) \ blocked \subseteq Q
        BY <1>2, <1>3, <1>4
    <2> QED  BY <1>2, <2>1, ReachIsLeast DEF R
<1> QED  BY <1>4, <1>5

\* What a module of the graph reaches is in the graph.
LEMMA ReachInGraph ==
    ASSUME NEW src \in [Modules -> Texts \cup {NoText}],
           NEW from \in SUBSET Graph(src), NEW blocked
    PROVE  ReachAround(src, from, blocked) \subseteq Graph(src)
<1>1. Graph(src) \subseteq Modules
    BY GraphHasEntry
<1>2. \A m \in Graph(src) : Edges(src, m) \subseteq Graph(src)
    BY EdgesAreModules, GraphIsClosed
<1> HIDE DEF Graph
<1> QED  BY <1>1, <1>2, ReachIsLeast

\* Sources that agree on the graph of one have the same graph, the same
\* modules in the build, and the same reach from each.
LEMMA SameGraph ==
    ASSUME NEW s \in [Modules -> Texts \cup {NoText}],
           NEW t \in [Modules -> Texts \cup {NoText}], Agree(s, t, Graph(s))
    PROVE  /\ Graph(t) = Graph(s)
           /\ MacroHost(t) = MacroHost(s) /\ Target(t) = Target(s)
           /\ \A from \in SUBSET Graph(s) : Reach(t, from) = Reach(s, from)
<1>1. {Entry} \in SUBSET Modules /\ {Entry} \in SUBSET Graph(s)
    <2>1. Entry \in Modules /\ Entry \in Graph(s)
        BY ONLY EmitAssumption, GraphHasEntry
    <2> QED  BY ONLY <2>1
<1>2. Graph(t) = Graph(s)
    BY <1>1, SameReach DEF Graph, Reach
<1>3. ASSUME NEW from \in SUBSET Graph(s), NEW blocked
      PROVE  ReachAround(t, from, blocked) = ReachAround(s, from, blocked)
    <2>1. ReachAround(s, from, blocked) \subseteq Graph(s)
        BY ReachInGraph
    <2>2. Agree(s, t, ReachAround(s, from, blocked)) /\ from \subseteq Modules
        BY <2>1, GraphHasEntry DEF Agree
    <2> QED  BY <2>2, SameReach
<1>4. MacroHost(t) = MacroHost(s)
    <2> DEFINE defs(src) == {m \in Graph(src) : src[m] \in Macros}
    <2>1. defs(t) = defs(s) /\ defs(s) \in SUBSET Graph(s)
        BY <1>2 DEF Agree
    <2>2. (\A m \in Graph(t) : t[m] \notin Invokers) <=> (\A m \in Graph(s) : s[m] \notin Invokers)
        BY <1>2 DEF Agree
    <2>3. Reach(t, defs(t)) = Reach(s, defs(s))
        BY <1>3, <2>1 DEF Reach
    <2>4. ReachAround(t, {Entry}, defs(t)) = ReachAround(s, {Entry}, defs(s))
        BY <1>1, <1>3, <2>1
    <2> HIDE DEF defs
    <2>5. \A src : MacroHost(src) = IF \A m \in Graph(src) : src[m] \notin Invokers
                 THEN defs(src) ELSE Reach(src, defs(src)) \ ReachAround(src, {Entry}, defs(src))
        BY Zenon DEF MacroHost, defs
    <2> QED  BY <2>1, <2>2, <2>3, <2>4, <2>5
<1>5. Target(t) = Target(s)
    BY <1>2, <1>4 DEF Target
<1> QED  BY <1>2, <1>3, <1>4, <1>5 DEF Reach

\* A module in both graphs whose imports agree is in both builds, or in none,
\* and checks in both, or in none.
LEMMA SameModule ==
    ASSUME DomainsAreStable, NEW s \in PossibleSources, NEW t \in PossibleSources,
           NEW m, m \in Graph(t), m \in Graph(s), Agree(t, s, Reach(t, {m}))
    PROVE  /\ Reach(s, {m}) = Reach(t, {m})
           /\ m \in Target(s) <=> m \in Target(t)
           /\ Checks(s, m) <=> Checks(t, m)
<1>1. /\ s \in [Modules -> Texts \cup {NoText}] /\ t \in [Modules -> Texts \cup {NoText}]
      /\ m \in Modules /\ {m} \in SUBSET Modules
    BY GraphHasEntry DEF PossibleSources
<1>2. Reach(s, {m}) = Reach(t, {m})
    BY <1>1, SameReach DEF Reach
<1>3. m \in MacroHost(t) <=> m \in MacroHost(s)
    BY DEF DomainsAreStable
<1>4. m \in Reach(t, {m}) /\ Edges(t, m) \subseteq Reach(t, {m})
    BY <1>1, ReachIsClosed DEF Reach
<1>5. s[m] = t[m] /\ Edges(s, m) = Edges(t, m) /\ \A n \in Edges(t, m) : s[n] = t[n]
    BY <1>4 DEF Agree, Edges
<1>6. Checks(s, m) <=> Checks(t, m)
    BY <1>5 DEF Checks
<1> QED  BY <1>2, <1>3, <1>6 DEF Target

\* Domains are stable if no module that defines a macro imports another: what
\* only macros need is then the macros.
LEMMA LeafMacrosAreStable ==
    ASSUME \A t \in Macros : Imports[t] = {} PROVE DomainsAreStable
<1> SUFFICES ASSUME NEW s \in PossibleSources, NEW t \in PossibleSources,
                    NEW m \in Graph(s) \cap Graph(t), Agree(s, t, Reach(s, {m}))
             PROVE  m \in MacroHost(s) <=> m \in MacroHost(t)
    BY DEF DomainsAreStable
<1>1. /\ s \in [Modules -> Texts \cup {NoText}] /\ t \in [Modules -> Texts \cup {NoText}]
      /\ m \in Modules /\ {m} \in SUBSET Modules
    BY GraphHasEntry DEF PossibleSources
<1>2. s[m] = t[m]
    BY <1>1, ReachIsClosed DEF Agree, Reach
<1>3. ASSUME NEW src \in PossibleSources, m \in Graph(src), m # Entry
      PROVE  m \in MacroHost(src) <=> src[m] \in Macros
    <2> DEFINE defs == {n \in Graph(src) : src[n] \in Macros}
    <2>1. src \in [Modules -> Texts \cup {NoText}] /\ Graph(src) \subseteq Modules
        BY GraphHasEntry DEF PossibleSources
    <2>2. \A n \in defs : Edges(src, n) = {}
        BY DEF Edges
    <2>3. Reach(src, defs) = defs
        <3>1. defs \in SUBSET Modules
            BY <2>1
        <3> HIDE DEF defs
        <3>2. defs \subseteq ReachAround(src, defs, {})
            BY ONLY <2>1, <3>1, ReachIsClosed
        <3>3. \A n \in defs : Edges(src, n) \ {} \subseteq defs
            BY ONLY <2>2
        <3>4. ReachAround(src, defs, {}) \subseteq defs
            BY ONLY <3>1, <3>3, ReachIsLeast
        <3> QED  BY ONLY <3>2, <3>4 DEF Reach
    <2>4. m \in defs => m \notin ReachAround(src, {Entry}, defs)
        <3>0. SUFFICES ASSUME m \in defs PROVE m \notin ReachAround(src, {Entry}, defs)
            OBVIOUS
        <3> HIDE DEF defs
        <3> DEFINE R == ReachAround(src, {Entry}, defs)
        <3>1. {Entry} \in SUBSET Modules
            BY EmitAssumption
        <3>2. Entry \in R /\ R \subseteq Modules /\ \A n \in R : Edges(src, n) \ defs \subseteq R
            <4>1. /\ {Entry} \subseteq R /\ R \subseteq Modules
                  /\ \A n \in R : Edges(src, n) \ defs \subseteq R
                BY ONLY <2>1, <3>1, ReachIsClosed
            <4> QED  BY ONLY <4>1
        <3> HIDE DEF R
        <3>3. {Entry} \subseteq R \ {m} /\ R \ {m} \in SUBSET Modules
            BY <1>3, <3>2
        <3>4. \A n \in R \ {m} : Edges(src, n) \ defs \subseteq R \ {m}
            BY <3>0, <3>2
        <3>5. ASSUME NEW S \in SUBSET Modules, {Entry} \subseteq S,
                     \A n \in S : Edges(src, n) \ defs \subseteq S
              PROVE  R \subseteq S
            BY ONLY <3>5, ReachIsLeast DEF R
        <3>6. R \subseteq R \ {m}
            BY ONLY <3>3, <3>4, <3>5
        <3> QED  BY <3>0, <3>2, <3>6 DEF R
    <2>5. MacroHost(src) = IF \A n \in Graph(src) : src[n] \notin Invokers
              THEN defs ELSE Reach(src, defs) \ ReachAround(src, {Entry}, defs)
        BY Zenon DEF MacroHost
    <2>6. m \in defs <=> src[m] \in Macros
        BY <1>3
    <2> HIDE DEF defs
    <2> QED  BY <2>3, <2>4, <2>5, <2>6
<1>4. CASE m # Entry
    BY <1>2, <1>3, <1>4
<1>5. CASE m = Entry
    BY <1>1, <1>5, SameGraph DEF Graph
<1> QED  BY <1>4, <1>5
-----------------------------------------------------------------------------
(* What the files of the last run vouch for *)

\* The module an artifact is made from, first of all.
From(a) == IF a = Runtime THEN {Entry} ELSE {a}

OneMode == \A c \in Modes, d \in Modes : c = d

\* What ever happened, by kinds that matter below.
Tame == "edit while loading" \notin seen
Undeleted == Tame /\ "delete" \notin seen
Unedited == seen \cap {"edit", "edit while loading", "edit during run"} = {}
Edited == OneMode /\ seen \subseteq {"edit", "edit during run", "crash"}
Replaced == OneMode /\ seen \subseteq {"delete", "upgrade"}

\* A file may have been deleted under the run.
Deleted == settled = FALSE /\ "delete" \in seen

\* A run has the compiler and the dudu.toml there are, unless they changed
\* under it, and until something happens the sources and stamps; it writes
\* artifacts of its sources, and has one open unless that was deleted.  No
\* manifest is of a compiler still to come.
InRun ==
    /\ text \in PossibleSources /\ loaded.text \in PossibleSources
    /\ \A md \in Modes : manifest[md].compiler <= compiler
    /\ pc # "idle" /\ (settled \/ "upgrade during run" \notin seen) => using = compiler
    /\ pc \notin {"idle", "load"} /\ (settled \/ "configure" \notin seen) =>
          loaded.config = config
    /\ pc \in {"write", "fill"} => todo \subseteq Artifacts(loaded.text)
    /\ pc = "fill" => open \in todo
    /\ pc = "fill" /\ artifact[open] = Missing => Deleted
    /\ pc \in {"manifest", "paths"} => stampFile[mode] = stamps
    /\ settled /\ pc \notin {"idle", "load"} => loaded.text = text
    /\ settled /\ pc \notin {"idle", "load", "stamp"} =>
          \A m \in Modules : stamps[m] \in {-1, mtime[m]}

\* A run keeps this, and so does what happens besides.
LEMMA InRunStep == InRun /\ Sources /\ Versions /\ Run /\ Files /\ [Next]_vars => InRun'
<1> SUFFICES ASSUME InRun, Sources, Versions, Run, Files, [Next]_vars PROVE InRun'
    OBVIOUS
<1> USE DEF inputs, outputs, run, history
<1>1. ASSUME NEW md \in Modes, Begin(md) PROVE InRun'
    BY <1>1 DEF Begin, Finish, InRun
<1>2. ASSUME Load PROVE InRun'
    BY <1>2 DEF Load, Finish, InRun
<1>3. ASSUME Stamp PROVE InRun'
    <2>1. \A m \in Modules : stamps'[m] \in {-1, mtime[m]}
        BY <1>3 DEF Stamp
    <2> QED  BY <1>3, <2>1 DEF Stamp, InRun
<1>4. ASSUME Analyze PROVE InRun'
    <2>1. todo' \subseteq Artifacts(loaded.text)
        BY <1>4, Zenon DEF Analyze, Emitted, Artifacts
    <2> QED  BY <1>4, <2>1 DEF Analyze, Finish, InRun
<1>5. ASSUME NEW a \in Modules \cup {Runtime}, KeepArtifact(a) PROVE InRun'
    BY <1>5 DEF KeepArtifact, InRun
<1>6. ASSUME NEW a \in Modules \cup {Runtime}, TruncateArtifact(a) PROVE InRun'
    <2>1. artifact'[open'] = Torn /\ Torn # Missing
        BY <1>6, EmitAssumption DEF TruncateArtifact, Files
    <2> QED  BY <1>6, <2>1 DEF TruncateArtifact, InRun
<1>7. ASSUME FillArtifact PROVE InRun'
    BY <1>7 DEF FillArtifact, InRun
<1>8. ASSUME TruncateStamps PROVE InRun'
    BY <1>8 DEF TruncateStamps, InRun
<1>9. ASSUME FillStamps PROVE InRun'
    BY <1>9 DEF FillStamps, InRun, Files, Run
<1>10. ASSUME TruncateManifest PROVE InRun'
    <2>1. ASSUME NEW md \in Modes PROVE manifest'[md].compiler <= compiler
        <3>1. manifest'[md] \in {manifest[md], NoManifest}
            BY <1>10 DEF TruncateManifest, Files
        <3>2. NoManifest.compiler = -1 /\ -1 <= compiler
            BY DEF NoManifest, Versions
        <3> QED  BY <3>1, <3>2 DEF InRun
    <2> QED  BY <1>10, <2>1 DEF TruncateManifest, InRun
<1>11. ASSUME FillManifest PROVE InRun'
    <2> DEFINE new == [stamps |-> stampFile[mode], compiler |-> compiler,
                       paths |-> Artifacts(loaded.text)]
    <2>1. ASSUME NEW md \in Modes PROVE manifest'[md].compiler <= compiler
        <3>1. manifest'[md] \in {manifest[md], new}
            BY <1>11 DEF FillManifest, Files
        <3>2. new.compiler = compiler /\ compiler <= compiler
            BY DEF Versions
        <3> HIDE DEF new
        <3> QED  BY <3>1, <3>2 DEF InRun
    <2> QED  BY <1>11, <2>1 DEF FillManifest, Finish, InRun
<1>12. ASSUME NEW m \in Modules, NEW t \in TextsOf[m], Edit(m, t) PROVE InRun'
    <2>1. text' = [text EXCEPT ![m] = t] /\ t \in Texts \cup {NoText}
        BY <1>12, EmitAssumption DEF Edit
    <2>2. text' \in PossibleSources
        BY <2>1 DEF PossibleSources, InRun
    <2>3. /\ UNCHANGED <<config, compiler, outputs, run, pc>> /\ settled' = FALSE
          /\ seen \subseteq seen'
        BY <1>12, Zenon DEF Edit, Event
    <2> QED  BY <2>2, <2>3 DEF InRun, Deleted
<1>13. ASSUME Configure PROVE InRun'
    <2>1. "configure" \in seen' /\ seen \subseteq seen'
        BY <1>13 DEF Configure, Event
    <2> QED  BY <1>13, <2>1 DEF Configure, InRun, Deleted
<1>14. ASSUME Upgrade PROVE InRun'
    <2>1. seen \subseteq seen' /\ (pc # "idle" => "upgrade during run" \in seen')
        BY <1>14 DEF Upgrade, Event
    <2>2. \A md \in Modes : manifest[md].compiler \in Int /\ compiler \in Int
        BY DEF Files, Versions
    <2>a. \A md \in Modes : manifest[md].compiler <= compiler
        BY DEF InRun
    <2>3. \A md \in Modes : manifest[md].compiler <= compiler + 1
        BY <2>2, <2>a
    <2>4. /\ compiler' = compiler + 1 /\ settled' = FALSE
          /\ UNCHANGED <<text, mtime, config, outputs, run, pc>>
        BY <1>14 DEF Upgrade
    <2> QED  BY <2>1, <2>3, <2>4 DEF InRun, Deleted
<1>15. ASSUME NEW a \in Modules \cup {Runtime}, DeleteArtifact(a) PROVE InRun'
    <2>1. "delete" \in seen' /\ seen \subseteq seen'
        BY <1>15 DEF DeleteArtifact, Event
    <2> QED  BY <1>15, <2>1 DEF DeleteArtifact, InRun, Deleted
<1>16. ASSUME Crash PROVE InRun'
    BY <1>16 DEF Crash, Finish, InRun
<1>17. ASSUME UNCHANGED vars PROVE InRun'
    BY <1>17 DEF vars, InRun, Deleted
<1> HIDE DEF inputs, outputs, run, history
<1> QED  BY <1>1, <1>2, <1>3, <1>4, <1>5, <1>6, <1>7, <1>8, <1>9, <1>10, <1>11, <1>12,
            <1>13, <1>14, <1>15, <1>16, <1>17, StepCases
-----------------------------------------------------------------------------
Comparing == pc \in {"analyze", "write", "fill"}

\* The sources a stamp file vouches for: those of the last run that wrote it,
\* which had no module that does not check.  A module that has its stamp, or
\* has it in the index of the run that compares, has that text.
Vouches(md, src) ==
    /\ src \in PossibleSources
    /\ \A m \in Modules : stampFile[md][m] # -1 <=> m \in Graph(src)
    /\ \A m \in Modules : stampFile[md][m] = mtime[m] => src[m] = text[m]
    /\ \A m \in Target(src) : Checks(src, m)
    /\ md = mode /\ Comparing =>
          \A m \in Modules : stampFile[md][m] = stamps[m] /\ stamps[m] # -1 =>
              src[m] = loaded.text[m]

\* Its artifacts exist, unless one was deleted.
Present(src) ==
    "delete" \notin seen => \A a \in Artifacts(src) : artifact[a] # Missing

\* An artifact for which all that it is made from has the stamps of g is right.
Intact(md, src, g) ==
    \A a \in Artifacts(src) :
        (\A n \in Reach(src, From(a)) : stampFile[md][n] = g[n]) =>
            artifact[a] = CleanArtifact(src, config, compiler, mode, a)

Recorded(md, src) ==
    /\ Vouches(md, src)
    /\ Present(src)
    /\ Edited => /\ Intact(md, src, mtime)
                 /\ Comparing => Intact(md, src, stamps)

RecordInv ==
    Tame => \A md \in Modes : stampFile[md] = NoStamps \/ \E src : Recorded(md, src)

\* An artifact is the same for sources that agree on all it is made from.
LEMMA SameArtifact ==
    ASSUME NEW s \in [Modules -> Texts \cup {NoText}],
           NEW t \in [Modules -> Texts \cup {NoText}], NEW a, From(a) \in SUBSET Modules,
           Agree(s, t, Reach(s, From(a))), NEW cfg, NEW comp, NEW md
    PROVE  CleanArtifact(t, cfg, comp, md, a) = CleanArtifact(s, cfg, comp, md, a)
<1>1. Reach(t, From(a)) = Reach(s, From(a))
    BY SameReach DEF Reach
<1>2. [n \in Modules |-> IF n \in Reach(t, From(a)) THEN t[n] ELSE NoText]
      = [n \in Modules |-> IF n \in Reach(s, From(a)) THEN s[n] ELSE NoText]
    BY <1>1 DEF Agree
<1> QED  BY <1>2 DEF CleanArtifact, From

\* A step that saves nothing and writes nothing.
LEMMA RecordedKept ==
    ASSUME NEW md \in Modes, NEW src, Recorded(md, src), mode \in Modes, mode' \in Modes,
           text' = text, mtime' = mtime, artifact' = artifact,
           stampFile'[md] = stampFile[md], seen \subseteq seen',
           Comparing' => Comparing /\ stamps' = stamps /\ loaded' = loaded /\ mode' = mode,
           Edited' => config' = config /\ compiler' = compiler
    PROVE  Recorded(md, src)'
<1>1. Vouches(md, src)'
    BY DEF Recorded, Vouches
<1>2. Present(src)'
    BY DEF Recorded, Present
<1>3. ASSUME Edited' PROVE Intact(md, src, mtime)' /\ (Comparing' => Intact(md, src, stamps)')
    <2>1. Edited /\ mode' = mode
        BY <1>3 DEF Edited, OneMode
    <2> QED  BY <1>3, <2>1 DEF Recorded, Intact
<1> QED  BY <1>1, <1>2, <1>3 DEF Recorded

\* The index takes the stamps of the sources.
LEMMA RecordedStamp ==
    ASSUME NEW md \in Modes, NEW src, Recorded(md, src), Stamp, Tame,
           StampsInv, Sources, Run, Files
    PROVE  Recorded(md, src)'
<1> USE DEF inputs, outputs, history
<1>1. /\ text' = text /\ mtime' = mtime /\ artifact' = artifact /\ stampFile' = stampFile
      /\ seen' = seen /\ mode' = mode /\ config' = config /\ compiler' = compiler
      /\ loaded' = loaded /\ pc = "stamp"
    BY DEF Stamp
<1>2. \A m \in Modules : stamps'[m] = IF m \in Graph(loaded.text) THEN mtime[m] ELSE -1
    BY DEF Stamp
<1>3. loaded.text = text
    BY <1>1 DEF StampsInv, Tame
<1>4. Vouches(md, src)'
    BY <1>1, <1>2, <1>3 DEF Recorded, Vouches
<1>5. Present(src)'
    BY <1>1 DEF Recorded, Present
<1>6. ASSUME Edited' PROVE Intact(md, src, mtime)' /\ Intact(md, src, stamps)'
    <2>1. Edited
        BY <1>1, <1>6 DEF Edited
    <2>2. Intact(md, src, mtime)
        BY <2>1 DEF Recorded
    <2>3. Intact(md, src, mtime)'
        BY <1>1, <2>2 DEF Intact
    <2>4. ASSUME NEW a \in Artifacts(src), \A n \in Reach(src, From(a)) : stampFile[md][n] = stamps'[n]
          PROVE  \A n \in Reach(src, From(a)) : stampFile[md][n] = mtime[n]
        <3>1. Reach(src, From(a)) \subseteq Graph(src)
            <4>1. From(a) \subseteq Graph(src)
                BY <2>4, GraphHasEntry DEF Artifacts, From, Target
            <4> QED  BY <4>1, ReachInGraph DEF Reach, Recorded, Vouches, PossibleSources
        <3>2. \A n \in Reach(src, From(a)) : n \in Modules /\ stampFile[md][n] # -1
            BY <3>1, GraphHasEntry DEF Recorded, Vouches
        <3> QED  BY <1>2, <2>4, <3>2
    <2>5. Intact(md, src, stamps)'
        BY <1>1, <2>2, <2>4 DEF Intact
    <2> QED  BY <2>3, <2>5
<1> QED  BY <1>4, <1>5, <1>6 DEF Recorded

\* Where a module is in the graph of both sources and all it was made from is
\* current, the run's index has the same stamps: they are in between.
LEMMA CurrentIsIndexed ==
    ASSUME NEW src, Vouches(mode, src), Comparing, Tame, StampsInv, Sources, Run, Files,
           NEW from \in SUBSET Modules, from \subseteq Graph(loaded.text),
           \A n \in Reach(src, from) : stampFile[mode][n] = mtime[n]
    PROVE  \A n \in Reach(src, from) : stampFile[mode][n] = stamps[n]
<1> DEFINE R == Reach(src, from)
           G == Graph(loaded.text)
<1>1. /\ src \in [Modules -> Texts \cup {NoText}]
      /\ loaded.text \in [Modules -> Texts \cup {NoText}]
    BY DEF Vouches, PossibleSources, Run
<1>2. from \subseteq R /\ R \subseteq Modules /\ \A n \in R : Edges(src, n) \subseteq R
    BY <1>1, ReachIsClosed DEF Reach
<1>3. \A n \in G : Edges(loaded.text, n) \subseteq G
    BY <1>1, EdgesAreModules, GraphIsClosed
<1>4. G \subseteq Modules
    BY GraphHasEntry
<1>5. ASSUME NEW n \in R \cap G
      PROVE  /\ stampFile[mode][n] = stamps[n]
             /\ Edges(src, n) \subseteq R \cap G
    <2>0. n \in Modules /\ n \in G /\ n \in R
        BY <1>2
    <2>1. pc \in {"analyze", "write", "fill", "stamps"} /\ "edit while loading" \notin seen
        BY DEF Comparing, Tame
    <2>2. stampFile[mode][n] <= stamps[n] /\ stamps[n] <= mtime[n]
          /\ (stamps[n] = mtime[n] => text[n] = loaded.text[n])
        BY <2>0, <2>1 DEF StampsInv
    <2>3. stampFile[mode][n] = mtime[n]
        BY <2>0
    <2>4. stampFile[mode][n] \in Int /\ stamps[n] \in Int /\ mtime[n] \in Int
        BY <2>0 DEF Files, Run, Stamps, Sources
    <2>5. stampFile[mode][n] = stamps[n] /\ stamps[n] = mtime[n]
        BY <2>2, <2>3, <2>4
    <2>6. src[n] = loaded.text[n]
        BY <2>0, <2>2, <2>3, <2>5 DEF Vouches
    <2>7. Edges(src, n) = Edges(loaded.text, n)
        BY <2>6 DEF Edges
    <2> QED  BY <2>0, <2>5, <2>7, <1>2, <1>3
<1>6. R \subseteq R \cap G
    <2>1. R \cap G \in SUBSET Modules /\ from \subseteq R \cap G
        BY <1>2
    <2> HIDE DEF R, G
    <2>2. \A n \in R \cap G : Edges(src, n) \ {} \subseteq R \cap G
        BY <1>5
    <2>3. ASSUME NEW S \in SUBSET Modules, from \subseteq S,
                 \A n \in S : Edges(src, n) \ {} \subseteq S
          PROVE  R \subseteq S
        BY ONLY <2>3, ReachIsLeast DEF R, Reach
    <2> QED  BY <2>1, <2>2, <2>3
<1> QED  BY <1>5, <1>6

\* A generated file is written that was not right, or becomes so.
LEMMA RecordedWrite ==
    ASSUME NEW md \in Modes, NEW src, Recorded(md, src), Tame, StampsInv, Sources, Run, Files,
           Comparing, Comparing',
           text' = text, mtime' = mtime, stampFile' = stampFile, seen' = seen,
           mode' = mode, stamps' = stamps, loaded' = loaded, config' = config,
           compiler' = compiler, Edited => using = compiler /\ loaded.config = config,
           NEW b, b \in Artifacts(loaded.text), NEW v, v # Missing,
           artifact' = [artifact EXCEPT ![b] = v],
           v = Generated(b) \/ artifact[b] # Generated(b)
    PROVE  Recorded(md, src)'
<1>0. b \in Modules \cup {Runtime} /\ src \in [Modules -> Texts \cup {NoText}]
      /\ loaded.text \in [Modules -> Texts \cup {NoText}]
    BY GraphHasEntry DEF Artifacts, Target, Recorded, Vouches, PossibleSources, Run
<1>1. artifact'[b] = v /\ \A a \in Modules \cup {Runtime} : a # b => artifact'[a] = artifact[a]
    BY <1>0 DEF Files
<1>2. Vouches(md, src)'
    BY DEF Recorded, Vouches
<1>3. Present(src)'
    <2>1. Artifacts(src) \subseteq Modules \cup {Runtime}
        BY GraphHasEntry DEF Artifacts, Target
    <2> QED  BY <1>1, <2>1 DEF Recorded, Present
<1>4. ASSUME Edited PROVE Intact(md, src, mtime)' /\ Intact(md, src, stamps)'
    <2>1. md = mode
        BY <1>4 DEF Edited, OneMode, Run
    <2>2. Intact(md, src, mtime) /\ Intact(md, src, stamps)
        BY <1>4 DEF Recorded
    <2>3. From(b) \subseteq Graph(loaded.text) /\ From(b) \in SUBSET Modules
        BY GraphHasEntry DEF Artifacts, From, Target
    <2>4. ASSUME b \in Artifacts(src), \A n \in Reach(src, From(b)) : stampFile[md][n] = stamps[n]
          PROVE  artifact'[b] = CleanArtifact(src, config, compiler, mode, b)
        <3>1. artifact[b] = CleanArtifact(src, config, compiler, mode, b)
            BY <2>2, <2>4 DEF Intact
        <3>2. Reach(src, From(b)) \subseteq Graph(src) /\ Graph(src) \subseteq Modules
            <4>1. From(b) \subseteq Graph(src)
                BY <2>4, GraphHasEntry DEF Artifacts, From, Target
            <4> QED  BY <1>0, <4>1, ReachInGraph, GraphHasEntry DEF Reach
        <3>3. Agree(src, loaded.text, Reach(src, From(b)))
            BY <2>1, <2>4, <3>2 DEF Agree, Recorded, Vouches
        <3>4. Generated(b) = CleanArtifact(src, config, compiler, mode, b)
            BY <1>0, <1>4, <2>3, <3>3, SameArtifact DEF Generated
        <3> QED  BY <1>1, <3>1, <3>4
    <2>5. ASSUME b \in Artifacts(src), \A n \in Reach(src, From(b)) : stampFile[md][n] = mtime[n]
          PROVE  artifact'[b] = CleanArtifact(src, config, compiler, mode, b)
        <3>1. \A n \in Reach(src, From(b)) : stampFile[md][n] = stamps[n]
            BY <2>1, <2>3, <2>5, CurrentIsIndexed DEF Recorded
        <3> QED  BY <2>4, <2>5, <3>1
    <2>6. \A a \in Artifacts(src) : a \in Modules \cup {Runtime}
        BY GraphHasEntry DEF Artifacts, Target
    <2> QED  BY <1>1, <2>2, <2>4, <2>5, <2>6 DEF Intact
<1>5. Edited' => Edited
    BY DEF Edited
<1> QED  BY <1>2, <1>3, <1>4, <1>5 DEF Recorded

\* A module is saved.
LEMMA RecordedEdit ==
    ASSUME NEW md \in Modes, NEW src, Recorded(md, src), Tame, Listed(stampFile[md]),
           Sources, Run, Files, NEW m \in Modules, NEW t,
           text' = [text EXCEPT ![m] = t], mtime' = [mtime EXCEPT ![m] = mtime[m] + 1],
           UNCHANGED <<config, compiler, outputs, run, pc>>, seen \subseteq seen'
    PROVE  Recorded(md, src)'
<1> USE DEF outputs, run
<1>1. \A n \in Modules \ {m} : text'[n] = text[n] /\ mtime'[n] = mtime[n]
    BY DEF Sources
<1>2. stampFile[md][m] # mtime'[m]
    <2>1. stampFile[md][m] \in Int /\ mtime[m] \in Int /\ stampFile[md][m] <= mtime[m]
        BY DEF Files, Stamps, Sources, Listed
    <2> QED  BY <2>1 DEF Sources
<1>3. Vouches(md, src)'
    BY <1>1, <1>2 DEF Recorded, Vouches, Comparing
<1>4. Present(src)'
    BY DEF Recorded, Present
<1>5. ASSUME Edited' PROVE Intact(md, src, mtime)' /\ (Comparing' => Intact(md, src, stamps)')
    <2>1. Intact(md, src, mtime) /\ (Comparing => Intact(md, src, stamps))
        BY <1>5 DEF Recorded, Edited
    <2>2. ASSUME NEW a \in Artifacts(src), \A n \in Reach(src, From(a)) : stampFile[md][n] = mtime'[n]
          PROVE  \A n \in Reach(src, From(a)) : stampFile[md][n] = mtime[n]
        <3>1. Reach(src, From(a)) \subseteq Modules
            BY DEF Reach, ReachAround
        <3> QED  BY <1>1, <1>2, <2>2, <3>1
    <2>3. Intact(md, src, mtime)'
        BY <2>1, <2>2 DEF Intact
    <2> QED  BY <2>1, <2>3 DEF Intact, Comparing
<1> QED  BY <1>3, <1>4, <1>5 DEF Recorded

\* A generated file is deleted.
LEMMA RecordedDelete ==
    ASSUME NEW md \in Modes, NEW src, Recorded(md, src),
           text' = text, mtime' = mtime, stampFile' = stampFile, run' = run, pc' = pc,
           "delete" \in seen'
    PROVE  Recorded(md, src)'
BY DEF Recorded, Vouches, Present, Comparing, Edited, run

\* What a run is about to record: it has checked its modules, and written the
\* artifacts that were not right.  They are still there, unless one was deleted
\* under it.
WrittenInv ==
    pc \in {"write", "fill", "stamps", "manifest", "paths"} =>
        /\ Tame => \A m \in Target(loaded.text) : Checks(loaded.text, m)
        /\ Undeleted \/ (Unedited /\ settled = TRUE) =>
              \A a \in Artifacts(loaded.text) \ todo : artifact[a] # Missing
        /\ Edited \/ Replaced => \A a \in Artifacts(loaded.text) \ todo :
              artifact[a] = Generated(a) \/ (Deleted /\ artifact[a] = Missing)

\* The stamps of the sources at the start.
FirstStamps == [m \in Modules |-> IF m \in Graph(InitText) THEN 0 ELSE -1]

\* While nothing is saved, a stamp file is empty or current, and a run that is
\* about to compare with it has another reason to run.
UneditedInv ==
    Unedited =>
        /\ text = InitText /\ mtime = [m \in Modules |-> 0]
        /\ \A md \in Modes : stampFile[md] \in {NoStamps, FirstStamps}
        /\ pc \notin {"idle", "load"} => loaded.text = InitText
        /\ pc \notin {"idle", "load", "stamp"} => stamps = FirstStamps
        /\ pc \in {"load", "stamp", "analyze"} => ~SkipCurrentEmission(mode)

\* A step that saves nothing has nothing to do with it.
LEMMA UneditedStep ==
    UneditedInv /\ InRun /\ Sources /\ Versions /\ Run /\ Files /\ [Next]_vars
        => UneditedInv'
<1> SUFFICES ASSUME UneditedInv, InRun, Sources, Versions, Run, Files, [Next]_vars
             PROVE  UneditedInv'
    OBVIOUS
<1> USE DEF inputs, outputs, run, history
<1>1. ASSUME NEW md \in Modes, Begin(md) PROVE UneditedInv'
    <2>1. /\ text' = text /\ mtime' = mtime /\ stampFile' = stampFile /\ seen' = seen
          /\ mode' = md /\ pc' \in {"idle", "load"}
          /\ manifest' = manifest /\ artifact' = artifact /\ compiler' = compiler
        BY <1>1 DEF Begin, Finish
    <2>2. pc' = "load" => ~SkipCurrentEmission(md)
        BY <1>1 DEF Begin, Finish
    <2>3. pc' = "load" => ~SkipCurrentEmission(mode)'
        BY <2>1, <2>2 DEF SkipCurrentEmission, SourceStampFileCurrent, ArtifactManifestCurrent
    <2> QED  BY <2>1, <2>3 DEF UneditedInv, Unedited
<1>2. ASSUME Load PROVE UneditedInv'
    <2>1. SkipCurrentEmission(mode)' <=> SkipCurrentEmission(mode)
        BY <1>2 DEF Load, SkipCurrentEmission, SourceStampFileCurrent, ArtifactManifestCurrent
    <2> QED  BY <1>2, <2>1 DEF Load, Finish, UneditedInv, Unedited
<1>3. ASSUME Stamp PROVE UneditedInv'
    <2>1. SkipCurrentEmission(mode)' <=> SkipCurrentEmission(mode)
        BY <1>3 DEF Stamp, SkipCurrentEmission, SourceStampFileCurrent, ArtifactManifestCurrent
    <2>2. /\ text' = text /\ mtime' = mtime /\ stampFile' = stampFile /\ seen' = seen
          /\ pc = "stamp" /\ pc' = "analyze" /\ loaded' = loaded
          /\ stamps' = [m \in Modules |-> IF m \in Graph(loaded.text) THEN mtime[m] ELSE -1]
        BY <1>3 DEF Stamp
    <2>3. Unedited => stamps' = FirstStamps
        BY <2>2 DEF UneditedInv, FirstStamps
    <2> QED  BY <2>1, <2>2, <2>3 DEF UneditedInv, Unedited
<1>4. ASSUME Analyze PROVE UneditedInv'
    BY <1>4 DEF Analyze, Finish, UneditedInv, Unedited
<1>5. ASSUME NEW a \in Modules \cup {Runtime}, KeepArtifact(a) PROVE UneditedInv'
    BY <1>5 DEF KeepArtifact, UneditedInv, Unedited
<1>6. ASSUME NEW a \in Modules \cup {Runtime}, TruncateArtifact(a) PROVE UneditedInv'
    BY <1>6 DEF TruncateArtifact, UneditedInv, Unedited
<1>7. ASSUME FillArtifact PROVE UneditedInv'
    BY <1>7 DEF FillArtifact, UneditedInv, Unedited
<1>8. ASSUME TruncateStamps PROVE UneditedInv'
    BY <1>8 DEF TruncateStamps, UneditedInv, Unedited, Files
<1>9. ASSUME FillStamps PROVE UneditedInv'
    BY <1>9 DEF FillStamps, UneditedInv, Unedited, Files
<1>10. ASSUME TruncateManifest PROVE UneditedInv'
    BY <1>10 DEF TruncateManifest, UneditedInv, Unedited
<1>11. ASSUME FillManifest PROVE UneditedInv'
    BY <1>11 DEF FillManifest, Finish, UneditedInv, Unedited
<1>12. ASSUME NEW m \in Modules, NEW t \in TextsOf[m], Edit(m, t) PROVE UneditedInv'
    BY <1>12 DEF Edit, Event, UneditedInv, Unedited
<1>13. ASSUME Configure PROVE UneditedInv'
    <2>1. /\ text' = text /\ mtime' = mtime /\ UNCHANGED <<outputs, run, pc, compiler>>
          /\ seen \subseteq seen'
        BY <1>13 DEF Configure, Event
    <2>2. SkipCurrentEmission(mode)' <=> SkipCurrentEmission(mode)
        BY <2>1 DEF SkipCurrentEmission, SourceStampFileCurrent, ArtifactManifestCurrent
    <2> QED  BY <2>1, <2>2 DEF UneditedInv, Unedited
<1>14. ASSUME Upgrade PROVE UneditedInv'
    <2>1. /\ text' = text /\ mtime' = mtime /\ UNCHANGED <<outputs, run, pc>>
          /\ compiler' = compiler + 1 /\ seen \subseteq seen'
        BY <1>14 DEF Upgrade, Event
    <2>a. mode \in Modes /\ \A md \in Modes : manifest[md].compiler <= compiler
        BY DEF Run, InRun
    <2>2. manifest[mode].compiler \in Int /\ compiler \in Int
          /\ manifest[mode].compiler <= compiler
        BY <2>a DEF Files, Versions
    <2>3. ~SkipCurrentEmission(mode)'
        BY <2>1, <2>2 DEF SkipCurrentEmission, ArtifactManifestCurrent
    <2> QED  BY <2>1, <2>3 DEF UneditedInv, Unedited
<1>15. ASSUME NEW a \in Modules \cup {Runtime}, DeleteArtifact(a) PROVE UneditedInv'
    <2>1. /\ text' = text /\ mtime' = mtime /\ UNCHANGED <<stampFile, manifest, run, pc, compiler>>
          /\ artifact' = [artifact EXCEPT ![a] = Missing] /\ seen \subseteq seen'
        BY <1>15 DEF DeleteArtifact, Event
    <2>2. \A b \in Modules \cup {Runtime} : artifact'[b] \in {Missing, artifact[b]}
        BY <2>1 DEF Files
    <2>3. manifest[mode].paths \subseteq Modules \cup {Runtime}
        BY DEF Files, Run
    <2>4. SkipCurrentEmission(mode)' => SkipCurrentEmission(mode)
        BY <2>1, <2>2, <2>3
           DEF SkipCurrentEmission, SourceStampFileCurrent, ArtifactManifestCurrent
    <2> QED  BY <2>1, <2>4 DEF UneditedInv, Unedited
<1>16. ASSUME Crash PROVE UneditedInv'
    BY <1>16 DEF Crash, Finish, Event, UneditedInv, Unedited
<1>17. ASSUME UNCHANGED vars PROVE UneditedInv'
    <2>1. SkipCurrentEmission(mode)' <=> SkipCurrentEmission(mode)
        BY <1>17 DEF vars, SkipCurrentEmission, SourceStampFileCurrent, ArtifactManifestCurrent
    <2> QED  BY <1>17, <2>1 DEF vars, UneditedInv, Unedited
<1> HIDE DEF inputs, outputs, run, history
<1> QED  BY <1>1, <1>2, <1>3, <1>4, <1>5, <1>6, <1>7, <1>8, <1>9, <1>10, <1>11, <1>12,
            <1>13, <1>14, <1>15, <1>16, <1>17, StepCases

\* What is not affected has the text, and all it imports has, that the stamp
\* file vouches for.
LEMMA UnaffectedIsRecorded ==
    ASSUME Tame, RecordInv, StampsInv, InRun, Run, Files, pc = "analyze",
           NEW m \in Graph(loaded.text), m \notin AffectedModules
    PROVE  \E src : /\ Recorded(mode, src) /\ m \in Graph(src)
                    /\ Agree(loaded.text, src, Reach(loaded.text, {m}))
                    /\ \A n \in Reach(loaded.text, {m}) : stampFile[mode][n] = stamps[n]
<1> DEFINE R == Reach(loaded.text, {m})
<1>0. loaded.text \in [Modules -> Texts \cup {NoText}] /\ Graph(loaded.text) \subseteq Modules
    BY GraphHasEntry DEF Run
<1>1. m \in R /\ R \subseteq Graph(loaded.text)
    <2>1. {m} \in SUBSET Modules /\ {m} \in SUBSET Graph(loaded.text)
        BY <1>0
    <2> QED  BY <1>0, <2>1, ReachIsClosed, ReachInGraph DEF Reach
<1>2. R \cap ChangedSources = {}
    BY DEF AffectedModules, AffectedModulesForSources
<1>3. \A n \in R : stampFile[mode][n] = stamps[n] /\ stamps[n] # -1
    BY <1>0, <1>1, <1>2 DEF ChangedSources, StampsInv, Tame
<1>4. stampFile[mode] # NoStamps
    BY <1>0, <1>1, <1>3 DEF NoStamps
<1>5. PICK src : Recorded(mode, src)
    BY <1>4 DEF RecordInv, Run
<1>6. Agree(loaded.text, src, R)
    BY <1>0, <1>1, <1>3, <1>5 DEF Agree, Recorded, Vouches, Comparing
<1>7. m \in Graph(src)
    BY <1>0, <1>1, <1>3, <1>5 DEF Recorded, Vouches
<1> QED  BY <1>3, <1>5, <1>6, <1>7

\* While nothing is saved, a run that compares finds all of it affected.
LEMMA UneditedIsAffected ==
    ASSUME Unedited, UneditedInv, Run, pc = "analyze"
    PROVE  AffectedModules = Graph(loaded.text)
<1> DEFINE G == Graph(loaded.text)
<1>1. /\ loaded.text = InitText /\ stamps = FirstStamps /\ mtime = [m \in Modules |-> 0]
      /\ stampFile[mode] \in {NoStamps, FirstStamps} /\ ~SkipCurrentEmission(mode)
    BY DEF UneditedInv, Run
<1>2. Entry \in G /\ G \subseteq Modules /\ Entry \in Modules
    BY GraphHasEntry, EmitAssumption
<1>3. CASE stampFile[mode] = NoStamps
    <2>1. ChangedSources = G
        BY <1>1, <1>2, <1>3 DEF ChangedSources, NoStamps, FirstStamps
    <2>2. \A m \in G : m \in Reach(loaded.text, {m})
        BY <1>2 DEF Reach, ReachAround
    <2> QED  BY <1>2, <2>1, <2>2 DEF AffectedModules, AffectedModulesForSources
<1>4. CASE stampFile[mode] = FirstStamps
    <2>1. ChangedSources = {}
        BY <1>1, <1>4 DEF ChangedSources
    <2>2. SourceStampFileCurrent(mode)
        BY <1>1, <1>2, <1>4 DEF SourceStampFileCurrent, FirstStamps
    <2> QED  BY <1>1, <2>1, <2>2 DEF AffectedModules, SkipCurrentEmission
<1> QED  BY <1>1, <1>3, <1>4

\* What the analysis leaves alone is checked, there and right.
LEMMA AnalyzedIsWritten ==
    ASSUME DomainsAreStable, Analyze, pc' = "write",
           RecordInv, UneditedInv, StampsInv, InRun, Run, Files
    PROVE  /\ Tame => \A m \in Target(loaded.text) : Checks(loaded.text, m)
           /\ Undeleted \/ Unedited =>
                 \A a \in Artifacts(loaded.text) \ todo' : artifact[a] # Missing
           /\ Edited \/ Replaced =>
                 \A a \in Artifacts(loaded.text) \ todo' : artifact[a] = Generated(a)
<1> DEFINE G == Graph(loaded.text)
<1>1. /\ pc = "analyze"
      /\ todo' = IF AffectedModules = {} THEN {} ELSE Emitted \cup {Runtime}
      /\ \A m \in Analyzed : Checks(loaded.text, m)
    BY DEF Analyze, Finish
<1>2. /\ loaded.text \in [Modules -> Texts \cup {NoText}]
      /\ G \subseteq Modules /\ Entry \in G /\ Target(loaded.text) \subseteq G
    BY GraphHasEntry DEF Run, Target
<1>3. ASSUME Tame, NEW m \in Target(loaded.text) PROVE Checks(loaded.text, m)
    <2>1. CASE m \in Analyzed
        BY <1>1, <2>1
    <2>2. CASE m \notin Analyzed
        <3>1. m \notin AffectedModules
            BY <1>3, <2>2 DEF Analyzed, Emitted
        <3>2. PICK src : /\ Recorded(mode, src) /\ m \in Graph(src)
                         /\ Agree(loaded.text, src, Reach(loaded.text, {m}))
            BY <1>1, <1>2, <1>3, <3>1, UnaffectedIsRecorded
        <3>3. src \in PossibleSources /\ loaded.text \in PossibleSources
            BY <3>2 DEF Recorded, Vouches, InRun
        <3>4. (m \in Target(src) <=> m \in Target(loaded.text))
              /\ (Checks(src, m) <=> Checks(loaded.text, m))
            BY <1>2, <1>3, <3>2, <3>3, SameModule
        <3> QED  BY <1>3, <3>2, <3>4 DEF Recorded, Vouches
    <2> QED  BY <2>1, <2>2
<1>4. ASSUME Unedited PROVE Artifacts(loaded.text) \ todo' = {}
    <2>1. AffectedModules = G /\ Emitted = Target(loaded.text)
        BY <1>1, <1>4, UneditedIsAffected DEF Emitted, Target
    <2> QED  BY <1>1, <1>2, <2>1 DEF Artifacts
<1>5. ASSUME Tame, NEW a \in Artifacts(loaded.text) \ todo'
      PROVE  \E src : Recorded(mode, src) /\ a \in Artifacts(src)
                 /\ Agree(loaded.text, src, Reach(loaded.text, From(a)))
                 /\ Reach(src, From(a)) = Reach(loaded.text, From(a))
                 /\ \A n \in Reach(src, From(a)) : stampFile[mode][n] = stamps[n]
    <2> DEFINE m == IF a = Runtime THEN Entry ELSE a
    <2>1. From(a) = {m} /\ m \in G
        BY <1>2, <1>5 DEF From, Artifacts
    <2>2. m \notin AffectedModules
        BY <1>1, <1>2, <1>5, <2>1 DEF Artifacts, Emitted
    <2> HIDE DEF m
    <2>3. PICK src : /\ Recorded(mode, src) /\ m \in Graph(src)
                     /\ Agree(loaded.text, src, Reach(loaded.text, {m}))
                     /\ \A n \in Reach(loaded.text, {m}) : stampFile[mode][n] = stamps[n]
        BY <1>1, <1>5, <2>1, <2>2, UnaffectedIsRecorded
    <2>4. src \in PossibleSources /\ loaded.text \in PossibleSources
        BY <2>3 DEF Recorded, Vouches, InRun
    <2>5. Reach(src, {m}) = Reach(loaded.text, {m})
          /\ (m \in Target(src) <=> m \in Target(loaded.text))
        BY <2>1, <2>3, <2>4, SameModule
    <2>6. a \in Artifacts(src)
        BY <1>5, <2>5 DEF Artifacts, m
    <2> QED  BY <2>1, <2>3, <2>5, <2>6
<1>6. ASSUME Undeleted, NEW a \in Artifacts(loaded.text) \ todo' PROVE artifact[a] # Missing
    <2>1. PICK src : Recorded(mode, src) /\ a \in Artifacts(src)
        BY <1>5, <1>6 DEF Undeleted
    <2> QED  BY <1>6, <2>1 DEF Recorded, Present, Undeleted
<1>7. ASSUME Edited, NEW a \in Artifacts(loaded.text) \ todo' PROVE artifact[a] = Generated(a)
    <2>0. Tame
        BY <1>7 DEF Edited, Tame
    <2>1. PICK src : /\ Recorded(mode, src) /\ a \in Artifacts(src)
                     /\ Agree(loaded.text, src, Reach(loaded.text, From(a)))
                     /\ \A n \in Reach(src, From(a)) : stampFile[mode][n] = stamps[n]
        BY <1>5, <1>7, <2>0
    <2>2. artifact[a] = CleanArtifact(src, config, compiler, mode, a)
        BY <1>1, <1>7, <2>1 DEF Recorded, Intact, Comparing
    <2>3. From(a) \in SUBSET Modules /\ src \in [Modules -> Texts \cup {NoText}]
        BY <1>2, <1>7, <2>1, EmitAssumption
           DEF From, Artifacts, Recorded, Vouches, PossibleSources
    <2>4. CleanArtifact(src, config, compiler, mode, a)
          = CleanArtifact(loaded.text, config, compiler, mode, a)
        BY <1>2, <2>1, <2>3, SameArtifact
    <2>5. loaded.config = config /\ using = compiler
        BY <1>1, <1>7 DEF InRun, Edited
    <2> QED  BY <2>2, <2>4, <2>5 DEF Generated
<1>8. Replaced => Unedited
    BY DEF Replaced, Unedited
<1> QED  BY <1>3, <1>4, <1>6, <1>7, <1>8

\* What happened is not forgotten.
LEMMA SeenGrows == [Next]_vars => seen \subseteq seen'
<1> SUFFICES ASSUME [Next]_vars PROVE seen \subseteq seen'
    OBVIOUS
<1> USE DEF inputs, outputs, run, history
<1>1. \A md \in Modes : Begin(md) => seen \subseteq seen'
    BY DEF Begin
<1>2. Load => seen \subseteq seen'
    BY DEF Load
<1>3. Stamp => seen \subseteq seen'
    BY DEF Stamp
<1>4. Analyze => seen \subseteq seen'
    BY DEF Analyze
<1>5. \A a \in Modules \cup {Runtime} : KeepArtifact(a) => seen \subseteq seen'
    BY DEF KeepArtifact
<1>6. \A a \in Modules \cup {Runtime} : TruncateArtifact(a) => seen \subseteq seen'
    BY DEF TruncateArtifact
<1>7. FillArtifact => seen \subseteq seen'
    BY DEF FillArtifact
<1>8. TruncateStamps \/ FillStamps \/ TruncateManifest \/ FillManifest => seen \subseteq seen'
    BY DEF TruncateStamps, FillStamps, TruncateManifest, FillManifest
<1>9. \A m \in Modules : \A t \in TextsOf[m] : Edit(m, t) => seen \subseteq seen'
    BY DEF Edit, Event
<1>10. \A a \in Modules \cup {Runtime} : DeleteArtifact(a) => seen \subseteq seen'
    BY DEF DeleteArtifact, Event
<1>11. Configure \/ Upgrade \/ Crash => seen \subseteq seen'
    BY DEF Configure, Upgrade, Crash, Event
<1>12. UNCHANGED vars => seen \subseteq seen'
    BY DEF vars
<1> HIDE DEF inputs, outputs, run, history
<1> QED  BY <1>1, <1>2, <1>3, <1>4, <1>5, <1>6, <1>7, <1>8, <1>9, <1>10, <1>11, <1>12, StepCases

\* So what did not happen has not happened before.
LEMMA KindsAreKept ==
    ASSUME seen \subseteq seen'
    PROVE  /\ Tame' => Tame
           /\ Undeleted' => Undeleted
           /\ Unedited' => Unedited
           /\ Edited' => Edited
           /\ Replaced' => Replaced
BY DEF Tame, Undeleted, Unedited, Edited, Replaced, OneMode

\* What a run is about to record stays so until it has.
LEMMA WrittenStep ==
    DomainsAreStable /\ WrittenInv /\ RecordInv /\ UneditedInv /\ StampsInv /\ InRun
        /\ Sources /\ Versions /\ Run /\ Files /\ [Next]_vars => WrittenInv'
<1> SUFFICES ASSUME DomainsAreStable, WrittenInv, RecordInv, UneditedInv, StampsInv, InRun,
                    Sources, Versions, Run, Files, [Next]_vars
             PROVE  WrittenInv'
    OBVIOUS
<1> USE DEF inputs, outputs, run, history
<1>a. Tame' => Tame
    BY SeenGrows, KindsAreKept
<1>b. (Undeleted' => Undeleted) /\ (Unedited' => Unedited)
    BY SeenGrows, KindsAreKept
<1>c. (Edited' => Edited) /\ (Replaced' => Replaced)
    BY SeenGrows, KindsAreKept
<1>d. Deleted => ~Undeleted /\ ~Edited /\ (settled' \in {FALSE, settled} => Deleted')
    BY SeenGrows DEF Edited, Undeleted, Deleted
<1>0. ASSUME pc \in {"write", "fill", "stamps", "manifest", "paths"},
             loaded' = loaded, artifact' = artifact, using' = using, mode' = mode,
             settled' \in {FALSE, settled},
             \A a \in Artifacts(loaded.text) : a \in todo /\ a \notin todo' =>
                 artifact[a] # Missing /\ artifact[a] = Generated(a)
      PROVE  WrittenInv'
    <2>1. \A a : Generated(a)' = Generated(a)
        BY <1>0 DEF Generated
    <2>2. (settled' = TRUE => settled = TRUE) /\ (Deleted => Deleted')
        BY <1>0, <1>d
    <2>3. Tame' => \A m \in Target(loaded.text) : Checks(loaded.text, m)
        BY <1>0, <1>a DEF WrittenInv
    <2>4. Undeleted' \/ (Unedited' /\ settled' = TRUE) =>
              \A a \in Artifacts(loaded.text) \ todo' : artifact[a] # Missing
        BY <1>0, <1>b, <2>2 DEF WrittenInv
    <2>5. Edited' \/ Replaced' => \A a \in Artifacts(loaded.text) \ todo' :
              artifact[a] = Generated(a) \/ (Deleted' /\ artifact[a] = Missing)
        BY <1>0, <1>c, <2>2 DEF WrittenInv
    <2> QED  BY <1>0, <2>1, <2>3, <2>4, <2>5 DEF WrittenInv
<1>00. ASSUME NEW b \in Modules \cup {Runtime},
              pc \in {"write", "fill"}, loaded' = loaded, using' = using, mode' = mode,
              settled' = settled,
              \A a \in Modules \cup {Runtime} : a # b => artifact'[a] = artifact[a],
              \/ b \in todo' /\ todo' = todo
              \/ artifact'[b] = Generated(b) /\ todo' = todo \ {b}
              \/ artifact'[b] = Missing /\ todo' = todo \ {b} /\ Deleted
       PROVE  WrittenInv'
    <2>1. \A a : Generated(a)' = Generated(a)
        BY <1>00 DEF Generated
    <2>2. \A a \in Artifacts(loaded.text) : a \in Modules \cup {Runtime}
        BY GraphHasEntry DEF Artifacts, Target
    <2>3. Generated(b) # Missing
        BY GeneratedIsContent, EmitAssumption
    <2>4. (settled' = TRUE => settled = TRUE) /\ (Deleted => Deleted')
        BY <1>00, <1>d
    <2>5. Tame' => \A m \in Target(loaded.text) : Checks(loaded.text, m)
        BY <1>00, <1>a DEF WrittenInv
    <2>6. ASSUME Undeleted' \/ (Unedited' /\ settled' = TRUE),
                 NEW a \in Artifacts(loaded.text) \ todo'
          PROVE  artifact'[a] # Missing
        <3>1. /\ Undeleted \/ (Unedited /\ settled = TRUE)
              /\ ~Deleted
            BY <1>b, <1>d, <2>4, <2>6 DEF Deleted
        <3> QED  BY <1>00, <2>2, <2>3, <2>6, <3>1 DEF WrittenInv
    <2>7. ASSUME Edited' \/ Replaced', NEW a \in Artifacts(loaded.text) \ todo'
          PROVE  artifact'[a] = Generated(a) \/ (Deleted' /\ artifact'[a] = Missing)
        BY <1>00, <1>c, <2>2, <2>4, <2>7 DEF WrittenInv
    <2> QED  BY <1>00, <2>1, <2>5, <2>6, <2>7 DEF WrittenInv
<1>1. ASSUME NEW md \in Modes, Begin(md) PROVE WrittenInv'
    BY <1>1 DEF Begin, Finish, WrittenInv
<1>2. ASSUME Load PROVE WrittenInv'
    BY <1>2 DEF Load, Finish, WrittenInv
<1>3. ASSUME Stamp PROVE WrittenInv'
    BY <1>3 DEF Stamp, WrittenInv
<1>4. ASSUME Analyze PROVE WrittenInv'
    <2>1. CASE pc' = "write"
        <3>1. \A a : Generated(a)' = Generated(a)
            BY <1>4 DEF Analyze, Generated
        <3>2. loaded' = loaded /\ artifact' = artifact /\ settled' = settled
            BY <1>4 DEF Analyze
        <3>3. /\ Tame => \A m \in Target(loaded.text) : Checks(loaded.text, m)
              /\ Undeleted \/ Unedited =>
                    \A a \in Artifacts(loaded.text) \ todo' : artifact[a] # Missing
              /\ Edited \/ Replaced =>
                    \A a \in Artifacts(loaded.text) \ todo' : artifact[a] = Generated(a)
            BY <1>4, <2>1, AnalyzedIsWritten
        <3> QED  BY <1>a, <1>b, <1>c, <3>1, <3>2, <3>3 DEF WrittenInv
    <2>2. CASE pc' # "write"
        BY <1>4, <2>2 DEF Analyze, Finish, WrittenInv
    <2> QED  BY <2>1, <2>2
<1>5. ASSUME NEW a \in Modules \cup {Runtime}, KeepArtifact(a) PROVE WrittenInv'
    <2>1. artifact[a] = Generated(a) /\ Generated(a) # Missing
        BY <1>5, GeneratedIsContent, EmitAssumption DEF KeepArtifact
    <2> QED  BY <1>0, <1>5, <2>1 DEF KeepArtifact
<1>6. ASSUME NEW a \in Modules \cup {Runtime}, TruncateArtifact(a) PROVE WrittenInv'
    <2>1. /\ pc = "write" /\ loaded' = loaded /\ using' = using /\ mode' = mode
          /\ settled' = settled /\ a \in todo' /\ todo' = todo
          /\ \A b \in Modules \cup {Runtime} : b # a => artifact'[b] = artifact[b]
        BY <1>6 DEF TruncateArtifact, Files
    <2> QED  BY <1>00, <2>1
<1>7. ASSUME FillArtifact PROVE WrittenInv'
    <2>1. open \in Modules \cup {Runtime}
        BY DEF Run
    <2>2. /\ pc = "fill" /\ loaded' = loaded /\ using' = using /\ mode' = mode
          /\ settled' = settled /\ todo' = todo \ {open}
          /\ artifact' = [artifact EXCEPT ![open] =
                              IF artifact[open] = Missing THEN Missing ELSE Generated(open)]
        BY <1>7 DEF FillArtifact
    <2>3. /\ artifact'[open] = IF artifact[open] = Missing THEN Missing ELSE Generated(open)
          /\ \A b \in Modules \cup {Runtime} : b # open => artifact'[b] = artifact[b]
        BY <2>1, <2>2 DEF Files
    <2>4. artifact[open] = Missing => Deleted
        BY <2>2 DEF InRun
    <2> QED  BY <1>00, <2>1, <2>2, <2>3, <2>4
<1>8. ASSUME TruncateStamps PROVE WrittenInv'
    BY <1>0, <1>8 DEF TruncateStamps
<1>9. ASSUME FillStamps PROVE WrittenInv'
    BY <1>0, <1>9 DEF FillStamps
<1>10. ASSUME TruncateManifest PROVE WrittenInv'
    BY <1>0, <1>10 DEF TruncateManifest
<1>11. ASSUME FillManifest PROVE WrittenInv'
    BY <1>11 DEF FillManifest, Finish, WrittenInv
<1>12. ASSUME NEW m \in Modules, NEW t \in TextsOf[m], Edit(m, t) PROVE WrittenInv'
    <2>1. pc' = pc /\ loaded' = loaded /\ artifact' = artifact /\ using' = using
          /\ mode' = mode /\ todo' = todo /\ settled' = FALSE
        BY <1>12 DEF Edit
    <2>2. CASE pc \in {"write", "fill", "stamps", "manifest", "paths"}
        BY <1>0, <2>1, <2>2
    <2>3. CASE pc \notin {"write", "fill", "stamps", "manifest", "paths"}
        BY <2>1, <2>3 DEF WrittenInv
    <2> QED  BY <2>2, <2>3
<1>13. ASSUME Configure PROVE WrittenInv'
    <2>1. pc' = pc /\ loaded' = loaded /\ artifact' = artifact /\ using' = using
          /\ mode' = mode /\ todo' = todo /\ settled' = FALSE
        BY <1>13 DEF Configure
    <2>2. CASE pc \in {"write", "fill", "stamps", "manifest", "paths"}
        BY <1>0, <2>1, <2>2
    <2>3. CASE pc \notin {"write", "fill", "stamps", "manifest", "paths"}
        BY <2>1, <2>3 DEF WrittenInv
    <2> QED  BY <2>2, <2>3
<1>14. ASSUME Upgrade PROVE WrittenInv'
    <2>1. pc' = pc /\ loaded' = loaded /\ artifact' = artifact /\ using' = using
          /\ mode' = mode /\ todo' = todo /\ settled' = FALSE
        BY <1>14 DEF Upgrade
    <2>2. CASE pc \in {"write", "fill", "stamps", "manifest", "paths"}
        BY <1>0, <2>1, <2>2
    <2>3. CASE pc \notin {"write", "fill", "stamps", "manifest", "paths"}
        BY <2>1, <2>3 DEF WrittenInv
    <2> QED  BY <2>2, <2>3
<1>15. ASSUME NEW a \in Modules \cup {Runtime}, DeleteArtifact(a) PROVE WrittenInv'
    <2>1. /\ pc' = pc /\ loaded' = loaded /\ using' = using /\ mode' = mode /\ todo' = todo
          /\ settled' = FALSE /\ artifact' = [artifact EXCEPT ![a] = Missing]
          /\ "delete" \in seen'
        BY <1>15 DEF DeleteArtifact, Event
    <2>2. ~Undeleted' /\ ~Edited'
        BY <2>1 DEF Undeleted, Edited
    <2>3. \A b : Generated(b)' = Generated(b)
        BY <2>1 DEF Generated
    <2>4. \A b \in Artifacts(loaded.text) : b \in Modules \cup {Runtime}
        BY GraphHasEntry DEF Artifacts, Target
    <2>5. \A b \in Modules \cup {Runtime} : artifact'[b] \in {Missing, artifact[b]}
        BY <2>1 DEF Files
    <2> QED  BY <1>a, <1>c, <2>1, <2>2, <2>3, <2>4, <2>5 DEF WrittenInv, Deleted
<1>16. ASSUME Crash PROVE WrittenInv'
    BY <1>16 DEF Crash, Finish, WrittenInv
<1>17. ASSUME UNCHANGED vars PROVE WrittenInv'
    <2>1. pc' = pc /\ loaded' = loaded /\ artifact' = artifact /\ using' = using
          /\ mode' = mode /\ todo' = todo /\ settled' = settled
        BY <1>17 DEF vars
    <2>2. CASE pc \in {"write", "fill", "stamps", "manifest", "paths"}
        BY <1>0, <2>1, <2>2
    <2>3. CASE pc \notin {"write", "fill", "stamps", "manifest", "paths"}
        BY <2>1, <2>3 DEF WrittenInv
    <2> QED  BY <2>2, <2>3
<1> HIDE DEF inputs, outputs, run, history
<1> QED  BY <1>1, <1>2, <1>3, <1>4, <1>5, <1>6, <1>7, <1>8, <1>9, <1>10, <1>11, <1>12,
            <1>13, <1>14, <1>15, <1>16, <1>17, StepCases

\* The stamp files go on vouching for sources, or have new ones to.
LEMMA RecordStep ==
    RecordInv /\ WrittenInv /\ StampsInv /\ InRun
        /\ Sources /\ Versions /\ Run /\ Files /\ [Next]_vars => RecordInv'
<1> SUFFICES ASSUME RecordInv, WrittenInv, StampsInv, InRun,
                    Sources, Versions, Run, Files, [Next]_vars
             PROVE  RecordInv'
    OBVIOUS
<1> USE DEF inputs, outputs, run, history
<1>a. seen \subseteq seen'
    BY SeenGrows
<1>b. Run'
    BY RunStepKeepsRun
<1>0. ASSUME stampFile' = stampFile,
             \A md \in Modes : \A src : Tame /\ Recorded(md, src) => Recorded(md, src)'
      PROVE  RecordInv'
    BY <1>0, <1>a, KindsAreKept DEF RecordInv
<1>00. ASSUME text' = text, mtime' = mtime, artifact' = artifact, stampFile' = stampFile,
              Comparing' => Comparing /\ stamps' = stamps /\ loaded' = loaded /\ mode' = mode,
              Edited' => config' = config /\ compiler' = compiler
       PROVE  RecordInv'
    <2>1. ASSUME NEW md \in Modes, NEW src, Recorded(md, src) PROVE Recorded(md, src)'
        BY <1>00, <1>a, <1>b, <2>1, RecordedKept DEF Run
    <2> QED  BY <1>0, <1>00, <2>1
<1>000. ASSUME NEW b \in Artifacts(loaded.text), NEW v, v # Missing,
               pc \in {"write", "fill"}, pc' \in {"write", "fill"},
               artifact' = [artifact EXCEPT ![b] = v],
               v = Generated(b) \/ artifact[b] # Generated(b),
               text' = text, mtime' = mtime, stampFile' = stampFile, seen' = seen,
               mode' = mode, stamps' = stamps, loaded' = loaded, config' = config,
               compiler' = compiler
        PROVE  RecordInv'
    <2>1. Comparing /\ Comparing' /\ (Edited => using = compiler /\ loaded.config = config)
        BY <1>000 DEF Comparing, InRun, Edited
    <2>2. ASSUME NEW md \in Modes, NEW src, Tame, Recorded(md, src) PROVE Recorded(md, src)'
        BY <1>000, <2>1, <2>2, RecordedWrite
    <2> QED  BY <1>0, <1>000, <2>2
<1>1. ASSUME NEW md \in Modes, Begin(md) PROVE RecordInv'
    BY <1>00, <1>1 DEF Begin, Finish, Comparing
<1>2. ASSUME Load PROVE RecordInv'
    BY <1>00, <1>2 DEF Load, Finish, Comparing
<1>3. ASSUME Stamp PROVE RecordInv'
    <2>1. ASSUME NEW md \in Modes, NEW src, Tame, Recorded(md, src) PROVE Recorded(md, src)'
        BY <1>3, <2>1, RecordedStamp
    <2> QED  BY <1>0, <1>3, <2>1 DEF Stamp
<1>4. ASSUME Analyze PROVE RecordInv'
    BY <1>00, <1>4 DEF Analyze, Finish, Comparing
<1>5. ASSUME NEW a \in Modules \cup {Runtime}, KeepArtifact(a) PROVE RecordInv'
    BY <1>00, <1>5 DEF KeepArtifact, Comparing
<1>6. ASSUME NEW a \in Modules \cup {Runtime}, TruncateArtifact(a) PROVE RecordInv'
    <2>1. a \in Artifacts(loaded.text) /\ Torn # Missing
        BY <1>6, EmitAssumption DEF TruncateArtifact, InRun
    <2> QED  BY <1>000, <1>6, <2>1 DEF TruncateArtifact
<1>7. ASSUME FillArtifact PROVE RecordInv'
    <2>1. open \in Artifacts(loaded.text) /\ Generated(open) # Missing
        BY <1>7, GeneratedIsContent, EmitAssumption DEF FillArtifact, InRun
    <2>2. CASE artifact[open] = Missing
        <3>1. artifact' = artifact
            BY <1>7, <2>2 DEF FillArtifact, Files, Run
        <3> QED  BY <1>00, <1>7, <3>1 DEF FillArtifact, Comparing
    <2>3. CASE artifact[open] # Missing
        <3>1. artifact' = [artifact EXCEPT ![open] = Generated(open)]
            BY <1>7, <2>3 DEF FillArtifact
        <3> QED  BY <1>000, <1>7, <2>1, <3>1 DEF FillArtifact
    <2> QED  BY <2>2, <2>3
<1>8. ASSUME TruncateStamps PROVE RecordInv'
    <2>1. /\ text' = text /\ mtime' = mtime /\ artifact' = artifact /\ pc' = "stamps"
          /\ stampFile' = [stampFile EXCEPT ![mode] = NoStamps]
          /\ config' = config /\ compiler' = compiler
        BY <1>8 DEF TruncateStamps
    <2>2. stampFile'[mode] = NoStamps /\ \A md \in Modes \ {mode} : stampFile'[md] = stampFile[md]
        BY <2>1 DEF Files, Run
    <2>3. ASSUME NEW md \in Modes \ {mode}, NEW src, Recorded(md, src) PROVE Recorded(md, src)'
        BY <1>a, <1>b, <2>1, <2>2, <2>3, RecordedKept DEF Run, Comparing
    <2>4. Tame' => Tame
        BY <1>a, KindsAreKept
    <2> QED  BY <2>2, <2>3, <2>4 DEF RecordInv
<1>9. ASSUME FillStamps PROVE RecordInv'
    <2>1. /\ text' = text /\ mtime' = mtime /\ artifact' = artifact
          /\ pc = "stamps" /\ pc' = "manifest" /\ mode' = mode
          /\ stampFile' = [stampFile EXCEPT ![mode] = stamps]
          /\ config' = config /\ compiler' = compiler /\ seen' = seen
        BY <1>9 DEF FillStamps
    <2>2. stampFile'[mode] = stamps /\ \A md \in Modes \ {mode} : stampFile'[md] = stampFile[md]
        BY <2>1 DEF Files, Run
    <2>3. ASSUME NEW md \in Modes \ {mode}, NEW src, Recorded(md, src) PROVE Recorded(md, src)'
        BY <1>a, <1>b, <2>1, <2>2, <2>3, RecordedKept DEF Run, Comparing
    <2>4. ASSUME Tame, NEW md \in Modes, NEW src, md = mode, src = loaded.text
          PROVE  Recorded(md, src)'
        <3>1. Vouches(md, src)'
            <4>1. /\ \A m \in Modules : stamps[m] # -1 <=> m \in Graph(loaded.text)
                  /\ \A m \in Modules : stamps[m] = mtime[m] => text[m] = loaded.text[m]
                BY <2>1, <2>4 DEF StampsInv, Tame
            <4>2. src \in PossibleSources
                BY <2>4 DEF InRun
            <4>3. \A m \in Target(src) : Checks(src, m)
                BY <2>1, <2>4 DEF WrittenInv
            <4> QED  BY <2>1, <2>2, <2>4, <4>1, <4>2, <4>3 DEF Vouches, Comparing
        <3>2. todo = {}
            BY <2>1 DEF Run
        <3>3. Present(src)'
            BY <2>1, <2>4, <3>2 DEF Present, WrittenInv, Undeleted
        <3>4. Edited' => Intact(md, src, mtime)'
            <4> SUFFICES ASSUME Edited PROVE Intact(md, src, mtime)'
                BY <2>1 DEF Edited
            <4>1. using = compiler /\ loaded.config = config
                BY <2>1 DEF InRun, Edited
            <4>2. \A a \in Artifacts(loaded.text) : artifact[a] = Generated(a)
                                                 \/ artifact[a] = Missing
                BY <2>1, <3>2 DEF WrittenInv
            <4>3. \A a \in Artifacts(loaded.text) : artifact[a] # Missing
                BY <2>1, <2>4, <3>2 DEF WrittenInv, Undeleted, Edited
            <4> QED  BY <2>1, <2>4, <4>1, <4>2, <4>3 DEF Intact, Generated
        <3> QED  BY <2>1, <3>1, <3>3, <3>4 DEF Recorded, Comparing
    <2>5. Tame' => Tame
        BY <1>a, KindsAreKept
    <2>6. SUFFICES ASSUME Tame, NEW md \in Modes
                   PROVE  stampFile'[md] = NoStamps \/ \E src : Recorded(md, src)'
        BY <2>5 DEF RecordInv
    <2>7. CASE md = mode
        <3>1. PICK src : src = loaded.text
            OBVIOUS
        <3> QED  BY <2>4, <2>6, <2>7, <3>1
    <2>8. CASE md # mode
        BY <2>2, <2>3, <2>6, <2>8 DEF RecordInv
    <2> QED  BY <2>7, <2>8
<1>10. ASSUME TruncateManifest PROVE RecordInv'
    BY <1>00, <1>10 DEF TruncateManifest, Comparing
<1>11. ASSUME FillManifest PROVE RecordInv'
    BY <1>00, <1>11 DEF FillManifest, Finish, Comparing
<1>12. ASSUME NEW m \in Modules, NEW t \in TextsOf[m], Edit(m, t) PROVE RecordInv'
    <2>1. /\ text' = [text EXCEPT ![m] = t] /\ mtime' = [mtime EXCEPT ![m] = mtime[m] + 1]
          /\ UNCHANGED <<config, compiler, outputs, run, pc>>
        BY ONLY <1>12, Zenon DEF Edit
    <2>2. ASSUME NEW md \in Modes, NEW src, Tame, Recorded(md, src) PROVE Recorded(md, src)'
        <3>1. Listed(stampFile[md])
            BY <2>2 DEF StampsInv, Tame
        <3> HIDE DEF outputs, run
        <3> QED  BY <1>a, <2>1, <2>2, <3>1, RecordedEdit
    <2> QED  BY <1>0, <2>1, <2>2
<1>13. ASSUME Configure PROVE RecordInv'
    BY <1>00, <1>13 DEF Configure, Event, Edited, Comparing
<1>14. ASSUME Upgrade PROVE RecordInv'
    <2>1. /\ UNCHANGED <<text, mtime, config, outputs, run, pc>>
          /\ "upgrade" \in seen' \/ "upgrade during run" \in seen'
        BY <1>14 DEF Upgrade, Event
    <2>2. ~Edited'
        BY <2>1 DEF Edited
    <2> QED  BY <1>00, <2>1, <2>2 DEF Comparing
<1>15. ASSUME NEW a \in Modules \cup {Runtime}, DeleteArtifact(a) PROVE RecordInv'
    <2>1. ASSUME NEW md \in Modes, NEW src, Recorded(md, src) PROVE Recorded(md, src)'
        BY <1>15, <2>1, RecordedDelete DEF DeleteArtifact, Event
    <2> QED  BY <1>0, <1>15, <2>1 DEF DeleteArtifact
<1>16. ASSUME Crash PROVE RecordInv'
    BY <1>00, <1>16 DEF Crash, Finish, Comparing
<1>17. ASSUME UNCHANGED vars PROVE RecordInv'
    BY <1>00, <1>17 DEF vars, Comparing
<1> HIDE DEF inputs, outputs, run, history
<1> QED  BY <1>1, <1>2, <1>3, <1>4, <1>5, <1>6, <1>7, <1>8, <1>9, <1>10, <1>11, <1>12,
            <1>13, <1>14, <1>15, <1>16, <1>17, StepCases

\* While files are only deleted and compilers replaced between runs, the
\* artifacts of a manifest of this compiler are right, if they exist.
ReplacedInv ==
    Replaced =>
        /\ \A md \in Modes : manifest[md].paths \in {{}, Artifacts(InitText)}
        /\ pc \in {"idle", "load", "stamp", "analyze"} => \A md \in Modes :
              manifest[md].paths # {} /\ manifest[md].compiler = compiler =>
                  \A a \in Artifacts(InitText) :
                      artifact[a] \in {Missing, CleanArtifact(InitText, config, compiler, mode, a)}

\* A run that writes a manifest has written all it names.
LEMMA ReplacedStep ==
    ReplacedInv /\ WrittenInv /\ UneditedInv /\ InRun
        /\ Versions /\ Run /\ Files /\ [Next]_vars => ReplacedInv'
<1> SUFFICES ASSUME ReplacedInv, WrittenInv, UneditedInv, InRun, Versions, Run, Files,
                    [Next]_vars
             PROVE  ReplacedInv'
    OBVIOUS
<1> USE DEF inputs, outputs, run, history
<1>a. seen \subseteq seen'
    BY SeenGrows
<1>b. Replaced' => Replaced
    BY <1>a, KindsAreKept
<1>c. Replaced => Unedited
    BY DEF Replaced, Unedited
<1>0. ASSUME manifest' = manifest, compiler' = compiler, config' = config, artifact' = artifact,
             mode' \in Modes,
             pc' \in {"idle", "load", "stamp", "analyze"} =>
                 pc \in {"idle", "load", "stamp", "analyze"}
      PROVE  ReplacedInv'
    <2>1. Replaced' => mode' = mode
        BY <1>0 DEF Replaced, OneMode, Run
    <2> QED  BY <1>0, <1>b, <2>1 DEF ReplacedInv
<1>1. ASSUME NEW md \in Modes, Begin(md) PROVE ReplacedInv'
    BY <1>0, <1>1 DEF Begin, Finish
<1>2. ASSUME Load PROVE ReplacedInv'
    BY <1>0, <1>2 DEF Load, Finish, Run
<1>3. ASSUME Stamp PROVE ReplacedInv'
    BY <1>0, <1>3 DEF Stamp, Run
<1>4. ASSUME Analyze PROVE ReplacedInv'
    BY <1>0, <1>4 DEF Analyze, Finish, Run
<1>5. ASSUME NEW a \in Modules \cup {Runtime}, KeepArtifact(a) PROVE ReplacedInv'
    BY <1>0, <1>5 DEF KeepArtifact, Run
<1>6. ASSUME NEW a \in Modules \cup {Runtime}, TruncateArtifact(a) PROVE ReplacedInv'
    BY <1>b, <1>6 DEF TruncateArtifact, ReplacedInv
<1>7. ASSUME FillArtifact PROVE ReplacedInv'
    BY <1>b, <1>7 DEF FillArtifact, ReplacedInv
<1>8. ASSUME TruncateStamps PROVE ReplacedInv'
    BY <1>0, <1>8 DEF TruncateStamps, Run
<1>9. ASSUME FillStamps PROVE ReplacedInv'
    BY <1>0, <1>9 DEF FillStamps, Run
<1>10. ASSUME TruncateManifest PROVE ReplacedInv'
    <2>1. /\ pc' = "paths" /\ compiler' = compiler
          /\ manifest' = [manifest EXCEPT ![mode] = NoManifest]
        BY <1>10 DEF TruncateManifest
    <2>2. manifest'[mode] = NoManifest /\ \A md \in Modes \ {mode} : manifest'[md] = manifest[md]
        BY <2>1 DEF Files, Run
    <2>3. NoManifest.paths = {}
        BY DEF NoManifest
    <2> QED  BY <1>b, <2>1, <2>2, <2>3 DEF ReplacedInv
<1>11. ASSUME FillManifest PROVE ReplacedInv'
    <2>0. SUFFICES ASSUME Replaced PROVE ReplacedInv'
        BY <1>b DEF ReplacedInv
    <2> DEFINE new == [stamps |-> stampFile[mode], compiler |-> compiler,
                       paths |-> Artifacts(loaded.text)]
    <2>1. /\ pc = "paths" /\ compiler' = compiler /\ config' = config /\ artifact' = artifact
          /\ manifest' = [manifest EXCEPT ![mode] = new] /\ mode' = mode
        BY <1>11 DEF FillManifest
    <2>2. manifest'[mode] = new
        BY <2>1 DEF Files, Run
    <2>3. \A md \in Modes : md = mode
        BY <2>0 DEF Replaced, OneMode, Run
    <2>4. loaded.text = InitText /\ loaded.config = config /\ using = compiler /\ todo = {}
        BY <1>c, <2>0, <2>1 DEF UneditedInv, InRun, Run, Replaced
    <2>5. \A a \in Artifacts(InitText) :
              artifact[a] \in {Missing, CleanArtifact(InitText, config, compiler, mode, a)}
        BY <2>0, <2>1, <2>4 DEF WrittenInv, Generated
    <2>6. new.compiler = compiler /\ new.paths = Artifacts(InitText)
        BY <2>4
    <2> HIDE DEF new
    <2> QED  BY <2>1, <2>2, <2>3, <2>5, <2>6 DEF ReplacedInv
<1>12. ASSUME NEW m \in Modules, NEW t \in TextsOf[m], Edit(m, t) PROVE ReplacedInv'
    BY <1>0, <1>12 DEF Edit, Run
<1>13. ASSUME Configure PROVE ReplacedInv'
    BY <1>13 DEF Configure, Event, ReplacedInv, Replaced
<1>14. ASSUME Upgrade PROVE ReplacedInv'
    <2>1. /\ manifest' = manifest /\ compiler' = compiler + 1
        BY <1>14 DEF Upgrade
    <2>2. \A md \in Modes : manifest[md].compiler \in Int /\ compiler \in Int
        BY DEF Files, Versions
    <2>a. \A md \in Modes : manifest[md].compiler <= compiler
        BY DEF InRun
    <2>3. \A md \in Modes : manifest[md].compiler # compiler'
        BY <2>1, <2>2, <2>a
    <2> QED  BY <1>b, <2>1, <2>3 DEF ReplacedInv
<1>15. ASSUME NEW a \in Modules \cup {Runtime}, DeleteArtifact(a) PROVE ReplacedInv'
    <2>1. /\ manifest' = manifest /\ compiler' = compiler /\ config' = config /\ pc' = pc
          /\ mode' = mode /\ artifact' = [artifact EXCEPT ![a] = Missing]
        BY <1>15 DEF DeleteArtifact
    <2>2. \A b \in Modules \cup {Runtime} : artifact'[b] \in {Missing, artifact[b]}
        BY <2>1 DEF Files
    <2>3. Artifacts(InitText) \subseteq Modules \cup {Runtime}
        BY GraphHasEntry DEF Artifacts, Target
    <2> QED  BY <1>b, <2>1, <2>2, <2>3 DEF ReplacedInv
<1>16. ASSUME Crash PROVE ReplacedInv'
    BY <1>16 DEF Crash, Event, ReplacedInv, Replaced
<1>17. ASSUME UNCHANGED vars PROVE ReplacedInv'
    BY <1>0, <1>17 DEF vars, Run
<1> HIDE DEF inputs, outputs, run, history
<1> QED  BY <1>1, <1>2, <1>3, <1>4, <1>5, <1>6, <1>7, <1>8, <1>9, <1>10, <1>11, <1>12,
            <1>13, <1>14, <1>15, <1>16, <1>17, StepCases

\* What a successful run leaves, as long as nothing happens after it.
OkInv ==
    pc = "idle" /\ result = "ok" /\ settled =>
        /\ Tame => \A m \in Target(text) : Checks(text, m)
        /\ Undeleted \/ Unedited => SkipCurrentEmission(mode)
        /\ Edited \/ Replaced => \A a \in Artifacts(text) :
              artifact[a] = CleanArtifact(text, config, compiler, mode, a)

\* A run that has nothing to do finds the sources its stamp file vouches for.
LEMMA SkippedIsRecorded ==
    ASSUME Tame, RecordInv, Run, Files, NEW md \in Modes, SourceStampFileCurrent(md)
    PROVE  \E src : /\ Recorded(md, src) /\ Agree(src, text, Graph(src))
                    /\ \A m \in Graph(src) : stampFile[md][m] = mtime[m]
<1>1. Entry \in Modules /\ stampFile[md] # NoStamps
    BY EmitAssumption DEF SourceStampFileCurrent, NoStamps
<1>2. PICK src : Recorded(md, src)
    BY <1>1 DEF RecordInv
<1>3. \A m \in Graph(src) : m \in Modules /\ stampFile[md][m] = mtime[m]
    BY <1>2, GraphHasEntry DEF Recorded, Vouches, SourceStampFileCurrent
<1> QED  BY <1>2, <1>3 DEF Agree, Recorded, Vouches

\* A run that is skipped succeeds rightly.
LEMMA SkippedIsOk ==
    ASSUME RecordInv, UneditedInv, ReplacedInv, InRun, Sources, Run, Files,
           pc = "idle", NEW md \in Modes, SkipCurrentEmission(md)
    PROVE  /\ Tame => \A m \in Target(text) : Checks(text, m)
           /\ Edited \/ Replaced => \A a \in Artifacts(text) :
                 artifact[a] = CleanArtifact(text, config, compiler, md, a)
<1>0. SourceStampFileCurrent(md) /\ ArtifactManifestCurrent(md)
      /\ text \in [Modules -> Texts \cup {NoText}]
    BY DEF SkipCurrentEmission, Sources
<1>1. ASSUME Tame, NEW m \in Target(text) PROVE Checks(text, m)
    <2>1. PICK src : Recorded(md, src) /\ Agree(src, text, Graph(src))
        BY <1>0, <1>1, SkippedIsRecorded
    <2>2. src \in [Modules -> Texts \cup {NoText}]
        BY <2>1 DEF Recorded, Vouches, PossibleSources
    <2>3. Target(text) = Target(src)
        BY <1>0, <2>1, <2>2, SameGraph
    <2>4. Checks(src, m) /\ m \in Graph(src)
        BY <1>1, <2>1, <2>3 DEF Recorded, Vouches, Target
    <2>5. Edges(src, m) \subseteq Graph(src)
        BY <2>2, <2>4, EdgesAreModules, GraphIsClosed
    <2>6. Edges(text, m) = Edges(src, m) /\ \A n \in Edges(src, m) \cup {m} : text[n] = src[n]
        BY <2>1, <2>4, <2>5 DEF Agree, Edges
    <2> QED  BY <2>4, <2>6 DEF Checks
<1>2. ASSUME Edited, NEW a \in Artifacts(text)
      PROVE  artifact[a] = CleanArtifact(text, config, compiler, md, a)
    <2>0. Tame /\ md = mode
        BY <1>2 DEF Edited, Tame, OneMode, Run
    <2>1. PICK src : /\ Recorded(md, src) /\ Agree(src, text, Graph(src))
                     /\ \A m \in Graph(src) : stampFile[md][m] = mtime[m]
        BY <1>0, <2>0, SkippedIsRecorded
    <2>2. src \in [Modules -> Texts \cup {NoText}]
        BY <2>1 DEF Recorded, Vouches, PossibleSources
    <2>3. a \in Artifacts(src)
        BY <1>0, <1>2, <2>1, <2>2, SameGraph DEF Artifacts
    <2>4. From(a) \in SUBSET Graph(src) /\ From(a) \in SUBSET Modules
        BY <2>3, GraphHasEntry DEF Artifacts, From, Target
    <2>5. Reach(src, From(a)) \subseteq Graph(src)
        BY <2>2, <2>4, ReachInGraph DEF Reach
    <2>6. artifact[a] = CleanArtifact(src, config, compiler, mode, a)
        BY <1>2, <2>0, <2>1, <2>3, <2>5 DEF Recorded, Intact
    <2>7. Agree(src, text, Reach(src, From(a)))
        BY <2>1, <2>5 DEF Agree
    <2>8. CleanArtifact(text, config, compiler, mode, a)
          = CleanArtifact(src, config, compiler, mode, a)
        BY <1>0, <2>2, <2>4, <2>7, SameArtifact
    <2> QED  BY <2>0, <2>6, <2>8
<1>3. ASSUME Replaced, NEW a \in Artifacts(text)
      PROVE  artifact[a] = CleanArtifact(text, config, compiler, md, a)
    <2>1. md = mode /\ Unedited
        BY <1>3 DEF Replaced, OneMode, Run, Unedited
    <2>2. text = InitText
        BY <2>1 DEF UneditedInv
    <2>3. /\ manifest[md].paths = Artifacts(text)
          /\ artifact[a] \in {Missing, CleanArtifact(text, config, compiler, mode, a)}
        BY <1>0, <1>3, <2>2 DEF ReplacedInv, ArtifactManifestCurrent
    <2>4. artifact[a] # Missing
        BY <1>0, <1>3, <2>3 DEF ArtifactManifestCurrent
    <2> QED  BY <2>1, <2>3, <2>4
<1> QED  BY <1>1, <1>2, <1>3

\* So does one that has written.
LEMMA WrittenIsOk ==
    ASSUME WrittenInv, InRun, Sources, Run, Files, FillManifest, settled
    PROVE  /\ Tame => \A m \in Target(text) : Checks(text, m)
           /\ Undeleted \/ Unedited => SkipCurrentEmission(mode)'
           /\ Edited \/ Replaced => \A a \in Artifacts(text) :
                 artifact[a] = CleanArtifact(text, config, compiler, mode, a)
<1>1. /\ pc = "paths" /\ loaded.text = text /\ loaded.config = config /\ using = compiler
      /\ stampFile[mode] = stamps /\ todo = {} /\ stamps[Entry] # -1
      /\ \A m \in Modules : stamps[m] \in {-1, mtime[m]}
    BY DEF FillManifest, InRun, Run
<1>2. Tame => \A m \in Target(text) : Checks(text, m)
    BY <1>1 DEF WrittenInv
<1>3. Edited \/ Replaced => \A a \in Artifacts(text) :
          artifact[a] = CleanArtifact(text, config, compiler, mode, a)
    BY <1>1 DEF WrittenInv, Generated, Deleted
<1>4. ASSUME Undeleted \/ Unedited PROVE SkipCurrentEmission(mode)'
    <2> DEFINE new == [stamps |-> stampFile[mode], compiler |-> compiler,
                       paths |-> Artifacts(loaded.text)]
    <2>1. /\ mode' = mode /\ stampFile' = stampFile /\ mtime' = mtime /\ artifact' = artifact
          /\ compiler' = compiler /\ manifest' = [manifest EXCEPT ![mode] = new]
        BY DEF FillManifest, inputs, run
    <2>2. manifest'[mode] = new
        BY <2>1 DEF Files, Run
    <2>3. \A a \in Artifacts(loaded.text) : artifact[a] # Missing
        BY <1>1, <1>4 DEF WrittenInv
    <2>4. new.compiler = compiler /\ new.paths = Artifacts(loaded.text)
          /\ new.stamps = stampFile[mode] /\ Artifacts(loaded.text) # {}
        BY DEF Artifacts
    <2> HIDE DEF new
    <2>5. SourceStampFileCurrent(mode)'
        BY <1>1, <2>1 DEF SourceStampFileCurrent
    <2>6. ArtifactManifestCurrent(mode)'
        BY <2>1, <2>2, <2>3, <2>4 DEF ArtifactManifestCurrent
    <2> QED  BY <2>5, <2>6 DEF SkipCurrentEmission
<1> QED  BY <1>2, <1>3, <1>4

\* So a successful run is right until something happens.
LEMMA OkStep ==
    OkInv /\ RecordInv /\ WrittenInv /\ UneditedInv /\ ReplacedInv /\ InRun
        /\ Sources /\ Run /\ Files /\ [Next]_vars => OkInv'
<1> SUFFICES ASSUME OkInv, RecordInv, WrittenInv, UneditedInv, ReplacedInv, InRun,
                    Sources, Run, Files, [Next]_vars
             PROVE  OkInv'
    OBVIOUS
<1> USE DEF inputs, outputs, run, history
<1>1. ASSUME NEW md \in Modes, Begin(md) PROVE OkInv'
    <2>1. SUFFICES ASSUME pc' = "idle" PROVE OkInv'
        BY DEF OkInv
    <2>2. pc = "idle" /\ SkipCurrentEmission(md)
        BY <1>1, <2>1 DEF Begin
    <2>3. /\ text' = text /\ config' = config /\ compiler' = compiler /\ artifact' = artifact
          /\ stampFile' = stampFile /\ mtime' = mtime /\ manifest' = manifest /\ seen' = seen
          /\ mode' = md
        BY <1>1 DEF Begin
    <2>4. SkipCurrentEmission(mode)'
        BY <2>2, <2>3 DEF SkipCurrentEmission, SourceStampFileCurrent, ArtifactManifestCurrent
    <2>5. /\ Tame => \A m \in Target(text) : Checks(text, m)
          /\ Edited \/ Replaced => \A a \in Artifacts(text) :
                artifact[a] = CleanArtifact(text, config, compiler, md, a)
        BY <2>2, SkippedIsOk
    <2>6. (Tame' => Tame) /\ (Edited' \/ Replaced' => Edited \/ Replaced)
        BY SeenGrows, KindsAreKept
    <2> QED  BY <2>3, <2>4, <2>5, <2>6 DEF OkInv
<1>2. ASSUME Load PROVE OkInv'
    BY <1>2 DEF Load, Finish, OkInv
<1>3. ASSUME Stamp PROVE OkInv'
    BY <1>3 DEF Stamp, OkInv
<1>4. ASSUME Analyze PROVE OkInv'
    BY <1>4 DEF Analyze, Finish, OkInv
<1>5. ASSUME NEW a \in Modules \cup {Runtime}, KeepArtifact(a) PROVE OkInv'
    BY <1>5 DEF KeepArtifact, OkInv
<1>6. ASSUME NEW a \in Modules \cup {Runtime}, TruncateArtifact(a) PROVE OkInv'
    BY <1>6 DEF TruncateArtifact, OkInv
<1>7. ASSUME FillArtifact PROVE OkInv'
    BY <1>7 DEF FillArtifact, OkInv
<1>8. ASSUME TruncateStamps PROVE OkInv'
    BY <1>8 DEF TruncateStamps, OkInv
<1>9. ASSUME FillStamps PROVE OkInv'
    BY <1>9 DEF FillStamps, OkInv
<1>10. ASSUME TruncateManifest PROVE OkInv'
    BY <1>10 DEF TruncateManifest, OkInv
<1>11. ASSUME FillManifest PROVE OkInv'
    <2>1. SUFFICES ASSUME settled PROVE OkInv'
        BY <1>11 DEF FillManifest, OkInv
    <2>2. /\ text' = text /\ config' = config /\ compiler' = compiler /\ artifact' = artifact
          /\ mode' = mode
        BY <1>11 DEF FillManifest
    <2>3. /\ Tame => \A m \in Target(text) : Checks(text, m)
          /\ Undeleted \/ Unedited => SkipCurrentEmission(mode)'
          /\ Edited \/ Replaced => \A a \in Artifacts(text) :
                artifact[a] = CleanArtifact(text, config, compiler, mode, a)
        BY <1>11, <2>1, WrittenIsOk
    <2>4. /\ Tame' => Tame
          /\ Undeleted' \/ Unedited' => Undeleted \/ Unedited
          /\ Edited' \/ Replaced' => Edited \/ Replaced
        BY SeenGrows, KindsAreKept
    <2> QED  BY <2>2, <2>3, <2>4 DEF OkInv
<1>12. ASSUME NEW m \in Modules, NEW t \in TextsOf[m], Edit(m, t) PROVE OkInv'
    BY <1>12 DEF Edit, OkInv
<1>13. ASSUME Configure PROVE OkInv'
    BY <1>13 DEF Configure, OkInv
<1>14. ASSUME Upgrade PROVE OkInv'
    BY <1>14 DEF Upgrade, OkInv
<1>15. ASSUME NEW a \in Modules \cup {Runtime}, DeleteArtifact(a) PROVE OkInv'
    BY <1>15 DEF DeleteArtifact, OkInv
<1>16. ASSUME Crash PROVE OkInv'
    BY <1>16 DEF Crash, Finish, OkInv
<1>17. ASSUME UNCHANGED vars PROVE OkInv'
    BY <1>17 DEF vars, OkInv, Tame, Undeleted, Unedited, Edited, Replaced,
                 SkipCurrentEmission, SourceStampFileCurrent, ArtifactManifestCurrent
<1> HIDE DEF inputs, outputs, run, history
<1> QED  BY <1>1, <1>2, <1>3, <1>4, <1>5, <1>6, <1>7, <1>8, <1>9, <1>10, <1>11, <1>12,
            <1>13, <1>14, <1>15, <1>16, <1>17, StepCases

\* The inductive invariant of incremental emission.
EmissionInv ==
    StampsInv /\ InRun /\ RecordInv /\ WrittenInv /\ UneditedInv /\ ReplacedInv /\ OkInv

\* It holds at the start and is kept, as long as domains are stable.
LEMMA Emission == ASSUME DomainsAreStable PROVE Spec => []EmissionInv
<1>1. Init => EmissionInv
    <2> SUFFICES ASSUME Init PROVE EmissionInv
        OBVIOUS
    <2>1. StampsInv
        <3>1. \A md \in Modes : Listed(stampFile[md])
            BY DEF Init, Listed, NoStamps
        <3> QED  BY <3>1 DEF Init, StampsInv
    <2>2. InitText \in PossibleSources
        BY EmitAssumption DEF PossibleSources
    <2>3. InRun
        <3>1. \A md \in Modes : manifest[md].compiler = -1 /\ compiler = 0
            BY DEF Init, NoManifest
        <3> QED  BY <2>2, <3>1 DEF Init, InRun
    <2>4. RecordInv
        BY DEF Init, RecordInv
    <2>5. WrittenInv /\ UneditedInv
        BY DEF Init, WrittenInv, UneditedInv
    <2>6. ReplacedInv
        BY DEF Init, ReplacedInv, NoManifest
    <2>7. OkInv
        BY DEF Init, OkInv
    <2> QED  BY <2>1, <2>3, <2>4, <2>5, <2>6, <2>7 DEF EmissionInv
<1>2. Inv /\ EmissionInv /\ [Next]_vars => EmissionInv'
    <2> SUFFICES ASSUME Inv, EmissionInv, [Next]_vars PROVE EmissionInv'
        OBVIOUS
    <2>1. /\ Sources /\ Versions /\ Run /\ Files
          /\ StampsInv /\ InRun /\ RecordInv /\ WrittenInv /\ UneditedInv /\ ReplacedInv /\ OkInv
        BY DEF Inv, EmissionInv
    <2>2. StampsInv' /\ InRun' /\ RecordInv' /\ UneditedInv'
        BY <2>1, StampsStep, InRunStep, RecordStep, UneditedStep
    <2>3. WrittenInv' /\ ReplacedInv' /\ OkInv'
        BY <2>1, WrittenStep, ReplacedStep, OkStep
    <2> QED  BY <2>2, <2>3 DEF EmissionInv
<1> QED  BY <1>1, <1>2, Invariance, PTL DEF Spec

\* A run only checks the modules that changes reach; still, when it succeeds
\* the checker would accept every module that is in the build: for the others
\* an earlier run has, with the same text and the same imports.  The stamps of
\* a source saved while the index is loaded may be newer than what was read, so
\* nothing is promised then; and domains have to be stable.
THEOREM SuccessMeansCheckedHolds ==
    ASSUME DomainsAreStable, \A T \in Tolerated : "edit while loading" \notin T
    PROVE  Spec => []SuccessMeansChecked
<1>1. EmissionInv => SuccessMeansChecked
    <2> SUFFICES ASSUME EmissionInv, Succeeded PROVE \A m \in Target(text) : Checks(text, m)
        BY DEF SuccessMeansChecked
    <2>1. Tame
        BY DEF Succeeded, Tame
    <2> QED  BY <2>1 DEF EmissionInv, OkInv, Succeeded
<1> QED  BY <1>1, Emission, PTL

\* After a run that succeeded, the stamps, the manifest and the artifacts agree,
\* so that the next one has nothing to do: whatever was edited and wherever a
\* run was killed, or whatever was deleted, but not both (a deleted file is not
\* written again by a run for other sources).
THEOREM NoOpIsSkippedHolds ==
    ASSUME DomainsAreStable,
           \A T \in Tolerated : /\ "edit while loading" \notin T
                                /\ "delete" \notin T \/ T \cap {"edit", "edit during run"} = {}
    PROVE  Spec => []NoOpIsSkipped
<1>1. EmissionInv => NoOpIsSkipped
    <2> SUFFICES ASSUME EmissionInv, Succeeded PROVE SkipCurrentEmission(mode)
        BY DEF NoOpIsSkipped
    <2>1. Undeleted \/ Unedited
        BY DEF Succeeded, Undeleted, Unedited, Tame
    <2> QED  BY <2>1 DEF EmissionInv, OkInv, Succeeded
<1> QED  BY <1>1, Emission, PTL

\* What a run leaves when it succeeds is what a build from nothing would write,
\* for any modules, imports and texts: after any edits and kills, or any
\* deletions and compilers that are replaced between two runs.  (A compiler that
\* is replaced under a run is recorded beside what the old one wrote.)
THEOREM EmitMatchesCleanHolds ==
    ASSUME DomainsAreStable, OneMode,
           \A T \in Tolerated : \/ T \subseteq {"edit", "edit during run", "crash"}
                                \/ T \subseteq {"delete", "upgrade"}
    PROVE  Spec => []EmitMatchesClean
<1>1. EmissionInv => EmitMatchesClean
    <2> SUFFICES ASSUME EmissionInv, Succeeded
                 PROVE  \A a \in Artifacts(text) :
                            artifact[a] = CleanArtifact(text, config, compiler, mode, a)
        BY DEF EmitMatchesClean
    <2>1. Edited \/ Replaced
        BY DEF Succeeded, Edited, Replaced
    <2> QED  BY <2>1 DEF EmissionInv, OkInv, Succeeded
<1> QED  BY <1>1, Emission, PTL
=============================================================================
