----------------------------- MODULE EmitModules -----------------------------
(***************************************************************************)
(* Incremental C++ emission: `duc emit-modules` and `duc                   *)
(* emit-test-modules` (emit_modules in                                     *)
(* src/dudu/frontend/cli_compile_command.cpp).  Beside the generated files *)
(* a run leaves a source stamp file and an artifact manifest; the next run *)
(* compares them with the sources and the output directory and does        *)
(* nothing, re-emits what the changed sources reach, or re-emits it all.   *)
(*                                                                         *)
(* One process works on the output directory at a time (the CMake backend  *)
(* holds a lock).  Between two of its actions, and between two runs, it    *)
(* can be killed, and the user can edit a source, change dudu.toml,        *)
(* install another compiler or delete a generated file; the constant       *)
(* Events says which of these a model lets happen.  A run knows the        *)
(* compiler by its file, which it looks at when it decides what to do and  *)
(* again when it writes the manifest: a compiler that is replaced between  *)
(* the two ("upgrade during run") is recorded beside what the old one      *)
(* wrote.  Files are written as the code writes them: truncated, then      *)
(* filled.  The .hpp and .cpp of a module are one artifact here, and       *)
(* dudu_runtime.hpp and test_harness.cpp, which depend on every module and *)
(* are written in every run that writes, another.                          *)
(***************************************************************************)
EXTENDS Integers, FiniteSets

CONSTANTS
    Modules,    \* the project's source files
    Entry,      \* the one named on the command line
    Runtime,    \* dudu_runtime.hpp and test_harness.cpp
    Texts,      \* source texts
    NoText,     \* a source file that does not exist
    TextsOf,    \* TextsOf[m]: the contents file m may have
    InitText,   \* the sources at the start
    Imports,    \* Imports[t]: the modules a text imports
    Macros,     \* the texts that define a macro
    Invokers,   \* the texts that apply one
    Clashes,    \* <<t, u>>: a module with text t does not check beside an
                \* import with text u, nor, if t = u, at all
    Modes,      \* emit-modules, emit-test-modules
    Missing,    \* a generated file that does not exist
    Torn,       \* one that was truncated and not filled
    Events,     \* what may happen besides runs of the compiler
    MaxEvents,  \* how many of them
    Tolerated   \* sets of events that a build is promised to survive

\* What a generated file says: what it was made from, by which compiler.
Content == [mode : Modes, config : Nat, compiler : Nat,
            sources : [Modules -> Texts \cup {NoText}]]

ASSUME EmitAssumption ==
    /\ Entry \in Modules
    /\ Runtime \notin Modules
    /\ IsFiniteSet(Modules)
    /\ NoText \notin Texts
    /\ TextsOf \in [Modules -> SUBSET (Texts \cup {NoText})]
    /\ InitText \in [Modules -> Texts \cup {NoText}]
    /\ Imports \in [Texts -> SUBSET Modules]
    /\ Macros \subseteq Texts /\ Invokers \subseteq Texts
    /\ Clashes \subseteq Texts \X Texts
    /\ Missing # Torn /\ {Missing, Torn} \cap Content = {}
    /\ MaxEvents \in Nat
    /\ Events \subseteq {"edit", "edit while loading", "edit during run",
                         "configure", "upgrade", "upgrade during run", "delete",
                         "crash"}
    /\ Tolerated \subseteq SUBSET Events

VARIABLES
    text, mtime,   \* the source files; mtime[m] counts the writes to m
    config,        \* dudu.toml, counted in edits
    compiler,      \* the installed compiler, counted in upgrades
    artifact,      \* the generated files
    stampFile,     \* .dudu_sources.stamp and .dudu_test_sources.stamp
    manifest,      \* .dudu_artifacts.stamp and .dudu_test_artifacts.stamp
    pc,            \* where the run is; "idle" between runs
    mode,          \* which command it is
    using,         \* the compiler that runs
    loaded,        \* the sources and dudu.toml as its index has them
    stamps,        \* the mtimes its index has
    todo,          \* artifacts it has still to write
    open,          \* the one it has opened
    result,        \* how the last run ended
    settled,       \* nothing but the run changed anything since it began
    events, seen   \* how many events there were, and which

inputs == <<text, mtime, config, compiler>>
history == <<events, seen>>
outputs == <<artifact, stampFile, manifest>>
run == <<mode, using, loaded, stamps, todo, open>>
vars == <<inputs, outputs, run, pc, result, settled, history>>

-----------------------------------------------------------------------------
(* The module graph *)

Edges(src, m) == IF src[m] = NoText THEN {} ELSE Imports[src[m]]

\* The modules in from and all they import, directly or not, without an
\* import of a module of blocked.
ReachAround(src, from, blocked) ==
    {n \in Modules : \A S \in SUBSET Modules :
        (/\ from \subseteq S
         /\ \A m \in S : Edges(src, m) \ blocked \subseteq S) => n \in S}

Reach(src, from) == ReachAround(src, from, {})

Graph(src) == Reach(src, {Entry})

\* load_source_tree throws: an import is missing, or imports are circular.
LoadThrows(src) ==
    \E m \in Graph(src) : src[m] = NoText \/ m \in Reach(src, Edges(src, m))

\* analyze_module_tree accepts m.
Checks(src, m) ==
    \A n \in Edges(src, m) \cup {m} : <<src[m], src[n]>> \notin Clashes

\* The modules that only macros need, for which no C++ is emitted.  When no
\* macro is applied, only those that define one (mark_macro_host_modules);
\* else also those only they import (finalize_compilation_domains).
MacroHost(src) ==
    LET definitions == {m \in Graph(src) : src[m] \in Macros}
    IN  IF \A m \in Graph(src) : src[m] \notin Invokers
        THEN definitions
        ELSE Reach(src, definitions) \ ReachAround(src, {Entry}, definitions)

Target(src) == Graph(src) \ MacroHost(src)

Artifacts(src) == Target(src) \cup {Runtime}

\* What a build from nothing writes: a module's artifact depends on the
\* modules it can reach, on build values and target, and on the compiler.
CleanArtifact(src, cfg, comp, md, a) ==
    LET from == IF a = Runtime THEN {Entry} ELSE {a}
    IN  [mode |-> md, config |-> cfg, compiler |-> comp,
         sources |-> [n \in Modules |->
                        IF n \in Reach(src, from) THEN src[n] ELSE NoText]]

-----------------------------------------------------------------------------
(* Stamp files.  -1: no line for the module. *)

NoStamps == [m \in Modules |-> -1]
NoManifest == [stamps |-> NoStamps, compiler |-> -1, paths |-> {}]

\* A variant: the modules that the entry imports are not looked at.
EntryStampCurrent(md) == stampFile[md][Entry] = mtime[Entry]

\* source_stamp_file_current_for_entry.
SourceStampFileCurrent(md) ==
    /\ stampFile[md][Entry] # -1
    /\ \A m \in Modules : stampFile[md][m] \in {-1, mtime[m]}

\* A variant: that the artifacts exist is not looked at, nor who made them.
ManifestHashCurrent(md) ==
    /\ manifest[md].paths # {}
    /\ manifest[md].stamps = stampFile[md]

\* artifact_manifest_current.  The stamp file's content stands for its hash.
ArtifactManifestCurrent(md) ==
    /\ manifest[md].paths # {}
    /\ manifest[md].stamps = stampFile[md]
    /\ manifest[md].compiler = compiler
    /\ \A a \in manifest[md].paths : artifact[a] # Missing

SkipCurrentEmission(md) ==
    SourceStampFileCurrent(md) /\ ArtifactManifestCurrent(md)

\* changed_sources_since_stamp_file.
ChangedSources == {m \in Graph(loaded.text) : stampFile[mode][m] # stamps[m]}

\* A variant: dependents are left alone.
AffectedWithoutDependents == ChangedSources

\* affected_modules_for_sources: the changed modules and what imports them.
AffectedModulesForSources ==
    {m \in Graph(loaded.text) :
        Reach(loaded.text, {m}) \cap ChangedSources # {}}

\* affected_modules: the manifest counts only if no source changed.
AffectedModules ==
    IF ChangedSources = {} /\ ~ArtifactManifestCurrent(mode)
    THEN Graph(loaded.text)
    ELSE AffectedModulesForSources

Emitted == AffectedModules \cap Target(loaded.text)

\* analyze_module_tree skips macro modules; given nothing else it takes all.
Analyzed ==
    IF AffectedModules # {} /\ Emitted = {} THEN Target(loaded.text) ELSE Emitted

-----------------------------------------------------------------------------
Init ==
    /\ text = InitText
    /\ mtime = [m \in Modules |-> 0]
    /\ config = 0
    /\ compiler = 0
    /\ artifact = [a \in Modules \cup {Runtime} |-> Missing]
    /\ stampFile = [md \in Modes |-> NoStamps]
    /\ manifest = [md \in Modes |-> NoManifest]
    /\ pc = "idle"
    /\ mode \in Modes
    /\ using = 0
    /\ loaded = [text |-> InitText, config |-> 0]
    /\ stamps = NoStamps
    /\ todo = {}
    /\ open = Runtime
    /\ result = "none"
    /\ settled = FALSE
    /\ events = 0
    /\ seen = {}

Finish(how) == pc' = "idle" /\ result' = how

\* Nothing to do, or the run goes on to load.
Begin(md) ==
    /\ pc = "idle"
    /\ mode' = md
    /\ using' = compiler
    /\ settled' = TRUE
    /\ IF SkipCurrentEmission(md)
       THEN Finish("ok")
       ELSE pc' = "load" /\ result' = "running"
    /\ UNCHANGED <<inputs, outputs, loaded, stamps, todo, open, history>>

\* The sources and dudu.toml are read.
Load ==
    /\ pc = "load"
    /\ loaded' = [text |-> text, config |-> config]
    /\ IF LoadThrows(text) THEN Finish("failed")
                           ELSE pc' = "stamp" /\ UNCHANGED result
    /\ UNCHANGED <<inputs, outputs, mode, using, stamps, todo, open, settled, history>>

\* Native headers, macros; then the mtime of every module of the index.
Stamp ==
    /\ pc = "stamp"
    /\ stamps' = [m \in Modules |-> IF m \in Graph(loaded.text) THEN mtime[m] ELSE -1]
    /\ pc' = "analyze"
    /\ UNCHANGED <<inputs, outputs, mode, using, loaded, todo, open, result, settled,
                   history>>

\* analyze_module_tree, and what will be written.
Analyze ==
    /\ pc = "analyze"
    /\ todo' = IF AffectedModules = {} THEN {} ELSE Emitted \cup {Runtime}
    /\ IF \A m \in Analyzed : Checks(loaded.text, m)
       THEN pc' = "write" /\ UNCHANGED result
       ELSE Finish("failed")
    /\ UNCHANGED <<inputs, outputs, mode, using, loaded, stamps, open, settled, history>>

Generated(a) == CleanArtifact(loaded.text, loaded.config, using, mode, a)

\* write_cpp_artifacts.  A file that has the right content is not touched;
\* any order of the files is allowed.
KeepArtifact(a) ==
    /\ pc = "write"
    /\ a \in todo /\ artifact[a] = Generated(a)
    /\ todo' = todo \ {a}
    /\ UNCHANGED <<inputs, outputs, mode, using, loaded, stamps, open, pc, result,
                   settled, history>>

TruncateArtifact(a) ==
    /\ pc = "write"
    /\ a \in todo /\ artifact[a] # Generated(a)
    /\ artifact' = [artifact EXCEPT ![a] = Torn]
    /\ pc' = "fill" /\ open' = a
    /\ UNCHANGED <<inputs, stampFile, manifest, mode, using, loaded, stamps, todo,
                   result, settled, history>>

\* What is written to a file that was deleted after it was opened is lost.
FillArtifact ==
    /\ pc = "fill"
    /\ artifact' = [artifact EXCEPT ![open] =
                        IF @ = Missing THEN Missing ELSE Generated(open)]
    /\ todo' = todo \ {open}
    /\ pc' = "write" /\ open' = Runtime
    /\ UNCHANGED <<inputs, stampFile, manifest, mode, using, loaded, stamps,
                   result, settled, history>>

\* A variant: the stamps are renewed before the files they vouch for.
TruncateStampsFirst ==
    /\ pc = "write"
    /\ stampFile' = [stampFile EXCEPT ![mode] = NoStamps]
    /\ pc' = "stamps"
    /\ UNCHANGED <<inputs, artifact, manifest, run, result, settled, history>>

\* write_source_stamp_file, opened and then written.
TruncateStamps ==
    /\ pc = "write" /\ todo = {}
    /\ stampFile' = [stampFile EXCEPT ![mode] = NoStamps]
    /\ pc' = "stamps"
    /\ UNCHANGED <<inputs, artifact, manifest, run, result, settled, history>>

FillStamps ==
    /\ pc = "stamps"
    /\ stampFile' = [stampFile EXCEPT ![mode] = stamps]
    /\ pc' = "manifest"
    /\ UNCHANGED <<inputs, artifact, manifest, run, result, settled, history>>

\* write_artifact_manifest: opened, then the stamp file is hashed and the
\* compiler's file looked at, then written.
TruncateManifest ==
    /\ pc = "manifest"
    /\ manifest' = [manifest EXCEPT ![mode] = NoManifest]
    /\ pc' = "paths"
    /\ UNCHANGED <<inputs, artifact, stampFile, run, result, settled, history>>

\* A variant: the hash is the one of the sources the last run left.
FillManifestEarly ==
    /\ pc = "paths"
    /\ manifest' = [manifest EXCEPT ![mode] =
                        [stamps |-> NoStamps, compiler |-> compiler,
                         paths |-> Artifacts(loaded.text)]]
    /\ Finish("ok")
    /\ UNCHANGED <<inputs, artifact, stampFile, run, settled, history>>

FillManifest ==
    /\ pc = "paths"
    /\ manifest' = [manifest EXCEPT ![mode] =
                        [stamps |-> stampFile[mode], compiler |-> compiler,
                         paths |-> Artifacts(loaded.text)]]
    /\ Finish("ok")
    /\ UNCHANGED <<inputs, artifact, stampFile, run, settled, history>>

-----------------------------------------------------------------------------
(* What happens besides *)

Event(kind) ==
    /\ kind \in Events /\ events < MaxEvents
    /\ events' = events + 1
    /\ seen' = seen \cup {kind}

\* A source is saved, created or removed.
Edit(m, t) ==
    /\ \/ pc = "idle" /\ Event("edit")
       \/ pc = "stamp" /\ Event("edit while loading")
       \/ pc \notin {"idle", "stamp"} /\ Event("edit during run")
    /\ text[m] # t
    /\ text' = [text EXCEPT ![m] = t]
    /\ mtime' = [mtime EXCEPT ![m] = @ + 1]
    /\ settled' = FALSE
    /\ UNCHANGED <<config, compiler, outputs, run, pc, result>>

Configure ==
    /\ Event("configure")
    /\ config' = config + 1
    /\ settled' = FALSE
    /\ UNCHANGED <<text, mtime, compiler, outputs, run, pc, result>>

\* The compiler's file is replaced; a run that is under way is still the old.
Upgrade ==
    /\ \/ pc = "idle" /\ Event("upgrade")
       \/ pc # "idle" /\ Event("upgrade during run")
    /\ compiler' = compiler + 1
    /\ settled' = FALSE
    /\ UNCHANGED <<text, mtime, config, outputs, run, pc, result>>

DeleteArtifact(a) ==
    /\ Event("delete")
    /\ artifact[a] # Missing
    /\ artifact' = [artifact EXCEPT ![a] = Missing]
    /\ settled' = FALSE
    /\ UNCHANGED <<inputs, stampFile, manifest, run, pc, result>>

\* The process is killed; what it wrote stays.
Crash ==
    /\ pc # "idle" /\ Event("crash")
    /\ Finish("crashed")
    /\ open' = Runtime
    /\ UNCHANGED <<inputs, outputs, mode, using, loaded, stamps, todo, settled>>

-----------------------------------------------------------------------------
RunStep ==
    \/ Load \/ Stamp \/ Analyze
    \/ \E a \in Modules \cup {Runtime} :
          KeepArtifact(a) \/ TruncateArtifact(a)
    \/ FillArtifact
    \/ TruncateStamps \/ FillStamps \/ TruncateManifest \/ FillManifest

Environment ==
    \/ \E m \in Modules : \E t \in TextsOf[m] : Edit(m, t)
    \/ Configure \/ Upgrade \/ Crash
    \/ \E a \in Modules \cup {Runtime} : DeleteArtifact(a)

Next == RunStep \/ Environment \/ \E md \in Modes : Begin(md)

Spec == Init /\ [][Next]_vars

-----------------------------------------------------------------------------
\* The sources the project may have.
PossibleSources ==
    {src \in [Modules -> Texts \cup {NoText}] :
        \A m \in Modules : src[m] \in TextsOf[m] \cup {InitText[m]}}

Agree(s, t, on) == \A n \in on : s[n] = t[n]

\* A module and what it imports decide whether only macros need it: no edit
\* elsewhere brings its C++ into the build, or takes it out.
DomainsAreStable ==
    \A s \in PossibleSources, t \in PossibleSources :
        \A m \in Graph(s) \cap Graph(t) :
            Agree(s, t, Reach(s, {m})) => (m \in MacroHost(s) <=> m \in MacroHost(t))

-----------------------------------------------------------------------------
(* Properties *)

Stamps == [Modules -> Nat \cup {-1}]

\* Types; a run writes only while it is writing, and stamps a loaded graph.
TypeOK ==
    /\ text \in [Modules -> Texts \cup {NoText}]
    /\ mtime \in [Modules -> Nat]
    /\ config \in Nat /\ compiler \in Nat
    /\ artifact \in [Modules \cup {Runtime} -> Content \cup {Missing, Torn}]
    /\ stampFile \in [Modes -> Stamps]
    /\ manifest \in [Modes -> [stamps : Stamps, compiler : Nat \cup {-1},
                               paths : SUBSET (Modules \cup {Runtime})]]
    /\ pc \in {"idle", "load", "stamp", "analyze", "write", "fill",
               "stamps", "manifest", "paths"}
    /\ mode \in Modes
    /\ using \in 0 .. compiler
    /\ loaded \in [text : [Modules -> Texts \cup {NoText}], config : Nat]
    /\ stamps \in Stamps
    /\ todo \subseteq Modules \cup {Runtime}
    /\ open \in Modules \cup {Runtime}
    /\ result \in {"none", "running", "ok", "failed", "crashed"}
    /\ settled \in BOOLEAN
    /\ events \in 0 .. MaxEvents /\ seen \subseteq Events
    /\ pc \in {"stamps", "manifest", "paths"} => todo = {} /\ stamps[Entry] # -1

\* The run succeeded, nothing happened under it, and all that ever happened
\* is among what a build is to survive.
Succeeded ==
    /\ pc = "idle" /\ result = "ok" /\ settled
    /\ \E tolerated \in Tolerated : seen \subseteq tolerated

\* When a run succeeds and nothing changed under it, the generated files are
\* those of a build from nothing: whatever was edited, left unfinished by a
\* killed run or refused by the checker before.
EmitMatchesClean ==
    Succeeded => \A a \in Artifacts(text) :
        artifact[a] = CleanArtifact(text, config, compiler, mode, a)

\* A run that succeeds has no module that a check of the whole project would
\* refuse, although it only checked the affected ones.
SuccessMeansChecked == Succeeded => \A m \in Target(text) : Checks(text, m)

\* After a successful run, the next one has nothing to do.
NoOpIsSkipped == Succeeded => SkipCurrentEmission(mode)

\* While a run for changed sources has not recorded them, the output does not
\* look finished: if it is killed there, or fails, the next run does not skip.
\* (Unless a source was saved between being read and being stamped: then the
\* stamp file may lack modules, and changing nothing may be a change.)
KilledRunIsRedone ==
    /\ pc \in {"write", "fill", "stamps"} /\ ChangedSources # {}
    /\ "edit while loading" \notin seen
    => ~SkipCurrentEmission(mode)

=============================================================================
