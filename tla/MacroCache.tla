------------------------------ MODULE MacroCache ------------------------------
(***************************************************************************)
(* The caches behind a macro's expansion, as expand_module_macros uses     *)
(* them: the worker build cache (macro/macro_worker_build.cpp), the SDK    *)
(* cache under it (macro/macro_worker_compile.cpp) and the expansion cache *)
(* above it (macro/macro_expansion_cache.cpp).  Compilers and language     *)
(* servers share the directories without a lock; what orders them is that  *)
(* every file and directory is made under another name and then renamed.   *)
(*                                                                         *)
(* One macro package, all whose invocations a call expands.  What a        *)
(* package is made from: its Dudu modules (Source) and a header that they  *)
(* import (Header).  An identity stands for build_identity's hash and      *)
(* holds what is hashed; a worker is what its binary was compiled from.  A *)
(* killed process leaves a staging directory behind, whose name nobody     *)
(* else uses; it is left out.                                              *)
(***************************************************************************)
EXTENDS FiniteSets, Naturals

CONSTANTS
    Processes,    \* compilers and language servers
    Source, Header,  \* the package's files
    Externals,    \* files and environment variables that macros read
    Contents,     \* what may be in them
    InitContent,
    Emits,        \* Emits[<<c, h>>]: the C++ generated for source c, with the
                  \* declarations of header h
    Broken,       \* <<c, h>>: the checker refuses source c with these
    Invocations,  \* uses of the package's macros
    Reads,        \* Reads[i]: the external input i's macro reads
    Volatile,     \* <<c, i>>: with C++ c, i's macro also asks for the time,
                  \* writes a file or the like, and is allowed to
    None,
    Saves,        \* <<f, c>>: c may be saved to f
    MaxEvents,    \* number of saves, failures and kills
    MaxCalls

Files == {Source, Header} \cup Externals

ASSUME MacroCacheAssumption ==
    /\ Source # Header
    /\ Externals \cap {Source, Header} = {}
    /\ InitContent \in [Files -> Contents]
    /\ Emits \in [Contents \X Contents -> Contents]
    /\ Broken \subseteq Contents \X Contents
    /\ Reads \in [Invocations -> Externals]
    /\ Volatile \subseteq Contents \X Invocations
    /\ Saves \subseteq Files \X Contents
    /\ MaxEvents \in Nat /\ MaxCalls \in Nat

SourceKeys == [source : Contents, header : Contents]
Identities == [code : Contents, header : Contents]
Workers == [code : Contents, header : Contents]
Answers == [worker : Workers, seen : Contents]

ASSUME NoneAssumption == None \notin Identities \cup Workers \cup Answers
                                   \cup [Invocations -> Answers] \cup Invocations

VARIABLES
    disk,      \* the inputs
    lookup,    \* workers/lookup: an identity per source key
    entry,     \* workers/<identity>: the binary, None if there is no entry
    sdk,       \* what the shared SDK entry has of {"objects", "pch"}
    single,    \* expansions/<key>: an answer per identity and invocation
    batch,     \* the answers to all invocations in one file
    pc,        \* where a process is in expand_module_macros
    source,    \* the package as a process has it in memory
    scanned,   \* and the header that its declarations were taken from
    key, identity, built,   \* locals of build_worker_binary
    answer,    \* the responses it has so far
    storing,   \* the response it is about to write
    batchHit,
    ran,       \* it compiled something, or executed a macro that can be cached
    window,    \* window[p][f]: what f held at some time of p's call
    spoiled,   \* what a save of the header has made wrong of "lookup" and
               \* "entry", which p is about to store; and "answers", if p found
               \* something stored that had been made wrong for another
    staleKeys, staleEntries,  \* what was stored although it was so
    warm,      \* the last call was alone, succeeded and nothing changed since
    begun,     \* how p's call began: "busy", "alone" or alone and "warm"
    events, calls

workerCache == <<lookup, entry, sdk>>
expansionCache == <<single, batch>>
locals == <<source, scanned, key, identity, built, answer, storing, batchHit>>
saves == <<window, spoiled, staleKeys, staleEntries>>
history == <<ran, saves, warm, begun, events, calls>>
vars == <<disk, workerCache, expansionCache, pc, locals, history>>

Building == {"identify", "sdk", "objects", "pch", "compile"}
Places == Building \cup {"idle", "headers", "key", "publish", "record", "read", "drop",
                         "singles", "run", "store", "done"}

Idle(p) == pc[p] = "idle"
Goto(p, where) == pc' = [pc EXCEPT ![p] = where]

\* Locals outside of a call; nothing looks at them.
FirstKey == [source |-> InitContent[Source], header |-> InitContent[Header]]
FirstIdentity == [code |-> Emits[<<InitContent[Source], InitContent[Header]>>],
                  header |-> InitContent[Header]]
NoAnswers == [i \in Invocations |-> None]
NoWindow == [f \in Files |-> {}]

Init ==
    /\ disk = InitContent
    /\ lookup = [k \in SourceKeys |-> None]
    /\ entry = [id \in Identities |-> None]
    /\ sdk = {}
    /\ single = [id \in Identities |-> [i \in Invocations |-> None]]
    /\ batch = [id \in Identities |-> None]
    /\ pc = [p \in Processes |-> "idle"]
    /\ source = [p \in Processes |-> InitContent[Source]]
    /\ scanned = [p \in Processes |-> InitContent[Header]]
    /\ key = [p \in Processes |-> FirstKey]
    /\ identity = [p \in Processes |-> FirstIdentity]
    /\ built = [p \in Processes |-> None]
    /\ answer = [p \in Processes |-> NoAnswers]
    /\ storing = [p \in Processes |-> None]
    /\ batchHit = [p \in Processes |-> FALSE]
    /\ ran = [p \in Processes |-> FALSE]
    /\ window = [p \in Processes |-> NoWindow]
    /\ begun = [p \in Processes |-> "busy"]
    /\ spoiled = [p \in Processes |-> {}]
    /\ staleKeys = {} /\ staleEntries = {}
    /\ warm = FALSE
    /\ events = 0 /\ calls = 0

-----------------------------------------------------------------------------
(* A call *)

Alone(p) == \A q \in Processes \ {p} : Idle(q)

\* The module tree is loaded: the sources are read and digested.
Begin(p) ==
    /\ Idle(p) /\ calls < MaxCalls
    /\ source' = [source EXCEPT ![p] = disk[Source]]
    /\ window' = [window EXCEPT ![p] = [f \in Files |-> {disk[f]}]]
    /\ begun' = [begun EXCEPT ![p] = IF ~Alone(p) THEN "busy"
                                     ELSE IF warm THEN "warm" ELSE "alone"]
    /\ warm' = FALSE
    /\ calls' = calls + 1
    /\ Goto(p, "headers")
    /\ UNCHANGED <<disk, workerCache, expansionCache, scanned, key, identity, built, answer,
                   storing, batchHit, ran, spoiled, staleKeys, staleEntries, events>>

\* merge_native_headers_for_tree, before expand_module_macros.
ScanHeaders(p) ==
    /\ pc[p] = "headers"
    /\ scanned' = [scanned EXCEPT ![p] = disk[Header]]
    /\ Goto(p, "key")
    /\ UNCHANGED <<disk, workerCache, expansionCache, source, key, identity, built, answer,
                   storing, batchHit, history>>

\* The call is over, one way or another.
Leave(p) ==
    /\ Goto(p, "idle")
    /\ source' = [source EXCEPT ![p] = InitContent[Source]]
    /\ scanned' = [scanned EXCEPT ![p] = InitContent[Header]]
    /\ key' = [key EXCEPT ![p] = FirstKey]
    /\ identity' = [identity EXCEPT ![p] = FirstIdentity]
    /\ built' = [built EXCEPT ![p] = None]
    /\ answer' = [answer EXCEPT ![p] = NoAnswers]
    /\ storing' = [storing EXCEPT ![p] = None]
    /\ batchHit' = [batchHit EXCEPT ![p] = FALSE]
    /\ ran' = [ran EXCEPT ![p] = FALSE]
    /\ window' = [window EXCEPT ![p] = NoWindow]
    /\ begun' = [begun EXCEPT ![p] = "busy"]
    /\ spoiled' = [spoiled EXCEPT ![p] = {}]
    /\ UNCHANGED <<disk, workerCache, expansionCache, staleKeys, staleEntries, calls>>

Fail(p) == Leave(p) /\ UNCHANGED <<warm, events>>

Event == events < MaxEvents /\ events' = events + 1

\* A command or a macro fails, or the process is killed.
Break(p) == Leave(p) /\ Event /\ UNCHANGED warm

\* What a process has loaded, which the C++ is generated from.
Loaded(p) == <<source[p], scanned[p]>>

\* A process uses something that is stored, and was perhaps wrong when it was.
Takes(p, stale) ==
    spoiled' = [spoiled EXCEPT ![p] = IF stale THEN @ \cup {"answers"} ELSE @]

\* The identity that a source key names, if its binary is there.
LookupHits(k) == lookup[k] # None /\ entry[lookup[k]] # None

\* source_identity hashes the headers as they are now; then the lookup file.
Lookup(p) ==
    LET k == [source |-> source[p], header |-> disk[Header]]
    IN  /\ pc[p] = "key"
        /\ key' = [key EXCEPT ![p] = k]
        /\ IF LookupHits(k)
           THEN /\ identity' = [identity EXCEPT ![p] = lookup[k]]
                /\ Takes(p, k \in staleKeys \/ lookup[k] \in staleEntries)
                /\ Goto(p, "read")
           ELSE Goto(p, "identify") /\ UNCHANGED <<identity, spoiled>>
        /\ UNCHANGED <<disk, workerCache, expansionCache, source, scanned, built, answer,
                       storing, batchHit, ran, window, staleKeys, staleEntries, warm, begun,
                       events, calls>>

\* analyze_module_tree refuses the package.
Refuse(p) == pc[p] = "identify" /\ Loaded(p) \in Broken /\ Fail(p)

\* Generation, build_identity, which hashes the headers again, and the test
\* for the executable.
Identify(p) ==
    LET id == [code |-> Emits[Loaded(p)], header |-> disk[Header]]
    IN  /\ pc[p] = "identify" /\ Loaded(p) \notin Broken
        /\ identity' = [identity EXCEPT ![p] = id]
        /\ Goto(p, IF entry[id] # None THEN "record" ELSE "sdk")
        /\ Takes(p, id \in staleEntries)
        /\ UNCHANGED <<disk, workerCache, expansionCache, source, scanned, key, built, answer,
                       storing, batchHit, ran, window, staleKeys, staleEntries, warm, begun,
                       events, calls>>

Whole == {"objects", "pch"}

\* A variant: the objects alone make an SDK entry usable.
FindSdkObjects(p) ==
    /\ pc[p] = "sdk"
    /\ Goto(p, IF "objects" \in sdk THEN "compile" ELSE "objects")
    /\ ran' = [ran EXCEPT ![p] = TRUE]
    /\ UNCHANGED <<disk, workerCache, expansionCache, locals, saves, warm, begun, events,
                   calls>>

\* prepare_sdk: an entry that has everything is used.
FindSdk(p) ==
    /\ pc[p] = "sdk"
    /\ Goto(p, IF sdk = Whole THEN "compile" ELSE "objects")
    /\ ran' = [ran EXCEPT ![p] = TRUE]
    /\ UNCHANGED <<disk, workerCache, expansionCache, locals, saves, warm, begun, events,
                   calls>>

\* The objects were compiled in a staging directory, which becomes the entry;
\* if there is one, the rename fails and that one is used.  Then the header.
PublishObjects(p) ==
    /\ pc[p] = "objects"
    /\ sdk' = IF sdk = {} THEN {"objects"} ELSE sdk
    /\ Goto(p, IF "pch" \in sdk THEN "compile" ELSE "pch")
    /\ UNCHANGED <<disk, lookup, entry, expansionCache, locals, history>>

\* The header is precompiled inside the entry, under another name.
PublishPch(p) ==
    /\ pc[p] = "pch"
    /\ sdk' = sdk \cup {"pch"}
    /\ Goto(p, "compile")
    /\ UNCHANGED <<disk, lookup, entry, expansionCache, locals, history>>

\* compile_units_parallel and link_worker, in a staging directory: now the
\* header is read.
Compile(p) ==
    /\ pc[p] = "compile"
    /\ built' = [built EXCEPT ![p] = [code |-> Emits[Loaded(p)],
                                      header |-> disk[Header]]]
    /\ Goto(p, "publish")
    /\ UNCHANGED <<disk, workerCache, expansionCache, source, scanned, key, identity, answer,
                   storing, batchHit, history>>

\* A command fails; the staging directory is removed.
CompileFails(p) == pc[p] \in {"objects", "pch", "compile"} /\ Break(p)

\* A variant: an entry that is in the way is replaced.
PublishOver(p) ==
    /\ pc[p] = "publish"
    /\ entry' = [entry EXCEPT ![identity[p]] = built[p]]
    /\ Goto(p, "record")
    /\ UNCHANGED <<disk, lookup, sdk, expansionCache, locals, history>>

\* The staging directory becomes the entry, unless there is one.
Publish(p) ==
    /\ pc[p] = "publish"
    /\ entry' = [entry EXCEPT ![identity[p]] = IF @ = None THEN built[p] ELSE @]
    /\ Takes(p, identity[p] \in staleEntries)
    /\ staleEntries' = IF entry[identity[p]] = None /\ "entry" \in spoiled[p]
                       THEN staleEntries \cup {identity[p]} ELSE staleEntries
    /\ Goto(p, "record")
    /\ UNCHANGED <<disk, lookup, sdk, expansionCache, locals, ran, window, staleKeys, warm,
                   begun, events, calls>>

\* write_worker_lookup.
Record(p) ==
    /\ pc[p] = "record"
    /\ lookup' = [lookup EXCEPT ![key[p]] = identity[p]]
    /\ staleKeys' = IF "lookup" \in spoiled[p] THEN staleKeys \cup {key[p]}
                                               ELSE staleKeys \ {key[p]}
    /\ Goto(p, "read")
    /\ UNCHANGED <<disk, entry, sdk, expansionCache, locals, ran, window, spoiled,
                   staleEntries, warm, begun, events, calls>>

-----------------------------------------------------------------------------
(* Expansions *)

\* Whether identity id's worker answers i without what cannot be cached.
Cacheable(id, i) == <<id.code, i>> \notin Volatile

\* external_inputs_are_current.
Current(i, response) == response.seen = disk[Reads[i]]

\* A variant: a batch is not compared with the external inputs.
BatchThere(id) == batch[id] # None

BatchCurrent(id) ==
    batch[id] # None /\ \A i \in Invocations : Current(i, batch[id][i])

\* read_expansion_caches: the batch counts only as a whole.
ReadBatch(p) ==
    /\ pc[p] = "read"
    /\ IF BatchCurrent(identity[p])
       THEN /\ answer' = [answer EXCEPT ![p] = batch[identity[p]]]
            /\ batchHit' = [batchHit EXCEPT ![p] = TRUE]
            /\ Goto(p, "run")
       ELSE /\ Goto(p, IF batch[identity[p]] # None THEN "drop" ELSE "singles")
            /\ UNCHANGED <<answer, batchHit>>
    /\ UNCHANGED <<disk, workerCache, expansionCache, source, scanned, key, identity, built,
                   storing, history>>

\* A batch that does not count is removed: whatever is there by now.
DropBatch(p) ==
    /\ pc[p] = "drop"
    /\ batch' = [batch EXCEPT ![identity[p]] = None]
    /\ Goto(p, "singles")
    /\ UNCHANGED <<disk, workerCache, single, locals, history>>

\* read_expansion_cache for each key; an entry that is not current stays.
ReadSingles(p) ==
    /\ pc[p] = "singles"
    /\ answer' = [answer EXCEPT ![p] = [i \in Invocations |->
            LET found == single[identity[p]][i]
            IN  IF found # None /\ Current(i, found) THEN found ELSE None]]
    /\ Goto(p, "run")
    /\ UNCHANGED <<disk, workerCache, expansionCache, source, scanned, key, identity, built,
                   storing, batchHit, history>>

\* A variant: only the batch is stored.
StoreNothing(p, i) == UNCHANGED <<storing, pc>>

\* What is stored next, if anything.
StoreIfCacheable(p, i) ==
    IF Cacheable(identity[p], i)
    THEN storing' = [storing EXCEPT ![p] = i] /\ Goto(p, "store")
    ELSE UNCHANGED <<storing, pc>>

\* A miss: the worker of this identity runs the macro.
Expand(p, i) ==
    /\ pc[p] = "run" /\ answer[p][i] = None
    /\ answer' = [answer EXCEPT ![p][i] = [worker |-> entry[identity[p]],
                                           seen |-> disk[Reads[i]]]]
    /\ StoreIfCacheable(p, i)
    /\ ran' = [ran EXCEPT ![p] = @ \/ Cacheable(identity[p], i)]
    /\ UNCHANGED <<disk, workerCache, expansionCache, source, scanned, key, identity, built,
                   batchHit, saves, warm, begun, events, calls>>

\* The macro, or its worker, fails.
ExpandFails(p) ==
    pc[p] = "run" /\ (\E i \in Invocations : answer[p][i] = None) /\ Break(p)

\* write_expansion_cache.
StoreSingle(p) ==
    /\ pc[p] = "store"
    /\ single' = [single EXCEPT ![identity[p]][storing[p]] = answer[p][storing[p]]]
    /\ Goto(p, "run")
    /\ UNCHANGED <<disk, workerCache, batch, locals, history>>

\* A variant: the batch is stored although a response is missing.
StoreBatchEarly(p) ==
    /\ pc[p] = "run"
    /\ batch' = [batch EXCEPT ![identity[p]] = answer[p]]
    /\ Goto(p, "done")
    /\ UNCHANGED <<disk, workerCache, single, locals, history>>

\* write_expansion_cache_batch, unless the batch was hit: all or nothing.
StoreBatch(p) ==
    /\ pc[p] = "run" /\ \A i \in Invocations : answer[p][i] # None
    /\ IF /\ ~batchHit[p] /\ Cardinality(Invocations) > 1
          /\ \A i \in Invocations : Cacheable(identity[p], i)
       THEN batch' = [batch EXCEPT ![identity[p]] = answer[p]]
       ELSE UNCHANGED batch
    /\ Goto(p, "done")
    /\ UNCHANGED <<disk, workerCache, single, locals, history>>

\* No input was saved during p's call.
Unchanged(p) == \A f \in Files : window[p][f] = {disk[f]}

\* The expansions are merged and the call returns.
Return(p) ==
    /\ pc[p] = "done"
    /\ Leave(p)
    /\ warm' = (begun[p] # "busy" /\ Alone(p) /\ Unchanged(p))
    /\ UNCHANGED events

-----------------------------------------------------------------------------
(* What happens besides *)

\* What a save of the header makes wrong of what a process will store: a key
\* names what is generated from a header scanned earlier and identified by one
\* hashed later, and an entry is compiled from one that is read later still.
Spoils(place) ==
    IF place \in {"key", "identify"} THEN {"lookup"}
    ELSE IF place \in {"sdk", "objects", "pch", "compile"} THEN {"entry"} ELSE {}

\* An input is saved, or the environment changed.
Edit(f, c) ==
    /\ Event /\ disk[f] # c
    /\ disk' = [disk EXCEPT ![f] = c]
    /\ window' = [p \in Processes |->
                    IF Idle(p) THEN window[p]
                               ELSE [window[p] EXCEPT ![f] = @ \cup {c}]]
    /\ spoiled' = IF f # Header THEN spoiled
                  ELSE [p \in Processes |-> spoiled[p] \cup Spoils(pc[p])]
    /\ warm' = FALSE
    /\ UNCHANGED <<workerCache, expansionCache, pc, locals, ran, staleKeys, staleEntries,
                   begun, calls>>

Kill(p) == ~Idle(p) /\ Break(p)

Finished ==
    /\ \A p \in Processes : Idle(p)
    /\ calls = MaxCalls
    /\ UNCHANGED vars

Step(p) ==
    \/ ScanHeaders(p) \/ Lookup(p) \/ Refuse(p) \/ Identify(p)
    \/ FindSdk(p) \/ PublishObjects(p) \/ PublishPch(p)
    \/ Compile(p) \/ CompileFails(p) \/ Publish(p) \/ Record(p)
    \/ ReadBatch(p) \/ DropBatch(p) \/ ReadSingles(p)
    \/ StoreSingle(p) \/ StoreBatch(p) \/ ExpandFails(p) \/ Return(p)
    \/ \E i \in Invocations : Expand(p, i)

Next ==
    \/ \E p \in Processes : Begin(p) \/ Step(p) \/ Kill(p)
    \/ \E save \in Saves : Edit(save[1], save[2])
    \/ Finished

Spec == Init /\ [][Next]_vars

-----------------------------------------------------------------------------
(* Properties *)

MaybeIn(S) == S \cup {None}

\* Types; a process that runs macros has a worker to run them with.
TypeOK ==
    /\ disk \in [Files -> Contents]
    /\ lookup \in [SourceKeys -> MaybeIn(Identities)]
    /\ entry \in [Identities -> MaybeIn(Workers)]
    /\ sdk \in SUBSET Whole
    /\ single \in [Identities -> [Invocations -> MaybeIn(Answers)]]
    /\ batch \in [Identities -> MaybeIn([Invocations -> Answers])]
    /\ pc \in [Processes -> Places]
    /\ source \in [Processes -> Contents] /\ scanned \in [Processes -> Contents]
    /\ key \in [Processes -> SourceKeys]
    /\ identity \in [Processes -> Identities]
    /\ built \in [Processes -> MaybeIn(Workers)]
    /\ answer \in [Processes -> [Invocations -> MaybeIn(Answers)]]
    /\ storing \in [Processes -> MaybeIn(Invocations)]
    /\ batchHit \in [Processes -> BOOLEAN]
    /\ ran \in [Processes -> BOOLEAN]
    /\ window \in [Processes -> [Files -> SUBSET Contents]]
    /\ spoiled \in [Processes -> SUBSET {"lookup", "entry", "answers"}]
    /\ staleKeys \subseteq SourceKeys /\ staleEntries \subseteq Identities
    /\ warm \in BOOLEAN
    /\ begun \in [Processes -> {"busy", "alone", "warm"}]
    /\ events \in 0 .. MaxEvents /\ calls \in 0 .. MaxCalls

\* A worker that is made of what could be read during p's call.
OfCall(p, worker) ==
    /\ worker.header \in window[p][Header]
    /\ \E c \in window[p][Source], h \in window[p][Header] : worker.code = Emits[<<c, h>>]

\* A call's answers are what the macros say of inputs as they were at some
\* moments of the call: whatever was cached, whoever else builds, stores,
\* removes or is killed meanwhile, and whatever is saved under the call.  The
\* exception is a call that finds a worker of which the header was saved while
\* another call made it: project/project_index.cpp scans headers for their
\* declarations, macro/macro_worker_build.cpp hashes them later and once again,
\* and the compiler reads them last, so that the lookup or the entry may stay
\* wrong for those who come after.
AnswersAreCurrent ==
    \A p \in Processes : pc[p] = "done" /\ "answers" \notin spoiled[p] =>
        \A i \in Invocations : /\ answer[p][i].seen \in window[p][Reads[i]]
                               /\ OfCall(p, answer[p][i].worker)

\* An identity never names another binary than before: the expansions cached
\* under it, and the worker sessions that run, stay true to it.
IdentitiesAreStable ==
    [][\A id \in Identities : entry[id] # None => entry'[id] = entry[id]]_vars

\* Every cached expansion was made by the binary its identity names, which is
\* there, and so are the responses a process holds.
ExpansionsNameTheirWorker ==
    /\ \A id \in Identities, i \in Invocations :
          /\ single[id][i] # None => single[id][i].worker = entry[id]
          /\ batch[id] # None => batch[id][i].worker = entry[id]
    /\ \A p \in Processes, i \in Invocations :
          answer[p][i] # None => answer[p][i].worker = entry[identity[p]]

\* Nobody compiles against half an SDK entry, although the precompiled header
\* is added to an entry that others can already see, and a process may be
\* killed before it adds it.
SdkIsWhole == \A p \in Processes : pc[p] \in {"compile", "publish"} => sdk = Whole

\* A call that follows a complete one, with no change of the inputs since that
\* began, compiles nothing and runs no macro that can be cached ("An unrelated
\* source edit executes zero unchanged macros", docs/macros.md).
WarmCallsRunNothing ==
    \A p \in Processes :
        begun[p] = "warm" /\ Unchanged(p) => ~ran[p]

===============================================================================
