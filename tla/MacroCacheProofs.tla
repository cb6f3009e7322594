---------------------------- MODULE MacroCacheProofs ----------------------------
(***************************************************************************)
(* Macro expansions are current, for any processes, packages, macros and   *)
(* external inputs.  What is stored is what its name says, unless a header *)
(* was saved while it was made (NamedInv), and so whoever uses it has a    *)
(* worker of what was there during its call, unless it took one that such  *)
(* a save had made wrong for somebody else (ServedInv).                    *)
(* A call that follows a complete one runs nothing: while some call that   *)
(* began alone sees no save (Quiet), everybody reads the same inputs, uses *)
(* the same worker and leaves every answer stored (Safe).                  *)
(***************************************************************************)
EXTENDS MacroCache, TLAPS

\* The types that the rest needs.
Core ==
    /\ disk \in [Files -> Contents]
    /\ lookup \in [SourceKeys -> MaybeIn(Identities)]
    /\ entry \in [Identities -> MaybeIn(Workers)]
    /\ single \in [Identities -> [Invocations -> MaybeIn(Answers)]]
    /\ batch \in [Identities -> MaybeIn([Invocations -> Answers])]
    /\ pc \in [Processes -> Places]
    /\ source \in [Processes -> Contents] /\ scanned \in [Processes -> Contents]
    /\ key \in [Processes -> SourceKeys]
    /\ identity \in [Processes -> Identities]
    /\ built \in [Processes -> MaybeIn(Workers)]
    /\ answer \in [Processes -> [Invocations -> MaybeIn(Answers)]]
    /\ storing \in [Processes -> MaybeIn(Invocations)]
    /\ window \in [Processes -> [Files -> SUBSET Contents]]

\* Who has an identity has its worker, and so on.
HaveInv ==
    \A p \in Processes :
        /\ pc[p] = "publish" => built[p] # None
        /\ pc[p] \in {"record", "read", "drop", "singles", "run", "store", "done"} =>
              entry[identity[p]] # None
        /\ pc[p] \in {"idle", "headers", "key", "identify", "sdk", "objects", "pch",
                      "compile", "publish", "record"} => \A i \in Invocations : answer[p][i] = None
        /\ pc[p] = "store" => storing[p] # None /\ answer[p][storing[p]] # None
        /\ pc[p] = "done" => \A i \in Invocations : answer[p][i] # None

\* The precompiled header is not there before the objects.
SdkInv ==
    /\ sdk \subseteq Whole /\ ("pch" \in sdk => "objects" \in sdk)
    /\ \A p \in Processes :
          /\ pc[p] = "pch" => "objects" \in sdk
          /\ pc[p] \in {"compile", "publish"} => "objects" \in sdk /\ "pch" \in sdk

\* What a process has, it has read during its call.
WindowInv ==
    \A p \in Processes :
        /\ pc[p] # "idle" =>
              source[p] \in window[p][Source] /\ \A f \in Files : disk[f] \in window[p][f]
        /\ pc[p] \notin {"idle", "headers"} => scanned[p] \in window[p][Header]
        /\ pc[p] \notin {"idle", "headers", "key"} =>
              key[p].source = source[p] /\ key[p].header \in window[p][Header]
        /\ \A i \in Invocations : answer[p][i] # None =>
              answer[p][i].seen \in window[p][Reads[i]]

\* The identity that is right for a source key.
Named(k) == [code |-> Emits[<<k.source, k.header>>], header |-> k.header]

\* What is stored is what its name says, unless the header was saved while it
\* was made.
StoredInv ==
    /\ \A id \in Identities : entry[id] # None =>
          entry[id].code = id.code /\ (id \notin staleEntries => entry[id] = id)
    /\ \A k \in SourceKeys : lookup[k] # None /\ k \notin staleKeys => lookup[k] = Named(k)

\* And so it is with what a process is about to store.
NamedBy(p) ==
    /\ pc[p] \in {"key", "identify"} /\ "lookup" \notin spoiled[p] => scanned[p] = disk[Header]
    /\ pc[p] = "identify" /\ "lookup" \notin spoiled[p] => key[p].header = disk[Header]
    /\ pc[p] \in {"sdk", "objects", "pch", "compile", "publish", "record"}
          /\ "lookup" \notin spoiled[p] => identity[p] = Named(key[p])
    /\ pc[p] \in {"sdk", "objects", "pch", "compile", "publish"} =>
          identity[p].code = Emits[Loaded(p)]
    /\ pc[p] \in {"sdk", "objects", "pch", "compile"} /\ "entry" \notin spoiled[p] =>
          identity[p].header = disk[Header]
    /\ pc[p] = "publish" =>
          /\ built[p].code = identity[p].code
          /\ "entry" \notin spoiled[p] => built[p] = identity[p]

NamedInv == StoredInv /\ \A p \in Processes : NamedBy(p)

\* Where a process uses a worker that is there.
Served == {"record", "read", "drop", "singles", "run", "store", "done"}

\* The worker is made of what was there during the call, unless the process took
\* what a save had made wrong for another.
ServedBy(p) ==
    /\ pc[p] \in {"sdk", "objects", "pch", "compile", "publish"} => OfCall(p, identity[p])
    /\ pc[p] = "publish" => OfCall(p, built[p])
    /\ pc[p] \in Served /\ "answers" \notin spoiled[p] => OfCall(p, entry[identity[p]])

ServedInv == \A p \in Processes : ServedBy(p)

Booleans ==
    /\ batchHit \in [Processes -> BOOLEAN]
    /\ ran \in [Processes -> BOOLEAN]
    /\ warm \in BOOLEAN

\* What saves have made wrong.
Ghosts ==
    /\ spoiled \in [Processes -> SUBSET {"lookup", "entry", "answers"}]
    /\ staleKeys \subseteq SourceKeys /\ staleEntries \subseteq Identities

Counters ==
    /\ begun \in [Processes -> {"busy", "alone", "warm"}]
    /\ events \in 0 .. MaxEvents /\ calls \in 0 .. MaxCalls

-----------------------------------------------------------------------------
\* The steps, one by one.
LEMMA StepCases ==
    ASSUME NEW P, [Next]_vars,
           \A p \in Processes : Begin(p) => P,
           \A p \in Processes : ScanHeaders(p) => P,
           \A p \in Processes : Lookup(p) => P,
           \A p \in Processes : Refuse(p) => P,
           \A p \in Processes : Identify(p) => P,
           \A p \in Processes : FindSdk(p) => P,
           \A p \in Processes : PublishObjects(p) => P,
           \A p \in Processes : PublishPch(p) => P,
           \A p \in Processes : Compile(p) => P,
           \A p \in Processes : CompileFails(p) => P,
           \A p \in Processes : Publish(p) => P,
           \A p \in Processes : Record(p) => P,
           \A p \in Processes : ReadBatch(p) => P,
           \A p \in Processes : DropBatch(p) => P,
           \A p \in Processes : ReadSingles(p) => P,
           \A p \in Processes, i \in Invocations : Expand(p, i) => P,
           \A p \in Processes : StoreSingle(p) => P,
           \A p \in Processes : StoreBatch(p) => P,
           \A p \in Processes : ExpandFails(p) => P,
           \A p \in Processes : Return(p) => P,
           \A p \in Processes : Kill(p) => P,
           \A f \in Files, c \in Contents : Edit(f, c) => P,
           UNCHANGED vars => P
    PROVE  P
<1>1. \A save \in Saves : save[1] \in Files /\ save[2] \in Contents
    BY MacroCacheAssumption
<1> QED  BY <1>1 DEF Next, Step, Finished

\* Files are what processes read; there are contents for what nobody has read.
LEMMA Initially ==
    /\ Source \in Files /\ Header \in Files
    /\ \A i \in Invocations : Reads[i] \in Files
    /\ InitContent[Source] \in Contents /\ InitContent[Header] \in Contents
    /\ FirstKey \in SourceKeys /\ FirstIdentity \in Identities
    /\ \A c, d \in Contents : Emits[<<c, d>>] \in Contents
    /\ NoWindow \in [Files -> SUBSET Contents]
    /\ NoAnswers \in [Invocations -> MaybeIn(Answers)]
BY MacroCacheAssumption DEF Files, FirstKey, FirstIdentity, SourceKeys, Identities, NoWindow,
   NoAnswers, MaybeIn

\* Identities and workers are made of contents.
LEMMA Records ==
    /\ \A c, d \in Contents : [source |-> c, header |-> d] \in SourceKeys
    /\ \A c, d \in Contents : [code |-> c, header |-> d] \in Identities
    /\ \A c, d \in Contents : [code |-> c, header |-> d] \in Workers
    /\ \A w \in Workers, c \in Contents : [worker |-> w, seen |-> c] \in Answers
BY DEF SourceKeys, Identities, Workers, Answers

\* Two steps in the terms that matter below.
LEMMA ReadBatchDoes ==
    ASSUME NEW p \in Processes, ReadBatch(p)
    PROVE  /\ pc[p] = "read"
           /\ UNCHANGED <<disk, lookup, entry, sdk, single, batch, source, scanned, key, identity,
                          built, storing, window, spoiled, staleKeys, staleEntries>>
           /\ \E place \in {"run", "drop", "singles"} :
                 /\ pc' = [pc EXCEPT ![p] = place]
                 /\ place # "run" => answer' = answer
           /\ \/ answer' = answer
              \/ /\ answer' = [answer EXCEPT ![p] = batch[identity[p]]]
                 /\ batch[identity[p]] # None
                 /\ \A i \in Invocations : batch[identity[p]][i].seen = disk[Reads[i]]
<1>1. /\ pc[p] = "read"
      /\ UNCHANGED <<disk, lookup, entry, sdk, single, batch, source, scanned, key, identity, built,
                     storing, window, spoiled, staleKeys, staleEntries>>
    BY DEF ReadBatch, workerCache, expansionCache, history, saves
<1>2. \E place \in {"run", "drop", "singles"} :
         /\ pc' = [pc EXCEPT ![p] = place]
         /\ place # "run" => answer' = answer
    BY Zenon DEF ReadBatch, Goto
<1>3. \/ answer' = answer
      \/ answer' = [answer EXCEPT ![p] = batch[identity[p]]] /\ BatchCurrent(identity[p])
    BY Zenon DEF ReadBatch
<1>4. BatchCurrent(identity[p]) =>
         /\ batch[identity[p]] # None
         /\ \A i \in Invocations : batch[identity[p]][i].seen = disk[Reads[i]]
    BY Zenon DEF BatchCurrent, Current
<1> QED  BY ONLY <1>1, <1>2, <1>3, <1>4

LEMMA ExpandDoes ==
    ASSUME Core, NEW p \in Processes, NEW i \in Invocations, Expand(p, i),
           pc[p] = "run" => entry[identity[p]] # None
    PROVE  \E a \in Answers :
              /\ a.worker = entry[identity[p]] /\ a.seen = disk[Reads[i]]
              /\ answer' = [answer EXCEPT ![p][i] = a]
              /\ pc[p] = "run"
              /\ UNCHANGED <<disk, lookup, entry, sdk, single, batch, source, scanned, key, identity,
                             built, window, spoiled, staleKeys, staleEntries>>
              /\ \/ UNCHANGED <<storing, pc>>
                 \/ storing' = [storing EXCEPT ![p] = i] /\ pc' = [pc EXCEPT ![p] = "store"]
<1> DEFINE a == [worker |-> entry[identity[p]], seen |-> disk[Reads[i]]]
<1>1. a \in Answers
    <2>1. pc[p] = "run"
        BY DEF Expand
    <2>2. entry[identity[p]] \in Workers /\ disk[Reads[i]] \in Contents
        BY <2>1, Initially DEF Core, MaybeIn
    <2> QED  BY ONLY <2>2, Records
<1>2. a.worker = entry[identity[p]] /\ a.seen = disk[Reads[i]]
    OBVIOUS
<1> HIDE DEF a
<1>3. answer' = [answer EXCEPT ![p][i] = a]
    BY Zenon DEF Expand, a
<1>4. /\ pc[p] = "run"
      /\ UNCHANGED <<disk, lookup, entry, sdk, single, batch, source, scanned, key, identity, built,
                     window, spoiled, staleKeys, staleEntries>>
    BY DEF Expand, workerCache, expansionCache, saves
<1>5. \/ UNCHANGED <<storing, pc>>
      \/ storing' = [storing EXCEPT ![p] = i] /\ pc' = [pc EXCEPT ![p] = "store"]
    BY Zenon DEF Expand, StoreIfCacheable, Goto
<1> QED  BY <1>1, <1>2, <1>3, <1>4, <1>5

\* Types of the variables that the arguments below index.
LEMMA CoreStep ==
    ASSUME Core, HaveInv, [Next]_vars
    PROVE  Core'
<1> USE Initially, Records, NoneAssumption DEF Core, HaveInv, Places, Building, Idle,
        Goto, Leave, Fail, Break, MaybeIn, workerCache, expansionCache, locals, history, saves
<1>1. ASSUME NEW p \in Processes, Begin(p) PROVE Core'
    BY <1>1 DEF Begin
<1>2. ASSUME NEW p \in Processes, Lookup(p) PROVE Core'
    <2> DEFINE k == [source |-> source[p], header |-> disk[Header]]
    <2>1. k \in SourceKeys
        BY Initially, Records DEF Core
    <2> HIDE DEF k
    <2>2. /\ key' = [key EXCEPT ![p] = k]
          /\ \/ lookup[k] # None /\ identity' = [identity EXCEPT ![p] = lookup[k]]
                /\ pc' = [pc EXCEPT ![p] = "read"]
             \/ identity' = identity /\ pc' = [pc EXCEPT ![p] = "identify"]
          /\ UNCHANGED <<disk, lookup, entry, single, batch, source, scanned, built, answer, storing,
                         window>>
        BY <1>2 DEF Lookup, LookupHits, k
    <2>3. key' \in [Processes -> SourceKeys]
        BY <2>1, <2>2
    <2>4. identity' \in [Processes -> Identities]
        <3>1. lookup[k] # None => lookup[k] \in Identities
            BY <2>1
        <3>2. identity \in [Processes -> Identities]
            BY DEF Core
        <3> QED  BY ONLY <2>2, <3>1, <3>2
    <2>5. pc' \in [Processes -> Places]
        BY ONLY <2>2, Core DEF Core, Places, Building
    <2> QED  BY <2>2, <2>3, <2>4, <2>5
<1>3. ASSUME NEW p \in Processes, Refuse(p) PROVE Core'
    BY <1>3 DEF Refuse
<1>4. ASSUME NEW p \in Processes, Identify(p) PROVE Core'
    <2> DEFINE id == [code |-> Emits[Loaded(p)], header |-> disk[Header]]
    <2>1. id \in Identities
        BY Initially, Records DEF Loaded
    <2> HIDE DEF id
    <2>2. /\ identity' = [identity EXCEPT ![p] = id]
          /\ UNCHANGED <<disk, lookup, entry, single, batch, source, scanned, key, built, answer,
                         storing, window>>
        BY <1>4 DEF Identify, id
    <2>3. \E place \in {"record", "sdk"} : pc' = [pc EXCEPT ![p] = place]
        BY ONLY <1>4, Zenon DEF Identify, Goto
    <2> QED  BY <2>1, <2>2, <2>3
<1>5. ASSUME NEW p \in Processes, FindSdk(p) PROVE Core'
    BY <1>5 DEF FindSdk
<1>6. ASSUME NEW p \in Processes, PublishObjects(p) PROVE Core'
    BY <1>6 DEF PublishObjects
<1>7. ASSUME NEW p \in Processes, PublishPch(p) PROVE Core'
    BY <1>7 DEF PublishPch
<1>8. ASSUME NEW p \in Processes, Compile(p) PROVE Core'
    <2>1. [code |-> Emits[Loaded(p)], header |-> disk[Header]] \in Workers
        BY Initially, Records DEF Loaded
    <2> QED  BY <1>8, <2>1 DEF Compile
<1>9. ASSUME NEW p \in Processes, CompileFails(p) PROVE Core'
    BY <1>9 DEF CompileFails
<1>10. ASSUME NEW p \in Processes, Publish(p) PROVE Core'
    BY <1>10 DEF Publish
<1>11. ASSUME NEW p \in Processes, Record(p) PROVE Core'
    BY <1>11 DEF Record
<1>12. ASSUME NEW p \in Processes, ReadBatch(p) PROVE Core'
    <2>1. /\ UNCHANGED <<disk, lookup, entry, single, batch, source, scanned, key, identity, built,
                       storing, window>>
        BY <1>12 DEF ReadBatch
    <2>5. \E place \in Places : pc' = [pc EXCEPT ![p] = place]
        <3>1. \E place \in {"run", "drop", "singles"} : pc' = [pc EXCEPT ![p] = place]
            BY ONLY <1>12, Zenon DEF ReadBatch, Goto
        <3> QED  BY <3>1
    <2>6. pc' \in [Processes -> Places]
        BY ONLY <2>5, Core DEF Core
    <2>2. batch[identity[p]] # None => batch[identity[p]] \in [Invocations -> MaybeIn(Answers)]
        BY DEF Core
    <2>3. answer' = answer \/ /\ batch[identity[p]] # None
                              /\ answer' = [answer EXCEPT ![p] = batch[identity[p]]]
        BY <1>12 DEF ReadBatch, BatchCurrent
    <2>4. answer' \in [Processes -> [Invocations -> MaybeIn(Answers)]]
        BY <2>2, <2>3 DEF Core
    <2> QED  BY <2>1, <2>4, <2>6
<1>13. ASSUME NEW p \in Processes, DropBatch(p) PROVE Core'
    BY <1>13 DEF DropBatch
<1>14. ASSUME NEW p \in Processes, ReadSingles(p) PROVE Core'
    BY <1>14 DEF ReadSingles
<1>15. ASSUME NEW p \in Processes, NEW i \in Invocations, Expand(p, i) PROVE Core'
    <2> DEFINE a == [worker |-> entry[identity[p]], seen |-> disk[Reads[i]]]
    <2>1. a \in Answers
        <3>1. entry[identity[p]] \in Workers /\ disk[Reads[i]] \in Contents
            BY <1>15, Initially DEF Expand
        <3> QED  BY ONLY <3>1, Records
    <2> HIDE DEF a
    <2>2. /\ answer' = [answer EXCEPT ![p][i] = a]
          /\ UNCHANGED <<disk, lookup, entry, single, batch, source, scanned, key, identity, built,
                         window>>
        BY <1>15 DEF Expand, a
    <2>3. answer' \in [Processes -> [Invocations -> MaybeIn(Answers)]]
        BY ONLY <1>15, <2>1, <2>2, Core DEF Core, MaybeIn
    <2>4. \/ UNCHANGED <<storing, pc>>
          \/ storing' = [storing EXCEPT ![p] = i] /\ pc' = [pc EXCEPT ![p] = "store"]
        BY ONLY <1>15, Zenon DEF Expand, StoreIfCacheable, Goto
    <2>5. pc' \in [Processes -> Places]
        BY ONLY <2>4, Core DEF Core, Places, Building
    <2>6. storing' \in [Processes -> MaybeIn(Invocations)]
        BY ONLY <2>4, Core, i \in Invocations, ZenonT(60) DEF Core, MaybeIn
    <2> QED  BY <2>2, <2>3, <2>5, <2>6
<1>16. ASSUME NEW p \in Processes, StoreSingle(p) PROVE Core'
    <2>1. storing[p] \in Invocations
        BY <1>16 DEF StoreSingle
    <2>2. /\ single' = [single EXCEPT ![identity[p]][storing[p]] = answer[p][storing[p]]]
          /\ pc' = [pc EXCEPT ![p] = "run"]
          /\ UNCHANGED <<disk, lookup, entry, batch, source, scanned, key, identity, built, answer,
                         storing, window>>
        BY <1>16 DEF StoreSingle
    <2>3. single' \in [Identities -> [Invocations -> MaybeIn(Answers)]]
        BY ONLY <2>1, <2>2, Core, <1>16 DEF Core, MaybeIn
    <2> QED  BY <2>2, <2>3
<1>17. ASSUME NEW p \in Processes, StoreBatch(p) PROVE Core'
    <2>1. answer[p] \in [Invocations -> MaybeIn(Answers)]
        BY DEF Core
    <2>2. (\A i \in Invocations : answer[p][i] # None) => answer[p] \in [Invocations -> Answers]
        BY <2>1
    <2>3. \/ batch' = batch
          \/ batch' = [batch EXCEPT ![identity[p]] = answer[p]]
        BY <1>17 DEF StoreBatch
    <2>4. /\ \A i \in Invocations : answer[p][i] # None
          /\ pc' = [pc EXCEPT ![p] = "done"]
          /\ UNCHANGED <<disk, lookup, entry, single, source, scanned, key, identity, built, answer,
                         storing, window>>
        BY <1>17 DEF StoreBatch
    <2>5. batch' \in [Identities -> MaybeIn([Invocations -> Answers])]
        <3>1. batch \in [Identities -> MaybeIn([Invocations -> Answers])]
            BY DEF Core
        <3>2. answer[p] \in MaybeIn([Invocations -> Answers])
            BY <2>2, <2>4 DEF MaybeIn
        <3> QED  BY ONLY <2>3, <3>1, <3>2
    <2> QED  BY <2>4, <2>5
<1>18. ASSUME NEW p \in Processes, ExpandFails(p) PROVE Core'
    BY <1>18 DEF ExpandFails
<1>19. ASSUME NEW p \in Processes, Return(p) PROVE Core'
    BY <1>19 DEF Return
<1>20. ASSUME NEW p \in Processes, Kill(p) PROVE Core'
    BY <1>20 DEF Kill
<1>21. ASSUME NEW f \in Files, NEW c \in Contents, Edit(f, c) PROVE Core'
    BY <1>21 DEF Edit
<1>22. ASSUME UNCHANGED vars PROVE Core'
    BY <1>22 DEF vars
<1>23. ASSUME NEW p \in Processes, ScanHeaders(p) PROVE Core'
    BY <1>23 DEF ScanHeaders
<1> HIDE DEF Core
<1> QED  BY <1>1, <1>2, <1>3, <1>4, <1>5, <1>6, <1>7, <1>8, <1>9, <1>10, <1>11, <1>12,
            <1>13, <1>14, <1>15, <1>16, <1>17, <1>18, <1>19, <1>20, <1>21, <1>22,
            <1>23, StepCases

\* Whoever goes on with an identity has found its worker there, or made it.
LEMMA HaveStep ==
    ASSUME Core, HaveInv, [Next]_vars
    PROVE  HaveInv'
<1> USE Initially, NoneAssumption DEF Core, HaveInv, Places, Building, Idle, Goto,
        Leave, Fail, Break, MaybeIn, NoAnswers, workerCache, expansionCache, locals,
        history, saves
<1>1. ASSUME NEW p \in Processes, Begin(p) PROVE HaveInv'
    BY <1>1 DEF Begin
<1>2. ASSUME NEW p \in Processes, Lookup(p) PROVE HaveInv'
    <2>1. [source |-> source[p], header |-> disk[Header]] \in SourceKeys
        BY Initially, Records
    <2> DEFINE k == [source |-> source[p], header |-> disk[Header]]
    <2> HIDE DEF k
    <2>2. \/ /\ entry[lookup[k]] # None /\ pc' = [pc EXCEPT ![p] = "read"]
             /\ identity' = [identity EXCEPT ![p] = lookup[k]]
          \/ pc' = [pc EXCEPT ![p] = "identify"] /\ identity' = identity
        BY <1>2, Zenon DEF Lookup, LookupHits, k, Goto
    <2>3. pc[p] = "key" /\ UNCHANGED <<entry, answer, built, storing>>
        BY <1>2 DEF Lookup
    <2> QED  BY <2>2, <2>3
<1>3. ASSUME NEW p \in Processes, Refuse(p) PROVE HaveInv'
    BY <1>3 DEF Refuse
<1>4. ASSUME NEW p \in Processes, Identify(p) PROVE HaveInv'
    BY <1>4 DEF Identify
<1>5. ASSUME NEW p \in Processes, FindSdk(p) PROVE HaveInv'
    BY <1>5 DEF FindSdk
<1>6. ASSUME NEW p \in Processes, PublishObjects(p) PROVE HaveInv'
    BY <1>6 DEF PublishObjects
<1>7. ASSUME NEW p \in Processes, PublishPch(p) PROVE HaveInv'
    BY <1>7 DEF PublishPch
<1>8. ASSUME NEW p \in Processes, Compile(p) PROVE HaveInv'
    <2> DEFINE w == [code |-> Emits[Loaded(p)], header |-> disk[Header]]
    <2>1. w # None
        BY Initially, Records DEF Loaded
    <2> HIDE DEF w
    <2>2. /\ built' = [built EXCEPT ![p] = w] /\ pc' = [pc EXCEPT ![p] = "publish"]
          /\ pc[p] = "compile" /\ UNCHANGED <<entry, identity, answer, storing>>
        BY <1>8 DEF Compile, w
    <2> QED  BY <2>1, <2>2
<1>9. ASSUME NEW p \in Processes, CompileFails(p) PROVE HaveInv'
    BY <1>9 DEF CompileFails
<1>10. ASSUME NEW p \in Processes, Publish(p) PROVE HaveInv'
    BY <1>10 DEF Publish
<1>11. ASSUME NEW p \in Processes, Record(p) PROVE HaveInv'
    BY <1>11 DEF Record
<1>12. ASSUME NEW p \in Processes, ReadBatch(p) PROVE HaveInv'
    <2>1. pc[p] = "read" /\ UNCHANGED <<entry, identity, built, storing>>
        BY <1>12 DEF ReadBatch
    <2>2. answer' = answer \/ answer' = [answer EXCEPT ![p] = batch[identity[p]]]
        BY ONLY <1>12, Zenon DEF ReadBatch
    <2>3. \E place \in {"run", "drop", "singles"} :
             /\ pc' = [pc EXCEPT ![p] = place]
             /\ place # "run" => answer' = answer
        BY ONLY <1>12, Zenon DEF ReadBatch, Goto
    <2>4. PICK place \in {"run", "drop", "singles"} :
             /\ pc' = [pc EXCEPT ![p] = place]
             /\ place # "run" => answer' = answer
        BY ONLY <2>3
    <2> QED  BY <2>1, <2>2, <2>4
<1>13. ASSUME NEW p \in Processes, DropBatch(p) PROVE HaveInv'
    BY <1>13 DEF DropBatch
<1>14. ASSUME NEW p \in Processes, ReadSingles(p) PROVE HaveInv'
    BY <1>14 DEF ReadSingles
<1>15. ASSUME NEW p \in Processes, NEW i \in Invocations, Expand(p, i) PROVE HaveInv'
    <2>1. [worker |-> entry[identity[p]], seen |-> disk[Reads[i]]] # None
        <3>1. entry[identity[p]] \in Workers /\ disk[Reads[i]] \in Contents
            BY <1>15, Initially DEF Expand
        <3>2. [worker |-> entry[identity[p]], seen |-> disk[Reads[i]]] \in Answers
            BY ONLY <3>1, Records
        <3> QED  BY <3>2
    <2> DEFINE a == [worker |-> entry[identity[p]], seen |-> disk[Reads[i]]]
    <2> HIDE DEF a
    <2>2. /\ answer' = [answer EXCEPT ![p][i] = a]
          /\ pc[p] = "run" /\ UNCHANGED <<entry, identity, built>>
        BY <1>15 DEF Expand, a
    <2>3. \/ UNCHANGED <<storing, pc>>
          \/ storing' = [storing EXCEPT ![p] = i] /\ pc' = [pc EXCEPT ![p] = "store"]
        BY ONLY <1>15, Zenon DEF Expand, StoreIfCacheable, Goto
    <2>4. a # None /\ i # None
        BY <2>1 DEF a
    <2> QED  BY <2>2, <2>3, <2>4
<1>16. ASSUME NEW p \in Processes, StoreSingle(p) PROVE HaveInv'
    BY <1>16 DEF StoreSingle
<1>17. ASSUME NEW p \in Processes, StoreBatch(p) PROVE HaveInv'
    BY <1>17 DEF StoreBatch
<1>18. ASSUME NEW p \in Processes, ExpandFails(p) PROVE HaveInv'
    BY <1>18 DEF ExpandFails
<1>19. ASSUME NEW p \in Processes, Return(p) PROVE HaveInv'
    BY <1>19 DEF Return
<1>20. ASSUME NEW p \in Processes, Kill(p) PROVE HaveInv'
    BY <1>20 DEF Kill
<1>21. ASSUME NEW f \in Files, NEW c \in Contents, Edit(f, c) PROVE HaveInv'
    BY <1>21 DEF Edit
<1>22. ASSUME UNCHANGED vars PROVE HaveInv'
    BY <1>22 DEF vars
<1>23. ASSUME NEW p \in Processes, ScanHeaders(p) PROVE HaveInv'
    BY <1>23 DEF ScanHeaders
<1> HIDE DEF HaveInv
<1> QED  BY <1>1, <1>2, <1>3, <1>4, <1>5, <1>6, <1>7, <1>8, <1>9, <1>10, <1>11, <1>12,
            <1>13, <1>14, <1>15, <1>16, <1>17, <1>18, <1>19, <1>20, <1>21, <1>22,
            <1>23, StepCases

\* Only a rename makes an entry, and never over another one.
LEMMA StableStep ==
    ASSUME Core, [Next]_vars
    PROVE  \A id \in Identities : entry[id] # None => entry'[id] = entry[id]
<1> USE DEF Core, workerCache, expansionCache, locals, history, saves, Leave, Fail, Break
<1> DEFINE Kept == \A id \in Identities : entry[id] # None => entry'[id] = entry[id]
<1>1. ASSUME NEW p \in Processes, Begin(p) PROVE Kept
    BY <1>1 DEF Begin
<1>2. ASSUME NEW p \in Processes, Lookup(p) PROVE Kept
    BY <1>2 DEF Lookup
<1>3. ASSUME NEW p \in Processes, Refuse(p) PROVE Kept
    BY <1>3 DEF Refuse
<1>4. ASSUME NEW p \in Processes, Identify(p) PROVE Kept
    BY <1>4 DEF Identify
<1>5. ASSUME NEW p \in Processes, FindSdk(p) PROVE Kept
    BY <1>5 DEF FindSdk
<1>6. ASSUME NEW p \in Processes, PublishObjects(p) PROVE Kept
    BY <1>6 DEF PublishObjects
<1>7. ASSUME NEW p \in Processes, PublishPch(p) PROVE Kept
    BY <1>7 DEF PublishPch
<1>8. ASSUME NEW p \in Processes, Compile(p) PROVE Kept
    BY <1>8 DEF Compile
<1>9. ASSUME NEW p \in Processes, CompileFails(p) PROVE Kept
    BY <1>9 DEF CompileFails
<1>10. ASSUME NEW p \in Processes, Publish(p) PROVE Kept
    BY <1>10 DEF Publish
<1>11. ASSUME NEW p \in Processes, Record(p) PROVE Kept
    BY <1>11 DEF Record
<1>12. ASSUME NEW p \in Processes, ReadBatch(p) PROVE Kept
    BY <1>12 DEF ReadBatch
<1>13. ASSUME NEW p \in Processes, DropBatch(p) PROVE Kept
    BY <1>13 DEF DropBatch
<1>14. ASSUME NEW p \in Processes, ReadSingles(p) PROVE Kept
    BY <1>14 DEF ReadSingles
<1>15. ASSUME NEW p \in Processes, NEW i \in Invocations, Expand(p, i) PROVE Kept
    BY <1>15 DEF Expand
<1>16. ASSUME NEW p \in Processes, StoreSingle(p) PROVE Kept
    BY <1>16 DEF StoreSingle
<1>17. ASSUME NEW p \in Processes, StoreBatch(p) PROVE Kept
    BY <1>17 DEF StoreBatch
<1>18. ASSUME NEW p \in Processes, ExpandFails(p) PROVE Kept
    BY <1>18 DEF ExpandFails
<1>19. ASSUME NEW p \in Processes, Return(p) PROVE Kept
    BY <1>19 DEF Return
<1>20. ASSUME NEW p \in Processes, Kill(p) PROVE Kept
    BY <1>20 DEF Kill
<1>21. ASSUME NEW f \in Files, NEW c \in Contents, Edit(f, c) PROVE Kept
    BY <1>21 DEF Edit
<1>22. ASSUME UNCHANGED vars PROVE Kept
    BY <1>22 DEF vars
<1>23. ASSUME NEW p \in Processes, ScanHeaders(p) PROVE Kept
    BY <1>23 DEF ScanHeaders
<1> QED  BY <1>1, <1>2, <1>3, <1>4, <1>5, <1>6, <1>7, <1>8, <1>9, <1>10, <1>11, <1>12,
            <1>13, <1>14, <1>15, <1>16, <1>17, <1>18, <1>19, <1>20, <1>21, <1>22,
            <1>23, StepCases

\* An SDK entry only grows, objects first.
LEMMA SdkStep ==
    ASSUME Core, HaveInv, SdkInv, [Next]_vars
    PROVE  SdkInv'
<1> USE DEF Core, HaveInv, SdkInv, Whole, Places, Building, Idle, Goto, Leave, Fail,
        Break, workerCache, expansionCache, locals, history, saves
<1>1. ASSUME NEW p \in Processes, Begin(p) PROVE SdkInv'
    BY <1>1 DEF Begin
<1>2. ASSUME NEW p \in Processes, Lookup(p) PROVE SdkInv'
    BY <1>2 DEF Lookup
<1>3. ASSUME NEW p \in Processes, Refuse(p) PROVE SdkInv'
    BY <1>3 DEF Refuse
<1>4. ASSUME NEW p \in Processes, Identify(p) PROVE SdkInv'
    BY <1>4 DEF Identify
<1>5. ASSUME NEW p \in Processes, FindSdk(p) PROVE SdkInv'
    BY <1>5 DEF FindSdk
<1>6. ASSUME NEW p \in Processes, PublishObjects(p) PROVE SdkInv'
    <2>1. sdk \subseteq sdk' /\ sdk' \subseteq Whole
        BY <1>6 DEF PublishObjects
    <2>2. "objects" \in sdk'
        <3>1. CASE sdk = {}
            BY <1>6, <3>1 DEF PublishObjects
        <3>2. CASE sdk # {}
            <4>1. PICK part \in sdk : TRUE
                BY <3>2
            <4> QED  BY <1>6, <3>2, <4>1 DEF PublishObjects
        <3> QED  BY <3>1, <3>2
    <2>3. \/ "pch" \in sdk /\ pc' = [pc EXCEPT ![p] = "compile"]
          \/ pc' = [pc EXCEPT ![p] = "pch"]
        BY <1>6 DEF PublishObjects
    <2> QED  BY <2>1, <2>2, <2>3
<1>7. ASSUME NEW p \in Processes, PublishPch(p) PROVE SdkInv'
    BY <1>7 DEF PublishPch
<1>8. ASSUME NEW p \in Processes, Compile(p) PROVE SdkInv'
    BY <1>8 DEF Compile
<1>9. ASSUME NEW p \in Processes, CompileFails(p) PROVE SdkInv'
    BY <1>9 DEF CompileFails
<1>10. ASSUME NEW p \in Processes, Publish(p) PROVE SdkInv'
    BY <1>10 DEF Publish
<1>11. ASSUME NEW p \in Processes, Record(p) PROVE SdkInv'
    BY <1>11 DEF Record
<1>12. ASSUME NEW p \in Processes, ReadBatch(p) PROVE SdkInv'
    BY <1>12 DEF ReadBatch
<1>13. ASSUME NEW p \in Processes, DropBatch(p) PROVE SdkInv'
    BY <1>13 DEF DropBatch
<1>14. ASSUME NEW p \in Processes, ReadSingles(p) PROVE SdkInv'
    BY <1>14 DEF ReadSingles
<1>15. ASSUME NEW p \in Processes, NEW i \in Invocations, Expand(p, i) PROVE SdkInv'
    <2>1. PICK a \in Answers :
              /\ a.worker = entry[identity[p]] /\ a.seen = disk[Reads[i]]
              /\ answer' = [answer EXCEPT ![p][i] = a]
              /\ pc[p] = "run"
              /\ UNCHANGED <<disk, lookup, entry, sdk, single, batch, source, scanned, key, identity,
                             built, window, spoiled, staleKeys, staleEntries>>
              /\ \/ UNCHANGED <<storing, pc>>
                 \/ storing' = [storing EXCEPT ![p] = i] /\ pc' = [pc EXCEPT ![p] = "store"]
        BY <1>15, ExpandDoes
    <2> QED  BY <2>1
<1>16. ASSUME NEW p \in Processes, StoreSingle(p) PROVE SdkInv'
    BY <1>16 DEF StoreSingle
<1>17. ASSUME NEW p \in Processes, StoreBatch(p) PROVE SdkInv'
    BY <1>17 DEF StoreBatch
<1>18. ASSUME NEW p \in Processes, ExpandFails(p) PROVE SdkInv'
    BY <1>18 DEF ExpandFails
<1>19. ASSUME NEW p \in Processes, Return(p) PROVE SdkInv'
    BY <1>19 DEF Return
<1>20. ASSUME NEW p \in Processes, Kill(p) PROVE SdkInv'
    BY <1>20 DEF Kill
<1>21. ASSUME NEW f \in Files, NEW c \in Contents, Edit(f, c) PROVE SdkInv'
    BY <1>21 DEF Edit
<1>22. ASSUME UNCHANGED vars PROVE SdkInv'
    BY <1>22 DEF vars
<1>23. ASSUME NEW p \in Processes, ScanHeaders(p) PROVE SdkInv'
    BY <1>23 DEF ScanHeaders
<1> HIDE DEF SdkInv
<1> QED  BY <1>1, <1>2, <1>3, <1>4, <1>5, <1>6, <1>7, <1>8, <1>9, <1>10, <1>11, <1>12,
            <1>13, <1>14, <1>15, <1>16, <1>17, <1>18, <1>19, <1>20, <1>21, <1>22,
            <1>23, StepCases

\* Expansions come from the worker of the identity they are cached under.
LEMMA NamesStep ==
    ASSUME Core, HaveInv, ExpansionsNameTheirWorker, [Next]_vars
    PROVE  ExpansionsNameTheirWorker'
<1> USE NoneAssumption, Initially DEF Core, HaveInv, ExpansionsNameTheirWorker, Idle,
        Goto, Leave, Fail, Break, MaybeIn, NoAnswers, workerCache, expansionCache,
        locals, history, saves
<1>1. ASSUME NEW p \in Processes, Begin(p) PROVE ExpansionsNameTheirWorker'
    BY <1>1 DEF Begin
<1>2. ASSUME NEW p \in Processes, Lookup(p) PROVE ExpansionsNameTheirWorker'
    <2>1. /\ pc[p] = "key" /\ UNCHANGED <<entry, single, batch, answer>>
          /\ \A q \in Processes \ {p} : identity'[q] = identity[q]
        BY <1>2 DEF Lookup
    <2>2. \A i \in Invocations : answer[p][i] = None
        BY <2>1
    <2> QED  BY ONLY <2>1, <2>2, ExpansionsNameTheirWorker DEF ExpansionsNameTheirWorker
<1>3. ASSUME NEW p \in Processes, Refuse(p) PROVE ExpansionsNameTheirWorker'
    BY <1>3 DEF Refuse
<1>4. ASSUME NEW p \in Processes, Identify(p) PROVE ExpansionsNameTheirWorker'
    BY <1>4 DEF Identify
<1>5. ASSUME NEW p \in Processes, FindSdk(p) PROVE ExpansionsNameTheirWorker'
    BY <1>5 DEF FindSdk
<1>6. ASSUME NEW p \in Processes, PublishObjects(p) PROVE ExpansionsNameTheirWorker'
    BY <1>6 DEF PublishObjects
<1>7. ASSUME NEW p \in Processes, PublishPch(p) PROVE ExpansionsNameTheirWorker'
    BY <1>7 DEF PublishPch
<1>8. ASSUME NEW p \in Processes, Compile(p) PROVE ExpansionsNameTheirWorker'
    BY <1>8 DEF Compile
<1>9. ASSUME NEW p \in Processes, CompileFails(p) PROVE ExpansionsNameTheirWorker'
    BY <1>9 DEF CompileFails
<1>10. ASSUME NEW p \in Processes, Publish(p) PROVE ExpansionsNameTheirWorker'
    <2>1. \A id \in Identities : entry[id] # None => entry'[id] = entry[id]
        BY StableStep
    <2>2. \A id \in Identities, i \in Invocations :
             entry[id] = None => single[id][i] = None /\ batch[id] = None
        BY DEF Answers
    <2>3. \A q \in Processes, i \in Invocations :
             answer[q][i] # None => entry[identity[q]] # None
        BY DEF Answers
    <2>4. UNCHANGED <<single, batch, answer, identity>>
        BY <1>10 DEF Publish
    <2> QED  BY <2>1, <2>2, <2>3, <2>4
<1>11. ASSUME NEW p \in Processes, Record(p) PROVE ExpansionsNameTheirWorker'
    BY <1>11 DEF Record
<1>12. ASSUME NEW p \in Processes, ReadBatch(p) PROVE ExpansionsNameTheirWorker'
    <2>1. PICK place \in {"run", "drop", "singles"} :
             /\ pc' = [pc EXCEPT ![p] = place]
             /\ place # "run" => answer' = answer
        BY <1>12, ReadBatchDoes
    <2>2. UNCHANGED <<disk, lookup, entry, single, batch, source, scanned, key, identity, window>>
          /\ pc[p] = "read"
        BY <1>12, ReadBatchDoes
    <2>3. CASE answer' = answer
        BY <2>1, <2>2, <2>3
    <2>4. ASSUME answer' # answer PROVE ExpansionsNameTheirWorker'
        <3>1. /\ answer' = [answer EXCEPT ![p] = batch[identity[p]]]
              /\ batch[identity[p]] # None
              /\ \A i \in Invocations : batch[identity[p]][i].seen = disk[Reads[i]]
            BY <1>12, <2>4, ReadBatchDoes
        <3> QED  BY <2>1, <2>2, <3>1
    <2> QED  BY <2>3, <2>4
<1>13. ASSUME NEW p \in Processes, DropBatch(p) PROVE ExpansionsNameTheirWorker'
    BY <1>13 DEF DropBatch
<1>14. ASSUME NEW p \in Processes, ReadSingles(p) PROVE ExpansionsNameTheirWorker'
    BY <1>14 DEF ReadSingles
<1>15. ASSUME NEW p \in Processes, NEW i \in Invocations, Expand(p, i) PROVE ExpansionsNameTheirWorker'
    <2>1. PICK a \in Answers :
              /\ a.worker = entry[identity[p]] /\ a.seen = disk[Reads[i]]
              /\ answer' = [answer EXCEPT ![p][i] = a]
              /\ pc[p] = "run"
              /\ UNCHANGED <<disk, lookup, entry, sdk, single, batch, source, scanned, key, identity,
                             built, window, spoiled, staleKeys, staleEntries>>
              /\ \/ UNCHANGED <<storing, pc>>
                 \/ storing' = [storing EXCEPT ![p] = i] /\ pc' = [pc EXCEPT ![p] = "store"]
        BY <1>15, ExpandDoes
    <2> QED  BY <2>1
<1>16. ASSUME NEW p \in Processes, StoreSingle(p) PROVE ExpansionsNameTheirWorker'
    BY <1>16 DEF StoreSingle
<1>17. ASSUME NEW p \in Processes, StoreBatch(p) PROVE ExpansionsNameTheirWorker'
    <2>1. /\ batch' = batch \/ batch' = [batch EXCEPT ![identity[p]] = answer[p]]
          /\ \A i \in Invocations : answer[p][i] # None
          /\ UNCHANGED <<single, entry, answer, identity>>
        BY <1>17 DEF StoreBatch
    <2>2. \A i \in Invocations : answer[p][i].worker = entry[identity[p]]
        BY <2>1
    <2>3. batch \in [Identities -> MaybeIn([Invocations -> Answers])]
        OBVIOUS
    <2>4. \A id \in Identities : batch'[id] # None => \A i \in Invocations :
             batch'[id][i].worker = entry[id]
        BY ONLY <2>1, <2>2, <2>3, ExpansionsNameTheirWorker DEF ExpansionsNameTheirWorker
    <2> QED  BY ONLY <2>1, <2>4, ExpansionsNameTheirWorker DEF ExpansionsNameTheirWorker
<1>18. ASSUME NEW p \in Processes, ExpandFails(p) PROVE ExpansionsNameTheirWorker'
    BY <1>18 DEF ExpandFails
<1>19. ASSUME NEW p \in Processes, Return(p) PROVE ExpansionsNameTheirWorker'
    BY <1>19 DEF Return
<1>20. ASSUME NEW p \in Processes, Kill(p) PROVE ExpansionsNameTheirWorker'
    BY <1>20 DEF Kill
<1>21. ASSUME NEW f \in Files, NEW c \in Contents, Edit(f, c) PROVE ExpansionsNameTheirWorker'
    BY <1>21 DEF Edit
<1>22. ASSUME UNCHANGED vars PROVE ExpansionsNameTheirWorker'
    BY <1>22 DEF vars
<1>23. ASSUME NEW p \in Processes, ScanHeaders(p) PROVE ExpansionsNameTheirWorker'
    BY <1>23 DEF ScanHeaders
<1> HIDE DEF ExpansionsNameTheirWorker
<1> QED  BY <1>1, <1>2, <1>3, <1>4, <1>5, <1>6, <1>7, <1>8, <1>9, <1>10, <1>11, <1>12,
            <1>13, <1>14, <1>15, <1>16, <1>17, <1>18, <1>19, <1>20, <1>21, <1>22,
            <1>23, StepCases

\* What is read is what is there, and a save adds to what may have been read.
LEMMA WindowStep ==
    ASSUME Core, HaveInv, WindowInv, [Next]_vars
    PROVE  WindowInv'
<1> USE NoneAssumption, Initially DEF Core, HaveInv, WindowInv, Places, Building, Idle,
        Goto, Leave, Fail, Break, Current, MaybeIn, NoAnswers, workerCache,
        expansionCache, locals, history, saves
<1>1. ASSUME NEW p \in Processes, Begin(p) PROVE WindowInv'
    BY <1>1 DEF Begin
<1>2. ASSUME NEW p \in Processes, Lookup(p) PROVE WindowInv'
    BY <1>2 DEF Lookup
<1>3. ASSUME NEW p \in Processes, Refuse(p) PROVE WindowInv'
    BY <1>3 DEF Refuse
<1>4. ASSUME NEW p \in Processes, Identify(p) PROVE WindowInv'
    BY <1>4 DEF Identify
<1>5. ASSUME NEW p \in Processes, FindSdk(p) PROVE WindowInv'
    BY <1>5 DEF FindSdk
<1>6. ASSUME NEW p \in Processes, PublishObjects(p) PROVE WindowInv'
    BY <1>6 DEF PublishObjects
<1>7. ASSUME NEW p \in Processes, PublishPch(p) PROVE WindowInv'
    BY <1>7 DEF PublishPch
<1>8. ASSUME NEW p \in Processes, Compile(p) PROVE WindowInv'
    BY <1>8 DEF Compile
<1>9. ASSUME NEW p \in Processes, CompileFails(p) PROVE WindowInv'
    BY <1>9 DEF CompileFails
<1>10. ASSUME NEW p \in Processes, Publish(p) PROVE WindowInv'
    BY <1>10 DEF Publish
<1>11. ASSUME NEW p \in Processes, Record(p) PROVE WindowInv'
    BY <1>11 DEF Record
<1>12. ASSUME NEW p \in Processes, ReadBatch(p) PROVE WindowInv'
    <2>1. PICK place \in {"run", "drop", "singles"} :
             /\ pc' = [pc EXCEPT ![p] = place]
             /\ place # "run" => answer' = answer
        BY <1>12, ReadBatchDoes
    <2>2. UNCHANGED <<disk, lookup, entry, single, batch, source, scanned, key, identity, window>>
          /\ pc[p] = "read"
        BY <1>12, ReadBatchDoes
    <2>3. CASE answer' = answer
        BY <2>1, <2>2, <2>3
    <2>4. ASSUME answer' # answer PROVE WindowInv'
        <3>1. /\ answer' = [answer EXCEPT ![p] = batch[identity[p]]]
              /\ batch[identity[p]] # None
              /\ \A i \in Invocations : batch[identity[p]][i].seen = disk[Reads[i]]
            BY <1>12, <2>4, ReadBatchDoes
        <3> QED  BY <2>1, <2>2, <3>1
    <2> QED  BY <2>3, <2>4
<1>13. ASSUME NEW p \in Processes, DropBatch(p) PROVE WindowInv'
    BY <1>13 DEF DropBatch
<1>14. ASSUME NEW p \in Processes, ReadSingles(p) PROVE WindowInv'
    BY <1>14 DEF ReadSingles
<1>15. ASSUME NEW p \in Processes, NEW i \in Invocations, Expand(p, i) PROVE WindowInv'
    <2>1. PICK a \in Answers :
              /\ a.worker = entry[identity[p]] /\ a.seen = disk[Reads[i]]
              /\ answer' = [answer EXCEPT ![p][i] = a]
              /\ pc[p] = "run"
              /\ UNCHANGED <<disk, lookup, entry, sdk, single, batch, source, scanned, key, identity,
                             built, window, spoiled, staleKeys, staleEntries>>
              /\ \/ UNCHANGED <<storing, pc>>
                 \/ storing' = [storing EXCEPT ![p] = i] /\ pc' = [pc EXCEPT ![p] = "store"]
        BY <1>15, ExpandDoes
    <2> QED  BY <2>1
<1>16. ASSUME NEW p \in Processes, StoreSingle(p) PROVE WindowInv'
    BY <1>16 DEF StoreSingle
<1>17. ASSUME NEW p \in Processes, StoreBatch(p) PROVE WindowInv'
    BY <1>17 DEF StoreBatch
<1>18. ASSUME NEW p \in Processes, ExpandFails(p) PROVE WindowInv'
    BY <1>18 DEF ExpandFails
<1>19. ASSUME NEW p \in Processes, Return(p) PROVE WindowInv'
    BY <1>19 DEF Return
<1>20. ASSUME NEW p \in Processes, Kill(p) PROVE WindowInv'
    BY <1>20 DEF Kill
<1>21. ASSUME NEW f \in Files, NEW c \in Contents, Edit(f, c) PROVE WindowInv'
    <2>1. disk' = [disk EXCEPT ![f] = c]
          /\ UNCHANGED <<pc, source, scanned, key, answer>>
        BY <1>21 DEF Edit
    <2>2. \A p \in Processes : window'[p] = IF pc[p] = "idle" THEN window[p]
                                  ELSE [window[p] EXCEPT ![f] = @ \cup {c}]
        BY <1>21 DEF Edit
    <2> USE Initially
    <2>3. ASSUME NEW p \in Processes, NEW g \in Files
          PROVE  /\ window[p][g] \subseteq window'[p][g]
                 /\ pc[p] # "idle" => disk'[g] \in window'[p][g]
        <3>1. window[p] \in [Files -> SUBSET Contents]
            BY DEF Core
        <3>2. CASE pc[p] = "idle"
            BY <2>2, <3>2
        <3>3. CASE pc[p] # "idle"
            <4>1. window'[p] = [window[p] EXCEPT ![f] = @ \cup {c}]
                BY <2>2, <3>3
            <4>2. disk[g] \in window[p][g] /\ disk'[g] = IF g = f THEN c ELSE disk[g]
                BY <2>1, <3>3
            <4> QED  BY ONLY <3>1, <4>1, <4>2, f \in Files, g \in Files
        <3> QED  BY <3>2, <3>3
    <2> QED  BY <2>1, <2>3
<1>22. ASSUME UNCHANGED vars PROVE WindowInv'
    BY <1>22 DEF vars
<1>23. ASSUME NEW p \in Processes, ScanHeaders(p) PROVE WindowInv'
    BY <1>23 DEF ScanHeaders
<1> HIDE DEF WindowInv
<1> QED  BY <1>1, <1>2, <1>3, <1>4, <1>5, <1>6, <1>7, <1>8, <1>9, <1>10, <1>11, <1>12,
            <1>13, <1>14, <1>15, <1>16, <1>17, <1>18, <1>19, <1>20, <1>21, <1>22,
            <1>23, StepCases

\* A save adds to what may have been read.
LEMMA EditWindows ==
    ASSUME Core, NEW f \in Files, NEW c \in Contents, Edit(f, c)
    PROVE  \A p \in Processes, g \in Files : window[p][g] \subseteq window'[p][g]
<1> SUFFICES ASSUME NEW p \in Processes, NEW g \in Files
             PROVE  window[p][g] \subseteq window'[p][g]
    OBVIOUS
<1>1. window'[p] = window[p] \/ window'[p] = [window[p] EXCEPT ![f] = @ \cup {c}]
    BY DEF Edit
<1>2. window[p] \in [Files -> SUBSET Contents]
    BY DEF Core
<1> QED  BY <1>1, <1>2

\* What is stored is what its name says, unless it has become wrong; and so is
\* what a process is about to store.
LEMMA NamedStep ==
    ASSUME Core, HaveInv, WindowInv, Ghosts, NamedInv, [Next]_vars
    PROVE  NamedInv'
<1>a. \A p \in Processes : NamedBy(p)
    BY DEF NamedInv
<1>b. StoredInv
    BY DEF NamedInv
<1>c. ASSUME NEW p \in Processes,
             \A q \in Processes \ {p} :
                /\ pc'[q] = pc[q] /\ source'[q] = source[q] /\ scanned'[q] = scanned[q]
                /\ key'[q] = key[q] /\ identity'[q] = identity[q] /\ built'[q] = built[q]
                /\ spoiled'[q] = spoiled[q],
             disk' = disk, NamedBy(p)'
      PROVE  \A q \in Processes : NamedBy(q)'
    BY <1>a, <1>c DEF NamedBy, Loaded
<1>d. ASSUME UNCHANGED <<lookup, entry, staleKeys, staleEntries>> PROVE StoredInv'
    BY <1>b, <1>d DEF StoredInv
<1>e. ASSUME NEW p \in Processes,
             pc'[p] \notin Building \cup {"key", "publish", "record"}
      PROVE  NamedBy(p)'
    BY <1>e DEF NamedBy, Building
<1> USE DEF Goto, workerCache, expansionCache, locals, history, saves, Core, Building
<1>1. ASSUME NEW p \in Processes,
             \/ Begin(p) \/ DropBatch(p) \/ ReadSingles(p) \/ StoreSingle(p) \/ StoreBatch(p)
      PROVE  NamedInv'
    <2>1. /\ UNCHANGED <<disk, lookup, entry, staleKeys, staleEntries>>
          /\ pc'[p] \notin Building \cup {"key", "publish", "record"}
        BY <1>1 DEF Begin, DropBatch, ReadSingles, StoreSingle, StoreBatch
    <2>2. \A q \in Processes \ {p} :
                /\ pc'[q] = pc[q] /\ source'[q] = source[q] /\ scanned'[q] = scanned[q]
                /\ key'[q] = key[q] /\ identity'[q] = identity[q] /\ built'[q] = built[q]
                /\ spoiled'[q] = spoiled[q]
        BY <1>1 DEF Begin, DropBatch, ReadSingles, StoreSingle, StoreBatch
    <2> QED  BY ONLY <1>c, <1>d, <1>e, <2>1, <2>2 DEF NamedInv
<1>2. ASSUME NEW p \in Processes,
             Refuse(p) \/ CompileFails(p) \/ ExpandFails(p) \/ Return(p) \/ Kill(p)
      PROVE  NamedInv'
    <2>1. Leave(p)
        BY <1>2 DEF Refuse, CompileFails, ExpandFails, Return, Kill, Fail, Break
    <2>2. /\ UNCHANGED <<disk, lookup, entry, staleKeys, staleEntries>> /\ pc'[p] = "idle"
          /\ \A q \in Processes \ {p} :
                /\ pc'[q] = pc[q] /\ source'[q] = source[q] /\ scanned'[q] = scanned[q]
                /\ key'[q] = key[q] /\ identity'[q] = identity[q] /\ built'[q] = built[q]
                /\ spoiled'[q] = spoiled[q]
        BY <2>1 DEF Leave
    <2> QED  BY <1>c, <1>d, <1>e, <2>2 DEF NamedInv
<1>3. ASSUME NEW p \in Processes, ReadBatch(p) PROVE NamedInv'
    <2>1. PICK place \in {"run", "drop", "singles"} : pc' = [pc EXCEPT ![p] = place]
        BY <1>3, ReadBatchDoes
    <2>2. UNCHANGED <<disk, lookup, entry, source, scanned, key, identity, built, spoiled,
                      staleKeys, staleEntries>>
        BY <1>3 DEF ReadBatch
    <2> QED  BY <1>c, <1>d, <1>e, <2>1, <2>2 DEF NamedInv
<1>4. ASSUME NEW p \in Processes, NEW i \in Invocations, Expand(p, i) PROVE NamedInv'
    <2>1. pc[p] = "run" /\ (pc' = pc \/ pc' = [pc EXCEPT ![p] = "store"])
        BY <1>4, Zenon DEF Expand, StoreIfCacheable, Goto
    <2>2. UNCHANGED <<disk, lookup, entry, source, scanned, key, identity, built, spoiled,
                      staleKeys, staleEntries>>
        BY <1>4 DEF Expand
    <2> QED  BY <1>c, <1>d, <1>e, <2>1, <2>2 DEF NamedInv
<1>5. ASSUME NEW p \in Processes, ScanHeaders(p) PROVE NamedInv'
    <2>1. /\ UNCHANGED <<disk, lookup, entry, source, key, identity, built, spoiled, staleKeys,
                         staleEntries>>
          /\ pc' = [pc EXCEPT ![p] = "key"] /\ scanned' = [scanned EXCEPT ![p] = disk[Header]]
        BY <1>5 DEF ScanHeaders
    <2>2. NamedBy(p)'
        BY <2>1 DEF NamedBy
    <2> QED  BY <1>c, <1>d, <2>1, <2>2 DEF NamedInv
<1>6. ASSUME NEW p \in Processes, Lookup(p) PROVE NamedInv'
    <2> DEFINE k == [source |-> source[p], header |-> disk[Header]]
    <2>1. k \in SourceKeys /\ k.header = disk[Header]
        BY Initially, Records
    <2> HIDE DEF k
    <2>2. /\ UNCHANGED <<disk, lookup, entry, source, scanned, built, staleKeys, staleEntries>>
          /\ pc[p] = "key" /\ key' = [key EXCEPT ![p] = k]
        BY <1>6 DEF Lookup, k
    <2>3. \/ /\ pc' = [pc EXCEPT ![p] = "read"]
             /\ identity' = [identity EXCEPT ![p] = lookup[k]]
             /\ Takes(p, k \in staleKeys \/ lookup[k] \in staleEntries)
          \/ pc' = [pc EXCEPT ![p] = "identify"] /\ UNCHANGED <<identity, spoiled>>
        BY <1>6, Zenon DEF Lookup, k, Goto
    <2>4. \A q \in Processes \ {p} :
             identity'[q] = identity[q] /\ spoiled'[q] = spoiled[q] /\ pc'[q] = pc[q]
        BY ONLY <2>3, Core, Ghosts DEF Takes, Ghosts, Core
    <2>5. NamedBy(p)'
        BY <1>a, <2>1, <2>2, <2>3 DEF NamedBy
    <2> QED  BY <1>c, <1>d, <2>2, <2>4, <2>5 DEF NamedInv
<1>7. ASSUME NEW p \in Processes, Identify(p) PROVE NamedInv'
    <2> DEFINE id == [code |-> Emits[Loaded(p)], header |-> disk[Header]]
    <2>1. id.code = Emits[Loaded(p)] /\ id.header = disk[Header] /\ id \in Identities
        BY Initially, Records DEF Loaded
    <2>a. "lookup" \notin spoiled[p] /\ pc[p] = "identify" => id = Named(key[p])
        BY <1>a DEF NamedBy, Named, Loaded, WindowInv
    <2> HIDE DEF id
    <2>2. /\ UNCHANGED <<disk, lookup, entry, source, scanned, key, built, staleKeys,
                         staleEntries>>
          /\ pc[p] = "identify" /\ identity' = [identity EXCEPT ![p] = id]
          /\ Takes(p, id \in staleEntries)
        BY <1>7 DEF Identify, id
    <2>3. \E place \in {"record", "sdk"} : pc' = [pc EXCEPT ![p] = place]
        BY ONLY <1>7, Zenon DEF Identify, Goto
    <2>4. /\ \A q \in Processes \ {p} : spoiled'[q] = spoiled[q]
          /\ "lookup" \notin spoiled'[p] => "lookup" \notin spoiled[p]
        BY ONLY <2>2, Ghosts DEF Takes, Ghosts
    <2>5. NamedBy(p)'
        BY <2>1, <2>a, <2>2, <2>3, <2>4 DEF NamedBy, Loaded, Named
    <2> QED  BY <1>c, <1>d, <2>2, <2>3, <2>4, <2>5 DEF NamedInv
<1>8. ASSUME NEW p \in Processes, FindSdk(p) \/ PublishObjects(p) \/ PublishPch(p)
      PROVE  NamedInv'
    <2>1. /\ UNCHANGED <<disk, lookup, entry, source, scanned, key, identity, built, spoiled,
                         staleKeys, staleEntries>>
          /\ pc[p] \in {"sdk", "objects", "pch"}
          /\ pc'[p] \in {"objects", "pch", "compile"}
          /\ \A q \in Processes \ {p} : pc'[q] = pc[q]
        BY <1>8 DEF FindSdk, PublishObjects, PublishPch
    <2>2. NamedBy(p)'
        BY <1>a, <2>1 DEF NamedBy, Loaded
    <2> QED  BY <1>c, <1>d, <2>1, <2>2 DEF NamedInv
<1>9. ASSUME NEW p \in Processes, Compile(p) PROVE NamedInv'
    <2> DEFINE w == [code |-> Emits[Loaded(p)], header |-> disk[Header]]
    <2>1. w.code = Emits[Loaded(p)] /\ w.header = disk[Header] /\ w \in Identities
        BY Initially, Records DEF Loaded
    <2>a. pc[p] = "compile" => w.code = identity[p].code
        BY <1>a, <2>1 DEF NamedBy
    <2>b. "entry" \notin spoiled[p] /\ pc[p] = "compile" => w = identity[p]
        <3>1. identity[p] \in Identities
            OBVIOUS
        <3> QED  BY <1>a, <2>1, <3>1 DEF NamedBy, Identities
    <2> HIDE DEF w
    <2>2. /\ UNCHANGED <<disk, lookup, entry, source, scanned, key, identity, spoiled, staleKeys,
                         staleEntries>>
          /\ pc[p] = "compile" /\ pc' = [pc EXCEPT ![p] = "publish"]
          /\ built' = [built EXCEPT ![p] = w]
        BY <1>9 DEF Compile, w
    <2>3. NamedBy(p)'
        BY <1>a, <2>a, <2>b, <2>2 DEF NamedBy, Loaded
    <2> QED  BY <1>c, <1>d, <2>2, <2>3 DEF NamedInv
<1>10. ASSUME NEW p \in Processes, Publish(p) PROVE NamedInv'
    <2>1. /\ UNCHANGED <<disk, lookup, source, scanned, key, identity, built, staleKeys>>
          /\ pc[p] = "publish" /\ pc' = [pc EXCEPT ![p] = "record"]
          /\ Takes(p, identity[p] \in staleEntries)
          /\ entry' = [entry EXCEPT ![identity[p]] = IF @ = None THEN built[p] ELSE @]
          /\ staleEntries' = IF entry[identity[p]] = None /\ "entry" \in spoiled[p]
                             THEN staleEntries \cup {identity[p]} ELSE staleEntries
        BY <1>10 DEF Publish
    <2>2. /\ \A q \in Processes \ {p} : spoiled'[q] = spoiled[q]
          /\ "lookup" \notin spoiled'[p] => "lookup" \notin spoiled[p]
        BY ONLY <2>1, Ghosts DEF Takes, Ghosts
    <2>3. NamedBy(p)'
        BY <1>a, <2>1, <2>2 DEF NamedBy
    <2>4. /\ built[p].code = identity[p].code
          /\ "entry" \notin spoiled[p] => built[p] = identity[p]
        BY <1>a, <2>1 DEF NamedBy
    <2>5. ASSUME NEW id \in Identities, entry'[id] # None
          PROVE  entry'[id].code = id.code /\ (id \notin staleEntries' => entry'[id] = id)
        <3>1. CASE id = identity[p] /\ entry[id] = None
            BY <2>1, <2>4, <3>1
        <3>2. CASE id # identity[p] \/ entry[id] # None
            <4>1. entry'[id] = entry[id]
                BY <2>1, <3>2
            <4>2. id \notin staleEntries' => id \notin staleEntries
                BY <2>1
            <4> QED  BY <1>b, <2>5, <4>1, <4>2 DEF StoredInv
        <3> QED  BY <3>1, <3>2
    <2>6. StoredInv'
        BY <1>b, <2>1, <2>5 DEF StoredInv
    <2> QED  BY <1>c, <2>1, <2>2, <2>3, <2>6 DEF NamedInv
<1>11. ASSUME NEW p \in Processes, Record(p) PROVE NamedInv'
    <2>1. /\ UNCHANGED <<disk, entry, source, scanned, key, identity, built, spoiled,
                         staleEntries>>
          /\ pc[p] = "record" /\ pc' = [pc EXCEPT ![p] = "read"]
          /\ lookup' = [lookup EXCEPT ![key[p]] = identity[p]]
          /\ staleKeys' = IF "lookup" \in spoiled[p] THEN staleKeys \cup {key[p]}
                                                     ELSE staleKeys \ {key[p]}
        BY <1>11 DEF Record
    <2>2. "lookup" \notin spoiled[p] => identity[p] = Named(key[p])
        BY <1>a, <2>1 DEF NamedBy
    <2>3. ASSUME NEW k \in SourceKeys, lookup'[k] # None, k \notin staleKeys'
          PROVE  lookup'[k] = Named(k)
        BY <1>b, <2>1, <2>2, <2>3 DEF StoredInv
    <2>4. StoredInv'
        BY <1>b, <2>1, <2>3 DEF StoredInv
    <2>5. NamedBy(p)'
        BY <1>e, <2>1
    <2> QED  BY <1>c, <2>1, <2>4, <2>5 DEF NamedInv
<1>12. ASSUME NEW f \in Files, NEW c \in Contents, Edit(f, c) PROVE NamedInv'
    <2>1. /\ UNCHANGED <<lookup, entry, pc, source, scanned, key, identity, built, staleKeys,
                         staleEntries>>
          /\ disk' = [disk EXCEPT ![f] = c]
          /\ spoiled' = IF f # Header THEN spoiled
                        ELSE [p \in Processes |-> spoiled[p] \cup Spoils(pc[p])]
        BY <1>12 DEF Edit
    <2>2. ASSUME NEW p \in Processes PROVE NamedBy(p)'
        <3>1. CASE f # Header
            BY <1>a, <2>1, <3>1, Initially DEF NamedBy, Loaded
        <3>2. CASE f = Header
            <4>1. spoiled'[p] = spoiled[p] \cup Spoils(pc[p])
                BY <2>1, <3>2
            <4>2. /\ pc[p] \in {"key", "identify"} => "lookup" \in spoiled'[p]
                  /\ pc[p] \in {"sdk", "objects", "pch", "compile"} => "entry" \in spoiled'[p]
                  /\ spoiled[p] \subseteq spoiled'[p]
                BY <4>1 DEF Spoils
            <4> QED  BY <1>a, <2>1, <4>2 DEF NamedBy, Loaded
        <3> QED  BY <3>1, <3>2
    <2> QED  BY <1>d, <2>1, <2>2 DEF NamedInv
<1>13. ASSUME UNCHANGED vars PROVE NamedInv'
    BY <1>13 DEF vars, NamedInv, StoredInv, NamedBy, Loaded
<1> HIDE DEF NamedInv
<1> QED  BY <1>1, <1>2, <1>3, <1>4, <1>5, <1>6, <1>7, <1>8, <1>9, <1>10, <1>11, <1>12, <1>13,
            StepCases

\* A worker that a process has, or will have, is made of what was there during
\* its call.
LEMMA ServedStep ==
    ASSUME Core, HaveInv, WindowInv, Ghosts, NamedInv, ServedInv, [Next]_vars
    PROVE  ServedInv'
<1>a. \A p \in Processes : ServedBy(p)
    BY DEF ServedInv
<1>b. \A id \in Identities : entry[id] # None => entry'[id] = entry[id]
    BY StableStep
<1>k. ASSUME NEW p \in Processes,
             \A q \in Processes \ {p} :
                /\ pc'[q] = pc[q] /\ identity'[q] = identity[q] /\ built'[q] = built[q]
                /\ spoiled'[q] = spoiled[q] /\ window'[q] = window[q],
             ServedBy(p)'
      PROVE  ServedInv'
    <2> SUFFICES ASSUME NEW q \in Processes, q # p PROVE ServedBy(q)'
        BY <1>k DEF ServedInv
    <2>1. ServedBy(q) /\ identity[q] \in Identities
        BY <1>a DEF Core
    <2>2. pc[q] \in Served => entry'[identity[q]] = entry[identity[q]]
        BY <1>b, <2>1 DEF HaveInv, Served
    <2>3. /\ pc'[q] = pc[q] /\ identity'[q] = identity[q] /\ built'[q] = built[q]
          /\ spoiled'[q] = spoiled[q] /\ window'[q] = window[q]
        BY <1>k
    <2>4. \A w : OfCall(q, w) => /\ w.header \in window'[q][Header]
                                /\ \E c \in window'[q][Source], h \in window'[q][Header] :
                                      w.code = Emits[<<c, h>>]
        BY ONLY <2>3 DEF OfCall
    <2> QED  BY ONLY <2>1, <2>2, <2>3, <2>4, ZenonT(60) DEF ServedBy, OfCall
<1> USE DEF Goto, workerCache, expansionCache, locals, history, saves, Core, Served
<1>1. ASSUME NEW p \in Processes,
             Refuse(p) \/ CompileFails(p) \/ ExpandFails(p) \/ Return(p) \/ Kill(p)
      PROVE  ServedInv'
    <2>1. Leave(p)
        BY <1>1 DEF Refuse, CompileFails, ExpandFails, Return, Kill, Fail, Break
    <2>2. /\ pc'[p] = "idle"
          /\ \A q \in Processes \ {p} :
                /\ pc'[q] = pc[q] /\ identity'[q] = identity[q] /\ built'[q] = built[q]
                /\ spoiled'[q] = spoiled[q] /\ window'[q] = window[q]
        BY <2>1 DEF Leave
    <2>3. ServedBy(p)'
        BY <2>2 DEF ServedBy
    <2> QED  BY <1>k, <2>2, <2>3
<1>2. ASSUME NEW p \in Processes, Begin(p) \/ ScanHeaders(p) PROVE ServedInv'
    <2>1. /\ pc'[p] \in {"headers", "key"}
          /\ \A q \in Processes \ {p} :
                /\ pc'[q] = pc[q] /\ identity'[q] = identity[q] /\ built'[q] = built[q]
                /\ spoiled'[q] = spoiled[q] /\ window'[q] = window[q]
        BY <1>2 DEF Begin, ScanHeaders
    <2>2. ServedBy(p)'
        BY <2>1 DEF ServedBy
    <2> QED  BY <1>k, <2>1, <2>2
<1>3. ASSUME NEW p \in Processes, Lookup(p) PROVE ServedInv'
    <2> DEFINE k == [source |-> source[p], header |-> disk[Header]]
    <2>1. k \in SourceKeys /\ k.source = source[p] /\ k.header = disk[Header]
        BY Initially, Records
    <2>a. pc[p] = "key" => OfCall(p, Named(k))
        <3>1. pc[p] = "key" =>
                 source[p] \in window[p][Source] /\ disk[Header] \in window[p][Header]
            BY Initially DEF WindowInv
        <3> QED  BY <2>1, <3>1 DEF OfCall, Named
    <2> HIDE DEF k
    <2>2. /\ UNCHANGED <<entry, built, window>> /\ pc[p] = "key"
        BY <1>3 DEF Lookup
    <2>3. \/ /\ pc' = [pc EXCEPT ![p] = "read"] /\ LookupHits(k)
             /\ identity' = [identity EXCEPT ![p] = lookup[k]]
             /\ Takes(p, k \in staleKeys \/ lookup[k] \in staleEntries)
          \/ pc' = [pc EXCEPT ![p] = "identify"] /\ UNCHANGED <<identity, spoiled>>
        BY <1>3, Zenon DEF Lookup, k, Goto
    <2>4. \A q \in Processes \ {p} :
             identity'[q] = identity[q] /\ spoiled'[q] = spoiled[q] /\ pc'[q] = pc[q]
        BY ONLY <2>3, Core, Ghosts DEF Takes, Ghosts, Core
    <2>5. CASE pc'[p] = "identify"
        <3>1. ServedBy(p)'
            BY <2>5 DEF ServedBy
        <3> QED  BY <1>k, <2>2, <2>4, <3>1
    <2>6. CASE pc'[p] # "identify"
        <3>1. /\ pc'[p] = "read" /\ LookupHits(k) /\ identity'[p] = lookup[k]
              /\ Takes(p, k \in staleKeys \/ lookup[k] \in staleEntries)
            BY <2>3, <2>6
        <3>2. "answers" \notin spoiled'[p] =>
                 k \notin staleKeys /\ lookup[k] \notin staleEntries
            BY ONLY <3>1, Ghosts DEF Takes, Ghosts
        <3>3. lookup[k] \in Identities /\ lookup[k] # None /\ entry[lookup[k]] # None
            BY <2>1, <3>1 DEF LookupHits, MaybeIn
        <3>4. "answers" \notin spoiled'[p] => entry[lookup[k]] = Named(k)
            BY <2>1, <3>2, <3>3 DEF NamedInv, StoredInv
        <3>5. "answers" \notin spoiled'[p] => OfCall(p, entry'[identity'[p]])
            BY <2>2, <2>a, <3>1, <3>4
        <3>6. ServedBy(p)'
            BY <2>2, <3>1, <3>5 DEF ServedBy, OfCall
        <3> QED  BY <1>k, <2>2, <2>4, <3>6
    <2> QED  BY <2>5, <2>6
<1>4. ASSUME NEW p \in Processes, Identify(p) PROVE ServedInv'
    <2> DEFINE id == [code |-> Emits[Loaded(p)], header |-> disk[Header]]
    <2>1. id \in Identities
        BY Initially, Records DEF Loaded
    <2>a. pc[p] = "identify" => OfCall(p, id)
        BY Initially DEF OfCall, Loaded, WindowInv
    <2> HIDE DEF id
    <2>2. /\ UNCHANGED <<entry, built, window>> /\ pc[p] = "identify"
          /\ identity' = [identity EXCEPT ![p] = id] /\ Takes(p, id \in staleEntries)
        BY <1>4 DEF Identify, id
    <2>3. \/ pc' = [pc EXCEPT ![p] = "record"] /\ entry[id] # None
          \/ pc' = [pc EXCEPT ![p] = "sdk"]
        BY <1>4, Zenon DEF Identify, Goto, id
    <2>4. /\ \A q \in Processes \ {p} : spoiled'[q] = spoiled[q]
          /\ "answers" \notin spoiled'[p] => id \notin staleEntries
        BY ONLY <2>2, Ghosts DEF Takes, Ghosts
    <2>5. pc'[p] = "record" /\ "answers" \notin spoiled'[p] => entry[id] = id
        BY <2>1, <2>3, <2>4 DEF NamedInv, StoredInv
    <2>6. identity'[p] = id /\ entry' = entry /\ window' = window /\ OfCall(p, id)
          /\ pc'[p] \in {"record", "sdk"}
        BY <2>a, <2>2, <2>3
    <2>7. ServedBy(p)'
        BY ONLY <2>5, <2>6 DEF ServedBy, OfCall, Served
    <2> QED  BY <1>k, <2>2, <2>3, <2>4, <2>7
<1>5. ASSUME NEW p \in Processes, FindSdk(p) \/ PublishObjects(p) \/ PublishPch(p)
      PROVE  ServedInv'
    <2>1. /\ UNCHANGED <<entry, identity, built, spoiled, window>>
          /\ pc[p] \in {"sdk", "objects", "pch"}
          /\ pc'[p] \in {"objects", "pch", "compile"}
          /\ \A q \in Processes \ {p} : pc'[q] = pc[q]
        BY <1>5 DEF FindSdk, PublishObjects, PublishPch
    <2>2. ServedBy(p)'
        BY <1>a, <2>1 DEF ServedBy, OfCall
    <2> QED  BY <1>k, <2>1, <2>2
<1>6. ASSUME NEW p \in Processes, Compile(p) PROVE ServedInv'
    <2> DEFINE w == [code |-> Emits[Loaded(p)], header |-> disk[Header]]
    <2>1. pc[p] = "compile" => OfCall(p, w)
        BY Initially DEF OfCall, Loaded, WindowInv
    <2> HIDE DEF w
    <2>2. /\ UNCHANGED <<entry, identity, spoiled, window>>
          /\ pc[p] = "compile" /\ pc' = [pc EXCEPT ![p] = "publish"]
          /\ built' = [built EXCEPT ![p] = w]
        BY <1>6 DEF Compile, w
    <2>3. ServedBy(p)'
        BY <1>a, <2>1, <2>2 DEF ServedBy, OfCall
    <2> QED  BY <1>k, <2>2, <2>3
<1>7. ASSUME NEW p \in Processes, Publish(p) PROVE ServedInv'
    <2>1. /\ UNCHANGED <<identity, built, window>>
          /\ pc[p] = "publish" /\ pc' = [pc EXCEPT ![p] = "record"]
          /\ Takes(p, identity[p] \in staleEntries)
          /\ entry' = [entry EXCEPT ![identity[p]] = IF @ = None THEN built[p] ELSE @]
        BY <1>7 DEF Publish
    <2>2. /\ \A q \in Processes \ {p} : spoiled'[q] = spoiled[q]
          /\ "answers" \notin spoiled'[p] => identity[p] \notin staleEntries
        BY ONLY <2>1, Ghosts DEF Takes, Ghosts
    <2>3. OfCall(p, identity[p]) /\ OfCall(p, built[p])
        BY <1>a, <2>1 DEF ServedBy
    <2>4. "answers" \notin spoiled'[p] => OfCall(p, entry'[identity[p]])
        <3>1. CASE entry[identity[p]] = None
            BY <2>1, <2>3, <3>1
        <3>2. CASE entry[identity[p]] # None
            <4>1. "answers" \notin spoiled'[p] => entry'[identity[p]] = identity[p]
                BY <1>b, <2>2, <3>2 DEF NamedInv, StoredInv
            <4> QED  BY <2>3, <4>1
        <3> QED  BY <3>1, <3>2
    <2>5. ServedBy(p)'
        BY <2>1, <2>4 DEF ServedBy, OfCall
    <2> QED  BY <1>k, <2>1, <2>2, <2>5
<1>8. ASSUME NEW p \in Processes,
             \/ Record(p) \/ DropBatch(p) \/ ReadSingles(p) \/ StoreSingle(p) \/ StoreBatch(p)
      PROVE  ServedInv'
    <2>1. /\ UNCHANGED <<entry, identity, built, spoiled, window>>
          /\ pc[p] \in Served /\ pc'[p] \in Served \ {"record"}
          /\ \A q \in Processes \ {p} : pc'[q] = pc[q]
        BY <1>8 DEF Record, DropBatch, ReadSingles, StoreSingle, StoreBatch
    <2>2. ServedBy(p)'
        BY <1>a, <2>1 DEF ServedBy, OfCall
    <2> QED  BY <1>k, <2>1, <2>2
<1>9. ASSUME NEW p \in Processes, ReadBatch(p) PROVE ServedInv'
    <2>1. PICK place \in {"run", "drop", "singles"} : pc' = [pc EXCEPT ![p] = place]
        BY <1>9, ReadBatchDoes
    <2>2. UNCHANGED <<entry, identity, built, spoiled, window>> /\ pc[p] = "read"
        BY <1>9 DEF ReadBatch
    <2>3. ServedBy(p)'
        BY <1>a, <2>1, <2>2 DEF ServedBy, OfCall
    <2> QED  BY <1>k, <2>1, <2>2, <2>3
<1>10. ASSUME NEW p \in Processes, NEW i \in Invocations, Expand(p, i) PROVE ServedInv'
    <2>1. pc[p] = "run" /\ (pc' = pc \/ pc' = [pc EXCEPT ![p] = "store"])
        BY <1>10, Zenon DEF Expand, StoreIfCacheable, Goto
    <2>2. UNCHANGED <<entry, identity, built, spoiled, window>>
        BY <1>10 DEF Expand
    <2>3. ServedBy(p)'
        BY <1>a, <2>1, <2>2 DEF ServedBy, OfCall
    <2> QED  BY <1>k, <2>1, <2>2, <2>3
<1>11. ASSUME NEW f \in Files, NEW c \in Contents, Edit(f, c) PROVE ServedInv'
    <2>1. /\ UNCHANGED <<entry, pc, identity, built>>
          /\ \A p \in Processes : spoiled[p] \subseteq spoiled'[p]
        BY <1>11 DEF Edit
    <2>2. \A p \in Processes : /\ window[p][Source] \subseteq window'[p][Source]
                               /\ window[p][Header] \subseteq window'[p][Header]
        BY <1>11, EditWindows, Initially
    <2>3. ASSUME NEW p \in Processes PROVE ServedBy(p)'
        <3>1. /\ ServedBy(p) /\ spoiled[p] \subseteq spoiled'[p]
              /\ window[p][Source] \subseteq window'[p][Source]
              /\ window[p][Header] \subseteq window'[p][Header]
            BY <1>a, <2>1, <2>2
        <3>2. \A w : OfCall(p, w) => /\ w.header \in window'[p][Header]
                                    /\ \E s \in window'[p][Source], h \in window'[p][Header] :
                                          w.code = Emits[<<s, h>>]
            BY ONLY <3>1 DEF OfCall
        <3> QED  BY ONLY <2>1, <3>1, <3>2, Zenon DEF ServedBy, OfCall
    <2> QED  BY <2>3 DEF ServedInv
<1>12. ASSUME UNCHANGED vars PROVE ServedInv'
    <2>1. UNCHANGED <<pc, identity, built, spoiled, window, entry>>
        BY <1>12 DEF vars
    <2> QED  BY ONLY <2>1, ServedInv DEF ServedInv, ServedBy, OfCall
<1> HIDE DEF ServedInv
<1> QED  BY <1>1, <1>2, <1>3, <1>4, <1>5, <1>6, <1>7, <1>8, <1>9, <1>10, <1>11, <1>12,
            StepCases

\* What saves have made wrong are keys and identities.
LEMMA GhostsStep ==
    ASSUME Core, Ghosts, [Next]_vars
    PROVE  Ghosts'
<1> USE DEF Ghosts, Leave, Fail, Break, workerCache, expansionCache, locals, history, saves,
        Takes
<1>1. ASSUME NEW p \in Processes,
             \/ Begin(p) \/ ScanHeaders(p) \/ Refuse(p) \/ FindSdk(p) \/ PublishObjects(p)
             \/ PublishPch(p) \/ Compile(p) \/ CompileFails(p) \/ DropBatch(p)
             \/ ReadSingles(p) \/ StoreSingle(p) \/ StoreBatch(p) \/ ExpandFails(p)
             \/ Return(p) \/ Kill(p)
      PROVE  Ghosts'
    BY <1>1 DEF Begin, ScanHeaders, Refuse, FindSdk, PublishObjects, PublishPch, Compile,
       CompileFails, DropBatch, ReadSingles, StoreSingle, StoreBatch, ExpandFails, Return, Kill
<1>2. ASSUME NEW p \in Processes, Lookup(p) PROVE Ghosts'
    BY <1>2 DEF Lookup
<1>3. ASSUME NEW p \in Processes, Identify(p) PROVE Ghosts'
    BY <1>3 DEF Identify
<1>4. ASSUME NEW p \in Processes, Publish(p) PROVE Ghosts'
    BY <1>4 DEF Publish, Core
<1>5. ASSUME NEW p \in Processes, Record(p) PROVE Ghosts'
    BY <1>5 DEF Record, Core
<1>6. ASSUME NEW p \in Processes, ReadBatch(p) PROVE Ghosts'
    BY <1>6 DEF ReadBatch
<1>7. ASSUME NEW p \in Processes, NEW i \in Invocations, Expand(p, i) PROVE Ghosts'
    BY <1>7 DEF Expand
<1>8. ASSUME NEW f \in Files, NEW c \in Contents, Edit(f, c) PROVE Ghosts'
    BY <1>8 DEF Edit, Spoils
<1>9. ASSUME UNCHANGED vars PROVE Ghosts'
    BY <1>9 DEF vars
<1> HIDE DEF Ghosts
<1> QED  BY <1>1, <1>2, <1>3, <1>4, <1>5, <1>6, <1>7, <1>8, <1>9, StepCases

\* Truth values stay truth values.
LEMMA BooleansStep ==
    ASSUME Booleans, [Next]_vars
    PROVE  Booleans'
<1> USE DEF Booleans, Leave, Fail, Break, workerCache, expansionCache, locals, history, saves
<1>1. ASSUME NEW p \in Processes, Begin(p) PROVE Booleans'
    BY <1>1 DEF Begin
<1>2. ASSUME NEW p \in Processes, Lookup(p) PROVE Booleans'
    BY <1>2 DEF Lookup
<1>3. ASSUME NEW p \in Processes, Refuse(p) PROVE Booleans'
    BY <1>3 DEF Refuse
<1>4. ASSUME NEW p \in Processes, Identify(p) PROVE Booleans'
    BY <1>4 DEF Identify
<1>5. ASSUME NEW p \in Processes, FindSdk(p) PROVE Booleans'
    BY <1>5 DEF FindSdk
<1>6. ASSUME NEW p \in Processes, PublishObjects(p) PROVE Booleans'
    BY <1>6 DEF PublishObjects
<1>7. ASSUME NEW p \in Processes, PublishPch(p) PROVE Booleans'
    BY <1>7 DEF PublishPch
<1>8. ASSUME NEW p \in Processes, Compile(p) PROVE Booleans'
    BY <1>8 DEF Compile
<1>9. ASSUME NEW p \in Processes, CompileFails(p) PROVE Booleans'
    BY <1>9 DEF CompileFails
<1>10. ASSUME NEW p \in Processes, Publish(p) PROVE Booleans'
    BY <1>10 DEF Publish
<1>11. ASSUME NEW p \in Processes, Record(p) PROVE Booleans'
    BY <1>11 DEF Record
<1>12. ASSUME NEW p \in Processes, ReadBatch(p) PROVE Booleans'
    BY <1>12 DEF ReadBatch
<1>13. ASSUME NEW p \in Processes, DropBatch(p) PROVE Booleans'
    BY <1>13 DEF DropBatch
<1>14. ASSUME NEW p \in Processes, ReadSingles(p) PROVE Booleans'
    BY <1>14 DEF ReadSingles
<1>15. ASSUME NEW p \in Processes, NEW i \in Invocations, Expand(p, i) PROVE Booleans'
    <2>1. ran' \in [Processes -> BOOLEAN]
        BY <1>15, Zenon DEF Expand
    <2> QED  BY <1>15, <2>1 DEF Expand
<1>16. ASSUME NEW p \in Processes, StoreSingle(p) PROVE Booleans'
    BY <1>16 DEF StoreSingle
<1>17. ASSUME NEW p \in Processes, StoreBatch(p) PROVE Booleans'
    BY <1>17 DEF StoreBatch
<1>18. ASSUME NEW p \in Processes, ExpandFails(p) PROVE Booleans'
    BY <1>18 DEF ExpandFails
<1>19. ASSUME NEW p \in Processes, Return(p) PROVE Booleans'
    <2>1. warm' \in BOOLEAN
        BY <1>19, Zenon DEF Return
    <2> QED  BY <1>19, <2>1 DEF Return
<1>20. ASSUME NEW p \in Processes, Kill(p) PROVE Booleans'
    BY <1>20 DEF Kill
<1>21. ASSUME NEW f \in Files, NEW c \in Contents, Edit(f, c) PROVE Booleans'
    <2>1. warm' \in BOOLEAN
        BY <1>21, Zenon DEF Edit
    <2> QED  BY <1>21, <2>1 DEF Edit
<1>22. ASSUME UNCHANGED vars PROVE Booleans'
    BY <1>22 DEF vars
<1>23. ASSUME NEW p \in Processes, ScanHeaders(p) PROVE Booleans'
    BY <1>23 DEF ScanHeaders
<1> HIDE DEF Booleans
<1> QED  BY <1>1, <1>2, <1>3, <1>4, <1>5, <1>6, <1>7, <1>8, <1>9, <1>10, <1>11, <1>12,
            <1>13, <1>14, <1>15, <1>16, <1>17, <1>18, <1>19, <1>20, <1>21, <1>22,
            <1>23, StepCases

\* The bounds are kept.
LEMMA CountersStep ==
    ASSUME Counters, [Next]_vars
    PROVE  Counters'
<1> USE MacroCacheAssumption DEF Counters, Leave, Fail, Break, Event, workerCache,
        expansionCache, locals, history, saves
<1>1. ASSUME NEW p \in Processes, Begin(p) PROVE Counters'
    BY <1>1 DEF Begin
<1>2. ASSUME NEW p \in Processes, Lookup(p) PROVE Counters'
    BY <1>2 DEF Lookup
<1>3. ASSUME NEW p \in Processes, Refuse(p) PROVE Counters'
    BY <1>3 DEF Refuse
<1>4. ASSUME NEW p \in Processes, Identify(p) PROVE Counters'
    BY <1>4 DEF Identify
<1>5. ASSUME NEW p \in Processes, FindSdk(p) PROVE Counters'
    BY <1>5 DEF FindSdk
<1>6. ASSUME NEW p \in Processes, PublishObjects(p) PROVE Counters'
    BY <1>6 DEF PublishObjects
<1>7. ASSUME NEW p \in Processes, PublishPch(p) PROVE Counters'
    BY <1>7 DEF PublishPch
<1>8. ASSUME NEW p \in Processes, Compile(p) PROVE Counters'
    BY <1>8 DEF Compile
<1>9. ASSUME NEW p \in Processes, CompileFails(p) PROVE Counters'
    BY <1>9 DEF CompileFails
<1>10. ASSUME NEW p \in Processes, Publish(p) PROVE Counters'
    BY <1>10 DEF Publish
<1>11. ASSUME NEW p \in Processes, Record(p) PROVE Counters'
    BY <1>11 DEF Record
<1>12. ASSUME NEW p \in Processes, ReadBatch(p) PROVE Counters'
    BY <1>12 DEF ReadBatch
<1>13. ASSUME NEW p \in Processes, DropBatch(p) PROVE Counters'
    BY <1>13 DEF DropBatch
<1>14. ASSUME NEW p \in Processes, ReadSingles(p) PROVE Counters'
    BY <1>14 DEF ReadSingles
<1>15. ASSUME NEW p \in Processes, NEW i \in Invocations, Expand(p, i) PROVE Counters'
    BY <1>15 DEF Expand
<1>16. ASSUME NEW p \in Processes, StoreSingle(p) PROVE Counters'
    BY <1>16 DEF StoreSingle
<1>17. ASSUME NEW p \in Processes, StoreBatch(p) PROVE Counters'
    BY <1>17 DEF StoreBatch
<1>18. ASSUME NEW p \in Processes, ExpandFails(p) PROVE Counters'
    BY <1>18 DEF ExpandFails
<1>19. ASSUME NEW p \in Processes, Return(p) PROVE Counters'
    BY <1>19 DEF Return
<1>20. ASSUME NEW p \in Processes, Kill(p) PROVE Counters'
    BY <1>20 DEF Kill
<1>21. ASSUME NEW f \in Files, NEW c \in Contents, Edit(f, c) PROVE Counters'
    BY <1>21 DEF Edit
<1>22. ASSUME UNCHANGED vars PROVE Counters'
    BY <1>22 DEF vars
<1>23. ASSUME NEW p \in Processes, ScanHeaders(p) PROVE Counters'
    BY <1>23 DEF ScanHeaders
<1> HIDE DEF Counters
<1> QED  BY <1>1, <1>2, <1>3, <1>4, <1>5, <1>6, <1>7, <1>8, <1>9, <1>10, <1>11, <1>12,
            <1>13, <1>14, <1>15, <1>16, <1>17, <1>18, <1>19, <1>20, <1>21, <1>22,
            <1>23, StepCases

-----------------------------------------------------------------------------
Inv == Core /\ HaveInv /\ SdkInv /\ WindowInv /\ ExpansionsNameTheirWorker

\* What every theorem starts from.
LEMMA Invariance == Spec => []Inv
<1>1. Init => Inv
    <2> SUFFICES ASSUME Init PROVE Inv
        OBVIOUS
    <2> USE Initially DEF Init
    <2>1. Core
        BY MacroCacheAssumption DEF Core, MaybeIn, Places
    <2>2. HaveInv /\ SdkInv
        BY DEF HaveInv, SdkInv, NoAnswers
    <2>3. WindowInv /\ ExpansionsNameTheirWorker
        BY DEF WindowInv, ExpansionsNameTheirWorker, NoAnswers
    <2> QED  BY <2>1, <2>2, <2>3 DEF Inv
<1>2. Inv /\ [Next]_vars => Inv'
    BY CoreStep, HaveStep, SdkStep, WindowStep, NamesStep DEF Inv
<1> QED  BY <1>1, <1>2, PTL DEF Spec

\* At startup nothing has run or been counted.
LEMMA InitCounts == Init => Booleans /\ Counters
<1>1. Init => Booleans
    BY ZenonT(60) DEF Init, Booleans
<1>2. Init => Counters
    BY MacroCacheAssumption DEF Init, Counters
<1> QED  BY <1>1, <1>2

\* Variables have their types: a process that runs macros has a worker to run them
\* with, and a cached batch has all its responses.
THEOREM TypeCorrect == Spec => []TypeOK
<1>1. Init => Booleans /\ Counters /\ Ghosts
    BY InitCounts DEF Init, Ghosts
<1>2. Inv /\ Booleans /\ Counters /\ Ghosts /\ [Next]_vars
         => Booleans' /\ Counters' /\ Ghosts'
    BY BooleansStep, CountersStep, GhostsStep DEF Inv
<1>3. Inv /\ Booleans /\ Counters /\ Ghosts => TypeOK
    <2>1. Inv => sdk \in SUBSET Whole
        BY DEF Inv, SdkInv
    <2> QED  BY <2>1, Zenon DEF Inv, Core, Booleans, Counters, Ghosts, TypeOK
<1> QED  BY <1>1, <1>2, <1>3, Invariance, PTL DEF Spec

\* An identity's binary is never replaced by another one.
THEOREM IdentitiesAreStableHolds == Spec => IdentitiesAreStable
<1>1. Inv /\ [Next]_vars =>
         [\A id \in Identities : entry[id] # None => entry'[id] = entry[id]]_vars
    BY StableStep DEF Inv
<1> QED  BY <1>1, Invariance, PTL DEF Spec, IdentitiesAreStable

\* An SDK entry that is compiled against is whole.
THEOREM SdkIsWholeHolds == Spec => []SdkIsWhole
<1>1. Inv => SdkIsWhole
    BY DEF Inv, SdkInv, SdkIsWhole, Whole
<1> QED  BY <1>1, Invariance, PTL

\* A call's answers are what the macros say of inputs as they were during the
\* call, unless it found what another call had stored although the header was
\* saved meanwhile.
THEOREM AnswersAreCurrentHolds == Spec => []AnswersAreCurrent
<1>1. Init => Ghosts /\ NamedInv /\ ServedInv
    <2> SUFFICES ASSUME Init PROVE Ghosts /\ NamedInv /\ ServedInv
        OBVIOUS
    <2>1. Ghosts
        BY DEF Init, Ghosts
    <2>2. StoredInv /\ \A p \in Processes : NamedBy(p)
        BY DEF Init, StoredInv, NamedBy, Building
    <2>3. ServedInv
        BY DEF Init, ServedInv, ServedBy, Served
    <2> QED  BY <2>1, <2>2, <2>3 DEF NamedInv
<1>2. Inv /\ Ghosts /\ NamedInv /\ ServedInv /\ [Next]_vars
         => Ghosts' /\ NamedInv' /\ ServedInv'
    BY GhostsStep, NamedStep, ServedStep DEF Inv
<1>3. Inv /\ ServedInv => AnswersAreCurrent
    <2> SUFFICES ASSUME Inv, ServedInv, NEW p \in Processes, pc[p] = "done",
                        "answers" \notin spoiled[p], NEW i \in Invocations
                 PROVE  /\ answer[p][i].seen \in window[p][Reads[i]]
                        /\ OfCall(p, answer[p][i].worker)
        BY Zenon DEF AnswersAreCurrent
    <2>1. answer[p][i] # None
        BY DEF Inv, HaveInv
    <2>2. answer[p][i].seen \in window[p][Reads[i]]
        BY <2>1 DEF Inv, WindowInv
    <2>3. answer[p][i].worker = entry[identity[p]]
        BY <2>1 DEF Inv, ExpansionsNameTheirWorker
    <2>4. OfCall(p, entry[identity[p]])
        BY DEF ServedInv, ServedBy, Served
    <2> QED  BY <2>2, <2>3, <2>4
<1> QED  BY <1>1, <1>2, <1>3, Invariance, PTL DEF Spec

-----------------------------------------------------------------------------
(* Warm calls *)

\* What a lookup reads now, and the places of a call before and after it has a
\* binary.
Here == [source |-> disk[Source], header |-> disk[Header]]
Making == Building \cup {"publish", "record"}
Answering == {"run", "store", "done"}
Using == {"read", "drop", "singles"} \cup Answering

\* Nothing was saved since some call began that found the others idle.
Quiet == \E p \in Processes : begun[p] # "busy" /\ Unchanged(p)

Stored(id, i) == single[id][i] # None /\ Current(i, single[id][i])

\* A call with this identity that begins now runs nothing that can be cached:
\* either all responses are stored one by one, or the batch is and nobody is
\* about to remove it.
Safe(id) ==
    \/ \A i \in Invocations : Cacheable(id, i) => Stored(id, i)
    \/ BatchCurrent(id) /\ \A p \in Processes : pc[p] = "drop" => identity[p] # id

\* Then everybody has the same inputs, and leads to the same identity.
SameWorker ==
    /\ \A p \in Processes : ~Idle(p) => Unchanged(p)
    /\ \A p \in Processes : pc[p] \in Making \ {"identify"} => identity[p] = Named(Here)
    /\ \A p \in Processes : pc[p] \in Making => lookup[Here] \in {None, Named(Here)}
    /\ \A p \in Processes : pc[p] \in Using => identity[p] = lookup[Here]

\* And what somebody has is stored, or about to be.
Kept(p, i) ==
    \/ Safe(identity[p])
    \/ Stored(identity[p], i)
    \/ pc[p] = "store" /\ storing[p] = i

AnswersAreKept ==
    /\ \A id \in Identities : BatchCurrent(id) => Safe(id)
    /\ \A p \in Processes : pc[p] \in Answering =>
          \A i \in Invocations :
             answer[p][i] # None /\ Cacheable(identity[p], i) => Kept(p, i)

QuietInv == Quiet => SameWorker /\ AnswersAreKept

\* A lookup file names a binary that is there; who is idle began nothing.
LookupInv ==
    /\ \A k \in SourceKeys : lookup[k] # None => entry[lookup[k]] # None
    /\ \A p \in Processes : Idle(p) => begun[p] = "busy" /\ ~ran[p]

\* The next call finds its worker and its answers.
Prepared == lookup[Here] # None /\ Safe(lookup[Here])

WarmCall(p) ==
    /\ ~ran[p]
    /\ Prepared
    /\ pc[p] \notin Making
    /\ pc[p] \in {"drop", "singles"} =>
          \A i \in Invocations : Cacheable(identity[p], i) => Stored(identity[p], i)
    /\ pc[p] \in Answering =>
          \A i \in Invocations : Cacheable(identity[p], i) => answer[p][i] # None

WarmInv ==
    /\ warm => Prepared /\ \A p \in Processes : Idle(p)
    /\ \A p \in Processes : begun[p] = "warm" /\ Unchanged(p) => WarmCall(p)

\* Nobody forgets an entry that a lookup file names.
LEMMA LookupStep ==
    ASSUME Inv, Booleans, Counters, LookupInv, [Next]_vars
    PROVE  LookupInv'
<1>0. /\ Core /\ HaveInv
      /\ begun \in [Processes -> {"busy", "alone", "warm"}] /\ ran \in [Processes -> BOOLEAN]
    BY DEF Inv, Booleans, Counters
<1> USE <1>0, NoneAssumption DEF LookupInv, Idle, Goto, Leave, Fail, Break, workerCache,
        expansionCache, locals, history, saves, Core
<1>1. ASSUME NEW p \in Processes, Begin(p) PROVE LookupInv'
    BY <1>1 DEF Begin
<1>2. ASSUME NEW p \in Processes,
             \/ ScanHeaders(p) \/ Lookup(p) \/ Identify(p) \/ FindSdk(p) \/ PublishObjects(p)
             \/ PublishPch(p)
             \/ Compile(p) \/ DropBatch(p) \/ ReadSingles(p) \/ StoreSingle(p)
             \/ StoreBatch(p)
      PROVE  LookupInv'
    <2>1. /\ UNCHANGED <<lookup, entry, begun>>
          /\ \A q \in Processes : Idle(q)' => Idle(q) /\ ran'[q] = ran[q]
        BY <1>2 DEF ScanHeaders, Lookup, Identify, FindSdk, PublishObjects, PublishPch, Compile,
           DropBatch, ReadSingles, StoreSingle, StoreBatch
    <2> QED  BY <2>1
<1>3. ASSUME NEW p \in Processes,
             Refuse(p) \/ CompileFails(p) \/ ExpandFails(p) \/ Return(p) \/ Kill(p)
      PROVE  LookupInv'
    <2>1. Leave(p)
        BY <1>3 DEF Refuse, CompileFails, ExpandFails, Return, Kill
    <2> QED  BY <2>1
<1>4. ASSUME NEW p \in Processes, Publish(p) PROVE LookupInv'
    <2>1. /\ UNCHANGED <<lookup, begun>> /\ built[p] # None
          /\ entry' = [entry EXCEPT ![identity[p]] = IF @ = None THEN built[p] ELSE @]
          /\ \A q \in Processes : Idle(q)' => Idle(q) /\ ran'[q] = ran[q]
        BY <1>4 DEF Publish, HaveInv
    <2>2. \A id \in Identities : entry[id] # None => entry'[id] # None
        BY <2>1
    <2>3. \A k \in SourceKeys : lookup[k] # None => lookup[k] \in Identities
        BY DEF MaybeIn
    <2> QED  BY <2>1, <2>2, <2>3
<1>5. ASSUME NEW p \in Processes, Record(p) PROVE LookupInv'
    <2>1. /\ UNCHANGED <<entry, begun>> /\ entry[identity[p]] # None
          /\ lookup' = [lookup EXCEPT ![key[p]] = identity[p]]
          /\ \A q \in Processes : Idle(q)' => Idle(q) /\ ran'[q] = ran[q]
        BY <1>5 DEF Record, HaveInv
    <2> QED  BY <2>1
<1>6. ASSUME NEW p \in Processes, ReadBatch(p) PROVE LookupInv'
    <2>1. UNCHANGED <<lookup, entry, begun>>
        BY <1>6 DEF ReadBatch
    <2>2. \A q \in Processes : Idle(q)' => Idle(q) /\ ran'[q] = ran[q]
        BY <1>6, ReadBatchDoes DEF ReadBatch
    <2> QED  BY <2>1, <2>2
<1>7. ASSUME NEW p \in Processes, NEW i \in Invocations, Expand(p, i) PROVE LookupInv'
    <2>1. UNCHANGED <<lookup, entry, begun>>
        BY <1>7 DEF Expand
    <2>2. \A q \in Processes : Idle(q)' => Idle(q) /\ ran'[q] = ran[q]
        BY <1>7 DEF Expand, StoreIfCacheable
    <2> QED  BY <2>1, <2>2
<1>8. ASSUME NEW f \in Files, NEW c \in Contents, Edit(f, c) PROVE LookupInv'
    BY <1>8 DEF Edit
<1>9. ASSUME UNCHANGED vars PROVE LookupInv'
    BY <1>9 DEF vars
<1> HIDE DEF LookupInv
<1> QED  BY <1>1, <1>2, <1>3, <1>4, <1>5, <1>6, <1>7, <1>8, <1>9, StepCases

\* It stays quiet until something is saved, and becomes so with a call.
LEMMA QuietBefore ==
    ASSUME Inv, Counters, LookupInv, [Next]_vars, Quiet'
    PROVE  disk' = disk /\ (Quiet \/ \E p \in Processes : Begin(p) /\ Alone(p))
<1> DEFINE Claim == disk' = disk /\ (Quiet \/ \E p \in Processes : Begin(p) /\ Alone(p))
<1>0. Core /\ WindowInv /\ begun \in [Processes -> {"busy", "alone", "warm"}]
    BY DEF Inv, Counters
<1> USE <1>0 DEF Idle, Goto, Leave, Fail, Break, workerCache, expansionCache, locals, history, saves,
        Core
<1>a. PICK l \in Processes : begun'[l] # "busy" /\ Unchanged(l)'
    BY DEF Quiet
<1>b. ASSUME UNCHANGED <<disk, begun, window>> PROVE Claim
    BY <1>a, <1>b DEF Quiet, Unchanged
<1> HIDE DEF Claim
<1>1. ASSUME NEW p \in Processes, Begin(p) PROVE Claim
    <2>1. disk' = disk /\ (l # p => window'[l] = window[l])
        BY <1>1 DEF Begin
    <2>2. begun' = [begun EXCEPT ![p] = IF ~Alone(p) THEN "busy"
                                        ELSE IF warm THEN "warm" ELSE "alone"]
        BY ONLY <1>1 DEF Begin
    <2>3. CASE l # p
        <3>1. begun'[l] = begun[l]
            BY <2>2, <2>3
        <3>2. begun[l] # "busy" /\ Unchanged(l)
            BY ONLY <1>a, <2>1, <2>3, <3>1 DEF Unchanged
        <3>3. Quiet
            BY ONLY <3>2 DEF Quiet
        <3> QED  BY ONLY <2>1, <3>3 DEF Claim
    <2>4. CASE l = p
        <3>1. begun'[p] = IF ~Alone(p) THEN "busy" ELSE IF warm THEN "warm" ELSE "alone"
            BY <2>2
        <3>2. Alone(p)
            BY ONLY <1>a, <2>4, <3>1
        <3> QED  BY ONLY <1>1, <2>1, <3>2 DEF Claim
    <2> QED  BY <2>3, <2>4
<1>2. ASSUME NEW p \in Processes,
             \/ ScanHeaders(p) \/ Lookup(p) \/ Identify(p) \/ FindSdk(p) \/ PublishObjects(p)
             \/ PublishPch(p)
             \/ Compile(p) \/ Publish(p) \/ Record(p) \/ ReadBatch(p) \/ DropBatch(p)
             \/ ReadSingles(p) \/ StoreSingle(p) \/ StoreBatch(p)
      PROVE  Claim
    BY <1>2, <1>b DEF ScanHeaders, Lookup, Identify, FindSdk, PublishObjects, PublishPch, Compile,
       Publish, Record, ReadBatch, DropBatch, ReadSingles, StoreSingle, StoreBatch
<1>3. ASSUME NEW p \in Processes, NEW i \in Invocations, Expand(p, i) PROVE Claim
    BY <1>3, <1>b DEF Expand
<1>4. ASSUME NEW p \in Processes,
             Refuse(p) \/ CompileFails(p) \/ ExpandFails(p) \/ Return(p) \/ Kill(p)
      PROVE  Claim
    <2>1. Leave(p)
        BY <1>4 DEF Refuse, CompileFails, ExpandFails, Return, Kill
    <2>2. disk' = disk /\ begun' = [begun EXCEPT ![p] = "busy"]
          /\ window' = [window EXCEPT ![p] = NoWindow]
        BY <2>1
    <2>3. l # p /\ begun'[l] = begun[l]
        BY <1>a, <2>2
    <2>4. begun[l] # "busy" /\ Unchanged(l)
        BY <1>a, <2>2, <2>3 DEF Unchanged
    <2>5. Quiet
        BY ONLY <2>4 DEF Quiet
    <2> QED  BY ONLY <2>2, <2>5 DEF Claim
<1>5. ASSUME NEW f \in Files, NEW c \in Contents, Edit(f, c) PROVE Claim
    <2>1. /\ disk' = [disk EXCEPT ![f] = c] /\ disk[f] # c /\ begun' = begun
          /\ window' = [q \in Processes |-> IF Idle(q) THEN window[q]
                                            ELSE [window[q] EXCEPT ![f] = @ \cup {c}]]
        BY <1>5 DEF Edit
    <2>2. ~Idle(l)
        BY <1>a, <2>1 DEF LookupInv
    <2>3. disk[f] \in window[l][f]
        BY <2>2 DEF WindowInv
    <2>4. window'[l][f] = {disk'[f]}
        BY <1>a DEF Unchanged
    <2> QED  BY <2>1, <2>2, <2>3, <2>4
<1>6. ASSUME UNCHANGED vars PROVE Claim
    BY <1>6, <1>b DEF vars
<1> QED
    <2>1. Claim
        BY <1>1, <1>2, <1>3, <1>4, <1>5, <1>6, StepCases
    <2> QED  BY <2>1 DEF Claim

\* While it is quiet a process has what is there.
LEMMA SameReads ==
    ASSUME Inv, SameWorker, NEW p \in Processes, ~Idle(p)
    PROVE  /\ source[p] = disk[Source]
           /\ pc[p] # "headers" => scanned[p] = disk[Header]
           /\ pc[p] \notin {"headers", "key"} => key[p] = Here
           /\ \A i \in Invocations : answer[p][i] # None => Current(i, answer[p][i])
<1>1. \A f \in Files : window[p][f] = {disk[f]}
    BY DEF SameWorker, Unchanged
<1>2. source[p] = disk[Source]
    BY <1>1, Initially DEF Inv, WindowInv, Idle
<1>3. /\ pc[p] # "headers" => scanned[p] = disk[Header]
      /\ pc[p] \notin {"headers", "key"} =>
            key[p].source = disk[Source] /\ key[p].header = disk[Header]
    BY <1>1, <1>2, Initially DEF Inv, WindowInv, Idle
<1>4. key[p] \in SourceKeys
    BY DEF Inv, Core
<1>5. pc[p] \notin {"headers", "key"} => key[p] = Here
    BY <1>3, <1>4 DEF SourceKeys, Here
<1>6. ASSUME NEW i \in Invocations, answer[p][i] # None PROVE Current(i, answer[p][i])
    BY <1>1, <1>6, Initially DEF Inv, WindowInv, Current
<1> QED  BY <1>2, <1>3, <1>5, <1>6

\* A call that finds the others idle is with itself.
LEMMA AloneIsSame ==
    ASSUME Inv, NEW p \in Processes, Begin(p), Alone(p)
    PROVE  SameWorker' /\ AnswersAreKept'
<1>1. /\ \A q \in Processes : pc'[q] = IF q = p THEN "headers" ELSE "idle"
      /\ disk' = disk /\ window'[p] = [f \in Files |-> {disk[f]}]
    BY DEF Inv, Core, Begin, Alone, Idle, Goto
<1>2. SameWorker'
    BY <1>1 DEF SameWorker, Unchanged, Idle, Making, Building, Using, Answering
<1>3. AnswersAreKept'
    BY <1>1 DEF AnswersAreKept, Answering, Safe
<1> QED  BY <1>2, <1>3

\* And stays so, whoever joins it.
LEMMA SameStep ==
    ASSUME Inv, LookupInv, SameWorker, disk' = disk, [Next]_vars
    PROVE  SameWorker'
<1>0. Core /\ HaveInv /\ WindowInv /\ LookupInv
    BY DEF Inv
<1>a. Here' = Here /\ Here \in SourceKeys /\ Named(Here) \in Identities /\ Named(Here) # None
    BY <1>0, Initially, NoneAssumption DEF Here, Core, SourceKeys, Named, Identities
<1>b. /\ \A p \in Processes : ~Idle(p) => Unchanged(p)
      /\ \A p \in Processes : pc[p] \in Making \ {"identify"} => identity[p] = Named(Here)
      /\ \A p \in Processes : pc[p] \in Making => lookup[Here] \in {None, Named(Here)}
      /\ \A p \in Processes : pc[p] \in Using => identity[p] = lookup[Here]
    BY DEF SameWorker
<1> USE DEF Idle, Goto, workerCache, expansionCache, locals, history, saves, Core, Making, Building,
            Using, Answering
<1>k. ASSUME NEW p \in Processes, UNCHANGED <<lookup, window>>,
             \A q \in Processes \ {p} : pc'[q] = pc[q] /\ identity'[q] = identity[q],
             pc[p] # "idle",
             pc'[p] \in Making \ {"identify"} => identity'[p] = Named(Here),
             pc'[p] \in Making => lookup[Here] \in {None, Named(Here)},
             pc'[p] \in Using => identity'[p] = lookup[Here]
      PROVE  SameWorker'
    BY <1>a, <1>b, <1>k DEF SameWorker, Unchanged
<1>1. ASSUME NEW p \in Processes, Begin(p) PROVE SameWorker'
    <2>1. /\ UNCHANGED <<lookup, identity>> /\ pc' = [pc EXCEPT ![p] = "headers"]
          /\ window' = [window EXCEPT ![p] = [f \in Files |-> {disk[f]}]]
        BY <1>1 DEF Begin
    <2> QED  BY <1>0, <1>a, <1>b, <2>1 DEF SameWorker, Unchanged
<1>12. ASSUME NEW p \in Processes, ScanHeaders(p) PROVE SameWorker'
    <2>1. /\ pc[p] = "headers" /\ pc' = [pc EXCEPT ![p] = "key"]
          /\ UNCHANGED <<lookup, window, identity>>
        BY <1>12 DEF ScanHeaders, saves
    <2> QED  BY <1>0, <1>k, <2>1
<1>2. ASSUME NEW p \in Processes, Lookup(p) PROVE SameWorker'
    <2>1. [source |-> source[p], header |-> disk[Header]] = Here
        BY <1>2, SameReads DEF Lookup, Here
    <2>2. /\ pc[p] = "key" /\ UNCHANGED <<lookup, window>>
          /\ IF LookupHits(Here)
             THEN identity' = [identity EXCEPT ![p] = lookup[Here]] /\ Goto(p, "read")
             ELSE Goto(p, "identify") /\ UNCHANGED identity
        BY <1>2, <2>1 DEF Lookup
    <2>3. ~LookupHits(Here) => lookup[Here] = None
        BY <1>0, <1>a DEF LookupInv, LookupHits
    <2>4. \/ identity' = [identity EXCEPT ![p] = lookup[Here]] /\ pc' = [pc EXCEPT ![p] = "read"]
          \/ identity' = identity /\ pc' = [pc EXCEPT ![p] = "identify"] /\ lookup[Here] = None
        BY <2>2, <2>3, Zenon DEF Goto
    <2> QED  BY <1>0, <1>k, <2>2, <2>4
<1>3. ASSUME NEW p \in Processes, Identify(p) PROVE SameWorker'
    <2>1. Named(Here) = [code |-> Emits[Loaded(p)], header |-> disk[Header]]
        BY <1>3, SameReads DEF Identify, Here, Named, Loaded
    <2>2. /\ pc[p] = "identify" /\ UNCHANGED <<lookup, window>>
          /\ identity' = [identity EXCEPT ![p] = Named(Here)]
          /\ pc' = [pc EXCEPT ![p] = IF entry[Named(Here)] # None THEN "record" ELSE "sdk"]
        BY <1>3, <2>1 DEF Identify
    <2> QED  BY <1>0, <1>b, <1>k, <2>2
<1>4. ASSUME NEW p \in Processes,
             FindSdk(p) \/ PublishObjects(p) \/ PublishPch(p) \/ Compile(p) \/ Publish(p)
      PROVE  SameWorker'
    <2>1. /\ UNCHANGED <<lookup, window, identity>>
          /\ pc[p] \in Making \ {"identify"}
          /\ pc'[p] \in Making \ {"identify"}
          /\ \A q \in Processes \ {p} : pc'[q] = pc[q]
        BY <1>0, <1>4 DEF FindSdk, PublishObjects, PublishPch, Compile, Publish
    <2> QED  BY <1>b, <1>k, <2>1
<1>5. ASSUME NEW p \in Processes, Record(p) PROVE SameWorker'
    <2>1. /\ pc[p] = "record" /\ pc' = [pc EXCEPT ![p] = "read"] /\ UNCHANGED <<identity, window>>
          /\ lookup' = [lookup EXCEPT ![Here] = Named(Here)]
        BY <1>5, <1>b, SameReads DEF Record
    <2>2. lookup'[Here] = Named(Here)
        BY <1>0, <1>a, <2>1
    <2>3. ASSUME NEW q \in Processes, pc[q] \in Using PROVE identity[q] = Named(Here)
        <3>1. identity[q] = lookup[Here] /\ lookup[Here] \in {None, Named(Here)}
            BY <1>b, <2>1, <2>3
        <3>2. identity[q] # None
            BY <1>0, NoneAssumption
        <3> QED  BY <3>1, <3>2
    <2>4. \A q \in Processes : pc'[q] = IF q = p THEN "read" ELSE pc[q]
        BY <1>0, <2>1
    <2> QED  BY <1>a, <1>b, <2>1, <2>2, <2>3, <2>4 DEF SameWorker, Unchanged
<1>6. ASSUME NEW p \in Processes, ReadBatch(p) PROVE SameWorker'
    <2>1. PICK place \in {"run", "drop", "singles"} : pc' = [pc EXCEPT ![p] = place]
        BY <1>6, ReadBatchDoes
    <2>2. pc[p] = "read" /\ UNCHANGED <<lookup, window, identity>>
        BY <1>6, ReadBatchDoes
    <2> QED  BY <1>0, <1>b, <1>k, <2>1, <2>2
<1>7. ASSUME NEW p \in Processes, NEW i \in Invocations, Expand(p, i) PROVE SameWorker'
    <2>1. UNCHANGED <<lookup, window, identity>> /\ pc[p] = "run"
          /\ (pc' = pc \/ pc' = [pc EXCEPT ![p] = "store"])
        BY <1>7, Zenon DEF Expand, StoreIfCacheable, Goto, workerCache, expansionCache
    <2> QED  BY <1>0, <1>b, <1>k, <2>1
<1>8. ASSUME NEW p \in Processes,
             DropBatch(p) \/ ReadSingles(p) \/ StoreSingle(p) \/ StoreBatch(p)
      PROVE  SameWorker'
    <2>1. /\ UNCHANGED <<lookup, window, identity>>
          /\ pc[p] \in Using /\ pc'[p] \in Using
          /\ \A q \in Processes \ {p} : pc'[q] = pc[q]
        BY <1>0, <1>8 DEF DropBatch, ReadSingles, StoreSingle, StoreBatch
    <2> QED  BY <1>b, <1>k, <2>1
<1>9. ASSUME NEW p \in Processes,
             Refuse(p) \/ CompileFails(p) \/ ExpandFails(p) \/ Return(p) \/ Kill(p)
      PROVE  SameWorker'
    <2>1. Leave(p)
        BY <1>9 DEF Refuse, CompileFails, ExpandFails, Return, Kill, Fail, Break
    <2>2. /\ lookup' = lookup /\ pc'[p] = "idle"
          /\ \A q \in Processes \ {p} : pc'[q] = pc[q] /\ identity'[q] = identity[q]
                                        /\ window'[q] = window[q]
        BY <1>0, <2>1 DEF Leave
    <2> QED  BY <1>a, <1>b, <2>2 DEF SameWorker, Unchanged
<1>10. ASSUME NEW f \in Files, NEW c \in Contents, Edit(f, c) PROVE SameWorker'
    <2>1. disk[f] # c /\ disk' = [disk EXCEPT ![f] = c]
        BY <1>10 DEF Edit
    <2> QED  BY <1>0, <2>1
<1>11. ASSUME UNCHANGED vars PROVE SameWorker'
    BY <1>a, <1>b, <1>11 DEF vars, SameWorker, Unchanged
<1> HIDE DEF SameWorker
<1> QED  BY <1>1, <1>2, <1>3, <1>4, <1>5, <1>6, <1>7, <1>8, <1>9, <1>10, <1>11, <1>12, StepCases

\* What reading the batch leads to.
LEMMA ReadBatchLeads ==
    ASSUME Core, NEW p \in Processes, ReadBatch(p)
    PROVE  /\ pc[p] = "read"
           /\ UNCHANGED <<disk, lookup, single, batch, identity, storing, window, begun, ran, warm>>
           /\ \/ /\ BatchCurrent(identity[p]) /\ pc' = [pc EXCEPT ![p] = "run"]
                 /\ answer' = [answer EXCEPT ![p] = batch[identity[p]]]
              \/ /\ ~BatchCurrent(identity[p]) /\ answer' = answer
                 /\ pc' = [pc EXCEPT ![p] = "drop"] \/ pc' = [pc EXCEPT ![p] = "singles"]
<1>1. /\ pc[p] = "read"
      /\ UNCHANGED <<disk, lookup, single, batch, identity, storing, window, begun, ran, warm>>
    BY DEF ReadBatch, workerCache, expansionCache, history, saves
<1>2. \/ /\ BatchCurrent(identity[p]) /\ pc' = [pc EXCEPT ![p] = "run"]
         /\ answer' = [answer EXCEPT ![p] = batch[identity[p]]]
      \/ /\ ~BatchCurrent(identity[p]) /\ answer' = answer
         /\ pc' = [pc EXCEPT ![p] = IF batch[identity[p]] # None THEN "drop" ELSE "singles"]
    BY Zenon DEF ReadBatch, Goto
<1>3. (IF batch[identity[p]] # None THEN "drop" ELSE "singles") \in {"drop", "singles"}
    BY ONLY TRUE
<1> QED  BY ONLY <1>1, <1>2, <1>3

\* What storing the batch leads to.
LEMMA StoreBatchLeads ==
    ASSUME Inv, SameWorker, NEW p \in Processes, StoreBatch(p)
    PROVE  /\ pc[p] = "run" /\ pc' = [pc EXCEPT ![p] = "done"]
           /\ \A i \in Invocations : answer[p][i] # None
           /\ UNCHANGED <<disk, lookup, single, identity, answer, storing, window, begun, ran,
                          warm>>
           /\ \A id \in Identities : id # identity[p] => batch'[id] = batch[id]
           /\ BatchCurrent(identity[p]) => BatchCurrent(identity[p])'
<1>1. /\ pc[p] = "run" /\ pc' = [pc EXCEPT ![p] = "done"]
      /\ \A i \in Invocations : answer[p][i] # None
      /\ UNCHANGED <<disk, lookup, single, identity, answer, storing, window, begun, ran, warm>>
    BY DEF StoreBatch, Goto, workerCache, locals, history, saves
<1>2. batch' = batch \/ batch' = [batch EXCEPT ![identity[p]] = answer[p]]
    BY Zenon DEF StoreBatch
<1>3. batch \in [Identities -> MaybeIn([Invocations -> Answers])] /\ identity[p] \in Identities
      /\ answer[p] \in [Invocations -> MaybeIn(Answers)]
    BY DEF Inv, Core
<1>4. \A id \in Identities : id # identity[p] => batch'[id] = batch[id]
    BY ONLY <1>2, <1>3
<1>5. \A i \in Invocations : Current(i, answer[p][i])
    BY <1>1, SameReads DEF Idle
<1>6. answer[p] # None
    <2>1. answer[p] \in [Invocations -> Answers]
        BY <1>1, <1>3 DEF MaybeIn
    <2> QED  BY <2>1, NoneAssumption
<1>7. ASSUME BatchCurrent(identity[p]) PROVE BatchCurrent(identity[p])'
    <2>1. CASE batch' = batch
        BY <1>1, <1>7, <2>1 DEF BatchCurrent, Current
    <2>2. CASE batch' = [batch EXCEPT ![identity[p]] = answer[p]]
        <3>1. batch'[identity[p]] = answer[p]
            BY <1>3, <2>2
        <3> QED  BY <1>1, <1>5, <1>6, <3>1 DEF BatchCurrent, Current
    <2> QED  BY <1>2, <2>1, <2>2
<1> QED  BY ONLY <1>1, <1>4, <1>7

\* Who stores, stores what is current.
LEMMA StoredStays ==
    ASSUME Inv, SameWorker, disk' = disk, [Next]_vars
    PROVE  \A id \in Identities, i \in Invocations : Stored(id, i) => Stored(id, i)'
<1> DEFINE Claim == \A id \in Identities, i \in Invocations : Stored(id, i) => Stored(id, i)'
<1>0. Core /\ HaveInv
    BY DEF Inv
<1>a. ASSUME single' = single PROVE Claim
    BY <1>a DEF Stored, Current
<1> HIDE DEF Claim
<1> USE DEF Leave, Fail, Break, workerCache, expansionCache, locals, history, saves
<1>1. ASSUME NEW p \in Processes,
             \/ Begin(p) \/ ScanHeaders(p) \/ Lookup(p) \/ Refuse(p) \/ Identify(p) \/ FindSdk(p)
             \/ PublishObjects(p) \/ PublishPch(p) \/ Compile(p) \/ CompileFails(p)
             \/ Publish(p) \/ Record(p) \/ DropBatch(p) \/ ReadSingles(p) \/ StoreBatch(p)
             \/ ExpandFails(p) \/ Return(p) \/ Kill(p)
      PROVE  Claim
    BY <1>1, <1>a DEF Begin, ScanHeaders, Lookup, Refuse, Identify, FindSdk, PublishObjects, PublishPch,
       Compile, CompileFails, Publish, Record, DropBatch, ReadSingles, StoreBatch, ExpandFails,
       Return, Kill
<1>2. ASSUME NEW p \in Processes, ReadBatch(p) PROVE Claim
    BY <1>2, <1>a DEF ReadBatch
<1>3. ASSUME NEW p \in Processes, NEW i \in Invocations, Expand(p, i) PROVE Claim
    BY <1>3, <1>a DEF Expand
<1>4. ASSUME NEW p \in Processes, StoreSingle(p) PROVE Claim
    <2>1. /\ storing[p] \in Invocations /\ answer[p][storing[p]] # None
          /\ single' = [single EXCEPT ![identity[p]][storing[p]] = answer[p][storing[p]]]
        BY <1>0, <1>4 DEF StoreSingle, HaveInv, Core, MaybeIn
    <2>2. Current(storing[p], answer[p][storing[p]])
        BY <1>4, <2>1, SameReads DEF StoreSingle, Idle
    <2> QED  BY <1>0, <2>1, <2>2 DEF Claim, Stored, Current, Core
<1>5. ASSUME NEW f \in Files, NEW c \in Contents, Edit(f, c) PROVE Claim
    BY <1>5, <1>a DEF Edit
<1>6. ASSUME UNCHANGED vars PROVE Claim
    BY <1>6, <1>a DEF vars
<1> QED
    <2>1. Claim
        BY <1>1, <1>2, <1>3, <1>4, <1>5, <1>6, StepCases
    <2> QED  BY <2>1 DEF Claim

\* A safe identity stays so: nobody else who begins now finds its batch stale.
LEMMA SafeStays ==
    ASSUME Inv, SameWorker, disk' = disk, [Next]_vars
    PROVE  \A id \in Identities : Safe(id) => Safe(id)'
<1> SUFFICES ASSUME NEW id \in Identities, Safe(id) PROVE Safe(id)'
    OBVIOUS
<1>0. Core
    BY DEF Inv
<1>a. CASE \A i \in Invocations : Cacheable(id, i) => Stored(id, i)
    BY <1>a, StoredStays DEF Safe, Cacheable
<1>b. ASSUME BatchCurrent(id), \A p \in Processes : pc[p] = "drop" => identity[p] # id
      PROVE  Safe(id)'
    <2>a. ASSUME batch' = batch,
                 \A p \in Processes : pc'[p] = "drop" => pc[p] = "drop" /\ identity'[p] = identity[p]
          PROVE  Safe(id)'
        BY <1>b, <2>a DEF Safe, BatchCurrent, Current
    <2> USE <1>0 DEF Core, Leave, Fail, Break, Idle, Goto, workerCache, expansionCache, locals,
            history, saves
    <2>1. ASSUME NEW p \in Processes, Begin(p) \/ ScanHeaders(p) \/ Lookup(p) \/ Identify(p)
          PROVE Safe(id)'
        <3>1. /\ batch' = batch /\ pc'[p] # "drop"
              /\ \A q \in Processes \ {p} : pc'[q] = pc[q] /\ identity'[q] = identity[q]
            BY <2>1 DEF Begin, ScanHeaders, Lookup, Identify
        <3> QED  BY <2>a, <3>1
    <2>2. ASSUME NEW p \in Processes,
                 Refuse(p) \/ CompileFails(p) \/ ExpandFails(p) \/ Return(p) \/ Kill(p)
          PROVE  Safe(id)'
        <3>1. Leave(p)
            BY <2>2 DEF Refuse, CompileFails, ExpandFails, Return, Kill
        <3> QED  BY <2>a, <3>1
    <2>3. ASSUME NEW p \in Processes,
                 \/ FindSdk(p) \/ PublishObjects(p) \/ PublishPch(p)
                 \/ Compile(p) \/ Publish(p) \/ Record(p) \/ ReadSingles(p)
                 \/ StoreSingle(p)
          PROVE  Safe(id)'
        <3>1. /\ batch' = batch /\ identity' = identity
              /\ \A q \in Processes : pc'[q] = "drop" => pc[q] = "drop"
            BY <2>3 DEF FindSdk, PublishObjects, PublishPch, Compile, Publish, Record,
               ReadSingles, StoreSingle
        <3> QED  BY <2>a, <3>1
    <2>4. ASSUME NEW p \in Processes, ReadBatch(p) PROVE Safe(id)'
        <3>1. batch' = batch /\ identity' = identity
              /\ \A q \in Processes : pc'[q] = "drop" =>
                    pc[q] = "drop" \/ (q = p /\ ~BatchCurrent(identity[p]))
            BY <2>4, ReadBatchLeads
        <3> QED  BY <1>b, <3>1 DEF Safe, BatchCurrent, Current
    <2>5. ASSUME NEW p \in Processes, DropBatch(p) PROVE Safe(id)'
        <3>1. /\ pc[p] = "drop" /\ batch' = [batch EXCEPT ![identity[p]] = None]
              /\ identity' = identity /\ \A q \in Processes : pc'[q] = "drop" => pc[q] = "drop"
            BY <2>5 DEF DropBatch
        <3>2. batch'[id] = batch[id]
            BY <1>b, <3>1
        <3> QED  BY <1>b, <3>1, <3>2 DEF Safe, BatchCurrent, Current
    <2>6. ASSUME NEW p \in Processes, NEW i \in Invocations, Expand(p, i) PROVE Safe(id)'
        <3>1. batch' = batch /\ identity' = identity
              /\ (pc' = pc \/ pc' = [pc EXCEPT ![p] = "store"])
            BY <2>6, Zenon DEF Expand, StoreIfCacheable
        <3> QED  BY <2>a, <3>1
    <2>7. ASSUME NEW p \in Processes, StoreBatch(p) PROVE Safe(id)'
        <3>1. /\ identity' = identity /\ \A q \in Processes : pc'[q] = "drop" => pc[q] = "drop"
            BY <2>7, StoreBatchLeads
        <3>2. BatchCurrent(id)'
            <4>1. CASE id = identity[p]
                <5>1. BatchCurrent(identity[p])' /\ identity'[p] = id
                    BY <1>b, <2>7, <4>1, StoreBatchLeads
                <5> QED  BY ONLY <5>1 DEF BatchCurrent
            <4>2. CASE id # identity[p]
                BY <1>b, <2>7, <4>2, StoreBatchLeads DEF BatchCurrent, Current
            <4> QED  BY <4>1, <4>2
        <3> QED  BY <1>b, <3>1, <3>2 DEF Safe
    <2>8. ASSUME NEW f \in Files, NEW c \in Contents, Edit(f, c) PROVE Safe(id)'
        BY <2>8, <2>a DEF Edit
    <2>9. ASSUME UNCHANGED vars PROVE Safe(id)'
        BY <2>9, <2>a DEF vars
    <2> HIDE DEF Safe
    <2> QED  BY <2>1, <2>2, <2>3, <2>4, <2>5, <2>6, <2>7, <2>8, <2>9, StepCases
<1> QED  BY <1>a, <1>b DEF Safe

\* What somebody has stays stored.
LEMMA KeptStep ==
    ASSUME Inv, SameWorker, AnswersAreKept, disk' = disk, [Next]_vars
    PROVE  AnswersAreKept'
<1>0. Core /\ HaveInv
    BY DEF Inv
<1>a. \A id \in Identities : Safe(id) => Safe(id)'
    BY SafeStays
<1>b. \A id \in Identities, i \in Invocations : Stored(id, i) => Stored(id, i)'
    BY StoredStays
<1>c. /\ \A id \in Identities : BatchCurrent(id) => Safe(id)
      /\ \A p \in Processes : pc[p] \in Answering =>
            \A i \in Invocations :
               answer[p][i] # None /\ Cacheable(identity[p], i) => Kept(p, i)
    BY DEF AnswersAreKept
\* It suffices to look at what a step gets or loses.
<1>k. ASSUME \A id \in Identities :
                BatchCurrent(id)' => BatchCurrent(id) \/ Safe(id),
             \A p \in Processes, i \in Invocations :
                pc'[p] \in Answering /\ answer'[p][i] # None /\ Cacheable(identity'[p], i) =>
                   /\ identity'[p] = identity[p]
                   /\ \/ Safe(identity[p])
                      \/ Stored(identity[p], i)
                      \/ Stored(identity[p], i)'
                      \/ pc'[p] = "store" /\ storing'[p] = i
                      \/ pc[p] \in Answering /\ answer[p][i] # None /\ pc[p] # "store"
                      \/ pc[p] \in Answering /\ answer[p][i] # None /\ storing[p] # i
      PROVE  AnswersAreKept'
    <2>1. ASSUME NEW id \in Identities, BatchCurrent(id)' PROVE Safe(id)'
        BY <1>a, <1>c, <1>k, <2>1
    <2>2. ASSUME NEW p \in Processes, NEW i \in Invocations, pc'[p] \in Answering,
                 answer'[p][i] # None, Cacheable(identity'[p], i)
          PROVE  Kept(p, i)'
        <3>1. identity[p] \in Identities /\ identity'[p] = identity[p]
            BY <1>0, <1>k, <2>2 DEF Core
        <3>2. \/ Safe(identity[p])
              \/ Stored(identity[p], i)
              \/ Stored(identity[p], i)'
              \/ pc'[p] = "store" /\ storing'[p] = i
            BY <1>c, <1>k, <2>2, <3>1 DEF Kept
        <3>3. CASE Safe(identity[p])
            <4>1. PICK id \in Identities : id = identity[p]
                BY <3>1
            <4>2. Safe(id)' /\ identity'[p] = id
                BY <1>a, <3>1, <3>3, <4>1
            <4>3. Safe(identity[p])'
                BY ONLY <4>2 DEF Safe, Stored, BatchCurrent
            <4> QED  BY <4>3 DEF Kept
        <3>4. CASE Stored(identity[p], i) \/ Stored(identity[p], i)'
            <4>1. PICK id \in Identities : id = identity[p]
                BY <3>1
            <4>2. Stored(id, i)' /\ identity'[p] = id
                BY <1>b, <3>1, <3>4, <4>1 DEF Stored
            <4>3. Stored(identity[p], i)'
                BY ONLY <4>2 DEF Stored
            <4> QED  BY <4>3 DEF Kept
        <3> QED  BY <3>2, <3>3, <3>4 DEF Kept
    <2> QED  BY <2>1, <2>2 DEF AnswersAreKept, Cacheable
<1> USE DEF Idle, Goto, Leave, Fail, Break, workerCache, expansionCache, locals, history, saves,
            Answering
<1>1. ASSUME NEW p \in Processes, Begin(p) \/ ScanHeaders(p) \/ Lookup(p) \/ Identify(p)
      PROVE  AnswersAreKept'
    <2>1. /\ UNCHANGED <<disk, batch, answer, storing>> /\ pc'[p] \notin Answering
          /\ \A q \in Processes \ {p} : pc'[q] = pc[q] /\ identity'[q] = identity[q]
        BY <1>0, <1>1 DEF Begin, ScanHeaders, Lookup, Identify, Core
    <2> QED
        BY <1>k, <2>1 DEF BatchCurrent, Current
<1>2. ASSUME NEW p \in Processes,
             Refuse(p) \/ CompileFails(p) \/ ExpandFails(p) \/ Return(p) \/ Kill(p)
      PROVE  AnswersAreKept'
    <2>1. Leave(p)
        BY <1>2 DEF Refuse, CompileFails, ExpandFails, Return, Kill
    <2>2. /\ UNCHANGED <<disk, batch>> /\ pc'[p] = "idle"
          /\ \A q \in Processes \ {p} : /\ pc'[q] = pc[q] /\ identity'[q] = identity[q]
                                        /\ answer'[q] = answer[q] /\ storing'[q] = storing[q]
        BY <1>0, <2>1 DEF Core
    <2> QED
        BY <1>k, <2>2 DEF BatchCurrent, Current
<1>3. ASSUME NEW p \in Processes,
             \/ FindSdk(p) \/ PublishObjects(p) \/ PublishPch(p)
             \/ Compile(p) \/ Publish(p) \/ Record(p)
      PROVE  AnswersAreKept'
    <2>1. /\ UNCHANGED <<disk, batch, answer, storing, identity>> /\ pc'[p] \notin Answering
          /\ \A q \in Processes \ {p} : pc'[q] = pc[q]
        BY <1>0, <1>3 DEF FindSdk, PublishObjects, PublishPch, Compile, Publish, Record, Core
    <2> QED
        BY <1>k, <2>1 DEF BatchCurrent, Current
<1>4. ASSUME NEW p \in Processes, ReadBatch(p) PROVE AnswersAreKept'
    <2>1. /\ UNCHANGED <<disk, batch, storing, identity>>
          /\ \A q \in Processes \ {p} : pc'[q] = pc[q] /\ answer'[q] = answer[q]
          /\ pc'[p] \in Answering => BatchCurrent(identity[p])
        BY <1>0, <1>4, ReadBatchLeads, ZenonT(60) DEF Core
    <2>2. pc'[p] \in Answering => Safe(identity[p])
        BY <1>0, <1>c, <2>1 DEF Core
    <2> QED
        BY <1>k, <2>1, <2>2 DEF BatchCurrent, Current
<1>5. ASSUME NEW p \in Processes, DropBatch(p) PROVE AnswersAreKept'
    <2>1. /\ UNCHANGED <<disk, answer, storing, identity>> /\ pc'[p] \notin Answering
          /\ \A q \in Processes \ {p} : pc'[q] = pc[q]
          /\ batch' = [batch EXCEPT ![identity[p]] = None]
        BY <1>0, <1>5 DEF DropBatch, Core
    <2>2. \A id \in Identities : BatchCurrent(id)' => BatchCurrent(id)
        BY <1>0, <2>1 DEF BatchCurrent, Current, Core
    <2> QED
        BY <1>k, <2>1, <2>2
<1>6. ASSUME NEW p \in Processes, ReadSingles(p) PROVE AnswersAreKept'
    <2>1. /\ UNCHANGED <<disk, batch, storing, identity>>
          /\ \A q \in Processes \ {p} : pc'[q] = pc[q] /\ answer'[q] = answer[q]
          /\ answer'[p] = [i \in Invocations |->
                LET found == single[identity[p]][i]
                IN  IF found # None /\ Current(i, found) THEN found ELSE None]
        BY <1>0, <1>6 DEF ReadSingles, Core
    <2>2. \A i \in Invocations : answer'[p][i] # None => Stored(identity[p], i)
        BY <2>1 DEF Stored
    <2> QED
        BY <1>k, <2>1, <2>2 DEF BatchCurrent, Current
<1>7. ASSUME NEW p \in Processes, NEW i \in Invocations, Expand(p, i) PROVE AnswersAreKept'
    <2>1. /\ UNCHANGED <<disk, batch, identity>> /\ pc[p] = "run"
          /\ \A q \in Processes \ {p} :
                pc'[q] = pc[q] /\ answer'[q] = answer[q] /\ storing'[q] = storing[q]
          /\ \A j \in Invocations \ {i} : answer'[p][j] = answer[p][j]
        <3>1. /\ UNCHANGED <<disk, batch, identity>> /\ pc[p] = "run"
              /\ answer' = [answer EXCEPT ![p][i] = [worker |-> entry[identity[p]],
                                                     seen |-> disk[Reads[i]]]]
            BY <1>7 DEF Expand
        <3>2. \/ UNCHANGED <<storing, pc>>
              \/ storing' = [storing EXCEPT ![p] = i] /\ pc' = [pc EXCEPT ![p] = "store"]
            BY <1>7, Zenon DEF Expand, StoreIfCacheable, Goto
        <3> QED  BY ONLY <1>0, <3>1, <3>2 DEF Core
    <2>2. Cacheable(identity[p], i) => pc'[p] = "store" /\ storing'[p] = i
        <3>1. StoreIfCacheable(p, i)
            BY <1>7 DEF Expand
        <3> QED  BY ONLY <1>0, <3>1 DEF StoreIfCacheable, Goto, Core
    <2> QED
        BY <1>k, <2>1, <2>2 DEF BatchCurrent, Current
<1>8. ASSUME NEW p \in Processes, StoreSingle(p) PROVE AnswersAreKept'
    <2>1. /\ UNCHANGED <<disk, batch, identity, answer, storing>> /\ pc[p] = "store"
          /\ \A q \in Processes \ {p} : pc'[q] = pc[q]
          /\ single' = [single EXCEPT ![identity[p]][storing[p]] = answer[p][storing[p]]]
        BY <1>0, <1>8 DEF StoreSingle, Core
    <2>2. storing[p] \in Invocations /\ answer[p][storing[p]] # None
        BY <1>0, <2>1 DEF HaveInv, Core, MaybeIn
    <2>3. Current(storing[p], answer[p][storing[p]])
        BY <2>1, <2>2, SameReads
    <2>4. Stored(identity[p], storing[p])'
        BY <1>0, <2>1, <2>2, <2>3 DEF Stored, Current, Core
    <2>5. \A i \in Invocations : i = storing[p] => Stored(identity[p], i)'
        BY ONLY <2>1, <2>4 DEF Stored
    <2> QED
        BY <1>k, <2>1, <2>5 DEF BatchCurrent, Current
<1>9. ASSUME NEW p \in Processes, StoreBatch(p) PROVE AnswersAreKept'
    <2>1. /\ UNCHANGED <<disk, identity, answer, storing>> /\ pc[p] = "run"
          /\ \A q \in Processes \ {p} : pc'[q] = pc[q]
          /\ \A i \in Invocations : answer[p][i] # None
          /\ \A id \in Identities : id # identity[p] => batch'[id] = batch[id]
        BY <1>0, <1>9, StoreBatchLeads DEF Core
    <2>2. \A i \in Invocations :
             Cacheable(identity[p], i) => Safe(identity[p]) \/ Stored(identity[p], i)
        BY <1>c, <2>1 DEF Kept
    <2>3. Safe(identity[p])
        BY <2>2 DEF Safe
    <2>4. \A id \in Identities : BatchCurrent(id)' => BatchCurrent(id) \/ id = identity[p]
        BY <2>1 DEF BatchCurrent, Current
    <2> QED
        BY <1>k, <2>1, <2>3, <2>4
<1>10. ASSUME NEW f \in Files, NEW c \in Contents, Edit(f, c) PROVE AnswersAreKept'
    <2>1. disk[f] # c /\ disk' = [disk EXCEPT ![f] = c]
        BY <1>10 DEF Edit
    <2> QED  BY <1>0, <2>1 DEF Core
<1>11. ASSUME UNCHANGED vars PROVE AnswersAreKept'
    <2>1. UNCHANGED <<disk, batch, pc, identity, answer, storing, single>>
        BY <1>11 DEF vars
    <2> QED
        BY <1>c, <2>1 DEF AnswersAreKept, Kept, Safe, Stored, BatchCurrent, Current
<1> HIDE DEF AnswersAreKept, Answering
<1> QED  BY <1>1, <1>2, <1>3, <1>4, <1>5, <1>6, <1>7, <1>8, <1>9, <1>10, <1>11, StepCases

\* The two together.
LEMMA QuietStep ==
    ASSUME Inv, Counters, LookupInv, QuietInv, [Next]_vars
    PROVE  QuietInv'
<1> SUFFICES ASSUME Quiet' PROVE SameWorker' /\ AnswersAreKept'
    BY DEF QuietInv
<1>1. disk' = disk /\ (Quiet \/ \E p \in Processes : Begin(p) /\ Alone(p))
    BY QuietBefore
<1>2. CASE Quiet
    BY <1>1, <1>2, SameStep, KeptStep DEF QuietInv
<1>3. CASE \E p \in Processes : Begin(p) /\ Alone(p)
    BY <1>3, AloneIsSame
<1> QED  BY <1>1, <1>2, <1>3

\* What is prepared stays so.
LEMMA PreparedStays ==
    ASSUME Inv, SameWorker, Prepared, disk' = disk, [Next]_vars
    PROVE  Here' = Here /\ lookup'[Here] = lookup[Here] /\ Prepared'
<1>0. Core /\ Here' = Here /\ Here \in SourceKeys
    BY Initially DEF Inv, Core, Here, SourceKeys
<1>1. lookup'[Here] = lookup[Here]
    <2> DEFINE Claim == lookup'[Here] = lookup[Here]
    <2>a. ASSUME lookup' = lookup PROVE Claim
        BY <2>a
    <2> HIDE DEF Claim
    <2> USE DEF Leave, Fail, Break, workerCache, expansionCache, locals, history, saves
    <2>1. ASSUME NEW p \in Processes,
                 \/ Begin(p) \/ ScanHeaders(p) \/ Lookup(p) \/ Refuse(p) \/ Identify(p) \/ FindSdk(p)
                 \/ PublishObjects(p) \/ PublishPch(p) \/ Compile(p) \/ CompileFails(p)
                 \/ Publish(p) \/ DropBatch(p) \/ ReadSingles(p) \/ StoreSingle(p)
                 \/ StoreBatch(p) \/ ExpandFails(p) \/ Return(p) \/ Kill(p)
          PROVE  Claim
        BY <2>1, <2>a DEF Begin, ScanHeaders, Lookup, Refuse, Identify, FindSdk, PublishObjects,
           PublishPch, Compile, CompileFails, Publish, DropBatch, ReadSingles, StoreSingle, StoreBatch,
           ExpandFails, Return, Kill
    <2>2. ASSUME NEW p \in Processes, ReadBatch(p) PROVE Claim
        BY <2>2, <2>a DEF ReadBatch
    <2>3. ASSUME NEW p \in Processes, NEW i \in Invocations, Expand(p, i) PROVE Claim
        BY <2>3, <2>a DEF Expand
    <2>4. ASSUME NEW p \in Processes, Record(p) PROVE Claim
        <3>1. pc[p] = "record" /\ lookup' = [lookup EXCEPT ![key[p]] = identity[p]]
            BY <2>4 DEF Record
        <3>2. identity[p] = Named(Here) /\ lookup[Here] \in {None, Named(Here)}
            BY <3>1 DEF SameWorker, Making, Building
        <3>3. identity[p] = lookup[Here]
            BY <3>2 DEF Prepared
        <3> QED  BY <1>0, <3>1, <3>3 DEF Core, Claim
    <2>5. ASSUME NEW f \in Files, NEW c \in Contents, Edit(f, c) PROVE Claim
        BY <2>5, <2>a DEF Edit
    <2>6. ASSUME UNCHANGED vars PROVE Claim
        BY <2>6, <2>a DEF vars
    <2> QED
        <3>1. Claim
            BY <2>1, <2>2, <2>3, <2>4, <2>5, <2>6, StepCases
        <3> QED  BY <3>1 DEF Claim
<1>2. PICK id \in Identities : id = lookup[Here]
    BY <1>0 DEF Core, MaybeIn, Prepared
<1>3. Safe(id)'
    BY <1>2, SafeStays DEF Prepared
<1>4. lookup'[Here'] = id
    BY <1>0, <1>1, <1>2
<1>5. Safe(lookup[Here])'
    BY ONLY <1>3, <1>4 DEF Safe, Stored, BatchCurrent
<1>6. lookup'[Here'] # None
    BY <1>0, <1>1 DEF Prepared
<1> QED  BY <1>0, <1>1, <1>5, <1>6 DEF Prepared

\* A call that began warm goes on so.
LEMMA WarmCallStep ==
    ASSUME Inv, Booleans, Counters, LookupInv, SameWorker, disk' = disk, [Next]_vars,
           NEW l \in Processes, ~Idle(l), WarmCall(l), begun'[l] = "warm"
    PROVE  WarmCall(l)'
<1>0. Core /\ HaveInv /\ Here' = Here /\ lookup'[Here] = lookup[Here] /\ Prepared'
      /\ ran \in [Processes -> BOOLEAN] /\ Here \in SourceKeys
    BY PreparedStays, Initially DEF Inv, Booleans, WarmCall, Core, Here, SourceKeys
<1>a. \A id \in Identities, i \in Invocations : Stored(id, i) => Stored(id, i)'
    BY StoredStays
<1>b. /\ ~ran[l] /\ Prepared /\ pc[l] \notin Making
      /\ pc[l] \in {"drop", "singles"} =>
            \A i \in Invocations : Cacheable(identity[l], i) => Stored(identity[l], i)
      /\ pc[l] \in Answering =>
            \A i \in Invocations : Cacheable(identity[l], i) => answer[l][i] # None
    BY DEF WarmCall
<1>k. ASSUME ~ran'[l], pc'[l] \notin Making, identity'[l] = identity[l],
             pc'[l] \in {"drop", "singles"} =>
                \A i \in Invocations : Cacheable(identity[l], i) => Stored(identity[l], i),
             pc'[l] \in Answering =>
                \A i \in Invocations : Cacheable(identity[l], i) => answer'[l][i] # None
      PROVE  WarmCall(l)'
    <2>1. PICK id \in Identities : id = identity[l]
        BY <1>0 DEF Core
    <2>2. pc'[l] \in {"drop", "singles"} =>
             \A i \in Invocations : Cacheable(id, i) => Stored(id, i)'
        BY <1>a, <1>k, <2>1
    <2>3. pc'[l] \in {"drop", "singles"} =>
             \A i \in Invocations : Cacheable(identity[l], i)' => Stored(identity[l], i)'
        BY ONLY <1>k, <2>1, <2>2 DEF Cacheable, Stored
    <2> QED  BY <1>0, <1>k, <2>3 DEF WarmCall, Cacheable
<1> USE DEF Idle, Goto, workerCache, expansionCache, locals, history, saves
<1>c. ASSUME UNCHANGED <<ran, pc, identity, answer>> PROVE WarmCall(l)'
    BY <1>b, <1>c, <1>k
<1>d. ASSUME ran'[l] = ran[l], pc'[l] = pc[l], identity'[l] = identity[l], answer'[l] = answer[l]
      PROVE  WarmCall(l)'
    BY <1>b, <1>d, <1>k
<1>1. ASSUME NEW p \in Processes, Begin(p) PROVE WarmCall(l)'
    <2>1. p # l /\ UNCHANGED <<ran, identity, answer>> /\ pc' = [pc EXCEPT ![p] = "headers"]
        BY <1>1 DEF Begin
    <2> QED  BY <1>0, <1>d, <2>1 DEF Core
<1>11. ASSUME NEW p \in Processes, ScanHeaders(p) PROVE WarmCall(l)'
    <2>1. /\ pc[p] = "headers" /\ pc' = [pc EXCEPT ![p] = "key"]
          /\ UNCHANGED <<ran, identity, answer>>
        BY <1>11 DEF ScanHeaders
    <2>2. CASE p = l
        <3>1. pc'[l] = "key" /\ ~ran'[l]
            BY <1>0, <1>b, <2>1, <2>2 DEF Core
        <3> QED  BY <1>0, <3>1 DEF WarmCall, Making, Building, Answering
    <2>3. CASE p # l
        BY <1>0, <1>d, <2>1, <2>3 DEF Core
    <2> QED  BY <2>2, <2>3
<1>2. ASSUME NEW p \in Processes, Lookup(p) PROVE WarmCall(l)'
    <2>1. [source |-> source[p], header |-> disk[Header]] = Here
        BY <1>2, SameReads DEF Lookup, Here
    <2>2. LookupHits(Here)
        BY <1>0, <1>b DEF LookupInv, LookupHits, Prepared
    <2>3. /\ UNCHANGED <<ran, answer>> /\ identity' = [identity EXCEPT ![p] = lookup[Here]]
          /\ pc' = [pc EXCEPT ![p] = "read"]
        BY <1>2, <2>1, <2>2 DEF Lookup
    <2>4. CASE p = l
        <3>1. pc'[l] = "read" /\ ~ran'[l]
            BY <1>0, <1>b, <2>3, <2>4 DEF Core
        <3> QED  BY <1>0, <3>1 DEF WarmCall, Making, Building, Answering
    <2>5. CASE p # l
        BY <1>0, <1>d, <2>3, <2>5 DEF Core
    <2> QED  BY <2>4, <2>5
<1>3. ASSUME NEW p \in Processes,
             \/ Identify(p) \/ FindSdk(p) \/ PublishObjects(p) \/ PublishPch(p) \/ Compile(p)
             \/ Publish(p) \/ Record(p)
      PROVE  WarmCall(l)'
    <2>1. pc[p] \in Making
        BY <1>3 DEF Identify, FindSdk, PublishObjects, PublishPch, Compile, Publish, Record,
           Making, Building
    <2>2. p # l
        BY <1>b, <2>1
    <2>3. /\ answer' = answer
          /\ ran'[l] = ran[l] /\ pc'[l] = pc[l] /\ identity'[l] = identity[l]
        BY <1>0, <1>3, <2>2 DEF Core, Identify, FindSdk, PublishObjects, PublishPch, Compile,
           Publish, Record
    <2> QED  BY <1>d, <2>3
<1>4. ASSUME NEW p \in Processes, ReadBatch(p) PROVE WarmCall(l)'
    <2>1. UNCHANGED <<identity, ran>> /\ pc[p] = "read"
        BY <1>0, <1>4, ReadBatchLeads
    <2>2. CASE p # l
        BY <1>0, <1>4, <1>d, <2>1, <2>2, ReadBatchLeads, ZenonT(60) DEF Core
    <2>3. CASE p = l /\ BatchCurrent(identity[l])
        <3>1. pc'[l] = "run" /\ answer'[l] = batch[identity[l]]
            BY <1>0, <1>4, <2>3, ReadBatchLeads DEF Core
        <3>2. batch[identity[l]] \in [Invocations -> Answers]
            BY <1>0, <2>3 DEF Core, MaybeIn, BatchCurrent
        <3>3. \A i \in Invocations : answer'[l][i] # None
            BY <3>1, <3>2, NoneAssumption
        <3> QED  BY <1>b, <1>k, <2>1, <3>1, <3>3 DEF Making, Building
    <2>4. CASE p = l /\ ~BatchCurrent(identity[l])
        <3>1. pc'[l] \in {"drop", "singles"}
            BY <1>0, <1>4, <2>4, ReadBatchLeads DEF Core
        <3>2. identity[l] = lookup[Here]
            BY <2>1, <2>4 DEF SameWorker, Using
        <3>3. \A i \in Invocations : Cacheable(identity[l], i) => Stored(identity[l], i)
            BY <1>b, <2>4, <3>2 DEF Prepared, Safe
        <3> QED  BY <1>b, <1>k, <2>1, <3>1, <3>3 DEF Making, Building, Answering
    <2> QED  BY <2>2, <2>3, <2>4
<1>5. ASSUME NEW p \in Processes, DropBatch(p) \/ StoreSingle(p) \/ StoreBatch(p)
      PROVE  WarmCall(l)'
    <2>1. UNCHANGED <<identity, ran, answer>>
        BY <1>5 DEF DropBatch, StoreSingle, StoreBatch
    <2>2. CASE p # l
        BY <1>0, <1>5, <1>d, <2>1, <2>2 DEF Core, DropBatch, StoreSingle, StoreBatch
    <2>3. CASE p = l
        <3>1. \/ pc[l] = "drop" /\ pc'[l] = "singles"
              \/ pc[l] \in Answering /\ pc'[l] \in {"run", "done"}
            BY <1>0, <1>5, <2>3 DEF DropBatch, StoreSingle, StoreBatch, Core, Answering
        <3> QED  BY <1>b, <1>k, <2>1, <3>1 DEF Making, Building, Answering
    <2> QED  BY <2>2, <2>3
<1>6. ASSUME NEW p \in Processes, ReadSingles(p) PROVE WarmCall(l)'
    <2>1. /\ UNCHANGED <<identity, ran>> /\ pc[p] = "singles" /\ pc' = [pc EXCEPT ![p] = "run"]
          /\ answer' = [answer EXCEPT ![p] = [i \in Invocations |->
                LET found == single[identity[p]][i]
                IN  IF found # None /\ Current(i, found) THEN found ELSE None]]
        BY <1>6 DEF ReadSingles
    <2>2. CASE p # l
        BY <1>0, <1>d, <2>1, <2>2 DEF Core
    <2>3. CASE p = l
        <3>1. \A i \in Invocations : Cacheable(identity[l], i) => answer'[l][i] # None
            BY <1>0, <1>b, <2>1, <2>3 DEF Core, Stored
        <3>2. pc'[l] = "run"
            BY <1>0, <2>1, <2>3 DEF Core
        <3> QED  BY <1>b, <1>k, <2>1, <3>1, <3>2 DEF Making, Building
    <2> QED  BY <2>2, <2>3
<1>7. ASSUME NEW p \in Processes, NEW i \in Invocations, Expand(p, i) PROVE WarmCall(l)'
    <2>1. /\ pc[p] = "run" /\ answer[p][i] = None /\ identity' = identity
          /\ ran' = [ran EXCEPT ![p] = @ \/ Cacheable(identity[p], i)]
        BY <1>7 DEF Expand
    <2>2. PICK a \in Answers : answer' = [answer EXCEPT ![p][i] = a]
        BY <1>0, <1>7, ExpandDoes DEF HaveInv
    <2>3. pc' = pc \/ pc' = [pc EXCEPT ![p] = "store"]
        BY <1>7, Zenon DEF Expand, StoreIfCacheable
    <2>4. CASE p # l
        BY <1>0, <1>d, <2>1, <2>2, <2>3, <2>4 DEF Core
    <2>5. CASE p = l
        <3>1. ~Cacheable(identity[l], i)
            BY <1>b, <2>1, <2>5 DEF Answering
        <3>2. ~ran'[l]
            BY <1>0, <1>b, <2>1, <2>5, <3>1
        <3>3. pc'[l] \in {"run", "store"}
            BY <1>0, <2>1, <2>3, <2>5 DEF Core
        <3>4. \A j \in Invocations : j # i => answer'[l][j] = answer[l][j]
            BY <1>0, <2>2 DEF Core
        <3>5. \A j \in Invocations : Cacheable(identity[l], j) => answer'[l][j] # None
            BY <1>b, <2>1, <2>5, <3>1, <3>4 DEF Answering
        <3> QED  BY <1>k, <2>1, <3>2, <3>3, <3>5 DEF Making, Building
    <2> QED  BY <2>4, <2>5
<1>8. ASSUME NEW p \in Processes,
             Refuse(p) \/ CompileFails(p) \/ ExpandFails(p) \/ Return(p) \/ Kill(p)
      PROVE  WarmCall(l)'
    <2>1. Leave(p)
        BY <1>8 DEF Refuse, CompileFails, ExpandFails, Return, Kill, Fail, Break
    <2>2. p # l
        BY <2>1 DEF Leave, Counters
    <2>3. ran'[l] = ran[l] /\ pc'[l] = pc[l] /\ identity'[l] = identity[l] /\ answer'[l] = answer[l]
        BY <1>0, <2>1, <2>2 DEF Leave, Core
    <2> QED  BY <1>d, <2>3
<1>9. ASSUME NEW f \in Files, NEW c \in Contents, Edit(f, c) PROVE WarmCall(l)'
    BY <1>9, <1>c DEF Edit
<1>10. ASSUME UNCHANGED vars PROVE WarmCall(l)'
    BY <1>10, <1>c DEF vars
<1> QED  BY <1>1, <1>2, <1>3, <1>4, <1>5, <1>6, <1>7, <1>8, <1>9, <1>10, <1>11, StepCases

\* A call that returns alone, and was alone when it began, leaves what the next
\* one needs.
LEMMA ReturnPrepares ==
    ASSUME Inv, QuietInv, NEW p \in Processes, pc[p] = "done", begun[p] # "busy", Unchanged(p)
    PROVE  Prepared
<1>1. SameWorker /\ AnswersAreKept
    BY DEF QuietInv, Quiet
<1>2. identity[p] = lookup[Here] /\ identity[p] \in Identities /\ identity[p] # None
    BY <1>1, NoneAssumption DEF Inv, Core, SameWorker, Using, Answering
<1>3. \A i \in Invocations : answer[p][i] # None
    BY DEF Inv, HaveInv
<1>4. \A i \in Invocations :
         Cacheable(identity[p], i) => Safe(identity[p]) \/ Stored(identity[p], i)
    BY <1>1, <1>3 DEF AnswersAreKept, Answering, Kept
<1>5. Safe(identity[p])
    BY <1>4 DEF Safe
<1> QED  BY <1>2, <1>5 DEF Prepared

\* Calls become warm and stay so.
LEMMA WarmStep ==
    ASSUME Inv, Booleans, Counters, LookupInv, QuietInv, WarmInv, [Next]_vars
    PROVE  WarmInv'
<1>0. /\ Core /\ begun \in [Processes -> {"busy", "alone", "warm"}]
      /\ ran \in [Processes -> BOOLEAN]
    BY DEF Inv, Counters, Booleans
<1>1. ASSUME \A p \in Processes : Idle(p) PROVE SameWorker
    BY <1>1 DEF SameWorker, Idle, Making, Building, Using, Answering
<1>2. ASSUME warm' PROVE Prepared' /\ \A p \in Processes : Idle(p)'
    <2> DEFINE Claim == Prepared' /\ \A p \in Processes : Idle(p)'
    <2>1. ASSUME NEW p \in Processes, Return(p) PROVE Claim
        <3>1. pc[p] = "done" /\ begun[p] # "busy" /\ Alone(p) /\ Unchanged(p) /\ disk' = disk
              /\ pc' = [pc EXCEPT ![p] = "idle"]
            BY <1>2, <2>1 DEF Return, Leave, Goto
        <3>2. Prepared /\ SameWorker
            BY <3>1, ReturnPrepares DEF QuietInv, Quiet
        <3>3. Prepared'
            BY <3>1, <3>2, PreparedStays
        <3> QED  BY <1>0, <3>1, <3>3 DEF Alone, Idle, Core
    <2>2. ASSUME warm, \A p \in Processes : Idle(p) => pc'[p] = pc[p], disk' = disk PROVE Claim
        <3>1. Prepared /\ \A p \in Processes : Idle(p)
            BY <2>2 DEF WarmInv
        <3> QED  BY <1>1, <2>2, <3>1, PreparedStays DEF Idle
    <2>3. ASSUME warm, NEW p \in Processes, ~Idle(p) PROVE Claim
        BY <2>3 DEF WarmInv
    <2> HIDE DEF Claim
    <2> USE DEF Idle, Leave, Fail, Break, history, saves
    <2>4. ASSUME NEW p \in Processes, Begin(p) PROVE Claim
        BY <1>2, <2>4, Zenon DEF Begin
    <2>5. ASSUME NEW p \in Processes,
                 \/ ScanHeaders(p) \/ Lookup(p) \/ Refuse(p) \/ Identify(p) \/ FindSdk(p)
                 \/ PublishObjects(p) \/ PublishPch(p) \/ Compile(p) \/ CompileFails(p)
                 \/ Publish(p) \/ Record(p) \/ DropBatch(p) \/ ReadSingles(p) \/ StoreSingle(p)
                 \/ StoreBatch(p) \/ ExpandFails(p) \/ Kill(p)
          PROVE  Claim
        <3>1. warm
            BY <1>2, <2>5 DEF ScanHeaders, Lookup, Refuse, Identify, FindSdk, PublishObjects,
               PublishPch, Compile, CompileFails, Publish, Record, DropBatch, ReadSingles, StoreSingle,
               StoreBatch, ExpandFails, Kill
        <3>2. ~Idle(p)
            BY <2>5 DEF ScanHeaders, Lookup, Refuse, Identify, FindSdk, PublishObjects, PublishPch,
               Compile, CompileFails, Publish, Record, DropBatch, ReadSingles, StoreSingle,
               StoreBatch, ExpandFails, Kill
        <3> QED  BY <2>3, <3>1, <3>2
    <2>6. ASSUME NEW p \in Processes, ReadBatch(p) PROVE Claim
        BY <1>2, <2>3, <2>6 DEF ReadBatch
    <2>7. ASSUME NEW p \in Processes, NEW i \in Invocations, Expand(p, i) PROVE Claim
        BY <1>2, <2>3, <2>7 DEF Expand
    <2>8. ASSUME NEW f \in Files, NEW c \in Contents, Edit(f, c) PROVE Claim
        BY <1>2, <2>8, Zenon DEF Edit
    <2>9. ASSUME UNCHANGED vars PROVE Claim
        BY <1>2, <2>2, <2>9 DEF vars
    <2> QED
        <3>1. Claim
            BY <2>1, <2>4, <2>5, <2>6, <2>7, <2>8, <2>9, StepCases
        <3> QED  BY <3>1 DEF Claim
<1>3. ASSUME NEW l \in Processes, begun'[l] = "warm", Unchanged(l)' PROVE WarmCall(l)'
    <2>1. disk' = disk /\ (Quiet \/ \E p \in Processes : Begin(p) /\ Alone(p))
        <3>1. Quiet'
            BY <1>3 DEF Quiet
        <3> QED  BY <3>1, QuietBefore
    <2>2. CASE Begin(l)
        <3>1. Idle(l) /\ ran' = ran /\ pc'[l] = "headers"
            BY <1>0, <2>2 DEF Begin, Goto, Core
        <3>2. begun'[l] = IF ~Alone(l) THEN "busy" ELSE IF warm THEN "warm" ELSE "alone"
            BY <1>0, <2>2 DEF Begin
        <3>3. warm
            BY <1>3, <3>2
        <3>4. Prepared /\ SameWorker /\ ~ran[l]
            BY <1>1, <3>1, <3>3 DEF WarmInv, LookupInv
        <3>5. Prepared'
            BY <2>1, <3>4, PreparedStays
        <3> QED  BY <3>1, <3>4, <3>5 DEF WarmCall, Making, Building, Answering
    <2>3. CASE ~Begin(l)
        <3>1. begun[l] = "warm" /\ Unchanged(l)
            <4> DEFINE Claim == begun[l] = "warm" /\ Unchanged(l)
            <4>a. ASSUME begun'[l] = begun[l], window'[l] = window[l] PROVE Claim
                BY <1>3, <2>1, <4>a DEF Unchanged
            <4> HIDE DEF Claim
            <4> USE <1>0 DEF history, saves, Core
            <4>1. ASSUME NEW p \in Processes, Begin(p) PROVE Claim
                <5>1. p # l
                    BY <2>3, <4>1
                <5> QED  BY <4>1, <4>a, <5>1 DEF Begin
            <4>2. ASSUME NEW p \in Processes,
                         \/ ScanHeaders(p) \/ Lookup(p) \/ Identify(p) \/ FindSdk(p)
                         \/ PublishObjects(p) \/ PublishPch(p) \/ Compile(p)
                         \/ Publish(p) \/ Record(p) \/ DropBatch(p) \/ ReadSingles(p)
                         \/ StoreSingle(p) \/ StoreBatch(p)
                  PROVE  Claim
                BY <4>2, <4>a DEF ScanHeaders, Lookup, Identify, FindSdk, PublishObjects, PublishPch,
                   Compile, Publish, Record, DropBatch, ReadSingles, StoreSingle, StoreBatch
            <4>3. ASSUME NEW p \in Processes,
                         Refuse(p) \/ CompileFails(p) \/ ExpandFails(p) \/ Return(p) \/ Kill(p)
                  PROVE  Claim
                <5>1. Leave(p)
                    BY <4>3 DEF Refuse, CompileFails, ExpandFails, Return, Kill, Fail, Break
                <5>2. p # l
                    BY <1>3, <5>1 DEF Leave
                <5> QED  BY <4>a, <5>1, <5>2 DEF Leave
            <4>4. ASSUME NEW p \in Processes, ReadBatch(p) PROVE Claim
                BY <4>4, <4>a DEF ReadBatch
            <4>5. ASSUME NEW p \in Processes, NEW i \in Invocations, Expand(p, i) PROVE Claim
                BY <4>5, <4>a DEF Expand
            <4>6. ASSUME NEW f \in Files, NEW c \in Contents, Edit(f, c) PROVE Claim
                <5>1. disk' = [disk EXCEPT ![f] = c] /\ disk[f] # c
                    BY <4>6 DEF Edit
                <5> QED  BY <2>1, <5>1
            <4>7. ASSUME UNCHANGED vars PROVE Claim
                BY <4>7, <4>a DEF vars
            <4> QED
                <5>1. Claim
                    BY <4>1, <4>2, <4>3, <4>4, <4>5, <4>6, <4>7, StepCases
                <5> QED  BY <5>1 DEF Claim
        <3>2. WarmCall(l) /\ SameWorker /\ ~Idle(l)
            BY <3>1 DEF WarmInv, QuietInv, Quiet, LookupInv
        <3> QED  BY <1>3, <2>1, <3>2, WarmCallStep
    <2> QED  BY <2>2, <2>3
<1> QED  BY <1>2, <1>3 DEF WarmInv

\* A call that follows a complete one, with no change of the inputs since that
\* began, compiles nothing and runs no macro that can be cached.
THEOREM WarmCallsRunNothingHolds == Spec => []WarmCallsRunNothing
<1>1. Init => Booleans /\ Counters
    BY InitCounts
<1>2. Init => LookupInv /\ QuietInv /\ WarmInv
    <2> SUFFICES ASSUME Init PROVE LookupInv /\ QuietInv /\ WarmInv
        OBVIOUS
    <2>1. /\ \A p \in Processes : begun[p] = "busy" /\ ~ran[p]
          /\ \A k \in SourceKeys : lookup[k] = None
        BY DEF Init
    <2>2. ~warm
        BY Zenon DEF Init
    <2> QED  BY <2>1, <2>2 DEF LookupInv, QuietInv, WarmInv, Quiet
<1>3. Inv /\ Booleans /\ Counters /\ LookupInv /\ QuietInv /\ WarmInv /\ [Next]_vars
         => Booleans' /\ Counters' /\ LookupInv' /\ QuietInv' /\ WarmInv'
    BY BooleansStep, CountersStep, LookupStep, QuietStep, WarmStep
<1>4. WarmInv => WarmCallsRunNothing
    BY DEF WarmInv, WarmCall, WarmCallsRunNothing
<1> QED  BY <1>1, <1>2, <1>3, <1>4, Invariance, PTL DEF Spec
===============================================================================
