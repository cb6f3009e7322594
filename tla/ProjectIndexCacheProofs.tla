----------------------- MODULE ProjectIndexCacheProofs -----------------------
(***************************************************************************)
(* The cache answers as IndexService says, for any threads, keys, files    *)
(* and bounds.  The invariant behind it: what is cached, or being loaded   *)
(* for the current generation, was read after the last clear().            *)
(***************************************************************************)
EXTENDS ProjectIndexCache, TLAPS

\* What a load has read of f is no older than the last clear() before its
\* call, nor, if it is for the current generation, than the last clear().
ReadSince(t, f) ==
    /\ floor[t][f] <= index[t].text[f]
    /\ index[t].text[f] <= disk[f]
    /\ loadGeneration[t] = generation => cleared[f] <= index[t].text[f]

LoadsAreRecent ==
    \A t \in Threads : IsLoading(t) =>
        /\ asked[t] \in Keys
        /\ \A f \in ReadBy[asked[t]] :
              /\ index[t].text[f] # -1 => ReadSince(t, f)
              /\ pc[t] \in {"stamping", "storing"} => index[t].text[f] # -1

EntriesAreRecent ==
    \A k \in Keys : entries[k] # None =>
        \A f \in ReadBy[k] :
            cleared[f] <= entries[k].text[f] /\ entries[k].text[f] <= disk[f]

DiskMovesOn ==
    \A f \in Files : /\ cleared[f] <= disk[f]
                     /\ \A t \in Threads : floor[t][f] <= cleared[f]

GenerationMovesOn == \A t \in Threads : loadGeneration[t] <= generation

IInv == /\ TypeOK
        /\ SingleFlight
        /\ NobodyForgotten
        /\ LoadsAreRecent
        /\ EntriesAreRecent
        /\ DiskMovesOn
        /\ GenerationMovesOn

-----------------------------------------------------------------------------
\* The steps of one thread, one by one, and the rest of Next.
LEMMA StepCases ==
    ASSUME NEW P, [Next]_vars,
           \A t \in Threads, k \in Keys : Get(t, k) => P,
           \A t \in Threads : pc[t] \in {"lookup", "woken"} /\ Hit(t) => P,
           \A t \in Threads : pc[t] \in {"lookup", "woken"} /\ BeginLoad(t) => P,
           \A t \in Threads : pc[t] = "lookup" /\ Wait(t) => P,
           \A t \in Threads : WakeAndSleep(t) => P,
           \A t \in Threads, f \in Files : ReadSource(t, f) => P,
           \A t \in Threads, f \in Files : StampSource(t, f) => P,
           \A t \in Threads : Analyze(t) \/ Loaded(t) \/ LoadThrows(t) => P,
           \A t \in Threads : Store(t) => P,
           \A t \in Threads : Rethrow(t) => P,
           \A t \in Threads : ClearCache(t) => P,
           \A f \in Files : WriteFile(f) => P,
           UNCHANGED vars => P
    PROVE  P
BY DEF Next, Step, Lookup, WakeAndLookup, Load, Finished

LEMMA Counting ==
    ASSUME NEW s \in [Counters -> Nat], NEW n \in Nat
    PROVE  /\ [s EXCEPT !["misses"] = @ + 1, !["staleEvictions"] = @ + n]
                 \in [Counters -> Nat]
           /\ [s EXCEPT !["loads"] = @ + 1] \in [Counters -> Nat]
BY DEF Counters

LEMMA TypeStep == TypeOK /\ [Next]_vars => TypeOK'
<1> SUFFICES ASSUME TypeOK, [Next]_vars PROVE TypeOK'
    OBVIOUS
<1> USE ServiceAssumption, NoneAssumption, CacheAssumption
        DEF TypeOK, Index, Versions, LoadStates
<1>1. ASSUME NEW t \in Threads, NEW k \in Keys, Get(t, k) PROVE TypeOK'
    BY <1>1 DEF Get, Ask, Goto, cacheVars
<1>2. ASSUME NEW t \in Threads, pc[t] \in {"lookup", "woken"}, Hit(t) PROVE TypeOK'
    <2>1. asked[t] \in Keys
        BY <1>2
    <2>2. entries[asked[t]] \in Index
        BY <1>2, <2>1 DEF Hit, HasCurrent
    <2>3. stats' \in [Counters -> Nat]
        BY <1>2 DEF Hit, Counters
    <2>4. entries[asked[t]].text \in Versions
        BY <2>2
    <2>5. /\ answer' \in [Threads -> Versions \cup {None}]
          /\ asked' \in [Threads -> Keys \cup {None}]
        BY <1>2, <2>4 DEF Hit, Return
    <2>6. /\ pc' \in [Threads -> LoadStates \cup {"idle", "lookup", "waiting", "woken"}]
          /\ \A u \in Threads : pc'[u] = "idle" <=> asked'[u] = None
        BY <1>2 DEF Hit, Goto, Return
    <2> QED  BY <1>2, <2>3, <2>5, <2>6 DEF Hit
<1>3. ASSUME NEW t \in Threads, pc[t] \in {"lookup", "woken"}, BeginLoad(t) PROVE TypeOK'
    <2>1. asked[t] \in Keys
        BY <1>3
    <2>2. Evictions(asked[t]) \in Nat
        BY DEF Evictions
    <2>3. Empty \in Index
        BY DEF Empty, Unread
    <2>4. stats' \in [Counters -> Nat]
        <3>1. stats \in [Counters -> Nat]
            OBVIOUS
        <3> QED  BY ONLY <1>3, <2>2, <3>1, Counting DEF BeginLoad
    <2>5. entries' \in [Keys -> Index \cup {None}]
        BY <1>3, <2>1 DEF BeginLoad, Evict
    <2>6. /\ pc' \in [Threads -> LoadStates \cup {"idle", "lookup", "waiting", "woken"}]
          /\ \A u \in Threads : pc'[u] = "idle" <=> asked'[u] = None
        BY <1>3 DEF BeginLoad, Goto, serviceVars
    <2>7. /\ index' \in [Threads -> Index]
          /\ loadGeneration' \in [Threads -> 0 .. MaxClears]
        BY <1>3, <2>3 DEF BeginLoad
    <2> QED  BY <1>3, <2>1, <2>4, <2>5, <2>6, <2>7 DEF BeginLoad, serviceVars
<1>4. ASSUME NEW t \in Threads, pc[t] = "lookup", Wait(t) PROVE TypeOK'
    <2>1. asked[t] \in Keys
        BY <1>4
    <2>2. Evictions(asked[t]) \in Nat
        BY DEF Evictions
    <2>3. stats' \in [Counters -> Nat]
        BY <1>4, <2>2 DEF Wait, Counters
    <2>4. entries' \in [Keys -> Index \cup {None}]
        BY <1>4, <2>1 DEF Wait, Evict
    <2>5. /\ pc' \in [Threads -> LoadStates \cup {"idle", "lookup", "waiting", "woken"}]
          /\ \A u \in Threads : pc'[u] = "idle" <=> asked'[u] = None
        BY <1>4 DEF Wait, Goto, serviceVars
    <2> QED  BY <1>4, <2>3, <2>4, <2>5 DEF Wait, serviceVars
<1>5. ASSUME NEW t \in Threads, WakeAndSleep(t) PROVE TypeOK'
    BY <1>5 DEF WakeAndSleep, Goto, serviceVars, cacheVars
<1>6. ASSUME NEW t \in Threads, NEW f \in Files, ReadSource(t, f) PROVE TypeOK'
    <2>1. disk[f] \in -1 .. MaxWrites
        OBVIOUS
    <2> QED  BY <1>6, <2>1, ZenonT(60) DEF ReadSource, serviceVars, cacheVars
<1>7. ASSUME NEW t \in Threads, NEW f \in Files, StampSource(t, f) PROVE TypeOK'
    <2>1. disk[f] \in -1 .. MaxWrites
        OBVIOUS
    <2> QED  BY <1>7, <2>1, ZenonT(60) DEF StampSource, serviceVars, cacheVars
<1>8. ASSUME NEW t \in Threads, Analyze(t) \/ Loaded(t) \/ LoadThrows(t) PROVE TypeOK'
    BY <1>8 DEF Analyze, Loaded, LoadThrows, Goto, serviceVars, cacheVars
<1>9. ASSUME NEW t \in Threads, Store(t) PROVE TypeOK'
    <2>1. asked[t] \in Keys
        BY <1>9 DEF Store
    <2>2. stats' \in [Counters -> Nat]
        <3>1. CASE loadGeneration[t] = generation
            BY ONLY <1>9, <3>1, stats \in [Counters -> Nat], Counting DEF Store
        <3>2. CASE loadGeneration[t] # generation
            BY <1>9, <3>2 DEF Store
        <3> QED  BY <3>1, <3>2
    <2>3. entries' \in [Keys -> Index \cup {None}]
        BY <1>9, <2>1 DEF Store
    <2>4. pc' \in [Threads -> LoadStates \cup {"idle", "lookup", "waiting", "woken"}]
        BY <1>9 DEF Store, WakeAll
    <2>5. \A u \in Threads : pc'[u] = "idle" <=> asked'[u] = None
        BY <1>9 DEF Store, WakeAll, Return
    <2> QED  BY <1>9, <2>1, <2>2, <2>3, <2>4, <2>5 DEF Store, Return
<1>10. ASSUME NEW t \in Threads, Rethrow(t) PROVE TypeOK'
    <2>1. pc' \in [Threads -> LoadStates \cup {"idle", "lookup", "waiting", "woken"}]
        BY <1>10 DEF Rethrow, WakeAll
    <2>2. \A u \in Threads : pc'[u] = "idle" <=> asked'[u] = None
        BY <1>10 DEF Rethrow, WakeAll, Return
    <2> QED  BY <1>10, <2>1, <2>2 DEF Rethrow, Return
<1>11. ASSUME NEW t \in Threads, ClearCache(t) PROVE TypeOK'
    BY <1>11 DEF ClearCache, Clear, NoStats, threadVars
<1>12. ASSUME NEW f \in Files, WriteFile(f) PROVE TypeOK'
    BY <1>12 DEF WriteFile, Write, cacheVars, threadVars
<1>13. ASSUME UNCHANGED vars PROVE TypeOK'
    BY <1>13 DEF vars, serviceVars, cacheVars, threadVars
<1> QED
    BY <1>1, <1>2, <1>3, <1>4, <1>5, <1>6, <1>7, <1>8, <1>9, <1>10, <1>11,
       <1>12, <1>13, StepCases

-----------------------------------------------------------------------------
LEMMA FlightStep ==
    ASSUME TypeOK, SingleFlight, NobodyForgotten, [Next]_vars
    PROVE  SingleFlight' /\ NobodyForgotten'
<1> DEFINE P == SingleFlight' /\ NobodyForgotten'
<1> USE DEF SingleFlight, NobodyForgotten, IsLoading, LoadStates, TypeOK
<1>1. ASSUME NEW t \in Threads, NEW k \in Keys, Get(t, k) PROVE P
    BY <1>1 DEF Get, Ask, Goto, cacheVars
<1>2. ASSUME NEW t \in Threads, pc[t] \in {"lookup", "woken"}, Hit(t) PROVE P
    BY <1>2, ZenonT(60) DEF Hit, Goto, Return
<1>3. ASSUME NEW t \in Threads, pc[t] \in {"lookup", "woken"}, BeginLoad(t) PROVE P
    BY <1>3 DEF BeginLoad, Goto, serviceVars
<1>4. ASSUME NEW t \in Threads, pc[t] = "lookup", Wait(t) PROVE P
    BY <1>4, ZenonT(60) DEF Wait, Goto, serviceVars
<1>5. ASSUME NEW t \in Threads, WakeAndSleep(t) PROVE P
    BY <1>5 DEF WakeAndSleep, Goto, serviceVars, cacheVars
<1>6. ASSUME NEW t \in Threads, NEW f \in Files, ReadSource(t, f) PROVE P
    BY <1>6 DEF ReadSource, serviceVars, cacheVars
<1>7. ASSUME NEW t \in Threads, NEW f \in Files, StampSource(t, f) PROVE P
    BY <1>7 DEF StampSource, serviceVars, cacheVars
<1>8. ASSUME NEW t \in Threads, Analyze(t) \/ Loaded(t) \/ LoadThrows(t) PROVE P
    <2>1. \A u \in Threads : /\ (pc'[u] \in LoadStates <=> pc[u] \in LoadStates)
                              /\ (pc'[u] = "waiting" => pc[u] = "waiting")
        <3>1. CASE Analyze(t)
            BY <3>1 DEF Analyze, Goto
        <3>2. CASE Loaded(t)
            BY <3>2 DEF Loaded, Goto
        <3>3. CASE LoadThrows(t)
            BY <3>3 DEF LoadThrows, Goto
        <3> QED  BY <1>8, <3>1, <3>2, <3>3
    <2>2. asked' = asked /\ loading' = loading
        BY <1>8 DEF Analyze, Loaded, LoadThrows, serviceVars, cacheVars
    <2> QED  BY <2>1, <2>2
<1>9. ASSUME NEW t \in Threads, Store(t) PROVE P
    <2>1. IsLoading(t) /\ asked[t] \in Keys
        BY <1>9 DEF Store
    <2>2. \A u \in Threads :
            /\ u # t => /\ (pc'[u] \in LoadStates <=> pc[u] \in LoadStates)
                        /\ asked'[u] = asked[u]
            /\ pc'[u] # "waiting"
        BY <1>9 DEF Store, WakeAll, Return
    <2>3. pc'[t] \notin LoadStates
        BY <1>9 DEF Store, WakeAll
    <2>4. loading' = loading \ {asked[t]}
        BY <1>9 DEF Store
    <2>5. ASSUME NEW u \in Threads, NEW v \in Threads,
                 pc'[u] \in LoadStates, pc'[v] \in LoadStates, asked'[u] = asked'[v]
          PROVE  u = v
        BY <2>2, <2>3, <2>5
    <2>6. ASSUME NEW k \in Keys
          PROVE  k \in loading' <=> \E u \in Threads : pc'[u] \in LoadStates /\ asked'[u] = k
        <3>1. CASE k = asked[t]
            <4>1. k \notin loading'
                BY <2>4, <3>1
            <4>2. ASSUME NEW u \in Threads, pc'[u] \in LoadStates, asked'[u] = k
                  PROVE  FALSE
                BY <2>1, <2>2, <2>3, <3>1, <4>2
            <4> QED  BY <4>1, <4>2
        <3>2. CASE k # asked[t]
            <4>1. k \in loading' <=> k \in loading
                BY <2>4, <3>2
            <4>2. \A u \in Threads : (pc'[u] \in LoadStates /\ asked'[u] = k)
                                    <=> (pc[u] \in LoadStates /\ asked[u] = k)
                BY <2>2, <2>3, <3>2
            <4> QED  BY <4>1, <4>2
        <3> QED  BY <3>1, <3>2
    <2> QED  BY <2>2, <2>5, <2>6
<1>10. ASSUME NEW t \in Threads, Rethrow(t) PROVE P
    <2>1. IsLoading(t) /\ asked[t] \in Keys
        BY <1>10 DEF Rethrow
    <2>2. \A u \in Threads :
            /\ u # t => /\ (pc'[u] \in LoadStates <=> pc[u] \in LoadStates)
                        /\ asked'[u] = asked[u]
            /\ pc'[u] # "waiting"
        BY <1>10 DEF Rethrow, WakeAll, Return
    <2>3. pc'[t] \notin LoadStates
        BY <1>10 DEF Rethrow, WakeAll
    <2>4. loading' = loading \ {asked[t]}
        BY <1>10 DEF Rethrow
    <2>5. ASSUME NEW u \in Threads, NEW v \in Threads,
                 pc'[u] \in LoadStates, pc'[v] \in LoadStates, asked'[u] = asked'[v]
          PROVE  u = v
        BY <2>2, <2>3, <2>5
    <2>6. ASSUME NEW k \in Keys
          PROVE  k \in loading' <=> \E u \in Threads : pc'[u] \in LoadStates /\ asked'[u] = k
        <3>1. CASE k = asked[t]
            <4>1. k \notin loading'
                BY <2>4, <3>1
            <4>2. ASSUME NEW u \in Threads, pc'[u] \in LoadStates, asked'[u] = k
                  PROVE  FALSE
                BY <2>1, <2>2, <2>3, <3>1, <4>2
            <4> QED  BY <4>1, <4>2
        <3>2. CASE k # asked[t]
            <4>1. k \in loading' <=> k \in loading
                BY <2>4, <3>2
            <4>2. \A u \in Threads : (pc'[u] \in LoadStates /\ asked'[u] = k)
                                    <=> (pc[u] \in LoadStates /\ asked[u] = k)
                BY <2>2, <2>3, <3>2
            <4> QED  BY <4>1, <4>2
        <3> QED  BY <3>1, <3>2
    <2> QED  BY <2>2, <2>5, <2>6
<1>11. ASSUME NEW t \in Threads, ClearCache(t) PROVE P
    BY <1>11 DEF ClearCache, Clear, threadVars
<1>12. ASSUME NEW f \in Files, WriteFile(f) PROVE P
    BY <1>12 DEF WriteFile, Write, cacheVars, threadVars
<1>13. ASSUME UNCHANGED vars PROVE P
    BY <1>13 DEF vars, serviceVars, cacheVars, threadVars
<1> QED
    BY <1>1, <1>2, <1>3, <1>4, <1>5, <1>6, <1>7, <1>8, <1>9, <1>10, <1>11,
       <1>12, <1>13, StepCases

LEMMA RecentStep ==
    ASSUME IInv, [Next]_vars
    PROVE  /\ LoadsAreRecent'
           /\ EntriesAreRecent'
           /\ DiskMovesOn'
           /\ GenerationMovesOn'
<1> DEFINE P == LoadsAreRecent' /\ EntriesAreRecent' /\ DiskMovesOn' /\ GenerationMovesOn'
<1> USE ServiceAssumption, NoneAssumption, CacheAssumption
        DEF IInv, TypeOK, Index, Versions, IsLoading, LoadStates,
            LoadsAreRecent, EntriesAreRecent, DiskMovesOn, GenerationMovesOn,
            ReadSince
<1>1. ASSUME NEW t \in Threads, NEW k \in Keys, Get(t, k) PROVE P
    BY <1>1 DEF Get, Ask, Goto, cacheVars
<1>2. ASSUME NEW t \in Threads, pc[t] \in {"lookup", "woken"}, Hit(t) PROVE P
    BY <1>2 DEF Hit, Goto, Return
<1>3. ASSUME NEW t \in Threads, pc[t] \in {"lookup", "woken"}, BeginLoad(t) PROVE P
    <2>1. asked[t] \in Keys
        BY <1>3
    <2>2. EntriesAreRecent'
        BY <1>3, <2>1 DEF BeginLoad, Evict, serviceVars
    <2>3. LoadsAreRecent'
        BY <1>3, <2>1 DEF BeginLoad, Goto, serviceVars, Empty, Unread
    <2> QED  BY <1>3, <2>2, <2>3 DEF BeginLoad, serviceVars
<1>4. ASSUME NEW t \in Threads, pc[t] = "lookup", Wait(t) PROVE P
    BY <1>4 DEF Wait, Goto, Evict, serviceVars
<1>5. ASSUME NEW t \in Threads, WakeAndSleep(t) PROVE P
    BY <1>5 DEF WakeAndSleep, Goto, serviceVars, cacheVars
<1>6. ASSUME NEW t \in Threads, NEW f \in Files, ReadSource(t, f) PROVE P
    BY <1>6 DEF ReadSource, serviceVars, cacheVars
<1>7. ASSUME NEW t \in Threads, NEW f \in Files, StampSource(t, f) PROVE P
    BY <1>7 DEF StampSource, serviceVars, cacheVars
<1>8. ASSUME NEW t \in Threads, Analyze(t) \/ Loaded(t) \/ LoadThrows(t) PROVE P
    <2>1. LoadsAreRecent'
        <3>1. CASE Analyze(t)
            BY <3>1 DEF Analyze, Sources, Goto, serviceVars, cacheVars
        <3>2. CASE Loaded(t)
            BY <3>2 DEF Loaded, Goto, serviceVars, cacheVars
        <3>3. CASE LoadThrows(t)
            BY <3>3 DEF LoadThrows, Goto, serviceVars, cacheVars
        <3> QED  BY <1>8, <3>1, <3>2, <3>3
    <2> QED  BY <1>8, <2>1 DEF Analyze, Loaded, LoadThrows, serviceVars, cacheVars
<1>9. ASSUME NEW t \in Threads, Store(t) PROVE P
    <2>1. EntriesAreRecent'
        BY <1>9 DEF Store
    <2>2. LoadsAreRecent'
        BY <1>9 DEF Store, WakeAll, Return
    <2> QED  BY <1>9, <2>1, <2>2 DEF Store
<1>10. ASSUME NEW t \in Threads, Rethrow(t) PROVE P
    BY <1>10 DEF Rethrow, WakeAll, Return
<1>11. ASSUME NEW t \in Threads, ClearCache(t) PROVE P
    BY <1>11 DEF ClearCache, Clear, threadVars
<1>12. ASSUME NEW f \in Files, WriteFile(f) PROVE P
    BY <1>12 DEF WriteFile, Write, cacheVars, threadVars
<1>13. ASSUME UNCHANGED vars PROVE P
    BY <1>13 DEF vars, serviceVars, cacheVars, threadVars
<1> QED
    BY <1>1, <1>2, <1>3, <1>4, <1>5, <1>6, <1>7, <1>8, <1>9, <1>10, <1>11,
       <1>12, <1>13, StepCases

LEMMA InitInvariant == Init => IInv
<1> SUFFICES ASSUME Init PROVE IInv
    OBVIOUS
<1> USE ServiceAssumption, NoneAssumption, CacheAssumption
        DEF Init, ServiceInit, LoadStates, IsLoading
<1>1. TypeOK
    BY DEF TypeOK, Index, Versions, Empty, Unread, NoStats
<1>2. SingleFlight /\ NobodyForgotten
    BY DEF SingleFlight, NobodyForgotten
<1>3. LoadsAreRecent /\ EntriesAreRecent /\ DiskMovesOn /\ GenerationMovesOn
    BY DEF LoadsAreRecent, EntriesAreRecent, DiskMovesOn, GenerationMovesOn
<1> QED  BY <1>1, <1>2, <1>3 DEF IInv

\* The inductive invariant.
THEOREM Invariance == Spec => []IInv
<1>1. IInv /\ [Next]_vars => IInv'
    BY TypeStep, FlightStep, RecentStep DEF IInv
<1> QED  BY InitInvariant, <1>1, PTL DEF Spec

\* Types, and a thread has a request exactly while it is in get_shared.
THEOREM TypeCorrect == Spec => []TypeOK
<1>1. IInv => TypeOK
    BY DEF IInv
<1> QED  BY Invariance, <1>1, PTL

\* One load per key at a time, and no key is left in loading_: whatever mix of
\* hits, failed loads and clears came before.
THEOREM OneLoadPerKey == Spec => []SingleFlight
<1>1. IInv => SingleFlight
    BY DEF IInv
<1> QED  BY Invariance, <1>1, PTL

\* A sleeping caller of get_shared always has a loader that will wake it.
THEOREM SleepersHaveLoaders == Spec => []NobodyForgotten
<1>1. IInv => NobodyForgotten
    BY DEF IInv
<1> QED  BY Invariance, <1>1, PTL

-----------------------------------------------------------------------------
\* A step of the cache is a step of the service or changes nothing it sees.
LEMMA StepRefines ==
    ASSUME IInv, [Next]_vars
    PROVE  [ServiceNext]_serviceVars
<1> DEFINE P == [ServiceNext]_serviceVars
<1> USE ServiceAssumption, NoneAssumption, CacheAssumption
        DEF IInv, TypeOK, Index, Versions, IsLoading, LoadStates, serviceVars
<1>1. ASSUME NEW t \in Threads, NEW k \in Keys, Get(t, k) PROVE P
    BY <1>1 DEF Get, ServiceNext
<1>2. ASSUME NEW t \in Threads, pc[t] \in {"lookup", "woken"}, Hit(t) PROVE P
    <2>1. asked[t] \in Keys
        BY <1>2
    <2>2. entries[asked[t]] # None
        BY <1>2 DEF Hit, HasCurrent
    <2>3. entries[asked[t]].text \in Versions
        BY <2>1, <2>2
    <2>4. answer'[t] = entries[asked[t]].text
        BY <1>2 DEF Hit, Return
    <2>5. answer'[t] \in [Files -> Int]
        BY <2>3, <2>4
    <2>6. \A f \in ReadBy[asked[t]] :
            floor[t][f] <= answer'[t][f] /\ answer'[t][f] <= disk[f]
        <3> SUFFICES ASSUME NEW f \in ReadBy[asked[t]]
                     PROVE  floor[t][f] <= answer'[t][f] /\ answer'[t][f] <= disk[f]
            OBVIOUS
        <3>1. f \in Files
            BY <2>1
        <3>2. /\ cleared[f] <= entries[asked[t]].text[f]
              /\ entries[asked[t]].text[f] <= disk[f]
            BY <2>1, <2>2 DEF EntriesAreRecent
        <3>3. floor[t][f] <= cleared[f]
            BY <3>1 DEF DiskMovesOn
        <3> QED  BY <3>1, <3>2, <3>3, <2>3, <2>4
    <2>7. answer' = [answer EXCEPT ![t] = answer'[t]]
        BY <1>2, <2>4 DEF Hit, Return
    <2>8. Answer(t)
        BY <1>2, <2>1, <2>5, <2>6, <2>7 DEF Hit, Return, Answer
    <2> QED  BY <2>8 DEF ServiceNext
<1>3. ASSUME NEW t \in Threads, pc[t] \in {"lookup", "woken"}, BeginLoad(t) PROVE P
    BY <1>3 DEF BeginLoad
<1>4. ASSUME NEW t \in Threads, pc[t] = "lookup", Wait(t) PROVE P
    BY <1>4 DEF Wait
<1>5. ASSUME NEW t \in Threads, WakeAndSleep(t) PROVE P
    BY <1>5 DEF WakeAndSleep
<1>6. ASSUME NEW t \in Threads, NEW f \in Files, ReadSource(t, f) PROVE P
    BY <1>6 DEF ReadSource
<1>7. ASSUME NEW t \in Threads, NEW f \in Files, StampSource(t, f) PROVE P
    BY <1>7 DEF StampSource
<1>8. ASSUME NEW t \in Threads, Analyze(t) \/ Loaded(t) \/ LoadThrows(t) PROVE P
    BY <1>8 DEF Analyze, Loaded, LoadThrows
<1>9. ASSUME NEW t \in Threads, Store(t) PROVE P
    <2>1. asked[t] \in Keys
        BY <1>9 DEF Store
    <2>2. index[t].text \in Versions
        OBVIOUS
    <2>3. answer'[t] = index[t].text
        BY <1>9 DEF Store, Return
    <2>4. answer'[t] \in [Files -> Int]
        BY <2>2, <2>3
    <2>5. \A f \in ReadBy[asked[t]] :
            floor[t][f] <= answer'[t][f] /\ answer'[t][f] <= disk[f]
        BY <1>9, <2>3 DEF Store, LoadsAreRecent, ReadSince
    <2>6. answer' = [answer EXCEPT ![t] = answer'[t]]
        BY <1>9, <2>3 DEF Store, Return
    <2>7. Answer(t)
        BY <1>9, <2>1, <2>4, <2>5, <2>6 DEF Store, Return, Answer
    <2> QED  BY <2>7 DEF ServiceNext
<1>10. ASSUME NEW t \in Threads, Rethrow(t) PROVE P
    <2>1. asked[t] \in Keys
        BY <1>10 DEF Rethrow
    <2>2. answer'[t] = None /\ answer' = [answer EXCEPT ![t] = answer'[t]]
        BY <1>10 DEF Rethrow, Return
    <2>3. Answer(t)
        BY <1>10, <2>1, <2>2 DEF Rethrow, Return, Answer
    <2> QED  BY <2>3 DEF ServiceNext
<1>11. ASSUME NEW t \in Threads, ClearCache(t) PROVE P
    BY <1>11 DEF ClearCache, ServiceNext
<1>12. ASSUME NEW f \in Files, WriteFile(f) PROVE P
    BY <1>12 DEF WriteFile, ServiceNext
<1>13. ASSUME UNCHANGED vars PROVE P
    BY <1>13 DEF vars
<1> QED
    BY <1>1, <1>2, <1>3, <1>4, <1>5, <1>6, <1>7, <1>8, <1>9, <1>10, <1>11,
       <1>12, <1>13, StepCases

\* get_shared answers with sources no older than the last clear() before the
\* call, whatever loads, failures, evictions and clears overlap it.
THEOREM Refinement == Spec => Implements
<1>1. Init => ServiceInit
    BY DEF Init
<1>2. IInv /\ [Next]_vars => [ServiceNext]_serviceVars
    BY StepRefines
<1> QED  BY Invariance, <1>1, <1>2, PTL DEF Spec, Implements, ServiceSpec

=============================================================================
