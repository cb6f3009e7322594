-------------------------- MODULE ProjectIndexCache --------------------------
(***************************************************************************)
(* ProjectIndexCache (src/dudu/project/project_index_cache.cpp), the cache *)
(* of parsed projects that the threads of dudu-lsp share, with the file    *)
(* stamps by which it decides that an entry is current.                    *)
(*                                                                         *)
(* A stretch of get_shared that holds mutex_ is one action.  The load runs *)
(* without the mutex; it reads every source, and only when everything is   *)
(* analyzed does it ask for the files' modification times                  *)
(* (ProjectIndex::load).  source_stamps_current stats the files one by     *)
(* one; since a file's mtime never returns to an earlier value, that gives *)
(* the answer of a single look at the disk at some moment of the loop.     *)
(***************************************************************************)
EXTENDS IndexService, FiniteSets

CONSTANTS
    MaxGets,    \* calls of get_shared
    MaxClears   \* calls of clear

ASSUME CacheAssumption ==
    /\ IsFiniteSet(Threads)
    /\ MaxGets \in Nat /\ MaxClears \in Nat

VARIABLES
    entries,         \* entries_: an Index for a key, or None
    loading,         \* loading_
    generation,      \* generation_
    stats,           \* stats_ (the size of entries_ left out)
    pc,              \* where each thread is in get_shared
    index,           \* index[t]: the index t is loading
    loadGeneration,  \* load_generation, a local of get_shared
    gets             \* calls of get_shared so far

cacheVars == <<entries, loading, generation, stats>>
threadVars == <<pc, index, loadGeneration, gets>>
vars == <<serviceVars, cacheVars, threadVars>>

-----------------------------------------------------------------------------
(* Values *)

\* A version of every file, -1 where it has not been read.
Versions == [Files -> -1 .. MaxWrites]
Unread == [f \in Files |-> -1]

\* A ProjectIndex: the text of each source, and its source_mtime.
Index == [text : Versions, stamp : Versions]
Empty == [text |-> Unread, stamp |-> Unread]

Counters == {"hits", "misses", "staleEvictions", "loads"}
NoStats == [c \in Counters |-> 0]

\* The threads that are between their miss and the end of their load.
LoadStates == {"reading", "stamping", "storing", "failing"}
IsLoading(t) == pc[t] \in LoadStates

\* An entry whose ProjectIndex::source_stamps_current.
HasCurrent(k) ==
    /\ entries[k] # None
    /\ \A f \in ReadBy[k] : entries[k].stamp[f] = disk[f]

Init ==
    /\ ServiceInit
    /\ entries = [k \in Keys |-> None]
    /\ loading = {}
    /\ generation = 0
    /\ stats = NoStats
    /\ pc = [t \in Threads |-> "idle"]
    /\ index = [t \in Threads |-> Empty]
    /\ loadGeneration = [t \in Threads |-> 0]
    /\ gets = 0

Goto(t, label) == pc' = [pc EXCEPT ![t] = label]

\* get_shared returns i, or throws if i is None.
Return(t, i) ==
    /\ asked' = [asked EXCEPT ![t] = None]
    /\ answer' = [answer EXCEPT ![t] = i]

-----------------------------------------------------------------------------
(* get_shared *)

Get(t, k) ==
    /\ gets < MaxGets
    /\ pc[t] = "idle"
    /\ Ask(t, k)
    /\ Goto(t, "lookup")
    /\ gets' = gets + 1
    /\ UNCHANGED <<cacheVars, index, loadGeneration>>

\* The loop's first critical section: the entry is there and current.
Hit(t) ==
    LET k == asked[t]
    IN  /\ HasCurrent(k)
        /\ stats' = [stats EXCEPT !["hits"] = @ + 1]
        /\ Return(t, entries[k].text)
        /\ Goto(t, "idle")
        /\ UNCHANGED <<disk, cleared, floor, entries, loading, generation,
                       index, loadGeneration, gets>>

\* An entry that is not current is evicted, counted if it was there.
Evict(k) ==
    /\ ~HasCurrent(k)
    /\ entries' = [entries EXCEPT ![k] = None]

Evictions(k) == IF entries[k] = None THEN 0 ELSE 1

\* Nobody loads the key: this thread does.
BeginLoad(t) ==
    LET k == asked[t]
    IN  /\ Evict(k)
        /\ k \notin loading
        /\ loading' = loading \cup {k}
        /\ stats' = [stats EXCEPT !["misses"] = @ + 1,
                                  !["staleEvictions"] = @ + Evictions(k)]
        /\ loadGeneration' = [loadGeneration EXCEPT ![t] = generation]
        /\ index' = [index EXCEPT ![t] = Empty]
        /\ Goto(t, "reading")
        /\ UNCHANGED <<serviceVars, generation, gets>>

\* Somebody does: ready_.wait releases the mutex and sleeps.
Wait(t) ==
    LET k == asked[t]
    IN  /\ Evict(k)
        /\ k \in loading
        /\ stats' = [stats EXCEPT !["staleEvictions"] = @ + Evictions(k)]
        /\ Goto(t, "waiting")
        /\ UNCHANGED <<serviceVars, loading, generation, index,
                       loadGeneration, gets>>

Lookup(t) == pc[t] = "lookup" /\ (Hit(t) \/ BeginLoad(t) \/ Wait(t))

\* A woken thread tests the wait's predicate, sleeps again or goes on with
\* the loop, all in one critical section.
WakeAndLookup(t) ==
    /\ pc[t] = "woken"
    /\ asked[t] \notin loading
    /\ Hit(t) \/ BeginLoad(t)

WakeAndSleep(t) ==
    /\ pc[t] = "woken"
    /\ asked[t] \in loading
    /\ Goto(t, "waiting")
    /\ UNCHANGED <<serviceVars, cacheVars, index, loadGeneration, gets>>

-----------------------------------------------------------------------------
(* ProjectIndex::load, without the mutex *)

Sources(t) == ReadBy[asked[t]]

ReadSource(t, f) ==
    /\ pc[t] = "reading"
    /\ f \in Sources(t) /\ index[t].text[f] = -1
    /\ index' = [index EXCEPT ![t].text[f] = disk[f]]
    /\ UNCHANGED <<serviceVars, cacheVars, pc, loadGeneration, gets>>

\* Native headers, macros, semantic analysis: no state of the cache.
Analyze(t) ==
    /\ pc[t] = "reading"
    /\ \A f \in Sources(t) : index[t].text[f] # -1
    /\ Goto(t, "stamping")
    /\ UNCHANGED <<serviceVars, cacheVars, index, loadGeneration, gets>>

\* summary.source_mtime = file_mtime(unit->source_path).
StampSource(t, f) ==
    /\ pc[t] = "stamping"
    /\ f \in Sources(t) /\ index[t].stamp[f] = -1
    /\ index' = [index EXCEPT ![t].stamp[f] = disk[f]]
    /\ UNCHANGED <<serviceVars, cacheVars, pc, loadGeneration, gets>>

Loaded(t) ==
    /\ pc[t] = "stamping"
    /\ \A f \in Sources(t) : index[t].stamp[f] # -1
    /\ Goto(t, "storing")
    /\ UNCHANGED <<serviceVars, cacheVars, index, loadGeneration, gets>>

\* A source that is missing, does not parse or does not check.
LoadThrows(t) ==
    /\ pc[t] = "reading"
    /\ Goto(t, "failing")
    /\ UNCHANGED <<serviceVars, cacheVars, index, loadGeneration, gets>>

-----------------------------------------------------------------------------
(* The end of get_shared *)

\* Variants: notify_one; waiters that do not go round the loop again.
WakeOne(t) ==
    \E u \in Threads :
        /\ pc[u] = "waiting" \/ \A v \in Threads : pc[v] # "waiting"
        /\ pc' = [pc EXCEPT ![u] = IF @ = "waiting" THEN "woken" ELSE @,
                            ![t] = "idle"]

WakeAndForget(t) ==
    pc' = [u \in Threads |-> IF u = t \/ pc[u] = "waiting" THEN "idle" ELSE pc[u]]

\* ready_.notify_all(), as t leaves for its caller.
WakeAll(t) ==
    pc' = [u \in Threads |-> IF u = t THEN "idle"
                             ELSE IF pc[u] = "waiting" THEN "woken" ELSE pc[u]]

\* A variant: whatever was loaded is kept.
StoreAnyGeneration(t) ==
    /\ pc[t] = "storing"
    /\ loading' = loading \ {asked[t]}
    /\ stats' = [stats EXCEPT !["loads"] = @ + 1]
    /\ entries' = [entries EXCEPT ![asked[t]] = index[t]]
    /\ WakeAll(t)
    /\ Return(t, index[t].text)
    /\ UNCHANGED <<disk, cleared, floor, generation, index, loadGeneration,
                   gets>>

\* loading_.erase(key); what a clear() overtook is returned but not kept.
Store(t) ==
    LET k == asked[t]
    IN  /\ pc[t] = "storing"
        /\ loading' = loading \ {k}
        /\ IF loadGeneration[t] = generation
           THEN /\ stats' = [stats EXCEPT !["loads"] = @ + 1]
                /\ entries' = [entries EXCEPT ![k] = index[t]]
           ELSE UNCHANGED <<stats, entries>>
        /\ WakeAll(t)
        /\ Return(t, index[t].text)
        /\ UNCHANGED <<disk, cleared, floor, generation, index,
                       loadGeneration, gets>>

\* A variant: the key stays in loading_.
RethrowLeavesKey(t) ==
    /\ pc[t] = "failing"
    /\ WakeAll(t)
    /\ Return(t, None)
    /\ UNCHANGED <<disk, cleared, floor, entries, loading, generation, stats,
                   index, loadGeneration, gets>>

Rethrow(t) ==
    /\ pc[t] = "failing"
    /\ loading' = loading \ {asked[t]}
    /\ WakeAll(t)
    /\ Return(t, None)
    /\ UNCHANGED <<disk, cleared, floor, entries, generation, stats, index,
                   loadGeneration, gets>>

\* clear() leaves loading_ alone.
ClearCache(t) ==
    /\ pc[t] = "idle"
    /\ generation < MaxClears
    /\ generation' = generation + 1
    /\ entries' = [k \in Keys |-> None]
    /\ stats' = NoStats
    /\ Clear
    /\ UNCHANGED <<loading, threadVars>>

WriteFile(f) == Write(f) /\ UNCHANGED <<cacheVars, threadVars>>

-----------------------------------------------------------------------------
Load(t) == \/ \E f \in Files : ReadSource(t, f) \/ StampSource(t, f)
           \/ Analyze(t) \/ Loaded(t)

\* What a thread inside get_shared does next.
Step(t) == \/ Lookup(t) \/ WakeAndLookup(t) \/ WakeAndSleep(t)
           \/ Load(t) \/ LoadThrows(t) \/ Store(t) \/ Rethrow(t)

\* The calls are used up and every thread has returned.
Finished == /\ gets = MaxGets
            /\ \A t \in Threads : pc[t] = "idle"
            /\ UNCHANGED vars

Next == \/ \E t \in Threads : Step(t) \/ ClearCache(t) \/ \E k \in Keys : Get(t, k)
        \/ \E f \in Files : WriteFile(f)
        \/ Finished

Spec == Init /\ [][Next]_vars

\* Threads are scheduled, and ProjectIndex::load returns or throws.
FairSpec == Spec /\ \A t \in Threads : WF_vars(Step(t))

-----------------------------------------------------------------------------
(* Properties *)

\* Types; -1 is what a load has not read yet.  A thread has a request exactly
\* while it is in get_shared.
TypeOK ==
    /\ disk \in [Files -> 0 .. MaxWrites]
    /\ cleared \in [Files -> 0 .. MaxWrites]
    /\ asked \in [Threads -> Keys \cup {None}]
    /\ floor \in [Threads -> [Files -> 0 .. MaxWrites]]
    /\ answer \in [Threads -> Versions \cup {None}]
    /\ entries \in [Keys -> Index \cup {None}]
    /\ loading \subseteq Keys
    /\ generation \in 0 .. MaxClears
    /\ stats \in [Counters -> Nat]
    /\ pc \in [Threads -> LoadStates \cup {"idle", "lookup", "waiting", "woken"}]
    /\ index \in [Threads -> Index]
    /\ loadGeneration \in [Threads -> 0 .. MaxClears]
    /\ gets \in 0 .. MaxGets
    /\ \A t \in Threads : pc[t] = "idle" <=> asked[t] = None

\* However gets, clears and failures interleave, a key is loaded by one thread
\* at a time, and loading_ is exactly the keys being loaded: a leftover would
\* make every later get of the key wait for ever.
SingleFlight ==
    /\ \A t, u \in Threads :
          IsLoading(t) /\ IsLoading(u) /\ asked[t] = asked[u] => t = u
    /\ \A k \in Keys : k \in loading <=>
          \E t \in Threads : IsLoading(t) /\ asked[t] = k

\* A thread asleep on ready_ has a loader that will wake it.
NobodyForgotten ==
    \A t \in Threads : pc[t] = "waiting" => asked[t] \in loading

\* The cache is the service the language server expects: no answer is older
\* than the last clear() before the call, even when the load it comes from
\* was under way during that clear().
Implements == ServiceSpec

\* Every call of get_shared returns or throws.
GetsReturn == \A t \in Threads : pc[t] = "lookup" ~> pc[t] = "idle"

=============================================================================
