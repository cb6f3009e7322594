-------------------------- MODULE NativeHeaderCache --------------------------
(***************************************************************************)
(* scan_headers (native/native_headers.cpp) and the cache directory it     *)
(* shares with other compilers and language servers                        *)
(* (native/native_header_cache.cpp, native_header_cache_deps.cpp): per key *)
(* the dumps of three clang passes, the stamps of the headers they read,   *)
(* and the parsed scan.  Each is a file that is truncated and then filled, *)
(* without a lock or a rename; each process has parsed scans in memory.    *)
(*                                                                         *)
(* One import; its header (Direct) is part of the key, what that includes  *)
(* (the rest of Files) is only in the stamps.  A version stands for a      *)
(* file's contents and for its size and mtime: a save changes them.  A     *)
(* mutex lets a process scan one thing at a time.                          *)
(***************************************************************************)
EXTENDS Integers, Sequences

CONSTANTS
    Processes,
    Servers,       \* those that live on after a call
    Files, Direct,
    NeedsPrelude,  \* versions of Direct that clang takes only after a prelude
    Absent,        \* a cache file that does not exist
    Empty,         \* one that was truncated, and an empty dump
    None,
    Scenarios,     \* what may happen besides calls, see Scenario
    MaxSaves, MaxFaults, MaxCalls

Dumps == {"ast", "macros", "identities"}
Parts == Dumps \cup {"deps", "scan"}
Keys == 0 .. MaxSaves

\* Who calls; whether processes are killed, and calls overlap; the headers that
\* are saved while no process scans, and while one does.
Scenario == [callers : SUBSET Processes, kill : BOOLEAN, overlap : BOOLEAN,
             between : SUBSET Files, during : SUBSET Files]

ASSUME HeaderCacheAssumption ==
    /\ Servers \subseteq Processes
    /\ Direct \in Files
    /\ NeedsPrelude \subseteq Nat
    /\ Absent # Empty /\ Empty # None /\ None # Absent
    /\ \A mark \in {Absent, Empty, None} : mark \notin [Files -> Nat]
    /\ Scenarios \subseteq Scenario
    /\ MaxSaves \in Nat /\ MaxFaults \in Nat /\ MaxCalls \in Nat

Versions == [Files -> Nat]

VARIABLES
    version,   \* the headers
    cache,     \* cache[k][part]: the directory
    memory,    \* memory[p][k]: the parsed scans of a process
    pc, key,   \* where p is in scan_headers, and its key
    result,    \* the dumps p has so far: the versions each was made from
    stamps,    \* the stamps p is about to write
    part,      \* the file p is writing
    since,     \* version when p asked
    scenario,  \* what may happen in this behaviour
    served,    \* the versions that storable scans were asked for
    saves, faults, calls

locals == <<key, result, stamps, part, since>>
bounds == <<scenario, served, saves, faults, calls>>
vars == <<version, cache, memory, pc, locals, bounds>>

Places == {"idle", "raw", "scan", "payload", "identities", "ast", "macros",
           "truncate", "fill", "done"}

Blank == [f \in Files |-> 0]
NoScan == [d \in Dumps |-> Empty]

Init ==
    /\ version = Blank
    /\ cache = [k \in Keys |-> [q \in Parts |-> Absent]]
    /\ memory = [p \in Processes |-> [k \in Keys |-> None]]
    /\ pc = [p \in Processes |-> "idle"]
    /\ key = [p \in Processes |-> 0]
    /\ result = [p \in Processes |-> NoScan]
    /\ stamps = [p \in Processes |-> Blank]
    /\ part = [p \in Processes |-> "ast"]
    /\ since = [p \in Processes |-> Blank]
    /\ scenario \in Scenarios
    /\ served = {}
    /\ saves = 0 /\ faults = 0 /\ calls = 0

Idle(p) == pc[p] = "idle"
Goto(p, where) == pc' = [pc EXCEPT ![p] = where]

\* A variant: the stamps are written first.
OrderStampsFirst == <<"deps", "ast", "macros", "identities", "scan">>

\* store_native_header_raw_cache, and then store_native_header_scan_cache.
Order == <<"ast", "macros", "identities", "deps", "scan">>
After(q) == Order[1 + CHOOSE i \in 1 .. Len(Order) : Order[i] = q]

-----------------------------------------------------------------------------
(* Looking for an answer *)

\* native_header_scan_key: the import's header as it is now.
Begin(p) ==
    /\ p \in scenario.callers /\ Idle(p) /\ calls < MaxCalls
    /\ scenario.overlap \/ \A q \in Processes : Idle(q)
    /\ calls' = calls + 1
    /\ key' = [key EXCEPT ![p] = version[Direct]]
    /\ since' = [since EXCEPT ![p] = version]
    /\ Goto(p, "raw")
    /\ UNCHANGED <<version, cache, memory, result, stamps, part, scenario, served, saves, faults>>

\* A variant: the header in the key is taken for all there is to check.
KeyIsEnough(k) == \A q \in Dumps \cup {"deps"} : cache[k][q] # Absent

\* load_native_header_raw_cache: all four files exist and no header that the
\* stamps name has changed; no stamps are no good.
RawHit(k) ==
    /\ \A q \in Dumps \cup {"deps"} : cache[k][q] # Absent
    /\ cache[k]["deps"] = version

\* The scan in memory is as good as the files; if they are not, it is dropped.
LoadRaw(p) ==
    LET hit == RawHit(key[p])
        known == memory[p][key[p]]
    IN  /\ pc[p] = "raw"
        /\ IF hit /\ known # None
           THEN result' = [result EXCEPT ![p] = known] /\ Goto(p, "done")
           ELSE Goto(p, IF hit THEN "scan" ELSE "identities") /\ UNCHANGED result
        /\ memory' = IF hit THEN memory ELSE [memory EXCEPT ![p][key[p]] = None]
        /\ UNCHANGED <<version, cache, key, stamps, part, since, bounds>>

\* A variant: an empty file passes for an empty scan.
Exists(file) == file # Absent

\* What was truncated and not filled has no version line.
Decodes(file) == file \notin {Absent, Empty}

\* load_native_header_scan_cache: a file that does not decode is passed over.
LoadScan(p) ==
    LET found == cache[key[p]]["scan"]
    IN  /\ pc[p] = "scan"
        /\ IF Decodes(found)
           THEN /\ result' = [result EXCEPT ![p] = found]
                /\ memory' = [memory EXCEPT ![p][key[p]] = found]
                /\ Goto(p, "done")
           ELSE Goto(p, "payload") /\ UNCHANGED <<result, memory>>
        /\ UNCHANGED <<version, cache, key, stamps, part, since, bounds>>

\* load_native_header_raw_cache_payload: the files are still there, and one of
\* two dumps will do.  They are parsed, and the scan is stored.
LoadPayload(p) ==
    LET found == [d \in Dumps |-> cache[key[p]][d]]
    IN  /\ pc[p] = "payload"
        /\ IF /\ \A d \in Dumps : found[d] # Absent
              /\ found["ast"] # Empty \/ found["macros"] # Empty
           THEN /\ result' = [result EXCEPT ![p] = found]
                /\ memory' = [memory EXCEPT ![p][key[p]] = found]
                /\ part' = [part EXCEPT ![p] = "scan"]
                /\ Goto(p, "truncate")
           ELSE Goto(p, "identities") /\ UNCHANGED <<result, memory, part>>
        /\ UNCHANGED <<version, cache, key, stamps, since, bounds>>

-----------------------------------------------------------------------------
(* Scanning *)

\* libclang's identities, the AST dump, the macro dump: each pass reads the
\* headers again.
Pass(p, d, next) ==
    /\ pc[p] = d
    /\ result' = [result EXCEPT ![p] = [@ EXCEPT ![d] = version]]
    /\ Goto(p, next)
    /\ UNCHANGED <<version, cache, memory, key, stamps, part, since, bounds>>

PassIdentities(p) == Pass(p, "identities", "ast")
PassAst(p) == Pass(p, "ast", "macros")

TookPrelude(p) == /\ result[p]["ast"] # Empty
                  /\ result[p]["ast"][Direct] \in NeedsPrelude

\* A variant: nothing is stored.
StoresNothing(p) == FALSE

\* used_prelude_retry: such scans are kept in memory only.
Stores(p) == ~TookPrelude(p)

PassMacros(p) ==
    /\ pc[p] = "macros"
    /\ LET scan == [result[p] EXCEPT !["macros"] = version]
       IN  /\ result' = [result EXCEPT ![p] = scan]
           /\ memory' = IF Stores(p) THEN memory
                                     ELSE [memory EXCEPT ![p][key[p]] = scan]
    /\ part' = [part EXCEPT ![p] = Order[1]]
    /\ Goto(p, IF Stores(p) THEN "truncate" ELSE "done")
    /\ UNCHANGED <<version, cache, key, stamps, since, bounds>>

\* clang refuses the header, and nothing has been stored.
Fail(p) ==
    /\ pc[p] \in {"ast", "macros"}
    /\ Goto(p, "idle")
    /\ UNCHANGED <<version, cache, memory, locals, bounds>>

-----------------------------------------------------------------------------
(* Storing, one file after another *)

\* write_text opens the file.  The stamps are taken just before, of all
\* headers that the AST pass read, as they are by now.
Truncate(p) ==
    /\ pc[p] = "truncate"
    /\ cache' = [cache EXCEPT ![key[p]][part[p]] = Empty]
    /\ stamps' = IF part[p] = "deps" THEN [stamps EXCEPT ![p] = version] ELSE stamps
    /\ Goto(p, "fill")
    /\ UNCHANGED <<version, memory, key, result, part, since, bounds>>

\* It is written and closed.  With .deps the raw cache is complete, and the
\* scan goes into memory.
Fill(p) ==
    LET k == key[p]
        q == part[p]
    IN  /\ pc[p] = "fill"
        /\ cache' = [cache EXCEPT ![k][q] =
                        CASE q \in Dumps -> result[p][q]
                          [] q = "deps"  -> stamps[p]
                          [] q = "scan"  -> result[p]]
        /\ memory' = IF q = "deps" THEN [memory EXCEPT ![p][k] = result[p]] ELSE memory
        /\ IF q = "scan" THEN Goto(p, "done") /\ UNCHANGED part
                         ELSE Goto(p, "truncate") /\ part' = [part EXCEPT ![p] = After(q)]
        /\ UNCHANGED <<version, key, result, stamps, since, bounds>>

\* A compiler ends with its command, and its memory with it.
Return(p) ==
    /\ pc[p] = "done"
    /\ Goto(p, "idle")
    /\ memory' = IF p \in Servers THEN memory
                 ELSE [memory EXCEPT ![p] = [k \in Keys |-> None]]
    /\ served' = IF TookPrelude(p) THEN served ELSE served \cup {since[p]}
    /\ UNCHANGED <<version, cache, locals, scenario, saves, faults, calls>>

-----------------------------------------------------------------------------
(* What happens besides *)

SaveHeader(f) ==
    /\ saves < MaxSaves
    /\ f \in IF \A p \in Processes : Idle(p) THEN scenario.between ELSE scenario.during
    /\ saves' = saves + 1
    /\ version' = [version EXCEPT ![f] = @ + 1]
    /\ UNCHANGED <<cache, memory, pc, locals, scenario, served, faults, calls>>

\* The process ends, in the middle of a call or not.
Kill(p) ==
    /\ scenario.kill /\ faults < MaxFaults
    /\ faults' = faults + 1
    /\ memory' = [memory EXCEPT ![p] = [k \in Keys |-> None]]
    /\ Goto(p, "idle")
    /\ UNCHANGED <<version, cache, locals, scenario, served, saves, calls>>

\* clean_native_header_cache, while no process scans.
Clean ==
    /\ faults < MaxFaults /\ \A p \in Processes : Idle(p)
    /\ faults' = faults + 1
    /\ cache' = [k \in Keys |-> [q \in Parts |-> Absent]]
    /\ served' = {}
    /\ UNCHANGED <<version, memory, pc, locals, scenario, saves, calls>>

Finished ==
    /\ calls = MaxCalls /\ \A p \in Processes : Idle(p)
    /\ UNCHANGED vars

Step(p) ==
    \/ LoadRaw(p) \/ LoadScan(p) \/ LoadPayload(p)
    \/ PassIdentities(p) \/ PassAst(p) \/ PassMacros(p) \/ Fail(p)
    \/ Truncate(p) \/ Fill(p) \/ Return(p)

Next ==
    \/ \E p \in Processes : Begin(p) \/ Step(p) \/ Kill(p)
    \/ \E f \in Files : SaveHeader(f)
    \/ Clean
    \/ Finished

Spec == Init /\ [][Next]_vars

-----------------------------------------------------------------------------
(* Properties *)

Scans == [Dumps -> Versions \cup {Empty}]

\* Types; while a process stores it has made the three passes.
TypeOK ==
    /\ version \in Versions
    /\ \A k \in Keys :
          /\ \A d \in Dumps : cache[k][d] \in Versions \cup {Absent, Empty}
          /\ cache[k]["deps"] \in Versions \cup {Absent, Empty}
          /\ cache[k]["scan"] \in Scans \cup {Absent, Empty}
    /\ memory \in [Processes -> [Keys -> Scans \cup {None}]]
    /\ pc \in [Processes -> Places]
    /\ key \in [Processes -> Keys]
    /\ result \in [Processes -> Scans]
    /\ stamps \in [Processes -> Versions]
    /\ part \in [Processes -> Parts]
    /\ since \in [Processes -> Versions]
    /\ scenario \in Scenarios /\ served \subseteq Versions
    /\ saves \in 0 .. MaxSaves /\ faults \in 0 .. MaxFaults /\ calls \in 0 .. MaxCalls

\* Some process has truncated the file and will fill it.
BeingWritten(k, q) == \E p \in Processes : pc[p] = "fill" /\ key[p] = k /\ part[p] = q

\* Stamps that say "current" vouch for the dumps beside them: each was made
\* from the headers as they are, or is just being written again.  No store
\* that was cut short, and none that a save of the import's own header
\* overtook, is ever taken for a whole one (load_native_header_raw_cache looks
\* at nothing but the stamps).
TrustedIsWhole ==
    \A k \in Keys, d \in Dumps :
        (k = version[Direct] /\ RawHit(k)) =>
            \/ cache[k][d] = version
            \/ cache[k][d] = Empty /\ BeingWritten(k, d)

\* Headers that some process has scanned and stored are not scanned again
\* while they stay as they are, by none of the processes, except at the moment
\* when another one is writing the stamps, or two others both the dumps.
WarmScansAreLoaded ==
    [][\A p \in Processes :
          (pc'[p] = "identities" /\ pc[p] # "identities" /\ since[p] = version)
              => \/ version \notin served
                 \/ BeingWritten(key[p], "deps")
                 \/ BeingWritten(key[p], "ast") /\ BeingWritten(key[p], "macros")]_vars

\* The promise: see HeaderService.  What a process holds is an answer once it
\* is done.
Service == INSTANCE HeaderService WITH
    phase  <- [p \in Processes |-> CASE pc[p] = "idle" -> "idle"
                                     [] pc[p] = "done" -> "answered"
                                     [] OTHER          -> "asked"],
    answer <- [p \in Processes |-> IF pc[p] = "done" THEN result[p] ELSE None]

\* scan_headers is a header service: whatever mixture of memory, parsed scan,
\* dumps and clang an answer comes from, it shows no header as it was before
\* the question.
Implements == Service!HeaderSpec
===============================================================================
