----------------------- MODULE NativeHeaderCacheProofs -----------------------
(***************************************************************************)
(* For any processes, headers and bounds: current stamps vouch for whole   *)
(* dumps, if no included header is saved during a scan and no process is   *)
(* killed while others scan; what was stored and rests is scanned no more; *)
(* and the cache is a header service, if processes also take turns, and    *)
(* a server is by itself or only the import's own header is saved.         *)
(***************************************************************************)
EXTENDS NativeHeaderCache, TLAPS

Stamped == Versions \cup {Absent, Empty}
Parsed == Scans \cup {Absent, Empty}

\* The types that the rest needs.
Types ==
    /\ version \in Versions
    /\ cache \in [Keys -> [Parts -> Stamped \cup Parsed]]
    /\ \A k \in Keys, q \in Dumps \cup {"deps"} : cache[k][q] \in Stamped
    /\ \A k \in Keys : cache[k]["scan"] \in Parsed
    /\ memory \in [Processes -> [Keys -> Scans \cup {None}]]
    /\ pc \in [Processes -> Places]
    /\ key \in [Processes -> Keys]
    /\ result \in [Processes -> Scans]
    /\ stamps \in [Processes -> Versions]
    /\ part \in [Processes -> Parts]
    /\ saves \in Keys /\ \A f \in Files : version[f] \in 0 .. saves

\* What is only counted or remembered.
History ==
    /\ since \in [Processes -> Versions]
    /\ scenario \in Scenarios /\ served \subseteq Versions
    /\ faults \in 0 .. MaxFaults /\ calls \in 0 .. MaxCalls

\* Keys and stamps are not from the future.
Past ==
    /\ \A p \in Processes : key[p] <= version[Direct]
    /\ \A p \in Processes, f \in Files : stamps[p][f] <= version[f]
    /\ \A k \in Keys, f \in Files :
          cache[k]["deps"] \in Versions => cache[k]["deps"][f] <= version[f]

Scanning(p) == pc[p] \in {"identities", "ast", "macros"}
Storing(p) == pc[p] \in {"truncate", "fill"} /\ part[p] # "scan"

\* The dump was made from the headers as they are, or is about to be.
Good(k, d) ==
    \/ cache[k][d] = version
    \/ /\ cache[k][d] = Empty
       /\ \E p \in Processes : pc[p] = "fill" /\ key[p] = k /\ part[p] = d

\* The dumps that are written before a file is.
Done(q) == CASE q = "macros"     -> {"ast"}
             [] q = "identities" -> {"ast", "macros"}
             [] q = "deps"       -> Dumps
             [] OTHER            -> {}

\* A process whose key is current has current dumps, and those it has written
\* are good.  One that scans alone found no current stamps.
Sound(p) ==
    key[p] = version[Direct] =>
        /\ pc[p] \in {"ast", "macros"} => result[p]["identities"] = version
        /\ pc[p] = "macros" => result[p]["ast"] = version
        /\ Storing(p) => \A d \in Dumps : result[p][d] = version
        /\ Storing(p) => \A d \in Done(part[p]) : Good(key[p], d)
        /\ (pc[p] = "fill" /\ part[p] = "deps") => stamps[p] = version
        /\ (Scanning(p) \/ Storing(p)) =>
              scenario.overlap \/ cache[key[p]]["deps"] # version

Whole ==
    \A k \in Keys, d \in Dumps :
        (k = version[Direct] /\ cache[k]["deps"] = version) => Good(k, d)

Alone == scenario.overlap \/ \A p, q \in Processes : Idle(p) \/ Idle(q) \/ p = q

\* The scenarios that the theorem is about.
Calm(s) == s.during \subseteq {Direct} /\ ~(s.kill /\ s.overlap)

\* What a step of p leaves to the others.
Frame(p) ==
    /\ version' = version /\ scenario' = scenario
    /\ \A q \in Processes : q # p =>
          /\ pc'[q] = pc[q] /\ key'[q] = key[q] /\ result'[q] = result[q]
          /\ stamps'[q] = stamps[q] /\ part'[q] = part[q]

-----------------------------------------------------------------------------
\* The steps, one by one.
LEMMA StepCases ==
    ASSUME NEW P, [Next]_vars,
           \A p \in Processes : Begin(p) => P,
           \A p \in Processes : LoadRaw(p) => P,
           \A p \in Processes : LoadScan(p) => P,
           \A p \in Processes : LoadPayload(p) => P,
           \A p \in Processes : PassIdentities(p) => P,
           \A p \in Processes : PassAst(p) => P,
           \A p \in Processes : PassMacros(p) => P,
           \A p \in Processes : Fail(p) => P,
           \A p \in Processes : Truncate(p) => P,
           \A p \in Processes : Fill(p) => P,
           \A p \in Processes : Return(p) => P,
           \A f \in Files : SaveHeader(f) => P,
           \A p \in Processes : Kill(p) => P,
           Clean => P,
           UNCHANGED vars => P
    PROVE  P
BY Zenon DEF Next, Step, Finished

\* The order of the files.
LEMMA Orders ==
    /\ Order[1] = "ast" /\ After("ast") = "macros" /\ After("macros") = "identities"
    /\ After("identities") = "deps" /\ After("deps") = "scan"
<1>1. /\ Len(Order) = 5 /\ Order[1] = "ast" /\ Order[2] = "macros"
      /\ Order[3] = "identities" /\ Order[4] = "deps" /\ Order[5] = "scan"
    BY DEF Order
<1>2. ASSUME NEW q, NEW n \in 1 .. 5, Order[n] = q, \A i \in 1 .. 5 : Order[i] = q => i = n
      PROVE  After(q) = Order[1 + n]
    BY <1>1, <1>2 DEF After
<1>3. \A i \in 1 .. 5 : i = 1 \/ i = 2 \/ i = 3 \/ i = 4 \/ i = 5
    OBVIOUS
<1>4. After("ast") = "macros"
    BY <1>1, <1>2, <1>3
<1>5. After("macros") = "identities"
    BY <1>1, <1>2, <1>3
<1>6. After("identities") = "deps"
    BY <1>1, <1>2, <1>3
<1>7. After("deps") = "scan"
    BY <1>1, <1>2, <1>3
<1> QED  BY <1>1, <1>4, <1>5, <1>6, <1>7

\* Marks are not versions.
LEMMA Marks ==
    /\ Absent \notin Versions /\ Empty \notin Versions /\ None \notin Versions
    /\ Absent # Empty /\ Empty # None /\ None # Absent
BY HeaderCacheAssumption DEF Versions

\* Where a process starts is well typed.
LEMMA Initially ==
    /\ Direct \in Files /\ 0 \in Keys /\ Blank \in Versions /\ NoScan \in Scans
    /\ {"ast", "macros", "identities", "deps", "scan"} = Parts
BY HeaderCacheAssumption DEF Keys, Blank, Versions, NoScan, Scans, Dumps, Parts

\* Where the order leads from what is not last.
LEMMA AfterType == \A q \in Parts : q # "scan" => After(q) \in Parts
BY Orders, Initially

\* What a process remembers.
LEMMA Remembers ==
    ASSUME memory \in [Processes -> [Keys -> Scans \cup {None}]],
           NEW p \in Processes, NEW k \in Keys, NEW x \in Scans \cup {None},
           memory' = memory \/ memory' = [memory EXCEPT ![p][k] = x]
    PROVE  memory' \in [Processes -> [Keys -> Scans \cup {None}]]
<1>1. [memory[p] EXCEPT ![k] = x] \in [Keys -> Scans \cup {None}]
    OBVIOUS
<1> QED  BY <1>1

\* What a process forgets.
LEMMA Forgets ==
    ASSUME memory \in [Processes -> [Keys -> Scans \cup {None}]],
           NEW p \in Processes,
           memory' = memory \/ memory' = [memory EXCEPT ![p] = [k \in Keys |-> None]]
    PROVE  memory' \in [Processes -> [Keys -> Scans \cup {None}]]
<1>1. [k \in Keys |-> None] \in [Keys -> Scans \cup {None}]
    OBVIOUS
<1> QED  BY <1>1

\* Types are kept.
LEMMA TypesStep ==
    ASSUME Types, [Next]_vars
    PROVE  Types'
<1> USE Initially, Marks DEF Types, locals, bounds
<1>1. ASSUME NEW p \in Processes, Begin(p)  PROVE Types'
    <2>1. version[Direct] \in 0 .. saves /\ saves \in 0 .. MaxSaves /\ MaxSaves \in Nat
        BY HeaderCacheAssumption DEF Keys
    <2>3. version[Direct] \in Keys
        BY <2>1 DEF Keys
    <2>2. key' \in [Processes -> Keys] /\ pc' \in [Processes -> Places]
        BY <1>1, <2>3 DEF Begin, Goto, Places
    <2> QED  BY <1>1, <2>2 DEF Begin
<1>2. ASSUME NEW p \in Processes, LoadRaw(p)  PROVE Types'
    <2>1. pc' \in [Processes -> Places]
        BY <1>2, ZenonT(60) DEF LoadRaw, Goto, Places
    <2>2. result' \in [Processes -> Scans]
        <3>1. memory[p][key[p]] # None => memory[p][key[p]] \in Scans
            OBVIOUS
        <3>2. \/ result' = result
              \/ result' = [result EXCEPT ![p] = memory[p][key[p]]] /\ memory[p][key[p]] # None
            BY <1>2 DEF LoadRaw
        <3> QED  BY <3>1, <3>2
    <2>3. memory' \in [Processes -> [Keys -> Scans \cup {None}]]
        BY <1>2 DEF LoadRaw
    <2> QED  BY <1>2, <2>1, <2>2, <2>3 DEF LoadRaw
<1>3. ASSUME NEW p \in Processes, LoadScan(p)  PROVE Types'
    <2>1. pc' \in [Processes -> Places]
        BY <1>3 DEF LoadScan, Goto, Places
    <2>2. Decodes(cache[key[p]]["scan"]) => cache[key[p]]["scan"] \in Scans
        BY DEF Decodes, Parsed
    <2>3. result' \in [Processes -> Scans]
        BY <1>3, <2>2 DEF LoadScan
    <2>4. memory' \in [Processes -> [Keys -> Scans \cup {None}]]
        <3>1. \/ memory' = memory
              \/ /\ Decodes(cache[key[p]]["scan"])
                 /\ memory' = [memory EXCEPT ![p][key[p]] = cache[key[p]]["scan"]]
            BY <1>3 DEF LoadScan
        <3>2. key[p] \in Keys /\ memory \in [Processes -> [Keys -> Scans \cup {None}]]
            OBVIOUS
        <3>3. CASE memory' = memory
            BY <3>2, <3>3
        <3>4. CASE memory' # memory
            <4>1. cache[key[p]]["scan"] \in Scans \cup {None}
                BY <2>2, <3>1, <3>4
            <4> QED  BY <3>1, <3>2, <3>4, <4>1, Remembers, Zenon
        <3> QED  BY <3>3, <3>4
    <2> QED  BY <1>3, <2>1, <2>3, <2>4 DEF LoadScan
<1>4. ASSUME NEW p \in Processes, LoadPayload(p)  PROVE Types'
    <2> DEFINE found == [d \in Dumps |-> cache[key[p]][d]]
    <2>1. pc' \in [Processes -> Places] /\ part' \in [Processes -> Parts]
        BY <1>4 DEF LoadPayload, Goto, Places
    <2>2. (\A d \in Dumps : found[d] # Absent) => found \in Scans
        <3>1. \A d \in Dumps : cache[key[p]][d] \in Versions \cup {Absent, Empty}
            BY DEF Stamped
        <3> QED  BY <3>1 DEF Scans
    <2>3. \/ found \in Scans /\ result' = [result EXCEPT ![p] = found]
             /\ memory' = [memory EXCEPT ![p][key[p]] = found]
          \/ UNCHANGED <<result, memory>>
        BY <1>4, <2>2 DEF LoadPayload
    <2> HIDE DEF found
    <2>4. result' \in [Processes -> Scans]
        BY <2>3
    <2>5. memory' \in [Processes -> [Keys -> Scans \cup {None}]]
        <3>1. key[p] \in Keys /\ memory \in [Processes -> [Keys -> Scans \cup {None}]]
            OBVIOUS
        <3>2. CASE memory' = memory
            BY <3>1, <3>2
        <3>3. CASE memory' # memory
            <4>1. /\ found \in Scans \cup {None}
                  /\ memory' = [memory EXCEPT ![p][key[p]] = found]
                BY <2>3, <3>3
            <4> QED  BY <3>1, <4>1, Remembers, Zenon
        <3> QED  BY <3>2, <3>3
    <2> QED  BY <1>4, <2>1, <2>4, <2>5 DEF LoadPayload
<1>5. ASSUME NEW p \in Processes, NEW d \in Dumps, NEW next \in Places, Pass(p, d, next)
      PROVE  Types'
    <2>1. pc' \in [Processes -> Places]
        BY <1>5 DEF Pass, Goto
    <2>2. result' \in [Processes -> Scans]
        BY <1>5 DEF Pass, Scans
    <2> QED  BY <1>5, <2>1, <2>2 DEF Pass
<1>6. ASSUME NEW p \in Processes, PassIdentities(p)  PROVE Types'
    BY <1>5, <1>6 DEF PassIdentities, Dumps, Places
<1>7. ASSUME NEW p \in Processes, PassAst(p)  PROVE Types'
    BY <1>5, <1>7 DEF PassAst, Dumps, Places
<1>8. ASSUME NEW p \in Processes, PassMacros(p)  PROVE Types'
    <2> DEFINE scan == [result[p] EXCEPT !["macros"] = version]
    <2>1. scan \in Scans
        BY DEF Scans
    <2>2. pc' \in [Processes -> Places] /\ part' \in [Processes -> Parts]
        BY <1>8, Orders DEF PassMacros, Goto, Places
    <2>3. /\ result' = [result EXCEPT ![p] = scan]
          /\ memory' = memory \/ memory' = [memory EXCEPT ![p][key[p]] = scan]
        BY <1>8 DEF PassMacros
    <2> HIDE DEF scan
    <2>4. result' \in [Processes -> Scans]
        BY <2>1, <2>3
    <2>5. memory' \in [Processes -> [Keys -> Scans \cup {None}]]
        <3>1. /\ key[p] \in Keys /\ memory \in [Processes -> [Keys -> Scans \cup {None}]]
              /\ scan \in Scans \cup {None}
            BY <2>1
        <3> QED  BY <2>3, <3>1, Remembers, Zenon
    <2> QED  BY <1>8, <2>2, <2>4, <2>5 DEF PassMacros
<1>9. ASSUME NEW p \in Processes, Fail(p)  PROVE Types'
    <2>1. pc' \in [Processes -> Places]
        BY <1>9 DEF Fail, Goto, Places
    <2> QED  BY <1>9, <2>1 DEF Fail
<1>10. ASSUME NEW k \in Keys, NEW q \in Parts, NEW c \in Stamped \cup Parsed,
              q # "scan" => c \in Stamped, q = "scan" => c \in Parsed,
              cache' = [cache EXCEPT ![k][q] = c]
       PROVE  /\ cache' \in [Keys -> [Parts -> Stamped \cup Parsed]]
              /\ \A j \in Keys, r \in Dumps \cup {"deps"} : cache'[j][r] \in Stamped
              /\ \A j \in Keys : cache'[j]["scan"] \in Parsed
    <2>1. \A r \in Dumps \cup {"deps"} : r \in Parts /\ r # "scan"
        BY DEF Dumps
    <2>2. cache' \in [Keys -> [Parts -> Stamped \cup Parsed]]
        BY <1>10
    <2>3. \A j \in Keys, r \in Parts : cache'[j][r] = IF j = k /\ r = q THEN c ELSE cache[j][r]
        BY <1>10
    <2> QED  BY <1>10, <2>1, <2>2, <2>3
<1>11. ASSUME NEW p \in Processes, Truncate(p)  PROVE Types'
    <2>1. pc' \in [Processes -> Places] /\ stamps' \in [Processes -> Versions]
        BY <1>11 DEF Truncate, Goto, Places
    <2>2. Empty \in Stamped /\ Empty \in Parsed /\ key[p] \in Keys /\ part[p] \in Parts
        BY DEF Stamped, Parsed
    <2>3. cache' = [cache EXCEPT ![key[p]][part[p]] = Empty]
        BY <1>11 DEF Truncate
    <2>4. /\ cache' \in [Keys -> [Parts -> Stamped \cup Parsed]]
          /\ \A j \in Keys, r \in Dumps \cup {"deps"} : cache'[j][r] \in Stamped
          /\ \A j \in Keys : cache'[j]["scan"] \in Parsed
        BY <1>10, <2>2, <2>3
    <2> QED  BY <1>11, <2>1, <2>4 DEF Truncate
<1>12. ASSUME NEW p \in Processes, Fill(p)  PROVE Types'
    <2> DEFINE c == CASE part[p] \in Dumps -> result[p][part[p]]
                      [] part[p] = "deps"  -> stamps[p]
                      [] part[p] = "scan"  -> result[p]
    <2>1. pc' \in [Processes -> Places] /\ part' \in [Processes -> Parts]
        <3>1. "done" \in Places /\ "truncate" \in Places
            BY DEF Places
        <3>2. \/ part[p] = "scan" /\ pc' = [pc EXCEPT ![p] = "done"] /\ part' = part
              \/ /\ part[p] # "scan" /\ pc' = [pc EXCEPT ![p] = "truncate"]
                 /\ part' = [part EXCEPT ![p] = After(part[p])]
            BY <1>12 DEF Fill, Goto
        <3>3. part[p] # "scan" => After(part[p]) \in Parts
            BY AfterType
        <3>4. pc \in [Processes -> Places] /\ part \in [Processes -> Parts]
            OBVIOUS
        <3>5. pc' \in [Processes -> Places]
            BY ONLY <3>1, <3>2, <3>4
        <3>6. part' \in [Processes -> Parts]
            BY ONLY <3>2, <3>3, <3>4
        <3> QED  BY <3>5, <3>6
    <2>2. /\ part[p] \in Dumps => c = result[p][part[p]]
          /\ part[p] = "deps" => c = stamps[p]
          /\ part[p] = "scan" => c = result[p]
        BY DEF Dumps
    <2>3. cache' = [cache EXCEPT ![key[p]][part[p]] = c]
        BY <1>12 DEF Fill
    <2> HIDE DEF c
    <2>4. /\ \A d \in Dumps : result[p][d] \in Stamped
          /\ stamps[p] \in Stamped /\ result[p] \in Parsed
        BY DEF Stamped, Parsed, Scans
    <2>5. (part[p] # "scan" => c \in Stamped) /\ (part[p] = "scan" => c \in Parsed)
        BY <2>2, <2>4 DEF Parts
    <2>6. key[p] \in Keys /\ part[p] \in Parts
        OBVIOUS
    <2>7. /\ cache' \in [Keys -> [Parts -> Stamped \cup Parsed]]
          /\ \A j \in Keys, r \in Dumps \cup {"deps"} : cache'[j][r] \in Stamped
          /\ \A j \in Keys : cache'[j]["scan"] \in Parsed
        BY <1>10, <2>3, <2>5, <2>6
    <2>8. memory' \in [Processes -> [Keys -> Scans \cup {None}]]
        BY <1>12 DEF Fill
    <2> QED  BY <1>12, <2>1, <2>7, <2>8 DEF Fill
<1>14. ASSUME NEW p \in Processes, Return(p)  PROVE Types'
    <2>1. pc' \in [Processes -> Places]
        BY <1>14 DEF Return, Goto, Places
    <2>2. memory' \in [Processes -> [Keys -> Scans \cup {None}]]
        <3>1. memory \in [Processes -> [Keys -> Scans \cup {None}]]
            OBVIOUS
        <3>2. memory' = memory \/ memory' = [memory EXCEPT ![p] = [k \in Keys |-> None]]
            BY <1>14 DEF Return
        <3> QED  BY <3>1, <3>2, Forgets, Zenon
    <2> QED  BY <1>14, <2>1, <2>2 DEF Return
<1>15. ASSUME NEW f \in Files, SaveHeader(f)  PROVE Types'
    <2>1. version' \in Versions /\ \A g \in Files : version'[g] \in {version[g], version[g] + 1}
        BY <1>15 DEF SaveHeader, Versions
    <2>2. saves' = saves + 1 /\ saves' \in Keys
        BY <1>15, HeaderCacheAssumption DEF SaveHeader, Keys
    <2>3. ASSUME NEW g \in Files  PROVE version'[g] \in 0 .. saves'
        <3>1. version[g] \in 0 .. saves /\ saves \in 0 .. MaxSaves /\ MaxSaves \in Nat
            BY HeaderCacheAssumption DEF Keys
        <3> QED  BY <2>1, <2>2, <3>1
    <2> QED  BY <1>15, <2>1, <2>2, <2>3 DEF SaveHeader
<1>16. ASSUME NEW p \in Processes, Kill(p)  PROVE Types'
    <2>1. pc' \in [Processes -> Places]
        BY <1>16 DEF Kill, Goto, Places
    <2>2. memory' \in [Processes -> [Keys -> Scans \cup {None}]]
        <3>1. memory \in [Processes -> [Keys -> Scans \cup {None}]]
            OBVIOUS
        <3>2. memory' = [memory EXCEPT ![p] = [k \in Keys |-> None]]
            BY <1>16 DEF Kill
        <3> QED  BY <3>1, <3>2, Forgets, Zenon
    <2> QED  BY <1>16, <2>1, <2>2 DEF Kill
<1>17. ASSUME Clean  PROVE Types'
    <2>1. Absent \in Stamped /\ Absent \in Parsed
        BY DEF Stamped, Parsed
    <2>2. /\ cache' \in [Keys -> [Parts -> Stamped \cup Parsed]]
          /\ \A j \in Keys, r \in Dumps \cup {"deps"} : cache'[j][r] \in Stamped
          /\ \A j \in Keys : cache'[j]["scan"] \in Parsed
        BY <1>17, <2>1 DEF Clean, Dumps
    <2> QED  BY <1>17, <2>2 DEF Clean
<1>18. ASSUME UNCHANGED vars  PROVE Types'
    BY <1>18 DEF vars
<1> QED  BY <1>1, <1>2, <1>3, <1>4, <1>6, <1>7, <1>8, <1>9, <1>11, <1>12, <1>14, <1>15, <1>16,
            <1>17, <1>18, StepCases, Zenon

\* What is counted or remembered stays in its bounds.
LEMMA HistoryStep ==
    ASSUME Types, History, [Next]_vars
    PROVE  History'
<1> USE HeaderCacheAssumption DEF History, locals, bounds
<1>1. ASSUME NEW p \in Processes, Begin(p)  PROVE History'
    <2>1. since' \in [Processes -> Versions]
        BY <1>1 DEF Begin, Types
    <2>2. calls' \in 0 .. MaxCalls
        BY <1>1 DEF Begin
    <2> QED  BY <1>1, <2>1, <2>2 DEF Begin
<1>2. ASSUME NEW p \in Processes, Return(p)  PROVE History'
    BY <1>2 DEF Return
<1>3. ASSUME NEW p \in Processes, Kill(p)  PROVE History'
    <2>1. faults' \in 0 .. MaxFaults
        BY <1>3 DEF Kill
    <2> QED  BY <1>3, <2>1 DEF Kill
<1>4. ASSUME Clean  PROVE History'
    <2>1. faults' \in 0 .. MaxFaults
        BY <1>4 DEF Clean
    <2> QED  BY <1>4, <2>1 DEF Clean
<1>5. ASSUME NEW f \in Files, SaveHeader(f)  PROVE History'
    BY <1>5 DEF SaveHeader
<1>6. ASSUME UNCHANGED <<since, bounds>>  PROVE History'
    BY <1>6
<1>7. \A p \in Processes : LoadRaw(p) => UNCHANGED <<since, bounds>>
    BY DEF LoadRaw
<1>8. \A p \in Processes : LoadScan(p) => UNCHANGED <<since, bounds>>
    BY DEF LoadScan
<1>9. \A p \in Processes : LoadPayload(p) => UNCHANGED <<since, bounds>>
    BY DEF LoadPayload
<1>10. \A p \in Processes : PassIdentities(p) => UNCHANGED <<since, bounds>>
    BY DEF PassIdentities, Pass
<1>11. \A p \in Processes : PassAst(p) => UNCHANGED <<since, bounds>>
    BY DEF PassAst, Pass
<1>12. \A p \in Processes : PassMacros(p) => UNCHANGED <<since, bounds>>
    BY DEF PassMacros
<1>13. \A p \in Processes : Fail(p) => UNCHANGED <<since, bounds>>
    BY DEF Fail
<1>14. \A p \in Processes : Truncate(p) => UNCHANGED <<since, bounds>>
    BY DEF Truncate
<1>15. \A p \in Processes : Fill(p) => UNCHANGED <<since, bounds>>
    BY DEF Fill
<1>16. UNCHANGED vars => UNCHANGED <<since, bounds>>
    BY DEF vars
<1> HIDE HeaderCacheAssumption DEF History, locals, bounds
<1> QED  BY <1>1, <1>2, <1>3, <1>4, <1>5, <1>6, <1>7, <1>8, <1>9, <1>10, <1>11, <1>12, <1>13,
            <1>14, <1>15, <1>16, StepCases, Zenon

\* A step of a process leaves the headers and the other processes alone.
LEMMA FrameStep ==
    ASSUME Types, NEW p \in Processes, Begin(p) \/ Step(p) \/ Kill(p)
    PROVE  Frame(p)
<1> USE DEF Types, Frame, Goto, locals, bounds
<1>1. CASE Begin(p)
    BY <1>1 DEF Begin
<1>2. CASE LoadRaw(p)
    BY <1>2 DEF LoadRaw
<1>3. CASE LoadScan(p)
    BY <1>3 DEF LoadScan
<1>4. CASE LoadPayload(p)
    BY <1>4 DEF LoadPayload
<1>5. CASE PassIdentities(p)
    BY <1>5 DEF PassIdentities, Pass
<1>6. CASE PassAst(p)
    BY <1>6 DEF PassAst, Pass
<1>7. CASE PassMacros(p)
    BY <1>7 DEF PassMacros
<1>8. CASE Fail(p)
    BY <1>8 DEF Fail
<1>9. CASE Truncate(p)
    BY <1>9 DEF Truncate
<1>10. CASE Fill(p)
    BY <1>10 DEF Fill
<1>11. CASE Return(p)
    BY <1>11 DEF Return
<1>12. CASE Kill(p)
    BY <1>12 DEF Kill
<1> QED  BY <1>1, <1>2, <1>3, <1>4, <1>5, <1>6, <1>7, <1>8, <1>9, <1>10, <1>11, <1>12 DEF Step

\* Keys, stamps and the stamps on disk fall behind the headers, never the
\* other way round.
LEMMA PastStep ==
    ASSUME Types, Past, [Next]_vars
    PROVE  Past'
<1> DEFINE Kept == UNCHANGED <<version, cache, key, stamps>>
<1>1. ASSUME Kept  PROVE Past'
    BY <1>1 DEF Past
<1>2. ASSUME NEW p \in Processes, Begin(p)  PROVE Past'
    <2>1. \A q \in Processes : key'[q] = key[q] \/ key'[q] = version[Direct]
        BY <1>2 DEF Begin, Types
    <2>2. version[Direct] \in Nat /\ UNCHANGED <<version, cache, stamps>>
        BY <1>2, Initially DEF Begin, Types, Versions
    <2> QED  BY <2>1, <2>2 DEF Past
<1>3. ASSUME NEW p \in Processes, Truncate(p)  PROVE Past'
    <2>1. \A q \in Processes : stamps'[q] = stamps[q] \/ stamps'[q] = version
        BY <1>3 DEF Truncate, Types
    <2>2. \A k \in Keys : cache'[k]["deps"] = cache[k]["deps"] \/ cache'[k]["deps"] = Empty
        BY <1>3, Initially DEF Truncate, Types
    <2>3. (\A f \in Files : version[f] \in Nat) /\ UNCHANGED <<version, key>>
        BY <1>3 DEF Truncate, Types, Versions
    <2> QED  BY <2>1, <2>2, <2>3, Marks DEF Past
<1>4. ASSUME NEW p \in Processes, Fill(p)  PROVE Past'
    <2>1. \A k \in Keys : cache'[k]["deps"] = cache[k]["deps"] \/ cache'[k]["deps"] = stamps[p]
        <3>1. "deps" \in Parts /\ "deps" \notin Dumps
            BY DEF Parts, Dumps
        <3> QED  BY <1>4, <3>1 DEF Fill, Types
    <2>2. UNCHANGED <<version, key, stamps>>
        BY <1>4 DEF Fill
    <2> QED  BY <2>1, <2>2 DEF Past
<1>5. ASSUME NEW f \in Files, SaveHeader(f)  PROVE Past'
    <2>1. /\ \A g \in Files : version'[g] \in {version[g], version[g] + 1}
          /\ UNCHANGED <<cache, key, stamps>>
        BY <1>5 DEF SaveHeader, Types, Versions, locals
    <2>2. \A g \in Files : version[g] \in Nat
        BY DEF Types, Versions
    <2>3. \A p \in Processes : key[p] \in Nat /\ \A g \in Files : stamps[p][g] \in Nat
        BY DEF Types, Versions, Keys
    <2>4. \A k \in Keys, g \in Files : cache[k]["deps"] \in Versions => cache[k]["deps"][g] \in Nat
        BY DEF Versions
    <2>5. \A p \in Processes : key'[p] <= version'[Direct]
        BY <2>1, <2>2, <2>3, Initially DEF Past
    <2>6. \A p \in Processes, g \in Files : stamps'[p][g] <= version'[g]
        BY <2>1, <2>2, <2>3 DEF Past
    <2>7. \A k \in Keys, g \in Files :
              cache'[k]["deps"] \in Versions => cache'[k]["deps"][g] <= version'[g]
        BY <2>1, <2>2, <2>4 DEF Past
    <2> QED  BY <2>5, <2>6, <2>7 DEF Past
<1>6. ASSUME Clean  PROVE Past'
    BY <1>6, Marks, Initially DEF Clean, Past, locals
<1>7. \A p \in Processes : LoadRaw(p) => Kept
    BY DEF LoadRaw
<1>8. \A p \in Processes : LoadScan(p) => Kept
    BY DEF LoadScan
<1>9. \A p \in Processes : LoadPayload(p) => Kept
    BY DEF LoadPayload
<1>10. \A p \in Processes : PassIdentities(p) => Kept
    BY DEF PassIdentities, Pass
<1>11. \A p \in Processes : PassAst(p) => Kept
    BY DEF PassAst, Pass
<1>12. \A p \in Processes : PassMacros(p) => Kept
    BY DEF PassMacros
<1>13. \A p \in Processes : Fail(p) => Kept
    BY DEF Fail, locals
<1>14. \A p \in Processes : Return(p) => Kept
    BY DEF Return, locals
<1>15. \A p \in Processes : Kill(p) => Kept
    BY DEF Kill, locals
<1>16. UNCHANGED vars => Kept
    BY DEF vars, locals
<1> QED  BY <1>1, <1>2, <1>3, <1>4, <1>5, <1>6, <1>7, <1>8, <1>9, <1>10, <1>11, <1>12, <1>13,
            <1>14, <1>15, <1>16, StepCases, Zenon

\* Unless calls overlap, all processes but one are idle.
LEMMA AloneStep ==
    ASSUME Types, Alone, [Next]_vars
    PROVE  Alone'
<1> DEFINE Only(p) == /\ Frame(p)
                      /\ scenario.overlap \/ \A q \in Processes : q # p => Idle(q)
<1>1. ASSUME NEW p \in Processes, Only(p)  PROVE Alone'
    BY <1>1 DEF Alone, Frame, Idle
<1>2. ASSUME NEW p \in Processes, Begin(p)  PROVE Only(p)
    BY <1>2, FrameStep DEF Begin
<1>3. ASSUME NEW p \in Processes, Step(p)  PROVE ~Idle(p)
    BY <1>3 DEF Step, LoadRaw, LoadScan, LoadPayload, PassIdentities, PassAst, Pass, PassMacros,
       Fail, Truncate, Fill, Return, Idle
<1>4. ASSUME NEW p \in Processes, Step(p)  PROVE Alone'
    BY <1>1, <1>3, <1>4, FrameStep DEF Alone
<1>5. ASSUME NEW p \in Processes, Kill(p)  PROVE Alone'
    <2>1. Frame(p) /\ Idle(p)'
        BY <1>5, FrameStep DEF Kill, Goto, Idle, Types
    <2> QED  BY <2>1 DEF Alone, Frame, Idle
<1>6. ASSUME UNCHANGED <<pc, scenario>>  PROVE Alone'
    BY <1>6 DEF Alone, Idle
<1>7. CASE \E f \in Files : SaveHeader(f)
    BY <1>6, <1>7 DEF SaveHeader
<1>8. CASE Clean
    BY <1>6, <1>8 DEF Clean
<1>9. CASE Finished \/ UNCHANGED vars
    BY <1>6, <1>9 DEF Finished, vars, bounds
<1> QED  BY <1>1, <1>2, <1>4, <1>5, <1>7, <1>8, <1>9 DEF Next

-----------------------------------------------------------------------------
\* A good dump stays good while no header is saved and whoever writes it writes on.
LEMMA GoodStays ==
    ASSUME NEW k \in Keys, NEW d \in Dumps, Good(k, d),
           version' = version, cache'[k][d] = cache[k][d],
           \A p \in Processes : (pc[p] = "fill" /\ key[p] = k /\ part[p] = d) =>
                pc'[p] = "fill" /\ key'[p] = k /\ part'[p] = d
    PROVE  Good(k, d)'
BY DEF Good

\* The other processes stay sound.
LEMMA OthersStaySound ==
    ASSUME Types, NEW p \in Processes, NEW q \in Processes, q # p, Frame(p), Sound(q),
           \A k \in Keys, d \in Dumps : (k = version[Direct] /\ Good(k, d)) => Good(k, d)',
           scenario.overlap \/ Idle(q) \/ cache' = cache
    PROVE  Sound(q)'
<1>1. /\ version' = version /\ scenario' = scenario
      /\ pc'[q] = pc[q] /\ key'[q] = key[q] /\ result'[q] = result[q]
      /\ stamps'[q] = stamps[q] /\ part'[q] = part[q]
    BY DEF Frame
<1>2. CASE key[q] # version[Direct]
    BY <1>1, <1>2 DEF Sound
<1>3. CASE key[q] = version[Direct]
    <2> PICK k \in Keys : k = key[q]
        BY DEF Types
    <2>1. \A d \in Done(part[q]) : d \in Dumps
        BY DEF Done, Dumps
    <2>2. Storing(q) => \A d \in Done(part[q]) : Good(k, d)
        BY <1>3 DEF Sound
    <2>3. Storing(q) => \A d \in Done(part[q]) : Good(k, d)'
        BY <1>3, <2>1, <2>2
    <2>4. k = key'[q] /\ Storing(q)' = Storing(q) /\ Done(part[q])' = Done(part[q])
        BY <1>1 DEF Storing, Done
    <2>5. (Scanning(q) \/ Storing(q))' => (scenario.overlap \/ cache[key[q]]["deps"] # version)'
        BY <1>1, <1>3 DEF Sound, Scanning, Storing, Idle
    <2>6. (Storing(q) => \A d \in Done(part[q]) : Good(key[q], d))'
        BY <2>3, <2>4 DEF Good
    <2> QED  BY <1>1, <1>3, <2>5, <2>6 DEF Sound, Storing
<1> QED  BY <1>2, <1>3

\* Steps that write no dump.
LEMMA QuietSteps ==
    ASSUME NEW p \in Processes, Begin(p) \/ Step(p)
    PROVE  \/ cache' = cache /\ pc[p] # "fill"
           \/ Truncate(p)
           \/ Fill(p)
<1> USE DEF locals, bounds
<1>1. CASE Begin(p)
    BY <1>1 DEF Begin, Idle
<1>2. CASE LoadRaw(p)
    BY <1>2 DEF LoadRaw
<1>3. CASE LoadScan(p)
    BY <1>3 DEF LoadScan
<1>4. CASE LoadPayload(p)
    BY <1>4 DEF LoadPayload
<1>5. CASE PassIdentities(p) \/ PassAst(p)
    BY <1>5 DEF PassIdentities, PassAst, Pass
<1>6. CASE PassMacros(p)
    BY <1>6 DEF PassMacros
<1>7. CASE Fail(p)
    BY <1>7 DEF Fail
<1>8. CASE Return(p)
    BY <1>8 DEF Return
<1> QED  BY <1>1, <1>2, <1>3, <1>4, <1>5, <1>6, <1>7, <1>8 DEF Step

\* Good dumps stay good whatever processes write.
LEMMA GoodStep ==
    ASSUME Types, NEW p \in Processes, Sound(p), Begin(p) \/ Step(p),
           NEW k \in Keys, NEW d \in Dumps, k = version[Direct], Good(k, d)
    PROVE  Good(k, d)'
<1>1. Frame(p)
    BY FrameStep
<1>2. ASSUME cache'[k][d] = cache[k][d], pc[p] = "fill" => ~(key[p] = k /\ part[p] = d)
      PROVE  Good(k, d)'
    <2>1. \A q \in Processes : (pc[q] = "fill" /\ key[q] = k /\ part[q] = d) =>
              pc'[q] = "fill" /\ key'[q] = k /\ part'[q] = d
        BY <1>1, <1>2 DEF Frame
    <2> QED  BY <1>1, <1>2, <2>1, GoodStays DEF Frame
<1>3. CASE cache' = cache /\ pc[p] # "fill"
    BY <1>2, <1>3
<1>4. d \in Parts /\ d # "scan" /\ d # "deps"
    BY DEF Parts, Dumps
<1>5. CASE Truncate(p)
    <2>1. CASE key[p] = k /\ part[p] = d
        <3>1. cache'[k][d] = Empty
            BY <1>4, <1>5, <2>1 DEF Truncate, Types
        <3>2. pc'[p] = "fill" /\ key'[p] = k /\ part'[p] = d
            BY <1>5, <2>1 DEF Truncate, Goto, Types
        <3> QED  BY <3>1, <3>2 DEF Good
    <2>2. CASE ~(key[p] = k /\ part[p] = d)
        <3>1. cache'[k][d] = cache[k][d]
            BY <1>4, <1>5, <2>2 DEF Truncate, Types
        <3> QED  BY <1>2, <2>2, <3>1
    <2> QED  BY <2>1, <2>2
<1>6. CASE Fill(p)
    <2>1. CASE key[p] = k /\ part[p] = d
        <3>1. result[p][d] = version
            BY <1>4, <1>6, <2>1 DEF Sound, Storing, Fill
        <3>2. cache'[k][d] = version
            BY <1>4, <1>6, <2>1, <3>1 DEF Fill, Types
        <3> QED  BY <1>1, <3>2 DEF Good, Frame
    <2>2. CASE ~(key[p] = k /\ part[p] = d)
        <3>1. cache'[k][d] = cache[k][d]
            BY <1>4, <1>6, <2>2 DEF Fill, Types
        <3> QED  BY <1>2, <2>2, <3>1
    <2> QED  BY <2>1, <2>2
<1> QED  BY <1>3, <1>5, <1>6, QuietSteps

\* Stamps on disk become current only when a process writes those it has taken.
LEMMA StampsStep ==
    ASSUME Types, NEW p \in Processes, Begin(p) \/ Step(p), NEW k \in Keys
    PROVE  \/ cache'[k]["deps"] = cache[k]["deps"]
           \/ cache'[k]["deps"] = Empty
           \/ Fill(p) /\ part[p] = "deps" /\ key[p] = k /\ cache'[k]["deps"] = stamps[p]
<1>1. "deps" \in Parts /\ "deps" \notin Dumps
    BY DEF Parts, Dumps
<1>2. CASE cache' = cache
    BY <1>2
<1>3. CASE Truncate(p)
    BY <1>1, <1>3 DEF Truncate, Types
<1>4. CASE Fill(p)
    BY <1>1, <1>4 DEF Fill, Types
<1> QED  BY <1>2, <1>3, <1>4, QuietSteps

\* When a process has written its stamps, its dumps are good.
LEMMA WholeStep ==
    ASSUME Types, Whole, NEW p \in Processes, Sound(p), Begin(p) \/ Step(p)
    PROVE  Whole'
<1>1. version' = version
    BY FrameStep DEF Frame
<1>2. SUFFICES ASSUME NEW k \in Keys, NEW d \in Dumps, k = version[Direct],
                      cache'[k]["deps"] = version
               PROVE  Good(k, d)'
    BY <1>1 DEF Whole
<1>3. CASE cache[k]["deps"] = version
    BY <1>2, <1>3, GoodStep DEF Whole
<1>4. CASE Fill(p) /\ part[p] = "deps" /\ key[p] = k
    <2>1. Storing(p) /\ d \in Done(part[p])
        BY <1>4 DEF Fill, Storing, Done
    <2>2. Good(k, d)
        BY <1>2, <1>4, <2>1 DEF Sound
    <2> QED  BY <1>2, <2>2, GoodStep
<1>5. version # Empty
    BY Marks DEF Types
<1> QED  BY <1>2, <1>3, <1>4, <1>5, StampsStep

\* Who is alone and finds current stamps finds whole dumps.
LEMMA AloneFindsWhole ==
    ASSUME Types, Whole, Alone, ~scenario.overlap,
           NEW p \in Processes, pc[p] \notin {"idle", "fill"},
           NEW k \in Keys, k = version[Direct], cache[k]["deps"] = version
    PROVE  \A d \in Dumps : cache[k][d] = version
<1>1. \A q \in Processes : pc[q] # "fill"
    BY DEF Alone, Idle
<1> QED  BY <1>1 DEF Whole, Good

\* What is written is good.
LEMMA FillDoes ==
    ASSUME Types, NEW p \in Processes, Sound(p), Fill(p), part[p] \in Dumps,
           key[p] = version[Direct]
    PROVE  cache'[key[p]][part[p]] = version
<1>1. result[p][part[p]] = version
    BY DEF Sound, Fill, Storing, Dumps
<1>2. key[p] \in Keys /\ part[p] \in Parts /\ cache \in [Keys -> [Parts -> Stamped \cup Parsed]]
    BY DEF Types
<1>3. cache' = [cache EXCEPT ![key[p]][part[p]] = result[p][part[p]]]
    BY DEF Fill, Dumps
<1> QED  BY <1>1, <1>2, <1>3

\* What a step of a process leaves of its own state, unless it starts to scan or store.
LEMMA OwnStep ==
    ASSUME Types, Past, Whole, Alone, NEW p \in Processes, Sound(p), Begin(p) \/ Step(p)
    PROVE  Sound(p)'
<1> USE DEF locals, bounds
<1>0. /\ version' = version /\ version \in Versions /\ scenario' = scenario
      /\ version # Absent /\ version # Empty
    BY FrameStep, Marks DEF Frame, Types
<1>1. ASSUME pc'[p] \in {"idle", "raw", "scan", "payload", "done"}  PROVE Sound(p)'
    BY <1>1 DEF Sound, Scanning, Storing
<1>2. ASSUME UNCHANGED <<cache, key>>, pc'[p] = "identities", pc[p] \notin {"idle", "fill"},
             ~scenario.overlap => \/ cache[key[p]]["deps"] # version
                                  \/ \E d \in Dumps : cache[key[p]][d] # version
      PROVE  Sound(p)'
    <2> SUFFICES ASSUME key[p] = version[Direct]
                 PROVE  scenario.overlap \/ cache[key[p]]["deps"] # version
        BY <1>0, <1>2 DEF Sound, Scanning, Storing
    <2>1. key[p] \in Keys
        BY DEF Types
    <2> QED  BY <1>2, <2>1, AloneFindsWhole
<1>3. CASE Begin(p)
    BY <1>1, <1>3 DEF Begin, Goto, Types
<1>4. CASE LoadRaw(p)
    <2>1. /\ UNCHANGED <<cache, key>> /\ pc[p] = "raw"
          /\ pc'[p] \in {"done", "scan"} \/ (pc'[p] = "identities" /\ ~RawHit(key[p]))
        BY <1>4 DEF LoadRaw, Goto, Types
    <2>2. ~RawHit(key[p]) => \/ cache[key[p]]["deps"] # version
                             \/ \E d \in Dumps : cache[key[p]][d] # version
        BY <1>0 DEF RawHit
    <2> QED  BY <1>1, <1>2, <2>1, <2>2
<1>5. CASE LoadScan(p)
    <2>1. pc'[p] \in {"done", "payload"}
        BY <1>5 DEF LoadScan, Goto, Types
    <2> QED  BY <1>1, <2>1
<1>6. CASE LoadPayload(p)
    <2>1. /\ UNCHANGED <<cache, key>> /\ pc[p] = "payload"
          /\ \/ pc'[p] = "truncate" /\ part'[p] = "scan"
             \/ /\ pc'[p] = "identities"
                /\ \E d \in Dumps : cache[key[p]][d] \in {Absent, Empty}
        <3>1. "ast" \in Dumps /\ "macros" \in Dumps
            BY DEF Dumps
        <3> QED  BY <1>6, <3>1 DEF LoadPayload, Goto, Types
    <2>2. CASE pc'[p] = "truncate" /\ part'[p] = "scan"
        BY <2>2 DEF Sound, Scanning, Storing
    <2>3. CASE pc'[p] = "identities" /\ \E d \in Dumps : cache[key[p]][d] \in {Absent, Empty}
        BY <1>0, <1>2, <2>1, <2>3
    <2> QED  BY <2>1, <2>2, <2>3
<1>7. CASE PassIdentities(p)
    <2>1. /\ UNCHANGED <<cache, key>> /\ pc[p] = "identities" /\ pc'[p] = "ast"
          /\ result'[p]["identities"] = version
        BY <1>7 DEF PassIdentities, Pass, Goto, Types, Scans, Dumps
    <2> QED  BY <1>0, <2>1 DEF Sound, Scanning, Storing
<1>8. CASE PassAst(p)
    <2>1. /\ UNCHANGED <<cache, key>> /\ pc[p] = "ast" /\ pc'[p] = "macros"
          /\ result'[p]["ast"] = version /\ result'[p]["identities"] = result[p]["identities"]
        BY <1>8 DEF PassAst, Pass, Goto, Types, Scans, Dumps
    <2> QED  BY <1>0, <2>1 DEF Sound, Scanning, Storing
<1>9. CASE PassMacros(p)
    <2>1. /\ UNCHANGED <<cache, key>> /\ pc[p] = "macros"
          /\ pc'[p] = "done" \/ (pc'[p] = "truncate" /\ part'[p] = "ast")
        BY <1>9, Orders DEF PassMacros, Goto, Types
    <2>2. /\ result'[p]["macros"] = version /\ result'[p]["ast"] = result[p]["ast"]
          /\ result'[p]["identities"] = result[p]["identities"]
        BY <1>9 DEF PassMacros, Types, Scans, Dumps
    <2>3. CASE pc'[p] = "truncate" /\ part'[p] = "ast"
        <3>1. Done("ast") = {}
            BY DEF Done
        <3>2. Done(part[p])' = {}
            BY <2>3, <3>1
        <3> QED  BY <1>0, <2>1, <2>2, <2>3, <3>2 DEF Sound, Scanning, Storing, Dumps
    <2> QED  BY <1>1, <2>1, <2>3
<1>10. CASE Fail(p)
    BY <1>1, <1>10 DEF Fail, Goto, Types
<1>11. CASE Truncate(p)
    <2>1. /\ pc[p] = "truncate" /\ pc'[p] = "fill" /\ UNCHANGED <<key, part, result>>
          /\ part[p] = "deps" => stamps'[p] = version
        BY <1>11 DEF Truncate, Goto, Types
    <2> SUFFICES ASSUME key[p] = version[Direct], Storing(p)
                 PROVE  Sound(p)'
        BY <1>0, <2>1 DEF Sound, Scanning, Storing
    <2> PICK k \in Keys : k = key[p]
        BY DEF Types
    <2>2. \A d \in Done(part[p]) : d \in Dumps /\ Good(k, d)
        BY DEF Sound, Done, Dumps
    <2>3. \A d \in Done(part[p]) : Good(k, d)'
        BY <2>2, GoodStep
    <2>4. k = key'[p] /\ Done(part[p])' = Done(part[p])
        BY <2>1 DEF Done
    <2>5. \A d \in Done(part[p])' : Good(key[p], d)'
        BY <2>3, <2>4 DEF Good
    <2>6. cache'[k]["deps"] = cache[k]["deps"] \/ cache'[k]["deps"] = Empty
        BY <1>11, <2>1, StampsStep DEF Fill
    <2>7. scenario.overlap \/ cache'[key'[p]]["deps"] # version
        BY <1>0, <2>4, <2>6 DEF Sound
    <2> QED  BY <1>0, <2>1, <2>5, <2>7 DEF Sound, Storing
<1>12. CASE Fill(p)
    <2>1. /\ pc[p] = "fill" /\ UNCHANGED <<key, result>>
          /\ \/ part[p] = "scan" /\ pc'[p] = "done"
             \/ part[p] # "scan" /\ pc'[p] = "truncate" /\ part'[p] = After(part[p])
        BY <1>12 DEF Fill, Goto, Types
    <2>2. CASE part[p] = "scan"
        BY <1>1, <2>1, <2>2
    <2>3. CASE part[p] = "deps"
        BY <2>1, <2>3, Orders DEF Sound, Scanning, Storing
    <2>4. CASE part[p] \in Dumps
        <3>1. part[p] \notin {"scan", "deps"}
            BY <2>4 DEF Dumps
        <3> SUFFICES ASSUME key[p] = version[Direct]
                     PROVE  Sound(p)'
            BY <1>0, <2>1, <3>1 DEF Sound
        <3>2. Storing(p)
            BY <2>1, <3>1 DEF Storing
        <3> PICK k \in Keys : k = key[p]
            BY DEF Types
        <3>3. Done(After(part[p])) = Done(part[p]) \cup {part[p]}
            BY <2>4, Orders DEF Done, Dumps
        <3>4. \A d \in Done(part[p]) : d \in Dumps /\ Good(k, d)
            BY <3>2 DEF Sound, Done, Dumps
        <3>5. \A d \in Done(part[p]) : Good(k, d)'
            BY <3>4, GoodStep
        <3>6. cache'[k][part[p]] = version'
            BY <1>0, <1>12, <2>4, FillDoes
        <3>7. k = key'[p] /\ Done(part[p])' = Done(part[p]) \cup {part[p]}
            BY <2>1, <3>1, <3>3 DEF Done
        <3>8. \A d \in Done(part[p])' : Good(key[p], d)'
            BY <3>5, <3>6, <3>7 DEF Good
        <3>9. cache'[k]["deps"] = cache[k]["deps"] \/ cache'[k]["deps"] = Empty
            BY <3>1, StampsStep
        <3>10. scenario.overlap \/ cache'[key'[p]]["deps"] # version
            BY <1>0, <3>2, <3>7, <3>9 DEF Sound
        <3> QED  BY <1>0, <2>1, <3>1, <3>2, <3>8, <3>10 DEF Sound, Storing
    <2> QED  BY <2>2, <2>3, <2>4 DEF Types, Parts
<1>13. CASE Return(p)
    BY <1>1, <1>13 DEF Return, Goto, Types
<1> QED  BY <1>3, <1>4, <1>5, <1>6, <1>7, <1>8, <1>9, <1>10, <1>11, <1>12, <1>13 DEF Step

-----------------------------------------------------------------------------
\* Everything that the theorem about stamps rests on.
Inv ==
    /\ Types /\ Past /\ Whole /\ Alone
    /\ \A p \in Processes : Sound(p)
    /\ scenario \in Scenarios

\* A step of a process that is not killed.
LEMMA WorkStep ==
    ASSUME Inv, NEW p \in Processes, Begin(p) \/ Step(p)
    PROVE  Whole' /\ \A q \in Processes : Sound(q)'
<1>1. Whole'
    BY WholeStep DEF Inv
<1>2. Frame(p)
    BY FrameStep DEF Inv
<1>3. \A k \in Keys, d \in Dumps : (k = version[Direct] /\ Good(k, d)) => Good(k, d)'
    BY GoodStep DEF Inv
<1>4. Step(p) => ~Idle(p)
    BY DEF Step, LoadRaw, LoadScan, LoadPayload, PassIdentities, PassAst, Pass, PassMacros,
       Fail, Truncate, Fill, Return, Idle
<1>5. \A q \in Processes : q # p => scenario.overlap \/ Idle(q)
    BY <1>4 DEF Begin, Inv, Alone
<1>6. ASSUME NEW q \in Processes, q # p  PROVE Sound(q)'
    BY <1>2, <1>3, <1>5, <1>6, OthersStaySound DEF Inv
<1>7. Sound(p)'
    BY OwnStep DEF Inv
<1> QED  BY <1>1, <1>6, <1>7

\* A process that is killed was alone, and its stamps were not there yet.
LEMMA KillStep ==
    ASSUME Inv, Calm(scenario), NEW p \in Processes, Kill(p)
    PROVE  Whole' /\ \A q \in Processes : Sound(q)'
<1>1. ~scenario.overlap /\ scenario.kill
    BY DEF Kill, Calm
<1>2. /\ version' = version /\ cache' = cache /\ UNCHANGED <<key, part>>
      /\ \A q \in Processes : pc'[q] = IF q = p THEN "idle" ELSE pc[q]
    BY DEF Kill, Goto, Inv, Types, locals
<1>3. CASE Idle(p)
    <2>1. pc' = pc
        BY <1>2, <1>3 DEF Idle, Inv, Types, Kill, Goto
    <2>2. UNCHANGED <<result, stamps, scenario>>
        BY DEF Kill, locals
    <2>3. Whole'
        BY <1>2, <2>1 DEF Inv, Whole, Good
    <2>4. ASSUME NEW q \in Processes  PROVE Sound(q)'
        BY <1>2, <2>1, <2>2 DEF Inv, Sound, Scanning, Storing, Done, Good
    <2> QED  BY <2>3, <2>4
<1>4. CASE ~Idle(p)
    <2>1. \A q \in Processes : pc'[q] = "idle"
        BY <1>1, <1>2, <1>4 DEF Inv, Alone, Idle
    <2>2. \A q \in Processes : Sound(q)'
        BY <2>1 DEF Sound, Scanning, Storing
    <2>3. SUFFICES ASSUME NEW k \in Keys, NEW d \in Dumps, k = version[Direct],
                          cache[k]["deps"] = version
                   PROVE  cache[k][d] = version
        BY <1>2, <2>2 DEF Whole, Good
    <2>4. Good(k, d)
        BY <2>3 DEF Inv, Whole
    <2>5. \A q \in Processes : ~(pc[q] = "fill" /\ key[q] = k /\ part[q] = d)
        BY <1>1, <2>3 DEF Inv, Sound, Storing, Dumps
    <2> QED  BY <2>4, <2>5 DEF Good
<1> QED  BY <1>3, <1>4

\* After a save no stamps are current: those of before are behind.
LEMMA SaveStep ==
    ASSUME Inv, Calm(scenario), NEW f \in Files, SaveHeader(f)
    PROVE  Whole' /\ \A q \in Processes : Sound(q)'
<1>1. /\ version' = [version EXCEPT ![f] = @ + 1]
      /\ UNCHANGED <<cache, pc, key, result, stamps, part, scenario>>
    BY DEF SaveHeader, locals
<1>2. version'[f] = version[f] + 1 /\ version[f] \in Nat /\ version' \in Versions
    BY <1>1 DEF Inv, Types, Versions
<1>3. ASSUME NEW k \in Keys, cache[k]["deps"] = version'  PROVE FALSE
    BY <1>2, <1>3 DEF Inv, Past
<1>4. ASSUME \A p \in Processes : Idle(p)  PROVE \A q \in Processes : Sound(q)'
    BY <1>1, <1>4 DEF Idle, Sound, Scanning, Storing
<1>5. ASSUME f = Direct, NEW q \in Processes  PROVE Sound(q)'
    <2>1. key[q] \in Nat /\ key[q] <= version[Direct] /\ version[Direct] \in Nat
        BY <1>2, <1>5 DEF Inv, Types, Past, Keys
    <2>2. key'[q] # version'[Direct]
        BY <1>1, <1>2, <1>5, <2>1
    <2> QED  BY <2>2 DEF Sound
<1>6. Whole'
    BY <1>1, <1>3 DEF Whole
<1>7. (\A p \in Processes : Idle(p)) \/ f = Direct
    BY DEF SaveHeader, Calm
<1> QED  BY <1>4, <1>5, <1>6, <1>7

\* After cleaning there are no stamps, and nobody is at work.
LEMMA CleanStep ==
    ASSUME Inv, Clean
    PROVE  Whole' /\ \A q \in Processes : Sound(q)'
<1>1. \A k \in Keys : cache'[k]["deps"] = Absent
    BY Initially DEF Clean
<1>2. version' = version /\ version # Absent /\ UNCHANGED pc
    BY Marks DEF Clean, Inv, Types
<1>3. Whole'
    BY <1>1, <1>2 DEF Whole
<1>4. \A q \in Processes : Sound(q)'
    BY <1>2 DEF Clean, Idle, Sound, Scanning, Storing
<1> QED  BY <1>3, <1>4

\* A step in which nothing happens.
LEMMA StutterStep ==
    ASSUME Inv, UNCHANGED vars
    PROVE  Whole' /\ \A q \in Processes : Sound(q)'
<1>1. UNCHANGED <<version, cache, pc, key, result, stamps, part, scenario>>
    BY DEF vars, locals, bounds
<1>2. Whole'
    BY <1>1 DEF Inv, Whole, Good
<1>3. ASSUME NEW q \in Processes  PROVE Sound(q)'
    BY <1>1 DEF Inv, Sound, Scanning, Storing, Done, Good
<1> QED  BY <1>2, <1>3

\* Every step keeps all of it.
LEMMA InvStep ==
    ASSUME Inv, History, \A s \in Scenarios : Calm(s), [Next]_vars
    PROVE  Inv'
<1>1. Types' /\ Past' /\ Alone' /\ scenario' \in Scenarios
    BY TypesStep, PastStep, AloneStep, HistoryStep DEF Inv, History
<1>2. Calm(scenario)
    BY DEF Inv
<1> DEFINE Kept == Whole' /\ \A q \in Processes : Sound(q)'
<1>3. ASSUME NEW p \in Processes, Begin(p) \/ Step(p)  PROVE Kept
    BY <1>3, WorkStep DEF Inv
<1>4. ASSUME NEW p \in Processes, Kill(p)  PROVE Kept
    BY <1>2, <1>4, KillStep
<1>5. ASSUME NEW f \in Files, SaveHeader(f)  PROVE Kept
    BY <1>2, <1>5, SaveStep
<1>6. ASSUME Clean  PROVE Kept
    BY <1>6, CleanStep
<1>7. ASSUME Finished \/ UNCHANGED vars  PROVE Kept
    BY <1>7, StutterStep DEF Finished
<1> HIDE DEF Kept
<1>8. Kept
    BY <1>3, <1>4, <1>5, <1>6, <1>7 DEF Next
<1> QED  BY <1>1, <1>8 DEF Inv, Kept

\* It holds at the start.
LEMMA InvInit ==
    ASSUME Init
    PROVE  Inv /\ History
<1>1. Types
    <2>1. version = Blank /\ \A f \in Files : version[f] = 0
        BY DEF Init, Blank
    <2>2. /\ cache \in [Keys -> [Parts -> Stamped \cup Parsed]]
          /\ \A k \in Keys, q \in Parts : cache[k][q] = Absent
        BY DEF Init, Stamped
    <2>3. \A q \in Dumps \cup {"deps"} : q \in Parts
        BY DEF Parts
    <2>4. /\ pc \in [Processes -> Places] /\ part \in [Processes -> Parts]
        BY DEF Init, Places, Parts, Dumps
    <2>5. memory \in [Processes -> [Keys -> Scans \cup {None}]]
        BY DEF Init
    <2>6. saves \in Keys /\ saves = 0
        BY Initially DEF Init
    <2>7. 0 \in 0 .. 0
        OBVIOUS
    <2> QED  BY <2>1, <2>2, <2>3, <2>4, <2>5, <2>6, <2>7, Initially DEF Init, Types, Stamped, Parsed
<1>2. Past
    <2>1. \A k \in Keys : cache[k]["deps"] \notin Versions
        BY Marks, Initially DEF Init
    <2> QED  BY <2>1, Initially DEF Init, Past, Blank
<1>3. Whole
    BY Marks, Initially DEF Init, Whole
<1>4. Alone /\ \A p \in Processes : Sound(p)
    BY DEF Init, Alone, Idle, Sound, Scanning, Storing
<1>5. History
    BY HeaderCacheAssumption, Initially DEF Init, History
<1> QED  BY <1>1, <1>2, <1>3, <1>4, <1>5 DEF Inv, History

-----------------------------------------------------------------------------
(* The service *)

\* Processes take turns and are not killed; those whose memory outlives a call
\* are by themselves.
Apart(s) ==
    /\ s.during \subseteq {Direct} /\ ~s.kill /\ ~s.overlap
    /\ s.callers \cap Servers = {} \/ \A p, q \in s.callers : p = q

Current(scan) == \A d \in Dumps : scan[d] = version

\* Only callers are at work, and compilers begin without a memory.
Callers ==
    \A p \in Processes :
        /\ p \notin scenario.callers => Idle(p)
        /\ \/ p \notin scenario.callers
           \/ p \notin Servers /\ pc[p] \notin {"truncate", "fill", "done"}
           => \A k \in Keys : memory[p][k] = None

\* Current stamps vouch for what is remembered and for the parsed scan, unless
\* that is about to be written.
Settled ==
    \A k \in Keys : (k = version[Direct] /\ cache[k]["deps"] = version) =>
        /\ \A p \in Processes : memory[p][k] = None \/ Current(memory[p][k])
        /\ \/ cache[k]["scan"] \in {Absent, Empty}
           \/ Current(cache[k]["scan"])
           \/ \E p \in Processes : pc[p] = "truncate" /\ part[p] = "scan" /\ key[p] = k

\* What a process has seen is current as long as its key is.
Trusting(p) ==
    /\ (pc[p] = "raw" /\ cache[key[p]]["deps"] \in Versions) =>
          cache[key[p]]["deps"][Direct] <= key[p]
    /\ key[p] = version[Direct] =>
          /\ pc[p] \in {"scan", "payload"} => cache[key[p]]["deps"] = version
          /\ (pc[p] \in {"truncate", "fill"} /\ part[p] = "scan") => Current(result[p])

Recent(p, v) ==
    v \in Versions /\ \A f \in Files : since[p][f] <= v[f] /\ v[f] <= version[f]

\* What a process has, or will load, it may answer.
Honest(p) ==
    /\ \A f \in Files : since[p][f] <= version[f]
    /\ pc[p] = "scan" => \/ cache[key[p]]["scan"] \in {Absent, Empty}
                         \/ \A d \in Dumps : Recent(p, cache[key[p]]["scan"][d])
    /\ pc[p] \in {"scan", "payload"} => \A d \in Dumps : Recent(p, cache[key[p]][d])
    /\ pc[p] \in {"ast", "macros", "truncate", "fill", "done"} => Recent(p, result[p]["identities"])
    /\ pc[p] \in {"macros", "truncate", "fill", "done"} => Recent(p, result[p]["ast"])
    /\ pc[p] \in {"truncate", "fill", "done"} => Recent(p, result[p]["macros"])

\* Everything that the refinement rests on.
ServiceInv ==
    /\ Inv /\ History /\ Callers /\ Settled /\ Apart(scenario)
    /\ \A p \in Processes : Trusting(p) /\ Honest(p)

\* A process at work is the only one.
LEMMA OthersIdle ==
    ASSUME ServiceInv, NEW p \in Processes, Begin(p) \/ Step(p)
    PROVE  /\ p \in scenario.callers
           /\ \A q \in Processes : q # p => Idle(q) /\ pc'[q] = "idle"
           /\ Step(p) => ~Idle(p)
<1>1. Step(p) => ~Idle(p)
    BY DEF Step, LoadRaw, LoadScan, LoadPayload, PassIdentities, PassAst, Pass, PassMacros,
       Fail, Truncate, Fill, Return, Idle
<1>2. \A q \in Processes : q # p => Idle(q)
    BY <1>1 DEF ServiceInv, Inv, Apart, Alone, Begin
<1>3. \A q \in Processes : q # p => pc'[q] = "idle"
    BY <1>2, FrameStep DEF ServiceInv, Inv, Frame, Idle
<1>4. p \in scenario.callers
    BY <1>1 DEF ServiceInv, Callers, Begin
<1> QED  BY <1>1, <1>2, <1>3, <1>4

\* Stamps that a process finds current are those of its key, and all is whole.
LEMMA HitIsCurrent ==
    ASSUME ServiceInv, NEW p \in Processes, LoadRaw(p), RawHit(key[p])
    PROVE  /\ key[p] = version[Direct] /\ cache[key[p]]["deps"] = version
           /\ \A d \in Dumps : cache[key[p]][d] = version
           /\ memory[p][key[p]] = None \/ Current(memory[p][key[p]])
           /\ cache[key[p]]["scan"] \in {Absent, Empty} \/ Current(cache[key[p]]["scan"])
<1>1. pc[p] = "raw" /\ cache[key[p]]["deps"] = version /\ version \in Versions /\ key[p] \in Keys
    BY DEF LoadRaw, RawHit, ServiceInv, Inv, Types
<1>2. version[Direct] \in Nat /\ key[p] \in Nat /\ key[p] <= version[Direct]
    BY <1>1, Initially DEF Versions, Keys, ServiceInv, Inv, Past
<1>3. version[Direct] <= key[p]
    BY <1>1 DEF ServiceInv, Trusting
<1>4. key[p] = version[Direct]
    BY <1>2, <1>3
<1>5. \A d \in Dumps : cache[key[p]][d] = version
    BY <1>1, <1>4, AloneFindsWhole DEF ServiceInv, Inv, Apart
<1>6. \A q \in Processes : pc[q] # "truncate"
    BY <1>1, OthersIdle DEF Step, Idle
<1> QED  BY <1>1, <1>4, <1>5, <1>6 DEF ServiceInv, Settled

\* Raw dumps that a process finds are whole as long as its key is current.
LEMMA PayloadIsCurrent ==
    ASSUME ServiceInv, NEW p \in Processes, pc[p] \in {"scan", "payload"}, key[p] = version[Direct]
    PROVE  cache[key[p]]["deps"] = version /\ \A d \in Dumps : cache[key[p]][d] = version
<1>1. cache[key[p]]["deps"] = version /\ key[p] \in Keys
    BY DEF ServiceInv, Inv, Types, Trusting
<1> QED  BY <1>1, AloneFindsWhole DEF ServiceInv, Inv, Apart

\* What a step of p does to memories: those of the others stay, its own is of
\* the scan it holds, and compilers have theirs only while they store or return.
LEMMA MemoryStep ==
    ASSUME Types, NEW p \in Processes, Begin(p) \/ Step(p), NEW k \in Keys
    PROVE  /\ \A q \in Processes : q # p => memory'[q] = memory[q]
           /\ \/ memory'[p][k] = memory[p][k]
              \/ memory'[p][k] = None
              \/ /\ k = key[p]
                 /\ LoadScan(p) \/ LoadPayload(p) \/ PassMacros(p) \/ (Fill(p) /\ part[p] = "deps")
                 /\ memory'[p][k] = result'[p]
<1> USE DEF Types, locals, bounds
<1>1. CASE Begin(p)
    BY <1>1 DEF Begin
<1>2. CASE LoadRaw(p)
    BY <1>2 DEF LoadRaw
<1>3. CASE LoadScan(p)
    BY <1>3 DEF LoadScan
<1>4. CASE LoadPayload(p)
    BY <1>4 DEF LoadPayload
<1>5. CASE PassIdentities(p) \/ PassAst(p)
    BY <1>5 DEF PassIdentities, PassAst, Pass
<1>6. CASE PassMacros(p)
    BY <1>6 DEF PassMacros
<1>7. CASE Fail(p)
    BY <1>7 DEF Fail
<1>8. CASE Truncate(p)
    BY <1>8 DEF Truncate
<1>9. CASE Fill(p)
    BY <1>9 DEF Fill
<1>10. CASE Return(p)
    BY <1>10 DEF Return
<1> QED  BY <1>1, <1>2, <1>3, <1>4, <1>5, <1>6, <1>7, <1>8, <1>9, <1>10 DEF Step

\* Whose memory is empty, by the place in the call.
LEMMA CallersStep ==
    ASSUME ServiceInv, NEW p \in Processes, Begin(p) \/ Step(p)
    PROVE  Callers'
<1> USE DEF locals, bounds
<1>1. scenario' = scenario /\ p \in scenario.callers /\ Types
    BY OthersIdle, FrameStep DEF Frame, ServiceInv, Inv
<1>2. ASSUME NEW q \in Processes, q # p
      PROVE  /\ pc'[q] = pc[q] /\ memory'[q] = memory[q]
    <2>1. pc'[q] = pc[q]
        BY <1>1, <1>2, FrameStep DEF Frame
    <2>2. 0 \in Keys
        BY Initially
    <2> QED  BY <1>1, <1>2, <2>1, <2>2, MemoryStep
<1>3. ASSUME p \notin Servers, pc'[p] \notin {"truncate", "fill", "done"}, NEW k \in Keys
      PROVE  memory'[p][k] = None
    <2>1. CASE pc[p] \notin {"truncate", "fill", "done"}
        <3>1. memory[p][k] = None
            BY <1>3, <2>1 DEF ServiceInv, Callers
        <3>2. ~(LoadScan(p) /\ memory'[p] # memory[p])
            BY <1>1, <1>3 DEF LoadScan, Goto, Types
        <3>3. ~(LoadPayload(p) /\ memory'[p] # memory[p])
            BY <1>1, <1>3 DEF LoadPayload, Goto, Types
        <3>4. ~PassMacros(p)
            BY <1>1, <1>3 DEF PassMacros, Goto, Types
        <3>5. ~Fill(p)
            BY <2>1 DEF Fill
        <3> QED  BY <1>1, <3>1, <3>2, <3>3, <3>4, <3>5, MemoryStep
    <2>2. CASE pc[p] \in {"truncate", "fill", "done"}
        <3>1. Truncate(p) \/ Fill(p) \/ Return(p)
            BY <2>2 DEF Begin, Idle, Step, LoadRaw, LoadScan, LoadPayload, PassIdentities,
               PassAst, Pass, PassMacros, Fail
        <3>2. ~Truncate(p) /\ ~Fill(p)
            BY <1>1, <1>3 DEF Truncate, Fill, Goto, Types
        <3> QED  BY <1>1, <1>3, <3>1, <3>2 DEF Return, Types
    <2> QED  BY <2>1, <2>2
<1> QED  BY <1>1, <1>2, <1>3 DEF ServiceInv, Callers, Idle

\* What a process remembers stays current.
LEMMA MemoryStaysCurrent ==
    ASSUME ServiceInv, NEW p \in Processes, Begin(p) \/ Step(p),
           NEW k \in Keys, k = version[Direct], cache'[k]["deps"] = version,
           NEW q \in Processes
    PROVE  memory'[q][k] = None \/ Current(memory'[q][k])
<1> USE DEF locals, bounds
<1>1. Types /\ Sound(p) /\ Trusting(p) /\ ~scenario.overlap /\ version # Empty
    BY Marks DEF ServiceInv, Inv, Apart, Types
<1>2. CASE cache[k]["deps"] = version
    <2>1. \A r \in Processes : memory[r][k] = None \/ Current(memory[r][k])
        BY <1>2 DEF ServiceInv, Settled
    <2>2. CASE memory'[q][k] = None \/ memory'[q][k] = memory[q][k]
        BY <2>1, <2>2
    <2>3. CASE /\ q = p /\ k = key[p] /\ memory'[p][k] = result'[p]
               /\ memory'[p][k] # memory[p][k]
        <3>1. CASE LoadScan(p)
            <4>1. /\ memory'[p][k] = cache[k]["scan"] /\ cache[k]["scan"] \notin {Absent, Empty}
                  /\ pc[p] = "scan"
                BY <1>1, <2>3, <3>1 DEF LoadScan, Decodes, Types
            <4>2. \A r \in Processes : pc[r] # "truncate"
                BY <4>1, OthersIdle DEF Idle
            <4> QED  BY <1>2, <2>3, <4>1, <4>2 DEF ServiceInv, Settled
        <3>2. CASE LoadPayload(p)
            <4>1. /\ pc[p] = "payload"
                  /\ \A d \in Dumps : memory'[p][k][d] = cache[k][d]
                BY <1>1, <2>3, <3>2 DEF LoadPayload, Types
            <4>2. \A d \in Dumps : cache[k][d] = version
                BY <2>3, <4>1, PayloadIsCurrent
            <4> QED  BY <2>3, <4>1, <4>2 DEF Current
        <3>3. CASE PassMacros(p)
            BY <1>1, <1>2, <2>3, <3>3 DEF PassMacros, Sound, Scanning
        <3>4. CASE Fill(p) /\ part[p] = "deps"
            BY <1>1, <1>2, <2>3, <3>4 DEF Fill, Sound, Storing
        <3> QED  BY <1>1, <2>3, <3>1, <3>2, <3>3, <3>4, MemoryStep
    <2> QED  BY <1>1, <2>2, <2>3, MemoryStep
<1>3. CASE Fill(p) /\ part[p] = "deps" /\ key[p] = k
    <2>1. CASE q = p
        <3>1. \A d \in Dumps : result[p][d] = version
            BY <1>1, <1>3 DEF Fill, Sound, Storing
        <3>2. memory'[p][k] = result[p]
            BY <1>1, <1>3 DEF Fill, Types
        <3> QED  BY <2>1, <3>1, <3>2 DEF Current
    <2>2. CASE q # p
        <3>1. Idle(q) /\ p \in scenario.callers
            BY <2>2, OthersIdle
        <3>2. q \notin scenario.callers \/ q \notin Servers
            BY <2>2, <3>1 DEF ServiceInv, Apart
        <3>3. memory[q][k] = None
            BY <3>1, <3>2 DEF ServiceInv, Callers, Idle
        <3> QED  BY <1>1, <2>2, <3>3, MemoryStep
    <2> QED  BY <2>1, <2>2
<1> QED  BY <1>1, <1>2, <1>3, StampsStep

\* And so does the parsed scan on disk.
LEMMA ScanStaysCurrent ==
    ASSUME ServiceInv, NEW p \in Processes, Begin(p) \/ Step(p),
           NEW k \in Keys, k = version[Direct], cache'[k]["deps"] = version
    PROVE  \/ cache'[k]["scan"] \in {Absent, Empty}
           \/ Current(cache'[k]["scan"])
           \/ \E q \in Processes : pc'[q] = "truncate" /\ part'[q] = "scan" /\ key'[q] = k
<1>1. Types /\ Sound(p) /\ Trusting(p) /\ ~scenario.overlap /\ version # Empty
    BY Marks DEF ServiceInv, Inv, Apart, Types
<1>2. CASE Fill(p) /\ part[p] = "deps" /\ key[p] = k
    <2>1. pc'[p] = "truncate" /\ part'[p] = "scan" /\ key'[p] = k
        BY <1>1, <1>2, Orders DEF Fill, Goto, Types
    <2> QED  BY <2>1
<1>3. CASE cache[k]["deps"] = version
    <2>1. \/ cache[k]["scan"] \in {Absent, Empty}
          \/ Current(cache[k]["scan"])
          \/ \E q \in Processes : pc[q] = "truncate" /\ part[q] = "scan" /\ key[q] = k
        BY <1>3 DEF ServiceInv, Settled
    <2>2. "scan" \in Parts /\ "scan" \notin Dumps
        BY DEF Parts, Dumps
    <2>3. CASE Truncate(p) /\ key[p] = k /\ part[p] = "scan"
        BY <1>1, <2>2, <2>3 DEF Truncate, Types
    <2>4. CASE Fill(p) /\ key[p] = k /\ part[p] = "scan"
        <3>1. Current(result[p])
            BY <1>1, <2>4 DEF Fill, Trusting
        <3>2. cache'[k]["scan"] = result[p]
            BY <1>1, <2>2, <2>4 DEF Fill, Types
        <3> QED  BY <3>1, <3>2
    <2>5. CASE ~((Truncate(p) \/ Fill(p)) /\ key[p] = k /\ part[p] = "scan")
        <3>1. cache'[k]["scan"] = cache[k]["scan"]
            <4>1. CASE cache' = cache
                BY <4>1
            <4>2. CASE Truncate(p)
                BY <1>1, <2>2, <2>5, <4>2 DEF Truncate, Types
            <4>3. CASE Fill(p)
                BY <1>1, <2>2, <2>5, <4>3 DEF Fill, Types
            <4> QED  BY <4>1, <4>2, <4>3, QuietSteps
        <3>2. ASSUME NEW q \in Processes, pc[q] = "truncate", part[q] = "scan", key[q] = k
              PROVE  FALSE
            <4>1. q = p
                BY <3>2, OthersIdle DEF Idle
            <4>2. ~Truncate(p)
                BY <2>5, <3>2, <4>1
            <4> QED  BY <3>2, <4>1, <4>2 DEF Begin, Idle, Step, LoadRaw, LoadScan, LoadPayload,
                     PassIdentities, PassAst, Pass, PassMacros, Fail, Fill, Return
        <3> QED  BY <2>1, <3>1, <3>2
    <2> QED  BY <2>3, <2>4, <2>5
<1> QED  BY <1>1, <1>2, <1>3, StampsStep

\* The two together.
LEMMA SettledStep ==
    ASSUME ServiceInv, NEW p \in Processes, Begin(p) \/ Step(p)
    PROVE  Settled'
<1>1. version' = version
    BY FrameStep DEF Frame, ServiceInv, Inv
<1>2. SUFFICES ASSUME NEW k \in Keys, k = version[Direct], cache'[k]["deps"] = version
               PROVE  /\ \A q \in Processes : memory'[q][k] = None \/ Current(memory'[q][k])
                      /\ \/ cache'[k]["scan"] \in {Absent, Empty}
                         \/ Current(cache'[k]["scan"])
                         \/ \E q \in Processes :
                               pc'[q] = "truncate" /\ part'[q] = "scan" /\ key'[q] = k
    BY <1>1 DEF Settled, Current
<1> QED  BY <1>2, MemoryStaysCurrent, ScanStaysCurrent

\* What a process has seen stays current while it goes on.
LEMMA TrustStep ==
    ASSUME ServiceInv, NEW p \in Processes, Begin(p) \/ Step(p)
    PROVE  \A q \in Processes : Trusting(q)'
<1> USE DEF locals, bounds
<1>1. Types /\ Sound(p) /\ Trusting(p) /\ version' = version /\ key[p] \in Keys
    BY FrameStep DEF Frame, ServiceInv, Inv, Types
<1>2. ASSUME NEW q \in Processes, pc'[q] \in {"idle", "done", "identities", "ast", "macros"}
      PROVE  Trusting(q)'
    BY <1>2 DEF Trusting
<1>3. ASSUME NEW q \in Processes, q # p  PROVE Trusting(q)'
    BY <1>2, <1>3, OthersIdle
<1>4. CASE Begin(p)
    <2>1. /\ pc'[p] = "raw" /\ key'[p] = version[Direct] /\ cache' = cache
        BY <1>1, <1>4 DEF Begin, Goto, Types
    <2>2. version[Direct] \in Keys
        <3>1. version[Direct] \in 0 .. saves /\ saves \in 0 .. MaxSaves /\ MaxSaves \in Nat
            BY <1>1, Initially, HeaderCacheAssumption DEF Types, Keys
        <3> QED  BY <3>1 DEF Keys
    <2>3. cache[version[Direct]]["deps"] \in Versions =>
              cache[version[Direct]]["deps"][Direct] <= version[Direct]
        BY <2>2, Initially DEF ServiceInv, Inv, Past
    <2> QED  BY <1>3, <2>1, <2>3 DEF Trusting
<1>5. CASE LoadRaw(p)
    <2>1. /\ UNCHANGED <<cache, key>>
          /\ pc'[p] \in {"done", "identities"} \/ (pc'[p] = "scan" /\ RawHit(key[p]))
        BY <1>1, <1>5 DEF LoadRaw, Goto, Types
    <2>2. RawHit(key[p]) => cache[key[p]]["deps"] = version
        BY DEF RawHit
    <2>3. ASSUME pc'[p] = "scan" /\ RawHit(key[p])
          PROVE  Trusting(p)'
        BY <1>1, <2>1, <2>2, <2>3 DEF Trusting
    <2> QED  BY <1>2, <1>3, <2>1, <2>3
<1>6. CASE LoadScan(p)
    <2>1. /\ UNCHANGED <<cache, key>> /\ pc[p] = "scan" /\ pc'[p] \in {"done", "payload"}
        BY <1>1, <1>6 DEF LoadScan, Goto, Types
    <2>2. ASSUME pc'[p] = "payload"
          PROVE  Trusting(p)'
        BY <1>1, <2>1, <2>2 DEF Trusting
    <2> QED  BY <1>2, <1>3, <2>1, <2>2
<1>7. CASE LoadPayload(p)
    <2>1. /\ UNCHANGED <<cache, key>> /\ pc[p] = "payload"
          /\ \/ pc'[p] = "identities"
             \/ pc'[p] = "truncate" /\ \A d \in Dumps : result'[p][d] = cache[key[p]][d]
        BY <1>1, <1>7 DEF LoadPayload, Goto, Types
    <2>2. ASSUME pc'[p] = "truncate" /\ \A d \in Dumps : result'[p][d] = cache[key[p]][d]
          PROVE  Trusting(p)'
        BY <1>1, <2>1, <2>2, PayloadIsCurrent DEF Trusting, Current
    <2> QED  BY <1>2, <1>3, <2>1, <2>2
<1>8. CASE PassIdentities(p) \/ PassAst(p)
    BY <1>1, <1>2, <1>3, <1>8 DEF PassIdentities, PassAst, Pass, Goto, Types
<1>9. CASE PassMacros(p)
    <2>1. pc'[p] = "done" \/ (pc'[p] = "truncate" /\ part'[p] = "ast")
        BY <1>1, <1>9, Orders DEF PassMacros, Goto, Types
    <2>2. ASSUME pc'[p] = "truncate" /\ part'[p] = "ast"
          PROVE  Trusting(p)'
        BY <2>2 DEF Trusting
    <2> QED  BY <1>2, <1>3, <2>1, <2>2
<1>10. CASE Fail(p)
    BY <1>1, <1>2, <1>3, <1>10 DEF Fail, Goto, Types
<1>11. CASE Truncate(p)
    <2>1. /\ pc[p] = "truncate" /\ pc'[p] = "fill" /\ UNCHANGED <<key, part, result>>
        BY <1>1, <1>11 DEF Truncate, Goto, Types
    <2>2. Trusting(p)'
        BY <1>1, <2>1 DEF Trusting, Current
    <2> QED  BY <1>3, <2>2
<1>12. CASE Fill(p)
    <2>1. /\ pc[p] = "fill" /\ UNCHANGED <<key, result>>
          /\ \/ part[p] = "scan" /\ pc'[p] = "done"
             \/ part[p] # "scan" /\ pc'[p] = "truncate"
        BY <1>1, <1>12 DEF Fill, Goto, Types
    <2>2. CASE part[p] # "scan" /\ pc'[p] = "truncate"
        <3>1. key[p] = version[Direct] => Current(result[p])
            BY <1>1, <2>1, <2>2 DEF Sound, Storing, Current
        <3> QED  BY <1>1, <1>3, <2>1, <2>2, <3>1 DEF Trusting, Current
    <2> QED  BY <1>2, <1>3, <2>1, <2>2
<1>13. CASE Return(p)
    BY <1>1, <1>2, <1>3, <1>13 DEF Return, Goto, Types
<1> QED  BY <1>4, <1>5, <1>6, <1>7, <1>8, <1>9, <1>10, <1>11, <1>12, <1>13 DEF Step

\* What a process has is no older than its question.
LEMMA HonestStep ==
    ASSUME ServiceInv, NEW p \in Processes, Begin(p) \/ Step(p)
    PROVE  \A q \in Processes : Honest(q)'
<1> USE DEF locals, bounds
<1>1. /\ Types /\ Honest(p) /\ version' = version /\ key[p] \in Keys
      /\ version \in Versions /\ \A f \in Files : version[f] \in Nat
      /\ since \in [Processes -> Versions]
    BY FrameStep DEF Frame, ServiceInv, Inv, Types, History, Versions
<1>2. /\ \A q \in Processes : q # p => since'[q] = since[q]
      /\ Begin(p) => since'[p] = version
      /\ Step(p) => since' = since
    BY <1>1 DEF Begin, Step, LoadRaw, LoadScan, LoadPayload, PassIdentities, PassAst, Pass,
       PassMacros, Fail, Truncate, Fill, Return
<1>3. ASSUME NEW q \in Processes, q # p  PROVE Honest(q)'
    <2>1. pc'[q] = "idle" /\ since'[q] = since[q] /\ \A f \in Files : since[q][f] <= version[f]
        BY <1>2, <1>3, OthersIdle DEF ServiceInv, Honest
    <2> QED  BY <1>1, <2>1 DEF Honest
<1>4. CASE Begin(p)
    <2>1. pc'[p] = "raw" /\ since'[p] = version
        BY <1>1, <1>2, <1>4 DEF Begin, Goto, Types
    <2> QED  BY <1>1, <1>3, <2>1 DEF Honest
<1>5. ASSUME Step(p)
      PROVE  /\ \A f \in Files : since'[p][f] <= version'[f]
             /\ \A v \in Versions : (Recent(p, v) => Recent(p, v)') /\ (v = version => Recent(p, v)')
    BY <1>1, <1>2, <1>5 DEF Honest, Recent
<1>6. ASSUME Step(p), pc'[p] \in {"idle", "identities"}  PROVE Honest(p)'
    BY <1>5, <1>6 DEF Honest
<1> DEFINE Answered(x) == \A d \in Dumps : Recent(p, x[d])
<1>7. ASSUME Step(p), pc'[p] \in {"truncate", "fill", "done"},
             Answered(result'[p])
      PROVE  Honest(p)'
    <2>1. \A d \in Dumps : result'[p][d] \in Versions /\ Recent(p, result'[p][d])
        BY <1>7 DEF Recent
    <2>2. \A d \in Dumps : since'[p] = since[p] /\ version' = version
        BY <1>1, <1>2, <1>7
    <2>3. "identities" \in Dumps /\ "ast" \in Dumps /\ "macros" \in Dumps
        BY DEF Dumps
    <2> QED  BY <1>1, <1>2, <1>5, <1>7, <2>1, <2>3 DEF Honest, Recent
<1>8. CASE LoadRaw(p)
    <2>1. /\ UNCHANGED <<cache, key>>
          /\ \/ pc'[p] = "identities"
             \/ pc'[p] = "scan" /\ RawHit(key[p])
             \/ /\ pc'[p] = "done" /\ RawHit(key[p]) /\ memory[p][key[p]] # None
                /\ result'[p] = memory[p][key[p]]
        BY <1>1, <1>8 DEF LoadRaw, Goto, Types
    <2>2. Step(p)
        BY <1>8 DEF Step
    <2>3. Recent(p, version)
        BY <1>1 DEF Honest, Recent
    <2>4. CASE pc'[p] = "done" /\ RawHit(key[p]) /\ memory[p][key[p]] # None
        <3>1. \A d \in Dumps : result'[p][d] = version
            BY <1>8, <2>1, <2>4, HitIsCurrent DEF Current
        <3> QED  BY <1>3, <1>7, <2>2, <2>3, <2>4, <3>1
    <2>5. CASE pc'[p] = "scan" /\ RawHit(key[p])
        <3>1. /\ \A d \in Dumps : cache[key[p]][d] = version
              /\ \/ cache[key[p]]["scan"] \in {Absent, Empty}
                 \/ \A d \in Dumps : cache[key[p]]["scan"][d] = version
            BY <1>8, <2>5, HitIsCurrent DEF Current
        <3>2. Honest(p)'
            BY <1>1, <1>2, <2>1, <2>2, <2>3, <2>5, <3>1 DEF Honest, Recent
        <3> QED  BY <1>3, <3>2
    <2> QED  BY <1>3, <1>6, <2>1, <2>2, <2>4, <2>5
<1>9. CASE LoadScan(p)
    <2>1. /\ UNCHANGED <<cache, key, version, since>> /\ pc[p] = "scan"
          /\ \/ pc'[p] = "payload"
             \/ /\ pc'[p] = "done" /\ cache[key[p]]["scan"] \notin {Absent, Empty}
                /\ result'[p] = cache[key[p]]["scan"]
        BY <1>1, <1>9 DEF LoadScan, Goto, Types, Decodes
    <2>2. CASE pc'[p] = "payload"
        BY <1>1, <1>3, <2>1, <2>2 DEF Honest, Recent
    <2>3. CASE pc'[p] = "done"
        <3>1. Answered(result'[p])
            BY <1>1, <2>1, <2>3 DEF Honest
        <3> QED  BY <1>3, <1>7, <1>9, <2>3, <3>1 DEF Step
    <2> QED  BY <2>1, <2>2, <2>3
<1>10. CASE LoadPayload(p)
    <2>1. /\ pc[p] = "payload"
          /\ \/ pc'[p] = "identities"
             \/ pc'[p] = "truncate" /\ \A d \in Dumps : result'[p][d] = cache[key[p]][d]
        BY <1>1, <1>10 DEF LoadPayload, Goto, Types
    <2>2. Step(p)
        BY <1>10 DEF Step
    <2>3. CASE pc'[p] = "truncate" /\ \A d \in Dumps : result'[p][d] = cache[key[p]][d]
        <3>1. Answered(result'[p])
            BY <1>1, <2>1, <2>3 DEF Honest
        <3> QED  BY <1>3, <1>7, <2>2, <2>3, <3>1
    <2> QED  BY <1>3, <1>6, <2>1, <2>2, <2>3
<1>11. CASE PassIdentities(p)
    <2>1. pc'[p] = "ast" /\ result'[p]["identities"] = version
        BY <1>1, <1>11 DEF PassIdentities, Pass, Goto, Types, Scans, Dumps
    <2>2. Step(p)
        BY <1>11 DEF Step
    <2> QED  BY <1>1, <1>3, <1>5, <2>1, <2>2 DEF Honest, Recent
<1>12. CASE PassAst(p)
    <2>1. /\ pc[p] = "ast" /\ pc'[p] = "macros"
          /\ result'[p]["ast"] = version /\ result'[p]["identities"] = result[p]["identities"]
        BY <1>1, <1>12 DEF PassAst, Pass, Goto, Types, Scans, Dumps
    <2>2. Step(p)
        BY <1>12 DEF Step
    <2> QED  BY <1>1, <1>2, <1>3, <1>5, <2>1, <2>2 DEF Honest, Recent
<1>13. CASE PassMacros(p)
    <2>1. /\ pc[p] = "macros" /\ pc'[p] \in {"truncate", "done"}
          /\ result'[p]["macros"] = version /\ result'[p]["ast"] = result[p]["ast"]
          /\ result'[p]["identities"] = result[p]["identities"]
        BY <1>1, <1>13 DEF PassMacros, Goto, Types, Scans, Dumps
    <2>2. Answered(result'[p])
        BY <1>1, <2>1 DEF Honest, Recent, Dumps
    <2> QED  BY <1>3, <1>7, <1>13, <2>1, <2>2 DEF Step
<1>14. CASE Fail(p)
    BY <1>1, <1>3, <1>6, <1>14 DEF Fail, Goto, Types, Step
<1>15. CASE Truncate(p) \/ Fill(p)
    <2>1. pc[p] \in {"truncate", "fill"} /\ pc'[p] \in {"fill", "truncate", "done"} /\ result' = result
        BY <1>1, <1>15 DEF Truncate, Fill, Goto, Types
    <2>2. Answered(result'[p])
        BY <1>1, <2>1 DEF Honest, Dumps
    <2> QED  BY <1>3, <1>7, <1>15, <2>1, <2>2 DEF Step
<1>16. CASE Return(p)
    BY <1>1, <1>3, <1>6, <1>16 DEF Return, Goto, Types, Step
<1> QED  BY <1>4, <1>8, <1>9, <1>10, <1>11, <1>12, <1>13, <1>14, <1>15, <1>16 DEF Step

\* A save and cleaning happen to a service as they do to the cache.
LEMMA ServiceSurroundings ==
    ASSUME ServiceInv, (\E f \in Files : SaveHeader(f)) \/ Clean \/ UNCHANGED vars
    PROVE  Callers' /\ Settled' /\ \A q \in Processes : Trusting(q)' /\ Honest(q)'
<1> USE DEF locals, bounds
<1> DEFINE Kept == Callers' /\ Settled' /\ \A q \in Processes : Trusting(q)' /\ Honest(q)'
<1>1. ASSUME NEW f \in Files, SaveHeader(f)  PROVE Kept
    <2>1. /\ version' = [version EXCEPT ![f] = @ + 1]
          /\ UNCHANGED <<cache, memory, pc, key, result, part, since, scenario>>
        BY <1>1 DEF SaveHeader
    <2>2. /\ version \in Versions /\ version' \in Versions
          /\ \A g \in Files : version[g] \in Nat /\ version'[g] \in {version[g], version[g] + 1}
          /\ version'[f] = version[f] + 1
        BY <2>1 DEF ServiceInv, Inv, Types, Versions
    <2>3. ASSUME NEW k \in Keys, cache[k]["deps"] = version'  PROVE FALSE
        BY <2>2, <2>3 DEF ServiceInv, Inv, Past
    <2>4. Settled'
        BY <2>1, <2>3 DEF Settled
    <2>5. Callers'
        BY <2>1 DEF ServiceInv, Callers, Idle
    <2>6. ASSUME NEW q \in Processes, NEW v \in Versions, Recent(q, v)  PROVE Recent(q, v)'
        <3>1. \A g \in Files : since[q][g] \in Nat /\ v[g] \in Nat
            BY DEF ServiceInv, History, Versions
        <3> QED  BY <2>1, <2>2, <2>6, <3>1 DEF Recent
    <2>7. ASSUME NEW q \in Processes  PROVE Honest(q)'
        <3>1. \A g \in Files : since'[q][g] <= version'[g]
            <4>1. \A g \in Files : since[q][g] \in Nat /\ since[q][g] <= version[g]
                BY DEF ServiceInv, History, Versions, Honest
            <4> QED  BY <2>1, <2>2, <4>1
        <3>2. \A x : Recent(q, x) => /\ x \in Versions
                                     /\ \A g \in Files : since[q][g] <= x[g] /\ x[g] <= version'[g]
            <4> SUFFICES ASSUME NEW x, Recent(q, x)
                         PROVE  /\ x \in Versions
                                /\ \A g \in Files : since[q][g] <= x[g] /\ x[g] <= version'[g]
                OBVIOUS
            <4>1. x \in Versions
                BY DEF Recent
            <4>2. Recent(q, x)'
                BY <2>6, <4>1
            <4> QED  BY <2>1, <4>1, <4>2 DEF Recent
        <3>3. Honest(q)
            BY DEF ServiceInv
        <3> QED  BY <2>1, <3>1, <3>2, <3>3 DEF Honest, Recent
    <2>8. ASSUME NEW q \in Processes  PROVE Trusting(q)'
        <3>1. CASE f = Direct
            <4>1. key[q] \in Nat /\ key[q] <= version[Direct]
                BY DEF ServiceInv, Inv, Types, Past, Keys
            <4>2. key'[q] # version'[Direct]
                BY <2>1, <2>2, <3>1, <4>1
            <4> QED  BY <2>1, <4>2 DEF ServiceInv, Trusting
        <3>2. CASE \A p \in Processes : Idle(p)
            BY <2>1, <3>2 DEF Idle, Trusting
        <3>3. f = Direct \/ \A p \in Processes : Idle(p)
            BY <1>1 DEF SaveHeader, ServiceInv, Apart
        <3> QED  BY <3>1, <3>2, <3>3
    <2> QED  BY <2>4, <2>5, <2>7, <2>8
<1>2. ASSUME Clean  PROVE Kept
    <2>1. /\ UNCHANGED <<version, memory, pc, since, scenario>>
          /\ \A q \in Processes : pc[q] = "idle"
          /\ \A k \in Keys : cache'[k]["deps"] = Absent
        BY <1>2, Initially DEF Clean, Idle
    <2>2. version # Absent
        BY Marks DEF ServiceInv, Inv, Types
    <2>3. Settled' /\ Callers'
        BY <2>1, <2>2 DEF Settled, ServiceInv, Callers, Idle
    <2>4. \A q \in Processes : Trusting(q)' /\ Honest(q)'
        BY <2>1 DEF Trusting, ServiceInv, Honest
    <2> QED  BY <2>3, <2>4
<1>3. ASSUME UNCHANGED vars  PROVE Kept
    <2>1. UNCHANGED <<version, cache, memory, pc, key, result, part, since, scenario>>
        BY <1>3 DEF vars
    <2>2. Settled' /\ Callers'
        BY <2>1 DEF ServiceInv, Settled, Current, Callers, Idle
    <2>3. \A q \in Processes : Trusting(q)'
        BY <2>1 DEF ServiceInv, Trusting, Current
    <2>4. \A q \in Processes : Honest(q)'
        BY <2>1 DEF ServiceInv, Honest, Recent
    <2> QED  BY <2>2, <2>3, <2>4
<1> QED  BY <1>1, <1>2, <1>3

\* What may happen in a behaviour does not change.
LEMMA ScenarioStep == [Next]_vars => scenario' = scenario
BY DEF Next, Begin, Step, LoadRaw, LoadScan, LoadPayload, PassIdentities, PassAst, Pass, PassMacros,
   Fail, Truncate, Fill, Return, SaveHeader, Kill, Clean, Finished, vars, bounds

\* Every step keeps what the refinement rests on.
LEMMA ServiceInvStep ==
    ASSUME ServiceInv, \A s \in Scenarios : Calm(s), [Next]_vars
    PROVE  ServiceInv'
<1>1. Inv' /\ History' /\ Apart(scenario)'
    BY InvStep, HistoryStep, ScenarioStep DEF ServiceInv, Inv, Apart
<1> DEFINE Kept == Callers' /\ Settled' /\ \A q \in Processes : Trusting(q)' /\ Honest(q)'
<1>2. ASSUME NEW p \in Processes, Begin(p) \/ Step(p)  PROVE Kept
    BY <1>2, CallersStep, SettledStep, TrustStep, HonestStep
<1>3. \A p \in Processes : ~Kill(p)
    BY DEF Kill, ServiceInv, Apart
<1>4. ASSUME (\E f \in Files : SaveHeader(f)) \/ Clean \/ UNCHANGED vars  PROVE Kept
    BY <1>4, ServiceSurroundings
<1> HIDE DEF Kept
<1>5. Kept
    BY <1>2, <1>3, <1>4 DEF Next, Finished
<1> QED  BY <1>1, <1>5 DEF ServiceInv, Kept

\* It holds at the start.
LEMMA ServiceInvInit ==
    ASSUME Init, Apart(scenario)
    PROVE  ServiceInv
<1>1. Inv /\ History
    BY InvInit
<1>2. /\ \A p \in Processes : pc[p] = "idle" /\ since[p] = version
      /\ \A p \in Processes, k \in Keys : memory[p][k] = None
      /\ \A k \in Keys : cache[k]["deps"] = Absent
      /\ version # Absent /\ \A f \in Files : version[f] = 0
    BY Marks, Initially DEF Init, Blank
<1>3. Callers /\ Settled
    BY <1>2 DEF Callers, Settled, Idle
<1>4. \A p \in Processes, f \in Files : since[p][f] = 0 /\ since[p][f] <= version[f]
    BY <1>2
<1>5. \A p \in Processes : Trusting(p) /\ Honest(p)
    BY <1>2, <1>4 DEF Trusting, Honest
<1> QED  BY <1>1, <1>3, <1>5 DEF ServiceInv

\* What the service sees of the cache.
Phase == [p \in Processes |-> CASE pc[p] = "idle" -> "idle"
                                [] pc[p] = "done" -> "answered"
                                [] OTHER          -> "asked"]
Given == [p \in Processes |-> IF pc[p] = "done" THEN result[p] ELSE None]

\* A step of a process changes what the service sees of that process only.
LEMMA SeenStep ==
    ASSUME Types, NEW p \in Processes, Frame(p)
    PROVE  /\ Phase' = [Phase EXCEPT ![p] = Phase'[p]]
           /\ Given' = [Given EXCEPT ![p] = Given'[p]]
           /\ UNCHANGED <<pc[p], result[p]>> => UNCHANGED <<Phase, Given>>
<1>1. \A q \in Processes : q # p => pc'[q] = pc[q] /\ result'[q] = result[q]
    BY DEF Frame
<1>2. \A q \in Processes : q # p => Phase'[q] = Phase[q] /\ Given'[q] = Given[q]
    BY <1>1 DEF Phase, Given
<1>3. /\ Phase = [q \in Processes |-> Phase[q]] /\ Phase' = [q \in Processes |-> Phase'[q]]
      /\ Given = [q \in Processes |-> Given[q]] /\ Given' = [q \in Processes |-> Given'[q]]
    BY DEF Phase, Given
<1>4. UNCHANGED <<pc[p], result[p]>> => Phase'[p] = Phase[p] /\ Given'[p] = Given[p]
    BY DEF Phase, Given
<1> HIDE DEF Phase, Given
<1> QED  BY <1>2, <1>3, <1>4

\* Answers are not older than their questions.
Answered == \A p \in Processes : pc[p] = "done" => \A d \in Dumps : Recent(p, result[p][d])

\* Every step is one of the service, or none.
LEMMA StepRefines ==
    ASSUME Types, History, Answered', [Next]_vars
    PROVE  [Service!HeaderNext]_(Service!headerVars)
<1> USE DEF locals, bounds
<1>0. Types
    OBVIOUS
<1>1. ASSUME version' = version, since' = since, Phase' = Phase, Given' = Given
      PROVE  UNCHANGED Service!headerVars
    BY <1>1 DEF Service!headerVars, Phase, Given
<1>2. ASSUME NEW f \in Files, SaveHeader(f)  PROVE Service!HeaderNext
    <2>1. /\ version' = [version EXCEPT ![f] = @ + 1]
          /\ UNCHANGED <<pc, result, since>>
        BY <1>2 DEF SaveHeader
    <2>2. Service!Save(f)
        BY <2>1 DEF Service!Save
    <2> QED  BY <2>2 DEF Service!HeaderNext
<1>3. ASSUME Clean \/ UNCHANGED vars  PROVE UNCHANGED Service!headerVars
    BY <1>3 DEF Clean, vars, Service!headerVars
<1>4. ASSUME NEW p \in Processes, Kill(p)
      PROVE  Service!HeaderNext \/ UNCHANGED Service!headerVars
    <2>1. /\ version' = version /\ since' = since /\ pc'[p] = "idle"
          /\ Phase' = [Phase EXCEPT ![p] = Phase'[p]] /\ Given' = [Given EXCEPT ![p] = Given'[p]]
        BY <1>0, <1>4, FrameStep, SeenStep DEF Kill, Goto, Types
    <2>2. Phase'[p] = "idle" /\ Given'[p] = None
        BY <2>1 DEF Phase, Given
    <2>3. CASE pc[p] = "idle"
        <3>1. pc' = pc /\ result' = result
            BY <1>0, <1>4, <2>3 DEF Kill, Goto, Types
        <3>2. Phase' = Phase /\ Given' = Given
            BY <3>1 DEF Phase, Given
        <3> QED  BY <1>1, <2>1, <3>2
    <2>4. CASE pc[p] # "idle"
        <3>1. Phase[p] # "idle" /\ Phase' = [Phase EXCEPT ![p] = "idle"]
              /\ Given' = [Given EXCEPT ![p] = None]
            <4>1. Phase[p] # "idle"
                BY <2>4 DEF Phase
            <4> QED  BY <2>1, <2>2, <4>1
        <3>2. Service!Leave(p)
            BY <2>1, <3>1 DEF Service!Leave, Phase, Given
        <3> QED  BY <3>2 DEF Service!HeaderNext
    <2> QED  BY <2>3, <2>4
<1>5. ASSUME NEW p \in Processes, Begin(p)  PROVE Service!HeaderNext
    <2>1. /\ pc[p] = "idle" /\ pc'[p] = "raw" /\ version' = version
          /\ since' = [since EXCEPT ![p] = version]
        BY <1>0, <1>5 DEF Begin, Goto, Idle, Types
    <2>2. Phase[p] = "idle" /\ Phase'[p] = "asked" /\ Given'[p] = None /\ Given[p] = None
        BY <2>1 DEF Phase, Given
    <2>3. Phase' = [Phase EXCEPT ![p] = "asked"] /\ Given' = [Given EXCEPT ![p] = Given[p]]
        BY <1>0, <1>5, <2>2, FrameStep, SeenStep
    <2>4. Given' = Given
        BY <2>3 DEF Given
    <2>5. Service!Ask(p)
        BY <2>1, <2>2, <2>3, <2>4 DEF Service!Ask, Phase, Given
    <2> QED  BY <2>5 DEF Service!HeaderNext
<1>6. ASSUME NEW p \in Processes, Step(p)
      PROVE  /\ version' = version /\ since' = since /\ pc[p] # "idle"
             /\ Phase' = [Phase EXCEPT ![p] = Phase'[p]]
             /\ Given' = [Given EXCEPT ![p] = Given'[p]]
    <2>1. since' = since /\ pc[p] # "idle"
        BY <1>6 DEF Step, LoadRaw, LoadScan, LoadPayload, PassIdentities, PassAst, Pass,
           PassMacros, Fail, Truncate, Fill, Return
    <2> QED  BY <1>0, <1>6, <2>1, FrameStep, SeenStep DEF Frame
<1>7. ASSUME NEW p \in Processes, Step(p), pc'[p] = "idle"  PROVE Service!HeaderNext
    <2>1. /\ Phase[p] # "idle" /\ Phase' = [Phase EXCEPT ![p] = "idle"]
          /\ Given' = [Given EXCEPT ![p] = None]
        <3>1. Phase'[p] = "idle" /\ Given'[p] = None /\ Phase[p] # "idle"
            BY <1>6, <1>7 DEF Phase, Given
        <3> QED  BY <1>6, <1>7, <3>1
    <2>2. Service!Leave(p)
        BY <1>6, <1>7, <2>1 DEF Service!Leave, Phase, Given
    <2> QED  BY <2>2 DEF Service!HeaderNext
<1>8. ASSUME NEW p \in Processes, Step(p), pc'[p] = "done"  PROVE Service!HeaderNext
    <2>1. pc[p] # "done"
        BY <1>0, <1>8 DEF Step, LoadRaw, LoadScan, LoadPayload, PassIdentities, PassAst, Pass,
           PassMacros, Fail, Truncate, Fill, Return, Goto, Types
    <2>2. Phase[p] = "asked" /\ Phase'[p] = "answered" /\ Given'[p] = result'[p]
        BY <1>6, <1>8, <2>1 DEF Phase, Given
    <2>3. \A d \in Dumps : Recent(p, result[p][d])'
        BY <1>8 DEF Answered
    <2>4. \A d \in Dumps : /\ result'[p][d] \in [Files -> Nat]
                           /\ \A f \in Files : result'[p][d][f] \in since[p][f] .. version[f]
        <3>1. \A f \in Files : since[p][f] \in Nat /\ version[f] \in Nat
            BY <1>0 DEF History, Types, Versions
        <3> QED  BY <1>6, <1>8, <2>3, <3>1 DEF Recent, Versions
    <2>5. /\ Phase' = [Phase EXCEPT ![p] = "answered"]
          /\ Given' = [Given EXCEPT ![p] = Given'[p]]
          /\ version' = version /\ since' = since
        BY <1>6, <1>8, <2>2
    <2>6. Service!Fresh(p, Given'[p])
        BY <2>2, <2>4 DEF Service!Fresh
    <2>7. Service!Answer(p)
        BY <2>2, <2>5, <2>6 DEF Service!Answer, Phase, Given
    <2> QED  BY <2>7 DEF Service!HeaderNext
<1>9. ASSUME NEW p \in Processes, Step(p), pc'[p] \notin {"idle", "done"}
      PROVE  UNCHANGED Service!headerVars
    <2>1. pc[p] # "done"
        BY <1>0, <1>9 DEF Step, LoadRaw, LoadScan, LoadPayload, PassIdentities, PassAst, Pass,
           PassMacros, Fail, Truncate, Fill, Return, Goto, Types
    <2>2. Phase'[p] = Phase[p] /\ Given'[p] = Given[p]
        BY <1>6, <1>9, <2>1 DEF Phase, Given
    <2>3. Phase' = Phase /\ Given' = Given
        <3>1. Phase = [Phase EXCEPT ![p] = Phase[p]] /\ Given = [Given EXCEPT ![p] = Given[p]]
            BY DEF Phase, Given
        <3> QED  BY <1>6, <1>9, <2>2, <3>1
    <2> QED  BY <1>1, <1>6, <1>9, <2>3
<1> QED  BY <1>2, <1>3, <1>4, <1>5, <1>7, <1>8, <1>9 DEF Next, Finished

-----------------------------------------------------------------------------
(* Warm scans *)

\* A version that is nowhere newer than another.
Before(v, w) == \A f \in Files : v[f] <= w[f]

\* The files of the raw cache are there, with current stamps or those that a
\* process has taken and is about to write.
Ready(k) ==
    /\ \A q \in Dumps \cup {"deps"} : cache[k][q] # Absent
    /\ cache[k]["deps"] = version \/ BeingWritten(k, "deps")

\* What was asked for, and served, is not from the future.
Asked ==
    /\ \A v \in served : Before(v, version)
    /\ \A p \in Processes : Before(since[p], version) /\ key[p] = since[p][Direct]

\* What has been served for the headers as they are is ready.
Served == version \in served => Ready(version[Direct])

\* p has found the raw cache, or has just stored it.
Loading(p) == \/ pc[p] \in {"scan", "payload"}
              \/ pc[p] \in {"truncate", "fill"} /\ part[p] = "scan"

\* What a process that was asked for the headers as they are has found or
\* stored is ready, and what it has written so far is there.
Serving(p) ==
    since[p] = version =>
        /\ Loading(p) \/ (pc[p] = "done" /\ ~TookPrelude(p)) => Ready(key[p])
        /\ Storing(p) => \A d \in Done(part[p]) : cache[key[p]][d] # Absent
        /\ (pc[p] = "fill" /\ part[p] = "deps") => stamps[p] = version

\* Who writes under the current key was asked for the headers as they are.
Together(p) == ~Idle(p) /\ key[p] = version[Direct] => since[p] = version

\* Where calls do not overlap, a call for what has been served scans nothing.
Spared(p) ==
    (~Idle(p) /\ ~scenario.overlap /\ version \in served) =>
        since[p] = version /\ (pc[p] \in {"raw", "done"} \/ Loading(p))

\* Everything that the theorem about warm scans rests on.
WarmInv == /\ Inv /\ History /\ Asked /\ Served
           /\ \A p \in Processes : Serving(p) /\ Together(p) /\ Spared(p)

\* Who steps is busy.
LEMMA StepIsBusy ==
    ASSUME NEW p \in Processes, Step(p)
    PROVE  ~Idle(p)
BY DEF Step, LoadRaw, LoadScan, LoadPayload, PassIdentities, PassAst, Pass, PassMacros,
   Fail, Truncate, Fill, Return, Idle

\* What steps do to the history.
LEMMA HistorySteps ==
    ASSUME NEW p \in Processes, Begin(p) \/ Step(p)
    PROVE  /\ since' = since \/ Begin(p)
           /\ key' = key \/ Begin(p)
           /\ served' = served \/ (Return(p) /\ ~TookPrelude(p) /\ served' = served \cup {since[p]})
<1> USE DEF locals, bounds
<1>1. CASE Begin(p)
    BY <1>1 DEF Begin
<1>2. CASE LoadRaw(p) \/ LoadScan(p) \/ LoadPayload(p)
    BY <1>2 DEF LoadRaw, LoadScan, LoadPayload
<1>3. CASE PassIdentities(p) \/ PassAst(p) \/ PassMacros(p)
    BY <1>3 DEF PassIdentities, PassAst, Pass, PassMacros
<1>4. CASE Fail(p) \/ Truncate(p) \/ Fill(p)
    BY <1>4 DEF Fail, Truncate, Fill
<1>5. CASE Return(p)
    BY <1>5 DEF Return
<1> QED  BY <1>1, <1>2, <1>3, <1>4, <1>5 DEF Step

\* A file that is there is not removed by those who scan.
LEMMA FilesStay ==
    ASSUME Types, NEW p \in Processes, Begin(p) \/ Step(p),
           NEW k \in Keys, NEW q \in Dumps \cup {"deps"}, cache[k][q] # Absent
    PROVE  cache'[k][q] # Absent
<1>1. q \in Parts /\ q # "scan" /\ "deps" \notin Dumps
    BY DEF Parts, Dumps
<1>2. CASE Truncate(p)
    BY <1>1, <1>2, Marks DEF Truncate, Types
<1>3. CASE Fill(p)
    <2>1. \A d \in Dumps : result[p][d] # Absent
        BY Marks DEF Types, Scans
    <2>2. stamps[p] # Absent
        BY Marks DEF Types
    <2> QED  BY <1>1, <1>3, <2>1, <2>2 DEF Fill, Types
<1>4. CASE cache' = cache
    BY <1>4
<1> QED  BY <1>2, <1>3, <1>4, QuietSteps

\* What is ready stays ready while processes scan, whoever writes it.
LEMMA ReadyStep ==
    ASSUME Types, NEW p \in Processes, Begin(p) \/ Step(p), Serving(p), Together(p),
           NEW k \in Keys, k = version[Direct], Ready(k)
    PROVE  Ready(k)'
<1>1. Frame(p)
    BY FrameStep
<1>2. \A q \in Dumps \cup {"deps"} : cache'[k][q] # Absent
    BY FilesStay DEF Ready
<1>3. "deps" \in Parts /\ "deps" \notin Dumps
    BY DEF Parts, Dumps
<1>4. ASSUME cache'[k]["deps"] = cache[k]["deps"],
             pc[p] = "fill" => ~(key[p] = k /\ part[p] = "deps")
      PROVE  Ready(k)'
    <2>1. BeingWritten(k, "deps") => BeingWritten(k, "deps")'
        BY <1>1, <1>4 DEF BeingWritten, Frame
    <2> QED  BY <1>1, <1>2, <1>4, <2>1 DEF Ready, Frame
<1>5. CASE cache' = cache /\ pc[p] # "fill"
    BY <1>4, <1>5
<1>6. CASE Truncate(p)
    <2>1. CASE key[p] = k /\ part[p] = "deps"
        <3>1. pc'[p] = "fill" /\ key'[p] = k /\ part'[p] = "deps"
            BY <1>6, <2>1 DEF Truncate, Goto, Types
        <3> QED  BY <1>2, <3>1 DEF Ready, BeingWritten
    <2>2. CASE ~(key[p] = k /\ part[p] = "deps")
        <3>1. cache'[k]["deps"] = cache[k]["deps"]
            BY <1>3, <1>6, <2>2 DEF Truncate, Types
        <3> QED  BY <1>4, <2>2, <3>1
    <2> QED  BY <2>1, <2>2
<1>7. CASE Fill(p)
    <2>1. CASE key[p] = k /\ part[p] = "deps"
        <3>1. since[p] = version
            BY <1>7, <2>1 DEF Together, Fill, Idle
        <3>2. stamps[p] = version
            BY <1>7, <2>1, <3>1 DEF Serving, Fill
        <3>3. cache'[k]["deps"] = version
            BY <1>3, <1>7, <2>1, <3>2 DEF Fill, Types
        <3> QED  BY <1>1, <1>2, <3>3 DEF Ready, Frame
    <2>2. CASE ~(key[p] = k /\ part[p] = "deps")
        <3>1. cache'[k]["deps"] = cache[k]["deps"]
            BY <1>3, <1>7, <2>2 DEF Fill, Types
        <3> QED  BY <1>4, <2>2, <3>1
    <2> QED  BY <2>1, <2>2
<1> QED  BY <1>5, <1>6, <1>7, QuietSteps

\* What was asked for stays in the past.
LEMMA AskedStep ==
    ASSUME Types, History, Asked, [Next]_vars
    PROVE  Asked'
<1> USE DEF locals, bounds
<1>0. version \in Versions /\ \A f \in Files : version[f] \in Nat
    BY DEF Types, Versions
<1>1. ASSUME NEW p \in Processes, Begin(p)  PROVE Asked'
    <2>1. /\ served' = served /\ version' = version
          /\ \A q \in Processes : /\ since'[q] = IF q = p THEN version ELSE since[q]
                                  /\ key'[q] = IF q = p THEN version[Direct] ELSE key[q]
        BY <1>1 DEF Begin, Types, History
    <2>2. Before(version, version)
        BY <1>0 DEF Before
    <2> QED  BY <2>1, <2>2 DEF Asked, Before
<1>2. ASSUME NEW p \in Processes, Step(p)  PROVE Asked'
    <2>1. since' = since /\ key' = key /\ served' \subseteq served \cup {since[p]}
        BY <1>2, HistorySteps, StepIsBusy DEF Begin
    <2>2. version' = version
        BY <1>2, FrameStep DEF Frame
    <2> QED  BY <2>1, <2>2 DEF Asked, Before
<1>3. ASSUME NEW f \in Files, SaveHeader(f)  PROVE Asked'
    <2>1. version' = [version EXCEPT ![f] = @ + 1] /\ UNCHANGED <<since, key, served>>
        BY <1>3 DEF SaveHeader
    <2>2. \A g \in Files : version'[g] \in Nat /\ version[g] <= version'[g]
        BY <1>0, <2>1 DEF Types
    <2>3. ASSUME NEW v \in Versions, Before(v, version)  PROVE Before(v, version')
        BY <1>0, <2>2, <2>3 DEF Before, Versions
    <2>4. \A v \in served : v \in Versions
        BY DEF History
    <2>5. \A p \in Processes : since[p] \in Versions
        BY DEF History
    <2> QED  BY <2>1, <2>3, <2>4, <2>5 DEF Asked, Before
<1>4. ASSUME UNCHANGED <<since, key, version>>, served' \subseteq served  PROVE Asked'
    BY <1>4 DEF Asked, Before
<1>5. \A p \in Processes : Kill(p) => UNCHANGED <<since, key, version, served>>
    BY DEF Kill
<1>6. Clean => UNCHANGED <<since, key, version>> /\ served' = {}
    BY DEF Clean
<1>7. UNCHANGED vars => UNCHANGED <<since, key, version, served>>
    BY DEF vars
<1> QED  BY <1>1, <1>2, <1>3, <1>4, <1>5, <1>6, <1>7 DEF Next, Finished

\* Calls under the current key were asked for the headers as they are.
LEMMA TogetherStep ==
    ASSUME Inv, History, Calm(scenario), [Next]_vars,
           \A p \in Processes : Together(p)
    PROVE  \A p \in Processes : Together(p)'
<1> USE DEF locals, bounds, Inv
<1>1. ASSUME NEW p \in Processes, Begin(p), NEW q \in Processes  PROVE Together(q)'
    <2>1. /\ version' = version
          /\ since'[q] = IF q = p THEN version ELSE since[q]
        BY <1>1 DEF Begin, History
    <2>2. q # p => pc'[q] = pc[q] /\ key'[q] = key[q]
        BY <1>1, FrameStep DEF Frame
    <2> QED  BY <2>1, <2>2 DEF Together, Idle
<1>2. ASSUME NEW p \in Processes, Step(p), NEW q \in Processes  PROVE Together(q)'
    <2>1. since' = since /\ key' = key /\ version' = version
        BY <1>2, HistorySteps, StepIsBusy, FrameStep DEF Begin, Frame
    <2>2. Idle(q) => Idle(q)'
        BY <1>2, StepIsBusy, FrameStep DEF Frame, Idle
    <2> QED  BY <2>1, <2>2 DEF Together
<1>3. ASSUME NEW p \in Processes, Kill(p), NEW q \in Processes  PROVE Together(q)'
    <2>1. UNCHANGED <<since, key, version>> /\ (Idle(q) => Idle(q)')
        BY <1>3 DEF Kill, Goto, Idle, Types
    <2> QED  BY <2>1 DEF Together
<1>4. ASSUME NEW f \in Files, SaveHeader(f), NEW q \in Processes  PROVE Together(q)'
    <2>1. version' = [version EXCEPT ![f] = @ + 1] /\ UNCHANGED <<since, key, pc>>
        BY <1>4 DEF SaveHeader
    <2>2. CASE \A p \in Processes : Idle(p)
        BY <2>1, <2>2 DEF Together, Idle
    <2>3. CASE f = Direct
        <3>1. key[q] \in Nat /\ key[q] <= version[Direct] /\ version[Direct] \in Nat
            BY Initially DEF Types, Past, Keys, Versions
        <3>2. key'[q] # version'[Direct]
            BY <2>1, <2>3, <3>1 DEF Types, Versions
        <3> QED  BY <3>2 DEF Together
    <2> QED  BY <1>4, <2>2, <2>3 DEF SaveHeader, Calm
<1>5. ASSUME UNCHANGED <<since, key, version, pc>>, NEW q \in Processes  PROVE Together(q)'
    BY <1>5 DEF Together, Idle
<1>6. Clean => UNCHANGED <<since, key, version, pc>>
    BY DEF Clean
<1>7. UNCHANGED vars => UNCHANGED <<since, key, version, pc>>
    BY DEF vars
<1> QED  BY <1>1, <1>2, <1>3, <1>4, <1>5, <1>6, <1>7 DEF Next, Finished

\* What others do to what a process has found or stored.
LEMMA OthersKeepServing ==
    ASSUME Types, History, Asked, NEW p \in Processes, NEW q \in Processes, q # p,
           Begin(p) \/ Step(p), Serving(p), Together(p), Serving(q)
    PROVE  Serving(q)'
<1>1. /\ version' = version /\ pc'[q] = pc[q] /\ key'[q] = key[q] /\ result'[q] = result[q]
      /\ stamps'[q] = stamps[q] /\ part'[q] = part[q]
    BY FrameStep DEF Frame
<1>2. since'[q] = since[q]
    BY HistorySteps DEF Begin, History
<1> PICK k \in Keys : k = key[q]
    BY DEF Types
<1> SUFFICES ASSUME since[q] = version
             PROVE  Serving(q)'
    BY <1>1, <1>2 DEF Serving
<1>3. k = version[Direct]
    BY DEF Asked
<1>4. Ready(k) => Ready(k)'
    BY <1>3, ReadyStep
<1>5. \A d \in Dumps : cache[k][d] # Absent => cache'[k][d] # Absent
    BY FilesStay
<1>6. \A d \in Done(part[q]) : d \in Dumps
    BY DEF Done, Dumps
<1>7. k = key'[q] /\ Done(part[q])' = Done(part[q])
    BY <1>1 DEF Done
<1>8. (Loading(q) \/ (pc[q] = "done" /\ ~TookPrelude(q)))' => Ready(k)'
    BY <1>1, <1>4 DEF Serving, Loading, TookPrelude
<1>9. Storing(q)' => \A d \in Done(part[q])' : cache'[k][d] # Absent
    BY <1>1, <1>5, <1>6, <1>7 DEF Serving, Storing
<1>10. Ready(k)' => Ready(key[q])'
    BY <1>7 DEF Ready, BeingWritten
<1> QED  BY <1>1, <1>2, <1>7, <1>8, <1>9, <1>10 DEF Serving

\* What a process finds and stores itself.
LEMMA OwnServing ==
    ASSUME Types, History, Asked, NEW p \in Processes, Step(p), Serving(p), Together(p)
    PROVE  Serving(p)'
<1> USE DEF locals, bounds
<1>1. version' = version /\ since' = since /\ key' = key
    BY HistorySteps, StepIsBusy, FrameStep DEF Begin, Frame
<1> PICK k \in Keys : k = key[p]
    BY DEF Types
<1> SUFFICES ASSUME since[p] = version
             PROVE  Serving(p)'
    BY <1>1 DEF Serving
<1>2. k = version[Direct] /\ k = key'[p]
    BY <1>1 DEF Asked
<1>3. ASSUME ~Loading(p)', ~Storing(p)', (pc[p] = "done" /\ ~TookPrelude(p))' => Ready(k)
      PROVE  Serving(p)'
    <2>1. (pc[p] = "done" /\ ~TookPrelude(p))' => Ready(key[p])'
        BY <1>2, <1>3, ReadyStep DEF Ready, BeingWritten
    <2>2. (pc[p] = "fill" /\ part[p] = "deps")' => FALSE
        BY <1>3 DEF Storing
    <2> QED  BY <1>1, <1>3, <2>1, <2>2 DEF Serving
<1>4. ASSUME Ready(k), ~Storing(p)'  PROVE Serving(p)'
    <2>1. Ready(key[p])'
        BY <1>2, <1>4, ReadyStep DEF Ready, BeingWritten
    <2>2. (pc[p] = "fill" /\ part[p] = "deps")' => FALSE
        BY <1>4 DEF Storing
    <2> QED  BY <1>1, <1>4, <2>1, <2>2 DEF Serving
<1>5. CASE LoadRaw(p)
    <2>1. pc'[p] = "identities" \/ (pc'[p] \in {"done", "scan"} /\ RawHit(k))
        BY <1>5 DEF LoadRaw, Goto, Types
    <2>2. RawHit(k) => Ready(k)
        BY DEF RawHit, Ready
    <2> QED  BY <1>3, <1>4, <2>1, <2>2 DEF Loading, Storing
<1>6. CASE LoadScan(p)
    <2>1. pc[p] = "scan" /\ pc'[p] \in {"done", "payload"}
        BY <1>6 DEF LoadScan, Goto, Types
    <2>2. Ready(k)
        BY <2>1 DEF Serving, Loading
    <2> QED  BY <1>4, <2>1, <2>2 DEF Storing
<1>7. CASE LoadPayload(p)
    <2>1. pc[p] = "payload" /\ (pc'[p] = "identities" \/ (pc'[p] = "truncate" /\ part'[p] = "scan"))
        BY <1>7 DEF LoadPayload, Goto, Types
    <2>2. Ready(k)
        BY <2>1 DEF Serving, Loading
    <2> QED  BY <1>4, <2>1, <2>2 DEF Storing
<1>8. CASE PassIdentities(p) \/ PassAst(p) \/ Fail(p) \/ Return(p)
    <2>1. pc'[p] \in {"ast", "macros", "idle"}
        BY <1>8 DEF PassIdentities, PassAst, Pass, Fail, Return, Goto, Types
    <2> QED  BY <1>3, <2>1 DEF Loading, Storing
<1>9. CASE PassMacros(p)
    <2>1. /\ result'[p]["ast"] = result[p]["ast"]
          /\ \/ pc'[p] = "done" /\ TookPrelude(p)
             \/ pc'[p] = "truncate" /\ part'[p] = "ast"
        BY <1>9, Orders DEF PassMacros, Goto, Stores, Types, Scans, Dumps
    <2>2. CASE pc'[p] = "done" /\ TookPrelude(p)
        <3>1. TookPrelude(p)'
            BY <2>1, <2>2 DEF TookPrelude
        <3> QED  BY <1>3, <2>2, <3>1 DEF Loading, Storing
    <2>3. CASE pc'[p] = "truncate" /\ part'[p] = "ast"
        <3>1. Done(part[p])' = {}
            BY <2>3 DEF Done
        <3> QED  BY <2>3, <3>1 DEF Serving, Loading
    <2> QED  BY <2>1, <2>2, <2>3
<1>10. CASE Truncate(p)
    <2>1. /\ pc[p] = "truncate" /\ pc'[p] = "fill" /\ part'[p] = part[p]
          /\ part[p] = "deps" => stamps'[p] = version
        BY <1>10 DEF Truncate, Goto, Types
    <2>2. CASE part[p] = "scan"
        BY <1>4, <2>1, <2>2 DEF Serving, Loading, Storing
    <2>3. CASE part[p] # "scan"
        <3>1. \A d \in Done(part[p]) : d \in Dumps /\ cache[k][d] # Absent
            BY <2>1, <2>3 DEF Serving, Storing, Done, Dumps
        <3>2. \A d \in Done(part[p]) : cache'[k][d] # Absent
            BY <3>1, FilesStay
        <3>3. Done(part[p])' = Done(part[p])
            BY <2>1 DEF Done
        <3>4. ~Loading(p)'
            BY <2>1, <2>3 DEF Loading
        <3> QED  BY <1>1, <1>2, <2>1, <3>2, <3>3, <3>4 DEF Serving
    <2> QED  BY <2>2, <2>3
<1>11. CASE Fill(p)
    <2>1. /\ pc[p] = "fill"
          /\ \/ part[p] = "scan" /\ pc'[p] = "done"
             \/ part[p] # "scan" /\ pc'[p] = "truncate" /\ part'[p] = After(part[p])
        BY <1>11 DEF Fill, Goto, Types
    <2>2. CASE part[p] = "scan"
        BY <1>4, <2>1, <2>2 DEF Serving, Loading, Storing
    <2>3. CASE part[p] = "deps"
        <3>1. part'[p] = "scan" /\ pc'[p] = "truncate"
            BY <2>1, <2>3, Orders
        <3>2. \A d \in Dumps : cache[k][d] # Absent
            BY <2>1, <2>3 DEF Serving, Storing, Done
        <3>3. \A d \in Dumps : cache'[k][d] # Absent
            BY <3>2, FilesStay
        <3>4. stamps[p] = version /\ "deps" \in Parts /\ "deps" \notin Dumps
            BY <2>1, <2>3 DEF Serving, Parts, Dumps
        <3>5. cache'[k]["deps"] = version
            BY <1>11, <2>3, <3>4 DEF Fill, Types
        <3>6. version # Absent
            BY Marks DEF Types
        <3>7. Ready(key[p])'
            BY <1>1, <1>2, <3>3, <3>5, <3>6 DEF Ready
        <3> QED  BY <3>1, <3>7 DEF Serving, Storing
    <2>4. CASE part[p] \in Dumps
        <3>1. part[p] \notin {"scan", "deps"} /\ part[p] \in Parts
            BY <2>4 DEF Dumps, Parts
        <3>2. Done(After(part[p])) = Done(part[p]) \cup {part[p]}
            BY <2>4, Orders DEF Done, Dumps
        <3>3. \A d \in Done(part[p]) : d \in Dumps /\ cache[k][d] # Absent
            BY <2>1, <3>1 DEF Serving, Storing, Done, Dumps
        <3>4. \A d \in Done(part[p]) : cache'[k][d] # Absent
            BY <3>3, FilesStay
        <3>5. cache'[k][part[p]] # Absent
            <4>1. result[p][part[p]] # Absent
                BY <2>4, Marks DEF Types, Scans
            <4>2. cache' = [cache EXCEPT ![k][part[p]] = result[p][part[p]]]
                BY <1>11, <2>4 DEF Fill, Dumps
            <4> QED  BY <3>1, <4>1, <4>2 DEF Types
        <3>6. pc'[p] = "truncate" /\ Done(part[p])' = Done(part[p]) \cup {part[p]}
            BY <2>1, <3>1, <3>2 DEF Done
        <3>7. part'[p] # "scan"
            BY <2>1, <2>4, <3>1, Orders DEF Dumps
        <3> QED  BY <1>1, <1>2, <3>4, <3>5, <3>6, <3>7 DEF Serving, Loading
    <2> QED  BY <2>2, <2>3, <2>4 DEF Types, Parts
<1> QED  BY <1>5, <1>6, <1>7, <1>8, <1>9, <1>10, <1>11 DEF Step

\* Who is alone and called for what has been served finds current stamps.
LEMMA SparedStep ==
    ASSUME WarmInv, NEW p \in Processes, Step(p), ~scenario.overlap, version \in served,
           pc'[p] # "idle"
    PROVE  pc'[p] \in {"raw", "done"} \/ Loading(p)'
<1> USE DEF locals, bounds
<1>0. Types /\ Whole /\ Alone
    BY DEF WarmInv, Inv
<1>1. ~Idle(p) /\ since[p] = version /\ (pc[p] \in {"raw", "done"} \/ Loading(p))
    BY StepIsBusy DEF WarmInv, Spared
<1> PICK k \in Keys : k = key[p]
    BY <1>0 DEF Types
<1>2. k = version[Direct] /\ Ready(k)
    BY <1>1 DEF WarmInv, Asked, Served
<1>3. ASSUME pc[p] # "fill"
      PROVE  cache[k]["deps"] = version /\ \A d \in Dumps : cache[k][d] = version
    <2>1. \A q \in Processes : pc[q] # "fill"
        BY <1>0, <1>1, <1>3 DEF Alone, Idle
    <2>2. cache[k]["deps"] = version
        BY <1>2, <2>1 DEF Ready, BeingWritten
    <2> QED  BY <1>0, <1>1, <1>2, <1>3, <2>2, AloneFindsWhole DEF Idle
<1>4. CASE LoadRaw(p)
    <2>1. pc[p] = "raw"
        BY <1>4 DEF LoadRaw
    <2>2. RawHit(k)
        BY <1>2, <1>3, <2>1 DEF Ready, RawHit
    <2>3. pc'[p] \in {"done", "scan"}
        BY <1>0, <1>4, <2>2 DEF LoadRaw, Goto, Types
    <2> QED  BY <2>3 DEF Loading
<1>5. CASE LoadScan(p)
    <2>1. pc'[p] \in {"done", "payload"}
        BY <1>0, <1>5 DEF LoadScan, Goto, Types
    <2> QED  BY <2>1 DEF Loading
<1>6. CASE LoadPayload(p)
    <2>1. pc[p] = "payload" /\ "ast" \in Dumps
        BY <1>6 DEF LoadPayload, Dumps
    <2>2. version # Absent /\ version # Empty
        BY <1>0, Marks DEF Types
    <2>3. \A d \in Dumps : cache[k][d] # Absent /\ cache[k][d] # Empty
        BY <1>3, <2>1, <2>2
    <2>4. pc'[p] = "truncate" /\ part'[p] = "scan"
        BY <1>0, <1>6, <2>1, <2>3 DEF LoadPayload, Goto, Types
    <2> QED  BY <2>4 DEF Loading
<1>7. CASE PassIdentities(p) \/ PassAst(p) \/ PassMacros(p) \/ Fail(p)
    <2>1. pc[p] \in {"identities", "ast", "macros"}
        BY <1>7 DEF PassIdentities, PassAst, Pass, PassMacros, Fail
    <2> QED  BY <1>1, <2>1 DEF Loading
<1>8. CASE Truncate(p)
    <2>1. pc[p] = "truncate" /\ pc'[p] = "fill" /\ part'[p] = part[p]
        BY <1>0, <1>8 DEF Truncate, Goto, Types
    <2> QED  BY <1>1, <2>1 DEF Loading
<1>9. CASE Fill(p)
    <2>1. pc[p] = "fill" /\ (part[p] = "scan" => pc'[p] = "done")
        BY <1>0, <1>9 DEF Fill, Goto, Types
    <2> QED  BY <1>1, <2>1 DEF Loading
<1>10. CASE Return(p)
    BY <1>0, <1>10 DEF Return, Goto, Types
<1> QED  BY <1>4, <1>5, <1>6, <1>7, <1>8, <1>9, <1>10 DEF Step

\* What processes keep of it while they scan.
LEMMA WarmWork ==
    ASSUME WarmInv, NEW p \in Processes, Begin(p) \/ Step(p)
    PROVE  Served' /\ \A q \in Processes : Serving(q)' /\ Spared(q)'
<1>0. Types /\ History /\ Asked /\ Alone
    BY DEF WarmInv, Inv
<1>1. Frame(p) /\ version' = version /\ scenario' = scenario
    BY <1>0, FrameStep DEF Frame
<1>2. Serving(p) /\ Together(p)
    BY DEF WarmInv
<1>3. version \in Versions /\ Direct \in Files
    BY <1>0, Initially DEF Types
<1>4. ASSUME version \in served'  PROVE Served'
    <2>1. PICK k : k = version[Direct]
        OBVIOUS
    <2>2. CASE version \in served
        <3>1. Ready(k)
            BY <2>1, <2>2 DEF WarmInv, Served
        <3>2. k \in Keys
            <4>1. version[Direct] \in 0 .. saves /\ saves \in 0 .. MaxSaves /\ MaxSaves \in Nat
                BY <1>0, <1>3, HeaderCacheAssumption DEF Types, Keys
            <4> QED  BY <2>1, <4>1 DEF Keys
        <3>3. Ready(k)'
            BY <1>0, <1>2, <2>1, <3>1, <3>2, ReadyStep
        <3> QED  BY <1>1, <2>1, <3>3 DEF Served, Ready, BeingWritten
    <2>3. CASE Return(p) /\ ~TookPrelude(p) /\ since[p] = version
        <3>1. k = key[p] /\ k \in Keys
            BY <1>0, <2>1, <2>3 DEF Asked, Types
        <3>2. Ready(k)
            BY <1>2, <2>3, <3>1 DEF Serving, Return
        <3>3. Ready(k)'
            BY <1>0, <1>2, <2>1, <3>1, <3>2, ReadyStep
        <3> QED  BY <1>1, <2>1, <3>3 DEF Served, Ready, BeingWritten
    <2> QED  BY <1>4, <2>2, <2>3, HistorySteps
<1>5. Served'
    BY <1>1, <1>4 DEF Served
<1>6. ASSUME NEW q \in Processes  PROVE Serving(q)'
    <2>1. CASE q # p
        BY <1>0, <1>2, <2>1, OthersKeepServing DEF WarmInv
    <2>2. CASE q = p /\ Begin(p)
        <3>1. pc'[p] = "raw"
            BY <1>0, <2>2 DEF Begin, Goto, Types
        <3> QED  BY <2>2, <3>1 DEF Serving, Loading, Storing
    <2>3. CASE q = p /\ Step(p)
        BY <1>0, <1>2, <2>3, OwnServing
    <2> QED  BY <2>1, <2>2, <2>3
<1>7. ASSUME NEW q \in Processes  PROVE Spared(q)'
    <2> SUFFICES ASSUME ~Idle(q)', ~scenario.overlap, version \in served'
                 PROVE  since'[q] = version /\ (pc[q] \in {"raw", "done"} \/ Loading(q))'
        BY <1>1 DEF Spared
    <2>1. CASE Begin(p)
        <3>1. q = p
            BY <1>1, <2>1 DEF Begin, Frame, Idle
        <3>2. pc'[p] = "raw" /\ since'[p] = version
            BY <1>0, <2>1 DEF Begin, Goto, Types, History
        <3> QED  BY <3>1, <3>2
    <2>2. CASE Step(p)
        <3>1. ~Idle(p) /\ q = p
            BY <1>0, <1>1, <2>2, StepIsBusy DEF Alone, Frame, Idle
        <3>2. ~Return(p)
            BY <1>0, <3>1 DEF Return, Goto, Idle, Types
        <3>3. since' = since /\ served' = served
            BY <2>2, <3>1, <3>2, HistorySteps DEF Begin
        <3>4. since[p] = version
            BY <3>1, <3>3 DEF WarmInv, Spared
        <3>5. (pc[p] \in {"raw", "done"} \/ Loading(p))'
            BY <2>2, <3>1, <3>3, SparedStep DEF Idle
        <3> QED  BY <3>1, <3>3, <3>4, <3>5
    <2> QED  BY <2>1, <2>2
<1> QED  BY <1>5, <1>6, <1>7

\* A process that is killed was not writing stamps for what has been served.
LEMMA WarmKill ==
    ASSUME WarmInv, Calm(scenario), NEW p \in Processes, Kill(p)
    PROVE  Served' /\ \A q \in Processes : Serving(q)' /\ Spared(q)'
<1>0. Types /\ Alone /\ ~scenario.overlap
    BY DEF WarmInv, Inv, Kill, Calm
<1>1. /\ UNCHANGED <<version, cache, key, result, stamps, part, since, scenario, served>>
      /\ \A q \in Processes : pc'[q] = IF q = p THEN "idle" ELSE pc[q]
    BY <1>0 DEF Kill, Goto, Types, locals
<1>2. CASE Idle(p)
    <2>1. pc' = pc
        BY <1>0, <1>1, <1>2 DEF Idle, Types, Kill, Goto
    <2>2. Served'
        BY <1>1, <2>1 DEF WarmInv, Served, Ready, BeingWritten
    <2>3. ASSUME NEW q \in Processes  PROVE Serving(q)' /\ Spared(q)'
        <3>1. Serving(q) /\ Spared(q)
            BY DEF WarmInv
        <3>2. Serving(q)'
            BY <1>1, <2>1, <3>1 DEF Serving, Loading, Storing, TookPrelude, Done, Ready, BeingWritten
        <3>3. Spared(q)'
            BY <1>1, <2>1, <3>1 DEF Spared, Loading, Idle
        <3> QED  BY <3>2, <3>3
    <2> QED  BY <2>2, <2>3
<1>3. CASE ~Idle(p)
    <2>1. \A q \in Processes : pc'[q] = "idle"
        BY <1>0, <1>1, <1>3 DEF Alone, Idle
    <2>2. \A q \in Processes : Serving(q)' /\ Spared(q)'
        BY <2>1 DEF Serving, Spared, Loading, Storing, Idle
    <2>3. ASSUME version \in served  PROVE Ready(version[Direct])'
        <3>1. PICK k : k = version[Direct]
            OBVIOUS
        <3>2. Ready(k)
            BY <2>3, <3>1 DEF WarmInv, Served
        <3>3. ~BeingWritten(k, "deps")
            <4>1. pc[p] \in {"raw", "done"} \/ Loading(p)
                BY <1>0, <1>3, <2>3 DEF WarmInv, Spared
            <4>2. ~(pc[p] = "fill" /\ part[p] = "deps")
                BY <4>1 DEF Loading
            <4> QED  BY <1>0, <1>3, <4>2 DEF Alone, Idle, BeingWritten
        <3> QED  BY <1>1, <3>1, <3>2, <3>3 DEF Ready
    <2>4. Served'
        BY <1>1, <2>3 DEF Served
    <2> QED  BY <2>2, <2>4
<1> QED  BY <1>2, <1>3

\* After a save nobody has been served, or called, for the headers as they are.
LEMMA WarmSave ==
    ASSUME WarmInv, NEW f \in Files, SaveHeader(f)
    PROVE  Served' /\ \A q \in Processes : Serving(q)' /\ Spared(q)'
<1>1. version' = [version EXCEPT ![f] = @ + 1] /\ UNCHANGED <<served, since>>
    BY DEF SaveHeader, locals
<1>2. version[f] \in Nat /\ version'[f] = version[f] + 1
    BY <1>1 DEF WarmInv, Inv, Types, Versions
<1>3. ASSUME NEW v, Before(v, version)  PROVE v # version'
    BY <1>2, <1>3 DEF Before
<1>4. version' \notin served
    BY <1>3 DEF WarmInv, Asked
<1>5. \A q \in Processes : since[q] # version'
    BY <1>3 DEF WarmInv, Asked
<1> QED  BY <1>1, <1>4, <1>5 DEF Served, Serving, Spared

\* After cleaning nobody has been served.
LEMMA WarmClean ==
    ASSUME WarmInv, Clean
    PROVE  Served' /\ \A q \in Processes : Serving(q)' /\ Spared(q)'
<1>1. served' = {} /\ \A q \in Processes : pc'[q] = "idle"
    BY DEF Clean, Idle
<1> QED  BY <1>1 DEF Served, Serving, Spared, Loading, Storing, Idle

\* Nothing happens.
LEMMA WarmStutter ==
    ASSUME WarmInv, UNCHANGED vars
    PROVE  Served' /\ \A q \in Processes : Serving(q)' /\ Spared(q)'
<1>1. UNCHANGED <<version, cache, pc, key, result, stamps, part, since, scenario, served>>
    BY DEF vars, locals, bounds
<1>2. Served'
    BY <1>1 DEF WarmInv, Served, Ready, BeingWritten
<1>3. ASSUME NEW q \in Processes  PROVE Serving(q)' /\ Spared(q)'
    <2>1. Serving(q) /\ Spared(q)
        BY DEF WarmInv
    <2>2. Serving(q)'
        BY <1>1, <2>1 DEF Serving, Loading, Storing, TookPrelude, Done, Ready, BeingWritten
    <2>3. Spared(q)'
        BY <1>1, <2>1 DEF Spared, Loading, Idle
    <2> QED  BY <2>2, <2>3
<1> QED  BY <1>2, <1>3

\* Every step keeps what warm scans rest on.
LEMMA WarmStep ==
    ASSUME WarmInv, \A s \in Scenarios : Calm(s), [Next]_vars
    PROVE  WarmInv'
<1>1. Calm(scenario)
    BY DEF WarmInv, Inv
<1>2. Inv' /\ History'
    BY InvStep, HistoryStep DEF WarmInv, Inv
<1>3. Asked' /\ \A q \in Processes : Together(q)'
    BY <1>1, AskedStep, TogetherStep DEF WarmInv, Inv
<1> DEFINE Kept == Served' /\ \A q \in Processes : Serving(q)' /\ Spared(q)'
<1>4. ASSUME NEW p \in Processes, Begin(p) \/ Step(p)  PROVE Kept
    BY <1>4, WarmWork
<1>5. ASSUME NEW p \in Processes, Kill(p)  PROVE Kept
    BY <1>1, <1>5, WarmKill
<1>6. ASSUME NEW f \in Files, SaveHeader(f)  PROVE Kept
    BY <1>6, WarmSave
<1>7. ASSUME Clean  PROVE Kept
    BY <1>7, WarmClean
<1>8. ASSUME Finished \/ UNCHANGED vars  PROVE Kept
    BY <1>8, WarmStutter DEF Finished
<1> HIDE DEF Kept
<1>9. Kept
    BY <1>4, <1>5, <1>6, <1>7, <1>8 DEF Next
<1> QED  BY <1>2, <1>3, <1>9 DEF WarmInv, Kept

\* It holds at the start.
LEMMA WarmInit ==
    ASSUME Init
    PROVE  WarmInv
<1>1. Inv /\ History
    BY InvInit
<1>2. /\ served = {} /\ version = Blank
      /\ \A p \in Processes : pc[p] = "idle" /\ since[p] = Blank /\ key[p] = 0
    BY DEF Init
<1>3. Before(Blank, Blank) /\ Blank[Direct] = 0
    BY Initially DEF Before, Blank
<1>4. Asked /\ Served
    BY <1>2, <1>3 DEF Asked, Served
<1>5. \A p \in Processes : Serving(p) /\ Together(p) /\ Spared(p)
    BY <1>2 DEF Serving, Together, Spared, Loading, Storing, Idle
<1> QED  BY <1>1, <1>4, <1>5 DEF WarmInv

\* A process that begins to scan what was served finds it being written.
LEMMA WarmScan ==
    ASSUME WarmInv, [Next]_vars, NEW p \in Processes, pc'[p] = "identities",
           pc[p] # "identities", since[p] = version, version \in served
    PROVE  \/ BeingWritten(key[p], "deps")
           \/ BeingWritten(key[p], "ast") /\ BeingWritten(key[p], "macros")
<1>0. Types /\ Whole
    BY DEF WarmInv, Inv
<1>1. key[p] = version[Direct] /\ key[p] \in Keys /\ Ready(key[p])
    BY <1>0 DEF WarmInv, Asked, Served, Types
<1>2. ASSUME LoadRaw(p)  PROVE BeingWritten(key[p], "deps")
    <2>1. ~RawHit(key[p])
        BY <1>0, <1>2 DEF LoadRaw, Goto, Types
    <2> QED  BY <1>1, <2>1 DEF RawHit, Ready
<1>3. ASSUME LoadPayload(p), ~BeingWritten(key[p], "deps")
      PROVE  BeingWritten(key[p], "ast") /\ BeingWritten(key[p], "macros")
    <2>1. "ast" \in Dumps /\ "macros" \in Dumps
        BY DEF Dumps
    <2>2. \A d \in Dumps : cache[key[p]][d] # Absent
        BY <1>1 DEF Ready
    <2>3. cache[key[p]]["ast"] = Empty /\ cache[key[p]]["macros"] = Empty
        BY <1>0, <1>3, <2>1, <2>2 DEF LoadPayload, Goto, Types
    <2>4. version # Empty
        BY <1>0, Marks DEF Types
    <2>5. cache[key[p]]["deps"] = version
        BY <1>1, <1>3 DEF Ready
    <2>6. Good(key[p], "ast") /\ Good(key[p], "macros")
        BY <1>0, <1>1, <2>1, <2>5 DEF Whole
    <2> QED  BY <2>3, <2>4, <2>6 DEF Good, BeingWritten
<1>4. LoadRaw(p) \/ LoadPayload(p)
    <2>1. ASSUME NEW q \in Processes, Begin(q) \/ Step(q) \/ Kill(q)
          PROVE  q = p
        BY <1>0, <2>1, FrameStep DEF Frame
    <2>2. ~Begin(p) /\ ~Kill(p)
        BY <1>0 DEF Begin, Kill, Goto, Types
    <2>3. pc' # pc
        OBVIOUS
    <2>4. Step(p)
        BY <2>1, <2>2, <2>3 DEF Next, SaveHeader, Clean, Finished, vars
    <2>5. CASE LoadScan(p)
        BY <1>0, <2>5 DEF LoadScan, Goto, Types
    <2>6. CASE PassIdentities(p) \/ PassAst(p) \/ PassMacros(p)
        BY <1>0, <2>6 DEF PassIdentities, PassAst, Pass, PassMacros, Goto, Types
    <2>7. CASE Fail(p) \/ Truncate(p) \/ Fill(p) \/ Return(p)
        BY <1>0, <2>7 DEF Fail, Truncate, Fill, Return, Goto, Types
    <2> QED  BY <2>4, <2>5, <2>6, <2>7 DEF Step
<1> QED  BY <1>2, <1>3, <1>4

-----------------------------------------------------------------------------
(* The import's own header alone is saved *)

\* Processes take turns, and what the import's header includes is never saved.
Sole(s) == ~s.overlap /\ s.between \cup s.during \subseteq {Direct}

\* The version is from the past, and the import's header in it is that of the
\* key or newer.
Of(k, v) == v \in Versions /\ Before(v, version) /\ k <= v[Direct]
OfScan(k, scan) == \A d \in Dumps : Of(k, scan[d])

\* What is kept under a key is of the key.
KeptOf ==
    /\ \A k \in Keys, d \in Dumps : cache[k][d] \notin {Absent, Empty} => Of(k, cache[k][d])
    /\ \A k \in Keys : Decodes(cache[k]["scan"]) => OfScan(k, cache[k]["scan"])
    /\ \A p \in Processes, k \in Keys : memory[p][k] # None => OfScan(k, memory[p][k])

\* So is what a process has, or will load: it finds current stamps only under
\* the current key, and whole dumps beside them.
Holding(p) ==
    /\ (pc[p] = "raw" /\ cache[key[p]]["deps"] \in Versions) =>
          cache[key[p]]["deps"][Direct] <= key[p]
    /\ pc[p] \in {"scan", "payload"} => \A d \in Dumps : cache[key[p]][d] \notin {Absent, Empty}
    /\ pc[p] \in {"ast", "macros"} => Of(key[p], result[p]["identities"])
    /\ pc[p] = "macros" => Of(key[p], result[p]["ast"])
    /\ pc[p] \in {"truncate", "fill", "done"} => OfScan(key[p], result[p])

Resting == \A f \in Files : f # Direct => version[f] = 0

\* Everything that the refinement rests on where included headers rest.
SoleInv ==
    /\ Inv /\ History /\ Asked /\ Resting /\ KeptOf /\ Sole(scenario)
    /\ \A p \in Processes : Holding(p)

\* What is of a key stays so while headers are saved.
LEMMA OfStays ==
    ASSUME Types, Types', NEW k \in Keys, NEW v, Of(k, v),
           \A f \in Files : version[f] <= version'[f]
    PROVE  Of(k, v)'
<1>1. \A f \in Files : v[f] \in Nat /\ version[f] \in Nat /\ version'[f] \in Nat
    BY DEF Of, Types, Versions
<1> QED  BY <1>1 DEF Of, Before

\* So does a scan.
LEMMA OfScanStays ==
    ASSUME Types, Types', NEW k \in Keys, NEW scan, OfScan(k, scan),
           \A f \in Files : version[f] <= version'[f]
    PROVE  OfScan(k, scan)'
<1>1. \A d \in Dumps : Of(k, scan[d])'
    BY OfStays DEF OfScan
<1> QED  BY <1>1 DEF OfScan

\* What clang reads now is of the key.
LEMMA OfNow ==
    ASSUME Types, Past, NEW p \in Processes
    PROVE  Of(key[p], version)
<1>1. \A f \in Files : version[f] \in Nat
    BY DEF Types, Versions
<1> QED  BY <1>1 DEF Of, Before, Types, Past

\* What a process finds, reads and writes.
LEMMA HoldingStep ==
    ASSUME SoleInv, Types', NEW p \in Processes, Begin(p) \/ Step(p)
    PROVE  Holding(p)'
<1> USE DEF locals, bounds
<1>0. /\ Types /\ Past /\ Whole /\ Alone /\ ~scenario.overlap /\ KeptOf /\ Holding(p)
      /\ version' = version
    BY FrameStep DEF SoleInv, Inv, Sole, Frame
<1>1. \A f \in Files : version[f] <= version'[f]
    BY <1>0 DEF Types, Versions
<1>2. version \in Versions /\ version # Absent /\ version # Empty
    BY <1>0, Marks DEF Types
<1>3. ASSUME pc'[p] \in {"idle", "identities"}  PROVE Holding(p)'
    BY <1>3 DEF Holding
<1>4. ASSUME NEW k \in Keys, k = key'[p], pc'[p] \in {"truncate", "fill", "done"},
             OfScan(k, result'[p])
      PROVE  Holding(p)'
    <2>1. PICK r : r = result'[p]
        OBVIOUS
    <2>2. OfScan(k, r)'
        BY <1>0, <1>1, <1>4, <2>1, OfScanStays
    <2> QED  BY <1>4, <2>1, <2>2 DEF Holding
<1>5. CASE Begin(p)
    <2>1. pc'[p] = "raw" /\ key'[p] = version[Direct] /\ cache' = cache /\ key'[p] \in Keys
        BY <1>0, <1>5 DEF Begin, Goto, Types
    <2>2. cache[key'[p]]["deps"] \in Versions => cache[key'[p]]["deps"][Direct] <= version[Direct]
        BY <1>0, <2>1, Initially DEF Past
    <2> QED  BY <2>1, <2>2 DEF Holding
<1> SUFFICES ASSUME Step(p)
             PROVE  Holding(p)'
    BY <1>5
<1> PICK k \in Keys : k = key[p]
    BY <1>0 DEF Types
<1>6. key'[p] = k
    BY HistorySteps, StepIsBusy DEF Begin
<1>7. CASE LoadRaw(p)
    <2>1. /\ pc[p] = "raw" /\ cache' = cache
          /\ \/ pc'[p] = "identities"
             \/ RawHit(k) /\ pc'[p] = "scan"
             \/ pc'[p] = "done" /\ memory[p][k] # None /\ result'[p] = memory[p][k]
        BY <1>0, <1>7 DEF LoadRaw, Goto, Types
    <2>2. CASE RawHit(k) /\ pc'[p] = "scan"
        <3>1. cache[k]["deps"] = version
            BY <2>2 DEF RawHit
        <3>2. version[Direct] <= k /\ k <= version[Direct] /\ k \in Nat /\ version[Direct] \in Nat
            BY <1>0, <1>2, <2>1, <3>1, Initially DEF Holding, Past, Versions, Keys
        <3>3. \A d \in Dumps : cache[k][d] = version
            BY <1>0, <2>1, <3>1, <3>2, AloneFindsWhole
        <3>4. \A d \in Dumps : cache'[k][d] \notin {Absent, Empty}
            BY <1>2, <2>1, <3>3
        <3> QED  BY <1>6, <2>2, <3>4 DEF Holding
    <2>3. CASE pc'[p] = "done" /\ memory[p][k] # None /\ result'[p] = memory[p][k]
        <3>1. OfScan(k, result'[p])
            BY <1>0, <2>3 DEF KeptOf
        <3> QED  BY <1>4, <1>6, <2>3, <3>1
    <2> QED  BY <1>3, <2>1, <2>2, <2>3
<1>8. CASE LoadScan(p)
    <2>1. /\ pc[p] = "scan" /\ cache' = cache
          /\ \/ pc'[p] = "payload"
             \/ /\ pc'[p] = "done" /\ Decodes(cache[k]["scan"]) /\ result'[p] = cache[k]["scan"]
        BY <1>0, <1>8 DEF LoadScan, Goto, Types
    <2>2. CASE pc'[p] = "payload"
        BY <1>0, <1>6, <2>1, <2>2 DEF Holding
    <2>3. CASE pc'[p] = "done" /\ Decodes(cache[k]["scan"]) /\ result'[p] = cache[k]["scan"]
        <3>1. OfScan(k, result'[p])
            BY <1>0, <2>3 DEF KeptOf
        <3> QED  BY <1>4, <1>6, <2>3, <3>1
    <2> QED  BY <2>1, <2>2, <2>3
<1>9. CASE LoadPayload(p)
    <2>1. /\ pc[p] = "payload"
          /\ \/ pc'[p] = "identities"
             \/ /\ pc'[p] = "truncate" /\ \A d \in Dumps : result'[p][d] = cache[k][d]
        BY <1>0, <1>9 DEF LoadPayload, Goto, Types
    <2>2. CASE pc'[p] = "truncate" /\ \A d \in Dumps : result'[p][d] = cache[k][d]
        <3>1. \A d \in Dumps : Of(k, cache[k][d])
            BY <1>0, <2>1 DEF Holding, KeptOf
        <3>2. OfScan(k, result'[p])
            BY <2>2, <3>1 DEF OfScan
        <3> QED  BY <1>4, <1>6, <2>2, <3>2
    <2> QED  BY <1>3, <2>1, <2>2
<1>10. Of(k, version) /\ Of(k, version)'
    BY <1>0, <1>1, OfNow, OfStays DEF Of, Before
<1>11. CASE PassIdentities(p)
    <2>1. pc'[p] = "ast" /\ result'[p]["identities"] = version
        BY <1>0, <1>11 DEF PassIdentities, Pass, Goto, Types, Scans, Dumps
    <2> QED  BY <1>0, <1>6, <1>10, <2>1 DEF Holding
<1>12. CASE PassAst(p)
    <2>1. /\ pc[p] = "ast" /\ pc'[p] = "macros" /\ result'[p]["ast"] = version
          /\ result'[p]["identities"] = result[p]["identities"]
        BY <1>0, <1>12 DEF PassAst, Pass, Goto, Types, Scans, Dumps
    <2>2. PICK v : v = result[p]["identities"]
        OBVIOUS
    <2>3. Of(k, v)'
        BY <1>0, <1>1, <2>1, <2>2, OfStays DEF Holding
    <2> QED  BY <1>0, <1>6, <1>10, <2>1, <2>2, <2>3 DEF Holding
<1>13. CASE PassMacros(p)
    <2>1. /\ pc[p] = "macros" /\ pc'[p] \in {"truncate", "done"} /\ result'[p]["macros"] = version
          /\ result'[p]["identities"] = result[p]["identities"] /\ result'[p]["ast"] = result[p]["ast"]
        BY <1>0, <1>13 DEF PassMacros, Goto, Types, Scans, Dumps
    <2>2. Of(k, result[p]["identities"]) /\ Of(k, result[p]["ast"])
        BY <1>0, <2>1 DEF Holding
    <2>3. OfScan(k, result'[p])
        BY <1>10, <2>1, <2>2 DEF OfScan, Dumps
    <2> QED  BY <1>4, <1>6, <2>1, <2>3
<1>14. CASE Truncate(p) \/ Fill(p)
    <2>1. pc[p] \in {"truncate", "fill"} /\ pc'[p] \in {"truncate", "fill", "done"} /\ result' = result
        BY <1>0, <1>14 DEF Truncate, Fill, Goto, Types
    <2>2. OfScan(k, result'[p])
        BY <1>0, <2>1 DEF Holding
    <2> QED  BY <1>4, <1>6, <2>1, <2>2
<1>15. CASE Fail(p) \/ Return(p)
    <2>1. pc'[p] = "idle"
        BY <1>0, <1>15 DEF Fail, Return, Goto, Types
    <2> QED  BY <1>3, <2>1
<1> QED  BY <1>7, <1>8, <1>9, <1>11, <1>12, <1>13, <1>14, <1>15 DEF Step

\* What a process stores and remembers.
LEMMA KeptOfStep ==
    ASSUME SoleInv, Types', NEW p \in Processes, Begin(p) \/ Step(p)
    PROVE  KeptOf'
<1> USE DEF locals, bounds
<1>0. /\ Types /\ KeptOf /\ Holding(p) /\ Holding(p)' /\ version' = version
    BY HoldingStep, FrameStep DEF SoleInv, Inv, Frame
<1>1. \A f \in Files : version[f] <= version'[f]
    BY <1>0 DEF Types, Versions
<1>2. ASSUME NEW k \in Keys, NEW d \in Dumps, cache'[k][d] \notin {Absent, Empty}
      PROVE  Of(k, cache[k][d])'
    <2>1. d \in Parts /\ d # "scan" /\ d # "deps"
        BY DEF Parts, Dumps
    <2>2. PICK v : v = cache'[k][d]
        OBVIOUS
    <2>3. \/ v = cache[k][d]
          \/ pc[p] = "fill" /\ key[p] = k /\ v = result[p][d]
        <3>1. CASE cache' = cache
            BY <2>2, <3>1
        <3>2. CASE Truncate(p)
            BY <1>0, <1>2, <2>1, <2>2, <3>2 DEF Truncate, Types
        <3>3. CASE Fill(p)
            BY <1>0, <2>1, <2>2, <3>3 DEF Fill, Types
        <3> QED  BY <3>1, <3>2, <3>3, QuietSteps
    <2>4. Of(k, v)
        BY <1>0, <1>2, <2>2, <2>3 DEF KeptOf, Holding, OfScan
    <2>5. Of(k, v)'
        BY <1>0, <1>1, <2>4, OfStays
    <2> QED  BY <2>2, <2>5
<1>3. ASSUME NEW k \in Keys, Decodes(cache[k]["scan"])'
      PROVE  OfScan(k, cache[k]["scan"])'
    <2>1. "scan" \in Parts /\ "scan" \notin Dumps
        BY DEF Parts, Dumps
    <2>2. PICK x : x = cache'[k]["scan"]
        OBVIOUS
    <2>3. \/ x = cache[k]["scan"]
          \/ pc[p] = "fill" /\ key[p] = k /\ x = result[p]
        <3>1. CASE cache' = cache
            BY <2>2, <3>1
        <3>2. CASE Truncate(p)
            BY <1>0, <1>3, <2>1, <2>2, <3>2 DEF Truncate, Types, Decodes
        <3>3. CASE Fill(p)
            BY <1>0, <2>1, <2>2, <3>3 DEF Fill, Types
        <3> QED  BY <3>1, <3>2, <3>3, QuietSteps
    <2>4. OfScan(k, x)
        BY <1>0, <1>3, <2>2, <2>3 DEF KeptOf, Holding, Decodes
    <2>5. OfScan(k, x)'
        BY <1>0, <1>1, <2>4, OfScanStays
    <2> QED  BY <2>2, <2>5
<1>4. ASSUME NEW q \in Processes, NEW k \in Keys, memory'[q][k] # None
      PROVE  OfScan(k, memory[q][k])'
    <2>1. PICK x : x = memory'[q][k]
        OBVIOUS
    <2>2. CASE x = memory[q][k]
        <3>1. OfScan(k, x)
            BY <1>0, <1>4, <2>1, <2>2 DEF KeptOf
        <3> QED  BY <1>0, <1>1, <2>1, <3>1, OfScanStays
    <2>3. CASE x # memory[q][k]
        <3>1. /\ q = p /\ k = key[p] /\ x = result'[p]
              /\ LoadScan(p) \/ LoadPayload(p) \/ PassMacros(p) \/ (Fill(p) /\ part[p] = "deps")
            BY <1>0, <1>4, <2>1, <2>3, MemoryStep
        <3>2. key'[p] = key[p]
            BY <3>1 DEF LoadScan, LoadPayload, PassMacros, Fill
        <3>3. pc'[p] \in {"done", "truncate"}
            <4>1. CASE LoadScan(p)
                BY <1>0, <2>1, <2>3, <3>1, <4>1 DEF LoadScan, Goto, Types
            <4>2. CASE LoadPayload(p)
                BY <1>0, <2>1, <2>3, <3>1, <4>2 DEF LoadPayload, Goto, Types
            <4>3. CASE PassMacros(p)
                BY <1>0, <4>3 DEF PassMacros, Goto, Types
            <4>4. CASE Fill(p)
                BY <1>0, <4>4 DEF Fill, Goto, Types
            <4> QED  BY <3>1, <4>1, <4>2, <4>3, <4>4
        <3>4. OfScan(key[p], result[p])'
            BY <1>0, <3>3 DEF Holding
        <3> QED  BY <2>1, <3>1, <3>2, <3>4 DEF OfScan, Of, Before
    <2> QED  BY <2>2, <2>3
<1> QED  BY <1>2, <1>3, <1>4 DEF KeptOf

\* The headers that rest go on resting: what is saved is the import's own.
LEMMA RestingStep ==
    ASSUME SoleInv, [Next]_vars
    PROVE  Resting' /\ \A f \in Files : version[f] <= version'[f]
<1>1. \A f \in Files : version[f] \in Nat
    BY DEF SoleInv, Inv, Types, Versions
<1>2. ASSUME NEW f \in Files, SaveHeader(f)
      PROVE  Resting' /\ \A g \in Files : version[g] <= version'[g]
    <2>1. f = Direct /\ version' = [version EXCEPT ![f] = @ + 1]
        BY <1>2 DEF SaveHeader, SoleInv, Sole
    <2> QED  BY <1>1, <2>1 DEF SoleInv, Resting, Inv, Types
<1>3. ASSUME version' = version
      PROVE  Resting' /\ \A g \in Files : version[g] <= version'[g]
    BY <1>1, <1>3 DEF SoleInv, Resting
<1>4. \A p \in Processes : Begin(p) \/ Step(p) \/ Kill(p) => version' = version
    BY FrameStep DEF SoleInv, Inv, Frame
<1>5. Clean \/ UNCHANGED vars => version' = version
    BY DEF Clean, vars
<1> QED  BY <1>2, <1>3, <1>4, <1>5 DEF Next, Finished

\* What is around the processes: saves, kills, cleaning.
LEMMA SoleSurroundings ==
    ASSUME SoleInv, Types', [Next]_vars,
           \/ \E p \in Processes : Kill(p)
           \/ \E f \in Files : SaveHeader(f)
           \/ Clean
           \/ UNCHANGED vars
    PROVE  KeptOf' /\ \A q \in Processes : Holding(q)'
<1> USE DEF locals, bounds
<1>0. Types /\ KeptOf /\ (\A q \in Processes : Holding(q)) /\ \A f \in Files : version[f] <= version'[f]
    BY RestingStep DEF SoleInv, Inv
<1>1. /\ UNCHANGED <<key, result, stamps, part>>
      /\ \A q \in Processes : pc'[q] = pc[q] \/ pc'[q] = "idle"
      /\ cache' = cache \/ \A k \in Keys, q \in Parts : cache'[k][q] = Absent
      /\ cache' = cache \/ \A q \in Processes : pc'[q] = "idle"
      /\ \A q \in Processes, k \in Keys : memory'[q][k] = memory[q][k] \/ memory'[q][k] = None
    <2>1. CASE \E p \in Processes : Kill(p)
        BY <1>0, <2>1 DEF Kill, Goto, Types
    <2>2. CASE \E f \in Files : SaveHeader(f)
        BY <2>2 DEF SaveHeader
    <2>3. CASE Clean
        BY <2>3 DEF Clean, Idle
    <2>4. CASE UNCHANGED vars
        BY <2>4 DEF vars
    <2> QED  BY <2>1, <2>2, <2>3, <2>4
<1>2. KeptOf'
    <2>1. ASSUME NEW k \in Keys, NEW d \in Dumps, cache'[k][d] \notin {Absent, Empty}
          PROVE  Of(k, cache[k][d])'
        <3>1. PICK v : v = cache'[k][d]
            OBVIOUS
        <3>2. v = cache[k][d]
            BY <1>1, <2>1, <3>1 DEF Parts
        <3>3. Of(k, v)
            BY <1>0, <2>1, <3>1, <3>2 DEF KeptOf
        <3>4. Of(k, v)'
            BY <1>0, <3>3, OfStays
        <3> QED  BY <3>1, <3>4
    <2>2. ASSUME NEW k \in Keys, Decodes(cache[k]["scan"])'
          PROVE  OfScan(k, cache[k]["scan"])'
        <3>1. PICK x : x = cache'[k]["scan"]
            OBVIOUS
        <3>2. x = cache[k]["scan"] /\ Decodes(x)
            BY <1>1, <2>2, <3>1 DEF Parts, Decodes
        <3>3. OfScan(k, x)
            BY <1>0, <3>2 DEF KeptOf
        <3>4. OfScan(k, x)'
            BY <1>0, <3>3, OfScanStays
        <3> QED  BY <3>1, <3>4
    <2>3. ASSUME NEW q \in Processes, NEW k \in Keys, memory'[q][k] # None
          PROVE  OfScan(k, memory[q][k])'
        <3>1. PICK x : x = memory'[q][k]
            OBVIOUS
        <3>2. OfScan(k, x)
            BY <1>0, <1>1, <2>3, <3>1 DEF KeptOf
        <3>3. OfScan(k, x)'
            BY <1>0, <3>2, OfScanStays
        <3> QED  BY <3>1, <3>3
    <2> QED  BY <2>1, <2>2, <2>3 DEF KeptOf
<1>3. ASSUME NEW q \in Processes  PROVE Holding(q)'
    <2>1. CASE pc'[q] = "idle"
        BY <2>1 DEF Holding
    <2>2. CASE pc'[q] # "idle"
        <3>1. pc'[q] = pc[q] /\ cache' = cache
            BY <1>1, <2>2
        <3>2. PICK k \in Keys : k = key[q]
            BY <1>0 DEF Types
        <3>3. PICK r : r = result[q]
            OBVIOUS
        <3>4. Of(k, r["identities"]) => Of(k, r["identities"])'
            BY <1>0, OfStays
        <3>5. Of(k, r["ast"]) => Of(k, r["ast"])'
            BY <1>0, OfStays
        <3>6. OfScan(k, r) => OfScan(k, r)'
            BY <1>0, OfScanStays
        <3>7. key'[q] = k /\ result'[q] = r
            BY <1>1, <3>2, <3>3
        <3>8. Holding(q)
            BY <1>0
        <3> QED  BY <3>1, <3>2, <3>3, <3>4, <3>5, <3>6, <3>7, <3>8 DEF Holding
    <2> QED  BY <2>1, <2>2
<1> QED  BY <1>2, <1>3

\* Every step keeps all of it.
LEMMA SoleStep ==
    ASSUME SoleInv, \A s \in Scenarios : Calm(s), [Next]_vars
    PROVE  SoleInv'
<1>1. Inv' /\ History' /\ Types' /\ Sole(scenario)'
    BY InvStep, HistoryStep, ScenarioStep DEF SoleInv, Inv, Sole
<1>2. Asked' /\ Resting'
    BY AskedStep, RestingStep DEF SoleInv, Inv
<1> DEFINE Kept == KeptOf' /\ \A q \in Processes : Holding(q)'
<1>3. ASSUME NEW p \in Processes, Begin(p) \/ Step(p)  PROVE Kept
    <2>1. KeptOf' /\ Holding(p)'
        BY <1>1, <1>3, KeptOfStep, HoldingStep
    <2>2. \A q \in Processes : q # p => pc[q] = "idle"
        BY <1>3, StepIsBusy DEF SoleInv, Inv, Sole, Alone, Begin, Idle
    <2>3. \A q \in Processes : q # p => pc'[q] = "idle"
        BY <1>3, <2>2, FrameStep DEF SoleInv, Inv, Frame
    <2>4. \A q \in Processes : q # p => Holding(q)'
        BY <2>3 DEF Holding
    <2> QED  BY <2>1, <2>4
<1>4. ASSUME \/ \E p \in Processes : Kill(p)
             \/ \E f \in Files : SaveHeader(f)
             \/ Clean
             \/ UNCHANGED vars
      PROVE  Kept
    BY <1>1, <1>4, SoleSurroundings
<1> HIDE DEF Kept
<1>5. Kept
    BY <1>3, <1>4 DEF Next, Finished
<1> QED  BY <1>1, <1>2, <1>5 DEF SoleInv, Kept

\* It holds at the start.
LEMMA SoleInit ==
    ASSUME Init, Sole(scenario)
    PROVE  SoleInv
<1>1. Inv /\ History /\ Asked
    BY InvInit, WarmInit DEF WarmInv
<1>2. /\ \A f \in Files : version[f] = 0
      /\ \A k \in Keys, q \in Parts : cache[k][q] = Absent
      /\ \A p \in Processes : pc[p] = "idle" /\ \A k \in Keys : memory[p][k] = None
    BY DEF Init, Blank
<1>3. \A k \in Keys, d \in Dumps : cache[k][d] = Absent /\ ~Decodes(cache[k]["scan"])
    BY <1>2 DEF Parts, Decodes
<1>4. Resting /\ KeptOf /\ \A p \in Processes : Holding(p)
    <2>1. Resting
        BY <1>2 DEF Resting
    <2>2. \A k \in Keys : ~Decodes(cache[k]["scan"])
        BY <1>2 DEF Parts, Decodes
    <2>3. KeptOf
        BY <1>2, <1>3, <2>2 DEF KeptOf
    <2> QED  BY <1>2, <2>1, <2>3 DEF Holding
<1> QED  BY <1>1, <1>4 DEF SoleInv

\* What is of a key was not read before the question that has the key.
LEMMA SoleAnswered ==
    ASSUME SoleInv
    PROVE  Answered
<1> SUFFICES ASSUME NEW p \in Processes, pc[p] = "done", NEW d \in Dumps
             PROVE  Recent(p, result[p][d])
    BY DEF Answered
<1>1. Of(key[p], result[p][d])
    BY DEF SoleInv, Holding, OfScan
<1>2. PICK v \in Versions : v = result[p][d] /\ Before(v, version) /\ key[p] <= v[Direct]
    BY <1>1 DEF Of
<1>3. Before(since[p], version) /\ key[p] = since[p][Direct] /\ since[p] \in Versions
    BY DEF SoleInv, Asked, History
<1>4. \A f \in Files : f # Direct => since[p][f] <= v[f]
    <2>1. \A f \in Files : f # Direct => since[p][f] <= 0 /\ v[f] \in Nat /\ since[p][f] \in Nat
        BY <1>3 DEF Before, SoleInv, Resting, Versions
    <2> QED  BY <2>1
<1> QED  BY <1>2, <1>3, <1>4 DEF Recent, Before

\* Nor was what the callers that take turns have.
LEMMA ServiceAnswered ==
    ASSUME ServiceInv
    PROVE  Answered
BY DEF ServiceInv, Honest, Answered, Dumps

-----------------------------------------------------------------------------
\* Variables have their types: a process that stores has all three dumps.
THEOREM TypeCorrect == Spec => []TypeOK
<1>1. Init => Types /\ History
    BY InvInit DEF Inv
<1>2. Types /\ History /\ [Next]_vars => Types' /\ History'
    BY TypesStep, HistoryStep
<1>3. Types /\ History => TypeOK
    <2>1. Types => \A k \in Keys : \A q \in Dumps \cup {"deps"} :
                       cache[k][q] \in Versions \cup {Absent, Empty}
        BY DEF Types, Stamped
    <2>2. Types => saves \in 0 .. MaxSaves
        BY DEF Types, Keys
    <2> QED  BY <2>1, <2>2 DEF Types, History, TypeOK, Parsed
<1> QED  BY <1>1, <1>2, <1>3, PTL DEF Spec

\* Stamps that say "current" vouch for the dumps beside them, where no included
\* header is saved while a process scans, and none of several is killed.
THEOREM TrustedIsWholeHolds ==
    ASSUME \A s \in Scenarios : Calm(s)
    PROVE  Spec => []TrustedIsWhole
<1>1. Init => Inv /\ History
    BY InvInit
<1>2. Inv /\ History /\ [Next]_vars => Inv' /\ History'
    BY InvStep, HistoryStep DEF Inv
<1>3. Inv => TrustedIsWhole
    BY DEF Inv, Whole, Good, TrustedIsWhole, RawHit, BeingWritten
<1> QED  BY <1>1, <1>2, <1>3, PTL DEF Spec

\* Headers that were scanned and stored are not scanned again while they stay
\* as they are, unless the question meets those who are just writing the
\* answer.
THEOREM WarmScansAreLoadedHolds ==
    ASSUME \A s \in Scenarios : Calm(s)
    PROVE  Spec => WarmScansAreLoaded
<1>1. Init => WarmInv
    BY WarmInit
<1>2. WarmInv /\ [Next]_vars => WarmInv'
    BY WarmStep
<1> DEFINE WarmOne == \A p \in Processes :
        (pc'[p] = "identities" /\ pc[p] # "identities" /\ since[p] = version)
            => \/ version \notin served
               \/ BeingWritten(key[p], "deps")
               \/ BeingWritten(key[p], "ast") /\ BeingWritten(key[p], "macros")
<1>3. WarmInv /\ [Next]_vars => WarmOne
    BY WarmScan
<1>4. WarmInv /\ [Next]_vars => [WarmOne]_vars
    BY <1>3
<1> HIDE DEF WarmOne
<1>5. Spec => [][WarmOne]_vars
    BY <1>1, <1>2, <1>4, PTL DEF Spec
<1> QED  BY <1>5 DEF WarmScansAreLoaded, WarmOne

\* scan_headers is a header service, where processes take turns: either the
\* included headers are saved between calls, nobody is killed, and callers lose
\* their memory with each call or there is one of them; or only the import's own
\* header is saved, whoever calls and is killed.  No answer shows a header as it
\* was before the question.
THEOREM ImplementsHolds ==
    ASSUME \A s \in Scenarios : Apart(s) \/ Sole(s)
    PROVE  Spec => Implements
<1>1. \A s \in Scenarios : Calm(s)
    BY DEF Apart, Sole, Calm
<1>2. Init => ServiceInv \/ SoleInv
    BY ServiceInvInit, SoleInit DEF Init
<1>3. (ServiceInv \/ SoleInv) /\ [Next]_vars => (ServiceInv \/ SoleInv)'
    BY <1>1, ServiceInvStep, SoleStep
<1>4. ServiceInv \/ SoleInv => Types /\ History /\ Answered
    BY ServiceAnswered, SoleAnswered DEF ServiceInv, SoleInv, Inv
<1>5. Init => Service!HeaderInit
    BY DEF Init, Service!HeaderInit, Blank
<1>6. Types /\ History /\ Answered' /\ [Next]_vars => [Service!HeaderNext]_(Service!headerVars)
    BY StepRefines
<1> QED  BY <1>2, <1>3, <1>4, <1>5, <1>6, PTL DEF Spec, Implements, Service!HeaderSpec
===============================================================================
