---------------------------- MODULE IndexService ----------------------------
(***************************************************************************)
(* What the language server expects of its project index cache: a request  *)
(* is answered with an index of the sources as they were at some moment    *)
(* after the last clear() that came before the request, file by file, or   *)
(* it fails.  A write followed by a clear() is thus never missed, although *)
(* a write alone may be.  How often the sources are read is not said here. *)
(***************************************************************************)
EXTENDS Integers

CONSTANTS
    Threads,    \* callers
    Keys,       \* requests the cache tells apart
    Files,      \* source files
    ReadBy,     \* ReadBy[k]: the files an index for k is made from
    MaxWrites   \* number of writes to each file

ASSUME ServiceAssumption ==
    /\ ReadBy \in [Keys -> SUBSET Files]
    /\ MaxWrites \in Nat

VARIABLES
    disk,     \* disk[f]: how often f was written; its content and its mtime
    cleared,  \* disk as the last clear() found it
    asked,    \* asked[t]: the request t waits for, None if it does not wait
    floor,    \* floor[t]: cleared when t asked
    answer    \* answer[t]: what t was last answered, None if it failed

serviceVars == <<disk, cleared, asked, floor, answer>>

CONSTANT None
ASSUME NoneAssumption == None \notin Keys /\ None \notin [Files -> Int]

ServiceInit ==
    /\ disk    = [f \in Files |-> 0]
    /\ cleared = disk
    /\ asked   = [t \in Threads |-> None]
    /\ floor   = [t \in Threads |-> cleared]
    /\ answer  = [t \in Threads |-> None]

Ask(t, k) ==
    /\ asked[t] = None
    /\ asked' = [asked EXCEPT ![t] = k]
    /\ floor' = [floor EXCEPT ![t] = cleared]
    /\ answer' = [answer EXCEPT ![t] = None]
    /\ UNCHANGED <<disk, cleared>>

\* Either an index no older than the floor, or an exception.
Answer(t) ==
    /\ asked[t] # None
    /\ asked' = [asked EXCEPT ![t] = None]
    /\ UNCHANGED <<disk, cleared, floor>>
    /\ answer' = [answer EXCEPT ![t] = answer'[t]]
    /\ \/ answer'[t] = None
       \/ /\ answer'[t] \in [Files -> Int]
          /\ \A f \in ReadBy[asked[t]] :
                floor[t][f] <= answer'[t][f] /\ answer'[t][f] <= disk[f]

Clear ==
    /\ cleared' = disk
    /\ UNCHANGED <<disk, asked, floor, answer>>

Write(f) ==
    /\ disk[f] < MaxWrites
    /\ disk' = [disk EXCEPT ![f] = @ + 1]
    /\ UNCHANGED <<cleared, asked, floor, answer>>

ServiceNext ==
    \/ \E t \in Threads : Answer(t) \/ \E k \in Keys : Ask(t, k)
    \/ Clear
    \/ \E f \in Files : Write(f)

ServiceSpec == ServiceInit /\ [][ServiceNext]_serviceVars

=============================================================================
