---------------------------- MODULE HeaderService ----------------------------
(***************************************************************************)
(* What the front end expects of a native header scan: an answer says what *)
(* the headers said at some moment since the question, pass by pass and    *)
(* file by file.  Nothing is said of caches or of how often clang runs.    *)
(***************************************************************************)
EXTENDS Integers

CONSTANTS
    Processes,  \* compilers and language servers
    Files,      \* headers
    Dumps,      \* the passes an answer is put together from
    None        \* no answer

VARIABLES
    version,    \* version[f]: how often f was saved
    phase,      \* phase[p]: "idle", "asked" or "answered"
    since,      \* since[p]: version when p asked
    answer      \* answer[p][d]: the version of each file that pass d saw, or None

headerVars == <<version, phase, since, answer>>

\* What an answer to p may contain.
Fresh(p, scan) ==
    \A d \in Dumps : /\ scan[d] \in [Files -> Nat]
                     /\ \A f \in Files : scan[d][f] \in since[p][f] .. version[f]

HeaderInit ==
    /\ version = [f \in Files |-> 0]
    /\ phase = [p \in Processes |-> "idle"]
    /\ since = [p \in Processes |-> version]
    /\ answer = [p \in Processes |-> None]

Ask(p) ==
    /\ phase[p] = "idle"
    /\ phase' = [phase EXCEPT ![p] = "asked"]
    /\ since' = [since EXCEPT ![p] = version]
    /\ UNCHANGED <<version, answer>>

Answer(p) ==
    /\ phase[p] = "asked"
    /\ phase' = [phase EXCEPT ![p] = "answered"]
    /\ answer' = [answer EXCEPT ![p] = answer'[p]]
    /\ Fresh(p, answer'[p])
    /\ UNCHANGED <<version, since>>

\* The answer is used, or there is none: the scan fails, the process dies.
Leave(p) ==
    /\ phase[p] # "idle"
    /\ phase' = [phase EXCEPT ![p] = "idle"]
    /\ answer' = [answer EXCEPT ![p] = None]
    /\ UNCHANGED <<version, since>>

Save(f) ==
    /\ version' = [version EXCEPT ![f] = @ + 1]
    /\ UNCHANGED <<phase, since, answer>>

HeaderNext ==
    \/ \E p \in Processes : Ask(p) \/ Answer(p) \/ Leave(p)
    \/ \E f \in Files : Save(f)

HeaderSpec == HeaderInit /\ [][HeaderNext]_headerVars

===============================================================================
