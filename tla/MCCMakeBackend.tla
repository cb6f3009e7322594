--------------------------- MODULE MCCMakeBackend ---------------------------
(* Two drivers; README.md says why a command that fails does not change.    *)
EXTENDS CMakeBackend

MCScenarios ==
    {[owned |-> o, commands |-> Commands, broken |-> FALSE] : o \in BOOLEAN}
    \cup {[owned |-> o, commands |-> {c}, broken |-> TRUE] :
            o \in BOOLEAN, c \in {CHOOSE c \in Commands : TRUE}}
=============================================================================
