------------------------ MODULE MCProjectIndexCache ------------------------
(* Two documents whose projects are the same file. *)
EXTENDS ProjectIndexCache

CONSTANTS t1, t2, t3, lib

MCThreads == {t1, t2, t3}
MCKeys == {1, 2}
MCFiles == {lib}
MCReadBy == [k \in MCKeys |-> MCFiles]
=============================================================================
