----------------------------- MODULE MCToolchain -----------------------------
(* Scripts that run one after another, or overlap. *)
EXTENDS Toolchain, TLC

MCScenarios == {[overlap |-> o] : o \in BOOLEAN}
Symmetry == Permutations(Scripts) \cup Permutations(Versions) \cup Permutations(Tools)
=============================================================================
