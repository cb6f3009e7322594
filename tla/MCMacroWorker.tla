---------------------------- MODULE MCMacroWorker ----------------------------
(* Two threads, one package in two builds and another package.             *)
EXTENDS MacroWorker, TLC

CONSTANTS first, second, json, sql, json1, json2, sql1

MCThreads == {first, second}
MCPackages == {json, sql}
MCBinaries == {json1, json2, sql1}
MCPackageOf == (json1 :> json) @@ (json2 :> json) @@ (sql1 :> sql)

Symmetry == Permutations(MCThreads) \cup Permutations({json1, json2})
==============================================================================
