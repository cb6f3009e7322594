---------------------------- MODULE MCMacroCache ----------------------------
(* Two processes, two sources that generate different C++, two macros.      *)
EXTENDS MacroCache, TLC

CONSTANTS p1, p2, dd, hpp, schema, clock, old, new, bad, json, asset

MCExternals == {schema, clock}
MCContents == {old, new, bad}
MCInitContent == [f \in Files |-> old]

\* What is generated for the old source depends on the header's declarations.
MCEmits == [loaded \in MCContents \X MCContents |->
                IF loaded = <<old, new>> THEN bad ELSE loaded[1]]
MCBroken == {bad} \X MCContents
MCReads == (json :> schema) @@ (asset :> clock)

\* The new version of asset's macro asks for the time.
MCVolatile == {<<new, asset>>}

MCSaves == ({dd, hpp, schema, clock} \X {new}) \cup {<<dd, bad>>, <<schema, old>>}

Symmetry == Permutations({p1, p2})
=============================================================================
