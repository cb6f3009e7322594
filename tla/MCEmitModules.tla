--------------------------- MODULE MCEmitModules ---------------------------
(* main imports lib, and in one version also util; lib imports util, or not. *)
EXTENDS EmitModules

CONSTANTS main, lib, util, runtime,
          m0, m1, l0, l1, u0, u1, none, missing, torn

MCModules == {main, lib, util}
MCTexts == {m0, m1, l0, l1, u0, u1}
MCTextsOf == [m \in MCModules |-> CASE m = main -> {m0, m1}
                                    [] m = lib  -> {l0, l1}
                                    [] m = util -> {u0, u1, none}]
MCInitText == [m \in MCModules |-> CASE m = main -> m0
                                     [] m = lib  -> l0
                                     [] m = util -> u0]
MCImports == [t \in MCTexts |-> CASE t = m0 -> {lib}
                                  [] t = m1 -> {lib, util}
                                  [] t = l0 -> {util}
                                  [] OTHER -> {}]

\* l1 defines a macro; m0 applies it.
MCMacros == {l1}
MCInvokers == {m0}

\* lib does not check beside the second util, nor main beside the second lib.
MCClashes == {<<l0, u1>>, <<m1, l1>>}

\* What the theorems about emission are proved from.
ASSUME MCDomainsAreStable == DomainsAreStable
=============================================================================
