------------------------- MODULE MCNativeHeaderCache -------------------------
(***************************************************************************)
(* Compilers and a language server, a header and one that it includes.     *)
(* README.md says what the scenarios leave out, and why.                   *)
(***************************************************************************)
EXTENDS NativeHeaderCache

CONSTANTS c1, c2, server

\* The second version of the header needs a prelude.
MCNeedsPrelude == {1}

\* Headers change between the calls of two compilers, and between those of a
\* server, and the import's own header at any time; one of two processes is
\* killed; the calls of two processes overlap.
MCScenarios ==
    {[callers |-> {c1, c2}, kill |-> FALSE, overlap |-> FALSE,
      between |-> Files, during |-> {Direct}],
     [callers |-> {server}, kill |-> FALSE, overlap |-> FALSE,
      between |-> Files, during |-> {Direct}],
     [callers |-> {c1, server}, kill |-> TRUE, overlap |-> FALSE,
      between |-> {Direct}, during |-> {Direct}],
     [callers |-> {c1, server}, kill |-> FALSE, overlap |-> TRUE,
      between |-> {Direct}, during |-> {}]}

\* A compiler and a server, one after the other, and headers that change
\* between their calls.
MCStaleScenarios ==
    {[callers |-> {c1, server}, kill |-> FALSE, overlap |-> FALSE,
      between |-> Files, during |-> {}]}
===============================================================================
