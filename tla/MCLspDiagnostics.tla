-------------------------- MODULE MCLspDiagnostics --------------------------
(***************************************************************************)
(* Instances of LspDiagnostics.  Document 2 may import document 1; "none"  *)
(* is NoText.                                                              *)
(***************************************************************************)
EXTENDS LspDiagnostics

MCUris == {1, 2}
MCTexts == {"lib", "lib2", "user"}
MCImports == [t \in MCTexts |-> CASE t = "user" -> {1}
                                  [] OTHER -> {}]

\* Every module exists on disk, and no text of document 1 imports document 2.
MCTextsOf == [u \in MCUris |-> IF u = 1 THEN {"lib", "lib2"} ELSE {"user"}]
MCFilesOf == MCTextsOf
MCDisk    == [u \in MCUris |-> IF u = 1 THEN "lib" ELSE "user"]

\* Document 1 may exist in the editor only: a new file, or a deleted one.
UnsavedFilesOf == [u \in MCUris |-> MCTextsOf[u] \cup {"none"}]
UnsavedDisk    == [u \in MCUris |-> IF u = 1 THEN "none" ELSE "user"]

\* The theorems about fresh reports assume this of a project; that every file
\* exists (FilesExist), only MCFilesOf meets.
ASSUME MCImportsAreAcyclic == ImportsAreAcyclic
=============================================================================
