-------------------------- MODULE MCResourceFiles ---------------------------
(***************************************************************************)
(* ResourceFiles on small instances.                                       *)
(***************************************************************************)
EXTENDS ResourceFiles, TLC

\* No upload, one, and one for the resource with one for an embedded document
OneOrTwo == {<<0>>, <<1>>, <<1, 1>>}

NoneOrOne == {<<0>>, <<1>>}

Empty == {}

\* What may fail before the save of the document, or in the cleanup
BeforeSave == {"store", "meta", "row", "unlink", "crash"}

AllFaults == {"store", "move", "meta", "row", "after", "unlink", "crash"}

Symmetry == Permutations(Request) \cup Permutations(Doc) \cup Permutations(File)
=============================================================================
