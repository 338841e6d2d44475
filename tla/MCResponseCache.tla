-------------------------- MODULE MCResponseCache ---------------------------
(***************************************************************************)
(* ResponseCache on small instances.                                       *)
(***************************************************************************)
EXTENDS ResponseCache, TLC

Requests == Reader \cup Writer

Patterns == {Key, Related}

Versions == 0..MaxVersion

Symmetry == Permutations(Reader) \cup Permutations(Writer)
=============================================================================
