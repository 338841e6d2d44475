----------------------------- MODULE Selections -----------------------------
(***************************************************************************)
(* What is left of a sequence, by positions and in its order: the filter   *)
(* and the splice of arrays, and the conditions of a query.                *)
(***************************************************************************)
EXTENDS Naturals, Sequences, FiniteSets

\* What a sequence has at these positions: each comes after those before it.
At(s, positions) ==
  [n \in 1 .. Cardinality(positions) |-> s[CHOOSE i \in positions : Cardinality(positions \cap 1 .. i) = n]]

\* Those of the set
Those(s, set) == At(s, {i \in DOMAIN s : s[i] \in set})
=============================================================================
