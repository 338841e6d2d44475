--------------------------- MODULE MCCacheService ---------------------------
(***************************************************************************)
(* CacheService on small instances.                                        *)
(***************************************************************************)
EXTENDS CacheService, TLC

\* Callers are interchangeable, and so are keys as long as Pattern treats them alike.
Symmetry == Permutations(Caller) \cup Permutations(Key)

\* '*' (expire-all), and one pattern per key (expire-related)
Patterns == {Key} \cup {{k} : k \in Key}
=============================================================================
