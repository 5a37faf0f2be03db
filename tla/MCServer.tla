------------------------------ MODULE MCServer ------------------------------
(* Server for TLC: workers, keys and values may be permuted.               *)
EXTENDS Server, TLC

ServerSymmetry == Permutations(Workers) \cup Permutations(Keys) \cup Permutations(Values)

\* The difference of a cache that ends with 300 bytes left, and of one over its limit.
SpareSpaces == {300, -40}
=============================================================================
