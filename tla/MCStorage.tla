----------------------------- MODULE MCStorage -----------------------------
(* Storage for TLC: workers, keys and values may be permuted.                 *)
EXTENDS Storage, TLC

StorageSymmetry == Permutations(Workers) \cup Permutations(Keys) \cup Permutations(Values)
=============================================================================
