------------------------------ MODULE MCIOPool ------------------------------
(* IOPool for TLC: the submitters are interchangeable.                     *)
EXTENDS IOPool, TLC

SubmitterSymmetry == Permutations(Submitters)
=============================================================================
