---------------------------- MODULE MCThreadPool ----------------------------
(* ThreadPool for TLC: the callers are interchangeable.                    *)
EXTENDS ThreadPool, TLC

CallerSymmetry == Permutations(Callers)
=============================================================================
