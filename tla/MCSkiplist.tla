----------------------------- MODULE MCSkiplist -----------------------------
(* Skiplist for TLC: keys that a cfg cannot write.                         *)
EXTENDS Skiplist

\* Negative keys that are no marks, zero and a positive one.
PlainKeys == {-7, 0, 3}
=============================================================================
