--------------------------- MODULE TwoLevelStore ---------------------------
(***************************************************************************)
(* What the storage engine promises its users: two maps, one above the     *)
(* other.  Requests change the upper one; a flush moves all of it into the *)
(* lower one, in one step and without losing a key.  Which of its two      *)
(* values a key has then that was in both is not said here: it ought to be *)
(* the upper one, and is not (FlushedIsFound of module Storage).           *)
(***************************************************************************)
CONSTANTS Keys, Values, Absent

VARIABLES upper, lower

vars == <<upper, lower>>

Empty == [k \in Keys |-> Absent]

Init == upper = Empty /\ lower = Empty

Put(k, v) == upper' = [upper EXCEPT ![k] = v] /\ UNCHANGED lower
Delete(k) == upper' = [upper EXCEPT ![k] = Absent] /\ UNCHANGED lower

\* The keys of kept stay as they are in the lower map.
Flush(kept) ==
  /\ \A k \in kept : lower[k] # Absent
  /\ upper' = Empty
  /\ lower' = [k \in Keys |->
       IF k \in kept \/ upper[k] = Absent THEN lower[k] ELSE upper[k]]

Next == \/ \E kept \in SUBSET Keys : Flush(kept)
        \/ \E k \in Keys : Delete(k) \/ \E v \in Values : Put(k, v)

Spec == Init /\ [][Next]_vars
=============================================================================
