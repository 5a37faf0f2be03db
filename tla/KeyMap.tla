------------------------------- MODULE KeyMap -------------------------------
(***************************************************************************)
(* What a skip list promises: it is a map from keys to values that can be  *)
(* saved in a block and read back, unless one of its values is not text.   *)
(***************************************************************************)
CONSTANTS Keys, Values, Mangled, Absent

VARIABLES map,     \* the value of each key, or Absent
          saved    \* the map last saved

vars == <<map, saved>>

Empty == [k \in Keys |-> Absent]

Init == map = Empty /\ saved = Empty

Put(k, v) == map' = [map EXCEPT ![k] = v] /\ UNCHANGED saved
Erase(k)  == map' = [map EXCEPT ![k] = Absent] /\ UNCHANGED saved
Clear     == map' = Empty /\ UNCHANGED saved
Save      == saved' = map /\ UNCHANGED map
Load      == /\ \A k \in Keys : saved[k] \notin Mangled
             /\ map' = saved /\ UNCHANGED saved

Next == \/ \E k \in Keys, v \in Values : Put(k, v)
        \/ \E k \in Keys : Erase(k)
        \/ Clear \/ Save \/ Load

Spec == Init /\ [][Next]_vars
=============================================================================
