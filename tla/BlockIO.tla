------------------------------- MODULE BlockIO -------------------------------
(***************************************************************************)
(* What the I/O pool promises the caches: one serial queue per block.  The *)
(* tasks of a block run one at a time and in the order in which they were  *)
(* submitted; tasks of different blocks may overlap.  A task is its number *)
(* among those submitted for its block.                                    *)
(***************************************************************************)
EXTENDS Naturals, Sequences

CONSTANT Blocks

VARIABLES accepted,   \* how many tasks each block was given
          running,    \* the task of the block that is running, or 0
          log         \* the tasks of the block that have ended, in that order

vars == <<accepted, running, log>>

Init == /\ accepted = [b \in Blocks |-> 0]
        /\ running = [b \in Blocks |-> 0]
        /\ log = [b \in Blocks |-> <<>>]

Submit(b) == /\ accepted' = [accepted EXCEPT ![b] = @ + 1]
             /\ UNCHANGED <<running, log>>

Start(b) == /\ running[b] = 0 /\ Len(log[b]) < accepted[b]
            /\ running' = [running EXCEPT ![b] = Len(log[b]) + 1]
            /\ UNCHANGED <<accepted, log>>

End(b) == /\ running[b] # 0
          /\ log' = [log EXCEPT ![b] = Append(@, running[b])]
          /\ running' = [running EXCEPT ![b] = 0]
          /\ UNCHANGED accepted

Next == \E b \in Blocks : Submit(b) \/ Start(b) \/ End(b)

Spec == Init /\ [][Next]_vars
=============================================================================
