---------------------------- MODULE TaskService -----------------------------
(***************************************************************************)
(* What a thread pool promises to those who submit tasks, without threads, *)
(* locks or condition variables: tasks are accepted only while the service *)
(* is open, started in the order of acceptance, each once, and a closed    *)
(* service never opens again.                                              *)
(***************************************************************************)
EXTENDS Naturals, Sequences

VARIABLES mode,                \* "open", "held" (paused) or "closed"
          accepted,            \* number of tasks accepted: 1..accepted
          pending,             \* accepted and not started, oldest first
          running, done        \* started and not ended; ended

vars == <<mode, accepted, pending, running, done>>

Init == /\ mode = "open" /\ accepted = 0 /\ pending = <<>>
        /\ running = {} /\ done = {}

Accept == /\ mode = "open"
          /\ accepted' = accepted + 1
          /\ pending' = Append(pending, accepted + 1)
          /\ UNCHANGED <<mode, running, done>>

\* A started task is one that was never started before.
Start == /\ pending # <<>>
         /\ Head(pending) \notin running \cup done
         /\ running' = running \cup {Head(pending)}
         /\ pending' = Tail(pending)
         /\ UNCHANGED <<mode, accepted, done>>

Finish(t) == /\ running' = running \ {t}
             /\ done' = done \cup {t}
             /\ UNCHANGED <<mode, accepted, pending>>

SetMode(m) == /\ mode # "closed"
              /\ mode' = m
              /\ UNCHANGED <<accepted, pending, running, done>>

Next == \/ Accept \/ Start
        \/ \E t \in running : Finish(t)
        \/ \E m \in {"open", "held", "closed"} : SetMode(m)

Spec == Init /\ [][Next]_vars
=============================================================================
