------------------------------- MODULE IOPool -------------------------------
(***************************************************************************)
(* The I/O thread pool, class IOThreadPool (include/IOpool.hpp): one queue,*)
(* one mutex and one thread per block, and one condition variable for all  *)
(* of them.  A task is its number among those submitted for its block.     *)
(*                                                                         *)
(* One step is one critical section, or the piece of code between two      *)
(* points at which another thread can be observed.                         *)
(***************************************************************************)
EXTENDS Naturals, Sequences

CONSTANTS
  NumThreads,    \* numThreads of the constructor: threads 0..NumThreads - 1
  Targets,       \* block numbers passed to submit, with or without a thread
  Submitters,    \* threads that call submit
  MaxTasks,      \* bound: tasks ever submitted for a block
  None           \* no thread

Threads == 0..(NumThreads - 1)
Blocks  == Targets \cup Threads

ASSUME IOPoolAssumption ==
  /\ NumThreads \in Nat \ {0} /\ Targets \subseteq Nat /\ MaxTasks \in Nat
  /\ None \notin Nat

VARIABLES
  stop, tasks,    \* IOThreadPool::stop, ::tasks
  holder,         \* thread that holds queueMutexes[b] between two steps
  sleeping,       \* threads asleep on condition
  pc, task,       \* workerThread: where, and the task it took
  spc,            \* submit: where
  dpc,            \* the destructor
  submitted, done \* per block: tasks submitted; tasks ended, in that order

poolVars   == <<stop, tasks>>
threadVars == <<pc, task>>
submitVars == <<spc, submitted>>
vars == <<poolVars, holder, sleeping, threadVars, submitVars, dpc, done>>

-----------------------------------------------------------------------------
\* IOThreadPool::IOThreadPool
Init ==
  /\ stop = FALSE /\ tasks = [b \in Blocks |-> <<>>]
  /\ holder = [b \in Blocks |-> None] /\ sleeping = {}
  /\ pc = [t \in Threads |-> "top"] /\ task = [t \in Threads |-> 0]
  /\ spc = [s \in Submitters |-> "idle"]
  /\ dpc = "alive"
  /\ submitted = [b \in Blocks |-> 0] /\ done = [b \in Blocks |-> <<>>]

-----------------------------------------------------------------------------
(* workerThread(t), the thread of block t.                                 *)

\* Leaving the block of queueMutexes[t].  Mutant: the mutex is kept.
UnlockNot(t) == UNCHANGED holder
Unlock(t) == holder' = [holder EXCEPT ![t] = None]

\* Locking queueMutexes[t]: on the way in, or inside condition.wait once woken.
ThreadLock(t) ==
  /\ pc[t] \in {"top", "waiting"} /\ t \notin sleeping
  /\ holder[t] = None
  /\ holder' = [holder EXCEPT ![t] = t]
  /\ pc' = [pc EXCEPT ![t] = "test"]
  /\ UNCHANGED <<poolVars, sleeping, task, submitVars, dpc, done>>

\* The predicate of the wait, and the test that follows it.  Mutant: stop alone
\* makes the thread leave, whatever is queued.
Awaited(t) == stop \/ tasks[t] # <<>>
MustReturnAtOnce(t) == stop
MustReturn(t) == stop /\ tasks[t] = <<>>

ThreadIdle(t) ==
  /\ pc[t] = "test" /\ ~Awaited(t)
  /\ pc' = [pc EXCEPT ![t] = "towait"]
  /\ UNCHANGED <<poolVars, holder, sleeping, task, submitVars, dpc, done>>

\* Falling asleep and unlocking are one step.
ThreadWait(t) ==
  /\ pc[t] = "towait"
  /\ pc' = [pc EXCEPT ![t] = "waiting"]
  /\ sleeping' = sleeping \cup {t}
  /\ Unlock(t)
  /\ UNCHANGED <<poolVars, task, submitVars, dpc, done>>

\* A condition variable may wake a thread that nobody notified.
Spurious(t) ==
  /\ t \in sleeping
  /\ sleeping' = sleeping \ {t}
  /\ UNCHANGED <<poolVars, holder, threadVars, submitVars, dpc, done>>

ThreadReturn(t) ==
  /\ pc[t] = "test" /\ MustReturn(t)
  /\ pc' = [pc EXCEPT ![t] = "returned"]
  /\ Unlock(t)
  /\ UNCHANGED <<poolVars, sleeping, task, submitVars, dpc, done>>

\* tasks[t].front() moved out, then pop().  Mutant: no pop().
PopFrontOnly(t) == UNCHANGED tasks
PopFront(t) == tasks' = [tasks EXCEPT ![t] = Tail(@)]

ThreadTake(t) ==
  /\ pc[t] = "test" /\ Awaited(t) /\ ~MustReturn(t)
  /\ task' = [task EXCEPT ![t] = Head(tasks[t])]
  /\ PopFront(t)
  /\ pc' = [pc EXCEPT ![t] = "run"]
  /\ Unlock(t)
  /\ UNCHANGED <<stop, sleeping, submitVars, dpc, done>>

\* task() returns.
ThreadRun(t) ==
  /\ pc[t] = "run"
  /\ done' = [done EXCEPT ![t] = Append(@, task[t])]
  /\ task' = [task EXCEPT ![t] = 0]
  /\ pc' = [pc EXCEPT ![t] = "top"]
  /\ UNCHANGED <<poolVars, holder, sleeping, submitVars, dpc>>

ThreadStep(t) ==
  \/ ThreadLock(t) \/ ThreadIdle(t) \/ ThreadWait(t) \/ ThreadReturn(t)
  \/ ThreadTake(t) \/ ThreadRun(t)

-----------------------------------------------------------------------------
(* submit and the destructor.                                              *)

\* The notifications.
NotifyOne == \/ sleeping = {} /\ UNCHANGED sleeping
             \/ \E t \in sleeping : sleeping' = sleeping \ {t}
NotifyAll == sleeping' = {}

\* Pushing the task, under the block's mutex; the pool is not being destroyed.
SubmitPush(s) ==
  /\ spc[s] = "idle" /\ dpc = "alive"
  /\ \E b \in Targets :
       /\ holder[b] = None /\ submitted[b] < MaxTasks
       /\ tasks' = [tasks EXCEPT ![b] = Append(@, submitted[b] + 1)]
       /\ submitted' = [submitted EXCEPT ![b] = @ + 1]
  /\ spc' = [spc EXCEPT ![s] = "notify"]
  /\ UNCHANGED <<stop, holder, sleeping, threadVars, dpc, done>>

\* condition.notify_one(), after the mutex is gone: any sleeper may be woken.
SubmitNotify(s) ==
  /\ spc[s] = "notify"
  /\ NotifyOne
  /\ spc' = [spc EXCEPT ![s] = "idle"]
  /\ UNCHANGED <<poolVars, holder, threadVars, submitted, dpc, done>>

\* ~IOThreadPool sets stop under the mutex of block 0, whatever the blocks.
\* Mutant: under no mutex.
StopLockNone == TRUE
StopLock == holder[0] = None
DestroyStop ==
  /\ dpc = "alive" /\ \A s \in Submitters : spc[s] = "idle"
  /\ StopLock
  /\ stop' = TRUE
  /\ dpc' = "notify"
  /\ UNCHANGED <<tasks, holder, sleeping, threadVars, submitVars, done>>

DestroyNotify ==
  /\ dpc = "notify"
  /\ NotifyAll
  /\ dpc' = "join"
  /\ UNCHANGED <<poolVars, holder, threadVars, submitVars, done>>

\* Joining the threads one after the other ends when the last has returned.
DestroyJoin ==
  /\ dpc = "join" /\ \A t \in Threads : pc[t] = "returned"
  /\ dpc' = "destroyed"
  /\ UNCHANGED <<poolVars, holder, sleeping, threadVars, submitVars, done>>

DestroyStep == DestroyStop \/ DestroyNotify \/ DestroyJoin

\* The pool is gone; the program may go on without it.
Gone == dpc = "destroyed" /\ UNCHANGED vars

Next ==
  \/ \E t \in Threads : ThreadStep(t) \/ Spurious(t)
  \/ \E s \in Submitters : SubmitPush(s) \/ SubmitNotify(s)
  \/ DestroyStep \/ Gone

Spec == Init /\ [][Next]_vars

\* Every thread that can go on eventually does and gets a mutex that is free
\* again and again; nobody has to submit or to start the destructor, and
\* spurious wake-ups come to an end.
Fairness ==
  /\ \A t \in Threads : SF_vars(ThreadStep(t))
  /\ \A s \in Submitters : SF_vars(SubmitNotify(s))
  /\ SF_vars(DestroyNotify) /\ SF_vars(DestroyJoin)
  /\ \A t \in Threads : <>[][~Spurious(t)]_vars

FairSpec == Spec /\ Fairness

-----------------------------------------------------------------------------
(* Properties.                                                             *)

\* Every variable has its type, and a block's mutex is held by its own thread
\* from the test of the predicate to the wait or to the task, and only then.
TypeOK ==
  /\ stop \in BOOLEAN /\ tasks \in [Blocks -> Seq(Nat)]
  /\ holder = [b \in Blocks |->
       IF b \in Threads /\ pc[b] \in {"test", "towait"} THEN b ELSE None]
  /\ sleeping \subseteq Threads
  /\ pc \in [Threads -> {"top", "test", "towait", "waiting", "run", "returned"}]
  /\ task \in [Threads -> Nat]
  /\ spc \in [Submitters -> {"idle", "notify"}]
  /\ dpc \in {"alive", "notify", "join", "destroyed"}
  /\ submitted \in [Blocks -> Nat] /\ done \in [Blocks -> Seq(Nat)]

\* The pool implements BlockIO: shared condition variable or not, the tasks of
\* a block run one at a time, each once and in the order of submission.
Serial == INSTANCE BlockIO WITH
  accepted <- submitted,
  running <- [b \in Blocks |-> IF b \in Threads THEN task[b] ELSE 0],
  log <- done
ImplementsBlockIO == Serial!Spec

\* ~IOThreadPool ends only after every task that has a thread: none is dropped
\* and none is left running on a pool that is gone.
DestroyedDrained ==
  dpc = "destroyed" => \A t \in Threads : Len(done[t]) = submitted[t]

\* The thread of block 0 cannot miss stop: once stop is set it is awake or about
\* to be notified.  Its mutex is the one stop is set under.
StopReachesThread0 == stop /\ 0 \in sleeping => dpc = "notify"

\* Every task submitted for a block that has a thread is executed.  ("Handed
\* over to the threads of the I/O pool", flushToDisk in cache.hpp.)
TasksRun ==
  \A t \in Threads : \A n \in 1..MaxTasks :
    (submitted[t] >= n) ~> (Len(done[t]) >= n)
=============================================================================
