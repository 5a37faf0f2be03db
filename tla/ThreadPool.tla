----------------------------- MODULE ThreadPool -----------------------------
(***************************************************************************)
(* The request thread pool: thread_utils::thread_pool and its nested class *)
(* worker_thread (include/thread_pool.hpp, src/thread_pool.cpp,            *)
(* src/worker_thread.cpp).                                                 *)
(*                                                                         *)
(* One step is one critical section, or the piece of code between two      *)
(* points at which another thread can be observed.  A worker's own         *)
(* status_mutex is only ever held for one step, so it has no variable.     *)
(* worker_list_mutex is held for several steps by remove_thread only; the  *)
(* operations that hold status_mutex exclusively never meet it.            *)
(***************************************************************************)
EXTENDS Naturals, Sequences, FiniteSets

CONSTANTS
  Callers,               \* threads that call the pool's public methods
  InitialThreads,        \* initial_thread_count of the constructor
  MaxThreads,            \* bound: threads ever created
  MaxTaskCount,          \* max_task_count of the constructor, 0 = no limit
  Limits,                \* arguments of set_max_task_count
  MaxTasks,              \* bound: tasks ever submitted
  MaxSem,                \* bound: permits at which pause is no longer called
  Ops,                   \* the public methods the callers use
  DestroyTerminatedOnly, \* the destructor runs on a terminated pool only
  None                   \* no thread

AllOps == {"submit", "pause", "resume", "shutdown", "terminate", "wait",
           "add_thread", "remove_thread", "set_max_task_count", "destroy"}

ASSUME PoolAssumption ==
  /\ IsFiniteSet(Callers)
  /\ MaxThreads \in Nat /\ InitialThreads \in 0..MaxThreads
  /\ MaxTaskCount \in Nat /\ Limits \subseteq Nat
  /\ MaxTasks \in Nat /\ MaxSem \in Nat
  /\ Ops \subseteq AllOps
  /\ DestroyTerminatedOnly \in BOOLEAN
  /\ None \notin Callers \cup (1..MaxThreads)

VARIABLES
  status, maxTaskCount, queue, workerList,      \* thread_pool
  statusX, statusS,      \* status_mutex: exclusive owner, shared owners
  queueX, queueS,        \* task_queue_mutex: likewise
  listX,                 \* worker_list_mutex
  taskWaiters,           \* workers asleep on task_queue_cv
  emptyWaiters,          \* callers asleep on task_queue_empty_cv
  wpc, wstatus, sem, wtask,                     \* worker_thread
  cpc, cop, todo, count, \* callers: where, in which method, loop state
  created,               \* threads created so far: 1..created
  submitted,             \* tasks queued so far: 1..submitted, in that order
  finished,              \* tasks whose execution has ended
  lateStarts             \* tasks a worker took since it was set to PAUSED

poolVars   == <<status, maxTaskCount, queue, workerList>>
lockVars   == <<statusX, statusS, queueX, queueS, listX>>
cvVars     == <<taskWaiters, emptyWaiters>>
workerVars == <<wpc, wstatus, sem, wtask>>
callerVars == <<cpc, cop, todo, count>>
ghostVars  == <<created, submitted, finished, lateStarts>>
vars == <<poolVars, lockVars, cvVars, workerVars, callerVars, ghostVars>>

Workers == 1..MaxThreads
Tasks   == 1..MaxTasks

PoolStatus   == {"TERMINATED", "TERMINATING", "RUNNING", "PAUSED", "SHUTDOWN"}
WorkerStatus == {"TERMINATED", "TERMINATING", "RUNNING", "PAUSED", "BLOCKED"}

WorkerPC == {"new", "top", "lock", "loop", "pre", "towait", "waiting", "post",
             "run", "sem_top", "sem_pre", "sem_post", "lock_pre", "lock_post",
             "exited", "threw"}
CallerPC == {"idle", "called", "sub_count", "sub_push", "sub_notify",
             "pausing", "resuming", "drain_lock", "drain", "drain_wait",
             "terminating", "add_list", "rem_list", "removing", "deleting",
             "join", "destroyed"}

-----------------------------------------------------------------------------
\* thread_pool::thread_pool
Init ==
  /\ status = "RUNNING" /\ maxTaskCount = MaxTaskCount
  /\ queue = <<>> /\ workerList = [i \in 1..InitialThreads |-> i]
  /\ statusX = None /\ statusS = {} /\ queueX = None /\ queueS = {}
  /\ listX = None /\ taskWaiters = {} /\ emptyWaiters = {}
  /\ wpc = [w \in Workers |-> IF w <= InitialThreads THEN "top" ELSE "new"]
  /\ wstatus = [w \in Workers |-> "RUNNING"]
  /\ sem = [w \in Workers |-> 0]
  /\ wtask = [w \in Workers |-> 0]
  /\ cpc = [c \in Callers |-> "idle"]
  /\ cop = [c \in Callers |-> "none"]
  /\ todo = [c \in Callers |-> <<>>]
  /\ count = [c \in Callers |-> 0]
  /\ created = InitialThreads
  /\ submitted = 0 /\ finished = {}
  /\ lateStarts = [w \in Workers |-> 0]

-----------------------------------------------------------------------------
(* The loop of a worker thread.                                            *)

\* The three switches on this->status: where each status sends the worker.
TopSwitch == [RUNNING |-> "lock", PAUSED |-> "sem_top", BLOCKED |-> "threw",
              TERMINATING |-> "exited", TERMINATED |-> "exited"]
PreSwitch == [RUNNING |-> "towait", PAUSED |-> "sem_pre", BLOCKED |-> "towait",
              TERMINATING |-> "exited", TERMINATED |-> "exited"]
PostSwitch == [RUNNING |-> "loop", PAUSED |-> "sem_post", BLOCKED |-> "loop",
               TERMINATING |-> "exited", TERMINATED |-> "exited"]

\* Where a worker goes on after pause_sem.acquire(): back to a status check.
\* Mutant: the first check is not repeated.
ResumedUnchecked == [sem_top |-> "lock", sem_pre |-> "lock_pre", sem_post |-> "lock_post"]
Resumed == [sem_top |-> "top", sem_pre |-> "lock_pre", sem_post |-> "lock_post"]

\* pause_sem.acquire() returns while there is a permit.  Mutant: it never blocks.
PermitAlways(w) == sem[w] \in Nat
Permit(w) == sem[w] > 0

\* task_queue_mutex can be locked exclusively.
QueueFreeX == queueX = None /\ queueS = {}

\* The notifications.  Mutants: notifications that wake nobody, or that are
\* only sent for the first task of the queue.
NotifyNobody == UNCHANGED taskWaiters
NotifyOneIfFirst == IF Len(queue) > 1 THEN UNCHANGED taskWaiters
                    ELSE \/ taskWaiters = {} /\ UNCHANGED taskWaiters
                         \/ \E w \in taskWaiters : taskWaiters' = taskWaiters \ {w}
NotifyOne == \/ taskWaiters = {} /\ UNCHANGED taskWaiters
             \/ \E w \in taskWaiters : taskWaiters' = taskWaiters \ {w}
NotifyAllNobody == UNCHANGED taskWaiters
NotifyAll == taskWaiters' = {}
NotifyEmptyNever == UNCHANGED emptyWaiters
NotifyEmpty == emptyWaiters' = IF Tail(queue) = <<>> THEN {} ELSE emptyWaiters

\* Moving the front task out of the queue.  Mutant: front() without pop().
TakeFrontOnly(w) == wtask' = [wtask EXCEPT ![w] = Head(queue)] /\ UNCHANGED queue
TakeFront(w) == /\ wtask' = [wtask EXCEPT ![w] = Head(queue)]
                /\ queue' = Tail(queue)

\* The status a switch stores: an exiting worker is TERMINATED, one that keeps
\* the task queue lock takes st, any other keeps its status.
\* Mutant: a woken worker stays BLOCKED.
StoreStatusBlocked(w, pc, st) ==
  wstatus' = [wstatus EXCEPT ![w] = CASE pc = "exited" -> "TERMINATED"
                                      [] pc = "towait" -> st
                                      [] OTHER -> @]
StoreStatus(w, pc, st) ==
  wstatus' = [wstatus EXCEPT ![w] = CASE pc = "exited" -> "TERMINATED"
                                      [] pc \in {"towait", "loop"} -> st
                                      [] OTHER -> @]

\* The status check at the top of the loop, under status_mutex.
WorkerTop(w) ==
  /\ wpc[w] = "top"
  /\ wpc' = [wpc EXCEPT ![w] = TopSwitch[wstatus[w]]]
  /\ StoreStatus(w, TopSwitch[wstatus[w]], "RUNNING")
  /\ UNCHANGED <<poolVars, lockVars, cvVars, sem, wtask, callerVars, ghostVars>>

\* pause_sem.acquire() of a worker that found itself PAUSED.
WorkerAcquire(w) ==
  /\ wpc[w] \in {"sem_top", "sem_pre", "sem_post"} /\ Permit(w)
  /\ sem' = [sem EXCEPT ![w] = @ - 1]
  /\ wpc' = [wpc EXCEPT ![w] = Resumed[@]]
  /\ UNCHANGED <<poolVars, lockVars, cvVars, wstatus, wtask, callerVars, ghostVars>>

\* Locking task_queue_mutex exclusively: before the emptiness test, after a
\* pause, or inside task_queue_cv.wait once the worker has been woken.
WorkerLock(w) ==
  /\ wpc[w] \in {"lock", "lock_pre", "lock_post", "waiting"}
  /\ w \notin taskWaiters
  /\ QueueFreeX
  /\ queueX' = w
  /\ wpc' = [wpc EXCEPT ![w] = CASE @ = "lock" -> "loop"
                                 [] @ = "lock_pre" -> "pre"
                                 [] OTHER -> "post"]
  /\ UNCHANGED <<poolVars, statusX, statusS, queueS, listX, cvVars, wstatus,
                 sem, wtask, callerVars, ghostVars>>

\* while (task_queue.empty()): the status check before the wait.  The queue is
\* tested on entry ("loop"), not after a pause inside the check ("pre").
WorkerPre(w) ==
  /\ \/ wpc[w] = "loop" /\ queue = <<>>
     \/ wpc[w] = "pre"
  /\ wpc' = [wpc EXCEPT ![w] = PreSwitch[wstatus[w]]]
  /\ StoreStatus(w, PreSwitch[wstatus[w]], "BLOCKED")
  /\ queueX' = IF PreSwitch[wstatus[w]] = "towait" THEN queueX ELSE None
  /\ UNCHANGED <<poolVars, statusX, statusS, queueS, listX, cvVars, sem, wtask,
                 callerVars, ghostVars>>

\* task_queue_cv.wait: falling asleep and unlocking are one step.
WorkerWait(w) ==
  /\ wpc[w] = "towait"
  /\ wpc' = [wpc EXCEPT ![w] = "waiting"]
  /\ taskWaiters' = taskWaiters \cup {w}
  /\ queueX' = None
  /\ UNCHANGED <<poolVars, statusX, statusS, queueS, listX, emptyWaiters,
                 wstatus, sem, wtask, callerVars, ghostVars>>

\* A condition variable may wake a thread that nobody notified.
WorkerSpurious(w) ==
  /\ w \in taskWaiters
  /\ taskWaiters' = taskWaiters \ {w}
  /\ UNCHANGED <<poolVars, lockVars, emptyWaiters, workerVars, callerVars, ghostVars>>

\* The status check after the wait; the worker then tests the queue again.
WorkerPost(w) ==
  /\ wpc[w] = "post"
  /\ wpc' = [wpc EXCEPT ![w] = PostSwitch[wstatus[w]]]
  /\ StoreStatus(w, PostSwitch[wstatus[w]], "RUNNING")
  /\ queueX' = IF PostSwitch[wstatus[w]] = "loop" THEN queueX ELSE None
  /\ UNCHANGED <<poolVars, statusX, statusS, queueS, listX, cvVars, sem, wtask,
                 callerVars, ghostVars>>

\* Taking the front task; the last one out wakes task_queue_empty_cv.
WorkerPop(w) ==
  /\ wpc[w] = "loop" /\ queue # <<>>
  /\ wpc' = [wpc EXCEPT ![w] = "run"]
  /\ TakeFront(w)
  /\ NotifyEmpty
  /\ queueX' = None
  /\ lateStarts' = [lateStarts EXCEPT ![w] =
                      IF wstatus[w] = "PAUSED" THEN @ + 1 ELSE @]
  /\ UNCHANGED <<status, maxTaskCount, workerList, statusX, statusS, queueS,
                 listX, taskWaiters, wstatus, sem, callerVars, created,
                 submitted, finished>>

\* task() returns or throws; either way the loop goes on.
WorkerRun(w) ==
  /\ wpc[w] = "run"
  /\ wpc' = [wpc EXCEPT ![w] = "top"]
  /\ wtask' = [wtask EXCEPT ![w] = 0]
  /\ finished' = finished \cup {wtask[w]}
  /\ UNCHANGED <<poolVars, lockVars, cvVars, wstatus, sem, callerVars, created,
                 submitted, lateStarts>>

WorkerStep(w) ==
  \/ WorkerTop(w) \/ WorkerAcquire(w) \/ WorkerLock(w) \/ WorkerPre(w)
  \/ WorkerWait(w) \/ WorkerPost(w) \/ WorkerPop(w) \/ WorkerRun(w)

-----------------------------------------------------------------------------
(* The public methods, run by the callers.                                 *)

At(c, op, pc) == cop[c] = op /\ cpc[c] = pc
Goto(c, pc) == cpc' = [cpc EXCEPT ![c] = pc] /\ UNCHANGED cop
Return(c) == /\ cpc' = [cpc EXCEPT ![c] = "idle"]
             /\ cop' = [cop EXCEPT ![c] = "none"]

\* The destructor may not overlap any other use of the object.
Alive == \A d \in Callers : cop[d] # "destroy"

\* A caller enters a method.  The guards are the bounds of the model and the
\* precondition of the destructor.
Call(c, op) ==
  /\ cpc[c] = "idle" /\ Alive
  /\ op = "submit" =>
       submitted + Cardinality({d \in Callers : cop[d] = "submit"}) < MaxTasks
  /\ op = "pause" => \A w \in Workers : sem[w] < MaxSem
  /\ op = "destroy" => /\ \A d \in Callers : cpc[d] = "idle"
                       /\ DestroyTerminatedOnly => status = "TERMINATED"
  /\ cop' = [cop EXCEPT ![c] = op]
  /\ cpc' = [cpc EXCEPT ![c] = "called"]
  /\ UNCHANGED <<poolVars, lockVars, cvVars, workerVars, todo, count, ghostVars>>

\* status_mutex can be locked in the mode the method asks for.  Mutant: the
\* exclusive mode does not exclude the shared one.
StatusFree  == statusX = None
StatusFreeXShared == statusX = None
StatusFreeX == statusX = None /\ statusS = {}

\* A method throws, or finds nothing to do, in the switch on status it starts
\* with; the status lock it took is released by the same step.
Shared(op) == op \in {"submit", "wait", "add_thread", "remove_thread"}
Refused(op) ==
  CASE op = "submit" -> status # "RUNNING"
    [] op = "wait" -> status = "TERMINATED"
    [] op \in {"add_thread", "remove_thread"} ->
         status \in {"TERMINATED", "TERMINATING", "PAUSED"}
    [] op = "pause" -> status # "RUNNING"
    [] op = "resume" -> status \in {"TERMINATED", "TERMINATING", "RUNNING"}
    [] op = "shutdown" -> status \in {"TERMINATED", "TERMINATING", "SHUTDOWN"}
    [] op = "terminate" -> status = "TERMINATED"
    [] OTHER -> FALSE

Refuse(c) ==
  /\ cpc[c] = "called" /\ Refused(cop[c])
  /\ IF Shared(cop[c]) THEN StatusFree ELSE StatusFreeX
  /\ Return(c)
  /\ UNCHANGED <<poolVars, lockVars, cvVars, workerVars, todo, count, ghostVars>>

\* submit, add_thread, remove_thread and wait hold status_mutex shared for
\* the rest of the call.  submit reads max_task_count > 0 here.
SharedBegin(c) ==
  /\ cpc[c] = "called" /\ Shared(cop[c]) /\ ~Refused(cop[c]) /\ StatusFree
  /\ statusS' = statusS \cup {c}
  /\ Goto(c, CASE cop[c] = "submit" -> IF maxTaskCount > 0 THEN "sub_count"
                                                           ELSE "sub_push"
               [] cop[c] = "wait" -> "drain_lock"
               [] cop[c] = "add_thread" -> "add_list"
               [] OTHER -> "rem_list")
  /\ UNCHANGED <<poolVars, statusX, queueX, queueS, listX, cvVars, workerVars,
                 todo, count, ghostVars>>

\* submit: get_task_count() >= max_task_count, under the shared queue lock,
\* which is released again before the task is queued.  Mutant: > for >=.
QueueFullOffByOne == Len(queue) > maxTaskCount
QueueFull == Len(queue) >= maxTaskCount
SubmitCount(c) ==
  /\ cpc[c] = "sub_count" /\ queueX = None
  /\ \/ /\ ~QueueFull
        /\ Goto(c, "sub_push") /\ UNCHANGED statusS
     \/ /\ QueueFull
        /\ Return(c) /\ statusS' = statusS \ {c}
  /\ UNCHANGED <<poolVars, statusX, queueX, queueS, listX, cvVars, workerVars,
                 todo, count, ghostVars>>

\* submit: task_queue.emplace under the exclusive queue lock.
SubmitPush(c) ==
  /\ cpc[c] = "sub_push" /\ QueueFreeX
  /\ queue' = Append(queue, submitted + 1)
  /\ submitted' = submitted + 1
  /\ Goto(c, "sub_notify")
  /\ UNCHANGED <<status, maxTaskCount, workerList, lockVars, cvVars, workerVars,
                 todo, count, created, finished, lateStarts>>

\* submit: task_queue_cv.notify_one(), after the queue lock is gone.
SubmitNotify(c) ==
  /\ cpc[c] = "sub_notify"
  /\ NotifyOne
  /\ statusS' = statusS \ {c}
  /\ Return(c)
  /\ UNCHANGED <<poolVars, statusX, queueX, queueS, listX, emptyWaiters,
                 workerVars, todo, count, ghostVars>>

SetMaxTaskCount(c) ==
  /\ At(c, "set_max_task_count", "called")
  /\ \E n \in Limits : maxTaskCount' = n
  /\ Return(c)
  /\ UNCHANGED <<status, queue, workerList, lockVars, cvVars, workerVars, todo, count, ghostVars>>

\* The other methods lock status_mutex exclusively and walk worker_list.
ExclusiveBegin(c, st, pc) ==
  /\ cpc[c] = "called" /\ StatusFreeX
  /\ statusX' = c
  /\ status' = st
  /\ todo' = [todo EXCEPT ![c] = workerList]
  /\ Goto(c, pc)
  /\ UNCHANGED <<maxTaskCount, queue, workerList, statusS, queueX, queueS, listX,
                 cvVars, workerVars, count, ghostVars>>

PauseBegin(c) ==
  /\ cop[c] = "pause" /\ status = "RUNNING"
  /\ ExclusiveBegin(c, "PAUSED", "pausing")

\* resume, or the resume that shutdown makes of a paused pool.
ResumeBegin(c) ==
  /\ \/ cop[c] = "resume" /\ status \in {"PAUSED", "SHUTDOWN"}
     \/ cop[c] = "shutdown" /\ status = "PAUSED"
  /\ ExclusiveBegin(c, IF status = "PAUSED" THEN "RUNNING" ELSE status, "resuming")

ShutdownBegin(c) ==
  /\ cop[c] = "shutdown" /\ status = "RUNNING"
  /\ ExclusiveBegin(c, "SHUTDOWN", "drain_lock")

TerminateBegin(c) ==
  /\ cop[c] \in {"terminate", "destroy"} /\ status # "TERMINATED"
  /\ ExclusiveBegin(c, "TERMINATING", "terminating")

\* ~thread_pool of a terminated pool: terminate() returns at once, and the
\* workers are destroyed with worker_list.
DestroyBegin(c) ==
  /\ At(c, "destroy", "called") /\ status = "TERMINATED" /\ StatusFreeX
  /\ todo' = [todo EXCEPT ![c] = workerList]
  /\ Goto(c, "deleting")
  /\ UNCHANGED <<poolVars, lockVars, cvVars, workerVars, count, ghostVars>>

-----------------------------------------------------------------------------
(* The loops over worker_list; each iteration locks that worker's status.  *)

\* worker_thread::pause
PauseOne(c) ==
  /\ cpc[c] = "pausing" /\ todo[c] # <<>>
  /\ LET w == Head(todo[c])
         hit == wstatus[w] \in {"RUNNING", "BLOCKED"}
     IN /\ wstatus' = [wstatus EXCEPT ![w] = IF hit THEN "PAUSED" ELSE @]
        /\ lateStarts' = [lateStarts EXCEPT ![w] = IF hit THEN 0 ELSE @]
  /\ todo' = [todo EXCEPT ![c] = Tail(@)]
  /\ UNCHANGED <<poolVars, lockVars, cvVars, wpc, sem, wtask, cpc, cop, count,
                 created, submitted, finished>>

\* worker_thread::resume: a PAUSED worker runs again and gets a permit.
ResumeOne(c) ==
  /\ cpc[c] = "resuming" /\ todo[c] # <<>>
  /\ LET w == Head(todo[c])
         hit == wstatus[w] = "PAUSED"
     IN /\ wstatus' = [wstatus EXCEPT ![w] = IF hit THEN "RUNNING" ELSE @]
        /\ sem' = [sem EXCEPT ![w] = IF hit THEN @ + 1 ELSE @]
  /\ todo' = [todo EXCEPT ![c] = Tail(@)]
  /\ UNCHANGED <<poolVars, lockVars, cvVars, wpc, wtask, cpc, cop, count, ghostVars>>

\* worker_thread::terminate: a PAUSED worker is also given a permit.
\* Mutant: it is not.
TerminateWorkerNoPermit(w) ==
  /\ wstatus' = [wstatus EXCEPT ![w] = IF @ = "TERMINATED" THEN @ ELSE "TERMINATING"]
  /\ UNCHANGED sem
TerminateWorker(w) ==
  /\ wstatus' = [wstatus EXCEPT ![w] = IF @ = "TERMINATED" THEN @ ELSE "TERMINATING"]
  /\ sem' = [sem EXCEPT ![w] = IF wstatus[w] = "PAUSED" THEN @ + 1 ELSE @]

TerminateOne(c) ==
  /\ cpc[c] \in {"terminating", "removing"} /\ todo[c] # <<>>
  /\ TerminateWorker(Head(todo[c]))
  /\ todo' = [todo EXCEPT ![c] = Tail(@)]
  /\ UNCHANGED <<poolVars, lockVars, cvVars, wpc, wtask, cpc, cop, count, ghostVars>>

\* The end of pause and of resume: status_mutex is released.
WalkEnd(c) ==
  /\ \/ cpc[c] = "pausing"
     \/ At(c, "resume", "resuming")
  /\ todo[c] = <<>>
  /\ statusX' = None
  /\ Return(c)
  /\ UNCHANGED <<poolVars, statusS, queueX, queueS, listX, cvVars, workerVars,
                 todo, count, ghostVars>>

\* shutdown of a paused pool, once it has resumed the workers.
ShutdownResumed(c) ==
  /\ At(c, "shutdown", "resuming") /\ todo[c] = <<>>
  /\ status' = "SHUTDOWN"
  /\ Goto(c, "drain_lock")
  /\ UNCHANGED <<maxTaskCount, queue, workerList, lockVars, cvVars, workerVars,
                 todo, count, ghostVars>>

\* shutdown and wait lock task_queue_mutex shared, at first and each time
\* task_queue_empty_cv wakes them.
DrainLock(c) ==
  /\ cpc[c] \in {"drain_lock", "drain_wait"} /\ c \notin emptyWaiters
  /\ queueX = None
  /\ queueS' = queueS \cup {c}
  /\ Goto(c, "drain")
  /\ UNCHANGED <<poolVars, statusX, statusS, queueX, listX, cvVars, workerVars,
                 todo, count, ghostVars>>

\* while (!task_queue.empty()) task_queue_empty_cv.wait(lock)
DrainWait(c) ==
  /\ cpc[c] = "drain" /\ queue # <<>>
  /\ queueS' = queueS \ {c}
  /\ emptyWaiters' = emptyWaiters \cup {c}
  /\ Goto(c, "drain_wait")
  /\ UNCHANGED <<poolVars, statusX, statusS, queueX, listX, taskWaiters,
                 workerVars, todo, count, ghostVars>>

DrainSpurious(c) ==
  /\ c \in emptyWaiters
  /\ emptyWaiters' = emptyWaiters \ {c}
  /\ UNCHANGED <<poolVars, lockVars, taskWaiters, workerVars, callerVars, ghostVars>>

\* wait returns and releases both locks.
WaitEnd(c) ==
  /\ At(c, "wait", "drain") /\ queue = <<>>
  /\ queueS' = queueS \ {c} /\ statusS' = statusS \ {c}
  /\ Return(c)
  /\ UNCHANGED <<poolVars, statusX, queueX, listX, cvVars, workerVars, todo,
                 count, ghostVars>>

\* shutdown goes on to terminate with both locks still held.
ShutdownDrained(c) ==
  /\ At(c, "shutdown", "drain") /\ queue = <<>>
  /\ status' = "TERMINATING"
  /\ todo' = [todo EXCEPT ![c] = workerList]
  /\ Goto(c, "terminating")
  /\ UNCHANGED <<maxTaskCount, queue, workerList, lockVars, cvVars, workerVars,
                 count, ghostVars>>

\* The end of terminate: task_queue_cv.notify_all() and TERMINATED.
TerminateEnd(c) ==
  /\ cpc[c] = "terminating" /\ todo[c] = <<>>
  /\ status' = "TERMINATED"
  /\ NotifyAll
  /\ statusX' = None /\ queueS' = queueS \ {c}
  /\ todo' = [todo EXCEPT ![c] = IF cop[c] = "destroy" THEN workerList ELSE <<>>]
  /\ IF cop[c] = "destroy" THEN Goto(c, "deleting") ELSE Return(c)
  /\ UNCHANGED <<maxTaskCount, queue, workerList, statusS, queueX, listX,
                 emptyWaiters, workerVars, count, ghostVars>>

\* add_thread under worker_list_mutex; the new threads start at once.
AddThread(c) ==
  /\ cpc[c] = "add_list" /\ listX = None
  /\ \E n \in 0..(MaxThreads - created) :
       /\ workerList' = workerList \o [i \in 1..n |-> created + i]
       /\ wpc' = [w \in Workers |->
                    IF w \in (created + 1)..(created + n) THEN "top" ELSE wpc[w]]
       /\ created' = created + n
  /\ statusS' = statusS \ {c}
  /\ Return(c)
  /\ UNCHANGED <<status, maxTaskCount, queue, statusX, queueX, queueS, listX,
                 cvVars, wstatus, sem, wtask, todo, count, submitted,
                 finished, lateStarts>>

\* The last n workers of worker_list, in list order.  Mutant: all but the last.
SuffixShort(n) == SubSeq(workerList, Len(workerList) - n + 1, Len(workerList) - 1)
Suffix(n) == SubSeq(workerList, Len(workerList) - n + 1, Len(workerList))

\* remove_thread terminates the last n workers, from the end backwards.
RemoveBegin(c) ==
  /\ cpc[c] = "rem_list" /\ listX = None
  /\ listX' = c
  /\ \E n \in 0..Len(workerList) :
       /\ count' = [count EXCEPT ![c] = n]
       /\ todo' = [todo EXCEPT ![c] =
                    [i \in 1..Len(Suffix(n)) |-> Suffix(n)[Len(Suffix(n)) + 1 - i]]]
  /\ Goto(c, "removing")
  /\ UNCHANGED <<poolVars, statusX, statusS, queueX, queueS, cvVars, workerVars,
                 ghostVars>>

\* remove_thread: task_queue_cv.notify_all(), then the list erases the workers.
RemoveNotify(c) ==
  /\ cpc[c] = "removing" /\ todo[c] = <<>>
  /\ NotifyAll
  /\ todo' = [todo EXCEPT ![c] = Suffix(count[c])]
  /\ Goto(c, "deleting")
  /\ UNCHANGED <<poolVars, lockVars, emptyWaiters, workerVars, count, ghostVars>>

\* ~worker_thread: terminate(), and a notification if the worker was BLOCKED.
DeleteWorker(c) ==
  /\ cpc[c] = "deleting" /\ todo[c] # <<>>
  /\ TerminateWorker(Head(todo[c]))
  /\ IF wstatus[Head(todo[c])] = "BLOCKED" THEN NotifyAll ELSE UNCHANGED taskWaiters
  /\ Goto(c, "join")
  /\ UNCHANGED <<poolVars, lockVars, emptyWaiters, wpc, wtask, todo, count,
                 ghostVars>>

\* ~worker_thread: thread.join() returns once the thread function has.
JoinWorker(c) ==
  /\ cpc[c] = "join" /\ wpc[Head(todo[c])] = "exited"
  /\ todo' = [todo EXCEPT ![c] = Tail(@)]
  /\ Goto(c, "deleting")
  /\ UNCHANGED <<poolVars, lockVars, cvVars, workerVars, count, ghostVars>>

RemoveEnd(c) ==
  /\ At(c, "remove_thread", "deleting") /\ todo[c] = <<>>
  /\ workerList' = SubSeq(workerList, 1, Len(workerList) - count[c])
  /\ listX' = None /\ statusS' = statusS \ {c}
  /\ count' = [count EXCEPT ![c] = 0]
  /\ Return(c)
  /\ UNCHANGED <<status, maxTaskCount, queue, statusX, queueX, queueS, cvVars,
                 workerVars, todo, ghostVars>>

DestroyEnd(c) ==
  /\ At(c, "destroy", "deleting") /\ todo[c] = <<>>
  /\ workerList' = <<>>
  /\ Goto(c, "destroyed")
  /\ UNCHANGED <<status, maxTaskCount, queue, lockVars, cvVars, workerVars, todo, count, ghostVars>>

CallerStep(c) ==
  \/ Refuse(c) \/ SharedBegin(c)
  \/ SubmitCount(c) \/ SubmitPush(c) \/ SubmitNotify(c) \/ SetMaxTaskCount(c)
  \/ PauseBegin(c) \/ ResumeBegin(c) \/ ShutdownBegin(c) \/ TerminateBegin(c)
  \/ DestroyBegin(c)
  \/ PauseOne(c) \/ ResumeOne(c) \/ TerminateOne(c) \/ WalkEnd(c)
  \/ ShutdownResumed(c) \/ DrainLock(c) \/ DrainWait(c) \/ WaitEnd(c)
  \/ ShutdownDrained(c) \/ TerminateEnd(c)
  \/ AddThread(c) \/ RemoveBegin(c) \/ RemoveNotify(c) \/ DeleteWorker(c)
  \/ JoinWorker(c) \/ RemoveEnd(c) \/ DestroyEnd(c)

\* The pool is gone; the program may go on without it.
Gone == (\E c \in Callers : cpc[c] = "destroyed") /\ UNCHANGED vars

\* Wake-ups without a notification.
Spurious == \/ \E w \in Workers : WorkerSpurious(w)
            \/ \E c \in Callers : DrainSpurious(c)

Next ==
  \/ \E w \in Workers : WorkerStep(w)
  \/ \E c \in Callers : CallerStep(c)
  \/ Spurious
  \/ \E c \in Callers, op \in Ops : Call(c, op)
  \/ Gone

Spec == Init /\ [][Next]_vars

\* Every thread that can go on eventually does, and gets a mutex that is free
\* again and again; nobody has to call a method, and no condition variable has
\* to wake a thread nobody notified, nor does so for ever.
Fairness == /\ \A w \in Workers : SF_vars(WorkerStep(w))
            /\ \A c \in Callers : SF_vars(CallerStep(c))
            /\ <>[][~Spurious]_vars

FairSpec == Spec /\ Fairness

-----------------------------------------------------------------------------
(* Properties.                                                             *)

\* Every variable has its type; the queue, the workers and the finished tasks
\* only name tasks that were submitted.
TypeOK ==
  /\ status \in PoolStatus /\ maxTaskCount \in Nat
  /\ queue \in Seq(1..submitted) /\ workerList \in Seq(Workers)
  /\ statusX \in Callers \cup {None} /\ statusS \subseteq Callers
  /\ queueX \in Workers \cup {None} /\ queueS \subseteq Callers
  /\ listX \in Callers \cup {None}
  /\ taskWaiters \subseteq Workers /\ emptyWaiters \subseteq Callers
  /\ wpc \in [Workers -> WorkerPC] /\ wstatus \in [Workers -> WorkerStatus]
  /\ sem \in [Workers -> Nat] /\ wtask \in [Workers -> 0..submitted]
  /\ cpc \in [Callers -> CallerPC] /\ cop \in [Callers -> AllOps \cup {"none"}]
  /\ todo \in [Callers -> Seq(Workers)] /\ count \in [Callers -> Nat]
  /\ created \in 0..MaxThreads /\ submitted \in Nat
  /\ finished \subseteq 1..submitted /\ lateStarts \in [Workers -> Nat]

\* No worker thread dies of the exception its status switch throws for an
\* unexpected BLOCKED (an exception out of a thread function ends the process).
NeverThrows == \A w \in Workers : wpc[w] # "threw"

\* A worker asleep on pause_sem that is no longer PAUSED has a permit: neither
\* resume nor terminate can be missed, however they interleave with the worker.
NoLostResume ==
  \A w \in Workers :
    wpc[w] \in {"sem_top", "sem_pre", "sem_post"} /\ wstatus[w] # "PAUSED"
      => sem[w] > 0

\* A worker that has been paused takes at most one more task (it may already
\* be past its status check), stale permits of pause_sem notwithstanding.
AtMostOneLateStart == \A w \in Workers : lateStarts[w] <= 1

\* From the status check of submit to its return the pool is RUNNING: no task
\* slips in behind a pause, a shutdown or a terminate.
AcceptedWhileRunning ==
  \A c \in Callers :
    cpc[c] \in {"sub_count", "sub_push", "sub_notify"} => status = "RUNNING"

\* The limit on queued tasks is exceeded by fewer tasks than there are callers:
\* all that the gap between counting and queueing in submit allows.
QueueLimit ==
  0 \notin Limits \cup {MaxTaskCount} =>
    \E m \in Limits \cup {MaxTaskCount} : Len(queue) < m + Cardinality(Callers)

\* Tasks are taken in the order of submission, each by one worker, and none is
\* forgotten: what has left the queue is running once or has finished.
TasksAccounted ==
  LET left == submitted - Len(queue)
      running == {w \in Workers : wpc[w] = "run"}
  IN /\ \A i \in 1..Len(queue) : queue[i] = left + i
     /\ \A v, w \in running : wtask[v] = wtask[w] => v = w
     /\ {wtask[w] : w \in running} \cap finished = {}
     /\ {wtask[w] : w \in running} \cup finished = 1..left

\* A pool that nobody terminates by force stops with an empty queue: shutdown
\* leaves no accepted task behind.
ShutdownDrains ==
  "terminate" \notin Ops /\ DestroyTerminatedOnly =>
    (status \in {"TERMINATING", "TERMINATED"} => queue = <<>>)

\* While a worker sleeps on task_queue_cv of a pool that runs or is being shut
\* down, every queued task has a worker of its own on the way to it (awake and
\* not busy with a task) or a notification still to be sent: no notify_one is
\* missed between the emptiness test and the wait.  Pauses may break it (a worker
\* paused and resumed inside the check before its wait does not test the queue again),
\* and so may remove_thread, whose workers take notifications with them when they end.
OnTheWay == {w \in 1..created : /\ w \notin taskWaiters
                                /\ wpc[w] \notin {"run", "exited", "threw"}}
NoSleeperBesideTask ==
  /\ {"pause", "remove_thread"} \cap Ops = {}
  /\ status \in {"RUNNING", "SHUTDOWN"} /\ taskWaiters # {}
  => Len(queue) <= Cardinality(OnTheWay)
                     + Cardinality({c \in Callers : cpc[c] = "sub_notify"})

\* The pool implements TaskService: threads, locks and wake-ups change nothing
\* in what a submitter is promised about acceptance, order and single execution.
Service == INSTANCE TaskService WITH
  mode <- CASE status = "RUNNING" -> "open" [] status = "PAUSED" -> "held"
            [] OTHER -> "closed",
  accepted <- submitted,
  pending <- queue,
  running <- {wtask[w] : w \in {v \in Workers : wpc[v] = "run"}},
  done <- finished
ImplementsTaskService == Service!Spec

\* No worker thread outlives the pool object it points to, threads added or
\* removed meanwhile included.
NoOrphans ==
  (\E c \in Callers : cpc[c] = "destroyed") =>
    \A w \in 1..created : wpc[w] = "exited"

\* Every accepted task is executed to its end, in a pool that is never paused.
TasksFinish == \A t \in Tasks : (submitted >= t) ~> (t \in finished)

\* shutdown and wait return, whatever the other callers do meanwhile: the queue
\* runs empty and the last pop wakes every waiter.
DrainReturns ==
  \A c \in Callers, op \in {"shutdown", "wait"} : At(c, op, "called") ~> cpc[c] = "idle"

\* The destructor returns: every worker it joins is woken and ends.
DestructorReturns ==
  \A c \in Callers : At(c, "destroy", "called") ~> cpc[c] = "destroyed"
=============================================================================
