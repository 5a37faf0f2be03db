-------------------------- MODULE ThreadPoolProofs --------------------------
(***************************************************************************)
(* Safety of the thread pool for any number of callers, workers and tasks. *)
(*                                                                         *)
(* Control says where a caller can be and which locks it holds there; with *)
(* it the type invariant is inductive (the walks over worker_list stay in  *)
(* the list, a join always has a worker to join).  On top of it come what  *)
(* a worker's status says of its place, the permits, the status lock and   *)
(* the length of the queue; then the refinement, and how pauses and the    *)
(* pool end: a paused worker stops after one more task, shutdown leaves    *)
(* none, and the destructor leaves no thread.  Last come the notifications *)
(* of submit: none is missed in a pool that nobody pauses or shrinks.      *)
(***************************************************************************)
EXTENDS ThreadPool, SequenceTheorems, FiniteSetTheorems, TLAPS

\* A caller is where its method can be.
CallerOK ==
  \A c \in Callers :
    /\ cpc[c] = "idle" <=> cop[c] = "none"
    /\ cpc[c] \in {"sub_count", "sub_push", "sub_notify"} => cop[c] = "submit"
    /\ cpc[c] = "pausing" => cop[c] = "pause"
    /\ cpc[c] = "resuming" => cop[c] \in {"resume", "shutdown"}
    /\ cpc[c] \in {"drain_lock", "drain", "drain_wait"} => cop[c] \in {"wait", "shutdown"}
    /\ cpc[c] = "terminating" => cop[c] \in {"terminate", "shutdown", "destroy"}
    /\ cpc[c] = "add_list" => cop[c] = "add_thread"
    /\ cpc[c] \in {"rem_list", "removing"} => cop[c] = "remove_thread"
    /\ cpc[c] \in {"deleting", "join"} => cop[c] \in {"remove_thread", "destroy"}
    /\ cpc[c] = "destroyed" => cop[c] = "destroy"

\* Nothing else runs beside the destructor.
DestroyAlone ==
  \A c, d \in Callers : cop[c] = "destroy" /\ cop[d] # "none" => c = d

\* status_mutex: held exclusively from the status change of a method to its
\* end, held shared by the methods that must not see it change.
Holding(c) ==
  \/ cpc[c] \in {"pausing", "resuming", "terminating"}
  \/ cop[c] = "shutdown" /\ cpc[c] \in {"drain_lock", "drain", "drain_wait"}
StatusLock ==
  /\ \A c \in Callers : Holding(c) <=> statusX = c
  /\ \A c \in Callers : c \in statusS <=> Shared(cop[c]) /\ cpc[c] # "called"
  /\ statusX # None => statusS = {}

\* worker_list_mutex belongs to remove_thread, whose workers are in the list.
InRemove(c) ==
  cop[c] = "remove_thread" /\ cpc[c] \in {"removing", "deleting", "join"}
ListLock ==
  \A c \in Callers : InRemove(c) => listX = c /\ count[c] <= Len(workerList)

\* A caller that joins has a worker to join.
JoinTodo == \A c \in Callers : cpc[c] = "join" => todo[c] # <<>>

Control == CallerOK /\ DestroyAlone /\ StatusLock /\ ListLock /\ JoinTodo

\* A worker that runs a task has one.
WorkerOK == \A w \in Workers : wpc[w] = "run" => wtask[w] > 0

-----------------------------------------------------------------------------
(* Types.                                                                  *)

LEMMA TypeInit == Init => TypeOK
<1>. SUFFICES ASSUME Init PROVE TypeOK
  OBVIOUS
<1>. USE PoolAssumption DEF PoolAssumption, Init
<1>1. workerList \in Seq(Workers) /\ queue \in Seq(1..submitted)
  BY DEF Workers
<1>2. /\ wpc \in [Workers -> WorkerPC] /\ wstatus \in [Workers -> WorkerStatus]
      /\ sem \in [Workers -> Nat] /\ wtask \in [Workers -> 0..submitted]
      /\ lateStarts \in [Workers -> Nat]
  BY DEF WorkerPC, WorkerStatus
<1>3. /\ cpc \in [Callers -> CallerPC] /\ cop \in [Callers -> AllOps \cup {"none"}]
      /\ todo \in [Callers -> Seq(Workers)] /\ count \in [Callers -> Nat]
  BY DEF CallerPC, AllOps
<1>. QED
  BY <1>1, <1>2, <1>3 DEF TypeOK, PoolStatus

LEMMA ControlInit == Init => Control
  BY PoolAssumption DEF PoolAssumption, Init, Control, CallerOK, DestroyAlone,
     StatusLock, Holding, Shared, ListLock, InRemove, JoinTodo

LEMMA SuffixType ==
  ASSUME workerList \in Seq(Workers), NEW n \in Nat, n <= Len(workerList)
  PROVE  Suffix(n) \in Seq(Workers)
<1>1. /\ Len(workerList) \in Nat /\ Len(workerList) - n + 1 \in Int
      /\ \A i \in (Len(workerList) - n + 1)..Len(workerList) : workerList[i] \in Workers
  BY LenProperties
<1>. QED
  BY <1>1, SubSeqProperties DEF Suffix

LEMMA PrefixType ==
  ASSUME workerList \in Seq(Workers), NEW n \in Nat, n <= Len(workerList)
  PROVE  SubSeq(workerList, 1, Len(workerList) - n) \in Seq(Workers)
  BY SubSeqProperties, LenProperties

LEMMA Successor ==
  ASSUME NEW f \in [Workers -> Nat], NEW w \in Workers
  PROVE  f[w] \in Nat /\ f[w] + 1 \in Nat /\ (f[w] > 0 => f[w] - 1 \in Nat)
  OBVIOUS

LEMMA TerminateWorkerType ==
  ASSUME NEW w \in Workers, TerminateWorker(w),
         wstatus \in [Workers -> WorkerStatus], sem \in [Workers -> Nat]
  PROVE  wstatus' \in [Workers -> WorkerStatus] /\ sem' \in [Workers -> Nat]
  BY DEF TerminateWorker, WorkerStatus

LEMMA TypeStep == TypeOK /\ WorkerOK /\ Control /\ [Next]_vars => TypeOK'
<1>. SUFFICES ASSUME TypeOK, WorkerOK, Control, [Next]_vars PROVE TypeOK'
  OBVIOUS
<1>. USE PoolAssumption DEF PoolAssumption, TypeOK, poolVars, lockVars, cvVars, workerVars,
         callerVars, ghostVars
<1>1. ASSUME NEW w \in Workers, WorkerStep(w) PROVE TypeOK'
  <2>1. CASE WorkerTop(w)
    <3>1. wpc' \in [Workers -> WorkerPC]
      BY <2>1 DEF WorkerTop, TopSwitch, WorkerPC, WorkerStatus
    <3>2. wstatus' \in [Workers -> WorkerStatus]
      BY <2>1 DEF WorkerTop, TopSwitch, StoreStatus, WorkerStatus
    <3>. QED
      BY <2>1, <3>1, <3>2 DEF WorkerTop
  <2>2. CASE WorkerAcquire(w)
    <3>1. wpc' \in [Workers -> WorkerPC]
      BY <2>2 DEF WorkerAcquire, Resumed, WorkerPC
    <3>2. sem[w] - 1 \in Nat
      BY <2>2, Successor DEF WorkerAcquire, Permit
    <3>3. sem' \in [Workers -> Nat]
      BY <2>2, <3>2 DEF WorkerAcquire
    <3>. QED
      BY <2>2, <3>1, <3>2, <3>3 DEF WorkerAcquire
  <2>3. CASE WorkerLock(w)
    <3>1. wpc' \in [Workers -> WorkerPC]
      BY <2>3 DEF WorkerLock, WorkerPC
    <3>. QED
      BY <2>3, <3>1 DEF WorkerLock
  <2>4. CASE WorkerPre(w)
    <3>1. wpc' \in [Workers -> WorkerPC]
      BY <2>4 DEF WorkerPre, PreSwitch, WorkerPC, WorkerStatus
    <3>2. wstatus' \in [Workers -> WorkerStatus]
      BY <2>4 DEF WorkerPre, PreSwitch, StoreStatus, WorkerStatus
    <3>. QED
      BY <2>4, <3>1, <3>2 DEF WorkerPre
  <2>5. CASE WorkerWait(w)
    <3>1. wpc' \in [Workers -> WorkerPC]
      BY <2>5 DEF WorkerWait, WorkerPC
    <3>. QED
      BY <2>5, <3>1 DEF WorkerWait
  <2>6. CASE WorkerPost(w)
    <3>1. wpc' \in [Workers -> WorkerPC]
      BY <2>6 DEF WorkerPost, PostSwitch, WorkerPC, WorkerStatus
    <3>2. wstatus' \in [Workers -> WorkerStatus]
      BY <2>6 DEF WorkerPost, PostSwitch, StoreStatus, WorkerStatus
    <3>. QED
      BY <2>6, <3>1, <3>2 DEF WorkerPost
  <2>7. CASE WorkerPop(w)
    <3>1. wpc' \in [Workers -> WorkerPC]
      BY <2>7 DEF WorkerPop, WorkerPC
    <3>2. Head(queue) \in 1..submitted /\ Tail(queue) \in Seq(1..submitted)
      BY <2>7, HeadTailProperties DEF WorkerPop
    <3>3. queue' \in Seq(1..submitted) /\ wtask' \in [Workers -> 0..submitted]
      BY <2>7, <3>2 DEF WorkerPop, TakeFront
    <3>4. lateStarts[w] \in Nat /\ lateStarts[w] + 1 \in Nat
      OBVIOUS
    <3>5. lateStarts' \in [Workers -> Nat]
      BY <2>7, <3>4 DEF WorkerPop
    <3>. QED
      BY <2>7, <3>1, <3>2, <3>3, <3>4, <3>5 DEF WorkerPop, NotifyEmpty
  <2>8. CASE WorkerRun(w)
    <3>1. wpc' \in [Workers -> WorkerPC]
      BY <2>8 DEF WorkerRun, WorkerPC
    <3>2. wtask[w] \in 1..submitted
      BY <2>8 DEF WorkerRun, WorkerOK
    <3>3. wtask' \in [Workers -> 0..submitted]
      BY <2>8 DEF WorkerRun
    <3>4. finished' \subseteq 1..submitted
      BY <2>8, <3>2 DEF WorkerRun
    <3>. QED
      BY <2>8, <3>1, <3>2, <3>3, <3>4 DEF WorkerRun
  <2>. QED
    BY <1>1, <2>1, <2>2, <2>3, <2>4, <2>5, <2>6, <2>7, <2>8 DEF WorkerStep
<1>2. ASSUME NEW c \in Callers, CallerStep(c) PROVE TypeOK'
  <2>1. CASE Refuse(c)
    <3>1. cpc' \in [Callers -> CallerPC] /\ cop' \in [Callers -> AllOps \cup {"none"}]
      BY <2>1 DEF Refuse, Return, CallerPC, AllOps
    <3>. QED
      BY <2>1, <3>1 DEF Refuse
  <2>2. CASE SharedBegin(c)
    <3>1. cpc' \in [Callers -> CallerPC] /\ cop' \in [Callers -> AllOps \cup {"none"}]
      BY <2>2 DEF SharedBegin, Goto, CallerPC, AllOps
    <3>. QED
      BY <2>2, <3>1 DEF SharedBegin
  <2>3. CASE SubmitCount(c)
    <3>1. cpc' \in [Callers -> CallerPC] /\ cop' \in [Callers -> AllOps \cup {"none"}]
      BY <2>3 DEF SubmitCount, Goto, Return, CallerPC, AllOps
    <3>2. statusS' \subseteq Callers
      BY <2>3 DEF SubmitCount
    <3>. QED
      BY <2>3, <3>1, <3>2 DEF SubmitCount
  <2>4. CASE SubmitPush(c)
    <3>1. cpc' \in [Callers -> CallerPC] /\ cop' \in [Callers -> AllOps \cup {"none"}]
      BY <2>4 DEF SubmitPush, Goto, CallerPC, AllOps
    <3>2. queue' \in Seq(1..submitted')
      <4>1. queue \in Seq(1..(submitted + 1)) /\ submitted + 1 \in 1..(submitted + 1)
        BY <2>4 DEF SubmitPush
      <4>. QED
        BY <2>4, <4>1 DEF SubmitPush
    <3>3. wtask' \in [Workers -> 0..submitted'] /\ finished' \subseteq 1..submitted'
      BY <2>4 DEF SubmitPush
    <3>4. submitted' \in Nat
      BY <2>4 DEF SubmitPush
    <3>. QED
      BY <2>4, <3>1, <3>2, <3>3, <3>4 DEF SubmitPush
  <2>5. CASE SubmitNotify(c)
    <3>1. cpc' \in [Callers -> CallerPC] /\ cop' \in [Callers -> AllOps \cup {"none"}]
      BY <2>5 DEF SubmitNotify, Return, CallerPC, AllOps
    <3>. QED
      BY <2>5, <3>1 DEF SubmitNotify, NotifyOne
  <2>6. CASE SetMaxTaskCount(c)
    <3>1. cpc' \in [Callers -> CallerPC] /\ cop' \in [Callers -> AllOps \cup {"none"}]
      BY <2>6 DEF SetMaxTaskCount, Return, CallerPC, AllOps
    <3>. QED
      BY <2>6, <3>1 DEF SetMaxTaskCount
  <2>7. CASE PauseBegin(c)
    <3>1. cpc' \in [Callers -> CallerPC] /\ cop' \in [Callers -> AllOps \cup {"none"}]
      BY <2>7 DEF PauseBegin, ExclusiveBegin, Goto, CallerPC, AllOps
    <3>. QED
      BY <2>7, <3>1 DEF PauseBegin, ExclusiveBegin, PoolStatus
  <2>8. CASE ResumeBegin(c)
    <3>1. cpc' \in [Callers -> CallerPC] /\ cop' \in [Callers -> AllOps \cup {"none"}]
      BY <2>8 DEF ResumeBegin, ExclusiveBegin, Goto, CallerPC, AllOps
    <3>. QED
      BY <2>8, <3>1 DEF ResumeBegin, ExclusiveBegin, PoolStatus
  <2>9. CASE ShutdownBegin(c)
    <3>1. cpc' \in [Callers -> CallerPC] /\ cop' \in [Callers -> AllOps \cup {"none"}]
      BY <2>9 DEF ShutdownBegin, ExclusiveBegin, Goto, CallerPC, AllOps
    <3>. QED
      BY <2>9, <3>1 DEF ShutdownBegin, ExclusiveBegin, PoolStatus
  <2>10. CASE TerminateBegin(c)
    <3>1. cpc' \in [Callers -> CallerPC] /\ cop' \in [Callers -> AllOps \cup {"none"}]
      BY <2>10 DEF TerminateBegin, ExclusiveBegin, Goto, CallerPC, AllOps
    <3>. QED
      BY <2>10, <3>1 DEF TerminateBegin, ExclusiveBegin, PoolStatus
  <2>11. CASE DestroyBegin(c)
    <3>1. cpc' \in [Callers -> CallerPC] /\ cop' \in [Callers -> AllOps \cup {"none"}]
      BY <2>11 DEF DestroyBegin, Goto, CallerPC, AllOps
    <3>. QED
      BY <2>11, <3>1 DEF DestroyBegin
  <2>12. CASE PauseOne(c)
    <3>1. Head(todo[c]) \in Workers
      BY <2>12, HeadTailProperties DEF PauseOne
    <3>2. wstatus' \in [Workers -> WorkerStatus] /\ lateStarts' \in [Workers -> Nat]
      BY <2>12 DEF PauseOne, WorkerStatus
    <3>3. todo' \in [Callers -> Seq(Workers)]
      BY <2>12, HeadTailProperties DEF PauseOne
    <3>. QED
      BY <2>12, <3>1, <3>2, <3>3 DEF PauseOne
  <2>13. CASE ResumeOne(c)
    <3>1. Head(todo[c]) \in Workers
      BY <2>13, HeadTailProperties DEF ResumeOne
    <3>2. sem[Head(todo[c])] \in Nat /\ sem[Head(todo[c])] + 1 \in Nat
      BY <3>1, Successor
    <3>3. wstatus' \in [Workers -> WorkerStatus]
      BY <2>13, <3>1 DEF ResumeOne, WorkerStatus
    <3>4. sem' \in [Workers -> Nat]
      BY <2>13, <3>1, <3>2 DEF ResumeOne
    <3>5. todo' \in [Callers -> Seq(Workers)]
      BY <2>13, HeadTailProperties DEF ResumeOne
    <3>. QED
      BY <2>13, <3>1, <3>2, <3>3, <3>4, <3>5 DEF ResumeOne
  <2>14. CASE TerminateOne(c)
    <3>1. Head(todo[c]) \in Workers
      BY <2>14, HeadTailProperties DEF TerminateOne
    <3>2. wstatus' \in [Workers -> WorkerStatus] /\ sem' \in [Workers -> Nat]
      BY <2>14, <3>1, TerminateWorkerType DEF TerminateOne
    <3>3. todo' \in [Callers -> Seq(Workers)]
      BY <2>14, HeadTailProperties DEF TerminateOne
    <3>. QED
      BY <2>14, <3>1, <3>2, <3>3 DEF TerminateOne
  <2>15. CASE WalkEnd(c)
    <3>1. cpc' \in [Callers -> CallerPC] /\ cop' \in [Callers -> AllOps \cup {"none"}]
      BY <2>15 DEF WalkEnd, Return, CallerPC, AllOps
    <3>. QED
      BY <2>15, <3>1 DEF WalkEnd
  <2>16. CASE ShutdownResumed(c)
    <3>1. cpc' \in [Callers -> CallerPC] /\ cop' \in [Callers -> AllOps \cup {"none"}]
      BY <2>16 DEF ShutdownResumed, Goto, CallerPC, AllOps
    <3>. QED
      BY <2>16, <3>1 DEF ShutdownResumed, PoolStatus
  <2>17. CASE DrainLock(c)
    <3>1. cpc' \in [Callers -> CallerPC] /\ cop' \in [Callers -> AllOps \cup {"none"}]
      BY <2>17 DEF DrainLock, Goto, CallerPC, AllOps
    <3>. QED
      BY <2>17, <3>1 DEF DrainLock
  <2>18. CASE DrainWait(c)
    <3>1. cpc' \in [Callers -> CallerPC] /\ cop' \in [Callers -> AllOps \cup {"none"}]
      BY <2>18 DEF DrainWait, Goto, CallerPC, AllOps
    <3>. QED
      BY <2>18, <3>1 DEF DrainWait
  <2>19. CASE WaitEnd(c)
    <3>1. cpc' \in [Callers -> CallerPC] /\ cop' \in [Callers -> AllOps \cup {"none"}]
      BY <2>19 DEF WaitEnd, Return, CallerPC, AllOps
    <3>. QED
      BY <2>19, <3>1 DEF WaitEnd
  <2>20. CASE ShutdownDrained(c)
    <3>1. cpc' \in [Callers -> CallerPC] /\ cop' \in [Callers -> AllOps \cup {"none"}]
      BY <2>20 DEF ShutdownDrained, Goto, CallerPC, AllOps
    <3>. QED
      BY <2>20, <3>1 DEF ShutdownDrained, PoolStatus
  <2>21. CASE TerminateEnd(c)
    <3>1. cpc' \in [Callers -> CallerPC] /\ cop' \in [Callers -> AllOps \cup {"none"}]
      BY <2>21 DEF TerminateEnd, Goto, Return, CallerPC, AllOps
    <3>2. todo' \in [Callers -> Seq(Workers)]
      BY <2>21 DEF TerminateEnd
    <3>. QED
      BY <2>21, <3>1, <3>2 DEF TerminateEnd, NotifyAll, PoolStatus
  <2>22. CASE AddThread(c)
    <3>1. cpc' \in [Callers -> CallerPC] /\ cop' \in [Callers -> AllOps \cup {"none"}]
      BY <2>22 DEF AddThread, Return, CallerPC, AllOps
    <3>2. PICK n \in 0..(MaxThreads - created) :
         AddThread(c)!2!(n)
      BY <2>22 DEF AddThread
    <3>3. workerList' \in Seq(Workers)
      <4>1. [i \in 1..n |-> created + i] \in Seq(Workers)
        BY <3>2 DEF Workers
      <4>. QED
        BY <3>2, <4>1, ConcatProperties
    <3>4. wpc' \in [Workers -> WorkerPC]
      BY <3>2 DEF WorkerPC
    <3>5. created' \in 0..MaxThreads
      BY <3>2
    <3>. QED
      BY <2>22, <3>1, <3>2, <3>3, <3>4, <3>5 DEF AddThread
  <2>23. CASE RemoveBegin(c)
    <3>1. cpc' \in [Callers -> CallerPC] /\ cop' \in [Callers -> AllOps \cup {"none"}]
      BY <2>23 DEF RemoveBegin, Goto, CallerPC, AllOps
    <3>2. PICK n \in 0..Len(workerList) :
         RemoveBegin(c)!3!(n)
      BY <2>23 DEF RemoveBegin
    <3>3. Suffix(n) \in Seq(Workers)
      BY SuffixType
    <3>4. [i \in 1..Len(Suffix(n)) |-> Suffix(n)[Len(Suffix(n)) + 1 - i]] \in Seq(Workers)
      BY <3>3
    <3>5. todo' \in [Callers -> Seq(Workers)] /\ count' \in [Callers -> Nat]
      BY <3>2, <3>4, LenProperties
    <3>. QED
      BY <2>23, <3>1, <3>2, <3>3, <3>4, <3>5 DEF RemoveBegin
  <2>24. CASE RemoveNotify(c)
    <3>1. cpc' \in [Callers -> CallerPC] /\ cop' \in [Callers -> AllOps \cup {"none"}]
      BY <2>24 DEF RemoveNotify, Goto, CallerPC, AllOps
    <3>2. Suffix(count[c]) \in Seq(Workers)
      BY <2>24, SuffixType DEF RemoveNotify, Control, CallerOK, ListLock, InRemove
    <3>3. todo' \in [Callers -> Seq(Workers)]
      BY <2>24, <3>2 DEF RemoveNotify
    <3>. QED
      BY <2>24, <3>1, <3>2, <3>3 DEF RemoveNotify, NotifyAll
  <2>25. CASE DeleteWorker(c)
    <3>1. cpc' \in [Callers -> CallerPC] /\ cop' \in [Callers -> AllOps \cup {"none"}]
      BY <2>25 DEF DeleteWorker, Goto, CallerPC, AllOps
    <3>2. Head(todo[c]) \in Workers
      BY <2>25, HeadTailProperties DEF DeleteWorker
    <3>3. wstatus' \in [Workers -> WorkerStatus] /\ sem' \in [Workers -> Nat]
      BY <2>25, <3>2, TerminateWorkerType DEF DeleteWorker
    <3>. QED
      BY <2>25, <3>1, <3>2, <3>3 DEF DeleteWorker, NotifyAll
  <2>26. CASE JoinWorker(c)
    <3>1. cpc' \in [Callers -> CallerPC] /\ cop' \in [Callers -> AllOps \cup {"none"}]
      BY <2>26 DEF JoinWorker, Goto, CallerPC, AllOps
    <3>2. todo' \in [Callers -> Seq(Workers)]
      BY <2>26, HeadTailProperties DEF JoinWorker, Control, JoinTodo
    <3>. QED
      BY <2>26, <3>1, <3>2 DEF JoinWorker
  <2>27. CASE RemoveEnd(c)
    <3>1. cpc' \in [Callers -> CallerPC] /\ cop' \in [Callers -> AllOps \cup {"none"}]
      BY <2>27 DEF RemoveEnd, Return, CallerPC, AllOps
    <3>2. workerList' \in Seq(Workers)
      BY <2>27, PrefixType DEF RemoveEnd, At, Control, ListLock, InRemove
    <3>3. count' \in [Callers -> Nat]
      BY <2>27 DEF RemoveEnd
    <3>. QED
      BY <2>27, <3>1, <3>2, <3>3 DEF RemoveEnd
  <2>28. CASE DestroyEnd(c)
    <3>1. cpc' \in [Callers -> CallerPC] /\ cop' \in [Callers -> AllOps \cup {"none"}]
      BY <2>28 DEF DestroyEnd, Goto, CallerPC, AllOps
    <3>. QED
      BY <2>28, <3>1 DEF DestroyEnd
  <2>. QED
    BY <1>2, <2>1, <2>2, <2>3, <2>4, <2>5, <2>6, <2>7, <2>8, <2>9, <2>10, <2>11,
       <2>12, <2>13, <2>14, <2>15, <2>16, <2>17, <2>18, <2>19, <2>20, <2>21, <2>22,
       <2>23, <2>24, <2>25, <2>26, <2>27, <2>28
       DEF CallerStep
<1>3. CASE Spurious
  BY <1>3 DEF Spurious, WorkerSpurious, DrainSpurious
<1>4. ASSUME NEW c \in Callers, NEW op \in Ops, Call(c, op) PROVE TypeOK'
  <2>1. cpc' \in [Callers -> CallerPC] /\ cop' \in [Callers -> AllOps \cup {"none"}]
    BY <1>4 DEF Call, CallerPC, AllOps
  <2>. QED
    BY <1>4, <2>1 DEF Call
<1>5. CASE UNCHANGED vars
  BY <1>5 DEF vars
<1>. QED
  BY <1>1, <1>2, <1>3, <1>4, <1>5 DEF Next, Gone

-----------------------------------------------------------------------------
(* Where the callers are and what they lock.                               *)

\* What no worker changes.
LEMMA WorkerFrame ==
  ASSUME NEW w \in Workers, WorkerStep(w)
  PROVE  /\ UNCHANGED <<status, maxTaskCount, workerList>>
         /\ UNCHANGED <<statusX, statusS, queueS, listX>>
         /\ UNCHANGED <<cpc, cop, todo, count, created, submitted>>
  BY
     DEF WorkerStep, WorkerTop, WorkerAcquire, WorkerLock, WorkerPre,
         WorkerWait, WorkerPost, WorkerPop, WorkerRun, TakeFront,
         poolVars, lockVars, cvVars, workerVars, callerVars, ghostVars

\* A caller moves nobody but itself.
LEMMA CallerFrame ==
  ASSUME NEW c \in Callers, CallerStep(c), TypeOK, NEW d \in Callers, d # c
  PROVE  /\ cpc'[d] = cpc[d] /\ cop'[d] = cop[d]
         /\ todo'[d] = todo[d] /\ count'[d] = count[d]
<1>1. cpc \in [Callers -> CallerPC] /\ cop \in [Callers -> AllOps \cup {"none"}]
  BY DEF TypeOK
<1>2. todo \in [Callers -> Seq(Workers)] /\ count \in [Callers -> Nat]
  BY DEF TypeOK
<1>3. cpc'[d] = cpc[d] /\ cop'[d] = cop[d]
  BY <1>1
     DEF CallerStep, Refuse, SharedBegin, SubmitCount, SubmitPush,
         SubmitNotify, SetMaxTaskCount, PauseBegin, ResumeBegin, ShutdownBegin,
         TerminateBegin, DestroyBegin, PauseOne, ResumeOne, TerminateOne,
         WalkEnd, ShutdownResumed, DrainLock, DrainWait, WaitEnd,
         ShutdownDrained, TerminateEnd, AddThread, RemoveBegin, RemoveNotify,
         DeleteWorker, JoinWorker, RemoveEnd, DestroyEnd, At, Goto, Return,
         ExclusiveBegin, poolVars, lockVars, cvVars, workerVars, callerVars,
         ghostVars
<1>4. todo'[d] = todo[d] /\ count'[d] = count[d]
  BY <1>2
     DEF CallerStep, Refuse, SharedBegin, SubmitCount, SubmitPush,
         SubmitNotify, SetMaxTaskCount, PauseBegin, ResumeBegin, ShutdownBegin,
         TerminateBegin, DestroyBegin, PauseOne, ResumeOne, TerminateOne,
         WalkEnd, ShutdownResumed, DrainLock, DrainWait, WaitEnd,
         ShutdownDrained, TerminateEnd, AddThread, RemoveBegin, RemoveNotify,
         DeleteWorker, JoinWorker, RemoveEnd, DestroyEnd, At, Goto, Return,
         ExclusiveBegin, poolVars, lockVars, cvVars, workerVars, callerVars,
         ghostVars
<1>. QED
  BY <1>3, <1>4

LEMMA CallerOKStep ==
  ASSUME NEW c \in Callers, CallerStep(c), TypeOK, CallerOK
  PROVE  CallerOK'
<1>1. cpc \in [Callers -> CallerPC] /\ cop \in [Callers -> AllOps \cup {"none"}]
  BY DEF TypeOK
<1>2. \A d \in Callers : d # c => cpc'[d] = cpc[d] /\ cop'[d] = cop[d]
  BY CallerFrame
<1>. QED
  BY <1>1, <1>2
     DEF CallerOK, CallerStep, Shared, Refuse, SharedBegin, SubmitCount,
         SubmitPush, SubmitNotify, SetMaxTaskCount, PauseBegin, ResumeBegin,
         ShutdownBegin, TerminateBegin, DestroyBegin, PauseOne, ResumeOne,
         TerminateOne, WalkEnd, ShutdownResumed, DrainLock, DrainWait, WaitEnd,
         ShutdownDrained, TerminateEnd, AddThread, RemoveBegin, RemoveNotify,
         DeleteWorker, JoinWorker, RemoveEnd, DestroyEnd, At, Goto, Return,
         ExclusiveBegin, poolVars, lockVars, cvVars, workerVars, callerVars,
         ghostVars

LEMMA DestroyAloneStep ==
  ASSUME NEW c \in Callers, CallerStep(c), TypeOK, DestroyAlone
  PROVE  DestroyAlone'
<1>1. cpc \in [Callers -> CallerPC] /\ cop \in [Callers -> AllOps \cup {"none"}]
  BY DEF TypeOK
<1>2. \A d \in Callers : d # c => cpc'[d] = cpc[d] /\ cop'[d] = cop[d]
  BY CallerFrame
<1>3. cop'[c] \in {cop[c], "none"}
  BY <1>1
     DEF CallerStep, Refuse, SharedBegin, SubmitCount, SubmitPush,
         SubmitNotify, SetMaxTaskCount, PauseBegin, ResumeBegin, ShutdownBegin,
         TerminateBegin, DestroyBegin, PauseOne, ResumeOne, TerminateOne,
         WalkEnd, ShutdownResumed, DrainLock, DrainWait, WaitEnd,
         ShutdownDrained, TerminateEnd, AddThread, RemoveBegin, RemoveNotify,
         DeleteWorker, JoinWorker, RemoveEnd, DestroyEnd, At, Goto, Return,
         ExclusiveBegin, poolVars, lockVars, cvVars, workerVars, callerVars,
         ghostVars
<1>. QED
  BY <1>1, <1>2, <1>3 DEF DestroyAlone

LEMMA StatusLockStep ==
  ASSUME NEW c \in Callers, CallerStep(c), TypeOK, CallerOK, StatusLock
  PROVE  StatusLock'
<1>1. cpc \in [Callers -> CallerPC] /\ cop \in [Callers -> AllOps \cup {"none"}]
  BY DEF TypeOK
<1>2. \A d \in Callers : d # c => cpc'[d] = cpc[d] /\ cop'[d] = cop[d]
  BY CallerFrame
<1>3. statusX \in Callers \cup {None} /\ statusS \subseteq Callers
  BY DEF TypeOK
<1>4. /\ statusX' # statusX => statusX \in {None, c} /\ statusX' \in {None, c}
      /\ Holding(c)' <=> statusX' = c
  BY <1>1, <1>3, PoolAssumption
     DEF CallerStep, CallerOK, StatusLock, Holding, PoolAssumption, StatusFreeX,
         Refuse, SharedBegin, SubmitCount, SubmitPush, SubmitNotify,
         SetMaxTaskCount, PauseBegin, ResumeBegin, ShutdownBegin, TerminateBegin,
         DestroyBegin, PauseOne, ResumeOne, TerminateOne, WalkEnd, ShutdownResumed,
         DrainLock, DrainWait, WaitEnd, ShutdownDrained, TerminateEnd, AddThread,
         RemoveBegin, RemoveNotify, DeleteWorker, JoinWorker, RemoveEnd, DestroyEnd,
         At, Goto, Return, ExclusiveBegin, poolVars, lockVars, cvVars, workerVars,
         callerVars, ghostVars
<1>5. /\ statusS' \ {c} = statusS \ {c}
      /\ c \in statusS' <=> Shared(cop'[c]) /\ cpc'[c] # "called"
  BY <1>1, <1>3, PoolAssumption
     DEF CallerStep, CallerOK, StatusLock, Holding, Shared, Refuse, SharedBegin,
         SubmitCount, SubmitPush, SubmitNotify, SetMaxTaskCount, PauseBegin,
         ResumeBegin, ShutdownBegin, TerminateBegin, DestroyBegin, PauseOne,
         ResumeOne, TerminateOne, WalkEnd, ShutdownResumed, DrainLock, DrainWait,
         WaitEnd, ShutdownDrained, TerminateEnd, AddThread, RemoveBegin,
         RemoveNotify, DeleteWorker, JoinWorker, RemoveEnd, DestroyEnd, At, Goto,
         Return, ExclusiveBegin, poolVars, lockVars, cvVars, workerVars, callerVars,
         ghostVars
<1>6. statusX' # None => statusS' = {}
  BY <1>1, <1>3, PoolAssumption
     DEF CallerStep, CallerOK, StatusLock, Holding, Shared, StatusFree, StatusFreeX,
         Refuse, SharedBegin, SubmitCount, SubmitPush, SubmitNotify,
         SetMaxTaskCount, PauseBegin, ResumeBegin, ShutdownBegin, TerminateBegin,
         DestroyBegin, PauseOne, ResumeOne, TerminateOne, WalkEnd, ShutdownResumed,
         DrainLock, DrainWait, WaitEnd, ShutdownDrained, TerminateEnd, AddThread,
         RemoveBegin, RemoveNotify, DeleteWorker, JoinWorker, RemoveEnd, DestroyEnd,
         At, Goto, Return, ExclusiveBegin, poolVars, lockVars, cvVars, workerVars,
         callerVars, ghostVars
<1>. QED
  BY <1>1, <1>2, <1>3, <1>4, <1>5, <1>6, PoolAssumption
     DEF StatusLock, Holding, Shared, PoolAssumption

LEMMA ListLockStep ==
  ASSUME NEW c \in Callers, CallerStep(c), TypeOK, CallerOK, DestroyAlone, StatusLock, ListLock
  PROVE  ListLock'
<1>1. cpc \in [Callers -> CallerPC] /\ cop \in [Callers -> AllOps \cup {"none"}]
  BY DEF TypeOK
<1>2. \A d \in Callers : d # c => cpc'[d] = cpc[d] /\ cop'[d] = cop[d]
  BY CallerFrame
<1>3. \A d \in Callers : d # c => count'[d] = count[d]
  BY CallerFrame
<1>4. workerList \in Seq(Workers) /\ count \in [Callers -> Nat] /\ listX \in Callers \cup {None}
  BY DEF TypeOK
<1>5. ASSUME NEW d \in Callers, d # c, InRemove(d)
      PROVE  listX' = listX /\ workerList' = workerList
  BY <1>1, <1>4, <1>5, PoolAssumption
     DEF CallerStep, CallerOK, ListLock, InRemove, DestroyAlone, PoolAssumption,
         Refuse, SharedBegin, SubmitCount, SubmitPush, SubmitNotify,
         SetMaxTaskCount, PauseBegin, ResumeBegin, ShutdownBegin, TerminateBegin,
         DestroyBegin, PauseOne, ResumeOne, TerminateOne, WalkEnd, ShutdownResumed,
         DrainLock, DrainWait, WaitEnd, ShutdownDrained, TerminateEnd, AddThread,
         RemoveBegin, RemoveNotify, DeleteWorker, JoinWorker, RemoveEnd, DestroyEnd,
         At, Goto, Return, ExclusiveBegin, poolVars, lockVars, cvVars, workerVars,
         callerVars, ghostVars
<1>6. InRemove(c)' => listX' = c /\ count'[c] <= Len(workerList')
  BY <1>1, <1>4
     DEF CallerStep, CallerOK, ListLock, InRemove, Refuse, SharedBegin, SubmitCount,
         SubmitPush, SubmitNotify, SetMaxTaskCount, PauseBegin, ResumeBegin,
         ShutdownBegin, TerminateBegin, DestroyBegin, PauseOne, ResumeOne,
         TerminateOne, WalkEnd, ShutdownResumed, DrainLock, DrainWait, WaitEnd,
         ShutdownDrained, TerminateEnd, AddThread, RemoveBegin, RemoveNotify,
         DeleteWorker, JoinWorker, RemoveEnd, DestroyEnd, At, Goto, Return,
         ExclusiveBegin, poolVars, lockVars, cvVars, workerVars, callerVars,
         ghostVars
<1>. QED
  BY <1>1, <1>2, <1>3, <1>4, <1>5, <1>6 DEF ListLock, InRemove

LEMMA JoinTodoStep ==
  ASSUME NEW c \in Callers, CallerStep(c), TypeOK, JoinTodo
  PROVE  JoinTodo'
<1>1. cpc \in [Callers -> CallerPC] /\ todo \in [Callers -> Seq(Workers)]
  BY DEF TypeOK
<1>2. \A d \in Callers : d # c => cpc'[d] = cpc[d] /\ todo'[d] = todo[d]
  BY CallerFrame
<1>3. cpc'[c] = "join" => todo'[c] # <<>>
  BY <1>1
     DEF CallerStep, JoinTodo, Refuse, SharedBegin, SubmitCount, SubmitPush,
         SubmitNotify, SetMaxTaskCount, PauseBegin, ResumeBegin, ShutdownBegin,
         TerminateBegin, DestroyBegin, PauseOne, ResumeOne, TerminateOne,
         WalkEnd, ShutdownResumed, DrainLock, DrainWait, WaitEnd,
         ShutdownDrained, TerminateEnd, AddThread, RemoveBegin, RemoveNotify,
         DeleteWorker, JoinWorker, RemoveEnd, DestroyEnd, At, Goto, Return,
         ExclusiveBegin, poolVars, lockVars, cvVars, workerVars, callerVars,
         ghostVars
<1>. QED
  BY <1>1, <1>2, <1>3 DEF JoinTodo

LEMMA ControlCall ==
  ASSUME NEW c \in Callers, NEW op \in Ops, Call(c, op), TypeOK, Control
  PROVE  Control'
<1>1. cpc \in [Callers -> CallerPC] /\ cop \in [Callers -> AllOps \cup {"none"}]
  BY DEF TypeOK
<1>2. op # "none"
  BY PoolAssumption DEF PoolAssumption, AllOps
<1>3. CallerOK' /\ DestroyAlone'
  BY <1>1, <1>2 DEF Control, CallerOK, DestroyAlone, Call, Alive, callerVars
<1>4. StatusLock'
  BY <1>1 DEF Control, CallerOK, StatusLock, Holding, Shared, Call, lockVars
<1>5. ListLock' /\ JoinTodo'
  BY <1>1 DEF Control, ListLock, InRemove, JoinTodo, Call, poolVars, lockVars
<1>. QED
  BY <1>3, <1>4, <1>5 DEF Control

LEMMA ControlStep == TypeOK /\ Control /\ [Next]_vars => Control'
<1>. SUFFICES ASSUME TypeOK, Control, [Next]_vars PROVE Control'
  OBVIOUS
<1>. USE DEF Control
<1>1. CASE UNCHANGED <<poolVars, statusX, statusS, listX, callerVars>>
  BY <1>1 DEF CallerOK, DestroyAlone, StatusLock, Holding, ListLock, InRemove,
     JoinTodo, poolVars, callerVars
<1>2. ASSUME NEW w \in Workers, WorkerStep(w) PROVE Control'
  <2>1. UNCHANGED <<workerList, statusX, statusS, listX, callerVars>>
    BY <1>2, WorkerFrame DEF callerVars
  <2>. QED
    BY <2>1
       DEF CallerOK, DestroyAlone, StatusLock, Holding, ListLock, InRemove,
       JoinTodo, callerVars
<1>3. ASSUME NEW c \in Callers, CallerStep(c) PROVE Control'
  BY <1>3, CallerOKStep, DestroyAloneStep, StatusLockStep, ListLockStep,
     JoinTodoStep
<1>4. CASE Spurious
  BY <1>1, <1>4 DEF Spurious, WorkerSpurious, DrainSpurious, lockVars
<1>5. ASSUME NEW c \in Callers, NEW op \in Ops, Call(c, op) PROVE Control'
  BY <1>5, ControlCall
<1>6. CASE UNCHANGED vars
  BY <1>1, <1>6 DEF vars, lockVars
<1>. QED
  BY <1>2, <1>3, <1>4, <1>5, <1>6 DEF Next, Gone

-----------------------------------------------------------------------------
(* The workers.                                                            *)

\* Callers never touch what a worker runs, nor where it is; only add_thread
\* starts new ones.
LEMMA CallerWorkerFrame ==
  ASSUME NEW c \in Callers, CallerStep(c), TypeOK
  PROVE  /\ wtask' = wtask /\ finished' = finished
         /\ \A w \in Workers : wpc'[w] = wpc[w] \/ wpc'[w] = "top"
  BY
     DEF TypeOK, CallerStep, Refuse, SharedBegin, SubmitCount, SubmitPush,
         SubmitNotify, SetMaxTaskCount, PauseBegin, ResumeBegin, ShutdownBegin,
         TerminateBegin, DestroyBegin, PauseOne, ResumeOne, TerminateOne,
         WalkEnd, ShutdownResumed, DrainLock, DrainWait, WaitEnd,
         ShutdownDrained, TerminateEnd, AddThread, RemoveBegin, RemoveNotify,
         DeleteWorker, JoinWorker, RemoveEnd, DestroyEnd, At, Goto, Return,
         ExclusiveBegin, poolVars, lockVars, cvVars, workerVars, callerVars,
         ghostVars

LEMMA WorkerOKStep == TypeOK /\ WorkerOK /\ [Next]_vars => WorkerOK'
<1>. SUFFICES ASSUME TypeOK, WorkerOK, [Next]_vars PROVE WorkerOK'
  OBVIOUS
<1>1. /\ wpc \in [Workers -> WorkerPC] /\ wtask \in [Workers -> 0..submitted]
      /\ queue \in Seq(1..submitted) /\ submitted \in Nat
      /\ wstatus \in [Workers -> WorkerStatus]
  BY DEF TypeOK
<1>2. ASSUME NEW w \in Workers, WorkerStep(w) PROVE WorkerOK'
  <2>1. CASE WorkerPop(w)
    <3>1. Head(queue) \in 1..submitted
      BY <2>1, <1>1, HeadTailProperties DEF WorkerPop
    <3>. QED
      BY <2>1, <3>1, <1>1 DEF WorkerPop, TakeFront, WorkerOK
  <2>2. CASE ~WorkerPop(w)
    BY <1>1, <1>2, <2>2
       DEF WorkerStep, WorkerOK, WorkerTop, WorkerAcquire, WorkerLock,
           WorkerPre, WorkerWait, WorkerPost, WorkerPop, WorkerRun, TopSwitch,
           PreSwitch,
       PostSwitch, Resumed, WorkerStatus, workerVars
  <2>. QED
    BY <2>1, <2>2
<1>3. ASSUME NEW c \in Callers, CallerStep(c) PROVE WorkerOK'
  BY <1>3, CallerWorkerFrame DEF WorkerOK
<1>4. ASSUME UNCHANGED workerVars PROVE WorkerOK'
  BY <1>4 DEF workerVars, WorkerOK
<1>. QED
  BY <1>2, <1>3, <1>4
     DEF Next, Gone, Spurious, WorkerSpurious, DrainSpurious, Call, vars

\* The workers that were not created yet are the last ones.
NewOK == \A w \in Workers : wpc[w] = "new" <=> w > created

LEMMA NewStep == TypeOK /\ NewOK /\ [Next]_vars => NewOK'
<1>. SUFFICES ASSUME TypeOK, NewOK, [Next]_vars PROVE NewOK'
  OBVIOUS
<1>1. /\ wpc \in [Workers -> WorkerPC] /\ wstatus \in [Workers -> WorkerStatus]
      /\ created \in 0..MaxThreads
  BY DEF TypeOK
<1>2. ASSUME NEW w \in Workers, WorkerStep(w) PROVE NewOK'
  <2>1. created' = created
    BY <1>2
       DEF WorkerStep, WorkerTop, WorkerAcquire, WorkerLock, WorkerPre,
           WorkerWait, WorkerPost, WorkerPop, WorkerRun, ghostVars
  <2>2. \A v \in Workers : wpc'[v] = "new" <=> wpc[v] = "new"
    BY <1>1, <1>2
       DEF WorkerStep, WorkerTop, WorkerAcquire, WorkerLock, WorkerPre,
           WorkerWait, WorkerPost, WorkerPop, WorkerRun, TopSwitch, PreSwitch,
           PostSwitch, Resumed, WorkerStatus
  <2>. QED
    BY <2>1, <2>2 DEF NewOK
<1>3. ASSUME NEW c \in Callers, CallerStep(c) PROVE NewOK'
  <2>1. CASE AddThread(c)
    BY <1>1, <2>1, PoolAssumption DEF AddThread, NewOK, Workers, PoolAssumption
  <2>2. CASE ~AddThread(c)
    BY <1>3, <2>2
       DEF NewOK, CallerStep, Refuse, SharedBegin, SubmitCount, SubmitPush,
           SubmitNotify, SetMaxTaskCount, PauseBegin, ResumeBegin,
           ShutdownBegin, TerminateBegin, DestroyBegin, PauseOne, ResumeOne,
           TerminateOne, WalkEnd, ShutdownResumed, DrainLock, DrainWait,
           WaitEnd, ShutdownDrained, TerminateEnd, RemoveBegin, RemoveNotify,
           DeleteWorker, JoinWorker, RemoveEnd, DestroyEnd, At, Goto, Return,
           ExclusiveBegin, poolVars, lockVars, cvVars, workerVars, callerVars,
           ghostVars
  <2>. QED
    BY <2>1, <2>2
<1>4. ASSUME UNCHANGED <<workerVars, created>> PROVE NewOK'
  BY <1>4 DEF workerVars, NewOK
<1>. QED
  BY <1>2, <1>3, <1>4
     DEF Next, Gone, Spurious, WorkerSpurious, DrainSpurious, Call, vars,
         ghostVars

\* A worker is BLOCKED only between its status check and the end of its wait.
BlockedOK ==
  \A w \in Workers : wstatus[w] = "BLOCKED" => wpc[w] \in {"towait", "waiting", "post"}

LEMMA BlockedStep ==
  TypeOK /\ NewOK /\ BlockedOK /\ NeverThrows /\ [Next]_vars => BlockedOK' /\ NeverThrows'
<1>. SUFFICES ASSUME TypeOK, NewOK, BlockedOK, NeverThrows, [Next]_vars
              PROVE  BlockedOK' /\ NeverThrows'
  OBVIOUS
<1>1. /\ wpc \in [Workers -> WorkerPC] /\ wstatus \in [Workers -> WorkerStatus]
      /\ created \in 0..MaxThreads
  BY DEF TypeOK
<1>2. ASSUME NEW w \in Workers, WorkerStep(w) PROVE BlockedOK' /\ NeverThrows'
  <2>1. \A v \in Workers : v # w => wpc'[v] = wpc[v] /\ wstatus'[v] = wstatus[v]
    BY <1>1, <1>2
       DEF WorkerStep, WorkerTop, WorkerAcquire, WorkerLock, WorkerPre,
           WorkerWait, WorkerPost, WorkerPop, WorkerRun, StoreStatus,
           workerVars
  <2>2. /\ wpc'[w] # "threw"
        /\ wstatus'[w] = "BLOCKED" => wpc'[w] \in {"towait", "waiting", "post"}
    BY <1>1, <1>2
       DEF WorkerStep, BlockedOK, NeverThrows, WorkerTop, WorkerAcquire,
           WorkerLock, WorkerPre, WorkerWait, WorkerPost, WorkerPop, WorkerRun,
           StoreStatus,
       TopSwitch, PreSwitch, PostSwitch, Resumed, WorkerStatus, WorkerPC, workerVars
  <2>. QED
    BY <2>1, <2>2 DEF BlockedOK, NeverThrows
<1>3. ASSUME NEW c \in Callers, CallerStep(c) PROVE BlockedOK' /\ NeverThrows'
  <2>1. \A w \in Workers : wpc'[w] = wpc[w] \/ (wpc'[w] = "top" /\ wpc[w] = "new")
    BY <1>1, <1>3, PoolAssumption
       DEF NewOK, Workers, PoolAssumption, CallerStep, Refuse, SharedBegin,
           SubmitCount, SubmitPush, SubmitNotify, SetMaxTaskCount, PauseBegin,
           ResumeBegin, ShutdownBegin, TerminateBegin, DestroyBegin, PauseOne,
           ResumeOne, TerminateOne, WalkEnd, ShutdownResumed, DrainLock,
           DrainWait, WaitEnd, ShutdownDrained, TerminateEnd, AddThread,
           RemoveBegin, RemoveNotify, DeleteWorker, JoinWorker, RemoveEnd,
           DestroyEnd, At, Goto, Return, ExclusiveBegin, poolVars, lockVars,
           cvVars, workerVars, callerVars, ghostVars
  <2>2. \A w \in Workers : wstatus'[w] = "BLOCKED" => wstatus[w] = "BLOCKED"
    BY <1>1, <1>3
       DEF CallerStep, TerminateWorker, Refuse, SharedBegin, SubmitCount,
           SubmitPush, SubmitNotify, SetMaxTaskCount, PauseBegin, ResumeBegin,
           ShutdownBegin, TerminateBegin, DestroyBegin, PauseOne, ResumeOne,
           TerminateOne, WalkEnd, ShutdownResumed, DrainLock, DrainWait,
           WaitEnd, ShutdownDrained, TerminateEnd, AddThread, RemoveBegin,
           RemoveNotify, DeleteWorker, JoinWorker, RemoveEnd, DestroyEnd, At,
           Goto, Return, ExclusiveBegin, poolVars, lockVars, cvVars,
           workerVars, callerVars, ghostVars
  <2>. QED
    BY <2>1, <2>2 DEF BlockedOK, NeverThrows
<1>4. ASSUME UNCHANGED workerVars PROVE BlockedOK' /\ NeverThrows'
  BY <1>4 DEF workerVars, BlockedOK, NeverThrows
<1>. QED
  BY <1>2, <1>3, <1>4
     DEF Next, Gone, Spurious, WorkerSpurious, DrainSpurious, Call, vars

LEMMA NoLostResumeStep == TypeOK /\ NoLostResume /\ [Next]_vars => NoLostResume'
<1>. SUFFICES ASSUME TypeOK, NoLostResume, [Next]_vars PROVE NoLostResume'
  OBVIOUS
<1>1. /\ wpc \in [Workers -> WorkerPC] /\ wstatus \in [Workers -> WorkerStatus]
      /\ sem \in [Workers -> Nat]
  BY DEF TypeOK
<1>2. ASSUME NEW w \in Workers, WorkerStep(w) PROVE NoLostResume'
  <2>1. \A v \in Workers : v # w => /\ wpc'[v] = wpc[v] /\ wstatus'[v] = wstatus[v]
                                    /\ sem'[v] = sem[v]
    BY <1>1, <1>2
       DEF WorkerStep, WorkerTop, WorkerAcquire, WorkerLock, WorkerPre,
           WorkerWait, WorkerPost, WorkerPop, WorkerRun, StoreStatus,
           workerVars
  <2>2. wpc'[w] \in {"sem_top", "sem_pre", "sem_post"} => wstatus'[w] = "PAUSED"
    BY <1>1, <1>2
       DEF WorkerStep, WorkerTop, WorkerAcquire, WorkerLock, WorkerPre,
           WorkerWait, WorkerPost, WorkerPop, WorkerRun, StoreStatus,
           TopSwitch, PreSwitch,
       PostSwitch, Resumed, WorkerStatus, WorkerPC, workerVars
  <2>. QED
    BY <2>1, <2>2 DEF NoLostResume
<1>3. ASSUME NEW c \in Callers, CallerStep(c) PROVE NoLostResume'
  <2>1. \A w \in Workers : wpc'[w] = wpc[w] \/ wpc'[w] = "top"
    BY <1>3, CallerWorkerFrame
  <2>2. \A w \in Workers : /\ sem'[w] \in Nat /\ sem'[w] >= sem[w]
                           /\ wstatus'[w] # "PAUSED" /\ wstatus[w] = "PAUSED" => sem'[w] > 0
    BY <1>1, <1>3
       DEF CallerStep, TerminateWorker, Refuse, SharedBegin, SubmitCount,
           SubmitPush, SubmitNotify, SetMaxTaskCount, PauseBegin, ResumeBegin,
           ShutdownBegin, TerminateBegin, DestroyBegin, PauseOne, ResumeOne,
           TerminateOne, WalkEnd, ShutdownResumed, DrainLock, DrainWait,
           WaitEnd, ShutdownDrained, TerminateEnd, AddThread, RemoveBegin,
           RemoveNotify, DeleteWorker, JoinWorker, RemoveEnd, DestroyEnd, At,
           Goto, Return, ExclusiveBegin, poolVars, lockVars, cvVars,
           workerVars, callerVars, ghostVars
  <2>. QED
    BY <1>1, <2>1, <2>2 DEF NoLostResume
<1>4. ASSUME UNCHANGED workerVars PROVE NoLostResume'
  BY <1>4 DEF workerVars, NoLostResume
<1>. QED
  BY <1>2, <1>3, <1>4
     DEF Next, Gone, Spurious, WorkerSpurious, DrainSpurious, Call, vars

-----------------------------------------------------------------------------
(* Acceptance and the length of the queue.                                 *)

LEMMA AcceptedStep ==
  TypeOK /\ Control /\ AcceptedWhileRunning /\ [Next]_vars => AcceptedWhileRunning'
<1>. SUFFICES ASSUME TypeOK, Control, AcceptedWhileRunning, [Next]_vars
              PROVE  AcceptedWhileRunning'
  OBVIOUS
<1>1. cpc \in [Callers -> CallerPC] /\ cop \in [Callers -> AllOps \cup {"none"}]
  BY DEF TypeOK
<1>2. CASE UNCHANGED <<status, callerVars>>
  BY <1>2 DEF callerVars, AcceptedWhileRunning
<1>3. ASSUME NEW w \in Workers, WorkerStep(w) PROVE AcceptedWhileRunning'
  BY <1>3, WorkerFrame DEF AcceptedWhileRunning
<1>4. ASSUME NEW c \in Callers, CallerStep(c) PROVE AcceptedWhileRunning'
  <2>1. \A d \in Callers : d # c => cpc'[d] = cpc[d]
    BY <1>4, CallerFrame
  <2>2. CASE status' = status
    <3>1. cpc'[c] \in {"sub_count", "sub_push", "sub_notify"} => status = "RUNNING"
      BY <1>1, <1>4
         DEF CallerStep, AcceptedWhileRunning, Control, CallerOK, Shared,
         Refused, Refuse, SharedBegin, SubmitCount, SubmitPush, SubmitNotify,
         SetMaxTaskCount, PauseBegin, ResumeBegin, ShutdownBegin,
         TerminateBegin, DestroyBegin, PauseOne, ResumeOne, TerminateOne,
         WalkEnd, ShutdownResumed, DrainLock, DrainWait, WaitEnd,
         ShutdownDrained, TerminateEnd, AddThread, RemoveBegin, RemoveNotify,
         DeleteWorker, JoinWorker, RemoveEnd, DestroyEnd, At, Goto, Return,
         ExclusiveBegin, poolVars, lockVars, cvVars, workerVars, callerVars,
         ghostVars
    <3>. QED
      BY <2>1, <2>2, <3>1 DEF AcceptedWhileRunning
  <2>3. CASE status' # status
    <3>1. statusS = {} /\ cpc'[c] \notin {"sub_count", "sub_push", "sub_notify"}
      BY <1>1, <1>4, <2>3, PoolAssumption
         DEF CallerStep, Control, StatusLock, Holding, StatusFreeX, CallerOK,
             PoolAssumption, Refuse, SharedBegin, SubmitCount, SubmitPush,
             SubmitNotify, SetMaxTaskCount, PauseBegin, ResumeBegin,
             ShutdownBegin, TerminateBegin, DestroyBegin, PauseOne, ResumeOne,
             TerminateOne, WalkEnd, ShutdownResumed, DrainLock, DrainWait,
             WaitEnd, ShutdownDrained, TerminateEnd, AddThread, RemoveBegin,
             RemoveNotify, DeleteWorker, JoinWorker, RemoveEnd, DestroyEnd, At,
             Goto, Return, ExclusiveBegin, poolVars, lockVars, cvVars,
             workerVars, callerVars, ghostVars
    <3>2. \A d \in Callers : cpc[d] \notin {"sub_count", "sub_push", "sub_notify"}
      BY <3>1 DEF Control, CallerOK, StatusLock, Shared
    <3>. QED
      BY <2>1, <3>1, <3>2 DEF AcceptedWhileRunning
  <2>. QED
    BY <2>2, <2>3
<1>5. ASSUME NEW c \in Callers, NEW op \in Ops, Call(c, op) PROVE AcceptedWhileRunning'
  BY <1>1, <1>5 DEF Call, AcceptedWhileRunning, poolVars
<1>. QED
  BY <1>2, <1>3, <1>4, <1>5
     DEF Next, Gone, Spurious, WorkerSpurious, DrainSpurious, vars, poolVars

LimitSet == Limits \cup {MaxTaskCount}
Counted == {c \in Callers : cpc[c] = "sub_push"}

\* With every task a caller is about to queue counted, the queue exceeds one of
\* the limits by less than the number of callers.
LimitInv ==
  /\ maxTaskCount \in LimitSet
  /\ 0 \notin LimitSet =>
       \E m \in LimitSet : Len(queue) + Cardinality(Counted) < m + Cardinality(Callers)

LEMMA CountedFinite ==
  ASSUME NEW S, S \subseteq Callers
  PROVE  /\ IsFiniteSet(S) /\ Cardinality(S) \in Nat
         /\ Cardinality(Callers) \in Nat /\ Cardinality(S) <= Cardinality(Callers)
  BY PoolAssumption, FS_Subset, FS_CardinalityType DEF PoolAssumption

LEMMA LimitInit == Init => LimitInv
<1>. SUFFICES ASSUME Init, 0 \notin LimitSet
              PROVE  Len(queue) + Cardinality(Counted) < MaxTaskCount + Cardinality(Callers)
  BY DEF LimitInv, LimitSet, Init
<1>1. Counted = {} /\ Len(queue) = 0
  BY DEF Counted, Init
<1>. QED
  BY <1>1, FS_EmptySet, CountedFinite, PoolAssumption
     DEF LimitSet, PoolAssumption

LEMMA LimitStep == TypeOK /\ CallerOK /\ LimitInv /\ [Next]_vars => LimitInv'
<1>. SUFFICES ASSUME TypeOK, CallerOK, LimitInv, [Next]_vars PROVE LimitInv'
  OBVIOUS
<1>0. /\ cpc \in [Callers -> CallerPC] /\ queue \in Seq(1..submitted)
      /\ LimitSet \subseteq Nat /\ Len(queue) \in Nat
  BY PoolAssumption, LenProperties DEF TypeOK, LimitSet, PoolAssumption
<1>1. ASSUME UNCHANGED maxTaskCount, Counted' = Counted, Len(queue') <= Len(queue),
            Len(queue') \in Nat
      PROVE  LimitInv'
  <2>1. Cardinality(Counted) \in Nat /\ Cardinality(Callers) \in Nat
    BY CountedFinite DEF Counted
  <2>2. ASSUME NEW m \in LimitSet,
               Len(queue) + Cardinality(Counted) < m + Cardinality(Callers)
        PROVE  Len(queue') + Cardinality(Counted') < m + Cardinality(Callers)
    BY <1>0, <1>1, <2>1, <2>2
  <2>. QED
    BY <1>1, <2>2 DEF LimitInv, LimitSet
<1>2. ASSUME UNCHANGED <<maxTaskCount, queue>>, Counted' = Counted PROVE LimitInv'
  BY <1>0, <1>1, <1>2
<1>3. ASSUME UNCHANGED <<maxTaskCount, queue, cpc>> PROVE LimitInv'
  BY <1>2, <1>3 DEF Counted
<1>4. ASSUME NEW w \in Workers, WorkerStep(w) PROVE LimitInv'
  <2>1. CASE WorkerPop(w)
    BY <1>0, <1>1, <2>1, HeadTailProperties, LenProperties
       DEF WorkerPop, TakeFront, Counted, callerVars
  <2>2. CASE ~WorkerPop(w)
    BY <1>3, <1>4, <2>2
       DEF WorkerStep, WorkerTop, WorkerAcquire, WorkerLock, WorkerPre,
           WorkerWait, WorkerPost, WorkerPop, WorkerRun, poolVars, callerVars
  <2>. QED
    BY <2>1, <2>2
<1>5. ASSUME NEW c \in Callers, CallerStep(c) PROVE LimitInv'
  <2>1. CASE SubmitCount(c)
    <3>1. CASE QueueFull
      BY <1>0, <1>2, <2>1, <3>1 DEF SubmitCount, Return, Counted, poolVars
    <3>2. CASE ~QueueFull
      <4>1. Len(queue) < maxTaskCount /\ maxTaskCount \in LimitSet
        BY <1>0, <3>2 DEF QueueFull, LimitInv
      <4>2. UNCHANGED <<maxTaskCount, queue>>
        BY <2>1 DEF SubmitCount, poolVars
      <4>3. Counted' \subseteq Callers
        BY DEF Counted
      <4>. QED
        BY <1>0, <4>1, <4>2, <4>3, CountedFinite DEF LimitInv, LimitSet
    <3>. QED
      BY <3>1, <3>2
  <2>2. CASE SubmitPush(c)
    <3>1. c \in Counted /\ Counted' = Counted \ {c} /\ UNCHANGED maxTaskCount
      BY <1>0, <2>2 DEF SubmitPush, Goto, Counted
    <3>2. Len(queue') = Len(queue) + 1
      BY <1>0, <2>2 DEF SubmitPush
    <3>3. Cardinality(Counted') = Cardinality(Counted) - 1
      BY <3>1, CountedFinite, FS_RemoveElement DEF Counted
    <3>4. Counted \subseteq Callers
      BY DEF Counted
    <3>. QED
      BY <1>0, <3>1, <3>2, <3>3, <3>4, CountedFinite DEF LimitInv, LimitSet
  <2>3. CASE SetMaxTaskCount(c)
    <3>1. maxTaskCount' \in LimitSet /\ UNCHANGED queue /\ Counted' = Counted
      BY <1>0, <2>3 DEF SetMaxTaskCount, Return, At, Counted, LimitSet
    <3>. QED
      BY <3>1 DEF LimitInv, LimitSet
  <2>4. CASE SharedBegin(c)
    <3>1. UNCHANGED <<maxTaskCount, queue>>
      BY <2>4 DEF SharedBegin, poolVars
    <3>2. CASE 0 \in LimitSet
      BY <3>1, <3>2 DEF LimitInv, LimitSet
    <3>3. CASE 0 \notin LimitSet
      <4>1. maxTaskCount > 0
        BY <1>0, <3>3 DEF LimitInv
      <4>2. Counted' = Counted
        BY <1>0, <2>4, <4>1 DEF SharedBegin, Goto, Counted
      <4>. QED
        BY <1>2, <3>1, <4>2
    <3>. QED
      BY <3>2, <3>3
  <2>5. CASE ~(SubmitCount(c) \/ SubmitPush(c) \/ SetMaxTaskCount(c) \/ SharedBegin(c))
    <3>1. UNCHANGED <<maxTaskCount, queue>>
      BY <1>5, <2>5
         DEF CallerStep, Refuse, SubmitNotify, PauseBegin, ResumeBegin,
             ShutdownBegin, TerminateBegin, DestroyBegin, PauseOne, ResumeOne,
             TerminateOne, WalkEnd, ShutdownResumed, DrainLock, DrainWait,
             WaitEnd, ShutdownDrained, TerminateEnd, AddThread, RemoveBegin,
             RemoveNotify, DeleteWorker, JoinWorker, RemoveEnd, DestroyEnd, At,
             Goto, Return, ExclusiveBegin, poolVars, lockVars, cvVars,
             workerVars, callerVars, ghostVars
    <3>2. Counted' = Counted
      BY <1>0, <1>5, <2>5
         DEF CallerStep, CallerOK, Counted, Refuse, SubmitNotify, PauseBegin,
             ResumeBegin, ShutdownBegin, TerminateBegin, DestroyBegin,
             PauseOne, ResumeOne, TerminateOne, WalkEnd, ShutdownResumed,
             DrainLock, DrainWait, WaitEnd, ShutdownDrained, TerminateEnd,
             AddThread, RemoveBegin, RemoveNotify, DeleteWorker, JoinWorker,
             RemoveEnd, DestroyEnd, At, Goto, Return, ExclusiveBegin, poolVars,
             lockVars, cvVars, workerVars, callerVars, ghostVars
    <3>. QED
      BY <1>2, <3>1, <3>2
  <2>. QED
    BY <2>1, <2>2, <2>3, <2>4, <2>5
<1>6. ASSUME NEW c \in Callers, NEW op \in Ops, Call(c, op) PROVE LimitInv'
  BY <1>0, <1>2, <1>6 DEF Call, Counted, poolVars
<1>. QED
  BY <1>3, <1>4, <1>5, <1>6
     DEF Next, Gone, Spurious, WorkerSpurious, DrainSpurious, vars, poolVars,
         callerVars

-----------------------------------------------------------------------------
(* The theorems.                                                           *)

\* The inductive invariant.
IInv ==
  /\ TypeOK /\ WorkerOK /\ Control
  /\ NewOK /\ BlockedOK /\ NeverThrows
  /\ NoLostResume /\ AcceptedWhileRunning /\ LimitInv

LEMMA Inductive == IInv /\ [Next]_vars => IInv'
  BY TypeStep, WorkerOKStep, ControlStep, NewStep, BlockedStep,
     NoLostResumeStep,
     AcceptedStep, LimitStep DEF IInv, Control

LEMMA Initial == Init => IInv
<1>. SUFFICES ASSUME Init PROVE IInv
  OBVIOUS
<1>1. TypeOK /\ Control /\ LimitInv
  BY TypeInit, ControlInit, LimitInit
<1>2. WorkerOK /\ NewOK /\ BlockedOK /\ NeverThrows /\ NoLostResume
  BY PoolAssumption
     DEF Init, WorkerOK, NewOK, BlockedOK, NeverThrows, NoLostResume,
     Workers, PoolAssumption
<1>3. AcceptedWhileRunning
  BY DEF Init, AcceptedWhileRunning
<1>. QED
  BY <1>1, <1>2, <1>3 DEF IInv

\* The inductive invariant holds in every reachable state.
THEOREM Invariance == Spec => []IInv
  BY Initial, Inductive, PTL DEF Spec

\* Every variable keeps its type: no walk over worker_list leaves the list, no
\* task is queued, run or finished that was not submitted.
THEOREM TypeCorrect == Spec => []TypeOK
  BY Invariance, PTL DEF IInv

\* No worker thread ever throws out of its status checks.
THEOREM WorkersNeverThrow == Spec => []NeverThrows
  BY Invariance, PTL DEF IInv

\* A worker that sleeps on pause_sem and is not PAUSED has a permit.
THEOREM ResumeNeverLost == Spec => []NoLostResume
  BY Invariance, PTL DEF IInv

\* Whoever is between the status check of submit and its end sees a RUNNING pool.
THEOREM AcceptsOnlyWhileRunning == Spec => []AcceptedWhileRunning
  BY Invariance, PTL DEF IInv

\* The status lock excludes: a method that changes the status is alone.
StatusExclusive ==
  \A c, d \in Callers : Holding(c) =>
    /\ Holding(d) => c = d
    /\ ~(Shared(cop[d]) /\ cpc[d] # "called")
THEOREM StatusLockExcludes == Spec => []StatusExclusive
<1>1. IInv => StatusExclusive
  BY PoolAssumption
     DEF IInv, Control, StatusLock, StatusExclusive, PoolAssumption
<1>. QED
  BY <1>1, Invariance, PTL

\* The queue exceeds the limit in force by less than the number of callers.
THEOREM QueueNearLimit == Spec => []QueueLimit
<1>1. IInv => QueueLimit
  <2>. SUFFICES ASSUME IInv, 0 \notin LimitSet
                PROVE  \E m \in LimitSet : Len(queue) < m + Cardinality(Callers)
    BY DEF QueueLimit, LimitSet
  <2>1. PICK m \in LimitSet : Len(queue) + Cardinality(Counted) < m + Cardinality(Callers)
    BY DEF IInv, LimitInv
  <2>2. /\ LimitSet \subseteq Nat /\ Len(queue) \in Nat
        /\ Cardinality(Counted) \in Nat /\ Cardinality(Callers) \in Nat
    BY PoolAssumption, CountedFinite, LenProperties
       DEF IInv, TypeOK, LimitSet, PoolAssumption, Counted
  <2>. QED
    BY <2>1, <2>2
<1>. QED
  BY <1>1, Invariance, PTL

-----------------------------------------------------------------------------
(* The thread pool implements TaskService.  The theorems above give that a *)
(* task is only pushed while the pool is RUNNING; TasksAccounted gives that*)
(* the task a worker takes was never taken before.                         *)

Busy == {w \in Workers : wpc[w] = "run"}
InHand == {wtask[w] : w \in Busy}
Left == submitted - Len(queue)

\* TasksAccounted, with its parts named.
Accounted ==
  /\ \A i \in 1..Len(queue) : queue[i] = Left + i
  /\ \A v, w \in Busy : wtask[v] = wtask[w] => v = w
  /\ InHand \cap finished = {}
  /\ InHand \cup finished = 1..Left

LEMMA AccountedDef == TasksAccounted <=> Accounted
  BY DEF TasksAccounted, Accounted, Busy, InHand, Left

\* Only taking and ending a task changes who runs what.
LEMMA BusyFrame ==
  ASSUME TypeOK, IInv, [Next]_vars,
         \A w \in Workers : ~WorkerPop(w) /\ ~WorkerRun(w)
  PROVE  /\ Busy' = Busy /\ InHand' = InHand /\ finished' = finished
         /\ wtask' = wtask
<1>1. /\ wpc \in [Workers -> WorkerPC] /\ wtask \in [Workers -> 0..submitted]
      /\ wstatus \in [Workers -> WorkerStatus]
  BY DEF TypeOK
<1>2. ASSUME NEW w \in Workers, WorkerStep(w)
      PROVE  wtask' = wtask /\ finished' = finished /\ Busy' = Busy
  BY <1>1, <1>2
     DEF WorkerStep, Busy, WorkerTop, WorkerAcquire, WorkerLock, WorkerPre,
         WorkerWait, WorkerPost, TopSwitch, PreSwitch, PostSwitch, Resumed,
         WorkerStatus, workerVars, ghostVars
<1>3. ASSUME NEW c \in Callers, CallerStep(c)
      PROVE  wtask' = wtask /\ finished' = finished /\ Busy' = Busy
  <2>1. CASE AddThread(c)
    <3>1. NewOK /\ created \in 0..MaxThreads
      BY DEF IInv, TypeOK
    <3>2. \A w \in Workers : wpc'[w] = "run" <=> wpc[w] = "run"
      BY <1>1, <2>1, <3>1, PoolAssumption
         DEF AddThread, NewOK, Workers, PoolAssumption
    <3>. QED
      BY <2>1, <3>2 DEF AddThread, Busy
  <2>2. CASE ~AddThread(c)
    BY <1>3, <2>2
       DEF CallerStep, Busy, Refuse, SharedBegin, SubmitCount, SubmitPush,
           SubmitNotify, SetMaxTaskCount, PauseBegin, ResumeBegin,
           ShutdownBegin, TerminateBegin, DestroyBegin, PauseOne, ResumeOne,
           TerminateOne, WalkEnd, ShutdownResumed, DrainLock, DrainWait,
           WaitEnd, ShutdownDrained, TerminateEnd, RemoveBegin, RemoveNotify,
           DeleteWorker, JoinWorker, RemoveEnd, DestroyEnd, At, Goto, Return,
           ExclusiveBegin, poolVars, lockVars, cvVars, workerVars, callerVars,
           ghostVars
  <2>. QED
    BY <2>1, <2>2
<1>. QED
  BY <1>2, <1>3
     DEF Next, Gone, Spurious, WorkerSpurious, DrainSpurious, Call, vars, Busy,
         InHand, workerVars, ghostVars

\* Only submit and a worker that takes a task change the queue.
LEMMA QueueFrame ==
  ASSUME [Next]_vars,
         \A w \in Workers : ~WorkerPop(w),
         \A c \in Callers : ~SubmitPush(c)
  PROVE  queue' = queue /\ submitted' = submitted
<1>1. ASSUME NEW w \in Workers, WorkerStep(w)
      PROVE  queue' = queue /\ submitted' = submitted
  BY <1>1
     DEF WorkerStep, WorkerTop, WorkerAcquire, WorkerLock, WorkerPre,
         WorkerWait, WorkerPost, WorkerRun, poolVars, ghostVars
<1>2. ASSUME NEW c \in Callers, CallerStep(c)
      PROVE  queue' = queue /\ submitted' = submitted
  BY <1>2
     DEF CallerStep, Refuse, SharedBegin, SubmitCount, SubmitNotify,
         SetMaxTaskCount, PauseBegin, ResumeBegin, ShutdownBegin,
         TerminateBegin, DestroyBegin, PauseOne, ResumeOne, TerminateOne,
         WalkEnd, ShutdownResumed, DrainLock, DrainWait, WaitEnd,
         ShutdownDrained, TerminateEnd, AddThread, RemoveBegin, RemoveNotify,
         DeleteWorker, JoinWorker, RemoveEnd, DestroyEnd, At, Goto, Return,
         ExclusiveBegin, poolVars, lockVars, cvVars, workerVars, callerVars,
         ghostVars
<1>. QED
  BY <1>1, <1>2
     DEF Next, Gone, Spurious, WorkerSpurious, DrainSpurious, Call, vars, poolVars,
         ghostVars

\* What the worker that takes a task finds and leaves.
LEMMA PopFacts ==
  ASSUME TypeOK, Accounted, NEW w \in Workers, WorkerPop(w)
  PROVE  /\ Left \in Nat /\ Head(queue) = Left + 1
         /\ Left' = Left + 1 /\ submitted' = submitted /\ finished' = finished
         /\ queue # <<>> /\ queue' = Tail(queue)
         /\ \A i \in 1..Len(queue') : queue'[i] = Left' + i
         /\ w \notin Busy /\ Busy' = Busy \cup {w}
         /\ wtask'[w] = Left + 1 /\ \A v \in Workers : v # w => wtask'[v] = wtask[v]
<1>1. /\ queue \in Seq(1..submitted) /\ submitted \in Nat /\ queue # <<>>
      /\ wpc \in [Workers -> WorkerPC] /\ wtask \in [Workers -> 0..submitted]
  BY DEF TypeOK, WorkerPop
<1>2. queue' = Tail(queue) /\ submitted' = submitted /\ finished' = finished
  BY DEF WorkerPop, TakeFront
<1>3. /\ Len(queue) \in Nat \ {0} /\ queue[1] \in 1..submitted
      /\ queue[1] = Left + 1 /\ Head(queue) = queue[1]
  <2>1. Len(queue) \in Nat \ {0} /\ queue[1] \in 1..submitted
    BY <1>1, EmptySeq, ElementOfSeq
  <2>2. Head(queue) = queue[1]
    BY <1>1
  <2>. QED
    BY <2>1, <2>2 DEF Accounted
<1>4. Len(queue') = Len(queue) - 1 /\ \A i \in 1..Len(queue') : queue'[i] = queue[i + 1]
  BY <1>1, <1>2, HeadTailProperties
<1>5. Left \in Nat /\ Left' = Left + 1
  BY <1>1, <1>2, <1>3, <1>4 DEF Left
<1>6. \A i \in 1..Len(queue') : queue'[i] = Left' + i
  <2>. SUFFICES ASSUME NEW i \in 1..Len(queue') PROVE queue'[i] = Left' + i
    OBVIOUS
  <2>1. i + 1 \in 1..Len(queue) /\ queue'[i] = queue[i + 1]
    BY <1>3, <1>4
  <2>2. queue[i + 1] = Left + (i + 1)
    BY <2>1 DEF Accounted
  <2>. QED
    BY <1>4, <1>5, <2>1, <2>2, <1>3
<1>7. w \notin Busy /\ Busy' = Busy \cup {w}
  BY <1>1 DEF WorkerPop, Busy
<1>8. wtask'[w] = Left + 1 /\ \A v \in Workers : v # w => wtask'[v] = wtask[v]
  BY <1>1, <1>3 DEF WorkerPop, TakeFront
<1>. QED
  BY <1>1, <1>2, <1>3, <1>5, <1>6, <1>7, <1>8

\* What the worker that ends a task leaves.
LEMMA RunFacts ==
  ASSUME TypeOK, Accounted, NEW w \in Workers, WorkerRun(w)
  PROVE  /\ w \in Busy /\ Busy' = Busy \ {w}
         /\ \A v \in Workers : v # w => wtask'[v] = wtask[v]
         /\ finished' = finished \cup {wtask[w]}
         /\ InHand' = InHand \ {wtask[w]} /\ wtask[w] \in InHand
<1>1. wpc \in [Workers -> WorkerPC] /\ wtask \in [Workers -> 0..submitted]
  BY DEF TypeOK
<1>2. /\ w \in Busy /\ Busy' = Busy \ {w} /\ finished' = finished \cup {wtask[w]}
      /\ \A v \in Workers : v # w => wtask'[v] = wtask[v]
  BY <1>1 DEF WorkerRun, Busy
<1>3. \A v \in Busy : v # w => wtask[v] # wtask[w]
  BY <1>2 DEF Accounted
<1>4. Busy \subseteq Workers
  BY DEF Busy
<1>5. InHand' = {wtask'[v] : v \in Busy'}
  BY DEF InHand
<1>6. InHand = {wtask[v] : v \in Busy}
  BY DEF InHand
<1>7. InHand' = InHand \ {wtask[w]}
  BY <1>2, <1>3, <1>4, <1>5, <1>6
<1>. QED
  BY <1>2, <1>6, <1>7

LEMMA AccountedStep ==
  IInv /\ Accounted /\ [Next]_vars => Accounted'
<1>. SUFFICES ASSUME IInv, Accounted, [Next]_vars PROVE Accounted'
  OBVIOUS
<1>0. TypeOK /\ TypeOK'
  BY Inductive DEF IInv
<1>1. ASSUME NEW w \in Workers, WorkerPop(w) PROVE Accounted'
  <2>1. Busy \subseteq Workers
    BY DEF Busy
  <2>2. InHand' = InHand \cup {Left + 1}
    <3>1. InHand = {wtask[v] : v \in Busy} /\ InHand' = {wtask'[v] : v \in Busy'}
      BY DEF InHand
    <3>2. \A v \in Busy : wtask'[v] = wtask[v]
      BY <1>0, <1>1, <2>1, PopFacts
    <3>3. Busy' = Busy \cup {w} /\ wtask'[w] = Left + 1
      BY <1>0, <1>1, PopFacts
    <3>. QED
      BY <3>1, <3>2, <3>3
  <2>3. 1..Left' = (1..Left) \cup {Left + 1} /\ Left + 1 \notin 1..Left
    BY <1>0, <1>1, PopFacts
  <2>4. \A u, v \in Busy' : wtask'[u] = wtask'[v] => u = v
    <3>1. \A v \in Busy : wtask[v] \in 1..Left
      BY DEF Accounted, InHand
    <3>2. \A v \in Busy : wtask'[v] = wtask[v] /\ wtask'[v] # Left + 1
      BY <1>0, <1>1, <2>1, <2>3, <3>1, PopFacts
    <3>. QED
      BY <1>0, <1>1, <3>2, PopFacts DEF Accounted
  <2>. QED
    BY <1>0, <1>1, <2>2, <2>3, <2>4, PopFacts DEF Accounted
<1>2. ASSUME NEW w \in Workers, WorkerRun(w) PROVE Accounted'
  <2>1. queue' = queue /\ submitted' = submitted
    BY <1>2 DEF WorkerRun, poolVars
  <2>2. Busy \subseteq Workers
    BY DEF Busy
  <2>3. \A u, v \in Busy' : wtask'[u] = wtask'[v] => u = v
    BY <1>0, <1>2, <2>2, RunFacts DEF Accounted
  <2>. QED
    BY <1>0, <1>2, <2>1, <2>3, RunFacts DEF Accounted, Left
<1>3. ASSUME \A w \in Workers : ~WorkerPop(w) /\ ~WorkerRun(w)
      PROVE  Accounted'
  <2>1. /\ Busy' = Busy /\ InHand' = InHand /\ finished' = finished
        /\ wtask' = wtask
    BY <1>0, <1>3, BusyFrame
  <2>2. \A u, v \in Busy' : wtask'[u] = wtask'[v] => u = v
    BY <2>1 DEF Accounted
  <2>3. CASE \E c \in Callers : SubmitPush(c)
    <3>1. PICK c \in Callers : SubmitPush(c)
      BY <2>3
    <3>2. /\ queue \in Seq(1..submitted) /\ submitted \in Nat /\ Len(queue) \in Nat
          /\ queue' = Append(queue, submitted + 1) /\ submitted' = submitted + 1
      BY <1>0, <3>1, LenProperties DEF TypeOK, SubmitPush
    <3>3. /\ Len(queue') = Len(queue) + 1 /\ Left' = Left
          /\ \A i \in 1..Len(queue) : queue'[i] = queue[i]
          /\ queue'[Len(queue) + 1] = submitted + 1
      BY <3>2 DEF Left
    <3>4. \A i \in 1..Len(queue') : queue'[i] = Left' + i
      BY <3>2, <3>3 DEF Accounted, Left
    <3>. QED
      BY <2>1, <2>2, <3>3, <3>4 DEF Accounted
  <2>4. CASE ~\E c \in Callers : SubmitPush(c)
    <3>1. queue' = queue /\ submitted' = submitted
      BY <1>3, <2>4, QueueFrame
    <3>. QED
      BY <2>1, <2>2, <3>1 DEF Accounted, Left
  <2>. QED
    BY <2>3, <2>4
<1>. QED
  BY <1>1, <1>2, <1>3

-----------------------------------------------------------------------------
Mode == CASE status = "RUNNING" -> "open" [] status = "PAUSED" -> "held"
          [] OTHER -> "closed"

\* Taking, ending and submitting a task leave the status alone; nothing opens a
\* pool that is neither RUNNING nor PAUSED.
LEMMA StatusFrame ==
  ASSUME [Next]_vars,
         \/ \E w \in Workers : WorkerPop(w) \/ WorkerRun(w)
         \/ \E c \in Callers : SubmitPush(c)
  PROVE  status' = status
  BY DEF WorkerPop, WorkerRun, SubmitPush, poolVars

LEMMA ModeStep ==
  ASSUME TypeOK, [Next]_vars
  PROVE  Mode' = Mode \/ (Mode # "closed" /\ Mode' \in {"open", "held", "closed"})
<1>. SUFFICES status' # status /\ status \notin {"RUNNING", "PAUSED"}
                => status' \notin {"RUNNING", "PAUSED"}
  BY DEF Mode
<1>1. ASSUME NEW w \in Workers, WorkerStep(w) PROVE status' = status
  BY <1>1, WorkerFrame
<1>2. ASSUME NEW c \in Callers, CallerStep(c), status' # status,
             status \notin {"RUNNING", "PAUSED"}
      PROVE  status' \notin {"RUNNING", "PAUSED"}
  BY <1>2
     DEF CallerStep, Refuse, SharedBegin, SubmitCount, SubmitPush,
         SubmitNotify, SetMaxTaskCount, PauseBegin, ResumeBegin, ShutdownBegin,
         TerminateBegin, DestroyBegin, PauseOne, ResumeOne, TerminateOne,
         WalkEnd, ShutdownResumed, DrainLock, DrainWait, WaitEnd,
         ShutdownDrained, TerminateEnd, AddThread, RemoveBegin, RemoveNotify,
         DeleteWorker, JoinWorker, RemoveEnd, DestroyEnd, At, Goto, Return,
         ExclusiveBegin, poolVars, lockVars, cvVars, workerVars, callerVars,
         ghostVars
<1>. QED
  BY <1>1, <1>2
     DEF Next, Gone, Spurious, WorkerSpurious, DrainSpurious, Call, vars, poolVars

LEMMA ServiceInit == Init => Service!Init
<1>. SUFFICES ASSUME Init PROVE Service!Init
  OBVIOUS
<1>1. Busy = {}
  BY PoolAssumption DEF Init, Busy, Workers, PoolAssumption
<1>2. InHand = {}
  BY <1>1 DEF InHand
<1>. QED
  BY <1>2 DEF Init, Service!Init, InHand, Busy

LEMMA ServiceStep ==
  IInv /\ Accounted /\ [Next]_vars => [Service!Next]_(Service!vars)
<1>. SUFFICES ASSUME IInv, Accounted, [Next]_vars
              PROVE  [Service!Next]_(Service!vars)
  OBVIOUS
<1>0. TypeOK
  BY DEF IInv
<1>1. ASSUME NEW w \in Workers, WorkerPop(w) PROVE Service!Start
  <2>1. /\ queue # <<>> /\ queue' = Tail(queue) /\ submitted' = submitted
        /\ finished' = finished /\ status' = status
    BY <1>0, <1>1, PopFacts, StatusFrame
  <2>2. Head(queue) \notin InHand \cup finished
    BY <1>0, <1>1, PopFacts DEF Accounted
  <2>3. InHand' = InHand \cup {Head(queue)}
    <3>1. Busy \subseteq Workers /\ \A v \in Busy : wtask'[v] = wtask[v]
      BY <1>0, <1>1, PopFacts DEF Busy
    <3>2. Busy' = Busy \cup {w} /\ wtask'[w] = Head(queue)
      BY <1>0, <1>1, PopFacts
    <3>3. InHand = {wtask[v] : v \in Busy} /\ InHand' = {wtask'[v] : v \in Busy'}
      BY DEF InHand
    <3>. QED
      BY <3>1, <3>2, <3>3
  <2>. QED
    BY <2>1, <2>2, <2>3 DEF Service!Start, InHand, Busy
<1>2. ASSUME NEW w \in Workers, WorkerRun(w)
      PROVE  wtask[w] \in InHand /\ Service!Finish(wtask[w])
  <2>1. queue' = queue /\ submitted' = submitted /\ status' = status
    BY <1>2 DEF WorkerRun, poolVars
  <2>2. /\ wtask[w] \in InHand /\ InHand' = InHand \ {wtask[w]}
        /\ finished' = finished \cup {wtask[w]}
    BY <1>0, <1>2, RunFacts
  <2>. QED
    BY <2>1, <2>2 DEF Service!Finish, InHand, Busy
<1>3. ASSUME \A w \in Workers : ~WorkerPop(w) /\ ~WorkerRun(w),
             NEW c \in Callers, SubmitPush(c)
      PROVE  Service!Accept
  <2>1. status = "RUNNING" /\ status' = status
    BY <1>3, StatusFrame DEF IInv, AcceptedWhileRunning, SubmitPush
  <2>2. submitted' = submitted + 1 /\ queue' = Append(queue, submitted + 1)
    BY <1>3 DEF SubmitPush
  <2>3. InHand' = InHand /\ finished' = finished
    BY <1>0, <1>3, BusyFrame
  <2>. QED
    BY <2>1, <2>2, <2>3 DEF Service!Accept, InHand, Busy
<1>4. ASSUME \A w \in Workers : ~WorkerPop(w) /\ ~WorkerRun(w),
             \A c \in Callers : ~SubmitPush(c)
      PROVE  [\E m \in {"open", "held", "closed"} : Service!SetMode(m)]_(Service!vars)
  <2>1. queue' = queue /\ submitted' = submitted
    BY <1>4, QueueFrame
  <2>2. InHand' = InHand /\ finished' = finished
    BY <1>0, <1>4, BusyFrame
  <2>3. Mode' = Mode \/ (Mode # "closed" /\ Mode' \in {"open", "held", "closed"})
    BY <1>0, ModeStep
  <2>. QED
    BY <2>1, <2>2, <2>3 DEF Service!SetMode, Service!vars, InHand, Busy, Mode
<1>5. CASE \E w \in Workers : WorkerPop(w)
  BY <1>1, <1>5 DEF Service!Next
<1>6. CASE \E w \in Workers : WorkerRun(w)
  <2>1. PICK w \in Workers : WorkerRun(w)
    BY <1>6
  <2>2. wtask[w] \in InHand /\ Service!Finish(wtask[w])
    BY <1>2, <2>1
  <2>3. \E t \in InHand : Service!Finish(t)
    BY <2>2 DEF Service!Finish
  <2>. QED
    BY <2>3 DEF Service!Next, InHand, Busy
<1>7. CASE /\ \A w \in Workers : ~WorkerPop(w) /\ ~WorkerRun(w)
           /\ \E c \in Callers : SubmitPush(c)
  BY <1>3, <1>7 DEF Service!Next
<1>8. CASE /\ \A w \in Workers : ~WorkerPop(w) /\ ~WorkerRun(w)
           /\ \A c \in Callers : ~SubmitPush(c)
  BY <1>4, <1>8 DEF Service!Next
<1>. QED
  BY <1>5, <1>6, <1>7, <1>8

LEMMA AccountedInit == Init => Accounted
<1>. SUFFICES ASSUME Init PROVE Accounted
  OBVIOUS
<1>1. Busy = {}
  BY PoolAssumption DEF Init, Busy, Workers, PoolAssumption
<1>2. InHand = {}
  BY <1>1 DEF InHand
<1>3. Len(queue) = 0 /\ submitted = 0 /\ finished = {}
  BY DEF Init
<1>4. Left = 0 /\ 1..Len(queue) = {} /\ 1..Left = {}
  BY <1>3 DEF Left
<1>5. /\ \A i \in 1..Len(queue) : queue[i] = Left + i
      /\ \A v, w \in Busy : wtask[v] = wtask[w] => v = w
  BY <1>1, <1>4
<1>6. InHand \cap finished = {} /\ InHand \cup finished = 1..Left
  BY <1>2, <1>3, <1>4
<1>. QED
  BY <1>5, <1>6 DEF Accounted

\* What has left the queue is being executed by exactly one worker or has been
\* executed; tasks leave the queue in the order of submission.
THEOREM EveryTaskAccounted == Spec => []TasksAccounted
<1>1. Init => Accounted
  BY AccountedInit
<1>2. IInv /\ Accounted /\ [Next]_vars => Accounted'
  BY AccountedStep
<1>3. Accounted => TasksAccounted
  BY AccountedDef
<1>. QED
  BY <1>1, <1>2, <1>3, Invariance, PTL DEF Spec

\* The pool implements TaskService: acceptance only when open, execution in the
\* order of acceptance and once, and no way back from closed.
THEOREM Refinement == Spec => ImplementsTaskService
<1>1. Init => Accounted /\ Service!Init
  BY AccountedInit, ServiceInit
<1>2. IInv /\ Accounted /\ [Next]_vars => Accounted'
  BY AccountedStep
<1>3. IInv /\ Accounted /\ [Next]_vars => [Service!Next]_(Service!vars)
  BY ServiceStep
<1>. QED
  BY <1>1, <1>2, <1>3, Invariance, PTL
     DEF Spec, ImplementsTaskService, Service!Spec

-----------------------------------------------------------------------------
(* Pauses.                                                                 *)

\* A paused worker that has taken a task since runs it, or is on its way to
\* pause_sem, from where it always comes back to the first status check.
LateOK ==
  \A w \in Workers :
    /\ lateStarts[w] \in {0, 1}
    /\ lateStarts[w] = 1 /\ wstatus[w] = "PAUSED" => wpc[w] \in {"run", "top", "sem_top"}

LEMMA LateStep == TypeOK /\ NewOK /\ LateOK /\ [Next]_vars => LateOK'
<1>. SUFFICES ASSUME TypeOK, NewOK, LateOK, [Next]_vars PROVE LateOK'
  OBVIOUS
<1>1. /\ wpc \in [Workers -> WorkerPC] /\ wstatus \in [Workers -> WorkerStatus]
      /\ lateStarts \in [Workers -> Nat] /\ created \in 0..MaxThreads
  BY DEF TypeOK
<1>2. ASSUME NEW w \in Workers, WorkerStep(w) PROVE LateOK'
  <2>1. \A v \in Workers : v # w => /\ wpc'[v] = wpc[v] /\ wstatus'[v] = wstatus[v]
                                    /\ lateStarts'[v] = lateStarts[v]
    BY <1>1, <1>2
       DEF WorkerStep, WorkerTop, WorkerAcquire, WorkerLock, WorkerPre,
           WorkerWait, WorkerPost, WorkerPop, WorkerRun, StoreStatus,
           workerVars, ghostVars
  <2>2. /\ lateStarts'[w] \in {0, 1}
        /\ lateStarts'[w] = 1 /\ wstatus'[w] = "PAUSED" => wpc'[w] \in {"run", "top", "sem_top"}
    <3>1. CASE WorkerPop(w)
      BY <1>1, <3>1 DEF WorkerPop, LateOK
    <3>2. CASE ~WorkerPop(w)
      <4>1. lateStarts' = lateStarts
        BY <1>2, <3>2
           DEF WorkerStep, WorkerTop, WorkerAcquire, WorkerLock, WorkerPre,
               WorkerWait, WorkerPost, WorkerRun, ghostVars
      <4>2. wstatus'[w] = "PAUSED" => wstatus[w] = "PAUSED"
        BY <1>1, <1>2, <3>2
           DEF WorkerStep, WorkerTop, WorkerAcquire, WorkerLock, WorkerPre,
               WorkerWait, WorkerPost, WorkerRun, StoreStatus, workerVars
      <4>3. wstatus[w] = "PAUSED" /\ wpc[w] \in {"run", "top", "sem_top"}
              => wpc'[w] \in {"run", "top", "sem_top"}
        BY <1>1, <1>2, <3>2
           DEF WorkerStep, WorkerTop, WorkerAcquire, WorkerLock, WorkerPre,
               WorkerWait, WorkerPost, WorkerRun, TopSwitch, Resumed
      <4>. QED
        BY <4>1, <4>2, <4>3 DEF LateOK
    <3>. QED
      BY <3>1, <3>2
  <2>. QED
    BY <2>1, <2>2 DEF LateOK
<1>3. ASSUME NEW c \in Callers, CallerStep(c) PROVE LateOK'
  <2>1. \A w \in Workers : wpc'[w] = wpc[w] \/ wpc'[w] = "top"
    BY <1>3, CallerWorkerFrame
  <2>2. \A w \in Workers : \/ lateStarts'[w] = 0
                           \/ /\ lateStarts'[w] = lateStarts[w]
                              /\ wstatus'[w] = "PAUSED" => wstatus[w] = "PAUSED"
    BY <1>1, <1>3
       DEF CallerStep, TerminateWorker, Refuse, SharedBegin, SubmitCount,
           SubmitPush, SubmitNotify, SetMaxTaskCount, PauseBegin, ResumeBegin,
           ShutdownBegin, TerminateBegin, DestroyBegin, PauseOne, ResumeOne,
           TerminateOne, WalkEnd, ShutdownResumed, DrainLock, DrainWait,
           WaitEnd, ShutdownDrained, TerminateEnd, AddThread, RemoveBegin,
           RemoveNotify, DeleteWorker, JoinWorker, RemoveEnd, DestroyEnd, At,
           Goto, Return, ExclusiveBegin, poolVars, lockVars, cvVars,
           workerVars, callerVars, ghostVars
  <2>. QED
    BY <2>1, <2>2 DEF LateOK
<1>4. ASSUME UNCHANGED <<workerVars, lateStarts>> PROVE LateOK'
  BY <1>4 DEF workerVars, LateOK
<1>. QED
  BY <1>2, <1>3, <1>4
     DEF Next, Gone, Spurious, WorkerSpurious, DrainSpurious, Call, vars, ghostVars

\* A worker that was paused starts at most one more task before it is resumed,
\* however many stale permits pause_sem has (worker_thread.cpp).
THEOREM PausedAfterOneTask == Spec => []AtMostOneLateStart
<1>1. Init => LateOK
  BY DEF Init, LateOK
<1>2. IInv /\ LateOK /\ [Next]_vars => LateOK'
  BY LateStep DEF IInv
<1>3. LateOK => AtMostOneLateStart
  BY DEF LateOK, AtMostOneLateStart
<1>. QED
  BY <1>1, <1>2, <1>3, Invariance, PTL DEF Spec

-----------------------------------------------------------------------------
(* Shutdown.                                                               *)

\* If nobody terminates the pool, it comes to its end by shutdown only, with an
\* empty queue; and the destructor finds it there.
DrainOK ==
  /\ \A c \in Callers : cop[c] \in Ops \cup {"none"}
  /\ \A c \in Callers : cpc[c] = "terminating" => status = "TERMINATING"
  /\ "terminate" \notin Ops /\ DestroyTerminatedOnly =>
       /\ \A c \in Callers : cop[c] = "destroy" => status = "TERMINATED"
       /\ status \in {"TERMINATING", "TERMINATED"} => queue = <<>>

LEMMA DrainStep ==
  TypeOK /\ Control /\ AcceptedWhileRunning /\ DrainOK /\ [Next]_vars => DrainOK'
<1>. SUFFICES ASSUME TypeOK, Control, AcceptedWhileRunning, DrainOK, [Next]_vars
              PROVE  DrainOK'
  OBVIOUS
<1>0. cpc \in [Callers -> CallerPC] /\ cop \in [Callers -> AllOps \cup {"none"}]
  BY DEF TypeOK
<1>1. CASE UNCHANGED <<status, queue, callerVars>>
  BY <1>1 DEF callerVars, DrainOK
<1>2. ASSUME NEW w \in Workers, WorkerStep(w) PROVE DrainOK'
  <2>1. status' = status /\ cop' = cop /\ cpc' = cpc
    BY <1>2, WorkerFrame
  <2>2. queue = <<>> => queue' = <<>>
    BY <1>2
       DEF WorkerStep, WorkerTop, WorkerAcquire, WorkerLock, WorkerPre,
           WorkerWait, WorkerPost, WorkerPop, WorkerRun, poolVars
  <2>. QED
    BY <2>1, <2>2 DEF DrainOK
<1>3. ASSUME NEW c \in Callers, CallerStep(c) PROVE DrainOK'
  <2>1. \A d \in Callers : cop'[d] \in {cop[d], "none"}
    BY <1>0, <1>3, CallerFrame
       DEF CallerStep, Refuse, SharedBegin, SubmitCount, SubmitPush,
           SubmitNotify, SetMaxTaskCount, PauseBegin, ResumeBegin, ShutdownBegin,
           TerminateBegin, DestroyBegin, PauseOne, ResumeOne, TerminateOne,
           WalkEnd, ShutdownResumed, DrainLock, DrainWait, WaitEnd,
           ShutdownDrained, TerminateEnd, AddThread, RemoveBegin, RemoveNotify,
           DeleteWorker, JoinWorker, RemoveEnd, DestroyEnd, At, Goto, Return,
           ExclusiveBegin, callerVars
  <2>0. \A d \in Callers : cpc'[d] = "terminating" => status' = "TERMINATING"
    <3>1. CASE status' = status
      <4>1. cpc'[c] = "terminating" => cpc[c] = "terminating" \/ status' = "TERMINATING"
        BY <1>0, <1>3
           DEF CallerStep, Refuse, SharedBegin, SubmitCount, SubmitPush,
               SubmitNotify, SetMaxTaskCount, PauseBegin, ResumeBegin, ShutdownBegin,
               TerminateBegin, DestroyBegin, PauseOne, ResumeOne, TerminateOne,
               WalkEnd, ShutdownResumed, DrainLock, DrainWait, WaitEnd,
               ShutdownDrained, TerminateEnd, AddThread, RemoveBegin, RemoveNotify,
               DeleteWorker, JoinWorker, RemoveEnd, DestroyEnd, At, Goto, Return,
               ExclusiveBegin, callerVars
      <4>. QED
        BY <1>3, <3>1, <4>1, CallerFrame DEF DrainOK
    <3>2. CASE status' # status
      <4>1. \A d \in Callers : d # c => cpc[d] # "terminating"
        <5>1. statusX \in {None, c}
          BY <1>3, <3>2
             DEF CallerStep, Control, StatusLock, Holding, StatusFreeX, CallerOK, At,
                 Refuse, SharedBegin, SubmitCount, SubmitPush,
                 SubmitNotify, SetMaxTaskCount, PauseBegin, ResumeBegin, ShutdownBegin,
                 TerminateBegin, DestroyBegin, PauseOne, ResumeOne, TerminateOne,
                 WalkEnd, ShutdownResumed, DrainLock, DrainWait, WaitEnd,
                 ShutdownDrained, TerminateEnd, AddThread, RemoveBegin, RemoveNotify,
                 DeleteWorker, JoinWorker, RemoveEnd, DestroyEnd, ExclusiveBegin, poolVars
        <5>. QED
          BY <5>1, PoolAssumption DEF Control, StatusLock, Holding, PoolAssumption
      <4>2. cpc'[c] = "terminating" => status' = "TERMINATING"
        BY <1>0, <1>3, <3>2
           DEF CallerStep, Refuse, SharedBegin, SubmitCount, SubmitPush,
               SubmitNotify, SetMaxTaskCount, PauseBegin, ResumeBegin, ShutdownBegin,
               TerminateBegin, DestroyBegin, PauseOne, ResumeOne, TerminateOne,
               WalkEnd, ShutdownResumed, DrainLock, DrainWait, WaitEnd,
               ShutdownDrained, TerminateEnd, AddThread, RemoveBegin, RemoveNotify,
               DeleteWorker, JoinWorker, RemoveEnd, DestroyEnd, At, Goto, Return,
               ExclusiveBegin, poolVars, callerVars
      <4>. QED
        BY <1>3, <4>1, <4>2, CallerFrame
    <3>. QED
      BY <3>1, <3>2
  <2>. SUFFICES ASSUME "terminate" \notin Ops, DestroyTerminatedOnly
                PROVE  /\ (\E d \in Callers : cop[d] = "destroy") => status' = "TERMINATED"
                       /\ status' \in {"TERMINATING", "TERMINATED"} => queue' = <<>>
    BY <2>0, <2>1 DEF DrainOK
  <2>2. cop[c] # "terminate" /\ (cop[c] = "destroy" => status = "TERMINATED")
    BY DEF DrainOK
  <2>3. (\E d \in Callers : cop[d] = "destroy") => cop[c] \in {"destroy", "none"}
    BY DEF Control, DestroyAlone
  <2>4. cop[c] = "none" => cpc[c] = "idle"
    BY DEF Control, CallerOK
  <2>5. ~TerminateBegin(c)
    BY <2>2 DEF TerminateBegin
  <2>6. (\E d \in Callers : cop[d] = "destroy") => status' = "TERMINATED"
    BY <1>3, <2>3, <2>4, <2>5
       DEF DrainOK, CallerStep, Refuse, SharedBegin, SubmitCount, SubmitPush,
           SubmitNotify, SetMaxTaskCount, PauseBegin, ResumeBegin, ShutdownBegin,
           TerminateBegin, DestroyBegin, PauseOne, ResumeOne, TerminateOne,
           WalkEnd, ShutdownResumed, DrainLock, DrainWait, WaitEnd,
           ShutdownDrained, TerminateEnd, AddThread, RemoveBegin, RemoveNotify,
           DeleteWorker, JoinWorker, RemoveEnd, DestroyEnd, At, ExclusiveBegin, poolVars
  <2>7. ASSUME status' \in {"TERMINATING", "TERMINATED"} PROVE queue' = <<>>
    <3>1. ~SubmitPush(c)
      BY <2>7 DEF SubmitPush, AcceptedWhileRunning
    <3>2. queue' = queue
      BY <1>3, <3>1
         DEF CallerStep, Refuse, SharedBegin, SubmitCount,
             SubmitNotify, SetMaxTaskCount, PauseBegin, ResumeBegin, ShutdownBegin,
             TerminateBegin, DestroyBegin, PauseOne, ResumeOne, TerminateOne,
             WalkEnd, ShutdownResumed, DrainLock, DrainWait, WaitEnd,
             ShutdownDrained, TerminateEnd, AddThread, RemoveBegin, RemoveNotify,
             DeleteWorker, JoinWorker, RemoveEnd, DestroyEnd, ExclusiveBegin, poolVars
    <3>3. queue = <<>> \/ status \in {"TERMINATING", "TERMINATED"}
      BY <1>3, <2>5, <2>7
         DEF DrainOK, CallerStep, Refuse, SharedBegin, SubmitCount, SubmitPush,
             SubmitNotify, SetMaxTaskCount, PauseBegin, ResumeBegin, ShutdownBegin,
             DestroyBegin, PauseOne, ResumeOne, TerminateOne,
             WalkEnd, ShutdownResumed, DrainLock, DrainWait, WaitEnd,
             ShutdownDrained, TerminateEnd, AddThread, RemoveBegin, RemoveNotify,
             DeleteWorker, JoinWorker, RemoveEnd, DestroyEnd, ExclusiveBegin, poolVars
    <3>. QED
      BY <3>2, <3>3 DEF DrainOK
  <2>. QED
    BY <2>6, <2>7
<1>4. ASSUME NEW c \in Callers, NEW op \in Ops, Call(c, op) PROVE DrainOK'
  <2>1. /\ cop' = [cop EXCEPT ![c] = op] /\ cpc' = [cpc EXCEPT ![c] = "called"]
        /\ UNCHANGED <<status, queue>>
    BY <1>4 DEF Call, poolVars
  <2>2. op = "destroy" /\ DestroyTerminatedOnly => status = "TERMINATED"
    BY <1>4 DEF Call
  <2>. QED
    BY <1>0, <2>1, <2>2 DEF DrainOK
<1>. QED
  BY <1>1, <1>2, <1>3, <1>4
     DEF Next, Gone, Spurious, WorkerSpurious, DrainSpurious, vars, poolVars

\* A pool that is not terminated by force leaves no task behind: its queue is
\* empty from the end of shutdown on (thread_pool::shutdown).
THEOREM ShutdownLeavesNoTask == Spec => []ShutdownDrains
<1>1. Init => DrainOK
  BY DEF Init, DrainOK
<1>2. IInv /\ DrainOK /\ [Next]_vars => DrainOK'
  BY DrainStep DEF IInv
<1>3. DrainOK => ShutdownDrains
  BY DEF DrainOK, ShutdownDrains
<1>. QED
  BY <1>1, <1>2, <1>3, Invariance, PTL DEF Spec

-----------------------------------------------------------------------------
(* The threads of a pool that is destroyed.                                *)

\* A thread that has not ended is in worker_list.
Listed ==
  \A w \in Workers : wpc[w] \notin {"new", "exited"} =>
    \E i \in 1..Len(workerList) : workerList[i] = w

\* The workers a caller deletes are the last ones of the list: those it has not
\* still to join have ended.
Deleted(c) == IF cop[c] = "remove_thread" THEN count[c] ELSE Len(workerList)
Joined(c) ==
  cpc[c] \in {"deleting", "join"} =>
    \A i \in 1..Len(workerList) : i > Len(workerList) - Deleted(c) =>
      \/ wpc[workerList[i]] = "exited"
      \/ \E j \in 1..Len(todo[c]) : todo[c][j] = workerList[i]

AllEnded == \A w \in Workers : wpc[w] \in {"new", "exited"}
EndsOK == /\ Listed /\ (\A c \in Callers : Joined(c))
          /\ (\E c \in Callers : cpc[c] = "destroyed") => AllEnded

\* Threads end for good, and only those that add_thread adds begin.
LEMMA ThreadsEnd ==
  ASSUME TypeOK, NewOK, [Next]_vars, \A c \in Callers : ~AddThread(c),
         NEW w \in Workers
  PROVE  wpc[w] \in {"new", "exited"} => wpc'[w] = wpc[w]
<1>1. wpc \in [Workers -> WorkerPC]
  BY DEF TypeOK
<1>2. ASSUME NEW v \in Workers, WorkerStep(v)
      PROVE  wpc[w] \in {"new", "exited"} => wpc'[w] = wpc[w]
  BY <1>1, <1>2
     DEF WorkerStep, WorkerTop, WorkerAcquire, WorkerLock, WorkerPre, WorkerWait,
         WorkerPost, WorkerPop, WorkerRun
<1>3. ASSUME NEW c \in Callers, CallerStep(c) PROVE wpc' = wpc
  BY <1>3
     DEF CallerStep, Refuse, SharedBegin, SubmitCount, SubmitPush,
         SubmitNotify, SetMaxTaskCount, PauseBegin, ResumeBegin, ShutdownBegin,
         TerminateBegin, DestroyBegin, PauseOne, ResumeOne, TerminateOne,
         WalkEnd, ShutdownResumed, DrainLock, DrainWait, WaitEnd,
         ShutdownDrained, TerminateEnd, RemoveBegin, RemoveNotify,
         DeleteWorker, JoinWorker, RemoveEnd, DestroyEnd, ExclusiveBegin, workerVars
<1>4. CASE UNCHANGED workerVars
  BY <1>4 DEF workerVars
<1>. QED
  BY <1>2, <1>3, <1>4
     DEF Next, Gone, Spurious, WorkerSpurious, DrainSpurious, Call, vars, workerVars

\* Of the callers only add_thread, remove_thread and the destructor change the
\* list, each alone with it.
LEMMA ListFrame ==
  ASSUME TypeOK, Control, NEW c \in Callers, CallerStep(c)
  PROVE  \/ AddThread(c) \/ RemoveEnd(c) \/ DestroyEnd(c)
         \/ UNCHANGED <<workerList, created>>
  BY DEF CallerStep, Refuse, SharedBegin, SubmitCount, SubmitPush,
         SubmitNotify, SetMaxTaskCount, PauseBegin, ResumeBegin, ShutdownBegin,
         TerminateBegin, DestroyBegin, PauseOne, ResumeOne, TerminateOne,
         WalkEnd, ShutdownResumed, DrainLock, DrainWait, WaitEnd,
         ShutdownDrained, TerminateEnd, RemoveBegin, RemoveNotify,
         DeleteWorker, JoinWorker, ExclusiveBegin, poolVars, ghostVars

\* Whoever changes the list finds no other caller deleting.
LEMMA ListAlone ==
  ASSUME Control, NEW c \in Callers, NEW d \in Callers, d # c,
         AddThread(c) \/ RemoveEnd(c) \/ DestroyEnd(c)
  PROVE  cpc[d] \notin {"deleting", "join"}
<1>1. CASE cop[d] = "destroy"
  <2>1. cop[c] = "none"
    BY <1>1 DEF Control, DestroyAlone
  <2>2. cpc[c] = "idle"
    BY <2>1 DEF Control, CallerOK
  <2>. QED
    BY <2>2 DEF AddThread, RemoveEnd, DestroyEnd, At
<1>2. CASE cop[d] # "destroy" /\ cpc[d] \in {"deleting", "join"}
  <2>1. InRemove(d) /\ listX = d
    BY <1>2 DEF Control, CallerOK, ListLock, InRemove
  <2>2. CASE AddThread(c)
    BY <2>1, <2>2, PoolAssumption DEF AddThread, PoolAssumption
  <2>3. CASE RemoveEnd(c)
    BY <2>1, <2>3 DEF RemoveEnd, At, Control, ListLock, InRemove
  <2>4. CASE DestroyEnd(c)
    BY <1>2, <2>4 DEF DestroyEnd, At, Control, CallerOK, DestroyAlone
  <2>. QED
    BY <2>2, <2>3, <2>4
<1>. QED
  BY <1>1, <1>2

\* The destructor has joined every thread.
LEMMA DestroyEnds ==
  ASSUME TypeOK, EndsOK, NEW c \in Callers, DestroyEnd(c)
  PROVE  AllEnded'
<1>0. Len(workerList) \in Nat
  BY LenProperties DEF TypeOK
<1>1. wpc' = wpc /\ cop[c] = "destroy" /\ cpc[c] = "deleting" /\ todo[c] = <<>>
  BY DEF DestroyEnd, At, workerVars
<1>2. Len(todo[c]) = 0
  BY <1>1, EmptySeq
<1>3. ASSUME NEW i \in 1..Len(workerList) PROVE wpc[workerList[i]] = "exited"
  <2>1. i > Len(workerList) - Deleted(c)
    BY <1>0, <1>1 DEF Deleted
  <2>. QED
    BY <1>1, <1>2, <2>1 DEF EndsOK, Joined
<1>. QED
  BY <1>1, <1>3 DEF EndsOK, Listed, AllEnded

LEMMA ListedStep ==
  TypeOK /\ Control /\ NewOK /\ EndsOK /\ [Next]_vars => Listed'
<1>. SUFFICES ASSUME TypeOK, Control, NewOK, EndsOK, [Next]_vars PROVE Listed'
  OBVIOUS
<1>0. /\ workerList \in Seq(Workers) /\ wpc \in [Workers -> WorkerPC]
      /\ created \in 0..MaxThreads /\ Len(workerList) \in Nat
  BY LenProperties DEF TypeOK
<1>1. CASE workerList' = workerList /\ \A c \in Callers : ~AddThread(c)
  BY <1>1, ThreadsEnd DEF EndsOK, Listed
<1>2. ASSUME NEW c \in Callers, AddThread(c) PROVE Listed'
  <2>1. PICK n \in 0..(MaxThreads - created) :
          /\ workerList' = workerList \o [i \in 1..n |-> created + i]
          /\ wpc' = [w \in Workers |-> IF w \in (created + 1)..(created + n) THEN "top"
                                        ELSE wpc[w]]
    BY <1>2 DEF AddThread
  <2>2. n \in Nat /\ [i \in 1..n |-> created + i] \in Seq(Workers)
    BY <1>0, PoolAssumption DEF Workers, PoolAssumption
  <2>3. /\ Len(workerList') = Len(workerList) + n
        /\ \A i \in 1..Len(workerList) : workerList'[i] = workerList[i]
        /\ \A i \in 1..n : workerList'[Len(workerList) + i] = created + i
    BY <1>0, <2>1, <2>2, ConcatProperties
  <2>. SUFFICES ASSUME NEW w \in Workers, wpc'[w] \notin {"new", "exited"}
                PROVE  \E i \in 1..Len(workerList') : workerList'[i] = w
    BY DEF Listed
  <2>4. CASE w \in (created + 1)..(created + n)
    <3>1. /\ w - created \in 1..n /\ created + (w - created) = w
          /\ Len(workerList) + (w - created) \in 1..Len(workerList')
      BY <1>0, <2>2, <2>3, <2>4 DEF Workers
    <3>. QED
      BY <2>3, <3>1
  <2>5. CASE w \notin (created + 1)..(created + n)
    <3>1. PICK i \in 1..Len(workerList) : workerList[i] = w
      BY <2>1, <2>5 DEF EndsOK, Listed
    <3>2. i \in 1..Len(workerList')
      BY <1>0, <2>2, <2>3
    <3>. QED
      BY <2>3, <3>1, <3>2
  <2>. QED
    BY <2>4, <2>5
<1>3. ASSUME NEW c \in Callers, RemoveEnd(c) PROVE Listed'
  <2>1. /\ workerList' = SubSeq(workerList, 1, Len(workerList) - count[c]) /\ wpc' = wpc
        /\ cop[c] = "remove_thread" /\ cpc[c] = "deleting" /\ todo[c] = <<>>
    BY <1>3 DEF RemoveEnd, At, workerVars
  <2>2. count[c] \in Nat /\ count[c] <= Len(workerList)
    BY <2>1 DEF TypeOK, Control, ListLock, InRemove
  <2>3. /\ Len(workerList') = Len(workerList) - count[c]
        /\ \A i \in 1..(Len(workerList) - count[c]) : workerList'[i] = workerList[i]
    BY <1>0, <2>1, <2>2, SubSeqProperties
  <2>. SUFFICES ASSUME NEW w \in Workers, wpc[w] \notin {"new", "exited"}
                PROVE  \E i \in 1..Len(workerList') : workerList'[i] = w
    BY <2>1 DEF Listed
  <2>4. PICK i \in 1..Len(workerList) : workerList[i] = w
    BY DEF EndsOK, Listed
  <2>5. Len(todo[c]) = 0
    BY <2>1, EmptySeq
  <2>6. i <= Len(workerList) - count[c]
    BY <1>0, <2>1, <2>2, <2>4, <2>5 DEF EndsOK, Joined, Deleted
  <2>7. i \in 1..(Len(workerList) - count[c])
    BY <1>0, <2>2, <2>6
  <2>. QED
    BY <2>3, <2>4, <2>7
<1>4. ASSUME NEW c \in Callers, DestroyEnd(c) PROVE Listed'
  BY <1>4, DestroyEnds DEF Listed, AllEnded
<1>5. ASSUME NEW w \in Workers, WorkerStep(w)
      PROVE  workerList' = workerList /\ \A c \in Callers : ~AddThread(c)
  <2>1. workerList' = workerList /\ cpc' = cpc
    BY <1>5, WorkerFrame
  <2>. QED
    BY <1>0, <2>1 DEF TypeOK, AddThread, Return
<1>. QED
  BY <1>1, <1>2, <1>3, <1>4, <1>5, ListFrame
     DEF Next, Gone, Spurious, WorkerSpurious, DrainSpurious, Call, vars, poolVars

\* One caller's own way to the deletion and through it.
LEMMA DeletionOwn ==
  ASSUME TypeOK, Control, NewOK, EndsOK, [Next]_vars, NEW c \in Callers, CallerStep(c),
         workerList' = workerList, \A d \in Callers : ~AddThread(d)
  PROVE  Joined(c)'
<1>0. /\ workerList \in Seq(Workers) /\ Len(workerList) \in Nat
      /\ \A i \in 1..Len(workerList) : workerList[i] \in Workers
      /\ cpc \in [Callers -> CallerPC] /\ cop \in [Callers -> AllOps \cup {"none"}]
      /\ todo \in [Callers -> Seq(Workers)] /\ count \in [Callers -> Nat]
  BY LenProperties, ElementOfSeq DEF TypeOK
<1>1. \A i \in 1..Len(workerList) :
        wpc[workerList[i]] = "exited" => wpc'[workerList[i]] = "exited"
  BY <1>0, ThreadsEnd
<1>2. CASE RemoveNotify(c)
  <2>1. /\ cop'[c] = cop[c] /\ cpc[c] = "removing" /\ todo'[c] = Suffix(count[c])
        /\ count' = count
    BY <1>0, <1>2 DEF RemoveNotify, Goto
  <2>2. cop[c] = "remove_thread" /\ count[c] <= Len(workerList) /\ count[c] \in Nat
    BY <1>0, <2>1 DEF Control, CallerOK, ListLock, InRemove
  <2>3. /\ Len(Suffix(count[c])) = count[c]
        /\ \A j \in 1..count[c] :
             Suffix(count[c])[j] = workerList[Len(workerList) - count[c] + j]
    <3>1. /\ Len(workerList) - count[c] + 1 \in Int
          /\ \A i \in (Len(workerList) - count[c] + 1)..Len(workerList) :
               workerList[i] \in Workers
          /\ Len(workerList) - (Len(workerList) - count[c] + 1) + 1 = count[c]
          /\ count[c] = 0 => ~(Len(workerList) - count[c] + 1 <= Len(workerList))
      BY <1>0, <2>2
    <3>2. /\ Len(Suffix(count[c])) =
               IF Len(workerList) - count[c] + 1 <= Len(workerList)
               THEN Len(workerList) - (Len(workerList) - count[c] + 1) + 1 ELSE 0
          /\ \A j \in 1..(Len(workerList) - (Len(workerList) - count[c] + 1) + 1) :
               Suffix(count[c])[j] = workerList[(Len(workerList) - count[c] + 1) + j - 1]
      <4>. DEFINE m == Len(workerList) - count[c] + 1
                  n == Len(workerList)
      <4>1. m \in Int /\ n \in Int /\ \A i \in m..n : workerList[i] \in Workers
        BY <1>0, <3>1
      <4>. HIDE DEF m, n
      <4>2. /\ Len(SubSeq(workerList, m, n)) = IF m <= n THEN n - m + 1 ELSE 0
            /\ \A j \in 1..(n - m + 1) : SubSeq(workerList, m, n)[j] = workerList[m + j - 1]
        BY <4>1, SubSeqProperties
      <4>. QED
        BY <4>2 DEF Suffix, m, n
    <3>3. Len(Suffix(count[c])) = count[c]
      BY <1>0, <2>2, <3>1, <3>2
    <3>4. ASSUME NEW j \in 1..count[c]
          PROVE  Suffix(count[c])[j] = workerList[Len(workerList) - count[c] + j]
      <4>1. (Len(workerList) - count[c] + 1) + j - 1 = Len(workerList) - count[c] + j
        BY <1>0, <2>2
      <4>. QED
        BY <3>1, <3>2, <4>1
    <3>. QED
      BY <3>3, <3>4
  <2>4. ASSUME NEW i \in 1..Len(workerList), i > Len(workerList) - count[c]
        PROVE  \E j \in 1..Len(todo'[c]) : todo'[c][j] = workerList[i]
    <3>1. /\ i - (Len(workerList) - count[c]) \in 1..count[c]
          /\ Len(workerList) - count[c] + (i - (Len(workerList) - count[c])) = i
      BY <1>0, <2>2, <2>4
    <3>. QED
      BY <2>1, <2>3, <3>1
  <2>. QED
    BY <2>1, <2>2, <2>4 DEF Joined, Deleted
<1>3. CASE DestroyBegin(c) \/ (TerminateEnd(c) /\ cop[c] = "destroy")
  <2>1. todo'[c] = workerList
    BY <1>0, <1>3 DEF DestroyBegin, TerminateEnd
  <2>. QED
    BY <2>1 DEF Joined
<1>4. CASE DeleteWorker(c)
  <2>1. cpc[c] = "deleting" /\ cop'[c] = cop[c] /\ UNCHANGED <<todo, count>>
    BY <1>0, <1>4 DEF DeleteWorker, Goto
  <2>. QED
    BY <1>1, <2>1 DEF EndsOK, Joined, Deleted
<1>5. CASE JoinWorker(c)
  <2>1. /\ cpc[c] = "join" /\ wpc[Head(todo[c])] = "exited" /\ todo'[c] = Tail(todo[c])
        /\ cop'[c] = cop[c] /\ count' = count
    BY <1>0, <1>5 DEF JoinWorker, Goto
  <2>2. todo[c] # <<>> /\ todo[c] \in Seq(Workers) /\ Len(todo[c]) \in Nat
    BY <1>0, <2>1, LenProperties DEF Control, JoinTodo
  <2>3. /\ Head(todo[c]) = todo[c][1] /\ Len(todo'[c]) = Len(todo[c]) - 1
        /\ \A j \in 1..Len(todo'[c]) : todo'[c][j] = todo[c][j + 1]
    BY <2>1, <2>2, HeadTailProperties
  <2>4. ASSUME NEW i \in 1..Len(workerList),
               NEW j \in 1..Len(todo[c]), todo[c][j] = workerList[i]
        PROVE  \/ wpc[workerList[i]] = "exited"
               \/ \E k \in 1..Len(todo'[c]) : todo'[c][k] = workerList[i]
    <3>1. CASE j = 1
      BY <2>1, <2>3, <2>4, <3>1
    <3>2. CASE j # 1
      <4>1. j - 1 \in 1..Len(todo'[c]) /\ (j - 1) + 1 = j
        BY <2>2, <2>3, <3>2
      <4>. QED
        BY <2>3, <2>4, <4>1
    <3>. QED
      BY <3>1, <3>2
  <2>5. Joined(c)
    BY DEF EndsOK
  <2>6. Deleted(c)' = Deleted(c)
    BY <2>1 DEF Deleted
  <2>7. ASSUME NEW i \in 1..Len(workerList), i > Len(workerList) - Deleted(c)
        PROVE  \/ wpc'[workerList[i]] = "exited"
               \/ \E k \in 1..Len(todo'[c]) : todo'[c][k] = workerList[i]
    BY <1>1, <2>1, <2>4, <2>5, <2>7 DEF Joined
  <2>. QED
    BY <2>6, <2>7 DEF Joined
<1>6. CASE /\ ~RemoveNotify(c) /\ ~DestroyBegin(c) /\ ~DeleteWorker(c) /\ ~JoinWorker(c)
           /\ ~(TerminateEnd(c) /\ cop[c] = "destroy")
  <2>1. cpc'[c] \in {"deleting", "join"} => cpc[c] \in {"deleting", "join"} /\ UNCHANGED callerVars
    BY <1>0, <1>6
       DEF CallerStep, Refuse, SharedBegin, SubmitCount, SubmitPush,
           SubmitNotify, SetMaxTaskCount, PauseBegin, ResumeBegin, ShutdownBegin,
           TerminateBegin, DestroyBegin, PauseOne, ResumeOne, TerminateOne,
           WalkEnd, ShutdownResumed, DrainLock, DrainWait, WaitEnd,
           ShutdownDrained, TerminateEnd, AddThread, RemoveBegin, RemoveNotify,
           DeleteWorker, JoinWorker, RemoveEnd, DestroyEnd, At, Goto, Return,
           ExclusiveBegin, callerVars
  <2>. QED
    BY <1>1, <2>1 DEF EndsOK, Joined, Deleted, callerVars
<1>. QED
  BY <1>2, <1>3, <1>4, <1>5, <1>6

LEMMA JoinedStep ==
  ASSUME TypeOK, Control, NewOK, EndsOK, [Next]_vars, NEW d \in Callers
  PROVE  Joined(d)'
<1>0. /\ \A i \in 1..Len(workerList) : workerList[i] \in Workers
      /\ cpc \in [Callers -> CallerPC] /\ cop \in [Callers -> AllOps \cup {"none"}]
  BY ElementOfSeq DEF TypeOK
<1>1. ASSUME cpc'[d] = cpc[d], cop'[d] = cop[d], todo'[d] = todo[d], count'[d] = count[d],
             workerList' = workerList, \A c \in Callers : ~AddThread(c)
      PROVE  Joined(d)'
  <2>1. \A i \in 1..Len(workerList) :
          wpc[workerList[i]] = "exited" => wpc'[workerList[i]] = "exited"
    BY <1>0, <1>1, ThreadsEnd
  <2>. QED
    BY <1>1, <2>1 DEF EndsOK, Joined, Deleted
<1>2. ASSUME NEW c \in Callers, AddThread(c) \/ RemoveEnd(c) \/ DestroyEnd(c)
      PROVE  Joined(d)'
  <2>1. cpc'[c] \notin {"deleting", "join"}
    BY <1>0, <1>2 DEF AddThread, RemoveEnd, DestroyEnd, Goto, Return
  <2>2. d # c => cpc'[d] \notin {"deleting", "join"}
    BY <1>2, ListAlone, CallerFrame DEF CallerStep
  <2>. QED
    BY <2>1, <2>2 DEF Joined
<1>3. ASSUME \A c \in Callers : ~AddThread(c) /\ ~RemoveEnd(c) /\ ~DestroyEnd(c),
             NEW c \in Callers, CallerStep(c)
      PROVE  Joined(d)'
  <2>1. workerList' = workerList
    BY <1>3, ListFrame
  <2>. QED
    BY <1>1, <1>3, <2>1, DeletionOwn, CallerFrame
<1>4. ASSUME \A c \in Callers : ~AddThread(c), NEW w \in Workers, WorkerStep(w)
      PROVE  Joined(d)'
  BY <1>1, <1>4, WorkerFrame
<1>5. ASSUME \A c \in Callers : ~AddThread(c), NEW c \in Callers, NEW op \in Ops, Call(c, op)
      PROVE  Joined(d)'
  <2>1. cpc' = [cpc EXCEPT ![c] = "called"] /\ cop' = [cop EXCEPT ![c] = op]
    BY <1>5 DEF Call
  <2>2. UNCHANGED <<todo, count, workerList>>
    BY <1>5 DEF Call, poolVars
  <2>3. CASE d = c
    BY <1>0, <2>1, <2>3 DEF Joined
  <2>4. CASE d # c
    BY <1>0, <1>1, <1>5, <2>1, <2>2, <2>4
  <2>. QED
    BY <2>3, <2>4
<1>6. ASSUME \A c \in Callers : ~AddThread(c), UNCHANGED <<callerVars, workerList>>
      PROVE  Joined(d)'
  BY <1>1, <1>6 DEF callerVars
<1>. QED
  BY <1>2, <1>3, <1>4, <1>5, <1>6
     DEF Next, Gone, Spurious, WorkerSpurious, DrainSpurious, vars, poolVars

LEMMA EndedStep ==
  ASSUME TypeOK, Control, NewOK, EndsOK, [Next]_vars, NEW d \in Callers,
         cpc'[d] = "destroyed"
  PROVE  AllEnded'
<1>0. cpc \in [Callers -> CallerPC] /\ cop \in [Callers -> AllOps \cup {"none"}]
  BY DEF TypeOK
<1>1. CASE DestroyEnd(d)
  BY <1>1, DestroyEnds
<1>2. CASE cpc[d] = "destroyed"
  <2>1. AllEnded
    BY <1>2 DEF EndsOK
  <2>2. \A c \in Callers : ~AddThread(c)
    BY <1>2 DEF AddThread, Control, CallerOK, DestroyAlone
  <2>. QED
    BY <2>1, <2>2, ThreadsEnd DEF AllEnded
<1>3. DestroyEnd(d) \/ cpc[d] = "destroyed"
  <2>1. ASSUME NEW c \in Callers, CallerStep(c) PROVE DestroyEnd(d) \/ cpc[d] = "destroyed"
    <3>1. CASE c # d
      BY <2>1, <3>1, CallerFrame
    <3>2. CASE c = d
      BY <1>0, <2>1, <3>2
         DEF CallerStep, Refuse, SharedBegin, SubmitCount, SubmitPush,
           SubmitNotify, SetMaxTaskCount, PauseBegin, ResumeBegin, ShutdownBegin,
           TerminateBegin, DestroyBegin, PauseOne, ResumeOne, TerminateOne,
           WalkEnd, ShutdownResumed, DrainLock, DrainWait, WaitEnd,
           ShutdownDrained, TerminateEnd, AddThread, RemoveBegin, RemoveNotify,
           DeleteWorker, JoinWorker, RemoveEnd, DestroyEnd, At, Goto, Return,
           ExclusiveBegin, callerVars
    <3>. QED
      BY <3>1, <3>2
  <2>2. ASSUME NEW w \in Workers, WorkerStep(w) PROVE cpc[d] = "destroyed"
    BY <2>2, WorkerFrame
  <2>3. ASSUME NEW c \in Callers, NEW op \in Ops, Call(c, op) PROVE cpc[d] = "destroyed"
    BY <1>0, <2>3 DEF Call
  <2>. QED
    BY <2>1, <2>2, <2>3
       DEF Next, Gone, Spurious, WorkerSpurious, DrainSpurious, vars, callerVars
<1>. QED
  BY <1>1, <1>2, <1>3

\* When the pool has been destroyed, none of its threads is left, whatever threads
\* were added and removed before (~thread_pool, ~worker_thread).
THEOREM DestroyedAlone == Spec => []NoOrphans
<1>1. IInv /\ EndsOK /\ [Next]_vars => EndsOK'
  BY ListedStep, JoinedStep, EndedStep DEF IInv, EndsOK
<1>2. Init => EndsOK
  <2>. SUFFICES ASSUME Init PROVE EndsOK
    OBVIOUS
  <2>1. Listed
    <3>1. Len(workerList) = InitialThreads
      BY PoolAssumption DEF Init, PoolAssumption
    <3>2. ASSUME NEW w \in Workers, wpc[w] \notin {"new", "exited"}
          PROVE  w \in 1..InitialThreads /\ workerList[w] = w
      BY <3>2, PoolAssumption DEF Init, Workers, PoolAssumption
    <3>. QED
      BY <3>1, <3>2 DEF Listed
  <2>. QED
    BY <2>1 DEF Init, EndsOK, Joined
<1>3. IInv /\ EndsOK => NoOrphans
  BY PoolAssumption DEF IInv, TypeOK, NewOK, EndsOK, AllEnded, NoOrphans, Workers, PoolAssumption
<1>. QED
  BY <1>1, <1>2, <1>3, Invariance, PTL DEF Spec
-----------------------------------------------------------------------------
(* Sleeping workers.                                                       *)

\* A worker between the lock of task_queue_mutex and the end of its tests owns
\* it, and only a worker inside task_queue_cv.wait sleeps.
QueueHeld ==
  \A w \in Workers : wpc[w] \in {"loop", "pre", "towait", "post"} => queueX = w
SleepersWait == \A w \in taskWaiters : wpc[w] = "waiting"

\* What a step of a worker leaves alone of the others.
LEMMA OtherWorkers ==
  ASSUME TypeOK, NEW w \in Workers, WorkerStep(w)
  PROVE  \A v \in Workers : v # w => wpc'[v] = wpc[v] /\ wstatus'[v] = wstatus[v]
<1>1. wpc \in [Workers -> WorkerPC] /\ wstatus \in [Workers -> WorkerStatus]
  BY DEF TypeOK
<1>. QED
  BY <1>1
     DEF WorkerStep, WorkerTop, WorkerAcquire, WorkerLock, WorkerPre, WorkerWait,
         WorkerPost, WorkerPop, WorkerRun, StoreStatus, workerVars

\* A caller moves no worker but those add_thread starts, and never locks the
\* task queue exclusively for longer than a step.
LEMMA CallersBeside ==
  ASSUME TypeOK, NewOK, NEW c \in Callers, CallerStep(c)
  PROVE  /\ \A w \in Workers : wpc'[w] = wpc[w] \/ (wpc[w] = "new" /\ wpc'[w] = "top")
         /\ queueX' = queueX /\ taskWaiters' \subseteq taskWaiters
         /\ created' >= created /\ created' \in Nat
<1>1. wpc \in [Workers -> WorkerPC] /\ created \in 0..MaxThreads /\ MaxThreads \in Nat
  BY PoolAssumption DEF TypeOK, PoolAssumption
<1>2. CASE AddThread(c)
  BY <1>1, <1>2 DEF AddThread, NewOK, Workers, cvVars
<1>3. CASE ~AddThread(c)
  <2>1. wpc' = wpc /\ created' = created /\ queueX' = queueX
    BY <1>3
       DEF CallerStep, Refuse, SharedBegin, SubmitCount, SubmitPush,
           SubmitNotify, SetMaxTaskCount, PauseBegin, ResumeBegin,
           ShutdownBegin, TerminateBegin, DestroyBegin, PauseOne, ResumeOne,
           TerminateOne, WalkEnd, ShutdownResumed, DrainLock, DrainWait,
           WaitEnd, ShutdownDrained, TerminateEnd, RemoveBegin, RemoveNotify,
           DeleteWorker, JoinWorker, RemoveEnd, DestroyEnd, ExclusiveBegin,
           lockVars, workerVars, ghostVars
  <2>2. taskWaiters' \subseteq taskWaiters
    BY <1>3
       DEF CallerStep, Refuse, SharedBegin, SubmitCount, SubmitPush,
           SubmitNotify, SetMaxTaskCount, PauseBegin, ResumeBegin,
           ShutdownBegin, TerminateBegin, DestroyBegin, PauseOne, ResumeOne,
           TerminateOne, WalkEnd, ShutdownResumed, DrainLock, DrainWait,
           WaitEnd, ShutdownDrained, TerminateEnd, RemoveBegin, RemoveNotify,
           DeleteWorker, JoinWorker, RemoveEnd, DestroyEnd, ExclusiveBegin,
           NotifyOne, NotifyAll, cvVars
  <2>. QED
    BY <1>1, <2>1, <2>2
<1>. QED
  BY <1>2, <1>3

LEMMA QueueHeldStep == TypeOK /\ NewOK /\ QueueHeld /\ [Next]_vars => QueueHeld'
<1>. SUFFICES ASSUME TypeOK, NewOK, QueueHeld, [Next]_vars PROVE QueueHeld'
  OBVIOUS
<1>1. /\ wpc \in [Workers -> WorkerPC] /\ wstatus \in [Workers -> WorkerStatus]
      /\ None \notin Workers
  BY PoolAssumption DEF TypeOK, PoolAssumption, Workers
<1>2. ASSUME NEW w \in Workers, WorkerStep(w) PROVE QueueHeld'
  <2>1. wpc'[w] \in {"loop", "pre", "towait", "post"} => queueX' = w
    BY <1>1, <1>2
       DEF QueueHeld, WorkerStep, WorkerTop, WorkerAcquire, WorkerLock, WorkerPre,
           WorkerWait, WorkerPost, WorkerPop, WorkerRun, TopSwitch, PreSwitch,
           PostSwitch, Resumed, WorkerStatus, lockVars
  <2>2. queueX' = queueX \/ queueX = None \/ queueX = w
    BY <1>1, <1>2
       DEF QueueHeld, WorkerStep, WorkerTop, WorkerAcquire, WorkerLock, WorkerPre,
           WorkerWait, WorkerPost, WorkerPop, WorkerRun, QueueFreeX, lockVars
  <2>. QED
    BY <1>1, <1>2, <2>1, <2>2, OtherWorkers DEF QueueHeld
<1>3. ASSUME NEW c \in Callers, CallerStep(c) PROVE QueueHeld'
  BY <1>3, CallersBeside DEF QueueHeld
<1>4. ASSUME UNCHANGED <<wpc, queueX>> PROVE QueueHeld'
  BY <1>4 DEF QueueHeld
<1>. QED
  BY <1>2, <1>3, <1>4
     DEF Next, Gone, Spurious, WorkerSpurious, DrainSpurious, Call, vars,
         workerVars, lockVars

LEMMA SleepersStep == TypeOK /\ NewOK /\ SleepersWait /\ [Next]_vars => SleepersWait'
<1>. SUFFICES ASSUME TypeOK, NewOK, SleepersWait, [Next]_vars PROVE SleepersWait'
  OBVIOUS
<1>1. wpc \in [Workers -> WorkerPC] /\ taskWaiters \subseteq Workers
  BY DEF TypeOK
<1>2. ASSUME NEW w \in Workers, WorkerStep(w) PROVE SleepersWait'
  <2>1. CASE WorkerWait(w)
    BY <1>1, <2>1 DEF WorkerWait, SleepersWait
  <2>2. CASE ~WorkerWait(w)
    <3>1. taskWaiters' = taskWaiters /\ w \notin taskWaiters
      BY <1>1, <1>2, <2>2
         DEF SleepersWait, WorkerStep, WorkerTop, WorkerAcquire, WorkerLock,
             WorkerPre, WorkerPost, WorkerPop, WorkerRun, cvVars
    <3>. QED
      BY <1>1, <1>2, <3>1, OtherWorkers DEF SleepersWait
  <2>. QED
    BY <2>1, <2>2
<1>3. ASSUME NEW c \in Callers, CallerStep(c) PROVE SleepersWait'
  BY <1>1, <1>3, CallersBeside DEF SleepersWait
<1>4. ASSUME UNCHANGED wpc, taskWaiters' \subseteq taskWaiters PROVE SleepersWait'
  BY <1>4 DEF SleepersWait
<1>. QED
  BY <1>2, <1>3, <1>4
     DEF Next, Gone, Spurious, WorkerSpurious, DrainSpurious, Call, vars,
         workerVars, cvVars

\* Without pause and remove_thread: nobody is PAUSED, a worker is told to end
\* only by a pool that ends, and one that goes to sleep has seen the queue empty.
Plain == {"pause", "remove_thread"} \cap Ops = {}
Ending == {"TERMINATING", "TERMINATED"}
PlainOK ==
  Plain =>
    /\ status # "PAUSED"
    /\ \A c \in Callers : ~At(c, "shutdown", "resuming")
    /\ \A c \in Callers : cpc[c] \in {"deleting", "join"} => status = "TERMINATED"
    /\ \A w \in Workers :
         /\ wstatus[w] # "PAUSED"
         /\ wpc[w] \notin {"pre", "sem_top", "sem_pre", "sem_post", "lock_pre", "lock_post"}
         /\ wstatus[w] \in Ending \/ wpc[w] = "exited" => status \in Ending
         /\ wpc[w] = "towait" => queue = <<>>

LEMMA PlainStep ==
  TypeOK /\ Control /\ NewOK /\ QueueHeld /\ DrainOK /\ PlainOK /\ [Next]_vars => PlainOK'
<1>. SUFFICES ASSUME TypeOK, Control, NewOK, QueueHeld, DrainOK, PlainOK, Plain, [Next]_vars
              PROVE  PlainOK'
  BY DEF PlainOK, Plain
<1>0. /\ wpc \in [Workers -> WorkerPC] /\ wstatus \in [Workers -> WorkerStatus]
      /\ cpc \in [Callers -> CallerPC] /\ cop \in [Callers -> AllOps \cup {"none"}]
      /\ todo \in [Callers -> Seq(Workers)] /\ None \notin Workers
  BY PoolAssumption DEF TypeOK, PoolAssumption, Workers
<1>1. ASSUME NEW w \in Workers, WorkerStep(w) PROVE PlainOK'
  <2>1. status' = status /\ cpc' = cpc /\ cop' = cop
    BY <1>1, WorkerFrame
  <2>2. /\ wstatus'[w] # "PAUSED"
        /\ wpc'[w] \notin {"pre", "sem_top", "sem_pre", "sem_post", "lock_pre", "lock_post"}
        /\ wstatus'[w] \in Ending \/ wpc'[w] = "exited" => status \in Ending
    BY <1>0, <1>1
       DEF PlainOK, Ending, WorkerStep, WorkerTop, WorkerAcquire, WorkerLock, WorkerPre,
           WorkerWait, WorkerPost, WorkerPop, WorkerRun, TopSwitch, PreSwitch,
           PostSwitch, Resumed, StoreStatus, WorkerStatus, workerVars
  <2>3. wpc'[w] = "towait" => queue' = <<>>
    BY <1>0, <1>1
       DEF PlainOK, WorkerStep, WorkerTop, WorkerAcquire, WorkerLock, WorkerPre,
           WorkerWait, WorkerPost, WorkerPop, WorkerRun, TopSwitch, PreSwitch,
           PostSwitch, Resumed, WorkerStatus, poolVars
  <2>4. queue = <<>> => queue' = <<>>
    BY <1>1
       DEF WorkerStep, WorkerTop, WorkerAcquire, WorkerLock, WorkerPre,
           WorkerWait, WorkerPost, WorkerPop, WorkerRun, poolVars
  <2>5. \A v \in Workers : v # w => wpc'[v] = wpc[v] /\ wstatus'[v] = wstatus[v]
    BY <1>1, OtherWorkers
  <2>. QED
    BY <2>1, <2>2, <2>3, <2>4, <2>5 DEF PlainOK, At
<1>2. ASSUME NEW c \in Callers, CallerStep(c) PROVE PlainOK'
  <2>1. /\ cop[c] \notin {"pause", "remove_thread"}
        /\ cpc[c] \notin {"pausing", "removing"} /\ status # "PAUSED"
        /\ cpc[c] \in {"deleting", "join"} => status = "TERMINATED"
        /\ cpc[c] = "terminating" => status = "TERMINATING"
        /\ cop[c] = "none" => cpc[c] = "idle"
        /\ cpc[c] = "idle" => cop[c] = "none"
        /\ ~At(c, "shutdown", "resuming")
    BY DEF PlainOK, Plain, DrainOK, Control, CallerOK
  <2>2. status' # "PAUSED" /\ (status \in Ending => status' \in Ending)
    BY <1>2, <2>1
       DEF Ending, CallerStep, Refuse, SharedBegin, SubmitCount, SubmitPush,
           SubmitNotify, SetMaxTaskCount, PauseBegin, ResumeBegin,
           ShutdownBegin, TerminateBegin, DestroyBegin, PauseOne, ResumeOne,
           TerminateOne, WalkEnd, ShutdownResumed, DrainLock, DrainWait,
           WaitEnd, ShutdownDrained, TerminateEnd, AddThread, RemoveBegin,
           RemoveNotify, DeleteWorker, JoinWorker, RemoveEnd, DestroyEnd,
           ExclusiveBegin, At, poolVars
  <2>3. ASSUME NEW d \in Callers PROVE ~At(d, "shutdown", "resuming")'
    <3>1. CASE d = c
      BY <1>0, <1>2, <2>1, <3>1
         DEF At, CallerStep, Refuse, SharedBegin, SubmitCount, SubmitPush,
             SubmitNotify, SetMaxTaskCount, PauseBegin, ResumeBegin,
             ShutdownBegin, TerminateBegin, DestroyBegin, PauseOne, ResumeOne,
             TerminateOne, WalkEnd, ShutdownResumed, DrainLock, DrainWait,
             WaitEnd, ShutdownDrained, TerminateEnd, AddThread, RemoveBegin,
             RemoveNotify, DeleteWorker, JoinWorker, RemoveEnd, DestroyEnd,
             ExclusiveBegin, Goto, Return, Shared, callerVars
    <3>2. CASE d # c
      BY <1>2, <3>2, CallerFrame DEF At, PlainOK
    <3>. QED
      BY <3>1, <3>2
  <2>4. ASSUME NEW d \in Callers, cpc'[d] \in {"deleting", "join"}
        PROVE  status' = "TERMINATED"
    <3>1. CASE d = c
      BY <1>0, <1>2, <2>1, <2>4, <3>1
         DEF CallerStep, Refuse, SharedBegin, SubmitCount, SubmitPush,
             SubmitNotify, SetMaxTaskCount, PauseBegin, ResumeBegin,
             ShutdownBegin, TerminateBegin, DestroyBegin, PauseOne, ResumeOne,
             TerminateOne, WalkEnd, ShutdownResumed, DrainLock, DrainWait,
             WaitEnd, ShutdownDrained, TerminateEnd, AddThread, RemoveBegin,
             RemoveNotify, DeleteWorker, JoinWorker, RemoveEnd, DestroyEnd,
             ExclusiveBegin, Goto, Return, At, callerVars, poolVars
    <3>2. CASE d # c
      <4>1. cpc[d] \in {"deleting", "join"}
        BY <1>2, <2>4, <3>2, CallerFrame
      <4>2. cop[d] = "destroy"
        BY <4>1 DEF Control, CallerOK, DrainOK, Plain
      <4>3. cpc[c] = "idle"
        BY <3>2, <4>2, <2>1 DEF Control, DestroyAlone
      <4>. QED
        BY <1>2, <4>3
           DEF CallerStep, Refuse, SharedBegin, SubmitCount, SubmitPush,
               SubmitNotify, SetMaxTaskCount, PauseBegin, ResumeBegin,
               ShutdownBegin, TerminateBegin, DestroyBegin, PauseOne, ResumeOne,
               TerminateOne, WalkEnd, ShutdownResumed, DrainLock, DrainWait,
               WaitEnd, ShutdownDrained, TerminateEnd, AddThread, RemoveBegin,
               RemoveNotify, DeleteWorker, JoinWorker, RemoveEnd, DestroyEnd,
               ExclusiveBegin, At
    <3>. QED
      BY <3>1, <3>2
  <2>5. ASSUME NEW w \in Workers
        PROVE  /\ wstatus'[w] # "PAUSED"
               /\ wstatus'[w] \in Ending => wstatus[w] \in Ending \/ status \in Ending
    BY <1>0, <1>2, <2>1
       DEF PlainOK, Ending, CallerStep, TerminateWorker, Refuse, SharedBegin, SubmitCount,
           SubmitPush, SubmitNotify, SetMaxTaskCount, PauseBegin, ResumeBegin,
           ShutdownBegin, TerminateBegin, DestroyBegin, PauseOne, ResumeOne,
           TerminateOne, WalkEnd, ShutdownResumed, DrainLock, DrainWait,
           WaitEnd, ShutdownDrained, TerminateEnd, AddThread, RemoveBegin,
           RemoveNotify, DeleteWorker, JoinWorker, RemoveEnd, DestroyEnd, At,
           ExclusiveBegin, workerVars
  <2>6. ASSUME NEW w \in Workers, wpc[w] = "towait" PROVE queue' = <<>>
    <3>1. queue = <<>> /\ queueX = w
      BY <2>6 DEF PlainOK, QueueHeld
    <3>2. ~SubmitPush(c)
      BY <1>0, <3>1 DEF SubmitPush, QueueFreeX
    <3>. QED
      BY <1>2, <3>1, <3>2
         DEF CallerStep, Refuse, SharedBegin, SubmitCount,
             SubmitNotify, SetMaxTaskCount, PauseBegin, ResumeBegin,
             ShutdownBegin, TerminateBegin, DestroyBegin, PauseOne, ResumeOne,
             TerminateOne, WalkEnd, ShutdownResumed, DrainLock, DrainWait,
             WaitEnd, ShutdownDrained, TerminateEnd, AddThread, RemoveBegin,
             RemoveNotify, DeleteWorker, JoinWorker, RemoveEnd, DestroyEnd,
             ExclusiveBegin, poolVars
  <2>7. \A w \in Workers : wpc'[w] = wpc[w] \/ (wpc[w] = "new" /\ wpc'[w] = "top")
    BY <1>2, CallersBeside
  <2>8. ASSUME NEW w \in Workers
        PROVE  /\ wpc'[w] \notin {"pre", "sem_top", "sem_pre", "sem_post", "lock_pre",
                                  "lock_post"}
               /\ wstatus'[w] \in Ending \/ wpc'[w] = "exited" => status' \in Ending
               /\ wpc'[w] = "towait" => queue' = <<>>
    BY <2>2, <2>5, <2>6, <2>7 DEF PlainOK
  <2>. QED
    BY <2>2, <2>3, <2>4, <2>5, <2>8 DEF PlainOK
<1>3. ASSUME NEW c \in Callers, NEW op \in Ops, Call(c, op) PROVE PlainOK'
  <2>1. UNCHANGED <<status, queue, wpc, wstatus>>
    BY <1>3 DEF Call, poolVars, workerVars
  <2>2. \A d \in Callers : cpc'[d] \in {"resuming", "deleting", "join"}
                             => cpc'[d] = cpc[d] /\ cop'[d] = cop[d]
    BY <1>0, <1>3 DEF Call
  <2>. QED
    BY <2>1, <2>2 DEF PlainOK, At
<1>4. ASSUME UNCHANGED <<status, queue, wpc, wstatus, cpc, cop>> PROVE PlainOK'
  BY <1>4 DEF PlainOK, At
<1>. QED
  BY <1>1, <1>2, <1>3, <1>4
     DEF Next, Gone, Spurious, WorkerSpurious, DrainSpurious, vars, poolVars,
         workerVars, callerVars

\* The count behind NoSleeperBesideTask.
Notifiers == {c \in Callers : cpc[c] = "sub_notify"}
Enough == Len(queue) <= Cardinality(OnTheWay) + Cardinality(Notifiers)
Open == {"RUNNING", "SHUTDOWN"}
WokenOK == Plain /\ status \in Open /\ taskWaiters # {} => Enough

CountsOK ==
  /\ IsFiniteSet(OnTheWay) /\ Cardinality(OnTheWay) \in Nat
  /\ IsFiniteSet(Notifiers) /\ Cardinality(Notifiers) \in Nat
  /\ OnTheWay \subseteq Workers /\ Len(queue) \in Nat

LEMMA Counts == TypeOK => CountsOK
<1>. SUFFICES ASSUME TypeOK PROVE CountsOK
  OBVIOUS
<1>1. created \in 0..MaxThreads /\ MaxThreads \in Nat
  BY PoolAssumption DEF TypeOK, PoolAssumption
<1>2. OnTheWay \subseteq 1..created
  BY DEF OnTheWay
<1>3. OnTheWay \subseteq Workers
  BY <1>1, <1>2 DEF Workers
<1>4. IsFiniteSet(1..created)
  BY <1>1, FS_Interval
<1>5. IsFiniteSet(OnTheWay)
  BY <1>2, <1>4, FS_Subset
<1>6. IsFiniteSet(Notifiers)
  BY CountedFinite DEF Notifiers
<1>7. Len(queue) \in Nat
  BY LenProperties DEF TypeOK
<1>. QED
  BY <1>3, <1>5, <1>6, <1>7, FS_CardinalityType DEF CountsOK

LEMMA CountsNext == TypeOK' => CountsOK'
<1>1. (TypeOK => CountsOK)'
  BY Counts, PTL
<1>. QED
  BY <1>1

\* With no fewer on their way and no more tasks, there still are enough.
LEMMA EnoughKept ==
  ASSUME TypeOK, TypeOK', Enough, OnTheWay \subseteq OnTheWay',
         Notifiers \subseteq Notifiers', queue' = queue
  PROVE  Enough'
<1>1. /\ IsFiniteSet(OnTheWay') /\ IsFiniteSet(Notifiers')
      /\ Cardinality(OnTheWay') \in Nat /\ Cardinality(Notifiers') \in Nat
  BY CountsNext DEF CountsOK
<1>2. /\ Cardinality(OnTheWay) <= Cardinality(OnTheWay')
      /\ Cardinality(Notifiers) <= Cardinality(Notifiers')
  BY <1>1, FS_Subset
<1>3. Cardinality(OnTheWay) \in Nat /\ Cardinality(Notifiers) \in Nat /\ Len(queue) \in Nat
  BY Counts DEF CountsOK
<1>4. Len(queue) <= Cardinality(OnTheWay) + Cardinality(Notifiers) /\ Len(queue') = Len(queue)
  BY DEF Enough
<1>5. Len(queue') <= Cardinality(OnTheWay') + Cardinality(Notifiers')
  BY <1>1, <1>2, <1>3, <1>4
<1>. QED
  BY <1>5 DEF Enough

\* The workers on their way after a worker's step.
LEMMA WorkerOnTheWay ==
  ASSUME TypeOK, NeverThrows', NEW w \in Workers, WorkerStep(w), ~WorkerPop(w),
         ~WorkerWait(w), wpc'[w] # "exited"
  PROVE  OnTheWay \subseteq OnTheWay' /\ queue' = queue /\ taskWaiters' = taskWaiters
<1>1. wpc \in [Workers -> WorkerPC] /\ wstatus \in [Workers -> WorkerStatus]
  BY DEF TypeOK
<1>2. queue' = queue /\ taskWaiters' = taskWaiters
  BY DEF WorkerStep, WorkerTop, WorkerAcquire, WorkerLock, WorkerPre, WorkerPost,
         WorkerRun, poolVars, cvVars
<1>3. created' = created /\ created \in Nat
  BY WorkerFrame, PoolAssumption DEF TypeOK, PoolAssumption
<1>4. wpc'[w] # "run" /\ wpc'[w] # "threw"
  BY <1>1 DEF NeverThrows, WorkerStep, WorkerTop, WorkerAcquire, WorkerLock, WorkerPre,
              WorkerPost, WorkerRun, TopSwitch, PreSwitch, PostSwitch, Resumed,
              WorkerStatus
<1>5. \A v \in OnTheWay : wpc'[v] \notin {"run", "exited", "threw"}
  <2>. SUFFICES ASSUME NEW v \in OnTheWay PROVE wpc'[v] \notin {"run", "exited", "threw"}
    OBVIOUS
  <2>1. v \in Workers
    BY Counts DEF CountsOK
  <2>. QED
    BY <1>4, <2>1, OtherWorkers DEF OnTheWay
<1>. QED
  BY <1>2, <1>3, <1>5 DEF OnTheWay

LEMMA WokenStep ==
  /\ TypeOK /\ TypeOK' /\ NewOK /\ NeverThrows' /\ Control /\ DrainOK
  /\ QueueHeld /\ SleepersWait /\ PlainOK /\ PlainOK' /\ WokenOK /\ [Next]_vars
  => WokenOK'
<1>. SUFFICES ASSUME TypeOK, TypeOK', NewOK, NeverThrows', Control, DrainOK,
                     QueueHeld, SleepersWait, PlainOK, PlainOK', WokenOK, [Next]_vars,
                     Plain, status' \in Open, taskWaiters' # {}
              PROVE  Enough'
  BY DEF WokenOK, Plain
<1>0. /\ wpc \in [Workers -> WorkerPC] /\ cpc \in [Callers -> CallerPC]
      /\ queue \in Seq(1..submitted) /\ Len(queue) \in Nat
      /\ taskWaiters \subseteq Workers /\ created \in Nat
  <2>1. created \in Nat
    BY PoolAssumption DEF TypeOK, PoolAssumption
  <2>2. Len(queue) \in Nat
    BY LenProperties DEF TypeOK
  <2>. QED
    BY <2>1, <2>2 DEF TypeOK
<1>. DEFINE N == Cardinality(OnTheWay)
            P == Cardinality(Notifiers)
<1>n. N \in Nat /\ P \in Nat /\ IsFiniteSet(OnTheWay) /\ IsFiniteSet(Notifiers)
  BY Counts DEF CountsOK
<1>s. status \in Open
  <2>1. ASSUME NEW c \in Callers, CallerStep(c), status \notin Open PROVE FALSE
    <3>1. status \in Ending
      BY <2>1 DEF TypeOK, PoolStatus, PlainOK, Open, Ending
    <3>2. status' \in Ending
      BY <2>1, <3>1
         DEF Ending, CallerStep, Refuse, SharedBegin, SubmitCount, SubmitPush,
             SubmitNotify, SetMaxTaskCount, PauseBegin, ResumeBegin,
             ShutdownBegin, TerminateBegin, DestroyBegin, PauseOne, ResumeOne,
             TerminateOne, WalkEnd, ShutdownResumed, DrainLock, DrainWait,
             WaitEnd, ShutdownDrained, TerminateEnd, AddThread, RemoveBegin,
             RemoveNotify, DeleteWorker, JoinWorker, RemoveEnd, DestroyEnd,
             ExclusiveBegin, At, PlainOK, poolVars
    <3>. QED
      BY <3>2 DEF Ending, Open
  <2>2. ASSUME NEW w \in Workers, WorkerStep(w) PROVE status' = status
    BY <2>2, WorkerFrame
  <2>. QED
    BY <2>1, <2>2
       DEF Next, Gone, Spurious, WorkerSpurious, DrainSpurious, Call, vars, poolVars
<1>k. ASSUME taskWaiters # {}, OnTheWay \subseteq OnTheWay',
             Notifiers \subseteq Notifiers', queue' = queue
      PROVE  Enough'
  <2>1. Enough
    BY <1>s, <1>k DEF WokenOK
  <2>. QED
    BY <1>k, <2>1, EnoughKept
<1>1. ASSUME NEW w \in Workers, WorkerStep(w) PROVE Enough'
  <2>1. cpc' = cpc /\ created' = created /\ status' = status
    BY <1>1, WorkerFrame
  <2>2. Notifiers' = Notifiers
    BY <2>1 DEF Notifiers
  <2>3. CASE WorkerPop(w)
    <3>1. taskWaiters' = taskWaiters /\ queue # <<>> /\ queue' = Tail(queue)
      BY <2>3 DEF WorkerPop, TakeFront
    <3>2. w \in OnTheWay /\ OnTheWay' = OnTheWay \ {w}
      <4>1. w \notin taskWaiters /\ wpc[w] = "loop" /\ w \in 1..created
        BY <1>0, <2>3 DEF WorkerPop, SleepersWait, NewOK, Workers
      <4>2. wpc' = [wpc EXCEPT ![w] = "run"]
        BY <2>3 DEF WorkerPop
      <4>. QED
        BY <1>0, <2>1, <3>1, <4>1, <4>2 DEF OnTheWay
    <3>3. Cardinality(OnTheWay') = N - 1
      BY <1>n, <3>2, FS_RemoveElement
    <3>4. Len(queue') = Len(queue) - 1
      BY <1>0, <3>1, HeadTailProperties
    <3>5. Len(queue) <= N + P
      BY <1>s, <3>1 DEF WokenOK, Enough
    <3>6. Cardinality(Notifiers') = P
      BY <2>2
    <3>. HIDE DEF N, P
    <3>7. Len(queue') <= Cardinality(OnTheWay') + Cardinality(Notifiers')
      BY <1>0, <1>n, <3>3, <3>4, <3>5, <3>6
    <3>. QED
      BY <3>7 DEF Enough
  <2>4. CASE WorkerWait(w)
    <3>1. queue' = <<>>
      BY <2>4 DEF WorkerWait, PlainOK, poolVars
    <3>2. Cardinality(OnTheWay') \in Nat /\ Cardinality(Notifiers') \in Nat
      BY CountsNext DEF CountsOK
    <3>3. Len(queue') <= Cardinality(OnTheWay') + Cardinality(Notifiers')
      BY <3>1, <3>2
    <3>. QED
      BY <3>3 DEF Enough
  <2>5. CASE ~WorkerPop(w) /\ ~WorkerWait(w)
    <3>1. wpc'[w] # "exited"
      BY <2>1, <1>s DEF PlainOK, Ending, Open
    <3>2. OnTheWay \subseteq OnTheWay' /\ queue' = queue /\ taskWaiters' = taskWaiters
      BY <1>1, <2>5, <3>1, WorkerOnTheWay
    <3>. QED
      BY <1>k, <2>2, <3>2
  <2>. QED
    BY <2>3, <2>4, <2>5
<1>2. ASSUME NEW c \in Callers, CallerStep(c) PROVE Enough'
  <2>1. /\ \A w \in Workers : wpc'[w] = wpc[w] \/ (wpc[w] = "new" /\ wpc'[w] = "top")
        /\ taskWaiters' \subseteq taskWaiters
        /\ created' >= created /\ created' \in Nat
    BY <1>2, CallersBeside
  <2>2. taskWaiters # {}
    BY <2>1
  <2>3. OnTheWay \subseteq OnTheWay'
    <3>. SUFFICES ASSUME NEW v \in OnTheWay PROVE v \in OnTheWay'
      OBVIOUS
    <3>1. v \in Workers /\ v \in 1..created
      BY Counts DEF CountsOK, OnTheWay
    <3>. QED
      BY <1>0, <2>1, <3>1 DEF OnTheWay
  <2>4. CASE SubmitPush(c)
    <3>1. queue' = Append(queue, submitted + 1) /\ cpc[c] = "sub_push"
      BY <2>4 DEF SubmitPush
    <3>2. Notifiers' = Notifiers \cup {c} /\ c \notin Notifiers
      BY <1>0, <2>4 DEF SubmitPush, Goto, Notifiers
    <3>3. Cardinality(Notifiers') = P + 1
      BY <1>n, <3>2, FS_AddElement
    <3>4. Len(queue') = Len(queue) + 1
      BY <1>0, <3>1
    <3>5. Len(queue) <= N + P
      BY <1>s, <2>2 DEF WokenOK, Enough
    <3>6. OnTheWay' = OnTheWay
      BY <2>4 DEF SubmitPush, OnTheWay, workerVars, cvVars
    <3>7. Cardinality(OnTheWay') = N
      BY <3>6
    <3>. HIDE DEF N, P
    <3>8. Len(queue') <= Cardinality(OnTheWay') + Cardinality(Notifiers')
      BY <1>0, <1>n, <3>3, <3>4, <3>5, <3>7
    <3>. QED
      BY <3>8 DEF Enough
  <2>5. CASE SubmitNotify(c)
    <3>1. PICK w \in taskWaiters : taskWaiters' = taskWaiters \ {w}
      BY <2>2, <2>5 DEF SubmitNotify, NotifyOne
    <3>2. wpc' = wpc /\ created' = created /\ queue' = queue
      BY <2>5 DEF SubmitNotify, workerVars, ghostVars, poolVars
    <3>3. w \in Workers /\ wpc[w] = "waiting" /\ w \in 1..created
      BY <1>0, <3>1 DEF SleepersWait, NewOK, Workers
    <3>4. OnTheWay' = OnTheWay \cup {w} /\ w \notin OnTheWay
      BY <3>1, <3>2, <3>3 DEF OnTheWay
    <3>5. Cardinality(OnTheWay') = N + 1
      BY <1>n, <3>4, FS_AddElement
    <3>6. c \in Notifiers /\ Notifiers' = Notifiers \ {c}
      BY <1>0, <2>5 DEF SubmitNotify, Return, Notifiers
    <3>7. Cardinality(Notifiers') = P - 1
      BY <1>n, <3>6, FS_RemoveElement
    <3>8. Len(queue) <= N + P
      BY <1>s, <2>2 DEF WokenOK, Enough
    <3>9. Len(queue') = Len(queue)
      BY <3>2
    <3>. HIDE DEF N, P
    <3>10. Len(queue') <= Cardinality(OnTheWay') + Cardinality(Notifiers')
      BY <1>0, <1>n, <3>5, <3>7, <3>8, <3>9
    <3>. QED
      BY <3>10 DEF Enough
  <2>6. CASE ~SubmitPush(c) /\ ~SubmitNotify(c)
    <3>1. queue' = queue
      BY <1>2, <2>6
         DEF CallerStep, Refuse, SharedBegin, SubmitCount,
             SetMaxTaskCount, PauseBegin, ResumeBegin,
             ShutdownBegin, TerminateBegin, DestroyBegin, PauseOne, ResumeOne,
             TerminateOne, WalkEnd, ShutdownResumed, DrainLock, DrainWait,
             WaitEnd, ShutdownDrained, TerminateEnd, AddThread, RemoveBegin,
             RemoveNotify, DeleteWorker, JoinWorker, RemoveEnd, DestroyEnd,
             ExclusiveBegin, poolVars
    <3>2. cpc[c] # "sub_notify"
      BY <1>2, <2>6
         DEF CallerStep, Refuse, SharedBegin, SubmitCount,
             SetMaxTaskCount, PauseBegin, ResumeBegin,
             ShutdownBegin, TerminateBegin, DestroyBegin, PauseOne, ResumeOne,
             TerminateOne, WalkEnd, ShutdownResumed, DrainLock, DrainWait,
             WaitEnd, ShutdownDrained, TerminateEnd, AddThread, RemoveBegin,
             RemoveNotify, DeleteWorker, JoinWorker, RemoveEnd, DestroyEnd,
             ExclusiveBegin, At, Control, CallerOK, Refused
    <3>3. Notifiers \subseteq Notifiers'
      BY <1>2, <3>2, CallerFrame DEF Notifiers
    <3>. QED
      BY <1>k, <2>2, <2>3, <3>1, <3>3
  <2>. QED
    BY <2>4, <2>5, <2>6
<1>3. ASSUME NEW c \in Callers, NEW op \in Ops, Call(c, op) PROVE Enough'
  <2>1. UNCHANGED <<queue, taskWaiters, wpc, created>>
    BY <1>3 DEF Call, poolVars, cvVars, workerVars, ghostVars
  <2>2. Notifiers' = Notifiers
    BY <1>0, <1>3 DEF Call, Notifiers
  <2>. QED
    BY <1>k, <2>1, <2>2 DEF OnTheWay
<1>4. ASSUME NEW w \in Workers, WorkerSpurious(w) PROVE Enough'
  <2>1. taskWaiters # {} /\ taskWaiters' \subseteq taskWaiters
    BY <1>4 DEF WorkerSpurious
  <2>2. UNCHANGED <<queue, wpc, created, cpc>>
    BY <1>4 DEF WorkerSpurious, poolVars, workerVars, callerVars, ghostVars
  <2>. QED
    BY <1>k, <2>1, <2>2 DEF OnTheWay, Notifiers
<1>5. ASSUME UNCHANGED <<queue, taskWaiters, wpc, created, cpc>> PROVE Enough'
  BY <1>k, <1>5 DEF OnTheWay, Notifiers
<1>. QED
  BY <1>1, <1>2, <1>3, <1>4, <1>5
     DEF Next, Gone, Spurious, DrainSpurious, vars, poolVars, cvVars, workerVars,
         callerVars, ghostVars

\* No notification is missed: in a pool used without pause and remove_thread, as
\* server.cpp uses it, no worker sleeps beside a task that nobody comes for
\* (worker_thread's loop, thread_pool::submit).
THEOREM NoTaskBesideSleepers == Spec => []NoSleeperBesideTask
<1>. DEFINE I == QueueHeld /\ SleepersWait /\ DrainOK /\ PlainOK /\ WokenOK
<1>1. Init => I
  <2>. SUFFICES ASSUME Init PROVE I
    OBVIOUS
  <2>1. QueueHeld /\ SleepersWait /\ DrainOK /\ WokenOK
    BY DEF Init, QueueHeld, SleepersWait, DrainOK, WokenOK
  <2>2. PlainOK
    BY DEF Init, PlainOK, At, Ending
  <2>. QED
    BY <2>1, <2>2
<1>2. IInv /\ I /\ [Next]_vars => I'
  <2>. SUFFICES ASSUME IInv, I, [Next]_vars PROVE I'
    OBVIOUS
  <2>1. QueueHeld' /\ SleepersWait' /\ DrainOK' /\ PlainOK'
    BY QueueHeldStep, SleepersStep, DrainStep, PlainStep DEF IInv
  <2>2. TypeOK' /\ NeverThrows'
    BY Inductive DEF IInv
  <2>3. WokenOK'
    BY <2>1, <2>2, WokenStep DEF IInv
  <2>. QED
    BY <2>1, <2>3
<1>3. I => NoSleeperBesideTask
  BY DEF WokenOK, Enough, Plain, Open, Notifiers, NoSleeperBesideTask
<1>. HIDE DEF I
<1>. QED
  BY <1>1, <1>2, <1>3, Invariance, PTL DEF Spec
=============================================================================
