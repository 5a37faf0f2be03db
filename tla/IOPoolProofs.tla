---------------------------- MODULE IOPoolProofs ----------------------------
(***************************************************************************)
(* The safety of the I/O pool, for every number of threads, blocks,        *)
(* submitters and tasks: the tasks of a block run one at a time and in     *)
(* order, the destructor leaves none behind, and the thread of block 0     *)
(* always hears of stop.                                                   *)
(***************************************************************************)
EXTENDS IOPool, TLAPS

\* A thread holds a task exactly while it runs it; the ended tasks, the running
\* one and the queued ones are the submitted ones, in order.
InHand(b) == IF b \in Threads /\ pc[b] = "run" THEN 1 ELSE 0

Consecutive(q, n) == \A i \in 1..Len(q) : q[i] = n + i

Numbered(b) ==
  /\ b \in Threads => task[b] = (IF pc[b] = "run" THEN Len(done[b]) + 1 ELSE 0)
  /\ Len(done[b]) + InHand(b) + Len(tasks[b]) = submitted[b]
  /\ Consecutive(tasks[b], Len(done[b]) + InHand(b))

\* Where threads can be while the pool is alive, being destroyed and gone.
Stopping ==
  /\ stop <=> dpc # "alive"
  /\ stop => \A s \in Submitters : spc[s] = "idle"
  /\ dpc = "destroyed" => \A t \in Threads : pc[t] = "returned"
  /\ \A t \in Threads : pc[t] = "returned" => stop /\ tasks[t] = <<>>
  /\ \A t \in sleeping : pc[t] = "waiting"

\* A thread about to sleep has nothing to do, the mutex it holds sees to that;
\* stop, however, is only kept away by the mutex of block 0.
AboutToSleep ==
  /\ \A t \in Threads : pc[t] = "towait" => tasks[t] = <<>>
  /\ pc[0] = "towait" => ~stop

IInv ==
  /\ TypeOK /\ (\A b \in Blocks : Numbered(b)) /\ Stopping /\ AboutToSleep
  /\ StopReachesThread0

LEMMA ThreadsNat == Threads \subseteq Nat /\ Blocks \subseteq Nat /\ 0 \in Threads
                    /\ Threads \subseteq Blocks /\ None \notin Threads
  BY IOPoolAssumption DEF IOPoolAssumption, Threads, Blocks

LEMMA Initial == Init => IInv
<1>. SUFFICES ASSUME Init PROVE IInv
  OBVIOUS
<1>1. TypeOK
  <2>1. holder = [b \in Blocks |->
          IF b \in Threads /\ pc[b] \in {"test", "towait"} THEN b ELSE None]
    BY DEF Init
  <2>. QED
    BY <2>1, ThreadsNat DEF Init, TypeOK
<1>2. \A b \in Blocks : Numbered(b)
  BY ThreadsNat DEF Init, Numbered, InHand, Consecutive
<1>3. Stopping /\ AboutToSleep /\ StopReachesThread0
  BY ThreadsNat DEF Init, Stopping, AboutToSleep, StopReachesThread0
<1>. QED
  BY <1>1, <1>2, <1>3 DEF IInv

LEMMA TypeStep == TypeOK /\ [Next]_vars => TypeOK'
<1>. SUFFICES ASSUME TypeOK, [Next]_vars PROVE TypeOK'
  OBVIOUS
<1>. USE ThreadsNat
<1>1. ASSUME NEW t \in Threads, ThreadStep(t) PROVE TypeOK'
  <2>1. CASE ThreadLock(t)
    BY <2>1 DEF ThreadLock, TypeOK, poolVars, submitVars
  <2>2. CASE ThreadIdle(t)
    BY <2>2 DEF ThreadIdle, TypeOK, poolVars, submitVars
  <2>3. CASE ThreadWait(t)
    BY <2>3 DEF ThreadWait, Unlock, TypeOK, poolVars, submitVars
  <2>4. CASE ThreadReturn(t)
    BY <2>4 DEF ThreadReturn, Unlock, TypeOK, poolVars, submitVars
  <2>5. CASE ThreadTake(t)
    <3>1. tasks[t] \in Seq(Nat) /\ tasks[t] # <<>>
      BY <2>5, <1>1 DEF ThreadTake, TypeOK, Awaited, MustReturn
    <3>2. Head(tasks[t]) \in Nat /\ Tail(tasks[t]) \in Seq(Nat)
      BY <3>1
    <3>. QED
      BY <2>5, <3>2 DEF ThreadTake, Unlock, PopFront, TypeOK, submitVars
  <2>6. CASE ThreadRun(t)
    <3>1. Append(done[t], task[t]) \in Seq(Nat)
      BY <1>1 DEF TypeOK
    <3>. QED
      BY <2>6, <3>1 DEF ThreadRun, TypeOK, poolVars, submitVars
  <2>. QED
    BY <1>1, <2>1, <2>2, <2>3, <2>4, <2>5, <2>6 DEF ThreadStep
<1>2. ASSUME NEW t \in Threads, Spurious(t) PROVE TypeOK'
  BY <1>2 DEF Spurious, TypeOK, poolVars, threadVars, submitVars
<1>3. ASSUME NEW s \in Submitters, SubmitPush(s) PROVE TypeOK'
  <2>1. PICK b \in Targets :
          /\ tasks' = [tasks EXCEPT ![b] = Append(@, submitted[b] + 1)]
          /\ submitted' = [submitted EXCEPT ![b] = @ + 1]
    BY <1>3 DEF SubmitPush
  <2>2. b \in Blocks /\ submitted[b] + 1 \in Nat
    BY DEF Blocks, TypeOK
  <2>3. Append(tasks[b], submitted[b] + 1) \in Seq(Nat)
    BY <2>2 DEF TypeOK
  <2>. QED
    BY <1>3, <2>1, <2>2, <2>3 DEF SubmitPush, TypeOK, threadVars
<1>4. ASSUME NEW s \in Submitters, SubmitNotify(s) PROVE TypeOK'
  BY <1>4 DEF SubmitNotify, NotifyOne, TypeOK, poolVars, threadVars
<1>5. ASSUME DestroyStep PROVE TypeOK'
  BY <1>5 DEF DestroyStep, DestroyStop, DestroyNotify, DestroyJoin, NotifyAll,
              TypeOK, poolVars, threadVars, submitVars
<1>6. ASSUME UNCHANGED vars PROVE TypeOK'
  BY <1>6 DEF vars, TypeOK, poolVars, threadVars, submitVars
<1>. QED
  BY <1>1, <1>2, <1>3, <1>4, <1>5, <1>6 DEF Next, Gone

\* Taking the front task of a queue of consecutive numbers.
LEMMA TakeNumbered ==
  ASSUME NEW q \in Seq(Nat), q # <<>>, NEW n \in Nat, Consecutive(q, n)
  PROVE  /\ Head(q) = n + 1 /\ Len(Tail(q)) = Len(q) - 1
         /\ Consecutive(Tail(q), n + 1)
<1>1. Len(q) \in Nat \ {0} /\ Head(q) = q[1] /\ Len(Tail(q)) = Len(q) - 1
  OBVIOUS
<1>2. \A i \in 1..Len(Tail(q)) : Tail(q)[i] = q[i + 1] /\ i + 1 \in 1..Len(q)
  BY <1>1
<1>. QED
  BY <1>1, <1>2 DEF Consecutive

LEMMA PushNumbered ==
  ASSUME NEW q \in Seq(Nat), NEW n \in Nat, Consecutive(q, n),
         NEW e \in Nat, e = n + Len(q) + 1
  PROVE  Len(Append(q, e)) = Len(q) + 1 /\ Consecutive(Append(q, e), n)
  BY DEF Consecutive

LEMMA NumberedStep ==
  ASSUME TypeOK, [Next]_vars, \A b \in Blocks : Numbered(b)
  PROVE  \A b \in Blocks : Numbered(b)'
<1>. USE ThreadsNat
<1>t. /\ tasks \in [Blocks -> Seq(Nat)] /\ done \in [Blocks -> Seq(Nat)]
      /\ submitted \in [Blocks -> Nat] /\ task \in [Threads -> Nat]
      /\ pc \in [Threads -> {"top", "test", "towait", "waiting", "run", "returned"}]
  BY DEF TypeOK
<1>1. ASSUME UNCHANGED <<tasks, done, submitted, task>>,
             \A t \in Threads : pc'[t] = "run" <=> pc[t] = "run"
      PROVE  \A b \in Blocks : Numbered(b)'
  BY <1>1 DEF Numbered, InHand
<1>2. ASSUME NEW t \in Threads, ThreadTake(t)
      PROVE  \A b \in Blocks : Numbered(b)'
  <2>1. tasks[t] # <<>> /\ pc[t] = "test"
    BY <1>2 DEF ThreadTake, Awaited, MustReturn
  <2>2. /\ tasks' = [tasks EXCEPT ![t] = Tail(@)]
        /\ task' = [task EXCEPT ![t] = Head(tasks[t])]
        /\ pc' = [pc EXCEPT ![t] = "run"] /\ UNCHANGED <<done, submitted>>
    BY <1>2 DEF ThreadTake, PopFront, submitVars
  <2>3. InHand(t) = 0 /\ InHand(t)' = 1
    BY <1>t, <2>1, <2>2 DEF InHand
  <2>4. Len(done[t]) \in Nat /\ Len(tasks[t]) \in Nat
    BY <1>t
  <2>5. Len(done[t]) + Len(tasks[t]) = submitted[t] /\ Consecutive(tasks[t], Len(done[t]))
    BY <1>t, <2>3, <2>4 DEF Numbered
  <2>6. Numbered(t)'
    <3>1. /\ tasks'[t] = Tail(tasks[t]) /\ task'[t] = Head(tasks[t]) /\ pc'[t] = "run"
          /\ done'[t] = done[t] /\ submitted'[t] = submitted[t]
      BY <1>t, <2>2
    <3>2. /\ Head(tasks[t]) = Len(done[t]) + 1
          /\ Len(Tail(tasks[t])) = Len(tasks[t]) - 1
          /\ Consecutive(Tail(tasks[t]), Len(done[t]) + 1)
      BY <1>t, <2>1, <2>4, <2>5, TakeNumbered
    <3>3. Len(done[t]) + 1 + (Len(tasks[t]) - 1) = submitted[t]
      BY <1>t, <2>4, <2>5
    <3>. QED
      BY <2>3, <3>1, <3>2, <3>3 DEF Numbered
  <2>7. ASSUME NEW b \in Blocks, b # t PROVE Numbered(b)'
    BY <1>t, <2>2, <2>7 DEF Numbered, InHand
  <2>. QED
    BY <2>6, <2>7
<1>3. ASSUME NEW t \in Threads, ThreadRun(t)
      PROVE  \A b \in Blocks : Numbered(b)'
  <2>1. /\ pc[t] = "run" /\ pc' = [pc EXCEPT ![t] = "top"]
        /\ done' = [done EXCEPT ![t] = Append(@, task[t])]
        /\ task' = [task EXCEPT ![t] = 0] /\ UNCHANGED <<tasks, submitted>>
    BY <1>3 DEF ThreadRun, poolVars, submitVars
  <2>2. InHand(t) = 1 /\ InHand(t)' = 0
    BY <1>t, <2>1 DEF InHand
  <2>3. Len(done'[t]) = Len(done[t]) + 1
    BY <1>t, <2>1
  <2>4. Numbered(t)'
    <3>1. /\ tasks'[t] = tasks[t] /\ task'[t] = 0 /\ pc'[t] = "top"
          /\ submitted'[t] = submitted[t]
      BY <1>t, <2>1
    <3>2. Len(done[t]) \in Nat /\ Len(tasks[t]) \in Nat
      BY <1>t
    <3>3. /\ Len(done[t]) + 1 + Len(tasks[t]) = submitted[t]
          /\ Consecutive(tasks[t], Len(done[t]) + 1)
      BY <2>2 DEF Numbered
    <3>4. /\ Len(done'[t]) + 0 + Len(tasks'[t]) = submitted'[t]
          /\ Len(done'[t]) + 0 = Len(done[t]) + 1
      BY <1>t, <2>3, <3>1, <3>2, <3>3
    <3>. QED
      BY <2>2, <3>1, <3>3, <3>4 DEF Numbered
  <2>5. ASSUME NEW b \in Blocks, b # t PROVE Numbered(b)'
    BY <1>t, <2>1, <2>5 DEF Numbered, InHand
  <2>. QED
    BY <2>4, <2>5
<1>4. ASSUME NEW s \in Submitters, SubmitPush(s)
      PROVE  \A b \in Blocks : Numbered(b)'
  <2>1. PICK c \in Targets :
          /\ tasks' = [tasks EXCEPT ![c] = Append(@, submitted[c] + 1)]
          /\ submitted' = [submitted EXCEPT ![c] = @ + 1]
    BY <1>4 DEF SubmitPush
  <2>2. UNCHANGED <<done, task, pc>> /\ c \in Blocks
    BY <1>4 DEF SubmitPush, threadVars, Blocks
  <2>3. Len(done[c]) + InHand(c) \in Nat /\ InHand(c)' = InHand(c)
    BY <1>t, <2>2 DEF InHand
  <2>4. submitted[c] + 1 = (Len(done[c]) + InHand(c)) + Len(tasks[c]) + 1
    BY <1>t, <2>2, <2>3 DEF Numbered
  <2>5. Consecutive(tasks[c], Len(done[c]) + InHand(c))
    BY <2>2 DEF Numbered
  <2>6. /\ Len(Append(tasks[c], submitted[c] + 1)) = Len(tasks[c]) + 1
        /\ Consecutive(Append(tasks[c], submitted[c] + 1), Len(done[c]) + InHand(c))
    <3>1. tasks[c] \in Seq(Nat) /\ submitted[c] + 1 \in Nat
      BY <1>t, <2>2
    <3>. QED
      BY <2>3, <2>4, <2>5, <3>1, PushNumbered
  <2>7. Numbered(c)'
    <3>1. /\ tasks'[c] = Append(tasks[c], submitted[c] + 1)
          /\ submitted'[c] = submitted[c] + 1
      BY <1>t, <2>1, <2>2
    <3>2. /\ Len(done[c]) \in Nat /\ Len(tasks[c]) \in Nat /\ InHand(c) \in Nat
          /\ submitted[c] \in Nat
      BY <1>t, <2>2 DEF InHand
    <3>3. c \in Threads => task[c] = (IF pc[c] = "run" THEN Len(done[c]) + 1 ELSE 0)
      BY <2>2 DEF Numbered
    <3>4. Len(done[c]) + InHand(c) + (Len(tasks[c]) + 1) = submitted[c] + 1
      BY <2>4, <3>2
    <3>. QED
      BY <2>2, <2>3, <2>6, <3>1, <3>3, <3>4 DEF Numbered
  <2>8. ASSUME NEW b \in Blocks, b # c PROVE Numbered(b)'
    BY <1>t, <2>1, <2>2, <2>8 DEF Numbered, InHand
  <2>. QED
    BY <2>7, <2>8
<1>5. CASE \E t \in Threads : ThreadStep(t)
  BY <1>1, <1>2, <1>3, <1>5, <1>t
     DEF ThreadStep, ThreadLock, ThreadIdle, ThreadWait, ThreadReturn, poolVars, submitVars
<1>6. CASE ~\E t \in Threads : ThreadStep(t)
  BY <1>1, <1>4, <1>6
     DEF Next, Spurious, SubmitNotify, DestroyStep, DestroyStop, DestroyNotify,
         DestroyJoin, Gone, vars, poolVars, threadVars, submitVars
<1>. QED
  BY <1>5, <1>6

\* The rest of the invariant, one conjunct after the other.
LEMMA StoppingStep ==
  ASSUME TypeOK, Stopping, [Next]_vars PROVE Stopping'
<1>. USE ThreadsNat
<1>t. /\ tasks \in [Blocks -> Seq(Nat)] /\ spc \in [Submitters -> {"idle", "notify"}]
      /\ dpc \in {"alive", "notify", "join", "destroyed"}
      /\ pc \in [Threads -> {"top", "test", "towait", "waiting", "run", "returned"}]
      /\ sleeping \subseteq Threads
  BY DEF TypeOK
<1>1. ASSUME NEW t \in Threads, ThreadStep(t) PROVE Stopping'
  <2>1. UNCHANGED <<stop, spc, dpc>>
    BY <1>1 DEF ThreadStep, ThreadLock, ThreadIdle, ThreadWait, ThreadReturn,
                ThreadTake, ThreadRun, poolVars, submitVars
  <2>2. \A u \in Threads : u # t =>
          pc'[u] = pc[u] /\ tasks'[u] = tasks[u] /\ (u \in sleeping' <=> u \in sleeping)
    BY <1>t, <1>1 DEF ThreadStep, ThreadLock, ThreadIdle, ThreadWait, ThreadReturn,
                ThreadTake, ThreadRun, PopFront, poolVars
  <2>3. /\ pc[t] # "returned"
        /\ pc'[t] = "returned" => stop /\ tasks'[t] = <<>>
        /\ t \in sleeping' => pc'[t] = "waiting"
    BY <1>t, <1>1 DEF Stopping, ThreadStep, ThreadLock, ThreadIdle, ThreadWait,
                ThreadReturn, ThreadTake, ThreadRun, MustReturn, poolVars
  <2>4. sleeping' \subseteq Threads
    BY <1>t, <1>1 DEF ThreadStep, ThreadLock, ThreadIdle, ThreadWait, ThreadReturn,
                ThreadTake, ThreadRun
  <2>. QED
    BY <2>1, <2>2, <2>3, <2>4 DEF Stopping
<1>2. ASSUME NEW t \in Threads, Spurious(t) PROVE Stopping'
  BY <1>2 DEF Stopping, Spurious, poolVars, threadVars, submitVars
<1>3. ASSUME NEW s \in Submitters, SubmitPush(s) PROVE Stopping'
  BY <1>3 DEF Stopping, SubmitPush, threadVars
<1>4. ASSUME NEW s \in Submitters, SubmitNotify(s) PROVE Stopping'
  BY <1>t, <1>4 DEF Stopping, SubmitNotify, NotifyOne, poolVars, threadVars
<1>5. ASSUME DestroyStep PROVE Stopping'
  BY <1>5 DEF Stopping, DestroyStep, DestroyStop, DestroyNotify, DestroyJoin,
              NotifyAll, poolVars, threadVars, submitVars
<1>6. ASSUME UNCHANGED vars PROVE Stopping'
  BY <1>6 DEF Stopping, vars, poolVars, threadVars, submitVars
<1>. QED
  BY <1>1, <1>2, <1>3, <1>4, <1>5, <1>6 DEF Next, Gone

LEMMA AboutToSleepStep ==
  ASSUME TypeOK, AboutToSleep, [Next]_vars PROVE AboutToSleep'
<1>. USE ThreadsNat
<1>t. /\ tasks \in [Blocks -> Seq(Nat)]
      /\ pc \in [Threads -> {"top", "test", "towait", "waiting", "run", "returned"}]
      /\ \A t \in Threads : pc[t] \in {"test", "towait"} => holder[t] # None
  BY DEF TypeOK
<1>1. ASSUME NEW t \in Threads, ThreadStep(t) PROVE AboutToSleep'
  BY <1>t, <1>1
     DEF AboutToSleep, ThreadStep, ThreadLock, ThreadIdle, ThreadWait, ThreadReturn,
         ThreadTake, ThreadRun, PopFront, Awaited, MustReturn, poolVars
<1>2. ASSUME NEW s \in Submitters, SubmitPush(s) PROVE AboutToSleep'
  BY <1>t, <1>2 DEF AboutToSleep, SubmitPush, threadVars, Blocks
<1>3. ASSUME DestroyStep PROVE AboutToSleep'
  BY <1>t, <1>3 DEF AboutToSleep, DestroyStep, DestroyStop, DestroyNotify,
                    DestroyJoin, StopLock, poolVars, threadVars
<1>4. ASSUME UNCHANGED <<pc, tasks, stop>> PROVE AboutToSleep'
  BY <1>4 DEF AboutToSleep
<1>. QED
  BY <1>1, <1>2, <1>3, <1>4
     DEF Next, Gone, Spurious, SubmitNotify, vars, poolVars, threadVars

LEMMA StopReachesStep ==
  ASSUME TypeOK, Stopping, AboutToSleep, StopReachesThread0, [Next]_vars
  PROVE  StopReachesThread0'
<1>. USE ThreadsNat
<1>1. ASSUME NEW t \in Threads, ThreadStep(t) PROVE StopReachesThread0'
  BY <1>1
     DEF StopReachesThread0, AboutToSleep, ThreadStep, ThreadLock, ThreadIdle,
         ThreadWait, ThreadReturn, ThreadTake, ThreadRun, poolVars
<1>2. ASSUME DestroyStep PROVE StopReachesThread0'
  BY <1>2 DEF StopReachesThread0, DestroyStep, DestroyStop, DestroyNotify,
              DestroyJoin, NotifyAll, poolVars
<1>3. ASSUME NEW s \in Submitters, SubmitPush(s) \/ SubmitNotify(s)
      PROVE  StopReachesThread0'
  BY <1>3 DEF StopReachesThread0, SubmitPush, SubmitNotify, NotifyOne, poolVars
<1>. QED
  BY <1>1, <1>2, <1>3
     DEF StopReachesThread0, Next, Gone, Spurious, vars, poolVars

LEMMA Inductive == IInv /\ [Next]_vars => IInv'
  BY TypeStep, NumberedStep, StoppingStep, AboutToSleepStep, StopReachesStep DEF IInv

-----------------------------------------------------------------------------
\* The invariant holds in every state.
THEOREM Invariance == Spec => []IInv
  BY Initial, Inductive, PTL DEF Spec

\* Types, and a block's mutex held by its own thread only.
THEOREM TypeCorrect == Spec => []TypeOK
<1>1. IInv => TypeOK
  BY DEF IInv
<1>. QED
  BY <1>1, Invariance, PTL

\* The thread of block 0 cannot miss stop, which is set under its mutex.
THEOREM StopNotMissed == Spec => []StopReachesThread0
<1>1. IInv => StopReachesThread0
  BY DEF IInv
<1>. QED
  BY <1>1, Invariance, PTL

\* The destructor ends after every task of every thread.
THEOREM DestructorDrains == Spec => []DestroyedDrained
<1>1. ASSUME IInv PROVE DestroyedDrained
  <2>1. ASSUME dpc = "destroyed", NEW t \in Threads PROVE Len(done[t]) = submitted[t]
    <3>1. pc[t] = "returned" /\ tasks[t] = <<>>
      BY <1>1, <2>1 DEF IInv, Stopping
    <3>2. t \in Blocks /\ Numbered(t) /\ Len(done[t]) \in Nat
      BY <1>1, ThreadsNat DEF IInv, TypeOK
    <3>. QED
      BY <3>1, <3>2 DEF Numbered, InHand
  <2>. QED
    BY <2>1 DEF DestroyedDrained
<1>. QED
  BY <1>1, Invariance, PTL

-----------------------------------------------------------------------------
RunningOf == [b \in Blocks |-> IF b \in Threads THEN task[b] ELSE 0]

LEMMA SerialInit == Init => Serial!Init
  BY ThreadsNat DEF Init, Serial!Init

LEMMA SerialStep == IInv /\ [Next]_vars => [Serial!Next]_(Serial!vars)
<1>. SUFFICES ASSUME IInv, [Next]_vars PROVE [Serial!Next]_(Serial!vars)
  OBVIOUS
<1>. USE ThreadsNat
<1>t. /\ tasks \in [Blocks -> Seq(Nat)] /\ done \in [Blocks -> Seq(Nat)]
      /\ submitted \in [Blocks -> Nat] /\ task \in [Threads -> Nat]
      /\ \A b \in Blocks : Numbered(b)
  BY DEF IInv, TypeOK
<1>1. ASSUME NEW t \in Threads, ThreadTake(t) PROVE Serial!Start(t)
  <2>1. /\ pc[t] = "test" /\ tasks[t] # <<>> /\ UNCHANGED <<submitted, done>>
        /\ task' = [task EXCEPT ![t] = Head(tasks[t])]
    BY <1>1 DEF ThreadTake, Awaited, MustReturn, submitVars
  <2>2. task[t] = 0 /\ Len(done[t]) + Len(tasks[t]) = submitted[t]
    BY <1>t, <2>1 DEF Numbered, InHand
  <2>3. Len(tasks[t]) \in Nat \ {0} /\ Head(tasks[t]) = tasks[t][1]
    BY <1>t, <2>1
  <2>4. tasks[t][1] = Len(done[t]) + 1
    <3>1. InHand(t) = 0 /\ Len(done[t]) \in Nat /\ 1 \in 1..Len(tasks[t])
      BY <1>t, <2>1, <2>3 DEF InHand
    <3>2. Consecutive(tasks[t], Len(done[t]))
      BY <1>t, <3>1 DEF Numbered
    <3>. QED
      BY <3>1, <3>2 DEF Consecutive
  <2>5. Len(done[t]) < submitted[t]
    BY <1>t, <2>2, <2>3
  <2>6. RunningOf' = [RunningOf EXCEPT ![t] = Len(done[t]) + 1] /\ RunningOf[t] = 0
    BY <1>t, <2>1, <2>2, <2>3, <2>4 DEF RunningOf
  <2>. QED
    BY <2>1, <2>5, <2>6 DEF Serial!Start, RunningOf
<1>2. ASSUME NEW t \in Threads, ThreadRun(t) PROVE Serial!End(t)
  <2>1. /\ pc[t] = "run" /\ UNCHANGED submitted
        /\ task' = [task EXCEPT ![t] = 0]
        /\ done' = [done EXCEPT ![t] = Append(@, task[t])]
    BY <1>2 DEF ThreadRun, submitVars
  <2>2. RunningOf[t] = task[t] /\ RunningOf[t] # 0
    BY <1>t, <2>1 DEF Numbered, RunningOf
  <2>3. RunningOf' = [RunningOf EXCEPT ![t] = 0]
    BY <1>t, <2>1 DEF RunningOf
  <2>. QED
    BY <2>1, <2>2, <2>3 DEF Serial!End, RunningOf
<1>3. ASSUME NEW s \in Submitters, SubmitPush(s)
      PROVE  \E b \in Blocks : Serial!Submit(b)
  BY <1>3 DEF SubmitPush, threadVars, Blocks, Serial!Submit
<1>4. ASSUME UNCHANGED <<submitted, task, done>> PROVE UNCHANGED Serial!vars
  BY <1>4 DEF Serial!vars
<1>5. CASE \E t \in Threads : ThreadTake(t) \/ ThreadRun(t)
  BY <1>1, <1>2, <1>5 DEF Serial!Next
<1>6. CASE \E s \in Submitters : SubmitPush(s)
  BY <1>3, <1>6 DEF Serial!Next
<1>7. CASE ~\E t \in Threads : ThreadTake(t) \/ ThreadRun(t)
  BY <1>4, <1>6, <1>7
     DEF Next, ThreadStep, ThreadLock, ThreadIdle, ThreadWait, ThreadReturn,
         Spurious, SubmitNotify, DestroyStep, DestroyStop, DestroyNotify,
         DestroyJoin, Gone, vars, threadVars, submitVars
<1>. QED
  BY <1>5, <1>7

\* The pool implements BlockIO: a serial queue per block.
THEOREM Refinement == Spec => ImplementsBlockIO
  BY SerialInit, SerialStep, Invariance, PTL DEF Spec, ImplementsBlockIO, Serial!Spec
=============================================================================
