--------------------------- MODULE StorageProofs ---------------------------
(***************************************************************************)
(* The safety of the storage engine, for any number of keys, values,       *)
(* workers and blocks.  The argument follows a block through its life:     *)
(* free, handed to a put, waiting for its flush, being flushed, written;   *)
(* and the write lock, which moves along with it.                          *)
(***************************************************************************)
EXTENDS Storage, WellFoundedInduction, TLAPS

PutPlace == {"find", "mark", "submit"}

\* A task of this kind waits for thread t.
Queued(t, kind) == \E i \in 1..Len(queue[t]) : queue[t][i].at = kind

\* The tasks of a thread belong to its block.
TasksPlaced ==
  \A t \in Threads :
    /\ io[t] = Idle \/ io[t].block = t + 1
    /\ \A i \in 1..Len(queue[t]) :
         queue[t][i].block = t + 1 /\ queue[t][i].at \in {"flush", "load"}

\* The flush of a block is its only one, and the write lock is its block's.
Unique(q) == \A i, j \in 1..Len(q) : q[i].at = "flush" /\ q[j].at = "flush" => i = j
OneFlush(t) ==
  Unique(queue[t]) /\ (io[t].at \in FlushPlace => ~Queued(t, "flush"))
FlushAt(t) == Queued(t, "flush") \/ io[t].at \in FlushPlace
LockMoves ==
  \A t \in Threads : OneFlush(t) /\ (FlushAt(t) <=> wrLock = t + 1)

\* A worker is in the second half of put exactly while it owns the lock.
PutOwnsLock == \A w \in Workers : pc[w] \in PutPlace <=> wrLock = w

\* Nobody has flushed to the block; nobody is about to.
Unwritten(b) == disk[b] = Empty /\ \A k \in Keys : keyBlockMap[k] # b
Untouched(b) == Unwritten(b) /\ wrLock # b

\* The life of a block up to its flush.
FreshBlocks ==
  /\ \A b \in Blocks \ blockUsageTable : Untouched(b)
  /\ \A w \in Workers : block[w] \in Blocks =>
       /\ pc[w] = "mark" => block[w] \notin blockUsageTable
       /\ pc[w] = "submit" => block[w] \in blockUsageTable /\ Untouched(block[w])

\* The life of a block in its flush.
Stages(t) ==
  /\ Queued(t, "flush") \/ At(t, "flush") => Unwritten(t + 1)
  /\ At(t, "serialize") =>
       /\ disk[t + 1] = Empty
       /\ \A k \in Keys : keyBlockMap[k] = t + 1 => write[k] # Absent
  /\ At(t, "empty") => disk[t + 1] = write
  /\ At(t, "serialize") \/ At(t, "empty") =>
       \A k \in Keys : write[k] # Absent => keyBlockMap[k] # NoBlock
FlushStages == \A t \in Threads : Stages(t)

\* A get knows its key, and nobody loads a block to which no key is mapped.
Asked(b) == \E k \in Keys : keyBlockMap[k] = b
LoadsAsked ==
  /\ \A w \in Workers :
       /\ pc[w] = "lookup" => key[w] \in Keys
       /\ pc[w] \in {"hit", "miss", "load"} => block[w] \in Blocks /\ Asked(block[w])
  /\ \A t \in Threads :
       Queued(t, "load") \/ io[t].at \in {"load", "fill"} => Asked(t + 1)

IInv == /\ TypeOK /\ TasksPlaced /\ LockMoves /\ PutOwnsLock
        /\ FreshBlocks /\ FlushStages /\ LoadsAsked /\ KeyOnItsBlock

-----------------------------------------------------------------------------
(* The constants, the free block, and the queues.                          *)

LEMMA Basics ==
  /\ LastBlock \in Nat /\ 0 \notin Blocks /\ Blocks \subseteq Nat /\ Threads \subseteq Nat
  /\ \A t \in Threads : t + 1 \in Blocks /\ t # NoBlock
  /\ \A b \in Blocks : b - 1 \in Threads /\ (b - 1) + 1 = b
  /\ \A t, u \in Threads : t + 1 = u + 1 => t = u
  /\ \A t \in Threads, b \in Blocks : t = b - 1 <=> b = t + 1
  /\ NoBlock \notin Blocks /\ None \notin Blocks /\ None # NoBlock
  /\ \A w \in Workers : w \notin Blocks /\ w # NoBlock /\ w # None
  BY StorageAssumption DEF StorageAssumption, Blocks, Threads

\* The free block is one of the blocks behind block 0, and free.
LEMMA FreeBlockIsFree ==
  ASSUME blockUsageTable \subseteq 0..LastBlock, 0 \in blockUsageTable
  PROVE  /\ FreeBlock \in Blocks \cup {NoBlock}
         /\ FreeBlock \in Blocks => FreeBlock \notin blockUsageTable
<1>1. CASE 0..LastBlock \subseteq blockUsageTable
  BY <1>1, Basics DEF FreeBlock
<1>2. CASE ~(0..LastBlock \subseteq blockUsageTable)
  <2>. DEFINE S == (0..LastBlock) \ blockUsageTable
  <2>1. S \subseteq Nat /\ S # {}
    BY <1>2
  <2>2. PICK x \in S : \A y \in S : <<y, x>> \notin OpToRel(<, Nat)
    <3>. HIDE DEF S
    <3>. QED
      BY <2>1, NatLessThanWellFounded, WFMin
  <2>3. \A y \in S : x <= y
    <3>. SUFFICES ASSUME NEW y \in S PROVE x <= y
      OBVIOUS
    <3>1. x \in Nat /\ y \in Nat /\ ~(y < x)
      BY <2>1, <2>2 DEF OpToRel
    <3>. QED
      BY <3>1
  <2>4. Min(S) \in S
    <3>. HIDE DEF S
    <3>. QED
      BY <2>3 DEF Min
  <2>5. FreeBlock = Min(S)
    BY <1>2 DEF FreeBlock
  <2>. QED
    BY <2>4, <2>5, Basics DEF Blocks
<1>. QED
  BY <1>1, <1>2

\* Appending to a queue, and taking its head.
LEMMA Appended ==
  ASSUME NEW S, NEW q \in Seq(S), NEW x \in S
  PROVE  /\ Append(q, x) \in Seq(S) /\ Len(q) \in Nat /\ Len(Append(q, x)) = Len(q) + 1
         /\ \A i \in 1..Len(q) : Append(q, x)[i] = q[i]
         /\ Append(q, x)[Len(q) + 1] = x
  OBVIOUS

LEMMA Popped ==
  ASSUME NEW S, NEW q \in Seq(S), q # <<>>
  PROVE  /\ Tail(q) \in Seq(S) /\ Head(q) \in S /\ Head(q) = q[1]
         /\ Len(q) \in Nat \ {0} /\ Len(Tail(q)) = Len(q) - 1
         /\ \A i \in 1..Len(Tail(q)) : i + 1 \in 1..Len(q) /\ Tail(q)[i] = q[i + 1]
  OBVIOUS

\* A flush stays the only one if another task, or the first flush, is appended,
\* and there is none left if it is taken.
NoFlush(q) == \A i \in 1..Len(q) : q[i].at # "flush"

LEMMA UniqueAppended ==
  ASSUME NEW S, NEW q \in Seq(S), NEW x \in S, Unique(q), x.at # "flush" \/ NoFlush(q)
  PROVE  Unique(Append(q, x))
<1>. SUFFICES ASSUME NEW i \in 1..Len(Append(q, x)), NEW j \in 1..Len(Append(q, x)),
                     Append(q, x)[i].at = "flush", Append(q, x)[j].at = "flush"
              PROVE  i = j
  BY DEF Unique
<1>1. /\ Len(q) \in Nat /\ Len(Append(q, x)) = Len(q) + 1
      /\ \A n \in 1..Len(q) : Append(q, x)[n] = q[n]
      /\ Append(q, x)[Len(q) + 1] = x
  BY Appended
<1>2. i \in 1..Len(q) \/ i = Len(q) + 1
  BY <1>1
<1>3. j \in 1..Len(q) \/ j = Len(q) + 1
  BY <1>1
<1>4. CASE i \in 1..Len(q) /\ j \in 1..Len(q)
  BY <1>1, <1>4 DEF Unique
<1>5. CASE i = Len(q) + 1 /\ j \in 1..Len(q)
  BY <1>1, <1>5 DEF NoFlush
<1>6. CASE i \in 1..Len(q) /\ j = Len(q) + 1
  BY <1>1, <1>6 DEF NoFlush
<1>. QED
  BY <1>2, <1>3, <1>4, <1>5, <1>6

LEMMA UniqueTaken ==
  ASSUME NEW S, NEW q \in Seq(S), q # <<>>, Unique(q)
  PROVE  Unique(Tail(q)) /\ (Head(q).at = "flush" => NoFlush(Tail(q)))
<1>1. /\ Head(q) = q[1] /\ Len(q) \in Nat \ {0} /\ Len(Tail(q)) = Len(q) - 1
      /\ \A i \in 1..Len(Tail(q)) : i + 1 \in 1..Len(q) /\ Tail(q)[i] = q[i + 1]
  BY Popped
<1>2. ASSUME NEW i \in 1..Len(Tail(q)), NEW j \in 1..Len(Tail(q)),
             Tail(q)[i].at = "flush", Tail(q)[j].at = "flush"
      PROVE  i = j
  <2>1. i + 1 = j + 1
    BY <1>1, <1>2 DEF Unique
  <2>. QED
    BY <2>1
<1>3. ASSUME Head(q).at = "flush", NEW i \in 1..Len(Tail(q)), Tail(q)[i].at = "flush"
      PROVE  FALSE
  <2>1. 1 \in 1..Len(q)
    BY <1>1
  <2>2. i + 1 = 1
    BY <1>1, <1>3, <2>1 DEF Unique
  <2>. QED
    BY <2>2
<1>. QED
  BY <1>2, <1>3 DEF Unique, NoFlush

\* What a submission and a thread that takes a task do to the queues.
LEMMA Submitted ==
  ASSUME TypeOK, NEW t \in Threads \cup {NoBlock}, NEW x \in Tasks,
         queue' = [queue EXCEPT ![t] = Append(@, x)]
  PROVE  /\ queue' \in [Threads \cup {NoBlock} -> Seq(Tasks)]
         /\ t \in Threads => queue'[t] = Append(queue[t], x)
         /\ \A u \in Threads : u # t => queue'[u] = queue[u]
         /\ \A u \in Threads : \A kind :
              Queued(u, kind)' <=> Queued(u, kind) \/ (u = t /\ x.at = kind)
<1>1. queue[t] \in Seq(Tasks)
  BY DEF TypeOK
<1>2. /\ Append(queue[t], x) \in Seq(Tasks) /\ Len(queue[t]) \in Nat
      /\ Len(Append(queue[t], x)) = Len(queue[t]) + 1
      /\ \A i \in 1..Len(queue[t]) : Append(queue[t], x)[i] = queue[t][i]
      /\ Append(queue[t], x)[Len(queue[t]) + 1] = x
  BY <1>1, Appended
<1>3. queue' \in [Threads \cup {NoBlock} -> Seq(Tasks)]
  BY <1>2 DEF TypeOK
<1>4. queue'[t] = Append(queue[t], x)
      /\ \A u \in Threads : u # t => queue'[u] = queue[u]
  BY DEF TypeOK
<1>5. ASSUME NEW u \in Threads, NEW kind
      PROVE  Queued(u, kind)' <=> Queued(u, kind) \/ (u = t /\ x.at = kind)
  <2>1. CASE u # t
    BY <2>1, <1>4 DEF Queued
  <2>2. CASE u = t
    <3>1. ASSUME NEW i \in 1..Len(queue[t]) + 1 PROVE i \in 1..Len(queue[t]) \/ i = Len(queue[t]) + 1
      BY <1>2
    <3>2. 1..Len(queue[t]) \subseteq 1..Len(queue[t]) + 1 /\ Len(queue[t]) + 1 \in 1..Len(queue[t]) + 1
      BY <1>2
    <3>. QED
      BY <2>2, <1>2, <1>4, <3>1, <3>2 DEF Queued
  <2>. QED
    BY <2>1, <2>2
<1>. QED
  BY <1>3, <1>4, <1>5

LEMMA Taken ==
  ASSUME TypeOK, NEW t \in Threads, queue[t] # <<>>,
         queue' = [queue EXCEPT ![t] = Tail(@)]
  PROVE  /\ queue' \in [Threads \cup {NoBlock} -> Seq(Tasks)]
         /\ Head(queue[t]) \in Tasks
         /\ queue'[t] = Tail(queue[t]) /\ \A u \in Threads : u # t => queue'[u] = queue[u]
         /\ \A u \in Threads : \A kind :
              Queued(u, kind) <=> Queued(u, kind)' \/ (u = t /\ Head(queue[t]).at = kind)
<1>1. queue[t] \in Seq(Tasks)
  BY DEF TypeOK
<1>2. /\ Tail(queue[t]) \in Seq(Tasks) /\ Head(queue[t]) \in Tasks
      /\ Head(queue[t]) = queue[t][1] /\ Len(queue[t]) \in Nat \ {0}
      /\ Len(Tail(queue[t])) = Len(queue[t]) - 1
      /\ \A i \in 1..Len(Tail(queue[t])) :
           i + 1 \in 1..Len(queue[t]) /\ Tail(queue[t])[i] = queue[t][i + 1]
  BY <1>1, Popped
<1>3. queue' \in [Threads \cup {NoBlock} -> Seq(Tasks)]
  BY <1>2 DEF TypeOK
<1>4. queue'[t] = Tail(queue[t]) /\ \A u \in Threads : u # t => queue'[u] = queue[u]
  BY DEF TypeOK
<1>5. ASSUME NEW u \in Threads, NEW kind
      PROVE  Queued(u, kind) <=> Queued(u, kind)' \/ (u = t /\ Head(queue[t]).at = kind)
  <2>1. CASE u # t
    BY <2>1, <1>4 DEF Queued
  <2>2. CASE u = t
    <3>1. ASSUME NEW i \in 1..Len(queue[t]), i # 1
          PROVE  i - 1 \in 1..Len(Tail(queue[t])) /\ Tail(queue[t])[i - 1] = queue[t][i]
      <4>1. i - 1 \in 1..Len(Tail(queue[t])) /\ (i - 1) + 1 = i
        BY <1>2, <3>1
      <4>. QED
        BY <4>1, <1>2
    <3>2. 1 \in 1..Len(queue[t])
      BY <1>2
    <3>3. ASSUME Queued(t, kind), Head(queue[t]).at # kind PROVE Queued(t, kind)'
      <4>1. PICK i \in 1..Len(queue[t]) : queue[t][i].at = kind
        BY <3>3 DEF Queued
      <4>2. i # 1
        BY <4>1, <3>3, <1>2
      <4>. QED
        BY <4>1, <4>2, <3>1, <1>4 DEF Queued
    <3>4. Queued(t, kind)' => Queued(t, kind)
      BY <1>2, <1>4 DEF Queued
    <3>5. Head(queue[t]).at = kind => Queued(t, kind)
      BY <1>2, <3>2 DEF Queued
    <3>. QED
      BY <2>2, <3>3, <3>4, <3>5
  <2>. QED
    BY <2>1, <2>2
<1>. QED
  BY <1>2, <1>3, <1>4, <1>5

-----------------------------------------------------------------------------
(* The initial states and the types.                                       *)

LEMMA Initial == Init => IInv
<1>. SUFFICES ASSUME Init PROVE IInv
  OBVIOUS
<1>1. \A t \in Threads : \A kind : ~Queued(t, kind)
  BY Basics DEF Init, Queued
<1>2. \A t \in Threads : io[t].at = "idle" /\ io[t] = Idle
  BY DEF Init, Idle, Task
<1>3. TypeOK
  <2>1. Empty \in Lists
    BY DEF Empty, Lists
  <2>2. <<>> \in Seq(Tasks) /\ Idle \in Tasks
    BY DEF Tasks
  <2>. QED
    BY <2>1, <2>2, Basics DEF Init, TypeOK, Place
<1>4. TasksPlaced /\ LockMoves
  <2>1. \A t \in Threads : Len(queue[t]) = 0
    BY DEF Init
  <2>2. \A t \in Threads : wrLock # t + 1
    BY Basics DEF Init
  <2>. QED
    BY <1>1, <1>2, <2>1, <2>2
       DEF TasksPlaced, LockMoves, OneFlush, Unique, FlushAt, FlushPlace
<1>5. PutOwnsLock
  BY Basics DEF Init, PutOwnsLock, PutPlace
<1>6. FreshBlocks /\ FlushStages /\ LoadsAsked /\ KeyOnItsBlock
  BY <1>1, <1>2, Basics DEF Init, FreshBlocks, Untouched, Unwritten, FlushStages,
     Stages, LoadsAsked, KeyOnItsBlock, At
<1>. QED
  BY <1>3, <1>4, <1>5, <1>6 DEF IInv

\* The block of a task in hand.
LEMMA InHand ==
  ASSUME TypeOK, TasksPlaced, NEW t \in Threads, io[t].at # "idle"
  PROVE  /\ io[t].block = t + 1 /\ io[t].block \in Blocks
         /\ io[t] \in [at : FlushPlace \cup {"load", "fill"}, block : Blocks \cup {NoBlock}]
<1>1. io[t] # Idle
  BY DEF Idle, Task
<1>. QED
  BY <1>1, Basics DEF TypeOK, TasksPlaced, Tasks

LEMMA TypeStep == TypeOK /\ TasksPlaced /\ LoadsAsked /\ [Next]_vars => TypeOK'
<1>. SUFFICES ASSUME TypeOK, TasksPlaced, LoadsAsked, [Next]_vars PROVE TypeOK'
  OBVIOUS
<1>. USE DEF cacheVars, fileVars, ioVars, workerVars, Goto
<1>p. /\ "idle" \in Place /\ "taken" \in Place /\ "find" \in Place /\ "mark" \in Place
      /\ "submit" \in Place /\ "lookup" \in Place /\ "hit" \in Place /\ "miss" \in Place
      /\ "load" \in Place
  BY DEF Place
<1>e. Empty \in Lists
  BY DEF Empty, Lists
<1>1. ASSUME NEW w \in Workers, Take(w) \/ Request(w) PROVE TypeOK'
  <2>1. CASE Take(w)
    BY <2>1, <1>p DEF Take, TypeOK
  <2>2. CASE PutAdd(w)
    <3>1. PICK k \in Keys, v \in Values : write' = [write EXCEPT ![k] = v]
      BY <2>2 DEF PutAdd
    <3>2. write' \in Lists
      BY <3>1 DEF TypeOK, Lists
    <3>. QED
      BY <2>2, <1>p, <3>2 DEF PutAdd, KeepLock, TypeOK
  <2>3. CASE PutFind(w)
    <3>1. FreeBlock \in Blocks \cup {NoBlock}
      BY FreeBlockIsFree DEF TypeOK
    <3>. QED
      BY <2>3, <1>p, <3>1 DEF PutFind, TypeOK
  <2>4. CASE PutMark(w)
    <3>1. /\ block[w] \in Blocks \cup {NoBlock}
          /\ blockUsageTable' = blockUsageTable \cup ({block[w]} \ {NoBlock})
      BY <2>4 DEF PutMark, MarkUsed, TypeOK
    <3>2. Blocks \subseteq 0..LastBlock
      BY Basics DEF Blocks
    <3>3. blockUsageTable' \subseteq 0..LastBlock /\ 0 \in blockUsageTable'
      BY <3>1, <3>2 DEF TypeOK
    <3>. QED
      BY <2>4, <1>p, <3>3 DEF PutMark, TypeOK
  <2>5. CASE PutSubmit(w)
    <3>1. FlushThread(block[w]) \in Threads \cup {NoBlock}
          /\ Task("flush", block[w]) \in Tasks
      BY Basics DEF TypeOK, FlushThread, Task, Tasks, FlushPlace
    <3>2. queue' \in [Threads \cup {NoBlock} -> Seq(Tasks)]
      BY <2>5, <3>1, Submitted DEF PutSubmit, HandOver
    <3>. QED
      BY <2>5, <1>p, <3>2 DEF PutSubmit, HandOver, TypeOK
  <2>6. CASE GetWrite(w)
    BY <2>6, <1>p DEF GetWrite, TypeOK
  <2>7. CASE GetLookup(w)
    <3>1. keyBlockMap[key[w]] \in Blocks \cup {NoBlock}
      BY <2>7 DEF GetLookup, TypeOK, LoadsAsked
    <3>2. PICK p \in {"idle", "hit", "miss"} : pc' = [pc EXCEPT ![w] = p]
      BY <2>7 DEF GetLookup
    <3>. QED
      BY <2>7, <1>p, <3>1, <3>2 DEF GetLookup, TypeOK
  <2>8. CASE GetHit(w)
    BY <2>8, <1>p DEF GetHit, TypeOK
  <2>9. CASE GetMiss(w)
    BY <2>9, <1>p DEF GetMiss, TypeOK
  <2>10. CASE GetSubmit(w)
    <3>1. LoadThread(block[w]) \in Threads /\ Task("load", block[w]) \in Tasks
      BY <2>10, Basics DEF GetSubmit, LoadsAsked, LoadThread, Task, Tasks
    <3>2. queue' \in [Threads \cup {NoBlock} -> Seq(Tasks)]
      BY <2>10, <3>1, Submitted DEF GetSubmit
    <3>. QED
      BY <2>10, <1>p, <3>2 DEF GetSubmit, TypeOK
  <2>11. CASE Del(w)
    <3>1. PICK k \in Keys : write' = [write EXCEPT ![k] = Absent]
      BY <2>11 DEF Del
    <3>2. write' \in Lists
      BY <3>1 DEF TypeOK, Lists
    <3>. QED
      BY <2>11, <1>p, <3>2 DEF Del, TypeOK
  <2>. QED
    BY <1>1, <2>1, <2>2, <2>3, <2>4, <2>5, <2>6, <2>7, <2>8, <2>9, <2>10, <2>11
       DEF Request
<1>2. ASSUME NEW t \in Threads, IOStep(t) PROVE TypeOK'
  <2>0. Idle \in Tasks
    BY DEF Tasks
  <2>1. CASE IOTake(t)
    <3>1. /\ queue' \in [Threads \cup {NoBlock} -> Seq(Tasks)]
          /\ Head(queue[t]) \in Tasks
      BY <2>1, Taken DEF IOTake
    <3>. QED
      BY <2>1, <3>1 DEF IOTake, TypeOK
  <2>2. ASSUME NEW p \in FlushPlace \cup {"load", "fill"}, io[t].at # "idle", IOGoto(t, p)
        PROVE  io' \in [Threads -> Tasks]
    <3>1. [io[t] EXCEPT !.at = p] \in Tasks
      BY <2>2, InHand DEF Tasks
    <3>. QED
      BY <2>2, <3>1 DEF IOGoto, TypeOK
  <2>3. CASE FlushMap(t)
    <3>1. io' \in [Threads -> Tasks]
      BY <2>3, <2>2 DEF FlushMap, At, FlushPlace
    <3>2. keyBlockMap' \in [Keys -> Blocks \cup {NoBlock}]
      BY <2>3, InHand DEF FlushMap, At, Mapped, TypeOK
    <3>. QED
      BY <2>3, <3>1, <3>2 DEF FlushMap, TypeOK
  <2>4. CASE FlushWrite(t)
    <3>1. io' \in [Threads -> Tasks]
      BY <2>4, <2>2 DEF FlushWrite, At, FlushPlace
    <3>. QED
      BY <2>4, <3>1 DEF FlushWrite, TypeOK
  <2>5. CASE FlushEmpty(t)
    BY <2>5, <2>0, <1>e DEF FlushEmpty, IOEnd, TypeOK
  <2>6. CASE LoadEmpty(t)
    <3>1. io' \in [Threads -> Tasks]
      BY <2>6, <2>2 DEF LoadEmpty, At
    <3>. QED
      BY <2>6, <3>1, <1>e DEF LoadEmpty, TypeOK
  <2>7. CASE LoadFill(t)
    <3>1. disk[io[t].block] \in Lists
      BY <2>7, InHand DEF LoadFill, At, TypeOK
    <3>. QED
      BY <2>7, <2>0, <3>1 DEF LoadFill, IOEnd, TypeOK
  <2>. QED
    BY <1>2, <2>1, <2>3, <2>4, <2>5, <2>6, <2>7 DEF IOStep
<1>3. ASSUME UNCHANGED vars PROVE TypeOK'
  BY <1>3 DEF vars, TypeOK
<1>. QED
  BY <1>1, <1>2, <1>3 DEF Next

-----------------------------------------------------------------------------
(* The tasks and the lock.                                                 *)

LEMMA PlacedStep == TypeOK /\ TasksPlaced /\ LoadsAsked /\ [Next]_vars => TasksPlaced'
<1>. SUFFICES ASSUME TypeOK, TasksPlaced, LoadsAsked, [Next]_vars PROVE TasksPlaced'
  OBVIOUS
<1>. USE DEF ioVars
<1>1. ASSUME UNCHANGED <<queue, io>> PROVE TasksPlaced'
  BY <1>1 DEF TasksPlaced
<1>2. ASSUME NEW t \in Threads \cup {NoBlock}, NEW what \in {"flush", "load"},
             NEW b \in Blocks \cup {NoBlock}, t \in Threads => b = t + 1,
             queue' = [queue EXCEPT ![t] = Append(@, Task(what, b))], UNCHANGED io
      PROVE  TasksPlaced'
  <2>. DEFINE x == Task(what, b)
  <2>1. x \in Tasks /\ x.at = what /\ x.block = b
    BY DEF Task, Tasks, FlushPlace
  <2>2. queue[t] \in Seq(Tasks)
    BY DEF TypeOK
  <2>3. ASSUME NEW u \in Threads, NEW i \in 1..Len(queue'[u])
        PROVE  queue'[u][i].block = u + 1 /\ queue'[u][i].at \in {"flush", "load"}
    <3>. HIDE DEF x
    <3>1. CASE u # t
      <4>1. queue'[u] = queue[u]
        BY <1>2, <2>1, <3>1 DEF TypeOK
      <4>. QED
        BY <2>3, <4>1 DEF TasksPlaced
    <3>2. CASE u = t
      <4>1. queue'[t] = Append(queue[t], x)
        BY <1>2, <2>1 DEF TypeOK, x
      <4>2. /\ Len(queue[t]) \in Nat /\ Len(queue'[t]) = Len(queue[t]) + 1
            /\ \A j \in 1..Len(queue[t]) : queue'[t][j] = queue[t][j]
            /\ queue'[t][Len(queue[t]) + 1] = x
        BY <2>1, <2>2, <4>1, Appended
      <4>3. i \in 1..Len(queue[t]) \/ i = Len(queue[t]) + 1
        BY <3>2, <4>2
      <4>4. CASE i \in 1..Len(queue[t])
        BY <3>2, <4>2, <4>4 DEF TasksPlaced
      <4>5. CASE i = Len(queue[t]) + 1
        BY <1>2, <2>1, <3>2, <4>2, <4>5
      <4>. QED
        BY <4>3, <4>4, <4>5
    <3>. QED
      BY <3>1, <3>2
  <2>. QED
    BY <1>2, <2>3 DEF TasksPlaced
<1>3. ASSUME NEW t \in Threads, io[t].at # "idle", NEW p, IOGoto(t, p), UNCHANGED queue
      PROVE  TasksPlaced'
  <2>1. io'[t].block = t + 1 /\ \A u \in Threads : u # t => io'[u] = io[u]
    BY <1>3, InHand DEF IOGoto, TypeOK
  <2>. QED
    BY <1>3, <2>1 DEF TasksPlaced
<1>4. ASSUME NEW t \in Threads, IOEnd(t), UNCHANGED queue PROVE TasksPlaced'
  BY <1>4 DEF IOEnd, TasksPlaced, TypeOK
<1>5. ASSUME NEW w \in Workers, Take(w) \/ Request(w) PROVE TasksPlaced'
  <2>1. CASE PutSubmit(w)
    <3>1. block[w] \in Blocks \cup {NoBlock}
      BY DEF TypeOK
    <3>2. /\ FlushThread(block[w]) \in Threads \cup {NoBlock}
          /\ FlushThread(block[w]) \in Threads => block[w] = FlushThread(block[w]) + 1
      BY <3>1, Basics DEF FlushThread
    <3>. QED
      BY <2>1, <3>1, <3>2, <1>2 DEF PutSubmit, HandOver
  <2>2. CASE GetSubmit(w)
    <3>1. block[w] \in Blocks
      BY <2>2 DEF GetSubmit, LoadsAsked
    <3>2. LoadThread(block[w]) \in Threads /\ block[w] = LoadThread(block[w]) + 1
      BY <3>1, Basics DEF LoadThread
    <3>. QED
      BY <2>2, <3>1, <3>2, <1>2 DEF GetSubmit, fileVars
  <2>3. ASSUME ~PutSubmit(w), ~GetSubmit(w) PROVE UNCHANGED <<queue, io>>
    BY <1>5, <2>3 DEF Take, Request, PutAdd, PutFind, PutMark, GetWrite, GetLookup,
       GetHit, GetMiss, Del
  <2>. QED
    BY <2>1, <2>2, <2>3, <1>1
<1>6. ASSUME NEW t \in Threads, IOStep(t) PROVE TasksPlaced'
  <2>1. CASE IOTake(t)
    <3>1. queue[t] \in Seq(Tasks) /\ queue[t] # <<>>
      BY <2>1 DEF IOTake, TypeOK
    <3>2. /\ Head(queue[t]) = queue[t][1] /\ Len(queue[t]) \in Nat \ {0}
          /\ \A i \in 1..Len(Tail(queue[t])) :
               i + 1 \in 1..Len(queue[t]) /\ Tail(queue[t])[i] = queue[t][i + 1]
      BY <3>1, Popped
    <3>3. /\ queue'[t] = Tail(queue[t]) /\ io'[t] = Head(queue[t])
          /\ \A u \in Threads : u # t => queue'[u] = queue[u] /\ io'[u] = io[u]
      BY <2>1 DEF IOTake, TypeOK
    <3>4. 1 \in 1..Len(queue[t])
      BY <3>2
    <3>5. io'[t].block = t + 1
      BY <3>2, <3>3, <3>4 DEF TasksPlaced
    <3>6. \A i \in 1..Len(queue'[t]) :
            queue'[t][i].block = t + 1 /\ queue'[t][i].at \in {"flush", "load"}
      BY <3>2, <3>3 DEF TasksPlaced
    <3>. QED
      BY <3>3, <3>5, <3>6 DEF TasksPlaced
  <2>2. CASE FlushMap(t)
    BY <2>2, <1>3 DEF FlushMap, At
  <2>3. CASE FlushWrite(t)
    BY <2>3, <1>3 DEF FlushWrite, At
  <2>4. CASE FlushEmpty(t)
    BY <2>4, <1>4 DEF FlushEmpty
  <2>5. CASE LoadEmpty(t)
    BY <2>5, <1>3 DEF LoadEmpty, At
  <2>6. CASE LoadFill(t)
    BY <2>6, <1>4 DEF LoadFill
  <2>. QED
    BY <1>6, <2>1, <2>2, <2>3, <2>4, <2>5, <2>6 DEF IOStep
<1>7. CASE UNCHANGED vars
  BY <1>7, <1>1 DEF vars
<1>. QED
  BY <1>5, <1>6, <1>7 DEF Next

\* Only the holder of the lock has a flush, and a worker that has it is alone.
LEMMA LockOwner ==
  ASSUME LockMoves, PutOwnsLock
  PROVE  /\ \A t \in Threads : FlushAt(t) <=> wrLock = t + 1
         /\ \A t, u \in Threads : FlushAt(t) /\ FlushAt(u) => t = u
         /\ \A w \in Workers : pc[w] \in PutPlace =>
              /\ wrLock = w
              /\ \A t \in Threads : ~FlushAt(t)
              /\ \A v \in Workers : pc[v] \in PutPlace => v = w
         /\ wrLock = None =>
              /\ \A t \in Threads : ~FlushAt(t)
              /\ \A w \in Workers : pc[w] \notin PutPlace
         /\ \A t \in Threads, w \in Workers : FlushAt(t) => pc[w] \notin PutPlace
  BY Basics DEF LockMoves, PutOwnsLock

LEMMA LockStep ==
  TypeOK /\ TasksPlaced /\ LockMoves /\ PutOwnsLock /\ LoadsAsked /\ [Next]_vars => LockMoves'
<1>. SUFFICES ASSUME TypeOK, TasksPlaced, LockMoves, PutOwnsLock, LoadsAsked, [Next]_vars
              PROVE  LockMoves'
  OBVIOUS
<1>. USE DEF ioVars, cacheVars, fileVars, workerVars
<1>1. ASSUME UNCHANGED <<queue, io, wrLock>> PROVE LockMoves'
  BY <1>1 DEF LockMoves, OneFlush, FlushAt, Queued
<1>2. ASSUME NEW t \in Threads, UNCHANGED <<queue, wrLock>>,
             \A u \in Threads : u # t => io'[u] = io[u],
             io'[t].at \in FlushPlace <=> io[t].at \in FlushPlace
      PROVE  LockMoves'
  BY <1>2 DEF LockMoves, OneFlush, FlushAt, Queued
<1>3. ASSUME NEW w \in Workers, Take(w) \/ Request(w) PROVE LockMoves'
  <2>1. CASE PutAdd(w)
    <3>1. UNCHANGED <<queue, io>> /\ wrLock = None /\ wrLock' \in {None, w}
      BY <2>1 DEF PutAdd, KeepLock
    <3>2. \A t \in Threads : wrLock # t + 1 /\ wrLock' # t + 1
      BY <3>1, Basics
    <3>. QED
      BY <3>1, <3>2 DEF LockMoves, OneFlush, FlushAt, Queued
  <2>2. CASE PutSubmit(w)
    <3>. DEFINE b == block[w]
                s == FlushThread(block[w])
                x == Task("flush", block[w])
    <3>b. b \in Blocks \cup {NoBlock}
      BY DEF TypeOK
    <3>x. x \in Tasks /\ x.at = "flush"
      BY <3>b DEF Task, Tasks, FlushPlace
    <3>1. /\ s \in Threads \cup {NoBlock}
          /\ \A t \in Threads : t = s <=> b = t + 1
      BY <3>b, Basics DEF FlushThread
    <3>2. \A t \in Threads : ~FlushAt(t)
      BY <2>2, LockOwner DEF PutSubmit, HandOver, PutPlace
    <3>3. /\ queue' = [queue EXCEPT ![s] = Append(@, x)]
          /\ wrLock' = b /\ UNCHANGED io
      BY <2>2 DEF PutSubmit, HandOver
    <3>. HIDE DEF b, s, x
    <3>4. /\ s \in Threads => queue'[s] = Append(queue[s], x)
          /\ \A u \in Threads : u # s => queue'[u] = queue[u]
          /\ \A u \in Threads : \A kind :
               Queued(u, kind)' <=> Queued(u, kind) \/ (u = s /\ x.at = kind)
      BY <3>x, <3>1, <3>3, Submitted
    <3>5. ASSUME NEW t \in Threads PROVE OneFlush(t)'
      <4>1. Unique(queue[t]) /\ NoFlush(queue[t]) /\ queue[t] \in Seq(Tasks)
        BY <3>2 DEF LockMoves, OneFlush, FlushAt, Queued, NoFlush, TypeOK
      <4>2. Unique(queue'[t])
        BY <3>x, <3>1, <3>4, <4>1, UniqueAppended
      <4>3. io'[t].at \notin FlushPlace
        BY <3>2, <3>3 DEF FlushAt
      <4>. QED
        BY <4>2, <4>3 DEF OneFlush
    <3>6. ASSUME NEW t \in Threads PROVE FlushAt(t)' <=> wrLock' = t + 1
      BY <3>x, <3>1, <3>2, <3>3, <3>4 DEF FlushAt
    <3>. QED
      BY <3>5, <3>6 DEF LockMoves
  <2>3. CASE GetSubmit(w)
    <3>. DEFINE b == block[w]
                s == LoadThread(block[w])
    <3>1. /\ s \in Threads
          /\ Task("load", b) \in Tasks /\ Task("load", b).at = "load"
      BY <2>3, Basics DEF GetSubmit, LoadsAsked, LoadThread, Task, Tasks
    <3>2. /\ queue' = [queue EXCEPT ![s] = Append(@, Task("load", b))]
          /\ UNCHANGED <<wrLock, io>>
      BY <2>3 DEF GetSubmit
    <3>. HIDE DEF b, s
    <3>3. /\ queue'[s] = Append(queue[s], Task("load", b))
          /\ \A u \in Threads : u # s => queue'[u] = queue[u]
          /\ \A u \in Threads : Queued(u, "flush")' <=> Queued(u, "flush")
      BY <3>1, <3>2, Submitted
    <3>4. ASSUME NEW t \in Threads PROVE Unique(queue'[t])
      <4>1. Unique(queue[t]) /\ queue[t] \in Seq(Tasks)
        BY DEF LockMoves, OneFlush, TypeOK
      <4>. QED
        BY <3>1, <3>3, <4>1, UniqueAppended
    <3>. QED
      BY <3>2, <3>3, <3>4 DEF LockMoves, OneFlush, FlushAt
  <2>4. ASSUME ~PutAdd(w), ~PutSubmit(w), ~GetSubmit(w) PROVE UNCHANGED <<queue, io, wrLock>>
    BY <1>3, <2>4 DEF Take, Request, PutFind, PutMark, GetWrite, GetLookup, GetHit,
       GetMiss, Del
  <2>. QED
    BY <2>1, <2>2, <2>3, <2>4, <1>1
<1>4. ASSUME NEW t \in Threads, IOStep(t) PROVE LockMoves'
  <2>1. CASE IOTake(t)
    <3>1. /\ queue[t] # <<>> /\ queue' = [queue EXCEPT ![t] = Tail(@)]
          /\ io' = [io EXCEPT ![t] = Head(queue[t])] /\ UNCHANGED wrLock
          /\ io[t].at = "idle"
      BY <2>1 DEF IOTake, At
    <3>2. /\ queue[t] \in Seq(Tasks) /\ Unique(queue[t])
      BY DEF TypeOK, LockMoves, OneFlush
    <3>3. /\ queue'[t] = Tail(queue[t]) /\ \A u \in Threads : u # t => queue'[u] = queue[u]
          /\ \A u \in Threads : Queued(u, "flush")
               <=> Queued(u, "flush")' \/ (u = t /\ Head(queue[t]).at = "flush")
      BY <3>1, Taken
    <3>4. Unique(queue'[t]) /\ (Head(queue[t]).at = "flush" => NoFlush(queue'[t]))
      BY <3>1, <3>2, <3>3, UniqueTaken
    <3>5. Head(queue[t]).at \in {"flush", "load"}
      <4>1. Head(queue[t]) = queue[t][1] /\ 1 \in 1..Len(queue[t])
        BY <3>1, <3>2, Popped
      <4>. QED
        BY <4>1 DEF TasksPlaced
    <3>6. io'[t] = Head(queue[t]) /\ \A u \in Threads : u # t => io'[u] = io[u]
      BY <3>1 DEF TypeOK
    <3>7. io'[t].at \in FlushPlace <=> Head(queue[t]).at = "flush"
      BY <3>5, <3>6 DEF FlushPlace
    <3>8. ASSUME NEW u \in Threads PROVE OneFlush(u)'
      <4>1. CASE u = t
        BY <3>4, <3>7, <4>1 DEF OneFlush, NoFlush, Queued
      <4>2. CASE u # t
        BY <3>3, <3>6, <4>2 DEF LockMoves, OneFlush
      <4>. QED
        BY <4>1, <4>2
    <3>9. ASSUME NEW u \in Threads PROVE FlushAt(u)' <=> FlushAt(u)
      <4>1. io[t].at \notin FlushPlace
        BY <3>1 DEF FlushPlace
      <4>. QED
        BY <3>3, <3>6, <3>7, <4>1 DEF FlushAt
    <3>. QED
      BY <3>1, <3>8, <3>9 DEF LockMoves
  <2>2. ASSUME NEW p, io[t].at # "idle", IOGoto(t, p), UNCHANGED <<queue, wrLock>>,
               p \in FlushPlace <=> io[t].at \in FlushPlace
        PROVE  LockMoves'
    <3>1. io'[t].at = p /\ \A u \in Threads : u # t => io'[u] = io[u]
      BY <2>2, InHand DEF IOGoto, TypeOK
    <3>. QED
      BY <1>2, <2>2, <3>1
  <2>3. CASE FlushMap(t)
    BY <2>3, <2>2 DEF FlushMap, At, FlushPlace
  <2>4. CASE FlushWrite(t)
    BY <2>4, <2>2 DEF FlushWrite, At, FlushPlace
  <2>5. CASE FlushEmpty(t)
    <3>1. /\ io'[t] = Idle /\ \A u \in Threads : u # t => io'[u] = io[u]
          /\ wrLock' = None /\ UNCHANGED queue /\ io[t].at = "empty"
      BY <2>5 DEF FlushEmpty, IOEnd, At, TypeOK
    <3>2. /\ \A u \in Threads : FlushAt(u) => u = t
          /\ ~Queued(t, "flush")
      BY <3>1, LockOwner DEF FlushAt, FlushPlace, LockMoves, OneFlush
    <3>3. \A u \in Threads : ~FlushAt(u)'
      <4>1. io'[t].at = "idle"
        BY <3>1 DEF Idle, Task
      <4>. QED
        BY <3>1, <3>2, <4>1 DEF FlushAt, FlushPlace, Queued
    <3>4. \A u \in Threads : wrLock' # u + 1
      BY <3>1, Basics
    <3>. QED
      BY <3>1, <3>3, <3>4 DEF LockMoves, OneFlush, FlushAt
  <2>6. CASE LoadEmpty(t)
    BY <2>6, <2>2 DEF LoadEmpty, At, FlushPlace
  <2>7. CASE LoadFill(t)
    <3>1. io'[t].at = "idle" /\ \A u \in Threads : u # t => io'[u] = io[u]
      BY <2>7 DEF LoadFill, IOEnd, Idle, Task, TypeOK
    <3>. QED
      BY <1>2, <2>7, <3>1 DEF LoadFill, At, FlushPlace
  <2>. QED
    BY <1>4, <2>1, <2>3, <2>4, <2>5, <2>6, <2>7 DEF IOStep
<1>5. CASE UNCHANGED vars
  BY <1>5, <1>1 DEF vars
<1>. QED
  BY <1>3, <1>4, <1>5 DEF Next

LEMMA PutStep ==
  TypeOK /\ TasksPlaced /\ LockMoves /\ PutOwnsLock /\ [Next]_vars => PutOwnsLock'
<1>. SUFFICES ASSUME TypeOK, TasksPlaced, LockMoves, PutOwnsLock, [Next]_vars PROVE PutOwnsLock'
  OBVIOUS
<1>. USE DEF cacheVars, workerVars, Goto
<1>1. ASSUME UNCHANGED <<pc, wrLock>> PROVE PutOwnsLock'
  BY <1>1 DEF PutOwnsLock
<1>2. ASSUME NEW w \in Workers, NEW p, Goto(w, p), UNCHANGED wrLock,
             p \in PutPlace <=> pc[w] \in PutPlace
      PROVE  PutOwnsLock'
  BY <1>2 DEF PutOwnsLock, TypeOK
<1>3. ASSUME NEW w \in Workers, Take(w) \/ Request(w) PROVE PutOwnsLock'
  <2>1. CASE PutAdd(w)
    <3>1. /\ wrLock = None /\ pc[w] = "taken"
          /\ \/ pc' = [pc EXCEPT ![w] = "idle"] /\ wrLock' = None
             \/ pc' = [pc EXCEPT ![w] = "find"] /\ wrLock' = w
      BY <2>1 DEF PutAdd, KeepLock
    <3>2. \A v \in Workers : pc[v] \notin PutPlace /\ v # None
      BY <3>1, LockOwner, Basics
    <3>. QED
      BY <3>1, <3>2 DEF PutOwnsLock, PutPlace, TypeOK
  <2>2. CASE PutSubmit(w)
    <3>1. /\ pc[w] = "submit" /\ pc' = [pc EXCEPT ![w] = "idle"] /\ wrLock' = block[w]
          /\ block[w] \in Blocks \cup {NoBlock}
      BY <2>2 DEF PutSubmit, HandOver, TypeOK
    <3>2. \A v \in Workers : (pc[v] \in PutPlace => v = w) /\ wrLock' # v
      BY <3>1, LockOwner, Basics DEF PutPlace
    <3>. QED
      BY <3>1, <3>2 DEF PutOwnsLock, PutPlace, TypeOK
  <2>3. CASE PutFind(w) \/ PutMark(w)
    BY <2>3, <1>2 DEF PutFind, PutMark, PutPlace
  <2>4. CASE Take(w) \/ GetWrite(w) \/ GetHit(w) \/ GetMiss(w) \/ GetSubmit(w) \/ Del(w)
    BY <2>4, <1>2 DEF Take, GetWrite, GetHit, GetMiss, GetSubmit, Del, PutPlace
  <2>5. CASE GetLookup(w)
    <3>1. PICK p \in {"idle", "hit", "miss"} : Goto(w, p)
      BY <2>5 DEF GetLookup
    <3>. QED
      BY <2>5, <3>1, <1>2 DEF GetLookup, PutPlace
  <2>. QED
    BY <1>3, <2>1, <2>2, <2>3, <2>4, <2>5 DEF Request
<1>4. ASSUME NEW t \in Threads, IOStep(t) PROVE PutOwnsLock'
  <2>1. CASE FlushEmpty(t)
    <3>1. FlushAt(t) /\ wrLock' = None /\ UNCHANGED pc
      BY <2>1 DEF FlushEmpty, FlushAt, At, FlushPlace
    <3>. QED
      BY <3>1, LockOwner, Basics DEF PutOwnsLock
  <2>2. ASSUME ~FlushEmpty(t) PROVE UNCHANGED <<pc, wrLock>>
    BY <1>4, <2>2 DEF IOStep, IOTake, FlushMap, FlushWrite, LoadEmpty, LoadFill
  <2>. QED
    BY <2>1, <2>2, <1>1
<1>5. CASE UNCHANGED vars
  BY <1>5, <1>1 DEF vars
<1>. QED
  BY <1>3, <1>4, <1>5 DEF Next

-----------------------------------------------------------------------------
(* The life of a block.                                                    *)

\* A flush belongs to a block in use, and no worker is in the second half of put.
LEMMA FlushAlone ==
  ASSUME LockMoves, PutOwnsLock, FreshBlocks, NEW t \in Threads, FlushAt(t)
  PROVE  /\ wrLock = t + 1 /\ t + 1 \in Blocks /\ t + 1 \in blockUsageTable
         /\ \A w \in Workers : pc[w] \notin PutPlace
         /\ \A u \in Threads : FlushAt(u) => u = t
<1>1. wrLock = t + 1 /\ t + 1 \in Blocks
  BY LockOwner, Basics
<1>2. t + 1 \in blockUsageTable
  BY <1>1 DEF FreshBlocks, Untouched
<1>. QED
  BY <1>1, <1>2, LockOwner

LEMMA FreshStep ==
  TypeOK /\ TasksPlaced /\ LockMoves /\ PutOwnsLock /\ FreshBlocks /\ [Next]_vars => FreshBlocks'
<1>. SUFFICES ASSUME TypeOK, TasksPlaced, LockMoves, PutOwnsLock, FreshBlocks, [Next]_vars
              PROVE  FreshBlocks'
  OBVIOUS
<1>. USE DEF ioVars, cacheVars, fileVars, workerVars, Goto
<1>1. ASSUME UNCHANGED <<disk, keyBlockMap, wrLock, blockUsageTable, pc, block>>
      PROVE  FreshBlocks'
  BY <1>1 DEF FreshBlocks, Untouched, Unwritten
<1>2. ASSUME NEW w \in Workers, UNCHANGED <<disk, keyBlockMap, wrLock, blockUsageTable>>,
             \A v \in Workers : v # w => pc'[v] = pc[v] /\ block'[v] = block[v],
             pc'[w] \notin {"mark", "submit"}
      PROVE  FreshBlocks'
  BY <1>2 DEF FreshBlocks, Untouched, Unwritten
<1>3. ASSUME NEW w \in Workers, Take(w) \/ Request(w) PROVE FreshBlocks'
  <2>1. CASE PutAdd(w)
    <3>1. /\ wrLock' \notin Blocks /\ UNCHANGED <<disk, keyBlockMap, blockUsageTable, block>>
          /\ \A v \in Workers : v # w => pc'[v] = pc[v]
          /\ pc'[w] \notin {"mark", "submit"}
      BY <2>1, Basics DEF PutAdd, KeepLock, TypeOK
    <3>. QED
      BY <3>1 DEF FreshBlocks, Untouched, Unwritten
  <2>2. CASE PutFind(w)
    <3>1. /\ UNCHANGED <<disk, keyBlockMap, wrLock, blockUsageTable>>
          /\ pc'[w] = "mark" /\ block'[w] = FreeBlock
          /\ \A v \in Workers : v # w => pc'[v] = pc[v] /\ block'[v] = block[v]
      BY <2>2 DEF PutFind, TypeOK
    <3>2. FreeBlock \in Blocks => FreeBlock \notin blockUsageTable
      BY FreeBlockIsFree DEF TypeOK
    <3>. QED
      BY <3>1, <3>2 DEF FreshBlocks, Untouched, Unwritten
  <2>3. CASE PutMark(w)
    <3>1. /\ UNCHANGED <<disk, keyBlockMap, wrLock, block>>
          /\ blockUsageTable' = blockUsageTable \cup ({block[w]} \ {NoBlock})
          /\ pc[w] = "mark" /\ pc'[w] = "submit"
          /\ \A v \in Workers : v # w => pc'[v] = pc[v]
      BY <2>3 DEF PutMark, MarkUsed, TypeOK
    <3>2. \A v \in Workers : pc[v] \in PutPlace => v = w
      BY <3>1, LockOwner DEF PutPlace
    <3>3. block[w] \in Blocks =>
            /\ block[w] \in Blocks \ blockUsageTable /\ block[w] \in blockUsageTable'
            /\ Untouched(block[w])
      BY <3>1, Basics DEF FreshBlocks
    <3>4. \A b : Untouched(b) => Untouched(b)'
      BY <3>1 DEF Untouched, Unwritten
    <3>. QED
      BY <3>1, <3>2, <3>3, <3>4 DEF FreshBlocks, PutPlace
  <2>4. CASE PutSubmit(w)
    <3>1. /\ UNCHANGED <<disk, keyBlockMap, blockUsageTable>>
          /\ pc[w] = "submit" /\ pc'[w] = "idle" /\ wrLock' = block[w]
          /\ \A v \in Workers : v # w => pc'[v] = pc[v] /\ block'[v] = block[v]
      BY <2>4 DEF PutSubmit, HandOver, TypeOK
    <3>2. \A v \in Workers : v # w => pc[v] \notin PutPlace
      BY <3>1, LockOwner DEF PutPlace
    <3>3. wrLock' \in Blocks => wrLock' \in blockUsageTable
      BY <3>1 DEF FreshBlocks
    <3>. QED
      BY <3>1, <3>2, <3>3 DEF FreshBlocks, Untouched, Unwritten, PutPlace
  <2>5. CASE Take(w) \/ GetWrite(w) \/ GetMiss(w) \/ GetHit(w) \/ GetSubmit(w) \/ Del(w)
    <3>1. UNCHANGED <<disk, keyBlockMap, wrLock, blockUsageTable>>
      BY <2>5 DEF Take, GetWrite, GetMiss, GetHit, GetSubmit, Del
    <3>2. /\ \A v \in Workers : v # w => pc'[v] = pc[v] /\ block'[v] = block[v]
          /\ pc'[w] \notin {"mark", "submit"}
      BY <2>5 DEF Take, GetWrite, GetMiss, GetHit, GetSubmit, Del, TypeOK
    <3>. QED
      BY <3>1, <3>2, <1>2
  <2>6. CASE GetLookup(w)
    <3>1. UNCHANGED <<disk, keyBlockMap, wrLock, blockUsageTable>>
      BY <2>6 DEF GetLookup
    <3>2. PICK p \in {"idle", "hit", "miss"} : pc' = [pc EXCEPT ![w] = p]
      BY <2>6 DEF GetLookup
    <3>3. /\ \A v \in Workers : v # w => pc'[v] = pc[v] /\ block'[v] = block[v]
          /\ pc'[w] \notin {"mark", "submit"}
      BY <2>6, <3>2 DEF GetLookup, TypeOK
    <3>. QED
      BY <3>1, <3>3, <1>2
  <2>. QED
    BY <1>3, <2>1, <2>2, <2>3, <2>4, <2>5, <2>6 DEF Request
<1>4. ASSUME NEW t \in Threads, IOStep(t) PROVE FreshBlocks'
  <2>1. CASE FlushMap(t)
    <3>1. /\ FlushAt(t) /\ io[t].at # "idle" /\ keyBlockMap' = Mapped(write, io[t].block)
          /\ UNCHANGED <<disk, wrLock, blockUsageTable, pc, block>>
      BY <2>1 DEF FlushMap, FlushAt, At, FlushPlace
    <3>2. /\ io[t].block = t + 1 /\ t + 1 \in blockUsageTable
          /\ \A w \in Workers : pc[w] \notin PutPlace
      BY <3>1, InHand, FlushAlone
    <3>3. \A k \in Keys : keyBlockMap'[k] \in {keyBlockMap[k], t + 1}
      BY <3>1, <3>2 DEF Mapped
    <3>. QED
      BY <3>1, <3>2, <3>3 DEF FreshBlocks, Untouched, Unwritten, PutPlace
  <2>2. CASE FlushWrite(t)
    <3>1. /\ FlushAt(t) /\ io[t].at # "idle" /\ disk' = [disk EXCEPT ![io[t].block] = write]
          /\ UNCHANGED <<keyBlockMap, wrLock, blockUsageTable, pc, block>>
      BY <2>2 DEF FlushWrite, FlushAt, At, FlushPlace
    <3>2. /\ io[t].block = t + 1 /\ t + 1 \in blockUsageTable
          /\ \A w \in Workers : pc[w] \notin PutPlace
      BY <3>1, InHand, FlushAlone
    <3>3. \A b \in Blocks : b # t + 1 => disk'[b] = disk[b]
      BY <3>1, <3>2 DEF TypeOK
    <3>. QED
      BY <3>1, <3>2, <3>3 DEF FreshBlocks, Untouched, Unwritten, PutPlace
  <2>3. CASE FlushEmpty(t)
    <3>1. UNCHANGED <<disk, keyBlockMap, blockUsageTable, pc, block>> /\ wrLock' \notin Blocks
      BY <2>3, Basics DEF FlushEmpty
    <3>. QED
      BY <3>1 DEF FreshBlocks, Untouched, Unwritten
  <2>4. ASSUME ~FlushMap(t), ~FlushWrite(t), ~FlushEmpty(t)
        PROVE  UNCHANGED <<disk, keyBlockMap, wrLock, blockUsageTable, pc, block>>
    BY <1>4, <2>4 DEF IOStep, IOTake, LoadEmpty, LoadFill
  <2>. QED
    BY <2>1, <2>2, <2>3, <2>4, <1>1
<1>5. CASE UNCHANGED vars
  BY <1>5, <1>1 DEF vars
<1>. QED
  BY <1>3, <1>4, <1>5 DEF Next

LEMMA StagesStep ==
  TypeOK /\ TasksPlaced /\ LockMoves /\ PutOwnsLock /\ LoadsAsked /\ FreshBlocks /\ FlushStages
    /\ [Next]_vars /\ LockMoves' => FlushStages'
<1>. SUFFICES ASSUME TypeOK, TasksPlaced, LockMoves, PutOwnsLock, LoadsAsked, FreshBlocks,
                     FlushStages, [Next]_vars, LockMoves'
              PROVE  \A t \in Threads : Stages(t)'
  BY DEF FlushStages
<1>. USE DEF ioVars, cacheVars, fileVars, workerVars
<1>s. \A t \in Threads : Stages(t)
  BY DEF FlushStages
<1>n. ASSUME NEW t \in Threads, ~FlushAt(t)' PROVE Stages(t)'
  BY <1>n DEF Stages, FlushAt, FlushPlace, At
<1>1. ASSUME UNCHANGED <<disk, keyBlockMap, write, io, queue>>
      PROVE  \A t \in Threads : Stages(t)'
  BY <1>1, <1>s DEF Stages, At, Queued, Unwritten
<1>2. ASSUME NEW w \in Workers, Take(w) \/ Request(w) PROVE \A t \in Threads : Stages(t)'
  <2>1. CASE PutAdd(w) \/ Del(w)
    <3>1. wrLock = None /\ UNCHANGED <<io, queue>>
      BY <2>1 DEF PutAdd, Del
    <3>2. \A t \in Threads : ~FlushAt(t)
      BY <3>1, LockOwner
    <3>3. \A t \in Threads : ~FlushAt(t)'
      BY <3>1, <3>2 DEF FlushAt, Queued
    <3>. QED
      BY <3>3, <1>n
  <2>2. CASE PutSubmit(w)
    <3>1. /\ pc[w] = "submit" /\ wrLock' = block[w]
          /\ UNCHANGED <<disk, keyBlockMap, write, io>>
      BY <2>2 DEF PutSubmit, HandOver
    <3>2. \A t \in Threads : ~FlushAt(t)
      BY <3>1, LockOwner DEF PutPlace
    <3>. SUFFICES ASSUME NEW t \in Threads, FlushAt(t)' PROVE Stages(t)'
      BY <1>n
    <3>3. block[w] = t + 1
      BY <3>1 DEF LockMoves
    <3>4. Unwritten(t + 1)'
      BY <3>1, <3>3, Basics DEF FreshBlocks, Untouched, Unwritten
    <3>5. io'[t].at \notin FlushPlace
      BY <3>1, <3>2 DEF FlushAt
    <3>. QED
      BY <3>4, <3>5 DEF Stages, At, FlushPlace
  <2>3. CASE GetSubmit(w)
    <3>. DEFINE s == LoadThread(block[w])
                x == Task("load", block[w])
    <3>1. s \in Threads /\ x \in Tasks /\ x.at = "load"
      BY <2>3, Basics DEF GetSubmit, LoadsAsked, LoadThread, Task, Tasks
    <3>2. /\ queue' = [queue EXCEPT ![s] = Append(@, x)]
          /\ UNCHANGED <<disk, keyBlockMap, write, io>>
      BY <2>3 DEF GetSubmit
    <3>. HIDE DEF s, x
    <3>3. \A t \in Threads : \A kind :
            Queued(t, kind)' <=> Queued(t, kind) \/ (t = s /\ x.at = kind)
      BY <3>1, <3>2, Submitted
    <3>4. \A t \in Threads : Queued(t, "flush")' <=> Queued(t, "flush")
      BY <3>1, <3>3
    <3>. QED
      BY <3>2, <3>4, <1>s DEF Stages, At, Unwritten
  <2>4. ASSUME ~PutAdd(w), ~Del(w), ~PutSubmit(w), ~GetSubmit(w)
        PROVE  UNCHANGED <<disk, keyBlockMap, write, io, queue>>
    BY <1>2, <2>4
       DEF Take, Request, PutFind, PutMark, GetWrite, GetLookup, GetHit, GetMiss
  <2>. QED
    BY <2>1, <2>2, <2>3, <2>4, <1>1
<1>3. ASSUME NEW t \in Threads, IOStep(t) PROVE \A u \in Threads : Stages(u)'
  <2>1. CASE IOTake(t)
    <3>1. /\ queue[t] # <<>> /\ queue' = [queue EXCEPT ![t] = Tail(@)]
          /\ UNCHANGED <<disk, keyBlockMap, write>>
      BY <2>1 DEF IOTake
    <3>2. io'[t] = Head(queue[t]) /\ \A u \in Threads : u # t => io'[u] = io[u]
      BY <2>1 DEF IOTake, TypeOK
    <3>3. \A u \in Threads : \A kind :
            Queued(u, kind) <=> Queued(u, kind)' \/ (u = t /\ Head(queue[t]).at = kind)
      BY <3>1, Taken
    <3>4. Head(queue[t]).at \in {"flush", "load"}
      <4>1. queue[t] \in Seq(Tasks)
        BY DEF TypeOK
      <4>2. Head(queue[t]) = queue[t][1] /\ 1 \in 1..Len(queue[t])
        BY <3>1, <4>1, Popped
      <4>. QED
        BY <4>2 DEF TasksPlaced
    <3>5. \A u \in Threads : Queued(u, "flush")' \/ At(u, "flush")'
                               => Queued(u, "flush") \/ At(u, "flush")
      BY <3>2, <3>3 DEF At
    <3>6. \A u \in Threads : (At(u, "serialize")' => At(u, "serialize"))
                               /\ (At(u, "empty")' => At(u, "empty"))
      BY <3>2, <3>4 DEF At
    <3>. QED
      BY <3>1, <3>5, <3>6, <1>s DEF Stages, Unwritten
  <2>2. ASSUME NEW p, io[t].at # "idle", IOGoto(t, p)
        PROVE  io'[t].at = p /\ \A u \in Threads : u # t => io'[u] = io[u]
    BY <2>2, InHand DEF IOGoto, TypeOK
  <2>3. CASE FlushMap(t)
    <3>1. /\ FlushAt(t) /\ io[t].at = "flush" /\ IOGoto(t, "serialize")
          /\ keyBlockMap' = Mapped(write, io[t].block)
          /\ UNCHANGED <<disk, write, wrLock, queue>>
      BY <2>3 DEF FlushMap, FlushAt, At, FlushPlace
    <3>2. /\ io[t].block = t + 1 /\ io'[t].at = "serialize" /\ Unwritten(t + 1)
          /\ t + 1 # NoBlock
      BY <3>1, <2>2, InHand, Basics, <1>s DEF Stages, At
    <3>3. \A k \in Keys : keyBlockMap'[k] = IF write[k] # Absent /\ keyBlockMap[k] = NoBlock
                                           THEN t + 1 ELSE keyBlockMap[k]
      BY <3>1, <3>2 DEF Mapped, Nodes
    <3>. SUFFICES ASSUME NEW u \in Threads, FlushAt(u)' PROVE Stages(u)'
      BY <1>n
    <3>4. u = t
      BY <3>1, Basics DEF LockMoves
    <3>5. ~Queued(t, "flush")'
      BY <3>2, <3>4 DEF LockMoves, OneFlush, FlushPlace
    <3>. QED
      BY <3>1, <3>2, <3>3, <3>4, <3>5 DEF Stages, At, Unwritten
  <2>4. CASE FlushWrite(t)
    <3>1. /\ FlushAt(t) /\ io[t].at = "serialize" /\ IOGoto(t, "empty")
          /\ disk' = [disk EXCEPT ![io[t].block] = write]
          /\ UNCHANGED <<keyBlockMap, write, wrLock, queue>>
      BY <2>4 DEF FlushWrite, FlushAt, At, FlushPlace
    <3>2. /\ io[t].block = t + 1 /\ t + 1 \in Blocks /\ io'[t].at = "empty"
      BY <3>1, <2>2, InHand, Basics
    <3>3. disk'[t + 1] = write
      BY <3>1, <3>2 DEF TypeOK
    <3>. SUFFICES ASSUME NEW u \in Threads, FlushAt(u)' PROVE Stages(u)'
      BY <1>n
    <3>4. u = t
      BY <3>1, Basics DEF LockMoves
    <3>5. ~Queued(t, "flush")'
      BY <3>2, <3>4 DEF LockMoves, OneFlush, FlushPlace
    <3>. QED
      BY <3>1, <3>2, <3>3, <3>4, <3>5, <1>s DEF Stages, At
  <2>5. CASE FlushEmpty(t)
    <3>1. wrLock' = None
      BY <2>5 DEF FlushEmpty
    <3>2. \A u \in Threads : ~FlushAt(u)'
      BY <3>1, Basics DEF LockMoves
    <3>. QED
      BY <3>2, <1>n
  <2>6. CASE LoadEmpty(t) \/ LoadFill(t)
    <3>1. /\ UNCHANGED <<disk, keyBlockMap, write, queue>>
          /\ io'[t].at \in {"fill", "idle"} /\ \A u \in Threads : u # t => io'[u] = io[u]
      BY <2>6, <2>2 DEF LoadEmpty, LoadFill, IOEnd, Idle, Task, At, TypeOK
    <3>. QED
      BY <3>1, <1>s DEF Stages, At, Unwritten, Queued
  <2>. QED
    BY <1>3, <2>1, <2>3, <2>4, <2>5, <2>6 DEF IOStep
<1>4. CASE UNCHANGED vars
  BY <1>4, <1>1 DEF vars
<1>. QED
  BY <1>2, <1>3, <1>4 DEF Next

-----------------------------------------------------------------------------
(* The keys and their blocks.                                              *)

LEMMA LoadsStep == TypeOK /\ TasksPlaced /\ LoadsAsked /\ [Next]_vars => LoadsAsked'
<1>. SUFFICES ASSUME TypeOK, TasksPlaced, LoadsAsked, [Next]_vars PROVE LoadsAsked'
  OBVIOUS
<1>. USE DEF ioVars, cacheVars, fileVars, workerVars, Goto
<1>1. ASSUME UNCHANGED <<keyBlockMap, pc, key, block, io, queue>> PROVE LoadsAsked'
  BY <1>1 DEF LoadsAsked, Asked, Queued
<1>2. ASSUME NEW w \in Workers, UNCHANGED <<keyBlockMap, io, queue>>,
             \A v \in Workers : v # w => pc'[v] = pc[v] /\ key'[v] = key[v] /\ block'[v] = block[v],
             pc'[w] = "lookup" => key'[w] \in Keys,
             pc'[w] \in {"hit", "miss", "load"} => block'[w] \in Blocks /\ Asked(block'[w])
      PROVE  LoadsAsked'
  BY <1>2 DEF LoadsAsked, Asked, Queued
<1>3. ASSUME NEW w \in Workers, Take(w) \/ Request(w) PROVE LoadsAsked'
  <2>1. CASE Take(w) \/ PutAdd(w) \/ PutFind(w) \/ PutMark(w) \/ GetHit(w) \/ Del(w)
    <3>1. UNCHANGED <<keyBlockMap, io, queue>>
      BY <2>1 DEF Take, PutAdd, PutFind, PutMark, GetHit, Del
    <3>2. /\ \A v \in Workers : v # w => pc'[v] = pc[v] /\ key'[v] = key[v] /\ block'[v] = block[v]
          /\ pc'[w] \notin {"lookup", "hit", "miss", "load"}
      BY <2>1 DEF Take, PutAdd, PutFind, PutMark, GetHit, Del, TypeOK
    <3>. QED
      BY <3>1, <3>2, <1>2
  <2>2. CASE PutSubmit(w)
    <3>. DEFINE s == FlushThread(block[w])
                x == Task("flush", block[w])
    <3>1. s \in Threads \cup {NoBlock} /\ x \in Tasks /\ x.at = "flush"
      BY Basics DEF TypeOK, FlushThread, Task, Tasks, FlushPlace
    <3>2. /\ queue' = [queue EXCEPT ![s] = Append(@, x)]
          /\ UNCHANGED <<keyBlockMap, io, key>>
          /\ pc'[w] = "idle"
          /\ \A v \in Workers : v # w => pc'[v] = pc[v] /\ block'[v] = block[v]
      BY <2>2 DEF PutSubmit, HandOver, TypeOK
    <3>. HIDE DEF s, x
    <3>3. \A t \in Threads : \A kind :
            Queued(t, kind)' <=> Queued(t, kind) \/ (t = s /\ x.at = kind)
      BY <3>1, <3>2, Submitted
    <3>4. \A t \in Threads : Queued(t, "load")' <=> Queued(t, "load")
      BY <3>1, <3>3
    <3>. QED
      BY <3>2, <3>4 DEF LoadsAsked, Asked
  <2>3. CASE GetWrite(w)
    <3>0. UNCHANGED <<keyBlockMap, io, queue, block>>
      BY <2>3 DEF GetWrite
    <3>1. CASE pc' = [pc EXCEPT ![w] = "idle"] /\ UNCHANGED key
      BY <3>0, <3>1, <1>2 DEF TypeOK
    <3>2. ASSUME NEW k \in Keys, key' = [key EXCEPT ![w] = k],
                 pc' = [pc EXCEPT ![w] = "lookup"]
          PROVE  LoadsAsked'
      BY <3>0, <3>2, <1>2 DEF TypeOK
    <3>. QED
      BY <2>3, <3>1, <3>2 DEF GetWrite, Nodes
  <2>4. CASE GetLookup(w)
    <3>. DEFINE b == keyBlockMap[key[w]]
    <3>1. /\ key[w] \in Keys /\ b \in Blocks \cup {NoBlock} /\ b = keyBlockMap[key[w]]
          /\ UNCHANGED <<keyBlockMap, io, queue>>
          /\ block' = [block EXCEPT ![w] = b] /\ key' = [key EXCEPT ![w] = None]
          /\ pc' = [pc EXCEPT ![w] = CASE b = NoBlock -> "idle"
                      [] b # NoBlock /\ b = currentReadBlock -> "hit"
                      [] OTHER -> "miss"]
      BY <2>4 DEF GetLookup, LoadsAsked, TypeOK
    <3>. HIDE DEF b
    <3>2. CASE b = NoBlock
      BY <3>1, <3>2, <1>2 DEF TypeOK
    <3>3. CASE b # NoBlock
      <4>1. PICK p \in {"hit", "miss"} : pc' = [pc EXCEPT ![w] = p]
        BY <3>1, <3>3
      <4>2. b \in Blocks /\ Asked(b)
        BY <3>1, <3>3 DEF Asked
      <4>. QED
        BY <3>1, <4>1, <4>2, <1>2 DEF TypeOK
    <3>. QED
      BY <3>2, <3>3
  <2>5. CASE GetMiss(w)
    <3>1. /\ UNCHANGED <<keyBlockMap, io, queue, key, block>>
          /\ pc[w] = "miss" /\ pc'[w] = "load"
          /\ \A v \in Workers : v # w => pc'[v] = pc[v]
      BY <2>5 DEF GetMiss, TypeOK
    <3>. QED
      BY <3>1, <1>2 DEF LoadsAsked
  <2>6. CASE GetSubmit(w)
    <3>. DEFINE s == LoadThread(block[w])
                x == Task("load", block[w])
    <3>0. block[w] \in Blocks /\ Asked(block[w])
      BY <2>6 DEF GetSubmit, LoadsAsked
    <3>1. s \in Threads /\ s + 1 = block[w] /\ x \in Tasks /\ x.at = "load"
      BY <3>0, Basics DEF LoadThread, Task, Tasks
    <3>2. /\ queue' = [queue EXCEPT ![s] = Append(@, x)]
          /\ UNCHANGED <<keyBlockMap, io, key>>
          /\ pc'[w] = "idle"
          /\ \A v \in Workers : v # w => pc'[v] = pc[v] /\ block'[v] = block[v]
      BY <2>6 DEF GetSubmit, TypeOK
    <3>3. Asked(s + 1)
      BY <3>0, <3>1
    <3>. HIDE DEF s, x
    <3>4. \A t \in Threads : \A kind :
            Queued(t, kind)' <=> Queued(t, kind) \/ (t = s /\ x.at = kind)
      BY <3>1, <3>2, Submitted
    <3>5. \A t \in Threads : Queued(t, "load")' => Queued(t, "load") \/ t = s
      BY <3>1, <3>4
    <3>. QED
      BY <3>2, <3>3, <3>5 DEF LoadsAsked, Asked
  <2>. QED
    BY <1>3, <2>1, <2>2, <2>3, <2>4, <2>5, <2>6 DEF Request
<1>4. ASSUME NEW t \in Threads, IOStep(t) PROVE LoadsAsked'
  <2>1. CASE IOTake(t)
    <3>1. /\ queue[t] # <<>> /\ queue' = [queue EXCEPT ![t] = Tail(@)]
          /\ UNCHANGED <<keyBlockMap, pc, key, block>>
      BY <2>1 DEF IOTake
    <3>2. io'[t] = Head(queue[t]) /\ \A u \in Threads : u # t => io'[u] = io[u]
      BY <2>1 DEF IOTake, TypeOK
    <3>3. \A u \in Threads : \A kind :
            Queued(u, kind) <=> Queued(u, kind)' \/ (u = t /\ Head(queue[t]).at = kind)
      BY <3>1, Taken
    <3>4. Head(queue[t]).at \in {"flush", "load"}
      <4>1. queue[t] \in Seq(Tasks)
        BY DEF TypeOK
      <4>2. Head(queue[t]) = queue[t][1] /\ 1 \in 1..Len(queue[t])
        BY <3>1, <4>1, Popped
      <4>. QED
        BY <4>2 DEF TasksPlaced
    <3>5. \A u \in Threads : Queued(u, "load")' \/ io'[u].at \in {"load", "fill"}
                               => Queued(u, "load") \/ io[u].at \in {"load", "fill"}
      BY <3>2, <3>3, <3>4
    <3>. QED
      BY <3>1, <3>5 DEF LoadsAsked, Asked
  <2>2. ASSUME NEW p, io[t].at # "idle", IOGoto(t, p)
        PROVE  io'[t].at = p /\ \A u \in Threads : u # t => io'[u] = io[u]
    BY <2>2, InHand DEF IOGoto, TypeOK
  <2>3. CASE FlushMap(t)
    <3>1. /\ io[t].at = "flush" /\ keyBlockMap' = Mapped(write, io[t].block)
          /\ UNCHANGED <<queue, pc, key, block>>
          /\ io'[t].at = "serialize" /\ \A u \in Threads : u # t => io'[u] = io[u]
      BY <2>3, <2>2 DEF FlushMap, At
    <3>2. \A k \in Keys : keyBlockMap[k] # NoBlock => keyBlockMap'[k] = keyBlockMap[k]
      BY <3>1 DEF Mapped
    <3>3. \A b \in Blocks : Asked(b) => Asked(b)'
      BY <3>2, Basics DEF Asked
    <3>. QED
      BY <3>1, <3>3, Basics DEF LoadsAsked, Queued
  <2>4. CASE FlushWrite(t) \/ FlushEmpty(t) \/ LoadEmpty(t) \/ LoadFill(t)
    <3>1. /\ UNCHANGED <<keyBlockMap, pc, key, block, queue>>
          /\ io'[t].at \in {"empty", "idle", "fill"}
          /\ io'[t].at = "fill" => io[t].at = "load"
          /\ \A u \in Threads : u # t => io'[u] = io[u]
      BY <2>4, <2>2
         DEF FlushWrite, FlushEmpty, LoadEmpty, LoadFill, IOEnd, Idle, Task, At,
             TypeOK
    <3>. QED
      BY <3>1 DEF LoadsAsked, Asked, Queued
  <2>. QED
    BY <1>4, <2>1, <2>3, <2>4 DEF IOStep
<1>5. CASE UNCHANGED vars
  BY <1>5, <1>1 DEF vars
<1>. QED
  BY <1>3, <1>4, <1>5 DEF Next

LEMMA KeyStep ==
  TypeOK /\ TasksPlaced /\ LockMoves /\ PutOwnsLock /\ FreshBlocks /\ FlushStages /\ KeyOnItsBlock
    /\ [Next]_vars => KeyOnItsBlock'
<1>. SUFFICES ASSUME TypeOK, TasksPlaced, LockMoves, PutOwnsLock, FreshBlocks, FlushStages,
                     KeyOnItsBlock, [Next]_vars
              PROVE  KeyOnItsBlock'
  OBVIOUS
<1>. USE DEF ioVars, cacheVars, fileVars, workerVars
<1>t. \A k \in Keys : keyBlockMap[k] \in Blocks \cup {NoBlock}
  BY DEF TypeOK
<1>1. ASSUME UNCHANGED <<keyBlockMap, disk, wrLock, write>> PROVE KeyOnItsBlock'
  BY <1>1 DEF KeyOnItsBlock
<1>2. ASSUME wrLock \notin Blocks, UNCHANGED <<keyBlockMap, disk>> PROVE KeyOnItsBlock'
  BY <1>2, <1>t DEF KeyOnItsBlock
<1>3. ASSUME NEW w \in Workers, Take(w) \/ Request(w) PROVE KeyOnItsBlock'
  <2>1. CASE PutAdd(w) \/ Del(w)
    BY <2>1, <1>2, Basics DEF PutAdd, Del
  <2>2. CASE PutSubmit(w)
    <3>1. wrLock = w
      BY <2>2, LockOwner DEF PutSubmit, HandOver, PutPlace
    <3>. QED
      BY <2>2, <3>1, <1>2, Basics DEF PutSubmit, HandOver
  <2>3. ASSUME ~PutAdd(w), ~Del(w), ~PutSubmit(w)
        PROVE  UNCHANGED <<keyBlockMap, disk, wrLock, write>>
    BY <1>3, <2>3
       DEF Take, Request, PutFind, PutMark, GetWrite, GetLookup, GetHit, GetMiss,
       GetSubmit
  <2>. QED
    BY <2>1, <2>2, <2>3, <1>1
<1>4. ASSUME NEW t \in Threads, IOStep(t) PROVE KeyOnItsBlock'
  <2>. DEFINE b == t + 1
  <2>1. CASE FlushMap(t)
    <3>1. /\ FlushAt(t) /\ io[t].at # "idle" /\ keyBlockMap' = Mapped(write, io[t].block)
          /\ UNCHANGED <<disk, write, wrLock>>
      BY <2>1 DEF FlushMap, FlushAt, At, FlushPlace
    <3>2. io[t].block = b /\ wrLock = b
      BY <3>1, InHand, FlushAlone
    <3>3. \A k \in Keys :
            \/ keyBlockMap'[k] = keyBlockMap[k]
            \/ keyBlockMap'[k] = b /\ write[k] # Absent
      BY <3>1, <3>2 DEF Mapped, Nodes
    <3>. QED
      BY <3>1, <3>2, <3>3 DEF KeyOnItsBlock
  <2>2. CASE FlushWrite(t)
    <3>1. /\ FlushAt(t) /\ io[t].at = "serialize"
          /\ disk' = [disk EXCEPT ![io[t].block] = write]
          /\ UNCHANGED <<keyBlockMap, wrLock, write>>
      BY <2>2 DEF FlushWrite, FlushAt, At, FlushPlace
    <3>2. io[t].block = b /\ b \in Blocks
      BY <3>1, InHand, Basics
    <3>3. disk'[b] = write /\ \A c \in Blocks : c # b => disk'[c] = disk[c]
      BY <3>1, <3>2 DEF TypeOK
    <3>4. \A k \in Keys : keyBlockMap[k] = b => write[k] # Absent
      BY <3>1 DEF FlushStages, Stages, At
    <3>. QED
      BY <3>1, <3>3, <3>4, <1>t DEF KeyOnItsBlock
  <2>3. CASE FlushEmpty(t)
    <3>1. /\ FlushAt(t) /\ io[t].at = "empty" /\ UNCHANGED <<disk, keyBlockMap>>
      BY <2>3 DEF FlushEmpty, FlushAt, At, FlushPlace
    <3>2. wrLock = b /\ disk[b] = write
      BY <3>1, FlushAlone DEF FlushStages, Stages, At
    <3>. QED
      BY <3>1, <3>2 DEF KeyOnItsBlock
  <2>4. ASSUME ~FlushMap(t), ~FlushWrite(t), ~FlushEmpty(t)
        PROVE  UNCHANGED <<keyBlockMap, disk, wrLock, write>>
    BY <1>4, <2>4 DEF IOStep, IOTake, LoadEmpty, LoadFill
  <2>. QED
    BY <2>1, <2>2, <2>3, <2>4, <1>1
<1>5. CASE UNCHANGED vars
  BY <1>5, <1>1 DEF vars
<1>. QED
  BY <1>3, <1>4, <1>5 DEF Next

-----------------------------------------------------------------------------
(* The theorems.                                                           *)

LEMMA Inductive == IInv /\ [Next]_vars => IInv'
<1>. SUFFICES ASSUME IInv, [Next]_vars PROVE IInv'
  OBVIOUS
<1>1. /\ TypeOK /\ TasksPlaced /\ LockMoves /\ PutOwnsLock
      /\ FreshBlocks /\ FlushStages /\ LoadsAsked /\ KeyOnItsBlock
  BY DEF IInv
<1>2. TypeOK' /\ TasksPlaced' /\ LockMoves' /\ PutOwnsLock'
  BY <1>1, TypeStep, PlacedStep, LockStep, PutStep
<1>3. FreshBlocks' /\ FlushStages' /\ LoadsAsked' /\ KeyOnItsBlock'
  BY <1>1, <1>2, FreshStep, StagesStep, LoadsStep, KeyStep
<1>. QED
  BY <1>2, <1>3 DEF IInv

THEOREM Invariance == Spec => []IInv
  BY Initial, Inductive, PTL DEF Spec

\* Every variable keeps its type: no step leaves the blocks of the file, and no
\* task comes to a thread that has none of its places.
THEOREM TypeCorrect == Spec => []TypeOK
  BY Invariance, PTL DEF IInv

\* The write lock is with the block whose flush is queued or under way: put hands
\* it over with the task, and the task's end releases it.
THEOREM LockGoesWithFlush == Spec => []FlushOwnsLock
<1>1. ASSUME IInv PROVE FlushOwnsLock
  <2>. SUFFICES ASSUME NEW b \in Blocks
                PROVE  (\E t \in Threads : Flushing(t, b)) <=> wrLock = b
    BY DEF FlushOwnsLock
  <2>1. ASSUME NEW t \in Threads PROVE Flushing(t, b) <=> b = t + 1 /\ FlushAt(t)
    <3>1. (\E i \in 1..Len(queue[t]) : queue[t][i] = Task("flush", b))
            <=> b = t + 1 /\ Queued(t, "flush")
      <4>1. \A i \in 1..Len(queue[t]) : queue[t][i] \in Tasks /\ queue[t][i].block = t + 1
        BY <1>1 DEF IInv, TypeOK, TasksPlaced
      <4>2. \A x \in Tasks : x = Task("flush", b) <=> x.at = "flush" /\ x.block = b
        BY DEF Tasks, Task, Idle
      <4>. QED
        BY <4>1, <4>2 DEF Queued
    <3>2. io[t].at \in FlushPlace => io[t].block = t + 1
      BY <1>1, InHand DEF IInv, FlushPlace
    <3>. QED
      BY <3>1, <3>2 DEF Flushing, FlushAt
  <2>2. b - 1 \in Threads /\ (b - 1) + 1 = b
    BY Basics
  <2>. QED
    BY <1>1, <2>1, <2>2 DEF IInv, LockMoves
<1>. QED
  BY <1>1, Invariance, PTL

\* A key that has a block is on it, or about to be, whoever reads the key map
\* without a lock.
THEOREM MappedKeysOnBlock == Spec => []KeyOnItsBlock
  BY Invariance, PTL DEF IInv

\* A load never finds an empty block.
THEOREM LoadsFindNodes == Spec => []LoadsWritten
<1>1. ASSUME IInv PROVE LoadsWritten
  <2>. SUFFICES ASSUME NEW t \in Threads, At(t, "fill") PROVE Nodes(disk[io[t].block]) # {}
    BY DEF LoadsWritten
  <2>1. io[t].block = t + 1
    BY <1>1, InHand DEF IInv, At
  <2>2. PICK k \in Keys : keyBlockMap[k] = t + 1
    BY <1>1 DEF IInv, LoadsAsked, Asked, At
  <2>3. wrLock # t + 1
    <3>1. ~Queued(t, "flush")
      BY <1>1, <2>2 DEF IInv, FlushStages, Stages, Unwritten
    <3>2. ~FlushAt(t)
      BY <3>1 DEF FlushAt, At, FlushPlace
    <3>. QED
      BY <1>1, <3>2 DEF IInv, LockMoves
  <2>4. disk[t + 1][k] # Absent
    BY <1>1, <2>2, <2>3, Basics DEF IInv, KeyOnItsBlock
  <2>. QED
    BY <2>1, <2>4 DEF Nodes
<1>. QED
  BY <1>1, Invariance, PTL

\* A block is only written while it is empty.
LEMMA WrittenWhileEmpty ==
  ASSUME IInv, [Next]_vars, NEW b \in Blocks, disk'[b] # disk[b]
  PROVE  disk[b] = Empty
<1>1. PICK t \in Threads : FlushWrite(t)
  BY DEF Next, vars, cacheVars, fileVars, ioVars, workerVars, Take, Request, PutAdd,
         PutFind, PutMark, PutSubmit, GetWrite, GetLookup, GetHit, GetMiss, GetSubmit,
         Del, IOStep, IOTake, FlushMap, FlushEmpty, LoadEmpty, LoadFill
<1>2. io[t].at = "serialize" /\ disk' = [disk EXCEPT ![io[t].block] = write]
  BY <1>1 DEF FlushWrite, At
<1>3. io[t].block = t + 1
  BY <1>2, InHand DEF IInv
<1>4. b = t + 1
  BY <1>2, <1>3 DEF IInv, TypeOK
<1>. QED
  BY <1>2, <1>4 DEF IInv, FlushStages, Stages, At

\* Only one flush ever writes a block.
THEOREM BlocksWrittenOnce == Spec => WrittenOnce
<1>1. ASSUME IInv, [Next]_vars
      PROVE  [\A b \in Blocks : disk'[b] # disk[b] => disk[b] = Empty]_vars
  BY <1>1, WrittenWhileEmpty
<1>. QED
  BY <1>1, Invariance, PTL DEF Spec, WrittenOnce

-----------------------------------------------------------------------------
(* The refinement.                                                         *)

\* The lower map, as the mapping of ImplementsTwoLevels defines it.
Lower == [k \in Keys |->
  IF keyBlockMap[k] \in {NoBlock, wrLock} THEN Absent ELSE disk[keyBlockMap[k]][k]]

\* A step that touches none of the lists is no step of the two maps.
LEMMA LowerKept ==
  ASSUME UNCHANGED <<keyBlockMap, disk>>,
         \A k \in Keys : keyBlockMap[k] # NoBlock =>
           (keyBlockMap[k] = wrLock <=> keyBlockMap[k] = wrLock')
  PROVE  Lower' = Lower
<1>. SUFFICES ASSUME NEW k \in Keys
              PROVE  (IF keyBlockMap'[k] \in {NoBlock, wrLock'} THEN Absent
                      ELSE disk'[keyBlockMap'[k]][k])
                     = (IF keyBlockMap[k] \in {NoBlock, wrLock} THEN Absent
                        ELSE disk[keyBlockMap[k]][k])
  BY DEF Lower
<1>. QED
  OBVIOUS

LEMMA LevelsStep ==
  ASSUME IInv, [Next]_vars
  PROVE  \/ UNCHANGED <<write, Lower>>
         \/ UNCHANGED Lower /\ \E k \in Keys, v \in Values \cup {Absent} :
              write' = [write EXCEPT ![k] = v]
         \/ /\ write' = Empty
            /\ Lower' = [k \in Keys |-> IF Lower[k] = Absent THEN write[k] ELSE Lower[k]]
<1>. USE DEF ioVars, cacheVars, fileVars, workerVars
<1>i. /\ TypeOK /\ TasksPlaced /\ LockMoves /\ PutOwnsLock
      /\ FreshBlocks /\ FlushStages /\ LoadsAsked /\ KeyOnItsBlock
  BY DEF IInv
<1>t. \A k \in Keys : keyBlockMap[k] \in Blocks \cup {NoBlock}
  BY <1>i DEF TypeOK
<1>1. ASSUME UNCHANGED <<keyBlockMap, disk, wrLock, write>> PROVE UNCHANGED <<write, Lower>>
  BY <1>1, LowerKept
<1>2. ASSUME NEW w \in Workers, PutAdd(w) \/ Del(w)
      PROVE  UNCHANGED Lower /\ \E k \in Keys, v \in Values \cup {Absent} :
               write' = [write EXCEPT ![k] = v]
  <2>1. UNCHANGED <<keyBlockMap, disk>> /\ wrLock = None /\ wrLock' \in {None, w}
    BY <1>2 DEF PutAdd, Del, KeepLock
  <2>2. wrLock \notin Blocks /\ wrLock' \notin Blocks
    BY <2>1, Basics
  <2>. QED
    BY <1>2, <1>t, <2>1, <2>2, LowerKept DEF PutAdd, Del
<1>3. ASSUME NEW w \in Workers, PutSubmit(w) PROVE UNCHANGED <<write, Lower>>
  <2>1. /\ pc[w] = "submit" /\ wrLock' = block[w] /\ block[w] \in Blocks \cup {NoBlock}
        /\ UNCHANGED <<keyBlockMap, disk, write>>
    BY <1>3, <1>i DEF PutSubmit, HandOver, TypeOK
  <2>2. wrLock \notin Blocks
    BY <2>1, <1>i, LockOwner, Basics DEF PutPlace
  <2>3. \A k \in Keys : block[w] \in Blocks => keyBlockMap[k] # block[w]
    BY <2>1, <1>i DEF FreshBlocks, Untouched, Unwritten
  <2>. QED
    BY <2>1, <2>2, <2>3, <1>t, LowerKept
<1>4. ASSUME NEW t \in Threads, FlushMap(t) PROVE UNCHANGED <<write, Lower>>
  <2>1. /\ FlushAt(t) /\ io[t].at # "idle" /\ keyBlockMap' = Mapped(write, io[t].block)
        /\ UNCHANGED <<disk, write, wrLock>>
    BY <1>4 DEF FlushMap, FlushAt, At, FlushPlace
  <2>2. io[t].block = wrLock
    BY <2>1, <1>i, InHand, FlushAlone
  <2>3. \A k \in Keys : keyBlockMap'[k] = keyBlockMap[k]
          \/ (keyBlockMap[k] = NoBlock /\ keyBlockMap'[k] = wrLock)
    BY <2>1, <2>2 DEF Mapped
  <2>4. ASSUME NEW k \in Keys
        PROVE  (IF keyBlockMap'[k] \in {NoBlock, wrLock'} THEN Absent
                ELSE disk'[keyBlockMap'[k]][k])
               = (IF keyBlockMap[k] \in {NoBlock, wrLock} THEN Absent
                  ELSE disk[keyBlockMap[k]][k])
    BY <2>1, <2>3
  <2>. QED
    BY <2>1, <2>4 DEF Lower
<1>5. ASSUME NEW t \in Threads, FlushWrite(t) PROVE UNCHANGED <<write, Lower>>
  <2>1. /\ FlushAt(t) /\ io[t].at # "idle" /\ disk' = [disk EXCEPT ![io[t].block] = write]
        /\ UNCHANGED <<keyBlockMap, write, wrLock>>
    BY <1>5 DEF FlushWrite, FlushAt, At, FlushPlace
  <2>2. io[t].block = wrLock /\ wrLock \in Blocks
    BY <2>1, <1>i, InHand, FlushAlone
  <2>3. \A b \in Blocks : b # wrLock => disk'[b] = disk[b]
    BY <2>1, <2>2, <1>i DEF TypeOK
  <2>4. ASSUME NEW k \in Keys
        PROVE  (IF keyBlockMap'[k] \in {NoBlock, wrLock'} THEN Absent
                ELSE disk'[keyBlockMap'[k]][k])
               = (IF keyBlockMap[k] \in {NoBlock, wrLock} THEN Absent
                  ELSE disk[keyBlockMap[k]][k])
    BY <2>1, <2>3, <1>t
  <2>. QED
    BY <2>1, <2>4 DEF Lower
<1>6. ASSUME NEW t \in Threads, FlushEmpty(t)
      PROVE  /\ write' = Empty
             /\ Lower' = [k \in Keys |-> IF Lower[k] = Absent THEN write[k] ELSE Lower[k]]
  <2>1. /\ FlushAt(t) /\ io[t].at = "empty" /\ wrLock' = None /\ write' = Empty
        /\ UNCHANGED <<keyBlockMap, disk>>
    BY <1>6 DEF FlushEmpty, FlushAt, At, FlushPlace
  <2>2. wrLock = t + 1 /\ disk[wrLock] = write
    BY <2>1, <1>i, FlushAlone DEF FlushStages, Stages, At
  <2>3. \A k \in Keys : write[k] # Absent => keyBlockMap[k] # NoBlock
    BY <2>1, <1>i DEF FlushStages, Stages, At
  <2>4. ASSUME NEW k \in Keys
        PROVE  Lower'[k] = IF Lower[k] = Absent THEN write[k] ELSE Lower[k]
    <3>1. Lower'[k] = IF keyBlockMap[k] \in {NoBlock, None} THEN Absent
                      ELSE disk[keyBlockMap[k]][k]
      BY <2>1 DEF Lower
    <3>2. Lower[k] = IF keyBlockMap[k] \in {NoBlock, wrLock} THEN Absent
                     ELSE disk[keyBlockMap[k]][k]
      BY DEF Lower
    <3>3. CASE keyBlockMap[k] = NoBlock
      BY <2>3, <3>1, <3>2, <3>3
    <3>4. CASE keyBlockMap[k] # NoBlock /\ keyBlockMap[k] = wrLock
      BY <1>t, <2>2, <3>1, <3>2, <3>4, Basics
    <3>5. CASE keyBlockMap[k] # NoBlock /\ keyBlockMap[k] # wrLock
      <4>1. disk[keyBlockMap[k]][k] # Absent /\ keyBlockMap[k] # None
        BY <3>5, <1>i, <1>t, Basics DEF KeyOnItsBlock
      <4>. QED
        BY <3>1, <3>2, <3>5, <4>1
    <3>. QED
      BY <3>3, <3>4, <3>5
  <2>5. Lower' = [k \in Keys |-> Lower'[k]]
    BY DEF Lower
  <2>. QED
    BY <2>1, <2>4, <2>5
<1>7. ASSUME NEW w \in Workers, Take(w) \/ Request(w), ~PutAdd(w), ~Del(w), ~PutSubmit(w)
      PROVE  UNCHANGED <<write, Lower>>
  <2>1. UNCHANGED <<keyBlockMap, disk, wrLock, write>>
    BY <1>7
       DEF Take, Request, PutFind, PutMark, GetWrite, GetLookup, GetHit, GetMiss,
           GetSubmit
  <2>. QED
    BY <2>1, <1>1
<1>8. ASSUME NEW t \in Threads, IOStep(t), ~FlushMap(t), ~FlushWrite(t), ~FlushEmpty(t)
      PROVE  UNCHANGED <<write, Lower>>
  <2>1. UNCHANGED <<keyBlockMap, disk, wrLock, write>>
    BY <1>8 DEF IOStep, IOTake, LoadEmpty, LoadFill
  <2>. QED
    BY <2>1, <1>1
<1>9. CASE UNCHANGED vars
  BY <1>9, <1>1 DEF vars
<1>. QED
  BY <1>2, <1>3, <1>4, <1>5, <1>6, <1>7, <1>8, <1>9 DEF Next

\* To its users the engine is two maps: threads, blocks, and a lock that is taken
\* by one thread and released by another do not show.
THEOREM Refinement == Spec => ImplementsTwoLevels
<1>1. Init => Levels!Init
  <2>. SUFFICES ASSUME Init PROVE write = Empty /\ Lower = Empty
    BY DEF Levels!Init, Levels!Empty, Empty, Lower
  <2>. QED
    BY DEF Init, Empty, Lower
<1>2. IInv /\ [Next]_vars => [Levels!Next]_(Levels!vars)
  <2>. SUFFICES ASSUME IInv, [Next]_vars PROVE [Levels!Next]_(Levels!vars)
    OBVIOUS
  <2>1. CASE UNCHANGED <<write, Lower>>
    BY <2>1 DEF Levels!vars, Lower
  <2>2. ASSUME UNCHANGED Lower, NEW k \in Keys, NEW v \in Values \cup {Absent},
               write' = [write EXCEPT ![k] = v]
        PROVE  Levels!Next
    <3>1. CASE v \in Values
      <4>1. Levels!Put(k, v)
        BY <2>2 DEF Levels!Put, Lower
      <4>. QED
        BY <3>1, <4>1 DEF Levels!Next
    <3>2. CASE v = Absent
      <4>1. Levels!Delete(k)
        BY <2>2, <3>2 DEF Levels!Delete, Lower
      <4>. QED
        BY <4>1 DEF Levels!Next
    <3>. QED
      BY <3>1, <3>2
  <2>3. ASSUME write' = Empty,
               Lower' = [k \in Keys |-> IF Lower[k] = Absent THEN write[k] ELSE Lower[k]]
        PROVE  Levels!Next
    <3>. DEFINE below == {k \in Keys : Lower[k] # Absent}
    <3>1. \A k \in Keys : (IF Lower[k] = Absent THEN write[k] ELSE Lower[k])
                        = (IF k \in below \/ write[k] = Absent THEN Lower[k] ELSE write[k])
      OBVIOUS
    <3>2. below \in SUBSET Keys /\ \A k \in below : Lower[k] # Absent
      OBVIOUS
    <3>3. Lower' = [k \in Keys |-> IF k \in below \/ write[k] = Absent THEN Lower[k]
                                   ELSE write[k]]
      BY <2>3, <3>1
    <3>. HIDE DEF below
    <3>4. PICK kept \in SUBSET Keys : kept = below
      BY <3>2
    <3>5. Levels!Flush(kept)
      BY <2>3, <3>2, <3>3, <3>4 DEF Levels!Flush, Levels!Empty, Empty, Lower
    <3>. QED
      BY <3>4, <3>5 DEF Levels!Next
  <2>. QED
    BY <2>1, <2>2, <2>3, LevelsStep
<1>. QED
  BY <1>1, <1>2, Invariance, PTL DEF Spec, ImplementsTwoLevels, Levels!Spec
=============================================================================
