------------------------------ MODULE Storage ------------------------------
(***************************************************************************)
(* The storage engine: the write cache and the read cache (class Cache,    *)
(* include/cache.hpp), the file information (include/fileInfo.hpp) and the *)
(* blocks of the file, used by the threads of the thread pool and by the   *)
(* threads of the I/O pool.                                                *)
(*                                                                         *)
(* A skip list is the map it implements (module Skiplist), the I/O pool is *)
(* a serial queue per block (module BlockIO).  Sizes are left out: any put *)
(* may be the one that takes the write cache over its limit.  A critical   *)
(* section that ends where it began is one step; WRmutex is a variable     *)
(* because put hands it over, RDmutex is not.  The free space of a block   *)
(* is only printed and is left out.  So is what the read cache holds:      *)
(* loads rebuild it without a lock, in the middle of searches and of each  *)
(* other, and the server drops what a search there returns.                *)
(***************************************************************************)
EXTENDS Naturals, SequencesExt

CONSTANTS
  Keys, Values, Absent,  \* Absent: a map has no node for the key
  Workers,               \* threads of the thread pool
  LastBlock,             \* NUM_BLOCKS - 1; block 0 is the file information
  NoBlock,               \* size_t(-1)
  None,                  \* nobody holds the lock
  MaxQueue               \* bound: tasks waiting for a block

Blocks == 1..LastBlock
Threads == 0..(LastBlock - 1)   \* the threads of the I/O pool

ASSUME StorageAssumption ==
  /\ LastBlock \in Nat /\ MaxQueue \in Nat
  /\ Absent \notin Values /\ NoBlock \notin Nat
  /\ None # NoBlock /\ None \notin Workers /\ None \notin Nat
  /\ NoBlock \notin Workers /\ Workers \cap Nat = {}

VARIABLES
  write,         \* the write cache's RWcache
  wrLock,        \* who holds its WRmutex: a worker, or the flush of a block
  currentReadBlock,  \* the read cache's
  blockUsageTable,  \* the used blocks
  keyBlockMap,
  disk,          \* the skip list written to each block
  queue,         \* the tasks of each thread of the I/O pool, and of none
  io,            \* where each of these threads is in its task
  pc, key, block  \* each worker: its place, and local variables

cacheVars  == <<write, wrLock, currentReadBlock>>
fileVars   == <<blockUsageTable, keyBlockMap, disk>>
ioVars     == <<queue, io>>
workerVars == <<pc, key, block>>
vars == <<cacheVars, fileVars, ioVars, workerVars>>

Empty == [k \in Keys |-> Absent]
Nodes(list) == {k \in Keys : list[k] # Absent}

\* A task, and a place in one.
Task(what, b) == [at |-> what, block |-> b]
Idle == Task("idle", NoBlock)

\* main, on a file that has just been created.
Init ==
  /\ write = Empty /\ wrLock = None
  /\ currentReadBlock = NoBlock
  /\ blockUsageTable = {0} /\ keyBlockMap = [k \in Keys |-> NoBlock]
  /\ disk = [b \in Blocks |-> Empty]
  /\ queue = [t \in Threads \cup {NoBlock} |-> <<>>]
  /\ io = [t \in Threads |-> Idle]
  /\ pc = [w \in Workers |-> "idle"]
  /\ key = [w \in Workers |-> None]
  /\ block = [w \in Workers |-> NoBlock]

Goto(w, place) == pc' = [pc EXCEPT ![w] = place]

-----------------------------------------------------------------------------
(* File information.                                                       *)

\* getFreeBlock looks for a block and then marks it, without a lock.  Mutants:
\* it looks one block too far; it does not mark.
FreeBlockPast == Min((0..(LastBlock + 1)) \ blockUsageTable)
FreeBlock == IF 0..LastBlock \subseteq blockUsageTable THEN NoBlock
             ELSE Min((0..LastBlock) \ blockUsageTable)
MarkUsedNot(b) == UNCHANGED blockUsageTable
MarkUsed(b) == blockUsageTable' = blockUsageTable \cup ({b} \ {NoBlock})

\* addKeyBlockMapping of every key of a list: a key that has a block keeps it.
\* Mutant: it gets the new one.
MappedAgain(list, b) ==
  [k \in Keys |-> IF k \in Nodes(list) THEN b ELSE keyBlockMap[k]]
Mapped(list, b) ==
  [k \in Keys |-> IF k \in Nodes(list) /\ keyBlockMap[k] = NoBlock
                  THEN b ELSE keyBlockMap[k]]

-----------------------------------------------------------------------------
(* Requests.                                                               *)

\* A worker has taken a request; it does not know yet which one.
Take(w) ==
  /\ pc[w] = "idle"
  /\ \A t \in DOMAIN queue : Len(queue[t]) < MaxQueue
  /\ Goto(w, "taken")
  /\ UNCHANGED <<cacheVars, fileVars, ioVars, key, block>>

\* put: add the node; the lock is kept if the cache is over its limit.
\* Mutant: it is given back.
KeepLockNot(w) == UNCHANGED wrLock
KeepLock(w) == wrLock' = w

PutAdd(w) ==
  /\ pc[w] = "taken" /\ wrLock = None
  /\ \E k \in Keys, v \in Values : write' = [write EXCEPT ![k] = v]
  /\ \/ Goto(w, "idle") /\ UNCHANGED wrLock
     \/ Goto(w, "find") /\ KeepLock(w)
  /\ UNCHANGED <<currentReadBlock, fileVars, ioVars, key, block>>

PutFind(w) ==
  /\ pc[w] = "find"
  /\ block' = [block EXCEPT ![w] = FreeBlock]
  /\ Goto(w, "mark")
  /\ UNCHANGED <<cacheVars, fileVars, ioVars, key>>

PutMark(w) ==
  /\ pc[w] = "mark"
  /\ MarkUsed(block[w])
  /\ Goto(w, "submit")
  /\ UNCHANGED <<cacheVars, keyBlockMap, disk, ioVars, key, block>>

\* The tasks of block b go to thread b - 1; without a block, to a queue that has
\* no thread.  Mutant: loads go to thread b.
FlushThread(b) == IF b = NoBlock THEN NoBlock ELSE b - 1
LoadThreadNext(b) == b % LastBlock
LoadThread(b) == b - 1

\* The lock goes with the flush.  Mutant: it is released at the end of put.
HandOverNot(w) == wrLock' = None
HandOver(w) == wrLock' = block[w]
PutSubmit(w) ==
  /\ pc[w] = "submit"
  /\ queue' = [queue EXCEPT ![FlushThread(block[w])] =
                   Append(@, Task("flush", block[w]))]
  /\ HandOver(w)
  /\ block' = [block EXCEPT ![w] = NoBlock]
  /\ Goto(w, "idle")
  /\ UNCHANGED <<write, currentReadBlock, fileVars, io, key>>

\* get of the write cache, then of the read cache if the key is not there.
GetWrite(w) ==
  /\ pc[w] = "taken" /\ wrLock = None
  /\ \/ Nodes(write) # {} /\ Goto(w, "idle") /\ UNCHANGED key
     \/ \E k \in Keys \ Nodes(write) :
          key' = [key EXCEPT ![w] = k] /\ Goto(w, "lookup")
  /\ UNCHANGED <<cacheVars, fileVars, ioVars, block>>

\* The key's block is looked up and compared with the current one, unlocked.
GetLookup(w) ==
  LET b == keyBlockMap[key[w]] IN
  /\ pc[w] = "lookup"
  /\ key' = [key EXCEPT ![w] = None]
  /\ block' = [block EXCEPT ![w] = b]
  /\ Goto(w, CASE b = NoBlock -> "idle"
               [] b # NoBlock /\ b = currentReadBlock -> "hit"
               [] OTHER -> "miss")
  /\ UNCHANGED <<cacheVars, fileVars, ioVars>>

\* The block is the current one: search the read cache, loaded or not.
GetHit(w) ==
  /\ pc[w] = "hit"
  /\ block' = [block EXCEPT ![w] = NoBlock]
  /\ Goto(w, "idle")
  /\ UNCHANGED <<cacheVars, fileVars, ioVars, key>>

\* The block is not: it becomes the current one, and then a load is submitted.
GetMiss(w) ==
  /\ pc[w] = "miss"
  /\ currentReadBlock' = block[w]
  /\ Goto(w, "load")
  /\ UNCHANGED <<write, wrLock, fileVars, ioVars, key, block>>

GetSubmit(w) ==
  /\ pc[w] = "load"
  /\ queue' = [queue EXCEPT ![LoadThread(block[w])] =
                   Append(@, Task("load", block[w]))]
  /\ block' = [block EXCEPT ![w] = NoBlock]
  /\ Goto(w, "idle")
  /\ UNCHANGED <<cacheVars, fileVars, io, key>>

\* del of the write cache.  It always returns true, so del of the read cache
\* is never called.
Del(w) ==
  /\ pc[w] = "taken" /\ wrLock = None
  /\ \E k \in Keys : write' = [write EXCEPT ![k] = Absent]
  /\ Goto(w, "idle")
  /\ UNCHANGED <<wrLock, currentReadBlock, fileVars, ioVars, key, block>>

Request(w) ==
  \/ PutAdd(w) \/ PutFind(w) \/ PutMark(w) \/ PutSubmit(w)
  \/ GetWrite(w) \/ GetLookup(w) \/ GetHit(w) \/ GetMiss(w) \/ GetSubmit(w)
  \/ Del(w)

-----------------------------------------------------------------------------
(* Tasks of the I/O pool.                                                  *)

\* Thread t is at a place in its task.
At(t, place) == io[t].at = place
IOGoto(t, place) == io' = [io EXCEPT ![t].at = place]
IOEnd(t) == io' = [io EXCEPT ![t] = Idle]

IOTake(t) ==
  /\ At(t, "idle") /\ queue[t] # <<>>
  /\ io' = [io EXCEPT ![t] = Head(queue[t])]
  /\ queue' = [queue EXCEPT ![t] = Tail(@)]
  /\ UNCHANGED <<cacheVars, fileVars, workerVars>>

\* flushToDisk: map the keys of the list to the block,
FlushMap(t) ==
  /\ At(t, "flush")
  /\ keyBlockMap' = Mapped(write, io[t].block)
  /\ IOGoto(t, "serialize")
  /\ UNCHANGED <<cacheVars, blockUsageTable, disk, queue, workerVars>>

\* write the list,
FlushWrite(t) ==
  /\ At(t, "serialize")
  /\ disk' = [disk EXCEPT ![io[t].block] = write]
  /\ IOGoto(t, "empty")
  /\ UNCHANGED <<cacheVars, blockUsageTable, keyBlockMap, queue, workerVars>>

\* and empty it.  The task's end releases the lock.
FlushEmpty(t) ==
  /\ At(t, "empty")
  /\ write' = Empty
  /\ wrLock' = None
  /\ IOEnd(t)
  /\ UNCHANGED <<currentReadBlock, fileVars, queue, workerVars>>

\* loadFromDisk: empty the read cache, then read the block and rebuild the list;
\* then get searches it.
LoadEmpty(t) ==
  /\ At(t, "load")
  /\ IOGoto(t, "fill")
  /\ UNCHANGED <<cacheVars, fileVars, queue, workerVars>>

LoadFill(t) ==
  /\ At(t, "fill")
  /\ IOEnd(t)
  /\ UNCHANGED <<cacheVars, fileVars, queue, workerVars>>

IOStep(t) ==
  \/ IOTake(t) \/ FlushMap(t) \/ FlushWrite(t) \/ FlushEmpty(t)
  \/ LoadEmpty(t) \/ LoadFill(t)

Next == \/ \E w \in Workers : Take(w) \/ Request(w)
        \/ \E t \in Threads : IOStep(t)

Spec == Init /\ [][Next]_vars

-----------------------------------------------------------------------------
(* Properties.                                                             *)

Place == {"idle", "taken", "find", "mark", "submit", "lookup", "hit", "miss", "load"}
FlushPlace == {"flush", "serialize", "empty"}
Tasks == {Idle} \cup [at : FlushPlace \cup {"load", "fill"}, block : Blocks \cup {NoBlock}]
Lists == [Keys -> Values \cup {Absent}]

\* Every variable has its type.
TypeOK ==
  /\ write \in Lists
  /\ wrLock \in Workers \cup Blocks \cup {NoBlock, None}
  /\ currentReadBlock \in Blocks \cup {NoBlock}
  /\ blockUsageTable \subseteq 0..LastBlock /\ 0 \in blockUsageTable
  /\ keyBlockMap \in [Keys -> Blocks \cup {NoBlock}]
  /\ disk \in [Blocks -> Lists]
  /\ queue \in [Threads \cup {NoBlock} -> Seq(Tasks)]
  /\ io \in [Threads -> Tasks]
  /\ pc \in [Workers -> Place] /\ key \in [Workers -> Keys \cup {None}]
  /\ block \in [Workers -> Blocks \cup {NoBlock}]

\* The write lock travels with the flush: while one is queued or under way it is
\* the only one, and the lock is its block's, so that nobody else is in the cache.
Flushing(t, b) ==
  \/ \E i \in 1..Len(queue[t]) : queue[t][i] = Task("flush", b)
  \/ io[t].block = b /\ io[t].at \in FlushPlace
FlushOwnsLock ==
  \A b \in Blocks : (\E t \in Threads : Flushing(t, b)) <=> wrLock = b

\* A key's block holds the key, or will before the lock on the write cache that
\* still holds it is released.
KeyOnItsBlock ==
  \A k \in Keys : keyBlockMap[k] # NoBlock =>
    \/ disk[keyBlockMap[k]][k] # Absent
    \/ wrLock = keyBlockMap[k] /\ write[k] # Absent

\* A block is written at most once: no flush overwrites the nodes of another.
WrittenOnce == [][\A b \in Blocks : disk'[b] # disk[b] => disk[b] = Empty]_vars

\* A load finds its block written, even if it was asked for while the flush of
\* that block was still under way.
LoadsWritten == \A t \in Threads : At(t, "fill") => Nodes(disk[io[t].block]) # {}

\* "Key already exists! update key to block": when a flush has written the list,
\* a get that looks for one of its keys comes to the value that was written.
FlushedIsFound ==
  \A t \in Threads : At(t, "empty") =>
    \A k \in Nodes(write) : disk[keyBlockMap[k]][k] = write[k]

\* The engine implements TwoLevelStore: tasks, blocks and the lock that changes
\* hands make a flush no less atomic, and no key is lost in it.  The lower map are
\* the blocks that are not being flushed.
Levels == INSTANCE TwoLevelStore WITH
  upper <- write,
  lower <- [k \in Keys |->
    IF keyBlockMap[k] \in {NoBlock, wrLock} THEN Absent ELSE disk[keyBlockMap[k]][k]]
ImplementsTwoLevels == Levels!Spec
=============================================================================
