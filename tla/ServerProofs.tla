---------------------------- MODULE ServerProofs ----------------------------
(***************************************************************************)
(* What a shutdown saves stays saved, through any crashes, restarts and    *)
(* further shutdowns, as long as SIGINT finds the pools idle and no crash  *)
(* falls between the two writes to block 0: for any keys, workers, blocks  *)
(* and number of restarts.  Then, without the first of these conditions:   *)
(* the types, whatever a crash leaves of block 0, and how the tables in    *)
(* memory and in the file agree while the handler and the pools take turns *)
(* in changing and writing them.                                           *)
(***************************************************************************)
EXTENDS Server, StorageProofs, BlockZeroProofs

-----------------------------------------------------------------------------
(* The tables in memory; and the file.  What is in it agrees with those    *)
(* last written, and is read as these; between the two writes it is about  *)
(* to be read as those that were copied.                                   *)

Current == FileInfo(blockUsageTable, keyBlockMap, freeSpace)

FileOK ==
  /\ Holds(file, block0.keyBlockMap)
  /\ handler # "tables" => Opened(file) = block0
  /\ handler = "tables" => Image(copied, info) /\ file.size = Bytes(info)

-----------------------------------------------------------------------------
(* The tables: block 0 says nothing that the tables in memory do not say.  *)

Closed(used, map) == \A k \in Keys : map[k] # NoBlock => map[k] \in used

TablesAgree ==
  /\ Current \in TablesType /\ copied \in TablesType /\ block0 \in TablesType
  /\ Closed(blockUsageTable, keyBlockMap)
  /\ block0.blockUsageTable \subseteq blockUsageTable
  /\ Closed(block0.blockUsageTable, block0.keyBlockMap)
  /\ Extends(block0.keyBlockMap, keyBlockMap)

-----------------------------------------------------------------------------
(* The life of a block: handed to a put or to the handler, written, and    *)
(* then left alone.                                                        *)

Handed(b) ==
  \/ \E w \in Workers : pc[w] \in {"mark", "submit"} /\ block[w] = b
  \/ \E t \in Threads : t + 1 = b /\ (Queued(t, "flush") \/ At(t, "flush"))
  \/ handler \in {"mark", "map"} /\ hblock = b
Writing(b) ==
  \/ \E t \in Threads : t + 1 = b /\ At(t, "serialize")
  \/ handler = "serialize" /\ hblock = b

\* A block is marked before it is submitted or flushed.
Marked ==
  /\ \A w \in Workers : pc[w] = "submit" /\ block[w] # NoBlock => block[w] \in blockUsageTable
  /\ \A t \in Threads : Queued(t, "flush") \/ At(t, "flush") => t + 1 \in blockUsageTable
  /\ handler = "map" /\ hblock # NoBlock => hblock \in blockUsageTable

\* A key is on its block, or in the cache that is being written to it.
OnBlock(k, b) ==
  /\ ~Handed(b)
  /\ Writing(b) => write[k] # Absent /\ block0.keyBlockMap[k] # b
  /\ ~Writing(b) => disk[b][k] # Absent
KeysOnBlocks == \A k \in Keys : keyBlockMap[k] # NoBlock => OnBlock(k, keyBlockMap[k])

-----------------------------------------------------------------------------
(* The handler: the pools stand still, and no key is lost on the way.      *)

HandlerTyped ==
  /\ handler \in HandlerPlace /\ hblock \in Blocks \cup {NoBlock}
  /\ handler \in {"serialize", "empty"} => hblock # NoBlock
InfoPlace == {"info", "index", "keys", "size", "tables"}
CopiedOK ==
  /\ handler \in {"index", "keys"} => copied.blockUsageTable = blockUsageTable
  /\ handler = "keys" => copied.freeSpace = freeSpace
  /\ handler \in {"size", "tables"} => copied = Current
HandlerOK ==
  /\ HandlerTyped
  /\ handler # "none" => Quiet
  /\ handler \in {"serialize", "empty"} => \A k \in Keys : write[k] # Absent => keyBlockMap[k] # NoBlock
  /\ handler \in InfoPlace \cup {"ready"} /\ hblock # NoBlock => write = Empty
  /\ CopiedOK
  /\ handler = "ready" /\ ~refused => block0 = Current
  /\ handler \notin {"none", "destroyed"} => kept \subseteq Keys /\ \A k \in kept : Held(k)

\* What the engine keeps whatever the handler does, and what it keeps alone.
Engine == TypeOK /\ TasksPlaced /\ LoadsAsked
Pools == Engine /\ LockMoves /\ PutOwnsLock
Good == Pools /\ TablesAgree /\ Marked /\ KeysOnBlocks /\ HandlerOK /\ FileOK

-----------------------------------------------------------------------------
(* The initial states.                                                     *)

LEMMA NewFileType == NewFile \in TablesType /\ NewFile = FileInfo({0}, [k \in Keys |-> NoBlock], NewFile.freeSpace)
<1>1. 0 \in FileBlocks /\ BlockSize \in Int
  BY StorageAssumption, BlockZeroAssumption DEF FileBlocks
<1>. QED
  BY <1>1 DEF NewFile, FileInfo, TablesType

LEMMA NewZero ==
  ASSUME NEW map
  PROVE  Holds(NewBlockZero, map) /\ Opened(NewBlockZero) = NewFile
<1>1. ~Readable(NewBlockZero)
  BY DEF NewBlockZero, Readable
<1>2. <<>> \in Seq(Places(Agreeing(map))) /\ 0 \in Nat
  OBVIOUS
<1>. QED
  BY <1>1, <1>2 DEF Holds, HoldsIn, NewBlockZero, Opened

LEMMA ServerInitial == ServerInit => Good
<1>. SUFFICES ASSUME ServerInit PROVE Good
  OBVIOUS
<1>1. Init
  BY DEF ServerInit
<1>2. Pools
  BY <1>1, Initial DEF Pools, Engine, IInv
<1>3. /\ blockUsageTable = {0} /\ keyBlockMap = [k \in Keys |-> NoBlock]
      /\ \A w \in Workers : pc[w] = "idle"
      /\ \A t \in Threads : queue[t] = <<>> /\ io[t] = Idle
  BY <1>1 DEF Init
<1>4. copied = NewFile /\ block0 = NewFile /\ file = NewBlockZero /\ handler = "none" /\ freeSpace = NewFile.freeSpace
      /\ hblock = NoBlock
  BY DEF ServerInit
<1>5. Current = NewFile
  BY <1>3, <1>4, NewFileType DEF Current
<1>6. NewFile.blockUsageTable = {0} /\ NewFile.keyBlockMap = [k \in Keys |-> NoBlock]
  BY DEF NewFile, FileInfo
<1>7. TablesAgree
  BY <1>3, <1>4, <1>5, <1>6, NewFileType DEF TablesAgree, Closed, Extends
<1>8. \A t \in Threads : ~Queued(t, "flush") /\ ~At(t, "flush")
  BY <1>3 DEF Queued, At, Idle, Task
<1>9. Marked
  BY <1>3, <1>4, <1>8 DEF Marked
<1>10. KeysOnBlocks
  BY <1>3 DEF KeysOnBlocks
<1>11. HandlerOK
  BY <1>4 DEF HandlerOK, HandlerTyped, HandlerPlace, CopiedOK, InfoPlace
<1>12. FileOK
  BY <1>4, NewZero DEF FileOK
<1>. QED
  BY <1>2, <1>7, <1>9, <1>10, <1>11, <1>12 DEF Good

-----------------------------------------------------------------------------
(* The pools.  When they stand still, nothing is asked of them.            *)

LEMMA EngineIdle ==
  ASSUME TypeOK, Quiet
  PROVE  /\ Engine
         /\ \A w \in Workers : pc[w] = "idle"
         /\ \A t \in Threads : /\ queue[t] = <<>> /\ At(t, "idle")
                              /\ \A kind : ~Queued(t, kind)
<1>1. \A w \in Workers : pc[w] = "idle"
  BY DEF Quiet
<1>2. \A t \in Threads : queue[t] = <<>> /\ At(t, "idle")
  BY DEF Quiet
<1>3. \A t \in Threads : io[t] = Idle
  BY <1>2 DEF TypeOK, Tasks, At, Idle, Task, FlushPlace
<1>4. \A t \in Threads : \A kind : ~Queued(t, kind)
  BY <1>2 DEF Queued
<1>5. TasksPlaced
  BY <1>2, <1>3 DEF TasksPlaced
<1>6. LoadsAsked
  BY <1>1, <1>2, <1>4 DEF LoadsAsked, At
<1>. QED
  BY <1>1, <1>2, <1>4, <1>5, <1>6 DEF Engine

LEMMA StandStill ==
  ASSUME TypeOK, Quiet, wrLock \notin Blocks, wrLock \notin Workers
  PROVE  Pools
<1>1. \A t \in Threads : t + 1 \in Blocks
  BY Basics
<1>2. \A t \in Threads : OneFlush(t) /\ ~FlushAt(t)
  BY EngineIdle DEF OneFlush, FlushAt, Unique, At, FlushPlace
<1>3. LockMoves
  BY <1>1, <1>2 DEF LockMoves
<1>4. PutOwnsLock
  BY EngineIdle DEF PutOwnsLock, PutPlace
<1>. QED
  BY <1>3, <1>4, EngineIdle DEF Pools

LEMMA LockFree ==
  ASSUME Pools, Quiet
  PROVE  wrLock \notin Blocks /\ wrLock \notin Workers
<1>1. \A w \in Workers : pc[w] = "idle"
  BY DEF Quiet
<1>2. \A t \in Threads : queue[t] = <<>> /\ At(t, "idle")
  BY DEF Quiet
<1>3. \A t \in Threads : ~FlushAt(t)
  BY <1>2 DEF FlushAt, Queued, At, FlushPlace
<1>4. \A b \in Blocks : b - 1 \in Threads /\ (b - 1) + 1 = b
  BY Basics
<1>5. wrLock \notin Blocks
  BY <1>3, <1>4 DEF Pools, Engine, LockMoves
<1>6. wrLock \notin Workers
  BY <1>1 DEF Pools, Engine, PutOwnsLock, PutPlace
<1>. QED
  BY <1>5, <1>6

\* The pools in a step that leaves their variables alone, or is one of theirs.
LEMMA EngineStep == Engine /\ [Next]_vars => Engine'
  BY TypeStep, PlacedStep, LoadsStep DEF Engine

LEMMA PoolsStep == Pools /\ [Next]_vars => Pools'
  BY TypeStep, PlacedStep, LockStep, PutStep, LoadsStep DEF Pools, Engine

LEMMA ServeIsNext ==
  Serve => Next /\ UNCHANGED <<handler, hblock, kept, copied, info, file, block0, refused>>
                /\ UNCHANGED <<mixed, damaged, restarts>>
  BY DEF Serve, Next, signalVars, zeroVars, bootVars

\* While the handler runs, or after it, no step is one of the pools.
LEMMA ServeAlone ==
  ASSUME HandlerOK, Serve
  PROVE  handler = "none"
<1>1. ASSUME handler # "none" PROVE FALSE
  <2>1. Quiet /\ ~Producing
    BY <1>1 DEF HandlerOK, Producing
  <2>2. \A w \in Workers : ~Request(w)
    BY <2>1 DEF Quiet, Request, PutAdd, PutFind, PutMark, PutSubmit, GetWrite, GetLookup,
                GetHit, GetMiss, GetSubmit, Del
  <2>3. \A t \in Threads : ~IOStep(t)
    BY <2>1 DEF Quiet, IOStep, IOTake, FlushMap, FlushWrite, FlushEmpty, LoadEmpty, LoadFill, At
  <2>. QED
    BY <2>1, <2>2, <2>3 DEF Serve
<1>. QED
  BY <1>1

LEMMA QuietKept ==
  ASSUME Quiet, UNCHANGED <<ioVars, workerVars>>
  PROVE  Quiet'
  BY DEF Quiet, ioVars, workerVars, At

\* Where the handler is when it does a step, and what the step leaves alone.
LEMMA HandlerBeside ==
  ASSUME HandlerMark \/ HandlerMap \/ HandlerWrite \/ HandlerEmpty \/ Destroy
  PROVE  handler # "none" /\ UNCHANGED <<wrLock, ioVars, workerVars>>
  BY DEF HandlerMark, HandlerMap, HandlerWrite, HandlerEmpty, Destroy, Handle, cacheVars

\* No handler step but these changes what the engine keeps.
LEMMA OtherSteps ==
  ASSUME ServerNext, ~Serve, ~Restart, ~Crash,
         ~(HandlerMark \/ HandlerMap \/ HandlerWrite \/ HandlerEmpty \/ Destroy)
  PROVE  /\ UNCHANGED vars
         /\ \/ Interrupt \/ InterruptAgain \/ HandlerFind
            \/ InfoUsed \/ InfoIndex \/ InfoKeys
            \/ InfoTooLarge \/ InfoLength \/ InfoTables
  BY DEF ServerNext, Interrupt, InterruptAgain, HandlerFind, InfoUsed, InfoIndex, InfoKeys, InfoTooLarge, InfoLength, InfoTables

LEMMA MapType2 ==
  ASSUME TypeOK, NEW list, NEW b \in Blocks
  PROVE  /\ Mapped(list, b) \in [Keys -> Blocks \cup {NoBlock}]
         /\ \A k \in Keys : /\ keyBlockMap[k] # NoBlock => Mapped(list, b)[k] = keyBlockMap[k]
                            /\ list[k] # Absent => Mapped(list, b)[k] # NoBlock
                            /\ Mapped(list, b)[k] # NoBlock =>
                                 \/ Mapped(list, b)[k] = keyBlockMap[k]
                                 \/ /\ Mapped(list, b)[k] = b /\ list[k] # Absent
                                    /\ keyBlockMap[k] = NoBlock
<1>1. b # NoBlock
  BY Basics
<1>. QED
  BY <1>1 DEF Mapped, Nodes, TypeOK

LEMMA MarkedType ==
  ASSUME TypeOK, NEW b \in Blocks \cup {NoBlock}, MarkUsed(b)
  PROVE  /\ blockUsageTable' \subseteq 0..LastBlock /\ 0 \in blockUsageTable'
         /\ blockUsageTable \subseteq blockUsageTable'
         /\ b # NoBlock => b \in blockUsageTable'
<1>1. b # NoBlock => b \in 0..LastBlock
  BY Basics DEF Blocks
<1>. QED
  BY <1>1 DEF TypeOK, MarkUsed

LEMMA HandlerTypes ==
  ASSUME TypeOK, HandlerTyped,
         HandlerMark \/ HandlerMap \/ HandlerWrite \/ HandlerEmpty \/ Destroy
  PROVE  TypeOK'
<1>1. hblock \in Blocks \cup {NoBlock}
  BY DEF HandlerTyped
<1>2. Empty \in Lists
  BY DEF Empty, Lists
<1>3. CASE HandlerMark
  <2>1. blockUsageTable' \subseteq 0..LastBlock /\ 0 \in blockUsageTable'
    BY <1>1, <1>3, MarkedType DEF HandlerMark
  <2>. QED
    BY <1>3, <2>1 DEF HandlerMark, TypeOK, cacheVars, ioVars, workerVars
<1>4. CASE HandlerMap
  <2>1. keyBlockMap' \in [Keys -> Blocks \cup {NoBlock}]
    <3>1. CASE hblock = NoBlock
      BY <1>4, <3>1 DEF HandlerMap, TypeOK
    <3>2. CASE hblock # NoBlock
      BY <1>1, <1>4, <3>2, MapType2 DEF HandlerMap, HandlerMapped
    <3>. QED
      BY <3>1, <3>2
  <2>. QED
    BY <1>4, <2>1 DEF HandlerMap, TypeOK, cacheVars, ioVars, workerVars
<1>5. CASE HandlerWrite
  <2>1. hblock \in Blocks
    BY <1>1, <1>5 DEF HandlerWrite, Handle, HandlerTyped
  <2>2. disk' \in [Blocks -> Lists]
    BY <1>5, <2>1 DEF HandlerWrite, TypeOK
  <2>. QED
    BY <1>5, <2>2 DEF HandlerWrite, TypeOK, cacheVars, ioVars, workerVars
<1>6. CASE HandlerEmpty
  BY <1>2, <1>6 DEF HandlerEmpty, TypeOK, fileVars, ioVars, workerVars
<1>7. CASE Destroy
  BY <1>2, <1>7 DEF Destroy, TypeOK, fileVars, ioVars, workerVars
<1>. QED
  BY <1>3, <1>4, <1>5, <1>6, <1>7

LEMMA PoolsAlways ==
  ASSUME Pools, HandlerOK, [ServerNext]_allVars, ~Restart, ~Crash
  PROVE  Pools'
<1>1. CASE Serve
  BY <1>1, ServeIsNext, PoolsStep
<1>2. CASE HandlerMark \/ HandlerMap \/ HandlerWrite \/ HandlerEmpty \/ Destroy
  <2>1. Quiet /\ UNCHANGED <<wrLock, ioVars, workerVars>>
    BY <1>2, HandlerBeside DEF HandlerOK
  <2>2. Quiet' /\ wrLock' \notin Blocks /\ wrLock' \notin Workers
    BY <2>1, QuietKept, LockFree
  <2>3. TypeOK'
    BY <1>2, HandlerTypes DEF Pools, Engine, HandlerOK
  <2>4. (TypeOK /\ Quiet /\ wrLock \notin Blocks /\ wrLock \notin Workers => Pools)'
    BY StandStill, PTL
  <2>. QED
    BY <2>2, <2>3, <2>4
<1>3. CASE UNCHANGED allVars
  <2>1. UNCHANGED vars
    BY <1>3 DEF allVars
  <2>. QED
    BY <2>1, PoolsStep
<1>4. CASE ServerNext /\ ~Serve
           /\ ~(HandlerMark \/ HandlerMap \/ HandlerWrite \/ HandlerEmpty \/ Destroy)
  <2>1. UNCHANGED vars
    BY <1>4, OtherSteps
  <2>. QED
    BY <2>1, PoolsStep
<1>. QED
  BY <1>1, <1>2, <1>3, <1>4

-----------------------------------------------------------------------------
(* The tables.                                                             *)

LEMMA CurrentType ==
  ASSUME TypeOK
  PROVE  Current \in TablesType <=> freeSpace \in [FileBlocks -> Int]
<1>1. Current.freeSpace = freeSpace /\ Current.blockUsageTable = blockUsageTable
      /\ Current.keyBlockMap = keyBlockMap
  BY DEF Current, FileInfo
<1>2. blockUsageTable \in {S \in SUBSET FileBlocks : 0 \in S}
      /\ keyBlockMap \in [Keys -> Blocks \cup {NoBlock}]
  BY DEF TypeOK, FileBlocks
<1>3. Current = [blockUsageTable |-> blockUsageTable, keyBlockMap |-> keyBlockMap, freeSpace |-> freeSpace]
  BY DEF Current, FileInfo
<1>. QED
  BY <1>1, <1>2, <1>3 DEF TablesType

\* What is written is what was copied, but for the free space of block 0.
LEMMA WrittenType ==
  ASSUME copied \in TablesType
  PROVE  /\ Written \in TablesType
         /\ Written.blockUsageTable = copied.blockUsageTable
         /\ Written.keyBlockMap = copied.keyBlockMap
         /\ Written.freeSpace = [copied.freeSpace EXCEPT ![0] = Written.freeSpace[0]]
         /\ Written.freeSpace[0] = BlockSize - FileInfoByteSizeLong(Message(copied))
         /\ Written.freeSpace[0] \in Int
<1>. DEFINE n == FileInfoByteSizeLong(Message(copied))
            free == BlockSize - n
            fs == [copied.freeSpace EXCEPT ![0] = free]
<1>1. n \in Nat
  BY SizeParts
<1>2. 0 \in FileBlocks /\ free \in Int
  BY <1>1, StorageAssumption, BlockZeroAssumption DEF FileBlocks
<1>3. Written = [copied EXCEPT !.freeSpace[0] = free]
  BY DEF Written, Measured
<1>4. free = BlockSize - FileInfoByteSizeLong(Message(copied))
  OBVIOUS
<1>. HIDE DEF n, free
<1>5. Written = [copied EXCEPT !.freeSpace = fs]
  BY <1>3
<1>6. copied.freeSpace \in [FileBlocks -> Int] /\ fs \in [FileBlocks -> Int] /\ fs[0] = free
  BY <1>2 DEF TablesType
<1>. HIDE DEF fs
<1>7. /\ Written \in TablesType /\ Written.freeSpace = fs
      /\ Written.blockUsageTable = copied.blockUsageTable
      /\ Written.keyBlockMap = copied.keyBlockMap
  BY <1>5, <1>6 DEF TablesType
<1>. QED
  BY <1>2, <1>4, <1>6, <1>7 DEF fs

\* The tables that are copied are tables, at every step of copying them.
LEMMA CopiedType ==
  ASSUME TypeOK, copied \in TablesType, freeSpace \in [FileBlocks -> Int],
         [ServerNext]_allVars, ~Restart, ~Crash
  PROVE  copied' \in TablesType
<1>t. blockUsageTable \in {S \in SUBSET FileBlocks : 0 \in S}
      /\ keyBlockMap \in [Keys -> Blocks \cup {NoBlock}]
  BY DEF TypeOK, FileBlocks
<1>1. CASE InfoUsed
  BY <1>t, <1>1 DEF InfoUsed, UsedCopied, TablesType
<1>2. CASE InfoIndex
  BY <1>2 DEF InfoIndex, TablesType
<1>3. CASE InfoKeys
  BY <1>t, <1>3 DEF InfoKeys, TablesType
<1>4. CASE InfoTooLarge \/ InfoTables
  BY <1>4, NewFileType DEF InfoTooLarge, InfoTables
<1>5. CASE InfoLength
  BY <1>5, WrittenType DEF InfoLength
<1>6. CASE Serve
  BY <1>6, ServeIsNext
<1>7. CASE UNCHANGED allVars
  BY <1>7 DEF allVars, serverVars, zeroVars
<1>. QED
  BY <1>1, <1>2, <1>3, <1>4, <1>5, <1>6, <1>7 DEF ServerNext, Interrupt, InterruptAgain,
     HandlerFind, HandlerMark, HandlerMap, HandlerWrite, HandlerEmpty, Destroy, zeroVars

LEMMA SpaceCounted ==
  ASSUME freeSpace \in [FileBlocks -> Int]
  PROVE  /\ MappingCounted => freeSpace' \in [FileBlocks -> Int]
         /\ \A b \in FileBlocks : \A spaces \in SUBSET Int :
              FlushCounted(b, spaces) => freeSpace' \in [FileBlocks -> Int]
<1>1. IsFiniteSet(NewlyMapped)
  <2>1. NewlyMapped \subseteq Keys
    BY DEF NewlyMapped
  <2>. QED
    BY <2>1, BlockZeroAssumption, FS_Subset
<1>2. Cardinality(NewlyMapped) \in Nat
  BY <1>1, FS_CardinalityType
<1>. DEFINE n == Cardinality(NewlyMapped)
<1>3. MappingCounted => freeSpace' = [freeSpace EXCEPT ![0] = @ - 12 * n]
  BY DEF MappingCounted
<1>. HIDE DEF n
<1>4. 0 \in FileBlocks
  BY StorageAssumption DEF FileBlocks
<1>5. freeSpace[0] - 12 * n \in Int
  BY <1>2, <1>4 DEF n
<1>6. MappingCounted => freeSpace' \in [FileBlocks -> Int]
  BY <1>3, <1>5
<1>7. ASSUME NEW b \in FileBlocks, NEW spaces \in SUBSET Int, FlushCounted(b, spaces)
      PROVE  freeSpace' \in [FileBlocks -> Int]
  <2>1. PICK f \in spaces : freeSpace' = [freeSpace EXCEPT ![b] = f]
    BY <1>7 DEF FlushCounted
  <2>2. f \in Int
    OBVIOUS
  <2>. QED
    BY <2>1, <2>2
<1>. QED
  BY <1>6, <1>7

LEMMA SpaceStep ==
  ASSUME Engine, HandlerTyped, freeSpace \in [FileBlocks -> Int], copied \in TablesType,
         [ServerNext]_allVars, ~Restart, ~Crash
  PROVE  freeSpace' \in [FileBlocks -> Int]
<1>1. FullSpace \in SUBSET Int /\ SpareSpace \in SUBSET Int
  BY ServerAssumption
<1>2. Blocks \subseteq FileBlocks
  BY StorageAssumption DEF Blocks, FileBlocks
<1>3. CASE Serve
  <2>1. CASE UNCHANGED freeSpace
    BY <2>1
  <2>2. CASE MappingCounted
    BY <2>2, SpaceCounted
  <2>3. ASSUME NEW t \in Threads, At(t, "empty"), FlushCounted(io[t].block, FullSpace)
        PROVE  freeSpace' \in [FileBlocks -> Int]
    <3>1. io[t].block \in Blocks
      BY <2>3, InHand DEF At, Engine
    <3>. QED
      BY <1>1, <1>2, <2>3, <3>1, SpaceCounted
  <2>. QED
    BY <1>3, <2>1, <2>2, <2>3 DEF Serve
<1>4. CASE HandlerMap
  BY <1>4, SpaceCounted DEF HandlerMap
<1>5. CASE HandlerEmpty
  <2>1. hblock \in Blocks
    BY <1>5 DEF HandlerEmpty, Handle, HandlerTyped
  <2>. QED
    BY <1>1, <1>2, <1>5, <2>1, SpaceCounted DEF HandlerEmpty
<1>6. CASE InfoTooLarge \/ InfoLength
  BY <1>6, WrittenType DEF InfoTooLarge, InfoLength, FreeSpaceMeasured
<1>7. CASE UNCHANGED freeSpace
  BY <1>7
<1>8. CASE UNCHANGED allVars
  BY <1>8 DEF allVars, serverVars
<1>. QED
  BY <1>3, <1>4, <1>5, <1>6, <1>7, <1>8 DEF ServerNext, Interrupt, InterruptAgain,
     HandlerFind, HandlerMark, HandlerWrite, InfoUsed, InfoIndex, InfoKeys, InfoTables, Destroy

-----------------------------------------------------------------------------
(* What a step of the pools does to the blocks in hand.                    *)

Pending(t) == Queued(t, "flush") \/ At(t, "flush")

LEMMA IOPlace ==
  ASSUME Engine, NEW t \in Threads, io[t].at # "idle"
  PROVE  \A place : IOGoto(t, place) => io'[t].at = place
<1>1. io[t] \in [at : FlushPlace \cup {"load", "fill"}, block : Blocks \cup {NoBlock}]
  BY InHand DEF Engine
<1>2. io \in [Threads -> Tasks]
  BY DEF Engine, TypeOK
<1>3. ASSUME NEW place, IOGoto(t, place) PROVE io'[t].at = place
  <2>1. io' = [io EXCEPT ![t].at = place]
    BY <1>3 DEF IOGoto
  <2>2. io'[t] = [io[t] EXCEPT !.at = place]
    BY <1>2, <2>1
  <2>. QED
    BY <1>1, <2>2
<1>. QED
  BY <1>3

LEMMA PendingStep ==
  ASSUME Engine, Next, NEW t \in Threads, Pending(t)'
  PROVE  Pending(t) \/ \E w \in Workers : PutSubmit(w) /\ block[w] = t + 1
<1>p. TypeOK /\ TasksPlaced /\ LoadsAsked
  BY DEF Engine
<1>1. CASE UNCHANGED <<queue, io>>
  BY <1>1 DEF Pending, Queued, At
<1>2. ASSUME NEW w \in Workers, PutSubmit(w)
      PROVE  Pending(t) \/ block[w] = t + 1
  <2>. DEFINE b == block[w]
              q == FlushThread(block[w])
              x == Task("flush", block[w])
  <2>1. b \in Blocks \cup {NoBlock}
    BY <1>p DEF TypeOK
  <2>2. x \in Tasks
    BY <2>1 DEF Task, Tasks, FlushPlace
  <2>3. q \in Threads \cup {NoBlock} /\ (t = q <=> b = t + 1)
    <3>1. b = NoBlock => q = NoBlock
      BY DEF FlushThread
    <3>2. b \in Blocks => q = b - 1
      BY Basics DEF FlushThread
    <3>. HIDE DEF b, q
    <3>3. CASE b = NoBlock
      BY <3>1, <3>3, Basics
    <3>4. CASE b \in Blocks
      BY <3>2, <3>4, Basics
    <3>. QED
      BY <2>1, <3>3, <3>4
  <2>4. queue' = [queue EXCEPT ![q] = Append(@, x)] /\ UNCHANGED io
    BY <1>2 DEF PutSubmit
  <2>. HIDE DEF b, q, x
  <2>5. \A u \in Threads : \A kind :
          Queued(u, kind)' <=> Queued(u, kind) \/ (u = q /\ x.at = kind)
    BY <1>p, <2>2, <2>3, <2>4, Submitted
  <2>. QED
    BY <2>3, <2>4, <2>5 DEF Pending, At, b
<1>3. ASSUME NEW w \in Workers, GetSubmit(w)
      PROVE  Pending(t)
  <2>. DEFINE b == block[w]
              q == LoadThread(block[w])
              x == Task("load", block[w])
  <2>1. b \in Blocks
    BY <1>p, <1>3 DEF GetSubmit, LoadsAsked
  <2>2. x \in Tasks /\ x.at # "flush"
    BY <2>1 DEF Task, Tasks
  <2>3. q \in Threads \cup {NoBlock}
    BY <2>1, Basics DEF LoadThread
  <2>4. queue' = [queue EXCEPT ![q] = Append(@, x)] /\ UNCHANGED io
    BY <1>3 DEF GetSubmit
  <2>. HIDE DEF b, q, x
  <2>5. \A u \in Threads : \A kind :
          Queued(u, kind)' <=> Queued(u, kind) \/ (u = q /\ x.at = kind)
    BY <1>p, <2>2, <2>3, <2>4, Submitted
  <2>. QED
    BY <2>2, <2>4, <2>5 DEF Pending, At
<1>4. ASSUME NEW u \in Threads, IOTake(u)
      PROVE  Pending(t)
  <2>1. queue[u] # <<>> /\ queue' = [queue EXCEPT ![u] = Tail(@)]
        /\ io' = [io EXCEPT ![u] = Head(queue[u])]
    BY <1>4 DEF IOTake
  <2>2. Queued(t, "flush") <=> Queued(t, "flush")' \/ (t = u /\ Head(queue[u]).at = "flush")
    BY <1>p, <2>1, Taken
  <2>3. At(t, "flush")' => At(t, "flush") \/ (t = u /\ Head(queue[u]).at = "flush")
    BY <1>p, <2>1 DEF At, TypeOK
  <2>. QED
    BY <2>2, <2>3 DEF Pending
<1>5. ASSUME NEW u \in Threads, IOStep(u), ~IOTake(u)
      PROVE  Pending(t)
  <2>1. UNCHANGED queue
    BY <1>5 DEF IOStep, FlushMap, FlushWrite, FlushEmpty, LoadEmpty, LoadFill
  <2>2. At(t, "flush")' => At(t, "flush")
    <3>1. CASE t = u /\ (FlushEmpty(u) \/ LoadFill(u))
      BY <1>p, <3>1 DEF FlushEmpty, LoadFill, IOEnd, Idle, Task, At, TypeOK
    <3>2. CASE t = u /\ (FlushMap(u) \/ FlushWrite(u) \/ LoadEmpty(u))
      <4>1. io[t].at # "idle"
            /\ (IOGoto(t, "serialize") \/ IOGoto(t, "empty") \/ IOGoto(t, "fill"))
        BY <3>2 DEF FlushMap, FlushWrite, LoadEmpty, At
      <4>. QED
        BY <4>1, IOPlace DEF At
    <3>3. CASE t # u
      <4>1. \E x : io' = [io EXCEPT ![u] = x]
        BY <1>5 DEF IOStep, FlushMap, FlushWrite, FlushEmpty, LoadEmpty, LoadFill, IOGoto, IOEnd
      <4>. QED
        BY <1>p, <3>3, <4>1 DEF At, TypeOK
    <3>. QED
      BY <1>5, <3>1, <3>2, <3>3 DEF IOStep
  <2>. QED
    BY <2>1, <2>2 DEF Pending, Queued
<1>6. ASSUME NEW w \in Workers, Take(w) \/ Request(w), ~PutSubmit(w), ~GetSubmit(w)
      PROVE  UNCHANGED <<queue, io>>
  BY <1>6 DEF Take, Request, PutAdd, PutFind, PutMark, GetWrite, GetLookup,
     GetHit, GetMiss, Del, ioVars
<1>. QED
  BY <1>1, <1>2, <1>3, <1>4, <1>5, <1>6 DEF Next

LEMMA SerializeStep ==
  ASSUME Engine, Next, NEW t \in Threads, At(t, "serialize")'
  PROVE  At(t, "serialize") \/ FlushMap(t)
<1>p. TypeOK /\ TasksPlaced /\ io \in [Threads -> Tasks]
  BY DEF Engine, TypeOK
<1>1. SUFFICES ASSUME ~At(t, "serialize") PROVE FlushMap(t)
  OBVIOUS
<1>2. io'[t] # io[t]
  BY <1>1 DEF At
<1>3. ASSUME NEW w \in Workers, Take(w) \/ Request(w)
      PROVE  UNCHANGED io
  BY <1>3 DEF Take, Request, PutAdd, PutFind, PutMark, PutSubmit, GetWrite, GetLookup,
     GetHit, GetMiss, GetSubmit, Del, ioVars
<1>4. PICK u \in Threads : IOStep(u)
  BY <1>2, <1>3 DEF Next
<1>5. t = u
  <2>1. \E x : io' = [io EXCEPT ![u] = x]
    BY <1>4 DEF IOStep, IOTake, FlushMap, FlushWrite, FlushEmpty, LoadEmpty, LoadFill,
       IOGoto, IOEnd
  <2>. QED
    BY <1>p, <1>2, <2>1
<1>6. CASE IOTake(t)
  <2>1. io' = [io EXCEPT ![t] = Head(queue[t])] /\ queue[t] # <<>> /\ queue[t] \in Seq(Tasks)
    BY <1>6, <1>p DEF IOTake, TypeOK
  <2>2. Head(queue[t]).at # "serialize"
    <3>1. Head(queue[t]) = queue[t][1] /\ 1 \in 1..Len(queue[t])
      BY <2>1, Popped
    <3>. QED
      BY <1>p, <3>1 DEF TasksPlaced
  <2>. QED
    BY <1>p, <2>1, <2>2 DEF At
<1>7. CASE FlushWrite(t) \/ LoadEmpty(t)
  <2>1. io[t].at # "idle" /\ (IOGoto(t, "empty") \/ IOGoto(t, "fill"))
    BY <1>7 DEF FlushWrite, LoadEmpty, At
  <2>. QED
    BY <2>1, IOPlace DEF At
<1>8. CASE FlushEmpty(t) \/ LoadFill(t)
  <2>1. io'[t] = Idle
    BY <1>p, <1>8 DEF FlushEmpty, LoadFill, IOEnd
  <2>. QED
    BY <2>1 DEF At, Idle, Task
<1>. QED
  BY <1>4, <1>5, <1>6, <1>7, <1>8 DEF IOStep

LEMMA HandStep ==
  ASSUME Engine, Next, NEW w \in Workers
  PROVE  /\ pc'[w] = "submit" => block'[w] = block[w] /\ (pc[w] = "submit" \/ PutMark(w))
         /\ pc'[w] = "mark" => \/ block'[w] = block[w] /\ pc[w] = "mark"
                               \/ block'[w] = FreeBlock /\ PutFind(w)
<1>p. TypeOK
  BY DEF Engine
<1>1. ASSUME NEW v \in Workers, Take(v) \/ Request(v)
      PROVE  /\ pc'[w] = "submit" => block'[w] = block[w] /\ (pc[w] = "submit" \/ PutMark(w))
             /\ pc'[w] = "mark" => \/ block'[w] = block[w] /\ pc[w] = "mark"
                                   \/ block'[w] = FreeBlock /\ PutFind(w)
  <2>1. CASE v # w
    <3>1. pc'[w] = pc[w] /\ block'[w] = block[w]
      BY <1>1, <1>p, <2>1 DEF Take, Request, PutAdd, PutFind, PutMark, PutSubmit, GetWrite,
         GetLookup, GetHit, GetMiss, GetSubmit, Del, Goto, workerVars, TypeOK
    <3>. QED
      BY <3>1
  <2>2. CASE v = w /\ ~GetLookup(w)
    BY <1>1, <1>p, <2>2 DEF Take, Request, PutAdd, PutFind, PutMark, PutSubmit, GetWrite,
       GetHit, GetMiss, GetSubmit, Del, Goto, workerVars, TypeOK
  <2>3. CASE v = w /\ GetLookup(w)
    <3>1. PICK p \in {"idle", "hit", "miss"} : pc' = [pc EXCEPT ![w] = p]
      BY <2>3 DEF GetLookup, Goto
    <3>. QED
      BY <1>p, <3>1 DEF TypeOK
  <2>. QED
    BY <2>1, <2>2, <2>3
<1>2. ASSUME NEW t \in Threads, IOStep(t)
      PROVE  UNCHANGED workerVars
  BY <1>2 DEF IOStep, IOTake, FlushMap, FlushWrite, FlushEmpty, LoadEmpty, LoadFill
<1>. QED
  BY <1>1, <1>2 DEF Next, workerVars

LEMMA HandedStep ==
  ASSUME Engine, Next, UNCHANGED <<handler, hblock>>, NEW b \in Blocks, Handed(b)'
  PROVE  Handed(b) \/ b = FreeBlock
<1>1. ASSUME NEW w \in Workers, pc'[w] \in {"mark", "submit"}, block'[w] = b
      PROVE  Handed(b) \/ b = FreeBlock
  <2>1. CASE pc[w] \in {"mark", "submit"} /\ block[w] = b
    BY <2>1 DEF Handed
  <2>2. CASE block'[w] = FreeBlock
    BY <1>1, <2>2
  <2>3. CASE PutMark(w) /\ block[w] = b
    BY <2>3 DEF PutMark, Handed
  <2>. QED
    BY <1>1, <2>1, <2>2, <2>3, HandStep
<1>2. ASSUME NEW t \in Threads, t + 1 = b, Pending(t)'
      PROVE  Handed(b)
  <2>1. CASE Pending(t)
    BY <1>2, <2>1 DEF Pending, Handed
  <2>2. ASSUME NEW w \in Workers, PutSubmit(w), block[w] = t + 1
        PROVE  Handed(b)
    BY <1>2, <2>2 DEF PutSubmit, Handed
  <2>. QED
    BY <1>2, <2>1, <2>2, PendingStep
<1>. QED
  BY <1>1, <1>2 DEF Handed, Pending

-----------------------------------------------------------------------------
(* The tables only grow: a block is marked by the put or the handler that  *)
(* found it, and keys are mapped to a block that is marked.                *)

EngineGrown ==
  /\ blockUsageTable \subseteq blockUsageTable'
  /\ Extends(keyBlockMap, keyBlockMap')
  /\ Closed(blockUsageTable', keyBlockMap')

LEMMA EngineKept ==
  ASSUME Closed(blockUsageTable, keyBlockMap), UNCHANGED <<blockUsageTable, keyBlockMap>>
  PROVE  EngineGrown
  BY DEF EngineGrown, Closed, Extends

LEMMA EngineMarks ==
  ASSUME TypeOK, NEW b \in Blocks \cup {NoBlock}, MarkUsed(b),
         Closed(blockUsageTable, keyBlockMap), UNCHANGED keyBlockMap
  PROVE  EngineGrown
<1>1. blockUsageTable \subseteq blockUsageTable'
  BY MarkedType
<1>. QED
  BY <1>1 DEF EngineGrown, Closed, Extends

LEMMA EngineMaps ==
  ASSUME TypeOK, NEW b \in Blocks, b \in blockUsageTable, keyBlockMap' = Mapped(write, b),
         Closed(blockUsageTable, keyBlockMap), UNCHANGED blockUsageTable
  PROVE  EngineGrown
<1>. DEFINE m == Mapped(write, b)
<1>1. \A k \in Keys : /\ keyBlockMap[k] # NoBlock => m[k] = keyBlockMap[k]
                      /\ m[k] # NoBlock => m[k] = keyBlockMap[k] \/ m[k] = b
  BY MapType2
<1>2. keyBlockMap' = m
  OBVIOUS
<1>. HIDE DEF m
<1>. QED
  BY <1>1, <1>2 DEF EngineGrown, Closed, Extends

LEMMA EngineGrows ==
  ASSUME Engine, HandlerTyped, Marked, Closed(blockUsageTable, keyBlockMap),
         [ServerNext]_allVars, ~Restart, ~Crash
  PROVE  EngineGrown
<1>p. TypeOK /\ TasksPlaced
  BY DEF Engine
<1>1. CASE Serve
  <2>1. Next
    BY <1>1, ServeIsNext
  <2>2. ASSUME NEW w \in Workers, PutMark(w) PROVE EngineGrown
    <3>1. block[w] \in Blocks \cup {NoBlock}
      BY <1>p DEF TypeOK
    <3>. QED
      BY <1>p, <2>2, <3>1, EngineMarks DEF PutMark
  <2>3. ASSUME NEW t \in Threads, FlushMap(t) PROVE EngineGrown
    <3>1. io[t].block = t + 1 /\ t + 1 \in Blocks /\ t + 1 \in blockUsageTable
      BY <1>p, <2>3, InHand DEF FlushMap, At, Marked
    <3>2. keyBlockMap' = Mapped(write, t + 1) /\ UNCHANGED blockUsageTable
      BY <2>3, <3>1 DEF FlushMap
    <3>. QED
      BY <1>p, <3>1, <3>2, EngineMaps
  <2>4. ASSUME NEW w \in Workers, Take(w) \/ Request(w), ~PutMark(w)
        PROVE  UNCHANGED <<blockUsageTable, keyBlockMap>>
    BY <2>4 DEF Take, Request, PutAdd, PutFind, PutSubmit, GetWrite, GetLookup,
       GetHit, GetMiss, GetSubmit, Del, fileVars
  <2>5. ASSUME NEW t \in Threads, IOStep(t), ~FlushMap(t)
        PROVE  UNCHANGED <<blockUsageTable, keyBlockMap>>
    BY <2>5 DEF IOStep, IOTake, FlushWrite, FlushEmpty, LoadEmpty, LoadFill, fileVars
  <2>. QED
    BY <2>1, <2>2, <2>3, <2>4, <2>5, EngineKept DEF Next
<1>2. CASE HandlerMark
  <2>1. hblock \in Blocks \cup {NoBlock}
    BY DEF HandlerTyped
  <2>. QED
    BY <1>p, <1>2, <2>1, EngineMarks DEF HandlerMark
<1>3. CASE HandlerMap
  <2>1. CASE hblock = NoBlock
    BY <1>3, <2>1, EngineKept DEF HandlerMap
  <2>2. CASE hblock # NoBlock
    <3>1. hblock \in Blocks /\ hblock \in blockUsageTable
      BY <1>3, <2>2 DEF HandlerMap, Handle, HandlerTyped, Marked
    <3>2. keyBlockMap' = Mapped(write, hblock) /\ UNCHANGED blockUsageTable
      BY <1>3, <2>2 DEF HandlerMap, HandlerMapped
    <3>. QED
      BY <1>p, <3>1, <3>2, EngineMaps
  <2>. QED
    BY <2>1, <2>2
<1>4. CASE HandlerWrite \/ HandlerEmpty \/ Destroy
  BY <1>4, EngineKept DEF HandlerWrite, HandlerEmpty, Destroy, fileVars
<1>5. CASE UNCHANGED vars
  BY <1>5, EngineKept DEF vars, fileVars
<1>6. CASE UNCHANGED allVars
  BY <1>5, <1>6 DEF allVars
<1>7. CASE ServerNext /\ ~Serve
           /\ ~(HandlerMark \/ HandlerMap \/ HandlerWrite \/ HandlerEmpty \/ Destroy)
  BY <1>5, <1>7, OtherSteps
<1>. QED
  BY <1>1, <1>2, <1>3, <1>4, <1>6, <1>7

-----------------------------------------------------------------------------
(* A block is marked before it is submitted or flushed.                    *)

LEMMA MarkedStep ==
  ASSUME Engine, Marked, blockUsageTable \subseteq blockUsageTable',
         [ServerNext]_allVars, ~Restart, ~Crash
  PROVE  Marked'
<1>p. TypeOK
  BY DEF Engine
<1>1. CASE Serve
  <2>1. Next /\ UNCHANGED <<handler, hblock>>
    BY <1>1, ServeIsNext
  <2>2. ASSUME NEW w \in Workers, pc'[w] = "submit", block'[w] # NoBlock
        PROVE  block'[w] \in blockUsageTable'
    <3>1. block'[w] = block[w] /\ (pc[w] = "submit" \/ PutMark(w))
      BY <2>1, <2>2, HandStep
    <3>2. CASE pc[w] = "submit"
      BY <2>2, <3>1, <3>2 DEF Marked
    <3>3. CASE PutMark(w)
      BY <2>2, <3>1, <3>3 DEF PutMark, MarkUsed
    <3>. QED
      BY <3>1, <3>2, <3>3
  <2>3. ASSUME NEW t \in Threads, Pending(t)'
        PROVE  t + 1 \in blockUsageTable'
    <3>1. CASE Pending(t)
      BY <3>1 DEF Marked, Pending
    <3>2. ASSUME NEW w \in Workers, PutSubmit(w), block[w] = t + 1
          PROVE  t + 1 \in blockUsageTable'
      <4>1. pc[w] = "submit" /\ block[w] # NoBlock
        BY <3>2, Basics DEF PutSubmit
      <4>. QED
        BY <3>2, <4>1 DEF Marked
    <3>. QED
      BY <2>1, <2>3, <3>1, <3>2, PendingStep
  <2>4. handler' = "map" /\ hblock' # NoBlock => hblock' \in blockUsageTable'
    BY <2>1 DEF Marked
  <2>. QED
    BY <2>2, <2>3, <2>4 DEF Marked, Pending
<1>2. CASE HandlerMark \/ HandlerMap \/ HandlerWrite \/ HandlerEmpty \/ Destroy
  <2>1. UNCHANGED <<ioVars, workerVars>>
    BY <1>2, HandlerBeside
  <2>2. handler' = "map" /\ hblock' # NoBlock => hblock' \in blockUsageTable'
    BY <1>2 DEF HandlerMark, HandlerMap, HandlerWrite, HandlerEmpty, Destroy, Handle, MarkUsed
  <2>. QED
    BY <2>1, <2>2 DEF Marked, ioVars, workerVars, Queued, At
<1>3. CASE UNCHANGED vars /\ handler' # "map"
  BY <1>3 DEF Marked, vars, ioVars, workerVars, Queued, At
<1>4. CASE UNCHANGED allVars
  BY <1>4 DEF Marked, allVars, vars, ioVars, workerVars, serverVars, signalVars, Queued, At
<1>5. CASE ServerNext /\ ~Serve
           /\ ~(HandlerMark \/ HandlerMap \/ HandlerWrite \/ HandlerEmpty \/ Destroy)
  <2>1. UNCHANGED vars /\ (Interrupt \/ InterruptAgain \/ HandlerFind
                           \/ InfoUsed \/ InfoIndex \/ InfoKeys
                           \/ InfoTooLarge \/ InfoLength \/ InfoTables)
    BY <1>5, OtherSteps
  <2>2. handler' # "map"
    BY <2>1 DEF Interrupt, InterruptAgain, HandlerFind, InfoUsed, InfoIndex, InfoKeys, InfoTooLarge, InfoLength, InfoTables, Handle
  <2>. QED
    BY <1>3, <2>1, <2>2
<1>. QED
  BY <1>1, <1>2, <1>4, <1>5

-----------------------------------------------------------------------------
(* Block 0 says nothing that the tables in memory do not say.              *)

LEMMA BlockZeroKept ==
  ASSUME [ServerNext]_allVars, ~Restart, ~Crash, ~InfoTables
  PROVE  UNCHANGED block0
  BY DEF ServerNext, Serve, Interrupt, InterruptAgain, HandlerFind, HandlerMark, HandlerMap,
     HandlerWrite, HandlerEmpty, InfoUsed, InfoIndex, InfoKeys, InfoTooLarge, InfoLength, Destroy, zeroVars, serverVars, allVars

LEMMA ExtendsChain ==
  ASSUME NEW a, NEW b, NEW c, Extends(a, b), Extends(b, c)
  PROVE  Extends(a, c)
  BY DEF Extends

LEMMA TablesStep ==
  ASSUME Engine, Engine', HandlerOK, Marked, TablesAgree, [ServerNext]_allVars,
         ~Restart, ~Crash
  PROVE  TablesAgree'
<1>1. EngineGrown
  BY EngineGrows DEF TablesAgree, HandlerOK
<1>2. freeSpace \in [FileBlocks -> Int]
  BY CurrentType DEF TablesAgree, Engine
<1>3. freeSpace' \in [FileBlocks -> Int] /\ copied' \in TablesType
  BY <1>2, SpaceStep, CopiedType DEF TablesAgree, HandlerOK, Engine
<1>4. (TypeOK => (Current \in TablesType <=> freeSpace \in [FileBlocks -> Int]))'
  BY CurrentType, PTL
<1>5. Current' \in TablesType
  BY <1>3, <1>4 DEF Engine
<1>6. CASE ~InfoTables
  <2>1. block0' = block0
    BY <1>6, BlockZeroKept
  <2>2. Extends(block0.keyBlockMap, keyBlockMap')
    BY <1>1, ExtendsChain DEF EngineGrown, TablesAgree
  <2>. QED
    BY <1>1, <1>3, <1>5, <2>1, <2>2 DEF TablesAgree, EngineGrown
<1>7. CASE InfoTables
  <2>1. block0' = Current /\ UNCHANGED <<blockUsageTable, keyBlockMap>>
    BY <1>7 DEF InfoTables, Handle, HandlerOK, CopiedOK, vars, fileVars
  <2>2. Current.blockUsageTable = blockUsageTable /\ Current.keyBlockMap = keyBlockMap
    BY DEF Current, FileInfo
  <2>. QED
    BY <1>1, <1>3, <1>5, <2>1, <2>2 DEF TablesAgree, EngineGrown, Extends
<1>. QED
  BY <1>6, <1>7

-----------------------------------------------------------------------------
(* A key is on its block.  No block that is used is handed out again, and  *)
(* the cache does not change while it is being written.                    *)

HandedNoMore == \A b \in Blocks : b \in blockUsageTable /\ Handed(b)' => Handed(b)
WritingElse(b) == \A c \in Blocks : c # b => (Writing(c)' <=> Writing(c))

LEMMA KeysKept ==
  ASSUME TypeOK, TablesAgree, KeysOnBlocks, HandedNoMore, WritingElse(NoBlock),
         UNCHANGED <<keyBlockMap, disk>>,
         UNCHANGED <<write, block0>> \/ \A b \in Blocks : ~Writing(b)
  PROVE  KeysOnBlocks'
<1>. SUFFICES ASSUME NEW k \in Keys, NEW b, b = keyBlockMap'[k], b # NoBlock
              PROVE  OnBlock(k, b)'
  BY DEF KeysOnBlocks
<1>1. b = keyBlockMap[k] /\ b \in Blocks /\ b \in blockUsageTable
  BY DEF TypeOK, TablesAgree, Closed
<1>2. OnBlock(k, b)
  BY <1>1 DEF KeysOnBlocks
<1>3. ~Handed(b)' /\ (Writing(b)' <=> Writing(b))
  BY <1>1, <1>2, Basics DEF HandedNoMore, WritingElse, OnBlock
<1>. QED
  BY <1>1, <1>2, <1>3 DEF OnBlock

LEMMA KeysWritten ==
  ASSUME TypeOK, TablesAgree, KeysOnBlocks, HandedNoMore,
         NEW c \in Blocks, WritingElse(c), Writing(c), ~Writing(c)',
         disk' = [disk EXCEPT ![c] = write], UNCHANGED <<keyBlockMap, write, block0>>
  PROVE  KeysOnBlocks'
<1>. SUFFICES ASSUME NEW k \in Keys, NEW b, b = keyBlockMap'[k], b # NoBlock
              PROVE  OnBlock(k, b)'
  BY DEF KeysOnBlocks
<1>1. b = keyBlockMap[k] /\ b \in Blocks /\ b \in blockUsageTable
  BY DEF TypeOK, TablesAgree, Closed
<1>2. OnBlock(k, b)
  BY <1>1 DEF KeysOnBlocks
<1>3. ~Handed(b)'
  BY <1>1, <1>2 DEF HandedNoMore, OnBlock
<1>4. CASE b = c
  <2>1. disk'[b] = write /\ write[k] # Absent
    BY <1>2, <1>4 DEF TypeOK, OnBlock
  <2>. QED
    BY <1>3, <1>4, <2>1 DEF OnBlock
<1>5. CASE b # c
  <2>1. disk'[b] = disk[b] /\ (Writing(b)' <=> Writing(b))
    BY <1>1, <1>5 DEF TypeOK, WritingElse
  <2>. QED
    BY <1>2, <1>3, <2>1 DEF OnBlock
<1>. QED
  BY <1>4, <1>5

LEMMA KeysMapped ==
  ASSUME TypeOK, TablesAgree, KeysOnBlocks, HandedNoMore,
         NEW c \in Blocks, WritingElse(c), Writing(c)', Handed(c), ~Handed(c)',
         keyBlockMap' = Mapped(write, c), UNCHANGED <<disk, write, block0>>
  PROVE  KeysOnBlocks'
<1>. SUFFICES ASSUME NEW k \in Keys, NEW b, b = keyBlockMap'[k], b # NoBlock
              PROVE  OnBlock(k, b)'
  BY DEF KeysOnBlocks
<1>1. \/ b = keyBlockMap[k]
      \/ b = c /\ write[k] # Absent /\ keyBlockMap[k] = NoBlock
  BY MapType2
<1>2. CASE b = keyBlockMap[k]
  <2>1. b \in Blocks /\ b \in blockUsageTable
    BY <1>2 DEF TypeOK, TablesAgree, Closed
  <2>2. OnBlock(k, b)
    BY <1>2 DEF KeysOnBlocks
  <2>3. b # c
    BY <2>2 DEF OnBlock
  <2>4. ~Handed(b)' /\ (Writing(b)' <=> Writing(b))
    BY <2>1, <2>2, <2>3 DEF HandedNoMore, WritingElse, OnBlock
  <2>. QED
    BY <2>2, <2>4 DEF OnBlock
<1>3. CASE b = c /\ write[k] # Absent /\ keyBlockMap[k] = NoBlock
  <2>1. block0.keyBlockMap[k] # b
    BY <1>3, Basics DEF TablesAgree, Extends
  <2>2. Writing(b)' /\ ~Handed(b)'
    BY <1>3
  <2>. QED
    BY <1>3, <2>1, <2>2 DEF OnBlock
<1>. QED
  BY <1>1, <1>2, <1>3

LEMMA SerializeKept ==
  ASSUME Engine, Next, NEW t \in Threads, At(t, "serialize"), ~FlushWrite(t)
  PROVE  At(t, "serialize")'
<1>p. io \in [Threads -> Tasks]
  BY DEF Engine, TypeOK
<1>1. ASSUME NEW w \in Workers, Take(w) \/ Request(w)
      PROVE  UNCHANGED io
  BY <1>1 DEF Take, Request, PutAdd, PutFind, PutMark, PutSubmit, GetWrite, GetLookup,
     GetHit, GetMiss, GetSubmit, Del, ioVars
<1>2. ASSUME NEW u \in Threads, IOStep(u)
      PROVE  io'[t] = io[t]
  <2>1. u # t
    BY <1>2 DEF IOStep, IOTake, FlushMap, FlushEmpty, LoadEmpty, LoadFill, At
  <2>2. \E x : io' = [io EXCEPT ![u] = x]
    BY <1>2 DEF IOStep, IOTake, FlushMap, FlushWrite, FlushEmpty, LoadEmpty, LoadFill,
       IOGoto, IOEnd
  <2>. QED
    BY <1>p, <2>1, <2>2
<1>. QED
  BY <1>1, <1>2 DEF Next, At

\* Who owns the write lock changes the cache, and nobody else.
LEMMA WriteAlone ==
  ASSUME Pools, Next, write' # write
  PROVE  \A t \in Threads : ~At(t, "serialize")
<1>p. LockMoves /\ PutOwnsLock
  BY DEF Pools, Engine
<1>1. ASSUME NEW w \in Workers, Take(w) \/ Request(w)
      PROVE  wrLock = None
  BY <1>1 DEF Take, Request, PutAdd, PutFind, PutMark, PutSubmit, GetWrite, GetLookup,
     GetHit, GetMiss, GetSubmit, Del, cacheVars
<1>2. ASSUME NEW t \in Threads, IOStep(t)
      PROVE  At(t, "empty")
  BY <1>2 DEF IOStep, IOTake, FlushMap, FlushWrite, FlushEmpty, LoadEmpty, LoadFill, cacheVars
<1>3. \A t \in Threads : At(t, "serialize") \/ At(t, "empty") => FlushAt(t)
  BY DEF At, FlushAt, FlushPlace
<1>4. \A t, u \in Threads : At(t, "empty") /\ At(u, "serialize") => FALSE
  <2>1. \A t, u \in Threads : FlushAt(t) /\ FlushAt(u) => t = u
    BY <1>p, LockOwner
  <2>. QED
    BY <1>3, <2>1 DEF At
<1>5. wrLock = None => \A t \in Threads : ~FlushAt(t)
  BY <1>p, LockOwner
<1>. QED
  BY <1>1, <1>2, <1>3, <1>4, <1>5 DEF Next

LEMMA DiskKept ==
  ASSUME Next, \A t \in Threads : ~FlushWrite(t)
  PROVE  UNCHANGED disk
  BY DEF Next, Take, Request, PutAdd, PutFind, PutMark, PutSubmit, GetWrite, GetLookup, GetHit,
     GetMiss, GetSubmit, Del, IOStep, IOTake, FlushMap, FlushEmpty, LoadEmpty, LoadFill, fileVars

LEMMA MapKept ==
  ASSUME Next, \A t \in Threads : ~FlushMap(t)
  PROVE  UNCHANGED keyBlockMap
  BY DEF Next, Take, Request, PutAdd, PutFind, PutMark, PutSubmit, GetWrite, GetLookup, GetHit,
     GetMiss, GetSubmit, Del, IOStep, IOTake, FlushWrite, FlushEmpty, LoadEmpty, LoadFill, fileVars

LEMMA FlushWithoutPut ==
  LockMoves /\ PutOwnsLock =>
    \A u \in Threads, w \in Workers : FlushAt(u) => pc[w] \notin PutPlace
  BY LockOwner

LEMMA ServeKeys ==
  ASSUME Pools, Pools', TablesAgree, KeysOnBlocks, HandlerOK, Serve
  PROVE  KeysOnBlocks'
<1>p. Engine /\ TypeOK /\ TasksPlaced /\ LockMoves /\ PutOwnsLock
  BY DEF Pools, Engine
<1>1. Next /\ handler = "none" /\ UNCHANGED <<handler, hblock, block0>>
  BY ServeAlone, ServeIsNext
<1>2. HandedNoMore
  <2>1. FreeBlock \in Blocks => FreeBlock \notin blockUsageTable
    BY <1>p, FreeBlockIsFree DEF TypeOK
  <2>2. \A b \in Blocks : Handed(b)' => Handed(b) \/ b = FreeBlock
    BY <1>1, <1>p, HandedStep
  <2>. QED
    BY <2>1, <2>2 DEF HandedNoMore
<1>3. \A b : (Writing(b) <=> \E t \in Threads : t + 1 = b /\ At(t, "serialize"))
              /\ (Writing(b)' <=> \E t \in Threads : t + 1 = b /\ At(t, "serialize")')
  BY <1>1 DEF Writing
<1>4. \A t \in Threads : t + 1 \in Blocks /\ t + 1 # NoBlock
  BY Basics
<1>5. \A t, u \in Threads : t + 1 = u + 1 => t = u
  BY Basics
<1>6. \A t \in Threads : /\ At(t, "serialize")' => At(t, "serialize") \/ FlushMap(t)
                         /\ At(t, "serialize") => At(t, "serialize")' \/ FlushWrite(t)
  BY <1>1, <1>p, SerializeStep, SerializeKept
<1>7. ASSUME NEW t \in Threads, FlushMap(t)
      PROVE  KeysOnBlocks'
  <2>1. \A u \in Threads : u # t => ~FlushMap(u)
    <3>1. \A u, v \in Threads : FlushAt(u) /\ FlushAt(v) => u = v
      BY <1>p, LockOwner
    <3>. QED
      BY <1>7, <3>1 DEF FlushMap, At, FlushAt, FlushPlace
  <2>2. \A u \in Threads : ~FlushWrite(u)
    <3>1. \A u, v \in Threads : FlushAt(u) /\ FlushAt(v) => u = v
      BY <1>p, LockOwner
    <3>. QED
      BY <1>7, <3>1 DEF FlushMap, FlushWrite, At, FlushAt, FlushPlace
  <2>3. WritingElse(t + 1)
    BY <1>3, <1>6, <2>1, <2>2 DEF WritingElse
  <2>4. io'[t].at = "serialize"
    BY <1>7, <1>p, IOPlace DEF FlushMap, At
  <2>5. Writing(t + 1)'
    BY <1>3, <2>4 DEF At
  <2>6. Handed(t + 1)
    BY <1>7 DEF FlushMap, Handed
  <2>7. ~Handed(t + 1)'
    <3>1. FlushAt(t)'
      BY <2>4 DEF FlushAt, FlushPlace
    <3>2. (LockMoves /\ PutOwnsLock => \A u \in Threads, w \in Workers :
              FlushAt(u) => pc[w] \notin PutPlace)'
      BY FlushWithoutPut, PTL
    <3>3. \A w \in Workers : pc'[w] \notin {"mark", "submit"}
      BY <3>1, <3>2 DEF Pools, Engine, PutPlace
    <3>4. OneFlush(t)'
      BY DEF Pools, Engine, LockMoves
    <3>5. ~Queued(t, "flush")' /\ ~At(t, "flush")'
      BY <2>4, <3>4 DEF OneFlush, FlushPlace, At
    <3>6. handler' = "none"
      BY <1>1
    <3>. QED
      BY <1>5, <3>3, <3>5, <3>6 DEF Handed
  <2>8. keyBlockMap' = Mapped(write, t + 1)
    BY <1>7, <1>p, InHand DEF FlushMap, At
  <2>9. UNCHANGED <<disk, write, block0>>
    BY <1>1, <1>7 DEF FlushMap, cacheVars
  <2>. QED
    BY <1>2, <1>4, <1>p, <2>3, <2>5, <2>6, <2>7, <2>8, <2>9, KeysMapped
<1>8. ASSUME NEW t \in Threads, FlushWrite(t)
      PROVE  KeysOnBlocks'
  <2>1. \A u \in Threads : ~FlushMap(u) /\ (u # t => ~FlushWrite(u))
    <3>1. \A u, v \in Threads : FlushAt(u) /\ FlushAt(v) => u = v
      BY <1>p, LockOwner
    <3>. QED
      BY <1>8, <3>1 DEF FlushMap, FlushWrite, At, FlushAt, FlushPlace
  <2>2. WritingElse(t + 1)
    BY <1>3, <1>6, <2>1 DEF WritingElse
  <2>3. Writing(t + 1)
    BY <1>3, <1>8 DEF FlushWrite
  <2>4. io'[t].at = "empty"
    BY <1>8, <1>p, IOPlace DEF FlushWrite, At
  <2>5. ~Writing(t + 1)'
    BY <1>3, <1>5, <2>4 DEF At
  <2>6. disk' = [disk EXCEPT ![t + 1] = write]
    BY <1>8, <1>p, InHand DEF FlushWrite, At
  <2>7. UNCHANGED <<keyBlockMap, write, block0>>
    BY <1>1, <1>8 DEF FlushWrite, cacheVars
  <2>. QED
    BY <1>2, <1>4, <1>p, <2>2, <2>3, <2>5, <2>6, <2>7, KeysWritten
<1>9. CASE \A t \in Threads : ~FlushMap(t) /\ ~FlushWrite(t)
  <2>1. WritingElse(NoBlock)
    BY <1>3, <1>6, <1>9 DEF WritingElse
  <2>2. UNCHANGED <<keyBlockMap, disk>>
    BY <1>1, <1>9, DiskKept, MapKept
  <2>3. write' = write \/ \A b \in Blocks : ~Writing(b)
    BY <1>1, <1>3, WriteAlone
  <2>. QED
    BY <1>1, <1>2, <1>p, <2>1, <2>2, <2>3, KeysKept
<1>. QED
  BY <1>7, <1>8, <1>9

\* When the pools stand still, only the handler has a block in hand.
LEMMA QuietBlocks ==
  Quiet => \A b : /\ Handed(b) <=> handler \in {"mark", "map"} /\ hblock = b
                  /\ Writing(b) <=> handler = "serialize" /\ hblock = b
  BY DEF Quiet, Handed, Writing, Queued, At

LEMMA HandlerKeys ==
  ASSUME Pools, TablesAgree, KeysOnBlocks, HandlerOK,
         HandlerFind \/ HandlerMark \/ HandlerMap \/ HandlerWrite \/ HandlerEmpty
           \/ InfoTables \/ Destroy
  PROVE  KeysOnBlocks'
<1>p. TypeOK
  BY DEF Pools, Engine
<1>1. Quiet /\ UNCHANGED <<ioVars, workerVars>>
  BY DEF HandlerOK, HandlerFind, HandlerMark, HandlerMap, HandlerWrite, HandlerEmpty,
         InfoTables, Destroy, Handle, vars
<1>2. \A b : /\ Handed(b) <=> handler \in {"mark", "map"} /\ hblock = b
             /\ Writing(b) <=> handler = "serialize" /\ hblock = b
  BY <1>1, QuietBlocks
<1>3. \A b : /\ Handed(b)' <=> handler' \in {"mark", "map"} /\ hblock' = b
             /\ Writing(b)' <=> handler' = "serialize" /\ hblock' = b
  <2>1. Quiet'
    BY <1>1, QuietKept
  <2>2. (Quiet => \A b : /\ Handed(b) <=> handler \in {"mark", "map"} /\ hblock = b
                         /\ Writing(b) <=> handler = "serialize" /\ hblock = b)'
    BY QuietBlocks, PTL
  <2>. QED
    BY <2>1, <2>2
<1>4. NoBlock \notin Blocks
  BY Basics
<1>5. CASE HandlerFind
  <2>1. FreeBlock \in Blocks => FreeBlock \notin blockUsageTable
    BY <1>p, FreeBlockIsFree DEF TypeOK
  <2>2. /\ handler = "find" /\ handler' = "mark" /\ hblock' = FreeBlock
        /\ UNCHANGED <<keyBlockMap, disk, write, block0>>
    BY <1>5 DEF HandlerFind, Handle, vars, fileVars, cacheVars, zeroVars
  <2>3. HandedNoMore /\ WritingElse(NoBlock)
    BY <1>2, <1>3, <2>1, <2>2 DEF HandedNoMore, WritingElse
  <2>. QED
    BY <1>p, <2>2, <2>3, KeysKept
<1>6. CASE HandlerMark
  <2>1. /\ handler = "mark" /\ handler' = "map" /\ hblock' = hblock
        /\ UNCHANGED <<keyBlockMap, disk, write, block0>>
    BY <1>6 DEF HandlerMark, Handle, cacheVars, zeroVars
  <2>2. HandedNoMore /\ WritingElse(NoBlock)
    BY <1>2, <1>3, <2>1 DEF HandedNoMore, WritingElse
  <2>. QED
    BY <1>p, <2>1, <2>2, KeysKept
<1>7. CASE HandlerMap
  <2>1. handler = "map" /\ hblock' = hblock /\ UNCHANGED <<disk, write, block0>>
    BY <1>7 DEF HandlerMap, Handle, cacheVars, zeroVars
  <2>2. CASE hblock = NoBlock
    <3>1. handler' = "info" /\ UNCHANGED keyBlockMap
      BY <1>7, <2>2 DEF HandlerMap, Handle
    <3>2. HandedNoMore /\ WritingElse(NoBlock)
      BY <1>2, <1>3, <2>1, <3>1 DEF HandedNoMore, WritingElse
    <3>. QED
      BY <1>p, <2>1, <3>1, <3>2, KeysKept
  <2>3. CASE hblock # NoBlock
    <3>1. handler' = "serialize" /\ keyBlockMap' = Mapped(write, hblock)
      BY <1>7, <2>3 DEF HandlerMap, Handle, HandlerMapped
    <3>2. hblock \in Blocks
      BY <2>3 DEF HandlerOK, HandlerTyped
    <3>3. HandedNoMore /\ WritingElse(hblock)
      BY <1>2, <1>3, <2>1, <3>1 DEF HandedNoMore, WritingElse
    <3>4. Writing(hblock)' /\ Handed(hblock) /\ ~Handed(hblock)'
      BY <1>2, <1>3, <2>1, <3>1
    <3>5. \A c \in Blocks : c = hblock => KeysOnBlocks'
      <4>1. SUFFICES ASSUME NEW c \in Blocks, c = hblock PROVE KeysOnBlocks'
        OBVIOUS
      <4>2. WritingElse(c) /\ Writing(c)' /\ Handed(c) /\ ~Handed(c)'
            /\ keyBlockMap' = Mapped(write, c)
        BY <1>2, <1>3, <2>1, <3>1, <4>1 DEF WritingElse
      <4>. QED
        BY <1>p, <2>1, <3>3, <4>2, KeysMapped
    <3>. QED
      BY <3>2, <3>5
  <2>. QED
    BY <2>2, <2>3
<1>8. CASE HandlerWrite
  <2>1. /\ handler = "serialize" /\ handler' = "empty" /\ hblock' = hblock
        /\ disk' = [disk EXCEPT ![hblock] = write] /\ UNCHANGED <<keyBlockMap, write, block0>>
    BY <1>8 DEF HandlerWrite, Handle, cacheVars, zeroVars
  <2>2. hblock \in Blocks
    BY <2>1 DEF HandlerOK, HandlerTyped
  <2>3. HandedNoMore
    BY <1>2, <1>3, <2>1 DEF HandedNoMore
  <2>4. \A c \in Blocks : c = hblock => KeysOnBlocks'
    <3>1. SUFFICES ASSUME NEW c \in Blocks, c = hblock PROVE KeysOnBlocks'
      OBVIOUS
    <3>2. WritingElse(c) /\ Writing(c) /\ ~Writing(c)' /\ disk' = [disk EXCEPT ![c] = write]
      BY <1>2, <1>3, <2>1, <3>1 DEF WritingElse
    <3>. QED
      BY <1>p, <2>1, <2>3, <3>2, KeysWritten
  <2>. QED
    BY <2>2, <2>4
<1>9. CASE HandlerEmpty \/ InfoTables \/ Destroy
  <2>1. /\ handler \in {"empty", "tables", "ready"} /\ handler' \in {"info", "ready", "destroyed"}
        /\ UNCHANGED <<keyBlockMap, disk>>
    BY <1>9 DEF HandlerEmpty, InfoTables, Destroy, Handle, vars, fileVars
  <2>2. HandedNoMore /\ WritingElse(NoBlock) /\ \A b \in Blocks : ~Writing(b)
    BY <1>2, <1>3, <2>1 DEF HandedNoMore, WritingElse
  <2>. QED
    BY <1>p, <2>1, <2>2, KeysKept
<1>. QED
  BY <1>5, <1>6, <1>7, <1>8, <1>9

LEMMA KeysStep ==
  ASSUME Pools, Pools', TablesAgree, KeysOnBlocks, HandlerOK, [ServerNext]_allVars,
         ~Restart, ~Crash
  PROVE  KeysOnBlocks'
<1>1. CASE Serve
  BY <1>1, ServeKeys
<1>2. CASE HandlerFind \/ HandlerMark \/ HandlerMap \/ HandlerWrite \/ HandlerEmpty
           \/ InfoTables \/ Destroy
  BY <1>2, HandlerKeys
<1>3. CASE \/ UNCHANGED allVars \/ Interrupt \/ InterruptAgain
           \/ InfoUsed \/ InfoIndex \/ InfoKeys \/ InfoTooLarge \/ InfoLength
  <2>1. UNCHANGED vars /\ UNCHANGED <<block0, hblock>>
        /\ \/ UNCHANGED handler
           \/ /\ handler \in {"none", "ready"} \cup InfoPlace
              /\ handler' \in {"find", "ready"} \cup InfoPlace
    BY <1>3 DEF allVars, serverVars, signalVars, zeroVars, Interrupt, InterruptAgain,
       InfoUsed, InfoIndex, InfoKeys, InfoTooLarge, InfoLength, Handle, InfoPlace
  <2>2. HandedNoMore /\ WritingElse(NoBlock)
    BY <2>1 DEF HandedNoMore, WritingElse, Handed, Writing, vars, ioVars, workerVars, Queued, At,
       InfoPlace
  <2>. QED
    BY <2>1, <2>2, KeysKept DEF vars, fileVars, cacheVars, Pools, Engine
<1>. QED
  BY <1>1, <1>2, <1>3 DEF ServerNext

-----------------------------------------------------------------------------
(* The handler.                                                            *)

\* What is copied while the pools stand still is what the tables are.
LEMMA CopiedStep ==
  ASSUME HandlerOK, TablesAgree, TypeOK, [ServerNext]_allVars, ~Restart, ~Crash
  PROVE  CopiedOK'
<1>c. /\ handler \in {"index", "keys"} => copied.blockUsageTable = blockUsageTable
      /\ handler = "keys" => copied.freeSpace = freeSpace
      /\ handler \in {"size", "tables"} => copied = Current
  BY DEF HandlerOK, CopiedOK
<1>t. copied \in TablesType /\ Current \in TablesType /\ freeSpace \in [FileBlocks -> Int]
  BY CurrentType DEF TablesAgree
<1>r. copied = [blockUsageTable |-> copied.blockUsageTable, keyBlockMap |-> copied.keyBlockMap,
                freeSpace |-> copied.freeSpace]
  BY <1>t DEF TablesType
<1>1. CASE InfoUsed
  <2>1. /\ handler' = "index" /\ copied' = [copied EXCEPT !.blockUsageTable = blockUsageTable]
        /\ blockUsageTable' = blockUsageTable
    BY <1>1 DEF InfoUsed, Handle, UsedCopied, vars, fileVars
  <2>. QED
    BY <1>r, <2>1 DEF CopiedOK
<1>2. CASE InfoIndex
  <2>1. /\ handler = "index" /\ handler' = "keys" /\ copied' = [copied EXCEPT !.freeSpace = freeSpace]
        /\ UNCHANGED <<blockUsageTable, freeSpace>>
    BY <1>2 DEF InfoIndex, Handle, vars, fileVars
  <2>. QED
    BY <1>c, <1>r, <2>1 DEF CopiedOK
<1>3. CASE InfoKeys
  <2>1. /\ handler = "keys" /\ handler' = "size" /\ copied' = [copied EXCEPT !.keyBlockMap = keyBlockMap]
        /\ UNCHANGED <<blockUsageTable, keyBlockMap, freeSpace>>
    BY <1>3 DEF InfoKeys, Handle, vars, fileVars
  <2>2. copied' = FileInfo(blockUsageTable, keyBlockMap, freeSpace)
    BY <1>c, <1>r, <2>1 DEF FileInfo
  <2>. QED
    BY <2>1, <2>2 DEF CopiedOK, Current
<1>4. CASE InfoLength
  <2>1. /\ handler = "size" /\ handler' = "tables" /\ copied' = Written
        /\ freeSpace' = [freeSpace EXCEPT ![0] = Written.freeSpace[0]]
        /\ UNCHANGED <<blockUsageTable, keyBlockMap>>
    BY <1>4 DEF InfoLength, FreeSpaceMeasured, Handle, vars, fileVars
  <2>2. /\ copied.blockUsageTable = blockUsageTable /\ copied.keyBlockMap = keyBlockMap
        /\ copied.freeSpace = freeSpace
    BY <1>c, <2>1 DEF Current, FileInfo
  <2>3. /\ Written.blockUsageTable = blockUsageTable /\ Written.keyBlockMap = keyBlockMap
        /\ Written.freeSpace = freeSpace' /\ Written \in TablesType
    BY <1>t, <2>1, <2>2, WrittenType
  <2>4. Written = FileInfo(blockUsageTable, keyBlockMap, freeSpace')
    BY <2>3 DEF FileInfo, TablesType
  <2>. QED
    BY <2>1, <2>4 DEF CopiedOK, Current
<1>5. CASE handler' \notin {"index", "keys", "size", "tables"}
  BY <1>5 DEF CopiedOK
<1>6. CASE Serve
  <2>1. handler' = "none"
    BY <1>6, ServeAlone, ServeIsNext
  <2>. QED
    BY <1>5, <2>1
<1>7. CASE UNCHANGED allVars
  <2>1. UNCHANGED <<handler, copied, blockUsageTable, keyBlockMap, freeSpace>>
    BY <1>7 DEF allVars, serverVars, signalVars, zeroVars, vars, fileVars
  <2>. QED
    BY <1>c, <2>1 DEF CopiedOK, Current
<1>8. CASE Interrupt \/ InterruptAgain \/ HandlerFind \/ HandlerMark \/ HandlerMap \/ HandlerWrite
           \/ HandlerEmpty \/ InfoTooLarge \/ InfoTables \/ Destroy
  BY <1>5, <1>8 DEF Interrupt, InterruptAgain, HandlerFind, HandlerMark, HandlerMap, HandlerWrite,
     HandlerEmpty, InfoTooLarge, InfoTables, Destroy, Handle
<1>. QED
  BY <1>1, <1>2, <1>3, <1>4, <1>6, <1>7, <1>8 DEF ServerNext

LEMMA HandlerStep ==
  ASSUME QuietStop, Pools, HandlerOK, TablesAgree, EngineGrown, [ServerNext]_allVars,
         ~Restart, ~Crash
  PROVE  HandlerOK'
<1>d. CopiedOK'
  BY CopiedStep DEF Pools, Engine
<1>p. TypeOK
  BY DEF Pools, Engine
<1>h. /\ handler \in HandlerPlace /\ hblock \in Blocks \cup {NoBlock}
      /\ handler # "none" => Quiet
      /\ handler \in {"serialize", "empty"} =>
           hblock # NoBlock /\ \A k \in Keys : write[k] # Absent => keyBlockMap[k] # NoBlock
      /\ handler \in InfoPlace \cup {"ready"} /\ hblock # NoBlock => write = Empty
      /\ handler = "ready" /\ ~refused => block0 = Current
      /\ handler \notin {"none", "destroyed"} => kept \subseteq Keys /\ \A k \in kept : Held(k)
  BY DEF HandlerOK, HandlerTyped, InfoPlace
<1>u. UNCHANGED <<blockUsageTable, keyBlockMap, freeSpace>> => Current' = Current
  BY DEF Current
<1>k. \A k \in Keys : write' = write /\ Held(k) => Held(k)'
  BY DEF Held, EngineGrown, Extends
<1>1. CASE Serve
  <2>1. handler' = "none" /\ hblock' = hblock
    BY <1>1, ServeAlone, ServeIsNext
  <2>. QED
    BY <1>d, <1>h, <2>1 DEF HandlerOK, HandlerTyped, HandlerPlace, InfoPlace
<1>2. CASE UNCHANGED allVars
  <2>1. UNCHANGED <<handler, hblock, kept, write, keyBlockMap, refused, block0, ioVars, workerVars>>
    BY <1>2 DEF allVars, serverVars, signalVars, zeroVars, vars, cacheVars, fileVars
  <2>2. UNCHANGED Current
    BY <1>2, <1>u DEF allVars, serverVars, vars, fileVars
  <2>3. handler' # "none" => Quiet'
    BY <1>h, <2>1, QuietKept
  <2>. QED
    BY <1>d, <1>h, <2>1, <2>2, <2>3 DEF HandlerOK, HandlerTyped, Held, InfoPlace
<1>3. CASE Interrupt
  <2>1. Quiet /\ handler' = "find" /\ hblock' = hblock /\ UNCHANGED vars
        /\ kept' = {k \in Keys : Held(k)}
    BY <1>3 DEF Interrupt, Handle
  <2>2. Quiet'
    BY <2>1, QuietKept DEF vars
  <2>3. \A k \in kept' : Held(k)'
    BY <2>1 DEF Held, vars, cacheVars, fileVars
  <2>. QED
    BY <1>d, <1>h, <2>1, <2>2, <2>3 DEF HandlerOK, HandlerTyped, HandlerPlace, InfoPlace
<1>4. CASE InterruptAgain \/ HandlerFind \/ HandlerMark
  <2>1. /\ handler \in {"ready", "find", "mark"} /\ handler' \in {"find", "mark", "map"}
        /\ kept' = kept /\ write' = write /\ UNCHANGED <<ioVars, workerVars>>
    BY <1>4 DEF InterruptAgain, HandlerFind, HandlerMark, Handle, vars, cacheVars
  <2>2. Quiet'
    BY <1>h, <2>1, QuietKept
  <2>3. hblock' \in Blocks \cup {NoBlock}
    <3>1. FreeBlock \in Blocks \cup {NoBlock}
      BY <1>p, FreeBlockIsFree DEF TypeOK
    <3>. QED
      BY <1>4, <1>h, <3>1 DEF InterruptAgain, HandlerFind, HandlerMark
  <2>4. kept' \subseteq Keys /\ \A k \in kept' : Held(k)'
    BY <1>h, <1>k, <2>1
  <2>. QED
    BY <1>d, <2>1, <2>2, <2>3, <2>4 DEF HandlerOK, HandlerTyped, HandlerPlace, InfoPlace
<1>5. CASE HandlerMap \/ HandlerWrite
  <2>1. /\ handler \in {"map", "serialize"} /\ handler' \in {"info", "serialize", "empty"}
        /\ kept' = kept /\ write' = write /\ hblock' = hblock /\ UNCHANGED <<ioVars, workerVars>>
    BY <1>5 DEF HandlerMap, HandlerWrite, Handle, cacheVars
  <2>2. Quiet'
    BY <1>h, <2>1, QuietKept
  <2>3. kept' \subseteq Keys /\ \A k \in kept' : Held(k)'
    BY <1>h, <1>k, <2>1
  <2>4. CASE HandlerMap
    <3>1. CASE hblock = NoBlock
      <4>1. handler' = "info"
        BY <2>4, <3>1 DEF HandlerMap, Handle
      <4>. QED
        BY <1>d, <1>h, <2>1, <2>2, <2>3, <3>1, <4>1 DEF HandlerOK, HandlerTyped, HandlerPlace, InfoPlace
    <3>2. CASE hblock # NoBlock
      <4>1. handler' = "serialize" /\ keyBlockMap' = Mapped(write, hblock) /\ hblock \in Blocks
        BY <1>h, <2>4, <3>2 DEF HandlerMap, Handle, HandlerMapped
      <4>2. \A k \in Keys : write[k] # Absent => Mapped(write, hblock)[k] # NoBlock
        BY <1>p, <4>1, MapType2
      <4>. QED
        BY <1>d, <1>h, <2>1, <2>2, <2>3, <3>2, <4>1, <4>2 DEF HandlerOK, HandlerTyped, HandlerPlace, InfoPlace
    <3>. QED
      BY <3>1, <3>2
  <2>5. CASE HandlerWrite
    <3>1. handler = "serialize" /\ handler' = "empty" /\ keyBlockMap' = keyBlockMap
      BY <2>5 DEF HandlerWrite, Handle
    <3>. QED
      BY <1>d, <1>h, <2>1, <2>2, <2>3, <3>1 DEF HandlerOK, HandlerTyped, HandlerPlace, InfoPlace
  <2>. QED
    BY <1>5, <2>4, <2>5
<1>6. CASE HandlerEmpty
  <2>1. /\ handler = "empty" /\ handler' = "info" /\ write' = Empty /\ keyBlockMap' = keyBlockMap
        /\ kept' = kept /\ hblock' = hblock /\ UNCHANGED <<ioVars, workerVars>>
    BY <1>6 DEF HandlerEmpty, Handle, fileVars
  <2>2. Quiet'
    BY <1>h, <2>1, QuietKept
  <2>3. kept' \subseteq Keys /\ \A k \in kept' : Held(k)'
    BY <1>h, <2>1 DEF Held
  <2>. QED
    BY <1>d, <1>h, <2>1, <2>2, <2>3 DEF HandlerOK, HandlerTyped, HandlerPlace, InfoPlace
<1>7. CASE InfoUsed \/ InfoIndex \/ InfoKeys \/ InfoTooLarge \/ InfoLength \/ InfoTables
  <2>1. /\ handler \in InfoPlace /\ handler' \in InfoPlace \cup {"ready"}
        /\ kept' = kept /\ hblock' = hblock /\ UNCHANGED vars
    BY <1>7 DEF InfoUsed, InfoIndex, InfoKeys, InfoTooLarge, InfoLength, InfoTables, Handle,
       InfoPlace
  <2>2. Quiet'
    BY <1>h, <2>1, QuietKept DEF vars, InfoPlace
  <2>3. kept' \subseteq Keys /\ \A k \in kept' : Held(k)'
    BY <1>h, <1>k, <2>1 DEF vars, cacheVars, InfoPlace
  <2>4. handler' = "ready" /\ ~refused' => block0' = Current'
    <3>1. CASE InfoTables
      <4>1. block0' = copied /\ handler = "tables" /\ UNCHANGED <<vars, freeSpace>>
        BY <3>1 DEF InfoTables, Handle
      <4>2. copied = Current
        BY <4>1 DEF HandlerOK, CopiedOK
      <4>. QED
        BY <1>u, <4>1, <4>2 DEF vars, fileVars
    <3>2. CASE InfoUsed \/ InfoIndex \/ InfoKeys \/ InfoTooLarge \/ InfoLength
      BY <3>2 DEF InfoUsed, InfoIndex, InfoKeys, InfoTooLarge, InfoLength, Handle
    <3>. QED
      BY <1>7, <3>1, <3>2
  <2>. QED
    BY <1>d, <1>h, <2>1, <2>2, <2>3, <2>4 DEF HandlerOK, HandlerTyped, HandlerPlace, InfoPlace,
       vars, cacheVars
<1>8. CASE Destroy
  <2>1. handler = "ready" /\ handler' = "destroyed" /\ hblock' = hblock
        /\ UNCHANGED <<ioVars, workerVars>>
    BY <1>8 DEF Destroy, Handle
  <2>2. Quiet'
    BY <1>h, <2>1, QuietKept
  <2>. QED
    BY <1>d, <1>h, <2>1, <2>2 DEF HandlerOK, HandlerTyped, HandlerPlace, InfoPlace
<1>. QED
  BY <1>1, <1>2, <1>3, <1>4, <1>5, <1>6, <1>7, <1>8 DEF ServerNext

-----------------------------------------------------------------------------
(* The file.                                                               *)

\* What the first write announces is the length of the second.
LEMMA LengthStep ==
  ASSUME copied \in TablesType, InfoLength
  PROVE  /\ copied' = Written /\ Written \in TablesType
         /\ Written.blockUsageTable = copied.blockUsageTable
         /\ Written.keyBlockMap = copied.keyBlockMap
         /\ Image(Written, info') /\ file' = WithSize(file, Bytes(info')) /\ Bytes(info') \in Nat
<1>1. file' = WithSize(file, InfoSize) /\ copied' = Written
  BY DEF InfoLength
<1>2. /\ Written \in TablesType /\ Written.blockUsageTable = copied.blockUsageTable
      /\ Written.keyBlockMap = copied.keyBlockMap
  BY WrittenType
<1>3. Image(Written, info')
  BY DEF InfoLength, Image
<1>4. InfoSize = Bytes(info')
  BY <1>2, <1>3, ImageAgrees DEF InfoSize
<1>5. Bytes(info') \in Nat
  <2>1. info' \in Seq(Agreeing(Written.keyBlockMap))
    BY <1>2, <1>3, ImageAgrees
  <2>2. info' \in Seq(InfoFields)
    BY <2>1, AgreeingParts
  <2>. QED
    BY <2>2, BytesNat DEF InfoFields
<1>. QED
  BY <1>1, <1>2, <1>3, <1>4, <1>5

LEMMA FileStep ==
  ASSUME Pools, TablesAgree, HandlerOK, FileOK, [ServerNext]_allVars, ~Restart, ~Crash
  PROVE  FileOK'
<1>f. /\ Holds(file, block0.keyBlockMap)
      /\ handler # "tables" => Opened(file) = block0
      /\ handler = "tables" => Image(copied, info) /\ file.size = Bytes(info)
  BY DEF FileOK
<1>1. CASE InfoTables
  <2>1. handler = "tables" /\ handler' = "ready" /\ file' = WithTables(file, info) /\ block0' = copied
    BY <1>1 DEF InfoTables, Handle
  <2>. DEFINE t == copied
              old == block0.keyBlockMap
  <2>2. t \in TablesType /\ t.keyBlockMap = keyBlockMap
    BY <2>1 DEF TablesAgree, HandlerOK, CopiedOK, Current, FileInfo
  <2>3. Extends(old, t.keyBlockMap) /\ Holds(file, old) /\ Image(t, info) /\ file.size = Bytes(info)
    BY <1>f, <2>1, <2>2 DEF TablesAgree
  <2>4. Holds(WithTables(file, info), t.keyBlockMap) /\ Opened(WithTables(file, info)) = t
    <3>. HIDE DEF t, old
    <3>. QED
      BY <2>2, <2>3, BlockZeroRoundTrip
  <2>. QED
    BY <2>1, <2>4 DEF FileOK
<1>2. CASE InfoLength
  <2>1. handler' = "tables" /\ block0' = block0
    BY <1>2 DEF InfoLength, Handle
  <2>2. copied \in TablesType
    BY DEF TablesAgree
  <2>3. /\ Image(copied', info') /\ file' = WithSize(file, Bytes(info')) /\ Bytes(info') \in Nat
    BY <1>2, <2>2, LengthStep
  <2>4. Holds(file', block0.keyBlockMap) /\ file'.size = Bytes(info')
    BY <1>f, <2>3 DEF Holds, HoldsIn, WithSize
  <2>. QED
    BY <2>1, <2>3, <2>4 DEF FileOK
<1>3. CASE UNCHANGED <<file, block0>> /\ handler # "tables" /\ handler' # "tables"
  BY <1>f, <1>3 DEF FileOK
<1>4. CASE UNCHANGED allVars
  <2>1. UNCHANGED <<file, block0, handler, info, copied>>
    BY <1>4 DEF allVars, serverVars, signalVars, zeroVars
  <2>. QED
    BY <1>f, <2>1 DEF FileOK
<1>5. CASE Serve
  <2>1. handler = "none" /\ handler' = "none" /\ UNCHANGED <<file, block0>>
    BY <1>5, ServeAlone, ServeIsNext
  <2>. QED
    BY <1>3, <2>1
<1>6. CASE Interrupt \/ InterruptAgain \/ HandlerFind \/ HandlerMark \/ HandlerMap
           \/ HandlerWrite \/ HandlerEmpty \/ InfoUsed \/ InfoIndex \/ InfoKeys \/ InfoTooLarge
           \/ Destroy
  <2>1. handler # "tables" /\ handler' # "tables" /\ UNCHANGED <<file, block0>>
    BY <1>6 DEF Interrupt, InterruptAgain, HandlerFind, HandlerMark, HandlerMap, HandlerWrite,
       HandlerEmpty, InfoUsed, InfoIndex, InfoKeys, InfoTooLarge, Destroy, Handle, zeroVars
  <2>. QED
    BY <1>3, <2>1
<1>. QED
  BY <1>1, <1>2, <1>4, <1>5, <1>6 DEF ServerNext

-----------------------------------------------------------------------------
(* The next start.  What was not damaged is read as it was written, and the*)
(* keys block 0 maps are on their blocks.                                  *)

\* What block 0 maps is not being written, so it has been.
LEMMA SavedOnDisk ==
  ASSUME Good, NEW k \in Keys, block0.keyBlockMap[k] # NoBlock
  PROVE  LET b == block0.keyBlockMap[k] IN
         /\ b \in Blocks /\ keyBlockMap[k] = b
         /\ ~Writing(b) /\ disk[b][k] # Absent
<1>1. keyBlockMap[k] = block0.keyBlockMap[k]
  BY DEF Good, TablesAgree, Extends
<1>2. OnBlock(k, keyBlockMap[k])
  BY <1>1 DEF Good, KeysOnBlocks
<1>3. keyBlockMap[k] \in Blocks
  BY <1>1 DEF Good, Pools, Engine, TypeOK
<1>. QED
  BY <1>1, <1>2, <1>3 DEF OnBlock

LEMMA BootReads ==
  ASSUME damaged \/ Good, Restart \/ Crash, ~damaged'
  PROVE  Good /\ Boot(block0) /\ Opened(file) = block0
<1>1. Boot(Opened(file))
  BY DEF Restart, Crash
<1>2. ~damaged /\ (handler = "tables" => Opened(file) = block0)
  BY <1>1 DEF Boot
<1>3. Good
  BY <1>2
<1>4. Opened(file) = block0
  BY <1>2, <1>3 DEF Good, FileOK
<1>. QED
  BY <1>1, <1>3, <1>4

LEMMA BootTypes ==
  ASSUME TypeOK, NEW tables \in TablesType, Boot(tables)
  PROVE  TypeOK' /\ Quiet'
<1>b. /\ write' = Empty /\ wrLock' = None
      /\ currentReadBlock' = NoBlock
      /\ blockUsageTable' = tables.blockUsageTable
      /\ keyBlockMap' = tables.keyBlockMap
      /\ queue' = [t \in DOMAIN queue |-> <<>>]
      /\ io' = [t \in Threads |-> Idle]
      /\ pc' = [w \in Workers |-> "idle"]
      /\ key' = [w \in Workers |-> None]
      /\ block' = [w \in Workers |-> NoBlock]
      /\ UNCHANGED disk
  BY DEF Boot
<1>1. Empty \in Lists
  BY DEF Empty, Lists
<1>2. blockUsageTable' \subseteq 0..LastBlock /\ 0 \in blockUsageTable'
      /\ keyBlockMap' \in [Keys -> Blocks \cup {NoBlock}]
  BY <1>b DEF TablesType, FileBlocks
<1>3. queue' \in [Threads \cup {NoBlock} -> Seq(Tasks)]
  BY <1>b DEF TypeOK
<1>4. io' \in [Threads -> Tasks] /\ pc' \in [Workers -> Place]
      /\ key' \in [Workers -> Keys \cup {None}] /\ block' \in [Workers -> Blocks \cup {NoBlock}]
  BY <1>b DEF Tasks, Place
<1>5. disk' \in [Blocks -> Lists]
  BY <1>b DEF TypeOK
<1>6. TypeOK'
  BY <1>b, <1>1, <1>2, <1>3, <1>4, <1>5 DEF TypeOK
<1>7. Quiet'
  BY <1>b DEF Quiet, At, Idle, Task, TypeOK
<1>. QED
  BY <1>6, <1>7

LEMMA BootStep ==
  ASSUME damaged \/ Good, Restart \/ Crash
  PROVE  (damaged \/ Good)'
<1>. SUFFICES ASSUME ~damaged' PROVE Good'
  OBVIOUS
<1>1. Good /\ Boot(block0) /\ Opened(file) = block0
  BY BootReads
<1>b. /\ write' = Empty /\ wrLock' = None
      /\ currentReadBlock' = NoBlock
      /\ blockUsageTable' = block0.blockUsageTable
      /\ keyBlockMap' = block0.keyBlockMap /\ freeSpace' = block0.freeSpace
      /\ queue' = [t \in DOMAIN queue |-> <<>>]
      /\ io' = [t \in Threads |-> Idle]
      /\ pc' = [w \in Workers |-> "idle"]
      /\ key' = [w \in Workers |-> None]
      /\ block' = [w \in Workers |-> NoBlock]
      /\ handler' = "none" /\ hblock' = NoBlock /\ copied' = NewFile
      /\ UNCHANGED <<disk, file, block0>>
  BY <1>1 DEF Boot
<1>t. block0 \in TablesType /\ TypeOK
  BY <1>1 DEF Good, TablesAgree, Pools, Engine
<1>2. TypeOK'
  BY <1>1, <1>t, BootTypes
<1>3. Quiet'
  BY <1>1, <1>t, BootTypes
<1>4. Pools'
  <2>1. (TypeOK /\ Quiet /\ wrLock \notin Blocks /\ wrLock \notin Workers => Pools)'
    BY StandStill, PTL
  <2>. QED
    BY <1>2, <1>3, <1>b, <2>1, Basics
<1>5. TablesAgree'
  <2>1. Current' = block0
    <3>1. Current' = FileInfo(block0.blockUsageTable, block0.keyBlockMap, block0.freeSpace)
      BY <1>b DEF Current
    <3>. QED
      BY <1>t, <3>1 DEF FileInfo, TablesType
  <2>. QED
    BY <1>1, <1>b, <1>t, <2>1, NewFileType DEF Good, TablesAgree, Extends
<1>6. \A b : ~Handed(b)' /\ ~Writing(b)'
  <2>1. (Quiet => \A b : /\ Handed(b) <=> handler \in {"mark", "map"} /\ hblock = b
                         /\ Writing(b) <=> handler = "serialize" /\ hblock = b)'
    BY QuietBlocks, PTL
  <2>. QED
    BY <1>3, <1>b, <2>1
<1>7. Marked'
  <2>1. \A t \in Threads : ~Queued(t, "flush")' /\ ~At(t, "flush")'
    BY <1>3 DEF Quiet, Queued, At
  <2>. QED
    BY <1>b, <2>1 DEF Marked
<1>8. KeysOnBlocks'
  <2>. SUFFICES ASSUME NEW k \in Keys, NEW b, b = keyBlockMap'[k], b # NoBlock
                PROVE  OnBlock(k, b)'
    BY DEF KeysOnBlocks
  <2>1. disk[b][k] # Absent
    BY <1>1, <1>b, SavedOnDisk
  <2>. QED
    BY <1>6, <1>b, <2>1 DEF OnBlock
<1>9. HandlerOK'
  BY <1>b DEF HandlerOK, HandlerTyped, HandlerPlace, CopiedOK, InfoPlace
<1>10. FileOK'
  BY <1>1, <1>b DEF Good, FileOK
<1>. QED
  BY <1>4, <1>5, <1>7, <1>8, <1>9, <1>10 DEF Good

-----------------------------------------------------------------------------
(* The invariant, and what follows from it.                                *)

LEMMA DamagedStays ==
  ASSUME [ServerNext]_allVars, damaged
  PROVE  damaged'
  BY DEF ServerNext, Serve, Interrupt, InterruptAgain, HandlerFind, HandlerMark, HandlerMap,
     HandlerWrite, HandlerEmpty, InfoUsed, InfoIndex, InfoKeys, InfoTooLarge, InfoLength, InfoTables, Destroy, Restart, Crash,
     Boot, bootVars, serverVars, allVars

LEMMA ServerInductive ==
  ASSUME QuietStop, damaged \/ Good, [ServerNext]_allVars
  PROVE  (damaged \/ Good)'
<1>1. CASE damaged
  BY <1>1, DamagedStays
<1>2. CASE Restart \/ Crash
  BY <1>2, BootStep
<1>3. CASE Good /\ ~Restart /\ ~Crash
  <2>1. Pools /\ TablesAgree /\ Marked /\ KeysOnBlocks /\ HandlerOK /\ FileOK
    BY <1>3 DEF Good
  <2>2. Engine /\ HandlerTyped
    BY <2>1 DEF Pools, HandlerOK
  <2>3. Pools' /\ Engine' /\ EngineGrown
    BY <1>3, <2>1, <2>2, PoolsAlways, EngineGrows DEF TablesAgree, Pools
  <2>4. TablesAgree' /\ Marked' /\ KeysOnBlocks'
    BY <1>3, <2>1, <2>2, <2>3, TablesStep, MarkedStep, KeysStep DEF EngineGrown
  <2>5. HandlerOK' /\ FileOK'
    BY <1>3, <2>1, <2>3, HandlerStep, FileStep
  <2>. QED
    BY <2>3, <2>4, <2>5 DEF Good
<1>. QED
  BY <1>1, <1>2, <1>3

\* When SIGINT comes to idle pools, the engine, the handler and block 0 agree as
\* the parts of Good say, through shutdowns, crashes and restarts, until a crash
\* between the two writes to block 0 (writeToBlock0) leaves tables nobody wrote.
THEOREM ServerInvariance ==
  ASSUME QuietStop
  PROVE  ServerSpec => [](damaged \/ Good)
<1>1. ServerInit => damaged \/ Good
  BY ServerInitial
<1>2. (damaged \/ Good) /\ [ServerNext]_allVars => (damaged \/ Good)'
  BY ServerInductive
<1>. QED
  BY <1>1, <1>2, PTL DEF ServerSpec

\* Every key that block 0 maps is on its block: the block was written, by
\* flushToDisk, before the tables that map it could be.
THEOREM MappedKeysPersist ==
  ASSUME QuietStop
  PROVE  ServerSpec => []PersistedOnDisk
<1>1. damaged \/ Good => PersistedOnDisk
  BY SavedOnDisk DEF PersistedOnDisk, InFile
<1>. QED
  BY <1>1, ServerInvariance, PTL

\* readFromBlock0 reads what writeToBlock0 wrote, whatever longer image it wrote
\* over; and between its two writes a key is read with its block or with none.
THEOREM BlockZeroReadsBack ==
  ASSUME QuietStop
  PROVE  ServerSpec => []ReadsBack
<1>1. damaged \/ Good => ReadsBack
  <2>. SUFFICES ASSUME Good PROVE ReadsBack
    BY DEF ReadsBack
  <2>1. handler = "ready" => Opened(file) = block0
    BY DEF Good, FileOK
  <2>2. block0.keyBlockMap \in [Keys -> Blocks \cup {NoBlock}] /\ Holds(file, block0.keyBlockMap)
    BY DEF Good, FileOK, TablesAgree, TablesType
  <2>3. \A k \in Keys : Opened(file).keyBlockMap[k] \in {NoBlock, block0.keyBlockMap[k]}
    BY <2>2, OpenedAgrees
  <2>. QED
    BY <2>1, <2>3 DEF ReadsBack
<1>. QED
  BY <1>1, ServerInvariance, PTL

-----------------------------------------------------------------------------
(* What a step may do to the file.                                         *)

LEMMA BlocksKept ==
  ASSUME Good, [ServerNext]_allVars, NEW b \in Blocks, ~Writing(b)
  PROVE  disk'[b] = disk[b]
<1>p. TypeOK /\ TasksPlaced /\ HandlerOK
  BY DEF Good, Pools, Engine
<1>1. CASE Serve
  <2>1. Next
    BY <1>1, ServeIsNext
  <2>2. ASSUME NEW t \in Threads, FlushWrite(t)
        PROVE  disk'[b] = disk[b]
    <3>1. io[t].block = t + 1 /\ t + 1 # b
      BY <1>p, <2>2, InHand DEF FlushWrite, At, Writing
    <3>. QED
      BY <1>p, <2>2, <3>1 DEF FlushWrite, TypeOK
  <2>. QED
    BY <2>1, <2>2, DiskKept
<1>2. CASE HandlerWrite
  <2>1. hblock # b /\ disk' = [disk EXCEPT ![hblock] = write]
    BY <1>2 DEF HandlerWrite, Handle, Writing
  <2>. QED
    BY <1>p, <2>1 DEF TypeOK
<1>3. CASE UNCHANGED vars
  BY <1>3 DEF vars, fileVars
<1>4. CASE HandlerMark \/ HandlerMap \/ HandlerEmpty \/ Destroy \/ Restart \/ Crash
  BY <1>4 DEF HandlerMark, HandlerMap, HandlerEmpty, Destroy, Restart, Crash, Boot, fileVars
<1>. QED
  BY <1>1, <1>2, <1>3, <1>4 DEF ServerNext, allVars, Interrupt, InterruptAgain, HandlerFind,
     InfoUsed, InfoIndex, InfoKeys, InfoTooLarge, InfoLength, InfoTables

LEMMA TablesKept ==
  ASSUME Good, [ServerNext]_allVars, NEW k \in Keys, block0.keyBlockMap[k] # NoBlock
  PROVE  block0'.keyBlockMap[k] = block0.keyBlockMap[k]
<1>1. CASE Restart \/ Crash
  BY <1>1 DEF Restart, Crash, Boot
<1>2. CASE InfoTables
  <2>1. block0' = Current /\ Current.keyBlockMap = keyBlockMap
    BY <1>2 DEF InfoTables, Handle, Good, HandlerOK, CopiedOK, Current, FileInfo
  <2>. QED
    BY <2>1, SavedOnDisk
<1>3. CASE ~Restart /\ ~Crash /\ ~InfoTables
  BY <1>3, BlockZeroKept
<1>. QED
  BY <1>1, <1>2, <1>3

\* What a shutdown has saved is never touched again, by later requests, flushes,
\* shutdowns, crashes or starts: getFreeBlock gives out no block twice, and
\* addKeyBlockMapping leaves a key where it is.
THEOREM SavedStays ==
  ASSUME QuietStop
  PROVE  ServerSpec => SavedForGood
<1>1. (damaged \/ Good) /\ [ServerNext]_allVars =>
        [\A k \in Keys : ~damaged /\ InFile(block0, k) # Absent
           => InFile(block0, k)' = InFile(block0, k)]_allVars
  <2>. SUFFICES ASSUME Good, [ServerNext]_allVars,
                       NEW k \in Keys, InFile(block0, k) # Absent
                PROVE  InFile(block0, k)' = InFile(block0, k)
    OBVIOUS
  <2>. DEFINE b == block0.keyBlockMap[k]
  <2>1. b # NoBlock
    BY DEF InFile
  <2>2. b \in Blocks /\ ~Writing(b)
    BY <2>1, SavedOnDisk
  <2>3. disk'[b] = disk[b]
    <3>. HIDE DEF b
    <3>. QED
      BY <2>2, BlocksKept
  <2>4. block0'.keyBlockMap[k] = b
    BY <2>1, TablesKept
  <2>. QED
    BY <2>1, <2>3, <2>4 DEF InFile
<1>. QED
  BY <1>1, ServerInvariance, PTL DEF ServerSpec, SavedForGood

\* When main destroys the caches, every key the store held when SIGINT came is on
\* its block in the file, and the write cache has nothing that is not.
THEOREM ShutdownSaves ==
  ASSUME QuietStop
  PROVE  ServerSpec => SavedAtExit
<1>1. (damaged \/ Good) /\ [ServerNext]_allVars =>
        [Destroy => \/ damaged \/ hblock = NoBlock \/ refused
                    \/ /\ Nodes(write) = {}
                       /\ \A k \in kept : InFile(block0, k) # Absent]_allVars
  <2>. SUFFICES ASSUME Good, Destroy, hblock # NoBlock, ~refused
                PROVE  Nodes(write) = {} /\ \A k \in kept : InFile(block0, k) # Absent
    OBVIOUS
  <2>1. handler = "ready"
    BY DEF Destroy, Handle
  <2>2. write = Empty /\ block0 = Current /\ kept \subseteq Keys /\ \A k \in kept : Held(k)
    BY <2>1 DEF Good, HandlerOK
  <2>3. \A k \in Keys : write[k] = Absent
    BY <2>2 DEF Empty
  <2>4. block0.keyBlockMap = keyBlockMap
    BY <2>2 DEF Current, FileInfo
  <2>5. ASSUME NEW k \in kept PROVE InFile(block0, k) # Absent
    <3>1. k \in Keys /\ block0.keyBlockMap[k] # NoBlock
      BY <2>2, <2>3, <2>4 DEF Held
    <3>. QED
      BY <3>1, SavedOnDisk DEF InFile
  <2>. QED
    BY <2>3, <2>5 DEF Nodes
<1>. QED
  BY <1>1, ServerInvariance, PTL DEF ServerSpec, SavedAtExit

-----------------------------------------------------------------------------
(* The types, when SIGINT comes at any time and whatever a crash leaves of *)
(* block 0.                                                                *)

\* The tables fit in block 0 with twelve bytes to spare for every key: that is all
\* that keeps addKeyBlockMapping and writeToBlock0 (fileInfo.hpp), which subtract from
\* a size_t and ask nothing, from wrapping it.
RoomForTables == Largest + 12 * Cardinality(Keys) <= BlockSize

\* Twelve bytes less for every key that is mapped.
MappedKeys == {k \in Keys : keyBlockMap[k] # NoBlock}
SpaceHolds == SpaceOK(freeSpace) /\ freeSpace[0] >= Room - 12 * Cardinality(MappedKeys)
Tabled(t) == t \in TablesType /\ t.freeSpace[0] \in 0..BlockSize

FileSane == SaneFile(file) /\ (handler = "tables" => SaneFields(info))

Typed == /\ Engine /\ HandlerTyped /\ SpaceHolds /\ FileSane /\ Tabled(copied) /\ Tabled(block0)
         /\ kept \subseteq Keys /\ {refused, damaged, mixed} \subseteq BOOLEAN
         /\ restarts \in 0..MaxRestarts

\* A key that is mapped stays where it is, or the server starts again.
LEMMA MapExtends ==
  ASSUME TypeOK, HandlerTyped, TasksPlaced, [ServerNext]_allVars, ~Restart, ~Crash
  PROVE  Extends(keyBlockMap, keyBlockMap')
<1>1. ASSUME NEW b \in Blocks, keyBlockMap' = Mapped(write, b)
      PROVE  Extends(keyBlockMap, keyBlockMap')
  BY <1>1, MapType2 DEF Extends
<1>2. CASE UNCHANGED keyBlockMap
  BY <1>2 DEF Extends
<1>3. CASE Serve
  <2>1. Next
    BY <1>3, ServeIsNext
  <2>2. ASSUME NEW t \in Threads, FlushMap(t)
        PROVE  Extends(keyBlockMap, keyBlockMap')
    <3>1. io[t].block = t + 1 /\ t + 1 \in Blocks
      BY <2>2, InHand DEF FlushMap, At
    <3>2. keyBlockMap' = Mapped(write, t + 1)
      BY <2>2, <3>1 DEF FlushMap
    <3>. QED
      BY <1>1, <3>1, <3>2
  <2>. QED
    BY <1>2, <2>1, <2>2, MapKept
<1>4. CASE HandlerMap
  <2>1. CASE hblock = NoBlock
    BY <1>2, <1>4, <2>1 DEF HandlerMap
  <2>2. CASE hblock # NoBlock
    <3>1. hblock \in Blocks /\ keyBlockMap' = Mapped(write, hblock)
      BY <1>4, <2>2 DEF HandlerMap, HandlerMapped, HandlerTyped
    <3>. QED
      BY <1>1, <3>1
  <2>. QED
    BY <2>1, <2>2
<1>5. CASE UNCHANGED allVars
  BY <1>2, <1>5 DEF allVars, vars, fileVars
<1>. QED
  BY <1>2, <1>3, <1>4, <1>5 DEF ServerNext, Interrupt, InterruptAgain, HandlerFind, HandlerMark,
     HandlerWrite, HandlerEmpty, InfoUsed, InfoIndex, InfoKeys, InfoTooLarge, InfoLength, InfoTables, Destroy, vars, fileVars

\* What the handler maps was asked for by nobody, and what was asked for stays.
LEMMA EngineAlways ==
  ASSUME Engine, HandlerTyped, [ServerNext]_allVars, ~Restart, ~Crash
  PROVE  Engine'
<1>p. TypeOK /\ TasksPlaced /\ LoadsAsked
  BY DEF Engine
<1>1. CASE Serve
  BY <1>1, ServeIsNext, EngineStep
<1>2. CASE HandlerMark \/ HandlerMap \/ HandlerWrite \/ HandlerEmpty \/ Destroy
  <2>1. UNCHANGED <<ioVars, workerVars>>
    BY <1>2, HandlerBeside
  <2>2. TypeOK'
    BY <1>2, <1>p, HandlerTypes
  <2>3. TasksPlaced'
    BY <1>p, <2>1 DEF TasksPlaced, ioVars
  <2>4. Extends(keyBlockMap, keyBlockMap')
    BY <1>p, MapExtends
  <2>5. \A b \in Blocks : Asked(b) => Asked(b)'
    BY <2>4, Basics DEF Asked, Extends
  <2>6. LoadsAsked'
    <3>1. \A t \in Threads : t + 1 \in Blocks
      BY Basics
    <3>. QED
      BY <1>p, <2>1, <2>5, <3>1 DEF LoadsAsked, ioVars, workerVars, Queued
  <2>. QED
    BY <2>2, <2>3, <2>6 DEF Engine
<1>3. CASE UNCHANGED vars
  BY <1>3, EngineStep
<1>4. CASE UNCHANGED allVars
  BY <1>3, <1>4 DEF allVars
<1>5. CASE ServerNext /\ ~Serve
           /\ ~(HandlerMark \/ HandlerMap \/ HandlerWrite \/ HandlerEmpty \/ Destroy)
  BY <1>3, <1>5, OtherSteps
<1>. QED
  BY <1>1, <1>2, <1>4, <1>5

LEMMA HandlerTypedStep ==
  ASSUME TypeOK, HandlerTyped, [ServerNext]_allVars
  PROVE  HandlerTyped'
<1>1. FreeBlock \in Blocks \cup {NoBlock}
  BY FreeBlockIsFree DEF TypeOK
<1>2. CASE Serve
  BY <1>2, ServeIsNext DEF HandlerTyped
<1>3. CASE UNCHANGED allVars
  BY <1>3 DEF HandlerTyped, allVars, serverVars, signalVars
<1>4. CASE HandlerFind
  BY <1>1, <1>4 DEF HandlerFind, Handle, HandlerTyped, HandlerPlace
<1>5. CASE Interrupt \/ InterruptAgain \/ HandlerMark \/ HandlerMap \/ HandlerWrite \/ HandlerEmpty
           \/ InfoUsed \/ InfoIndex \/ InfoKeys \/ InfoTooLarge \/ InfoLength \/ InfoTables
           \/ Destroy
  BY <1>5 DEF Interrupt, InterruptAgain, HandlerMark, HandlerMap, HandlerWrite, HandlerEmpty,
     InfoUsed, InfoIndex, InfoKeys, InfoTooLarge, InfoLength, InfoTables, Destroy, Handle,
     HandlerTyped, HandlerPlace
<1>6. CASE Restart \/ Crash
  BY <1>6 DEF Restart, Crash, Boot, HandlerTyped, HandlerPlace
<1>. QED
  BY <1>2, <1>3, <1>4, <1>5, <1>6 DEF ServerNext

\* The space of block 0 when keys are mapped.
LEMMA SpaceMapped ==
  ASSUME RoomForTables, SpaceHolds, MappingCounted, Extends(keyBlockMap, keyBlockMap')
  PROVE  SpaceHolds'
<1>. DEFINE old == MappedKeys
            new == NewlyMapped
            all == MappedKeys'
            o == Cardinality(old)
            n == Cardinality(new)
            a == Cardinality(all)
            c == Cardinality(Keys)
            f == freeSpace[0]
<1>1. old \subseteq Keys /\ new \subseteq Keys /\ all \subseteq Keys
      /\ old \cap new = {} /\ old \cup new = all
  BY DEF MappedKeys, NewlyMapped, Extends
<1>2. IsFiniteSet(Keys) /\ IsFiniteSet(old) /\ IsFiniteSet(new) /\ c \in Nat
  BY <1>1, BlockZeroAssumption, FS_Subset, FS_CardinalityType
<1>3. o \in Nat /\ n \in Nat /\ a \in Nat /\ a <= c
  BY <1>1, <1>2, BlockZeroAssumption, FS_Subset, FS_CardinalityType
<1>4. a = o + n
  <2>. HIDE DEF old, new, all
  <2>1. Cardinality(old \cap new) = 0
    BY <1>1, FS_EmptySet
  <2>2. Cardinality(old \cup new) = o + n - Cardinality(old \cap new)
    BY <1>2, FS_Union
  <2>. HIDE DEF o, n
  <2>3. Cardinality(old \cup new) = o + n
    BY <1>3, <2>1, <2>2
  <2>. QED
    BY <1>1, <2>3
<1>5. 0 \in FileBlocks /\ freeSpace \in [FileBlocks -> Int] /\ f \in 0..BlockSize
  BY StorageAssumption DEF FileBlocks, SpaceHolds, SpaceOK
<1>6. f >= Room - 12 * o
  BY DEF SpaceHolds
<1>7. Room = BlockSize - Largest /\ Largest + 12 * c <= BlockSize /\ BlockSize \in Nat
      /\ Largest \in Nat
  BY BlockZeroAssumption, LargestNat DEF Room, RoomForTables
<1>8. freeSpace' = [freeSpace EXCEPT ![0] = f - 12 * n]
  BY DEF MappingCounted
<1>. HIDE DEF old, new, all, o, n, a, c, f
<1>9. f - 12 * n \in 0..BlockSize /\ f - 12 * n >= Room - 12 * a
  BY <1>2, <1>3, <1>4, <1>5, <1>6, <1>7
<1>10. freeSpace' \in [FileBlocks -> Int] /\ freeSpace'[0] = f - 12 * n
  BY <1>5, <1>8, <1>9
<1>. QED
  BY <1>9, <1>10 DEF SpaceHolds, SpaceOK, a, all

\* Of another block when the write cache goes to it.
LEMMA SpaceFlushed ==
  ASSUME SpaceHolds, NEW b \in Blocks, NEW spaces \in SUBSET Int,
         FlushCounted(b, spaces), UNCHANGED keyBlockMap
  PROVE  SpaceHolds'
<1>1. b # 0 /\ b \in FileBlocks /\ 0 \in FileBlocks
  BY StorageAssumption DEF Blocks, FileBlocks
<1>2. PICK f \in spaces : freeSpace' = [freeSpace EXCEPT ![b] = f]
  BY DEF FlushCounted
<1>3. freeSpace' \in [FileBlocks -> Int] /\ freeSpace'[0] = freeSpace[0]
  BY <1>1, <1>2 DEF SpaceHolds, SpaceOK
<1>4. MappedKeys' = MappedKeys
  BY DEF MappedKeys
<1>. QED
  BY <1>3, <1>4 DEF SpaceHolds, SpaceOK

\* And of block 0 when the tables are measured or read.
LEMMA RoomInt ==
  ASSUME RoomForTables
  PROVE  Room \in Nat /\ BlockSize \in Nat /\ 0 \in FileBlocks
<1>. DEFINE c == Cardinality(Keys)
<1>1. c \in Nat /\ Largest + 12 * c <= BlockSize
  BY BlockZeroAssumption, FS_CardinalityType DEF RoomForTables
<1>. HIDE DEF c
<1>. QED
  BY <1>1, StorageAssumption, BlockZeroAssumption, LargestNat DEF FileBlocks, Room

LEMMA SpaceOfTables ==
  ASSUME RoomForTables, freeSpace' \in [FileBlocks -> Int], freeSpace'[0] \in Room..BlockSize
  PROVE  SpaceHolds'
<1>. DEFINE a == Cardinality(MappedKeys')
<1>1. MappedKeys' \in SUBSET Keys
  BY DEF MappedKeys
<1>2. a \in Nat
  BY <1>1, BlockZeroAssumption, FS_Subset, FS_CardinalityType
<1>3. Room \in Nat /\ BlockSize \in Nat
  BY RoomInt
<1>. HIDE DEF a
<1>4. freeSpace'[0] >= Room - 12 * a /\ freeSpace'[0] \in 0..BlockSize
  BY <1>2, <1>3
<1>. QED
  BY <1>4 DEF SpaceHolds, SpaceOK, a

LEMMA WrittenRoomy ==
  ASSUME RoomForTables, Tabled(copied)
  PROVE  /\ Written \in RoomyTables /\ InfoSize \in Nat
         /\ Written.freeSpace[0] \in Room..BlockSize
<1>. DEFINE n == FileInfoByteSizeLong(Message(copied))
<1>1. copied \in TablesType
  BY DEF Tabled
<1>2. n \in 0..Largest /\ Largest \in Nat
  BY <1>1, InfoBound
<1>3. Written \in TablesType /\ Written.freeSpace[0] = BlockSize - n
  BY <1>1, WrittenType
<1>. HIDE DEF n
<1>4. Written.freeSpace[0] \in Room..BlockSize
  BY <1>2, <1>3, BlockZeroAssumption DEF Room
<1>5. InfoSize \in 0..Largest
  BY <1>3, InfoBound DEF InfoSize
<1>. QED
  BY <1>2, <1>3, <1>4, <1>5 DEF RoomyTables

\* The tables that are copied, and those that are written.
LEMMA TabledStep ==
  ASSUME RoomForTables, TypeOK, SpaceHolds, Tabled(copied), Tabled(block0),
         [ServerNext]_allVars, ~Restart, ~Crash
  PROVE  Tabled(copied)' /\ Tabled(block0)'
<1>t. /\ copied \in TablesType /\ copied.freeSpace[0] \in 0..BlockSize
      /\ freeSpace \in [FileBlocks -> Int] /\ freeSpace[0] \in 0..BlockSize
  BY DEF Tabled, SpaceHolds, SpaceOK
<1>1. copied' \in TablesType
  BY <1>t, CopiedType
<1>2. Room \in Nat /\ BlockSize \in Nat /\ 0 \in FileBlocks
  BY RoomInt
<1>3. copied'.freeSpace[0] \in 0..BlockSize
  <2>1. CASE InfoUsed \/ InfoKeys
    BY <1>t, <2>1 DEF InfoUsed, InfoKeys, TablesType
  <2>2. CASE InfoIndex
    BY <1>t, <2>2 DEF InfoIndex, TablesType
  <2>3. CASE InfoTooLarge \/ InfoTables
    BY <1>2, <2>3 DEF InfoTooLarge, InfoTables, NewFile, FileInfo
  <2>4. CASE InfoLength
    <3>1. copied' = Written
      BY <2>4 DEF InfoLength
    <3>2. Written.freeSpace[0] \in Room..BlockSize
      BY WrittenRoomy
    <3>. QED
      BY <1>2, <3>1, <3>2
  <2>5. CASE UNCHANGED copied
    BY <1>t, <2>5
  <2>6. CASE Serve
    BY <2>5, <2>6, ServeIsNext
  <2>7. CASE UNCHANGED allVars
    BY <2>5, <2>7 DEF allVars, serverVars, zeroVars
  <2>. QED
    BY <2>1, <2>2, <2>3, <2>4, <2>5, <2>6, <2>7 DEF ServerNext, Interrupt, InterruptAgain,
       HandlerFind, HandlerMark, HandlerMap, HandlerWrite, HandlerEmpty, Destroy, zeroVars
<1>4. block0' = block0 \/ block0' = copied
  BY BlockZeroKept DEF InfoTables
<1>. QED
  BY <1>1, <1>3, <1>4 DEF Tabled

LEMMA SpaceKeeps ==
  ASSUME RoomForTables, Engine, HandlerTyped, SpaceHolds, Tabled(copied), [ServerNext]_allVars,
         ~Restart, ~Crash
  PROVE  SpaceHolds'
<1>p. TypeOK /\ TasksPlaced
  BY DEF Engine
<1>m. Extends(keyBlockMap, keyBlockMap')
  BY <1>p, MapExtends
<1>s. FullSpace \in SUBSET Int /\ SpareSpace \in SUBSET Int
  BY ServerAssumption
<1>1. CASE UNCHANGED <<freeSpace, keyBlockMap>>
  BY <1>1 DEF SpaceHolds, SpaceOK, MappedKeys
<1>2. CASE MappingCounted
  BY <1>2, <1>m, SpaceMapped
<1>3. CASE Serve
  <2>1. Next
    BY <1>3, ServeIsNext
  <2>2. ASSUME NEW t \in Threads, IOStep(t), At(t, "empty"), FlushCounted(io[t].block, FullSpace)
        PROVE  SpaceHolds'
    <3>1. io[t].block \in Blocks
      BY <1>p, <2>2, InHand DEF At
    <3>2. UNCHANGED keyBlockMap
      BY <2>2 DEF IOStep, IOTake, FlushMap, FlushWrite, FlushEmpty, LoadEmpty, LoadFill, At, fileVars
    <3>. QED
      BY <1>s, <2>2, <3>1, <3>2, SpaceFlushed
  <2>3. ASSUME NEW w \in Workers, Take(w) \/ Request(w), UNCHANGED freeSpace
        PROVE  SpaceHolds'
    <3>1. UNCHANGED keyBlockMap
      BY <2>3 DEF Take, Request, PutAdd, PutFind, PutMark, PutSubmit, GetWrite, GetLookup,
         GetHit, GetMiss, GetSubmit, Del, fileVars
    <3>. QED
      BY <1>1, <2>3, <3>1
  <2>. QED
    BY <1>2, <1>3, <2>2, <2>3 DEF Serve
<1>4. CASE HandlerMap
  BY <1>2, <1>4 DEF HandlerMap
<1>5. CASE HandlerEmpty
  <2>1. hblock \in Blocks /\ UNCHANGED keyBlockMap /\ FlushCounted(hblock, SpareSpace)
    BY <1>5 DEF HandlerEmpty, Handle, HandlerTyped, fileVars
  <2>. QED
    BY <1>s, <2>1, SpaceFlushed
<1>6. CASE InfoTooLarge \/ InfoLength
  <2>1. freeSpace' = [freeSpace EXCEPT ![0] = Written.freeSpace[0]]
    BY <1>6 DEF InfoTooLarge, InfoLength, FreeSpaceMeasured
  <2>2. Written.freeSpace[0] \in Room..BlockSize
    BY WrittenRoomy
  <2>3. freeSpace \in [FileBlocks -> Int] /\ 0 \in FileBlocks
    BY RoomInt DEF SpaceHolds, SpaceOK
  <2>4. freeSpace' \in [FileBlocks -> Int] /\ freeSpace'[0] \in Room..BlockSize
    BY <2>1, <2>2, <2>3
  <2>. QED
    BY <2>4, SpaceOfTables
<1>7. CASE UNCHANGED allVars
  BY <1>1, <1>7 DEF allVars, vars, fileVars, serverVars
<1>. QED
  BY <1>1, <1>3, <1>4, <1>5, <1>6, <1>7 DEF ServerNext, Interrupt, InterruptAgain,
     HandlerFind, HandlerMark, HandlerWrite, InfoUsed, InfoIndex, InfoKeys, InfoTables, Destroy,
     vars, fileVars

\* The two writes.
LEMMA FileKeeps ==
  ASSUME RoomForTables, Tabled(copied), FileSane, [ServerNext]_allVars, ~Restart, ~Crash
  PROVE  FileSane'
<1>1. CASE InfoLength
  <2>1. Written \in RoomyTables /\ InfoSize \in Nat
    BY WrittenRoomy
  <2>2. Image(Written, info') /\ file' = WithSize(file, InfoSize)
    BY <1>1 DEF InfoLength, Image
  <2>3. SaneFields(info')
    BY <2>1, <2>2, ImageSane
  <2>4. SaneFile(WithSize(file, InfoSize))
    BY <2>1, SizeSane DEF FileSane
  <2>. QED
    BY <2>2, <2>3, <2>4 DEF FileSane
<1>2. CASE InfoTables
  <2>1. handler = "tables" /\ handler' = "ready" /\ file' = WithTables(file, info)
    BY <1>2 DEF InfoTables, Handle
  <2>2. SaneFile(WithTables(file, info))
    BY <2>1, WrittenSane DEF FileSane
  <2>. QED
    BY <2>1, <2>2 DEF FileSane
<1>3. CASE Serve
  BY <1>3, ServeIsNext DEF FileSane
<1>4. CASE UNCHANGED allVars
  BY <1>4 DEF FileSane, allVars, serverVars, signalVars, zeroVars
<1>5. CASE Interrupt \/ InterruptAgain \/ HandlerFind \/ HandlerMark \/ HandlerMap
           \/ HandlerWrite \/ HandlerEmpty \/ InfoUsed \/ InfoIndex \/ InfoKeys \/ InfoTooLarge
           \/ Destroy
  <2>1. handler' # "tables" /\ UNCHANGED file
    BY <1>5 DEF Interrupt, InterruptAgain, HandlerFind, HandlerMark, HandlerMap, HandlerWrite,
       HandlerEmpty, InfoUsed, InfoIndex, InfoKeys, InfoTooLarge, Destroy, Handle, zeroVars
  <2>. QED
    BY <2>1 DEF FileSane
<1>. QED
  BY <1>1, <1>2, <1>3, <1>4, <1>5 DEF ServerNext

LEMMA NewTabled == NewFile \in TablesType /\ NewFile.freeSpace[0] \in 0..BlockSize
<1>1. 0 \in FileBlocks /\ BlockSize \in Nat
  BY StorageAssumption, BlockZeroAssumption DEF FileBlocks
<1>. QED
  BY <1>1, NewFileType DEF NewFile, FileInfo

\* main on the file, whatever it finds there.
LEMMA BootKeeps ==
  ASSUME RoomForTables, Typed, Restart \/ Crash
  PROVE  Typed'
<1>. DEFINE t == Opened(file)
<1>1. TypeOK /\ SaneFile(file) /\ Tabled(block0)
  BY DEF Typed, Engine, FileSane
<1>2. t \in RoomyTables
  BY <1>1, OpenedSane
<1>3. t \in TablesType /\ t.freeSpace \in [FileBlocks -> Int] /\ t.freeSpace[0] \in Room..BlockSize
  <2>. HIDE DEF t
  <2>. QED
    BY <1>2 DEF RoomyTables, TablesType
<1>4. Boot(t)
  BY DEF Restart, Crash
<1>5. restarts < MaxRestarts
  BY DEF Restart, Crash
<1>. HIDE DEF t
<1>6. TypeOK' /\ Quiet'
  BY <1>1, <1>3, <1>4, BootTypes
<1>7. Engine'
  <2>1. (TypeOK /\ Quiet => Engine)'
    BY EngineIdle, PTL
  <2>. QED
    BY <1>6, <2>1
<1>8. SpaceHolds'
  <2>1. freeSpace' = t.freeSpace
    BY <1>4 DEF Boot
  <2>. QED
    BY <1>3, <2>1, SpaceOfTables
<1>9. HandlerTyped' /\ FileSane' /\ Tabled(block0)'
  BY <1>1, <1>4 DEF Boot, HandlerTyped, HandlerPlace, FileSane, Tabled
<1>10. kept' \subseteq Keys /\ {refused', damaged', mixed'} \subseteq BOOLEAN
  BY <1>4 DEF Boot, Typed
<1>12. Tabled(copied)'
  <2>1. copied' = NewFile
    BY <1>4 DEF Boot
  <2>. QED
    BY <2>1, NewTabled DEF Tabled
<1>11. restarts' \in 0..MaxRestarts
  BY <1>4, <1>5, ServerAssumption DEF Boot, Typed
<1>. QED
  BY <1>7, <1>8, <1>9, <1>10, <1>11, <1>12 DEF Typed

LEMMA HistoryKept ==
  ASSUME Typed, [ServerNext]_allVars, ~Restart, ~Crash
  PROVE  /\ kept' \subseteq Keys /\ {refused', mixed'} \subseteq BOOLEAN
         /\ UNCHANGED <<damaged, restarts>>
<1>h. kept \subseteq Keys /\ {refused, mixed} \subseteq BOOLEAN
  BY DEF Typed
<1>1. CASE Serve
  BY <1>h, <1>1, ServeIsNext
<1>2. CASE Interrupt
  BY <1>h, <1>2 DEF Interrupt, zeroVars, bootVars
<1>3. CASE InfoUsed \/ InfoIndex \/ InfoTooLarge \/ InfoLength \/ InfoTables
  BY <1>h, <1>3 DEF InfoUsed, InfoIndex, InfoTooLarge, InfoLength, InfoTables, bootVars
<1>4. CASE InfoKeys
  <2>1. mixed' \in BOOLEAN
    BY <1>h, <1>4 DEF InfoKeys
  <2>. QED
    BY <1>h, <1>4, <2>1 DEF InfoKeys, bootVars
<1>5. CASE UNCHANGED allVars
  BY <1>h, <1>5 DEF allVars, serverVars, signalVars, zeroVars, bootVars
<1>. QED
  BY <1>h, <1>1, <1>2, <1>3, <1>4, <1>5 DEF ServerNext, InterruptAgain, HandlerFind, HandlerMark,
     HandlerMap, HandlerWrite, HandlerEmpty, Destroy, zeroVars, bootVars

LEMMA TypedStep ==
  ASSUME RoomForTables, Typed, [ServerNext]_allVars
  PROVE  Typed'
<1>1. CASE Restart \/ Crash
  BY <1>1, BootKeeps
<1>2. CASE ~Restart /\ ~Crash
  <2>1. TypeOK
    BY DEF Typed, Engine
  <2>2. Engine' /\ HandlerTyped' /\ SpaceHolds' /\ FileSane' /\ Tabled(copied)' /\ Tabled(block0)'
    BY <1>2, <2>1, EngineAlways, HandlerTypedStep, SpaceKeeps, FileKeeps, TabledStep DEF Typed
  <2>3. kept' \subseteq Keys /\ {refused', mixed'} \subseteq BOOLEAN /\ UNCHANGED <<damaged, restarts>>
    BY <1>2, HistoryKept
  <2>. QED
    BY <2>2, <2>3 DEF Typed
<1>. QED
  BY <1>1, <1>2

LEMMA TypedInitial == ServerInit => Typed
<1>. SUFFICES ASSUME ServerInit PROVE Typed
  OBVIOUS
<1>1. Engine
  BY Initial DEF ServerInit, IInv, Engine
<1>2. HandlerTyped
  BY DEF ServerInit, HandlerTyped, HandlerPlace
<1>3. NewFile \in TablesType /\ NewFile.freeSpace[0] \in 0..BlockSize
  BY NewTabled
<1>4. SpaceHolds
  <2>1. freeSpace = NewFile.freeSpace
    BY DEF ServerInit
  <2>2. freeSpace \in [FileBlocks -> Int] /\ freeSpace[0] = BlockSize
        /\ BlockSize \in Nat /\ Largest \in Nat
    BY <2>1, StorageAssumption, BlockZeroAssumption, LargestNat DEF NewFile, FileInfo, FileBlocks
  <2>3. MappedKeys = {}
    BY DEF MappedKeys, ServerInit, Init
  <2>4. Cardinality(MappedKeys) = 0
    BY <2>3, FS_EmptySet
  <2>. QED
    BY <2>2, <2>4 DEF SpaceHolds, SpaceOK, Room
<1>5. FileSane
  <2>1. file = NewBlockZero /\ handler = "none"
    BY DEF ServerInit
  <2>2. <<>> \in Seq(Places(Sane)) /\ 0 \in Nat
    OBVIOUS
  <2>3. SaneFile(NewBlockZero)
    BY <2>2 DEF NewBlockZero, SaneFile, HoldsIn, IndexFirst
  <2>. QED
    BY <2>1, <2>3 DEF FileSane
<1>6. /\ kept = {} /\ refused = FALSE /\ damaged = FALSE /\ mixed = FALSE
      /\ restarts = 0 /\ copied = NewFile /\ block0 = NewFile
  BY DEF ServerInit
<1>7. restarts \in 0..MaxRestarts
  BY <1>6, ServerAssumption
<1>8. {refused, damaged, mixed} \subseteq BOOLEAN /\ kept \subseteq Keys
  BY <1>6
<1>9. Tabled(copied) /\ Tabled(block0)
  BY <1>3, <1>6 DEF Tabled
<1>. QED
  BY <1>1, <1>2, <1>4, <1>5, <1>7, <1>8, <1>9 DEF Typed

\* Every variable has its type, whenever SIGINT comes and wherever a crash falls. In
\* particular the free space of block 0 never wraps, in memory nor in the tables that
\* writeToBlock0 copies and writes, as long as the tables fit: whatever the free space
\* of the other blocks is, and signalHandler's may well have wrapped (CACHE_SIZE -
\* currentSize). And what readFromBlock0 makes of a block 0 left by a crash between
\* the two writes, of the length of one image and the bytes of others, still are
\* tables with block 0 in use and room in it.
THEOREM ServerTypeCorrect ==
  ASSUME RoomForTables
  PROVE  ServerSpec => []ServerTypeOK
<1>1. ServerInit => Typed
  BY TypedInitial
<1>2. Typed /\ [ServerNext]_allVars => Typed'
  BY TypedStep
<1>3. Typed => ServerTypeOK
  <2>. SUFFICES ASSUME Typed PROVE ServerTypeOK
    OBVIOUS
  <2>1. /\ TypeOK /\ handler \in HandlerPlace /\ hblock \in Blocks \cup {NoBlock}
        /\ SpaceOK(freeSpace)
    BY DEF Typed, Engine, HandlerTyped, SpaceHolds
  <2>2. ASSUME NEW t, Tabled(t) PROVE TablesOK(t)
    BY <2>2 DEF Tabled, TablesType, TablesOK, SpaceOK
  <2>3. file.size \in Nat /\ \A i \in DOMAIN file.bytes : file.bytes[i].at \in Nat
    <3>1. file.size \in Nat /\ file.bytes \in Seq(Places(Sane))
      BY DEF Typed, FileSane, SaneFile, HoldsIn
    <3>2. \A i \in DOMAIN file.bytes : file.bytes[i] \in Places(Sane)
      BY <3>1
    <3>. QED
      BY <3>1, <3>2 DEF Places
  <2>. QED
    BY <2>1, <2>2, <2>3 DEF Typed, ServerTypeOK
<1>. QED
  BY <1>1, <1>2, <1>3, PTL DEF ServerSpec

-----------------------------------------------------------------------------
(* The tables in memory and in the file, when SIGINT comes at any time.    *)
(* The pools go on while the handler copies the tables and writes them:    *)
(* the tables they make then are not those that are written.               *)

\* Tables that may be written to the file, or are what it holds.
Stands(t) == t \in TablesType /\ Holds(file, t.keyBlockMap) /\ Extends(t.keyBlockMap, keyBlockMap)

\* What the file and the copy say of the keys: nothing that the tables do not say.
MapsAlike ==
  /\ Engine /\ HandlerTyped
  /\ Current \in TablesType /\ copied \in TablesType /\ block0 \in TablesType
  /\ Holds(file, block0.keyBlockMap)
  /\ handler # "tables" => Stands(Opened(file))
  /\ handler \in {"size", "tables"} => Stands(copied)
  /\ handler = "tables" => Image(copied, info) /\ file.size = Bytes(info)

\* The blocks of the keys are used, in the tables, the copy and the file, as long as
\* the used blocks and the keys were copied from the same tables.
UsedOf(t) == Closed(t.blockUsageTable, t.keyBlockMap)
UsedAlike ==
  /\ Marked /\ UsedOf(Current) /\ UsedOf(block0)
  /\ handler # "tables" => UsedOf(Opened(file))
  /\ handler \in {"size", "tables"} => UsedOf(copied)

TablesAlike == MapsAlike /\ (mixed \/ UsedAlike)

LEMMA StandsStill ==
  ASSUME NEW t, Stands(t), UNCHANGED file, Extends(keyBlockMap, keyBlockMap')
  PROVE  Stands(t)'
<1>1. Extends(t.keyBlockMap, keyBlockMap')
  BY ExtendsChain DEF Stands
<1>. QED
  BY <1>1 DEF Stands

LEMMA ExtendsItself == \A map : Extends(map, map)
  BY DEF Extends

\* Where the handler is, and what a step that does not write the file leaves alone.
LEMMA FileBeside ==
  ASSUME [ServerNext]_allVars, ~InfoLength, ~InfoTables, ~Restart, ~Crash
  PROVE  /\ UNCHANGED <<file, block0>>
         /\ \/ UNCHANGED <<handler, copied, info>>
            \/ /\ handler' \notin {"size", "tables"} /\ handler # "tables"
            \/ InfoKeys
<1>1. CASE Serve
  BY <1>1, ServeIsNext
<1>2. CASE UNCHANGED allVars
  BY <1>2 DEF allVars, serverVars, signalVars, zeroVars
<1>3. CASE Interrupt \/ InterruptAgain \/ HandlerFind \/ HandlerMark \/ HandlerMap
           \/ HandlerWrite \/ HandlerEmpty \/ InfoUsed \/ InfoIndex \/ InfoTooLarge \/ Destroy
  BY <1>3 DEF Interrupt, InterruptAgain, HandlerFind, HandlerMark, HandlerMap, HandlerWrite,
     HandlerEmpty, InfoUsed, InfoIndex, InfoTooLarge, Destroy, Handle, zeroVars
<1>4. CASE InfoKeys
  BY <1>4 DEF InfoKeys
<1>. QED
  BY <1>1, <1>2, <1>3, <1>4 DEF ServerNext

\* The copy of the keys.
LEMMA KeysCopied ==
  ASSUME MapsAlike, InfoKeys
  PROVE  /\ handler = "keys" /\ handler' = "size" /\ copied' \in TablesType
         /\ copied'.blockUsageTable = copied.blockUsageTable
         /\ copied'.keyBlockMap = keyBlockMap /\ UNCHANGED <<vars, freeSpace, file, block0>>
<1>1. copied \in TablesType /\ keyBlockMap \in [Keys -> Blocks \cup {NoBlock}]
  BY DEF MapsAlike, Engine, TypeOK
<1>2. copied' = [copied EXCEPT !.keyBlockMap = keyBlockMap]
  BY DEF InfoKeys
<1>3. copied' \in TablesType /\ copied'.blockUsageTable = copied.blockUsageTable
      /\ copied'.keyBlockMap = keyBlockMap
  BY <1>1, <1>2 DEF TablesType
<1>. QED
  BY <1>3 DEF InfoKeys, Handle

LEMMA MapsAlikeStep ==
  ASSUME MapsAlike, [ServerNext]_allVars, ~Restart, ~Crash
  PROVE  MapsAlike'
<1>m. /\ Engine /\ TypeOK /\ TasksPlaced /\ HandlerTyped
      /\ Current \in TablesType /\ copied \in TablesType /\ block0 \in TablesType
      /\ Holds(file, block0.keyBlockMap)
      /\ handler # "tables" => Stands(Opened(file))
      /\ handler \in {"size", "tables"} => Stands(copied)
      /\ handler = "tables" => Image(copied, info) /\ file.size = Bytes(info)
  BY DEF MapsAlike, Engine
<1>e. Extends(keyBlockMap, keyBlockMap')
  BY <1>m, MapExtends
<1>s. freeSpace \in [FileBlocks -> Int]
  BY <1>m, CurrentType
<1>t. /\ Engine' /\ HandlerTyped' /\ Current' \in TablesType
      /\ copied' \in TablesType /\ block0' \in TablesType
  <2>1. Engine' /\ HandlerTyped' /\ copied' \in TablesType
    BY <1>m, <1>s, EngineAlways, HandlerTypedStep, CopiedType
  <2>2. freeSpace' \in [FileBlocks -> Int]
    BY <1>m, <1>s, SpaceStep
  <2>3. (TypeOK => (Current \in TablesType <=> freeSpace \in [FileBlocks -> Int]))'
    BY CurrentType, PTL
  <2>4. block0' = block0 \/ block0' = copied
    BY BlockZeroKept DEF InfoTables
  <2>. QED
    BY <1>m, <2>1, <2>2, <2>3, <2>4 DEF Engine
<1>1. CASE InfoTables
  <2>1. handler = "tables" /\ handler' = "ready" /\ file' = WithTables(file, info)
        /\ block0' = copied /\ UNCHANGED keyBlockMap
    BY <1>1 DEF InfoTables, Handle, vars, fileVars
  <2>. DEFINE t == copied
  <2>2. Stands(t) /\ Image(t, info) /\ file.size = Bytes(info)
    BY <1>m, <2>1
  <2>3. Holds(file', t.keyBlockMap) /\ Opened(file') = t
    <3>. HIDE DEF t
    <3>. QED
      BY <2>1, <2>2, ExtendsItself, BlockZeroRoundTrip DEF Stands
  <2>4. Stands(Opened(file))'
    BY <2>1, <2>2, <2>3 DEF Stands
  <2>. QED
    BY <1>t, <2>1, <2>3, <2>4 DEF MapsAlike
<1>2. CASE InfoLength
  <2>1. handler = "size" /\ handler' = "tables" /\ block0' = block0 /\ UNCHANGED keyBlockMap
    BY <1>2 DEF InfoLength, Handle, vars, fileVars
  <2>2. /\ copied' = Written /\ Written.keyBlockMap = copied.keyBlockMap
        /\ Image(Written, info') /\ file' = WithSize(file, Bytes(info')) /\ Bytes(info') \in Nat
    BY <1>2, <1>m, LengthStep
  <2>3. \A map : Holds(file, map) => Holds(file', map) /\ file'.size = Bytes(info')
    BY <2>2 DEF Holds, HoldsIn, WithSize
  <2>4. Stands(copied)'
    BY <1>m, <1>t, <2>1, <2>2, <2>3 DEF Stands
  <2>5. Image(copied', info') /\ file'.size = Bytes(info') /\ Holds(file', block0'.keyBlockMap)
    BY <1>m, <2>1, <2>2, <2>3
  <2>. QED
    BY <1>t, <2>1, <2>4, <2>5 DEF MapsAlike
<1>3. CASE InfoKeys
  <2>1. /\ handler = "keys" /\ handler' = "size" /\ copied'.keyBlockMap = keyBlockMap
        /\ UNCHANGED <<file, block0, keyBlockMap>>
    BY <1>3, KeysCopied DEF vars, fileVars
  <2>2. Stands(Opened(file)) /\ Stands(Opened(file))'
    BY <1>m, <1>e, <2>1, StandsStill
  <2>3. Holds(file, keyBlockMap)
    BY <2>2, HoldsExtends DEF Stands
  <2>4. Stands(copied)'
    BY <1>t, <2>1, <2>3, ExtendsItself DEF Stands
  <2>. QED
    BY <1>m, <1>t, <2>1, <2>2, <2>4 DEF MapsAlike
<1>4. CASE ~InfoLength /\ ~InfoTables /\ ~InfoKeys
  <2>1. UNCHANGED <<file, block0>>
        /\ \/ UNCHANGED <<handler, copied, info>>
           \/ handler' \notin {"size", "tables"} /\ handler # "tables"
    BY <1>4, FileBeside
  <2>2. \A t : Stands(t) => Stands(t)'
    BY <1>e, <2>1, StandsStill
  <2>3. handler' # "tables" => Stands(Opened(file))'
    BY <1>m, <2>1, <2>2
  <2>4. handler' \in {"size", "tables"} => Stands(copied)'
    BY <1>m, <2>1, <2>2
  <2>. QED
    BY <1>m, <1>t, <2>1, <2>3, <2>4 DEF MapsAlike
<1>. QED
  BY <1>1, <1>2, <1>3, <1>4

LEMMA CurrentParts ==
  Current.blockUsageTable = blockUsageTable /\ Current.keyBlockMap = keyBlockMap
  BY DEF Current, FileInfo

LEMMA UsedAlikeStep ==
  ASSUME MapsAlike, UsedAlike, [ServerNext]_allVars, ~Restart, ~Crash
  PROVE  mixed' \/ UsedAlike'
<1>. SUFFICES ASSUME ~mixed' PROVE UsedAlike'
  OBVIOUS
<1>m. /\ Engine /\ HandlerTyped /\ copied \in TablesType /\ block0 \in TablesType
      /\ handler = "tables" => Stands(copied) /\ Image(copied, info) /\ file.size = Bytes(info)
  BY DEF MapsAlike, Stands
<1>u. /\ Marked /\ Closed(blockUsageTable, keyBlockMap) /\ UsedOf(block0)
      /\ handler # "tables" => UsedOf(Opened(file))
      /\ handler \in {"size", "tables"} => UsedOf(copied)
  BY CurrentParts DEF UsedAlike, UsedOf
<1>g. EngineGrown
  BY <1>m, <1>u, EngineGrows
<1>c. UsedOf(Current)' /\ Marked'
  <2>1. Current'.blockUsageTable = blockUsageTable' /\ Current'.keyBlockMap = keyBlockMap'
    BY DEF Current, FileInfo
  <2>. QED
    BY <1>g, <1>m, <1>u, <2>1, MarkedStep DEF EngineGrown, UsedOf
<1>1. CASE InfoTables
  <2>1. handler = "tables" /\ handler' = "ready" /\ file' = WithTables(file, info)
        /\ block0' = copied
    BY <1>1 DEF InfoTables, Handle
  <2>. DEFINE t == copied
  <2>2. Opened(file') = t
    <3>1. Stands(t) /\ Image(t, info) /\ file.size = Bytes(info)
      BY <1>m, <2>1
    <3>. HIDE DEF t
    <3>. QED
      BY <2>1, <3>1, ExtendsItself, BlockZeroRoundTrip DEF Stands
  <2>. QED
    BY <1>c, <1>u, <2>1, <2>2 DEF UsedAlike, UsedOf
<1>2. CASE InfoLength
  <2>1. handler = "size" /\ handler' = "tables" /\ block0' = block0
    BY <1>2 DEF InfoLength, Handle
  <2>2. /\ copied' = Written /\ Written.keyBlockMap = copied.keyBlockMap
        /\ Written.blockUsageTable = copied.blockUsageTable
    BY <1>2, <1>m, LengthStep
  <2>. QED
    BY <1>c, <1>u, <2>1, <2>2 DEF UsedAlike, UsedOf
<1>3. CASE InfoKeys
  <2>1. /\ handler = "keys" /\ handler' = "size" /\ copied'.keyBlockMap = keyBlockMap
        /\ copied'.blockUsageTable = copied.blockUsageTable /\ UNCHANGED <<file, block0>>
    BY <1>3, KeysCopied
  <2>2. copied.blockUsageTable = blockUsageTable
    BY <1>3 DEF InfoKeys
  <2>. QED
    BY <1>c, <1>u, <2>1, <2>2 DEF UsedAlike, UsedOf
<1>4. CASE ~InfoLength /\ ~InfoTables /\ ~InfoKeys
  <2>1. UNCHANGED <<file, block0>>
        /\ \/ UNCHANGED <<handler, copied, info>>
           \/ handler' \notin {"size", "tables"} /\ handler # "tables"
    BY <1>4, FileBeside
  <2>. QED
    BY <1>c, <1>u, <2>1 DEF UsedAlike, UsedOf
<1>. QED
  BY <1>1, <1>2, <1>3, <1>4

LEMMA MixedStays ==
  ASSUME [ServerNext]_allVars, mixed
  PROVE  mixed'
<1>1. CASE Serve
  BY <1>1, ServeIsNext
<1>. QED
  BY <1>1 DEF ServerNext, Interrupt, InterruptAgain, HandlerFind, HandlerMark, HandlerMap,
     HandlerWrite, HandlerEmpty, InfoUsed, InfoIndex, InfoKeys, InfoTooLarge, InfoLength,
     InfoTables, Destroy, Restart, Crash, Boot, zeroVars, serverVars, allVars

\* A start reads tables that stand, and everything agrees with them.
LEMMA BootAlike ==
  ASSUME damaged \/ TablesAlike, Restart \/ Crash
  PROVE  (damaged \/ TablesAlike)'
<1>. SUFFICES ASSUME ~damaged' PROVE TablesAlike'
  OBVIOUS
<1>. DEFINE t == Opened(file)
<1>1. Boot(t)
  BY DEF Restart, Crash
<1>2. ~damaged /\ (handler = "tables" => t = block0)
  BY <1>1 DEF Boot
<1>3. MapsAlike /\ (mixed \/ UsedAlike)
  BY <1>2 DEF TablesAlike
<1>4. t \in TablesType /\ Holds(file, t.keyBlockMap)
  BY <1>2, <1>3 DEF MapsAlike, Stands
<1>5. TypeOK' /\ Quiet'
  BY <1>1, <1>3, <1>4, BootTypes DEF MapsAlike, Engine
<1>6. Engine'
  <2>1. (TypeOK /\ Quiet => Engine)'
    BY EngineIdle, PTL
  <2>. QED
    BY <1>5, <2>1
<1>7. /\ handler' = "none" /\ hblock' = NoBlock /\ copied' = NewFile
      /\ UNCHANGED <<file, block0, mixed>>
      /\ blockUsageTable' = t.blockUsageTable
      /\ keyBlockMap' = t.keyBlockMap /\ freeSpace' = t.freeSpace
  BY <1>1 DEF Boot
<1>8. Current' = t
  <2>1. Current' = FileInfo(t.blockUsageTable, t.keyBlockMap, t.freeSpace)
    BY <1>7 DEF Current
  <2>. HIDE DEF t
  <2>. QED
    BY <1>4, <2>1 DEF FileInfo, TablesType
<1>9. HandlerTyped' /\ Marked'
  <2>1. /\ \A w \in Workers : pc'[w] = "idle"
        /\ \A u \in Threads : ~Queued(u, "flush")' /\ ~At(u, "flush")'
    BY <1>5 DEF Quiet, Queued, At
  <2>. QED
    BY <1>7, <2>1 DEF HandlerTyped, HandlerPlace, Marked
<1>10. MapsAlike'
  <2>1. Stands(t)'
    BY <1>4, <1>7, ExtendsItself DEF Stands
  <2>. QED
    BY <1>3, <1>4, <1>6, <1>7, <1>8, <1>9, <2>1, NewFileType DEF MapsAlike
<1>11. mixed' \/ UsedAlike'
  <2>1. CASE mixed
    BY <1>7, <2>1
  <2>2. CASE UsedAlike
    <3>1. UsedOf(t) /\ UsedOf(block0)
      BY <1>2, <2>2 DEF UsedAlike
    <3>. QED
      BY <1>7, <1>8, <1>9, <3>1 DEF UsedAlike, UsedOf
  <2>. QED
    BY <1>3, <2>1, <2>2
<1>. QED
  BY <1>10, <1>11 DEF TablesAlike

LEMMA AlikeInductive ==
  ASSUME damaged \/ TablesAlike, [ServerNext]_allVars
  PROVE  (damaged \/ TablesAlike)'
<1>1. CASE damaged
  BY <1>1, DamagedStays
<1>2. CASE Restart \/ Crash
  BY <1>2, BootAlike
<1>3. CASE TablesAlike /\ ~Restart /\ ~Crash
  <2>1. MapsAlike /\ (mixed \/ UsedAlike)
    BY <1>3 DEF TablesAlike
  <2>2. MapsAlike'
    BY <1>3, <2>1, MapsAlikeStep
  <2>3. mixed' \/ UsedAlike'
    BY <1>3, <2>1, MixedStays, UsedAlikeStep
  <2>. QED
    BY <2>2, <2>3 DEF TablesAlike
<1>. QED
  BY <1>1, <1>2, <1>3

LEMMA AlikeInitial == ServerInit => TablesAlike
<1>. SUFFICES ASSUME ServerInit PROVE TablesAlike
  OBVIOUS
<1>1. Good
  BY ServerInitial
<1>2. /\ Engine /\ HandlerTyped /\ Marked /\ copied \in TablesType
      /\ Current \in TablesType /\ Closed(blockUsageTable, keyBlockMap)
      /\ block0 \in TablesType /\ Closed(block0.blockUsageTable, block0.keyBlockMap)
  BY <1>1 DEF Good, Pools, HandlerOK, TablesAgree
<1>3. Holds(file, block0.keyBlockMap) /\ Opened(file) = block0 /\ handler = "none"
  BY <1>1 DEF Good, FileOK, ServerInit
<1>4. Extends(block0.keyBlockMap, keyBlockMap)
  BY <1>1 DEF Good, TablesAgree
<1>5. MapsAlike
  BY <1>2, <1>3, <1>4 DEF MapsAlike, Stands
<1>6. UsedAlike
  BY <1>2, <1>3, CurrentParts DEF UsedAlike, UsedOf
<1>. QED
  BY <1>5, <1>6 DEF TablesAlike

\* Whenever SIGINT comes, and through crashes and restarts, until a crash between the
\* two writes leaves tables nobody wrote: writeToBlock0, which copies the three tables
\* one after the other while the pools change them, copies and writes no key that is
\* not on its block in memory; and the tables it writes count the blocks of their keys
\* as used, unless a block was marked between the first table and the last.
THEOREM TablesInvariance == ServerSpec => [](damaged \/ TablesAlike)
<1>1. ServerInit => damaged \/ TablesAlike
  BY AlikeInitial
<1>2. (damaged \/ TablesAlike) /\ [ServerNext]_allVars => (damaged \/ TablesAlike)'
  BY AlikeInductive
<1>. QED
  BY <1>1, <1>2, PTL DEF ServerSpec

\* No key is on a block that getFreeBlock may give out again, though the handler
\* takes none of the locks of the pools and they go on while it flushes and writes:
\* a block that is marked while writeToBlock0 copies the tables is the one exception.
THEOREM MappedBlocksStayUsed == ServerSpec => []MappedBlocksUsed
<1>1. damaged \/ TablesAlike => MappedBlocksUsed
  BY CurrentParts DEF TablesAlike, UsedAlike, UsedOf, Closed, MappedBlocksUsed
<1>. QED
  BY <1>1, TablesInvariance, PTL

\* What readFromBlock0 would read at any moment, of tables that were copied while
\* the pools changed them, or of half of them, moves no key to another block.
THEOREM FileMapsNothingElse == ServerSpec => []FileMapsAlike
<1>1. damaged \/ TablesAlike => FileMapsAlike
  <2>. SUFFICES ASSUME MapsAlike, NEW k \in Keys
                PROVE  Opened(file).keyBlockMap[k] \in {NoBlock, keyBlockMap[k]}
    BY DEF FileMapsAlike, TablesAlike
  <2>1. PICK t : Stands(t) /\ Opened(file).keyBlockMap[k] \in {NoBlock, t.keyBlockMap[k]}
    <3>1. CASE handler # "tables"
      BY <3>1 DEF MapsAlike
    <3>2. CASE handler = "tables"
      <4>1. Stands(copied)
        BY <3>2 DEF MapsAlike
      <4>2. copied.keyBlockMap \in [Keys -> Blocks \cup {NoBlock}] /\ Holds(file, copied.keyBlockMap)
        BY <4>1 DEF Stands, TablesType
      <4>3. Opened(file).keyBlockMap[k] \in {NoBlock, copied.keyBlockMap[k]}
        BY <4>2, OpenedAgrees
      <4>. QED
        BY <4>1, <4>3
    <3>. QED
      BY <3>1, <3>2
  <2>2. t.keyBlockMap[k] # NoBlock => keyBlockMap[k] = t.keyBlockMap[k]
    BY <2>1 DEF Stands, Extends
  <2>. QED
    BY <2>1, <2>2
<1>. QED
  BY <1>1, TablesInvariance, PTL
=============================================================================
