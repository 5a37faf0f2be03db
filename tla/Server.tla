------------------------------- MODULE Server -------------------------------
(***************************************************************************)
(* The life of the server process (server.cpp) around its storage engine:  *)
(* SIGINT and its handler, the end of main, the file information in block  *)
(* 0 (writeToBlock0, readFromBlock0 in include/fileInfo.hpp), crashes and  *)
(* restarts.                                                               *)
(*                                                                         *)
(* The thread pool is what module TaskService promises: after shutdown no  *)
(* task is waiting, but the workers may still be in one.  Writing a block  *)
(* is one step, a crash in the middle leaves a block nothing refers to;    *)
(* writing block 0 is two, and the tables are copied before, one by one.   *)
(* A free space is a size_t: one that has wrapped is written here as the   *)
(* negative number that it should have been, and takes ten bytes in the    *)
(* file either way.                                                        *)
(***************************************************************************)
EXTENDS BlockZero

CONSTANTS
  FullSpace,   \* what a full cache leaves free in its block
  SpareSpace,  \* what the handler computes for the last one, wrapped if the cache
               \* is over its limit, more than a block if its size has wrapped
  Reading,     \* gets reach the read cache, which is not saved
  QuietStop,   \* SIGINT only comes when both pools are idle
  MaxRestarts  \* bound

ASSUME ServerAssumption ==
  /\ FullSpace \cup SpareSpace \subseteq Int
  /\ {Reading, QuietStop} \subseteq BOOLEAN /\ MaxRestarts \in Nat

VARIABLES
  freeSpace, \* BlockIndexTable::freeSpace
  handler,   \* where signalHandler is; producing until it starts
  hblock,    \* the block it flushes the write cache to
  copied,    \* the tables as far as writeToBlock0 has copied them
  info,      \* the buffer it writes
  file,      \* what block 0 holds
  block0,    \* history: the tables last written to it
  refused,   \* history: the last ones were too large and were not written
  kept,      \* history: the keys the store held when SIGINT came
  damaged,   \* history: a crash between the two writes lost the tables
  mixed,     \* history: a block was marked while the tables were copied
  restarts

signalVars == <<handler, hblock, kept>>
zeroVars   == <<copied, info, file, block0, refused, mixed>>
bootVars   == <<damaged, restarts>>
serverVars == <<freeSpace, signalVars, zeroVars, bootVars>>
allVars    == <<vars, serverVars>>

ServerInit == /\ Init
              /\ freeSpace = NewFile.freeSpace
              /\ handler = "none" /\ hblock = NoBlock /\ kept = {}
              /\ copied = NewFile /\ info = <<>>
              /\ file = NewBlockZero /\ block0 = NewFile
              /\ refused = FALSE /\ damaged = FALSE /\ mixed = FALSE /\ restarts = 0

-----------------------------------------------------------------------------
(* The free space of the blocks: addKeyBlockMapping takes a key and a      *)
(* block number off block 0, updateBlockInfo sets the one that is flushed. *)

NewlyMapped == {k \in Keys : keyBlockMap'[k] # keyBlockMap[k]}
MappingCounted == freeSpace' = [freeSpace EXCEPT ![0] = @ - 12 * Cardinality(NewlyMapped)]
FlushCounted(b, spaces) == \E f \in spaces : freeSpace' = [freeSpace EXCEPT ![b] = f]

-----------------------------------------------------------------------------
(* The two pools.                                                          *)

Producing == handler = "none"

Serve == /\ \/ /\ \/ Producing /\ \E w \in Workers : Take(w)
                  \/ \E w \in Workers : Request(w) /\ (pc'[w] = "lookup" => Reading)
               /\ UNCHANGED freeSpace
            \/ \E t \in Threads :
                 /\ IOStep(t)
                 /\ IF At(t, "empty") THEN FlushCounted(io[t].block, FullSpace)
                                      ELSE MappingCounted
         /\ UNCHANGED <<signalVars, zeroVars, bootVars>>

Quiet == /\ \A w \in Workers : pc[w] = "idle"
         /\ \A t \in Threads : At(t, "idle") /\ queue[t] = <<>>

-----------------------------------------------------------------------------
(* signalHandler.  It takes no lock of the caches.                         *)

Handle(from, to) == handler = from /\ handler' = to

\* The key is in the write cache or has a block.
Held(k) == write[k] # Absent \/ keyBlockMap[k] # NoBlock

\* producing = false, and shutdown of the thread pool.
Interrupt == /\ QuietStop => Quiet
             /\ Handle("none", "find")
             /\ kept' = {k \in Keys : Held(k)}
             /\ UNCHANGED <<vars, freeSpace, hblock, zeroVars, bootVars>>

\* A second SIGINT, before main has returned: shutdown has nothing to do, and
\* the handler takes another block for the cache that is now empty.
InterruptAgain == /\ Handle("ready", "find")
                  /\ UNCHANGED <<vars, freeSpace, hblock, kept, zeroVars, bootVars>>

\* getFreeBlock, again in two steps.
HandlerFind == /\ Handle("find", "mark")
               /\ hblock' = FreeBlock
               /\ UNCHANGED <<vars, freeSpace, kept, zeroVars, bootVars>>

HandlerMark == /\ Handle("mark", "map")
               /\ MarkUsed(hblock)
               /\ UNCHANGED <<cacheVars, keyBlockMap, disk, ioVars, workerVars,
                              freeSpace, hblock, kept, zeroVars, bootVars>>

\* flushToDisk, in the steps of a flush; without a block it does nothing.
\* Mutant: the keys are not mapped.
HandlerMappedNot == keyBlockMap
HandlerMapped == Mapped(write, hblock)
HandlerMap ==
  /\ \/ /\ hblock = NoBlock /\ Handle("map", "info") /\ UNCHANGED keyBlockMap
     \/ /\ hblock # NoBlock /\ Handle("map", "serialize")
        /\ keyBlockMap' = HandlerMapped
  /\ MappingCounted
  /\ UNCHANGED <<cacheVars, blockUsageTable, disk, ioVars, workerVars,
                 hblock, kept, zeroVars, bootVars>>

HandlerWrite == /\ Handle("serialize", "empty")
                /\ disk' = [disk EXCEPT ![hblock] = write]
                /\ UNCHANGED <<cacheVars, blockUsageTable, keyBlockMap, ioVars,
                               workerVars, freeSpace, hblock, kept, zeroVars, bootVars>>

HandlerEmpty == /\ Handle("empty", "info")
                /\ FlushCounted(hblock, SpareSpace)
                /\ write' = Empty
                /\ UNCHANGED <<wrLock, currentReadBlock, fileVars, ioVars,
                               workerVars, hblock, kept, zeroVars, bootVars>>

-----------------------------------------------------------------------------
(* writeToBlock0 copies the tables, measures them, and writes them, the     *)
(* length first; nothing if they are too large.  Without a lock: what the  *)
(* pools still do comes between the steps.                                 *)

\* Mutant: the used blocks are left out.
UsedCopiedNot == {0}
UsedCopied == blockUsageTable

InfoUsed == /\ Handle("info", "index")
            /\ copied' = [copied EXCEPT !.blockUsageTable = UsedCopied]
            /\ UNCHANGED <<vars, freeSpace, hblock, kept, info, file, block0, refused,
                           mixed, bootVars>>

InfoIndex == /\ Handle("index", "keys")
             /\ copied' = [copied EXCEPT !.freeSpace = freeSpace]
             /\ UNCHANGED <<vars, freeSpace, hblock, kept, info, file, block0, refused,
                            mixed, bootVars>>

InfoKeys == /\ Handle("keys", "size")
            /\ copied' = [copied EXCEPT !.keyBlockMap = keyBlockMap]
            /\ mixed' = (mixed \/ copied.blockUsageTable # blockUsageTable)
            /\ UNCHANGED <<vars, freeSpace, hblock, kept, info, file, block0, refused,
                           bootVars>>

Written == Measured(copied)
InfoSize == FileInfoByteSizeLong(Message(Written))
FreeSpaceMeasured == freeSpace' = [freeSpace EXCEPT ![0] = Written.freeSpace[0]]

InfoTooLarge == /\ InfoSize > InfoLimit
                /\ Handle("size", "ready")
                /\ FreeSpaceMeasured
                /\ copied' = NewFile /\ refused' = TRUE
                /\ UNCHANGED <<vars, hblock, kept, info, file, block0, mixed, bootVars>>

InfoLength == /\ InfoSize <= InfoLimit
              /\ Handle("size", "tables")
              /\ FreeSpaceMeasured
              /\ copied' = Written /\ refused' = FALSE
              /\ \E order \in SetToSeqs(DOMAIN Message(Written).keyBlockMap) :
                   info' = FileInfoSerialize(Message(Written), order)
              /\ file' = WithSize(file, InfoSize)
              /\ UNCHANGED <<vars, hblock, kept, block0, mixed, bootVars>>

InfoTables == /\ Handle("tables", "ready")
              /\ file' = WithTables(file, info)
              /\ block0' = copied
              /\ copied' = NewFile /\ info' = <<>>
              /\ UNCHANGED <<vars, freeSpace, hblock, kept, refused, mixed, bootVars>>

-----------------------------------------------------------------------------
(* The end of main, crashes, and the next start.                           *)

\* main on an existing file: everything is new but what readFromBlock0 reads.
Boot(tables) ==
  /\ restarts' = restarts + 1
  /\ write' = Empty /\ wrLock' = None
  /\ currentReadBlock' = NoBlock
  /\ blockUsageTable' = tables.blockUsageTable
  /\ keyBlockMap' = tables.keyBlockMap /\ freeSpace' = tables.freeSpace
  /\ queue' = [t \in DOMAIN queue |-> <<>>]
  /\ io' = [t \in Threads |-> Idle]
  /\ pc' = [w \in Workers |-> "idle"]
  /\ key' = [w \in Workers |-> None]
  /\ block' = [w \in Workers |-> NoBlock]
  /\ handler' = "none" /\ hblock' = NoBlock /\ copied' = NewFile /\ info' = <<>>
  /\ kept' = {} /\ refused' = FALSE
  /\ damaged' = (damaged \/ (handler = "tables" /\ tables # block0))
  /\ UNCHANGED <<disk, file, block0, mixed>>

\* main returns: the destructors of the caches free their nodes, then those of
\* the pools wait for their threads.
Destroy == /\ Handle("ready", "destroyed")
           /\ write' = Empty
           /\ UNCHANGED <<wrLock, currentReadBlock, fileVars, ioVars, workerVars,
                          freeSpace, hblock, kept, zeroVars, bootVars>>

Restart == /\ handler = "destroyed" /\ Quiet /\ restarts < MaxRestarts
           /\ \E tables \in {Opened(file)} : Boot(tables)

Crash == /\ restarts < MaxRestarts
         /\ \E tables \in {Opened(file)} : Boot(tables)

ServerNext ==
  \/ Serve
  \/ Interrupt \/ InterruptAgain \/ HandlerFind \/ HandlerMark
  \/ HandlerMap \/ HandlerWrite \/ HandlerEmpty
  \/ InfoUsed \/ InfoIndex \/ InfoKeys
  \/ InfoTooLarge \/ InfoLength \/ InfoTables
  \/ Destroy \/ Restart \/ Crash

ServerSpec == ServerInit /\ [][ServerNext]_allVars

-----------------------------------------------------------------------------
(* Properties.                                                             *)

HandlerPlace == {"none", "find", "mark", "map", "serialize", "empty", "info",
                 "index", "keys", "size", "tables", "ready", "destroyed"}

\* Every variable has its type; the free space of block 0, which is counted down and
\* measured, has not wrapped, in memory nor in the tables that are copied and written.
SpaceOK(free) == free \in [FileBlocks -> Int] /\ free[0] \in 0..BlockSize
TablesOK(tables) == /\ 0 \in tables.blockUsageTable
                    /\ tables.blockUsageTable \subseteq FileBlocks
                    /\ tables.keyBlockMap \in [Keys -> Blocks \cup {NoBlock}]
                    /\ SpaceOK(tables.freeSpace)
ServerTypeOK ==
  /\ TypeOK
  /\ handler \in HandlerPlace /\ hblock \in Blocks \cup {NoBlock}
  /\ SpaceOK(freeSpace) /\ TablesOK(copied) /\ TablesOK(block0)
  /\ file.size \in Nat /\ \A i \in DOMAIN file.bytes : file.bytes[i].at \in Nat
  /\ kept \subseteq Keys /\ {refused, damaged, mixed} \subseteq BOOLEAN
  /\ restarts \in 0..MaxRestarts

\* The value of a key in the tables and the blocks.
InFile(tables, k) == IF tables.keyBlockMap[k] = NoBlock THEN Absent
                     ELSE disk[tables.keyBlockMap[k]][k]

\* When a handler has written block 0, what is read from there is what it wrote,
\* whatever was there before; and between its two writes, every key is read with
\* the block it had, or with none.
ReadsBack ==
  /\ ~damaged /\ handler = "ready" => Opened(file) = block0
  /\ ~damaged /\ handler = "tables" =>
       \A tables \in {Opened(file)}, k \in Keys :
         tables.keyBlockMap[k] \in {NoBlock, block0.keyBlockMap[k]}

\* No key is mapped to a block that getFreeBlock may give out again, whenever SIGINT
\* comes, as long as no block is marked while a handler copies the tables: one that
\* is marked, filled and mapped in between is saved as mapped and free.
MappedBlocksUsed ==
  ~damaged /\ ~mixed =>
    \A k \in Keys : keyBlockMap[k] # NoBlock => keyBlockMap[k] \in blockUsageTable

\* And whatever a start would read of block 0, also between its two writes, has a
\* key on the block it has in memory, or on none.
FileMapsAlike ==
  ~damaged => \A tables \in {Opened(file)}, k \in Keys :
                tables.keyBlockMap[k] \in {NoBlock, keyBlockMap[k]}

\* Every key that block 0 maps is on its block, after any crashes and restarts as
\* long as none damages block 0.
PersistedOnDisk ==
  ~damaged => \A k \in Keys : block0.keyBlockMap[k] # NoBlock => InFile(block0, k) # Absent

\* What a shutdown has saved stays saved, with its value: no later run, crashed,
\* interrupted twice or not, touches it, as long as none crashes in the middle of
\* writing block 0.
SavedForGood ==
  [][\A k \in Keys : ~damaged /\ InFile(block0, k) # Absent
       => InFile(block0, k)' = InFile(block0, k)]_allVars

\* "Write the data of the cache to the file when the program ends": every key the
\* store held when SIGINT came is on its block when main destroys the caches, and
\* none came after, unless there was no block left or the tables were too large.
SavedAtExit ==
  [][Destroy => \/ damaged \/ hblock = NoBlock \/ refused
                \/ /\ Nodes(write) = {}
                   /\ \A k \in kept : InFile(block0, k) # Absent]_allVars
=============================================================================
