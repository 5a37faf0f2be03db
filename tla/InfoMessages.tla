---------------------------- MODULE InfoMessages ----------------------------
(***************************************************************************)
(* The messages proto::SuperBlock, proto::BlockIndexTable and              *)
(* proto::FileInfo (proto/info.pb.cc): what a new one holds, its fields on *)
(* the wire, the size it announces, and what is read back.  The program    *)
(* calls no other operation of theirs.                                     *)
(***************************************************************************)
EXTENDS Wire, FiniteSetsExt

CONSTANT KeyBytes  \* the bytes a key takes: the keys have no values here

ASSUME InfoAssumption == KeyBytes \in 1..10

-----------------------------------------------------------------------------
NewSuperBlock == [fileName |-> 0, fileSize |-> 0, blockSize |-> 0,
                  blockNum |-> 0, createTime |-> 0]

SuperBlockSerialize(s) ==
  Unless(s.fileName = 0, Text(1, s.fileName))
  \o Unless(s.fileSize = 0, Number(2, s.fileSize))
  \o Unless(s.blockSize = 0, Number(3, s.blockSize))
  \o Unless(s.blockNum = 0, Number(4, s.blockNum))
  \o Unless(s.createTime = 0, Text(5, s.createTime))

TextSize(len) == IF len = 0 THEN 0 ELSE 1 + Delimited(len)
NumberSize(n) == IF n = 0 THEN 0 ELSE 1 + Varint(n)

SuperBlockByteSizeLong(s) ==
  TextSize(s.fileName) + TextSize(s.createTime)
  + NumberSize(s.fileSize) + NumberSize(s.blockSize) + NumberSize(s.blockNum)

SuperBlockParse(fields) ==
  [fileName |-> LastInt(fields, 1, NewSuperBlock.fileName),
   fileSize |-> LastInt(fields, 2, NewSuperBlock.fileSize),
   blockSize |-> LastInt(fields, 3, NewSuperBlock.blockSize),
   blockNum |-> LastInt(fields, 4, NewSuperBlock.blockNum),
   createTime |-> LastInt(fields, 5, NewSuperBlock.createTime)]

-----------------------------------------------------------------------------
NewBlockIndexTable == [blockNumber |-> 0, offset |-> 0, freeSpace |-> 0]

BlockIndexTableSerialize(t) ==
  Unless(t.blockNumber = 0, Number(1, t.blockNumber))
  \o Unless(t.offset = 0, Number(2, t.offset))
  \o Unless(t.freeSpace = 0, Number(3, t.freeSpace))

BlockIndexTableByteSizeLong(t) ==
  NumberSize(t.blockNumber) + NumberSize(t.offset) + NumberSize(t.freeSpace)

BlockIndexTableParse(fields) ==
  [blockNumber |-> LastInt(fields, 1, NewBlockIndexTable.blockNumber),
   offset |-> LastInt(fields, 2, NewBlockIndexTable.offset),
   freeSpace |-> LastInt(fields, 3, NewBlockIndexTable.freeSpace)]

-----------------------------------------------------------------------------
\* The super block is a sequence of one, or of none.
NewFileInfo == [superBlock |-> <<>>, blockIndexTables |-> <<>>,
                keyBlockMap |-> <<>>, blockUsageTable |-> <<>>]

\* An entry of the map always has its key and its block.
EntrySerialize(key, block) ==
  <<Field(1, <<key>>, <<>>, KeyBytes), Number(2, block)>>
EntryByteSizeLong(block) == Delimited(1 + KeyBytes + 1 + Varint(block))

\* The entries come in the order of the hash table.
FileInfoSerialize(f, order) ==
  Each(LAMBDA s : Sub(1, SuperBlockSerialize(s)), f.superBlock)
  \o Each(LAMBDA t : Sub(2, BlockIndexTableSerialize(t)), f.blockIndexTables)
  \o Each(LAMBDA k : Sub(3, EntrySerialize(k, f.keyBlockMap[k])), order)
  \o Unless(f.blockUsageTable = <<>>,
            Packed(4, f.blockUsageTable, Len(f.blockUsageTable)))

\* Mutant: the super block is forgotten.
FileInfoByteSizeLongShort(f) ==
  Len(f.blockIndexTables)
  + SumOf(LAMBDA t : Delimited(BlockIndexTableByteSizeLong(t)), f.blockIndexTables)
  + SumOf(LAMBDA k : 1 + EntryByteSizeLong(f.keyBlockMap[k]),
          SetToSeq(DOMAIN f.keyBlockMap))
  + TextSize(Len(f.blockUsageTable))
FileInfoByteSizeLong(f) ==
  Len(f.blockIndexTables)
  + SumOf(LAMBDA t : Delimited(BlockIndexTableByteSizeLong(t)), f.blockIndexTables)
  + SumOf(LAMBDA k : 1 + EntryByteSizeLong(f.keyBlockMap[k]),
          SetToSeq(DOMAIN f.keyBlockMap))
  + TextSize(Len(f.blockUsageTable))
  + SumOf(LAMBDA s : 1 + Delimited(SuperBlockByteSizeLong(s)), f.superBlock)

\* A super block that comes again is merged, an entry of a key replaces the first.
FileInfoParse(fields) ==
  LET super == Subs(fields, 1)
      entries == Subs(fields, 3)
      KeyOf(i) == LastInt(entries[i], 1, 0)
  IN [superBlock |-> IF super = <<>> THEN NewFileInfo.superBlock
                     ELSE <<SuperBlockParse(JoinedOf(LAMBDA f : f, super))>>,
      blockIndexTables |-> NewFileInfo.blockIndexTables
                           \o Each(BlockIndexTableParse, Subs(fields, 2)),
      keyBlockMap |-> [k \in {KeyOf(i) : i \in DOMAIN entries} |->
        LET last == Max({i \in DOMAIN entries : KeyOf(i) = k})
        IN LastInt(entries[last], 2, 0)],
      blockUsageTable |-> NewFileInfo.blockUsageTable \o Ints(fields, 4)]
=============================================================================
