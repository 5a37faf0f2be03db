----------------------------- MODULE BlockZero ------------------------------
(***************************************************************************)
(* Block 0 of the file (writeToBlock0 and readFromBlock0 of                *)
(* include/fileInfo.hpp): the tables as a proto::FileInfo, its length in   *)
(* front, written in two parts over what is there.                         *)
(*                                                                         *)
(* What is in the file is [size, bytes]: the length that was written, and  *)
(* the fields that are whole in the bytes behind it, each with its place;  *)
(* the rest of an older, longer image stays behind a new one.  Bytes that  *)
(* begin in the middle of a field, and zeros, are taken not to parse.      *)
(***************************************************************************)
EXTENDS Storage, InfoMessages

CONSTANTS
  BlockSize,   \* BLOCK_SIZE
  InfoLimit    \* BLOCK_SIZE - sizeof(size_t), made small enough to be passed

ASSUME BlockZeroAssumption ==
  /\ BlockSize \in Nat /\ InfoLimit \in Nat
  /\ IsFiniteSet(Keys)   \* a key is an int

FileBlocks == 0..LastBlock

\* A FileInfo object, and one that is new.
FileInfo(used, map, free) ==
  [blockUsageTable |-> used, keyBlockMap |-> map, freeSpace |-> free]
NewFile == FileInfo({0}, [k \in Keys |-> NoBlock], [b \in FileBlocks |-> BlockSize])

\* The file is "dumpFile", and asctime makes 25 characters.
superBlock == [fileName |-> 8, fileSize |-> BlockSize * (LastBlock + 1),
               blockSize |-> BlockSize, blockNum |-> LastBlock + 1, createTime |-> 25]

Message(tables) ==
  LET map == tables.keyBlockMap IN
  [superBlock |-> <<superBlock>>,
   blockIndexTables |-> [i \in 1..(LastBlock + 1) |->
     [blockNumber |-> i - 1, offset |-> (i - 1) * BlockSize,
      freeSpace |-> tables.freeSpace[i - 1]]],
   keyBlockMap |-> [k \in {k \in Keys : map[k] # NoBlock} |-> map[k]],
   blockUsageTable |-> [i \in 1..(LastBlock + 1) |->
     IF i - 1 \in tables.blockUsageTable THEN 1 ELSE 0]]

\* What block 0 has left is measured with what it had left before.
Measured(tables) ==
  [tables EXCEPT !.freeSpace[0] = BlockSize - FileInfoByteSizeLong(Message(tables))]

-----------------------------------------------------------------------------
\* The two writes, and what a message overwrites.  Mutant: it is written behind
\* the old one.
NewBlockZero == [size |-> 0, bytes |-> <<>>]
WithSize(file, size) == [file EXCEPT !.size = size]
PlacedBehind(file, fields) ==
  [i \in DOMAIN fields |-> [at |-> file.size + Bytes(SubSeq(fields, 1, i - 1)),
                            field |-> fields[i]]]
Placed(file, fields) ==
  [i \in DOMAIN fields |-> [at |-> Bytes(SubSeq(fields, 1, i - 1)),
                            field |-> fields[i]]]
WithTables(file, fields) ==
  [file EXCEPT !.bytes = Placed(file, fields)
                         \o JoinedOf(LAMBDA p : Unless(p.at < Bytes(fields), p), @)]

\* The fields up to the length, and whether they fill it.
Within(file) ==
  JoinedOf(LAMBDA p : Unless(p.at + p.field.bytes > file.size, p.field), file.bytes)
Readable(file) == file.size # 0 /\ Bytes(Within(file)) = file.size

\* What the message says of the tables; entries of other blocks have no place.
Tables(message) ==
  LET used == message.blockUsageTable
      index == message.blockIndexTables
      map == message.keyBlockMap
  IN FileInfo({b \in FileBlocks : IF b < Len(used) THEN used[b + 1] = 1
                                  ELSE b \in NewFile.blockUsageTable},
              [k \in Keys |-> IF k \in DOMAIN map THEN map[k] ELSE NoBlock],
              [b \in FileBlocks |-> IF b < Len(index) THEN index[b + 1].freeSpace
                                    ELSE NewFile.freeSpace[b]])

\* main on the file: a block 0 that cannot be read leaves the tables new.
Opened(file) ==
  IF Readable(file) THEN Tables(FileInfoParse(Within(file))) ELSE NewFile
=============================================================================
