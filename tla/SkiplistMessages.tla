-------------------------- MODULE SkiplistMessages --------------------------
(***************************************************************************)
(* The messages proto::Node and proto::Skiplist (proto/sl.pb.cc): what a   *)
(* new one holds, its fields on the wire, the size it announces, and what  *)
(* is read back.  The program calls no other operation of theirs.          *)
(***************************************************************************)
EXTENDS Wire

\* The program sets every field of a new Node: key, value, one next per level.
NewNode == [key |-> 0, value |-> 0, next |-> <<>>]

\* The links of a node, packed.
NextBytes(node) == SumOf(Varint, node.next)

NodeSerialize(node) ==
  Unless(node.key = 0, Number(1, node.key))
  \o Unless(node.value = 0, Text(2, node.value))
  \o Unless(NextBytes(node) = 0, Packed(3, node.next, NextBytes(node)))

\* The size is computed, not measured.  Mutant: an empty value is counted.
NodeByteSizeLongEmpty(node) ==
  (IF NextBytes(node) = 0 THEN 0 ELSE 1 + Delimited(NextBytes(node)))
  + (1 + Delimited(node.value))
  + (IF node.key = 0 THEN 0 ELSE 1 + Varint(node.key))
NodeByteSizeLong(node) ==
  (IF NextBytes(node) = 0 THEN 0 ELSE 1 + Delimited(NextBytes(node)))
  + (IF node.value = 0 THEN 0 ELSE 1 + Delimited(node.value))
  + (IF node.key = 0 THEN 0 ELSE 1 + Varint(node.key))

NodeParse(fields) ==
  [key |-> LastInt(fields, 1, NewNode.key),
   value |-> LastInt(fields, 2, NewNode.value),
   next |-> NewNode.next \o Ints(fields, 3)]

\* A Skiplist is the sequence of its nodes.
NewSkiplist == <<>>

SkiplistSerialize(nodes) ==
  Each(LAMBDA node : Sub(1, NodeSerialize(node)), nodes)

SkiplistByteSizeLong(nodes) ==
  Len(nodes) + SumOf(LAMBDA node : Delimited(NodeByteSizeLong(node)), nodes)

SkiplistParse(fields) == NewSkiplist \o Each(NodeParse, Subs(fields, 1))
=============================================================================
