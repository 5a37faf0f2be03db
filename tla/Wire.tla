-------------------------------- MODULE Wire --------------------------------
(***************************************************************************)
(* The protobuf wire format, as far as the messages of src/proto use it.   *)
(* The library is not part of the repository.  A message on the wire is a  *)
(* sequence of fields; a field has its number, the integers or the fields  *)
(* it carries, and its length in bytes.  A string is its length.           *)
(***************************************************************************)
EXTENDS Integers, SequencesExt

Each(Op(_), s) == [i \in DOMAIN s |-> Op(s[i])]
Added(s) ==
  LET sum[i \in 0..Len(s)] == IF i = 0 THEN 0 ELSE sum[i - 1] + s[i]
  IN sum[Len(s)]
FlatTo(s, n) ==
  LET join[i \in 0..n] == IF i = 0 THEN <<>> ELSE join[i - 1] \o s[i] IN join[n]
SumOf(Op(_), s) == Added(Each(Op, s))
JoinedOf(Op(_), s) == FlatTo(Each(Op, s), Len(s))

\* The length of a varint; negative numbers take ten bytes.
Varint(n) ==
  IF n < 0 THEN 10 ELSE IF n < 128 THEN 1 ELSE IF n < 16384 THEN 2
  ELSE IF n < 2097152 THEN 3 ELSE IF n < 268435456 THEN 4 ELSE 5

\* The length of what is preceded by its length.
Delimited(len) == Varint(len) + len

\* Writing a field: the tag takes one byte for numbers below 16.
Field(num, ints, subs, len) ==
  [num |-> num, ints |-> ints, subs |-> subs, bytes |-> 1 + len]
Bytes(fields) == SumOf(LAMBDA f : f.bytes, fields)

Number(num, n) == Field(num, <<n>>, <<>>, Varint(n))
Text(num, len) == Field(num, <<len>>, <<>>, Delimited(len))
Packed(num, ints, len) == Field(num, ints, <<>>, Delimited(len))
Sub(num, fields) == Field(num, <<>>, fields, Delimited(Bytes(fields)))

\* proto3 leaves out a field that has its default.
Unless(absent, field) == IF absent THEN <<>> ELSE <<field>>

\* Reading the fields of a number: all the integers, the last one, the messages.
Ints(fields, num) ==
  JoinedOf(LAMBDA f : IF f.num = num THEN f.ints ELSE <<>>, fields)
LastInt(fields, num, default) ==
  LET s == Ints(fields, num) IN IF s = <<>> THEN default ELSE Last(s)
Subs(fields, num) ==
  JoinedOf(LAMBDA f : Unless(f.num # num, f.subs), fields)
=============================================================================
