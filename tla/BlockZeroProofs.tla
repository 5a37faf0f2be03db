-------------------------- MODULE BlockZeroProofs --------------------------
(***************************************************************************)
(* What is written to block 0 and read back: the tables as a               *)
(* proto::FileInfo, for any keys, blocks and free space, whatever the      *)
(* order of the entries and whatever older image lies underneath; how      *)
(* large the image can be; and what a start can read at all, from any mix  *)
(* of two images.                                                          *)
(***************************************************************************)
EXTENDS BlockZero, WireProofs, FiniteSetTheorems

EntryFields == Fields(Int \cup Keys, {<<>>})
InfoFields == Fields(Int \cup Keys, Seq(EntryFields))

LEMMA KeyBytesNat == KeyBytes \in Nat /\ KeyBytes # 0
  BY InfoAssumption

-----------------------------------------------------------------------------
(* Fields that are left out when they have their default.                  *)

\* What a field of an inner message adds to its bytes and can be read from it.
Adds(field, num, ints, bytes) ==
  /\ field \in Seq(EntryFields) /\ Bytes(field) = bytes
  /\ \A n : Ints(field, n) = IF n = num THEN ints ELSE <<>>

LEMMA AddsNothing ==
  ASSUME NEW num
  PROVE  Adds(<<>>, num, <<>>, 0)
<1>1. <<>> \in Seq(EntryFields)
  OBVIOUS
<1>. QED
  BY <1>1, IntsEmpty, BytesEmpty DEF Adds

LEMMA AddsField ==
  ASSUME NEW num \in Nat, NEW ints \in Seq(Int \cup Keys), NEW len \in Nat
  PROVE  Adds(<<Field(num, ints, <<>>, len)>>, num, ints, 1 + len)
<1>. DEFINE f == Field(num, ints, <<>>, len)
<1>1. f \in EntryFields /\ f.num = num /\ f.ints = ints /\ f.bytes = 1 + len
  BY DEF EntryFields, Fields, Field
<1>. HIDE DEF f
<1>2. <<f>> \in Seq(EntryFields) /\ Bytes(<<f>>) = f.bytes
  BY <1>1, BytesOne DEF EntryFields
<1>3. \A n : Ints(<<f>>, n) = IF f.num = n THEN f.ints ELSE <<>>
  BY <1>1, IntsOne DEF EntryFields
<1>. QED
  BY <1>1, <1>2, <1>3 DEF Adds, f

LEMMA AddsNumber ==
  ASSUME NEW num \in Nat, NEW n \in Int
  PROVE  Adds(Unless(n = 0, Number(num, n)), num,
              IF n = 0 THEN <<>> ELSE <<n>>, NumberSize(n))
<1>1. CASE n = 0
  BY <1>1, AddsNothing DEF Unless, NumberSize
<1>2. CASE n # 0
  <2>. DEFINE ints == <<n>>
              len == Varint(n)
  <2>1. ints \in Seq(Int \cup Keys) /\ len \in Nat
    BY VarintType
  <2>. HIDE DEF ints, len
  <2>2. Adds(<<Field(num, ints, <<>>, len)>>, num, ints, 1 + len)
    BY <2>1, AddsField
  <2>. QED
    BY <1>2, <2>2 DEF Unless, Number, NumberSize, ints, len
<1>. QED
  BY <1>1, <1>2

LEMMA AddsText ==
  ASSUME NEW num \in Nat, NEW n \in Nat
  PROVE  Adds(Unless(n = 0, Text(num, n)), num,
              IF n = 0 THEN <<>> ELSE <<n>>, TextSize(n))
<1>1. CASE n = 0
  BY <1>1, AddsNothing DEF Unless, TextSize
<1>2. CASE n # 0
  <2>. DEFINE ints == <<n>>
              len == Delimited(n)
  <2>1. ints \in Seq(Int \cup Keys) /\ len \in Nat
    BY DelimitedType
  <2>. HIDE DEF ints, len
  <2>2. Adds(<<Field(num, ints, <<>>, len)>>, num, ints, 1 + len)
    BY <2>1, AddsField
  <2>. QED
    BY <1>2, <2>2 DEF Unless, Text, TextSize, ints, len
<1>. QED
  BY <1>1, <1>2

\* Two parts one after the other.
LEMMA EntryConcat ==
  ASSUME NEW s \in Seq(EntryFields), NEW t \in Seq(EntryFields)
  PROVE  /\ s \o t \in Seq(EntryFields) /\ Bytes(s \o t) = Bytes(s) + Bytes(t)
         /\ Bytes(s) \in Nat /\ Bytes(t) \in Nat
         /\ \A n : Ints(s \o t, n) = Ints(s, n) \o Ints(t, n)
  BY Concat, BytesConcat, BytesNat, IntsConcat DEF EntryFields

-----------------------------------------------------------------------------
(* The inner messages: the size that is announced is the length of what is *)
(* written, and what is used later is read back.                           *)

SuperBlocks == [fileName : Nat, fileSize : Int, blockSize : Int, blockNum : Int, createTime : Nat]
BlockIndexTables == [blockNumber : Int, offset : Int, freeSpace : Int]

LEMMA SuperBlockSize ==
  ASSUME NEW s \in SuperBlocks
  PROVE  /\ SuperBlockSerialize(s) \in Seq(EntryFields)
         /\ SuperBlockByteSizeLong(s) = Bytes(SuperBlockSerialize(s))
         /\ SuperBlockByteSizeLong(s) \in Nat
<1>. DEFINE a == Unless(s.fileName = 0, Text(1, s.fileName))
            b == Unless(s.fileSize = 0, Number(2, s.fileSize))
            c == Unless(s.blockSize = 0, Number(3, s.blockSize))
            d == Unless(s.blockNum = 0, Number(4, s.blockNum))
            e == Unless(s.createTime = 0, Text(5, s.createTime))
            ab == a \o b
            abc == ab \o c
            abcd == abc \o d
            abcde == abcd \o e
            la == TextSize(s.fileName)
            lb == NumberSize(s.fileSize)
            lc == NumberSize(s.blockSize)
            ld == NumberSize(s.blockNum)
            le == TextSize(s.createTime)
<1>1. /\ s.fileName \in Nat /\ s.fileSize \in Int /\ s.blockSize \in Int
      /\ s.blockNum \in Int /\ s.createTime \in Nat
  BY DEF SuperBlocks
<1>2. /\ a \in Seq(EntryFields) /\ Bytes(a) = la /\ b \in Seq(EntryFields) /\ Bytes(b) = lb
      /\ c \in Seq(EntryFields) /\ Bytes(c) = lc /\ d \in Seq(EntryFields) /\ Bytes(d) = ld
      /\ e \in Seq(EntryFields) /\ Bytes(e) = le
  BY <1>1, AddsNumber, AddsText DEF Adds
<1>3. SuperBlockSerialize(s) = abcde
  BY DEF SuperBlockSerialize
<1>4. SuperBlockByteSizeLong(s) = (((la + le) + lb) + lc) + ld
  BY DEF SuperBlockByteSizeLong
<1>. HIDE DEF a, b, c, d, e, la, lb, lc, ld, le
<1>5. ab \in Seq(EntryFields) /\ Bytes(ab) = la + lb /\ la \in Nat /\ lb \in Nat
  BY <1>2, EntryConcat
<1>. HIDE DEF ab
<1>6. abc \in Seq(EntryFields) /\ Bytes(abc) = (la + lb) + lc /\ lc \in Nat
  BY <1>2, <1>5, EntryConcat
<1>. HIDE DEF abc
<1>7. abcd \in Seq(EntryFields) /\ Bytes(abcd) = ((la + lb) + lc) + ld /\ ld \in Nat
  BY <1>2, <1>6, EntryConcat
<1>. HIDE DEF abcd
<1>8. abcde \in Seq(EntryFields) /\ Bytes(abcde) = (((la + lb) + lc) + ld) + le /\ le \in Nat
  BY <1>2, <1>7, EntryConcat
<1>. HIDE DEF abcde
<1>9. (((la + le) + lb) + lc) + ld = (((la + lb) + lc) + ld) + le
  BY <1>5, <1>6, <1>7, <1>8
<1>10. (((la + lb) + lc) + ld) + le \in Nat
  BY <1>5, <1>6, <1>7, <1>8
<1>. QED
  BY <1>3, <1>4, <1>8, <1>9, <1>10

LEMMA LastOne == \A x : <<x>> # <<>> /\ Last(<<x>>) = x
  BY DEF Last

LEMMA BlockIndexTableRoundTrip ==
  ASSUME NEW t \in BlockIndexTables
  PROVE  /\ BlockIndexTableSerialize(t) \in Seq(EntryFields)
         /\ BlockIndexTableByteSizeLong(t) = Bytes(BlockIndexTableSerialize(t))
         /\ BlockIndexTableByteSizeLong(t) \in Nat
         /\ BlockIndexTableParse(BlockIndexTableSerialize(t)).freeSpace = t.freeSpace
<1>. DEFINE a == Unless(t.blockNumber = 0, Number(1, t.blockNumber))
            b == Unless(t.offset = 0, Number(2, t.offset))
            c == Unless(t.freeSpace = 0, Number(3, t.freeSpace))
            ab == a \o b
            abc == ab \o c
            free == IF t.freeSpace = 0 THEN <<>> ELSE <<t.freeSpace>>
            la == NumberSize(t.blockNumber)
            lb == NumberSize(t.offset)
            lc == NumberSize(t.freeSpace)
<1>1. t.blockNumber \in Int /\ t.offset \in Int /\ t.freeSpace \in Int
  BY DEF BlockIndexTables
<1>2. /\ Adds(a, 1, IF t.blockNumber = 0 THEN <<>> ELSE <<t.blockNumber>>, la)
      /\ Adds(b, 2, IF t.offset = 0 THEN <<>> ELSE <<t.offset>>, lb)
      /\ Adds(c, 3, free, lc)
  BY <1>1, AddsNumber
<1>3. BlockIndexTableSerialize(t) = abc
  BY DEF BlockIndexTableSerialize
<1>4. BlockIndexTableByteSizeLong(t) = (la + lb) + lc
  BY DEF BlockIndexTableByteSizeLong
<1>5. free \in Seq(Int) /\ <<>> \in Seq(Int)
  BY <1>1
<1>6. (free = <<>> /\ t.freeSpace = 0) \/ free = <<t.freeSpace>>
  OBVIOUS
<1>. HIDE DEF a, b, c, la, lb, lc, free
<1>. DEFINE ia == Ints(a, 3)
            ib == Ints(b, 3)
            ic == Ints(c, 3)
<1>6a. /\ a \in Seq(EntryFields) /\ Bytes(a) = la /\ ia = <<>>
       /\ b \in Seq(EntryFields) /\ Bytes(b) = lb /\ ib = <<>>
       /\ c \in Seq(EntryFields) /\ Bytes(c) = lc /\ ic = free
  BY <1>2 DEF Adds
<1>7. /\ ab \in Seq(EntryFields) /\ Bytes(ab) = la + lb /\ la \in Nat /\ lb \in Nat
      /\ Ints(ab, 3) = ia \o ib
  BY <1>6a, EntryConcat
<1>. HIDE DEF ab
<1>. DEFINE iab == Ints(ab, 3)
<1>8a. iab = <<>> \o <<>>
  BY <1>6a, <1>7
<1>. HIDE DEF ia, ib, ic, iab
<1>8b. /\ abc \in Seq(EntryFields) /\ Bytes(abc) = (la + lb) + lc /\ lc \in Nat
       /\ Ints(abc, 3) = iab \o ic
  <2>1. /\ abc \in Seq(EntryFields) /\ Bytes(abc) = Bytes(ab) + Bytes(c)
        /\ Bytes(c) \in Nat
        /\ \A n : Ints(abc, n) = Ints(ab, n) \o Ints(c, n)
    BY <1>6a, <1>7, EntryConcat
  <2>. HIDE DEF abc
  <2>2. Ints(abc, 3) = Ints(ab, 3) \o Ints(c, 3)
    BY <2>1
  <2>. QED
    BY <1>6a, <1>7, <2>1, <2>2 DEF iab, ic
<1>8. Ints(abc, 3) = (<<>> \o <<>>) \o free
  BY <1>6a, <1>8a, <1>8b
<1>9. (<<>> \o <<>>) \o free = free
  BY <1>5, ConcatEmpty
<1>10. BlockIndexTableParse(abc).freeSpace = LastInt(abc, 3, 0)
  BY DEF BlockIndexTableParse, NewBlockIndexTable
<1>. HIDE DEF abc
<1>11. LastInt(abc, 3, 0) = t.freeSpace
  <2>1. CASE free = <<>> /\ t.freeSpace = 0
    BY <1>8, <1>9, <2>1 DEF LastInt
  <2>2. CASE free = <<t.freeSpace>>
    BY <1>8, <1>9, <2>2, LastOne DEF LastInt
  <2>. QED
    BY <1>6, <2>1, <2>2
<1>. QED
  BY <1>3, <1>4, <1>7, <1>8b, <1>10, <1>11

LEMMA EntryRoundTrip ==
  ASSUME NEW k \in Keys, NEW b \in Nat
  PROVE  /\ EntrySerialize(k, b) \in Seq(EntryFields)
         /\ EntryByteSizeLong(b) = Delimited(Bytes(EntrySerialize(k, b)))
         /\ EntryByteSizeLong(b) \in Nat
         /\ LastInt(EntrySerialize(k, b), 1, 0) = k
         /\ LastInt(EntrySerialize(k, b), 2, 0) = b
<1>. DEFINE ka == <<k>>
            bb == <<b>>
            x == <<Field(1, ka, <<>>, KeyBytes)>>
            y == <<Field(2, bb, <<>>, Varint(b))>>
            xy == x \o y
<1>1. ka \in Seq(Int \cup Keys) /\ bb \in Seq(Int \cup Keys) /\ Varint(b) \in Nat
  BY VarintType
<1>2. EntrySerialize(k, b) = xy
  BY DEF EntrySerialize, Number
<1>3. ka # <<>> /\ Last(ka) = k /\ bb # <<>> /\ Last(bb) = b
  BY LastOne
<1>. HIDE DEF ka, bb
<1>4. Adds(x, 1, ka, 1 + KeyBytes) /\ Adds(y, 2, bb, 1 + Varint(b))
  BY <1>1, AddsField, KeyBytesNat
<1>. HIDE DEF x, y
<1>5. /\ xy \in Seq(EntryFields) /\ Bytes(xy) = (1 + KeyBytes) + (1 + Varint(b))
      /\ Ints(xy, 1) = ka \o <<>> /\ Ints(xy, 2) = <<>> \o bb
  <2>1. /\ x \in Seq(EntryFields) /\ Bytes(x) = 1 + KeyBytes
        /\ y \in Seq(EntryFields) /\ Bytes(y) = 1 + Varint(b)
        /\ Ints(x, 1) = ka /\ Ints(x, 2) = <<>> /\ Ints(y, 1) = <<>> /\ Ints(y, 2) = bb
    BY <1>4 DEF Adds
  <2>2. /\ xy \in Seq(EntryFields) /\ Bytes(xy) = Bytes(x) + Bytes(y)
        /\ \A n : Ints(xy, n) = Ints(x, n) \o Ints(y, n)
    BY <2>1, EntryConcat
  <2>. HIDE DEF xy
  <2>3. Ints(xy, 1) = Ints(x, 1) \o Ints(y, 1) /\ Ints(xy, 2) = Ints(x, 2) \o Ints(y, 2)
    BY <2>2
  <2>. QED
    BY <2>1, <2>2, <2>3
<1>6. ka \o <<>> = ka /\ <<>> \o bb = bb
  BY <1>1, ConcatEmpty
<1>7. LastInt(xy, 1, 0) = k /\ LastInt(xy, 2, 0) = b
  BY <1>3, <1>5, <1>6 DEF LastInt
<1>8. Bytes(xy) = ((1 + KeyBytes) + 1) + Varint(b) /\ Bytes(xy) \in Nat
  BY <1>1, <1>5, KeyBytesNat
<1>9. EntryByteSizeLong(b) = Delimited(Bytes(xy)) /\ EntryByteSizeLong(b) \in Nat
  BY <1>8, DelimitedType DEF EntryByteSizeLong
<1>. QED
  BY <1>2, <1>5, <1>7, <1>9

-----------------------------------------------------------------------------
(* The order of the entries: whichever it is, each key comes once.         *)

LEMMA InjectionOrders ==
  ASSUME NEW D, IsFiniteSet(D), NEW n, n = Cardinality(D),
         NEW f \in [1..n -> D], \A i, j \in 1..n : f[i] = f[j] => i = j
  PROVE  n \in Nat /\ Orders(f, n, D)
<1>1. n \in Nat
  BY FS_CardinalityType
<1>2. IsFiniteSet(1..n) /\ Cardinality(1..n) = n
  BY <1>1, FS_Interval
<1>3. f \in Injection(1..n, D)
  BY DEF Injection, IsInjective
<1>4. f \in Surjection(1..n, D)
  BY <1>2, <1>3, FS_Injection
<1>. QED
  BY <1>1, <1>4 DEF Surjection, Orders

LEMMA SetOrders ==
  ASSUME NEW D, IsFiniteSet(D)
  PROVE  /\ Cardinality(D) \in Nat
         /\ Orders(SetToSeq(D), Cardinality(D), D)
         /\ \A order \in SetToSeqs(D) : Orders(order, Cardinality(D), D)
<1>. DEFINE n == Cardinality(D)
<1>1. n \in Nat /\ ExistsBijection(1..n, D)
  BY FS_CardinalityType
<1>2. \E f \in [1..n -> D] : IsInjective(f)
  BY <1>1 DEF ExistsBijection, Bijection, Injection
<1>3. SetToSeq(D) \in [1..n -> D] /\ IsInjective(SetToSeq(D))
  BY <1>2 DEF SetToSeq
<1>4. \A i, j \in 1..n : SetToSeq(D)[i] = SetToSeq(D)[j] => i = j
  BY <1>3 DEF IsInjective
<1>5. Orders(SetToSeq(D), n, D)
  BY <1>3, <1>4, InjectionOrders
<1>6. ASSUME NEW order \in SetToSeqs(D) PROVE Orders(order, n, D)
  <2>1. order \in [1..n -> D] /\ \A i, j \in 1..n : order[i] = order[j] => i = j
    BY DEF SetToSeqs
  <2>. QED
    BY <2>1, InjectionOrders
<1>. QED
  BY <1>1, <1>5, <1>6

LEMMA SetOrdered ==
  ASSUME NEW D, IsFiniteSet(D)
  PROVE  SetToSeqs(D) # {}
<1>. DEFINE n == Cardinality(D)
            f == SetToSeq(D)
<1>1. Orders(f, n, D)
  BY SetOrders
<1>2. f \in SetToSeqs(D)
  <2>. HIDE DEF f
  <2>. QED
    BY <1>1 DEF Orders, SetToSeqs
<1>. QED
  BY <1>2

-----------------------------------------------------------------------------
(* The parts of a FileInfo, and what each of them is read as.              *)

Gives(part, tables, entries, used, bytes) ==
  /\ part \in Seq(InfoFields) /\ Bytes(part) = bytes /\ bytes \in Nat
  /\ Subs(part, 2) = tables /\ Subs(part, 3) = entries /\ Ints(part, 4) = used
  /\ tables \in Seq(Seq(EntryFields)) /\ entries \in Seq(Seq(EntryFields))
  /\ used \in Seq(Int \cup Keys)

LEMMA GivesBoth ==
  ASSUME NEW s, NEW ts, NEW es, NEW us, NEW m, Gives(s, ts, es, us, m),
         NEW t, NEW tt, NEW et, NEW ut, NEW n, Gives(t, tt, et, ut, n)
  PROVE  Gives(s \o t, ts \o tt, es \o et, us \o ut, m + n)
<1>1. s \in Seq(InfoFields) /\ t \in Seq(InfoFields) /\ m \in Nat /\ n \in Nat
  BY DEF Gives
<1>2. s \o t \in Seq(InfoFields) /\ Bytes(s \o t) = m + n /\ m + n \in Nat
  BY <1>1, Concat, BytesConcat DEF InfoFields, Gives
<1>3. Subs(s \o t, 2) = ts \o tt /\ Subs(s \o t, 3) = es \o et
  <2>1. \A n1 : Subs(s \o t, n1) = Subs(s, n1) \o Subs(t, n1)
    BY <1>1, SubsConcat DEF InfoFields
  <2>. QED
    BY <2>1, Zenon DEF Gives
<1>4. Ints(s \o t, 4) = us \o ut
  <2>1. \A n1 : Ints(s \o t, n1) = Ints(s, n1) \o Ints(t, n1)
    BY <1>1, IntsConcat DEF InfoFields
  <2>. QED
    BY <2>1, Zenon DEF Gives
<1>5. /\ ts \o tt \in Seq(Seq(EntryFields)) /\ es \o et \in Seq(Seq(EntryFields))
      /\ us \o ut \in Seq(Int \cup Keys)
  BY Concat DEF Gives
<1>. QED
  BY <1>2, <1>3, <1>4, <1>5 DEF Gives

LEMMA SubType ==
  ASSUME NEW num \in Nat, NEW message \in Seq(EntryFields), NEW len \in Nat
  PROVE  [num |-> num, ints |-> <<>>, subs |-> message, bytes |-> len] \in InfoFields
<1>1. <<>> \in Seq(Int \cup Keys)
  OBVIOUS
<1>. QED
  BY <1>1 DEF InfoFields, Fields

\* Messages of one number.
Encloses(part, num, messages) == part = [i \in 1..Len(messages) |-> Sub(num, messages[i])]
SizesOf(messages) == [i \in 1..Len(messages) |-> Delimited(Bytes(messages[i]))]

\* What reading such fields gives: the messages back under their number, nothing under another.
PartRead(part, num, messages) ==
  /\ part \in Seq(InfoFields) /\ Len(part) = Len(messages)
  /\ Subs(part, num) = messages
  /\ \A n : n # num => Subs(part, n) = <<>> /\ Ints(part, n) = <<>>
  /\ SizesOf(messages) \in Seq(Nat)
  /\ Bytes(part) = Added(PlusOne(SizesOf(messages)))
  /\ \A i \in 1..Len(messages) : part[i].num = num /\ part[i].bytes # 0
                                   /\ part[i].subs = messages[i]

LEMMA SubParts ==
  ASSUME NEW num \in Nat, NEW messages \in Seq(Seq(EntryFields)),
         NEW part, Encloses(part, num, messages)
  PROVE  PartRead(part, num, messages)
<1>. DEFINE m == Len(messages)
            sizes == SizesOf(messages)
<1>1. m \in Nat /\ DOMAIN messages = 1..m /\ \A i \in 1..m : messages[i] \in Seq(EntryFields)
  BY SeqElements
<1>2. ASSUME NEW i \in 1..m
      PROVE  /\ part[i] \in InfoFields /\ part[i].num = num /\ part[i].subs = messages[i]
             /\ part[i].bytes = 1 + sizes[i] /\ sizes[i] \in Nat
  <2>1. Delimited(Bytes(messages[i])) \in Nat
    BY <1>1, BytesNat, DelimitedType DEF EntryFields
  <2>2. sizes[i] = Delimited(Bytes(messages[i]))
    BY DEF SizesOf
  <2>3. part[i] = Sub(num, messages[i])
    BY DEF Encloses
  <2>4. part[i] = [num |-> num, ints |-> <<>>, subs |-> messages[i], bytes |-> 1 + sizes[i]]
    BY <2>2, <2>3 DEF Sub, Field
  <2>. HIDE DEF m, sizes
  <2>5. messages[i] \in Seq(EntryFields) /\ sizes[i] \in Nat /\ 1 + sizes[i] \in Nat
        /\ <<>> \in Seq(Int \cup Keys)
    BY <1>1, <2>1, <2>2
  <2>6. part[i] \in InfoFields
    BY <2>4, <2>5, SubType
  <2>. QED
    BY <2>4, <2>5, <2>6
<1>3. part \in Seq(InfoFields) /\ Len(part) = m
  <2>1. part = [i \in 1..m |-> part[i]]
    BY DEF Encloses
  <2>. QED
    BY <1>1, <1>2, <2>1, FunctionIsSeq
<1>4. Subs(part, num) = messages
  <2>0. \A i \in 1..Len(part) : part[i].num = num
    BY <1>2, <1>3
  <2>1. Subs(part, num) = [i \in 1..Len(part) |-> part[i].subs]
    BY <1>3, <2>0, SubsAll DEF InfoFields
  <2>2. [i \in 1..m |-> part[i].subs] = [i \in 1..m |-> messages[i]]
    BY <1>2
  <2>3. messages = [i \in 1..m |-> messages[i]]
    BY <1>1
  <2>. QED
    BY <1>3, <2>1, <2>2, <2>3
<1>5. ASSUME NEW n, n # num PROVE Subs(part, n) = <<>> /\ Ints(part, n) = <<>>
  <2>1. \A i \in 1..Len(part) : part[i].num # n
    BY <1>2, <1>3, <1>5
  <2>. QED
    BY <1>3, <2>1, NothingToRead DEF InfoFields
<1>6. sizes \in Seq(Nat) /\ Len(sizes) = m
  <2>1. sizes = [i \in 1..m |-> sizes[i]]
    BY DEF SizesOf
  <2>. QED
    BY <1>1, <1>2, <2>1, FunctionIsSeq
<1>7. Bytes(part) = Added(PlusOne(sizes))
  <2>1. BytesOf(part) = PlusOne(sizes)
    <3>. HIDE DEF sizes
    <3>. QED
      BY <1>2, <1>3, <1>6 DEF BytesOf, PlusOne
  <2>. QED
    BY <1>3, <2>1, BytesIs DEF InfoFields
<1>8. ASSUME NEW i \in 1..m
      PROVE  part[i].num = num /\ part[i].bytes # 0 /\ part[i].subs = messages[i]
  <2>. HIDE DEF sizes
  <2>1. 1 + sizes[i] # 0
    BY <1>2
  <2>. QED
    BY <1>2, <2>1
<1>. QED
  BY <1>3, <1>4, <1>5, <1>6, <1>7, <1>8 DEF PartRead

-----------------------------------------------------------------------------
(* The four parts of the tables that are written.                          *)

TablesType == [blockUsageTable : {S \in SUBSET FileBlocks : 0 \in S},
               keyBlockMap : [Keys -> Blocks \cup {NoBlock}],
               freeSpace : [FileBlocks -> Int]]

Mapping(t) == {k \in Keys : t.keyBlockMap[k] # NoBlock}
Entry(t, k) == EntrySerialize(k, t.keyBlockMap[k])

LEMMA MapType ==
  ASSUME NEW t \in TablesType
  PROVE  /\ IsFiniteSet(Mapping(t)) /\ Mapping(t) \subseteq Keys
         /\ DOMAIN Message(t).keyBlockMap = Mapping(t)
         /\ \A k \in Mapping(t) : /\ Message(t).keyBlockMap[k] = t.keyBlockMap[k]
                                  /\ t.keyBlockMap[k] \in Blocks /\ t.keyBlockMap[k] \in Nat
<1>1. Message(t).keyBlockMap = [k \in Mapping(t) |-> t.keyBlockMap[k]]
  BY DEF Message, Mapping
<1>2. IsFiniteSet(Mapping(t)) /\ Mapping(t) \subseteq Keys
  BY BlockZeroAssumption, FS_Subset DEF Mapping
<1>3. \A k \in Mapping(t) : t.keyBlockMap[k] \in Blocks /\ t.keyBlockMap[k] \in Nat
  BY DEF Mapping, TablesType, Blocks
<1>. QED
  BY <1>1, <1>2, <1>3

\* The super block, which the tables do not use.
SuperPart == <<Sub(1, SuperBlockSerialize(superBlock))>>

LEMMA SuperPartGives ==
  /\ Gives(SuperPart, <<>>, <<>>, <<>>, 1 + Delimited(SuperBlockByteSizeLong(superBlock)))
  /\ \A i \in 1..Len(SuperPart) : SuperPart[i].num = 1 /\ SuperPart[i].bytes # 0
  /\ Len(SuperPart) = 1
<1>. DEFINE x == SuperBlockSerialize(superBlock)
            messages == <<x>>
            size == Delimited(SuperBlockByteSizeLong(superBlock))
<1>1. superBlock \in SuperBlocks
  <2>1. LastBlock + 1 \in Int /\ BlockSize \in Int
    BY StorageAssumption, BlockZeroAssumption
  <2>2. BlockSize * (LastBlock + 1) \in Int
    BY <2>1
  <2>. QED
    BY <2>1, <2>2 DEF superBlock, SuperBlocks
<1>2. /\ x \in Seq(EntryFields) /\ SuperBlockByteSizeLong(superBlock) = Bytes(x)
      /\ SuperBlockByteSizeLong(superBlock) \in Nat
  BY <1>1, SuperBlockSize
<1>. HIDE DEF x
<1>3. messages \in Seq(Seq(EntryFields)) /\ Len(messages) = 1 /\ messages[1] = x
  BY <1>2
<1>4. SizesOf(messages) = <<size>> /\ size \in Nat
  BY <1>2, <1>3, DelimitedType DEF SizesOf
<1>. HIDE DEF messages, size
<1>5. SuperPart = [i \in 1..1 |-> Sub(1, messages[i])]
  BY <1>3 DEF SuperPart, x
<1>6. Encloses(SuperPart, 1, messages)
  BY <1>3, <1>5 DEF Encloses
<1>7. PlusOne(<<size>>) = <<1 + size>>
  BY DEF PlusOne
<1>8. /\ SuperPart \in Seq(InfoFields) /\ Len(SuperPart) = Len(messages)
      /\ \A n : n # 1 => Subs(SuperPart, n) = <<>> /\ Ints(SuperPart, n) = <<>>
      /\ Bytes(SuperPart) = Added(PlusOne(SizesOf(messages)))
      /\ \A i \in 1..Len(messages) : SuperPart[i].num = 1 /\ SuperPart[i].bytes # 0
  <2>1. PartRead(SuperPart, 1, messages)
    BY <1>3, <1>6, SubParts
  <2>. QED
    BY <1>3, <2>1 DEF PartRead
<1>9. Bytes(SuperPart) = 1 + size /\ 1 + size \in Nat
  <2>1. 1 + size \in Nat
    BY <1>4
  <2>. QED
    BY <1>4, <1>7, <1>8, <2>1, AddedOne
<1>10. /\ Subs(SuperPart, 2) = <<>> /\ Subs(SuperPart, 3) = <<>> /\ Ints(SuperPart, 4) = <<>>
       /\ <<>> \in Seq(Seq(EntryFields)) /\ <<>> \in Seq(Int \cup Keys)
  BY <1>8
<1>11. Gives(SuperPart, <<>>, <<>>, <<>>, 1 + size)
  BY <1>8, <1>9, <1>10 DEF Gives
<1>. QED
  BY <1>3, <1>8, <1>11 DEF size

\* The free space of the blocks.
Index(t) == Message(t).blockIndexTables
IndexPart(t) == Each(LAMBDA x : Sub(2, BlockIndexTableSerialize(x)), Index(t))
IndexMessages(t) == [i \in 1..(LastBlock + 1) |-> BlockIndexTableSerialize(Index(t)[i])]
IndexSize(t) ==
  Len(Index(t)) + SumOf(LAMBDA x : Delimited(BlockIndexTableByteSizeLong(x)), Index(t))

LEMMA IndexPartGives ==
  ASSUME NEW t \in TablesType
  PROVE  /\ Gives(IndexPart(t), IndexMessages(t), <<>>, <<>>, IndexSize(t))
         /\ Len(IndexMessages(t)) = LastBlock + 1
         /\ \A b \in FileBlocks :
              BlockIndexTableParse(IndexMessages(t)[b + 1]).freeSpace = t.freeSpace[b]
         /\ Len(IndexPart(t)) = LastBlock + 1
         /\ \A i \in 1..Len(IndexPart(t)) : /\ IndexPart(t)[i].num = 2 /\ IndexPart(t)[i].bytes # 0
                                            /\ IndexPart(t)[i].subs = IndexMessages(t)[i]
<1>. DEFINE n == LastBlock + 1
            x == Index(t)
            part == IndexPart(t)
            messages == IndexMessages(t)
<1>1. n \in Nat
  BY StorageAssumption
<1>2. x = [i \in 1..n |-> [blockNumber |-> i - 1, offset |-> (i - 1) * BlockSize,
                           freeSpace |-> t.freeSpace[i - 1]]]
  BY DEF Index, Message
<1>3. DOMAIN x = 1..n /\ Len(x) = n
  BY <1>1, <1>2
<1>4. ASSUME NEW i \in 1..n PROVE x[i] \in BlockIndexTables /\ x[i].freeSpace = t.freeSpace[i - 1]
  <2>1. i - 1 \in FileBlocks /\ i - 1 \in Int /\ BlockSize \in Int
    BY <1>1, StorageAssumption, BlockZeroAssumption DEF FileBlocks
  <2>2. t.freeSpace[i - 1] \in Int
    BY <2>1 DEF TablesType
  <2>3. (i - 1) * BlockSize \in Int
    BY <2>1
  <2>. QED
    BY <1>2, <2>1, <2>2, <2>3 DEF BlockIndexTables
<1>. HIDE DEF x, n
<1>5. ASSUME NEW i \in 1..n
      PROVE  /\ messages[i] \in Seq(EntryFields)
             /\ BlockIndexTableByteSizeLong(x[i]) = Bytes(messages[i])
             /\ BlockIndexTableParse(messages[i]).freeSpace = t.freeSpace[i - 1]
  <2>1. messages[i] = BlockIndexTableSerialize(x[i])
    BY DEF IndexMessages, x, n
  <2>. QED
    BY <1>4, <2>1, BlockIndexTableRoundTrip
<1>6. messages = [i \in 1..n |-> messages[i]]
  BY DEF IndexMessages, n
<1>7. messages \in Seq(Seq(EntryFields)) /\ Len(messages) = n
  BY <1>1, <1>5, <1>6, FunctionIsSeq
<1>8. Encloses(part, 2, messages)
  <2>1. part = [i \in 1..n |-> Sub(2, BlockIndexTableSerialize(x[i]))]
    BY <1>3 DEF IndexPart, Each, x
  <2>2. \A i \in 1..n : messages[i] = BlockIndexTableSerialize(x[i])
    BY DEF IndexMessages, x, n
  <2>. QED
    BY <1>7, <2>1, <2>2 DEF Encloses
<1>. HIDE DEF messages, part
<1>9. /\ part \in Seq(InfoFields) /\ Len(part) = n
      /\ Subs(part, 2) = messages
      /\ \A m : m # 2 => Subs(part, m) = <<>> /\ Ints(part, m) = <<>>
      /\ SizesOf(messages) \in Seq(Nat)
      /\ Bytes(part) = Added(PlusOne(SizesOf(messages)))
      /\ \A i \in 1..n : part[i].num = 2 /\ part[i].bytes # 0 /\ part[i].subs = messages[i]
  <2>0. 2 \in Nat
    OBVIOUS
  <2>1. PartRead(part, 2, messages)
    BY <1>7, <1>8, <2>0, SubParts
  <2>. QED
    BY <1>7, <2>1, Zenon DEF PartRead
<1>10. IndexSize(t) = Bytes(part) /\ IndexSize(t) \in Nat
  <2>1. [i \in 1..n |-> Delimited(BlockIndexTableByteSizeLong(x[i]))] = SizesOf(messages)
    BY <1>5, <1>7 DEF SizesOf
  <2>2. IndexSize(t) = n + Added([i \in 1..n |-> Delimited(BlockIndexTableByteSizeLong(x[i]))])
    BY <1>3 DEF IndexSize, SumOf, Each, x
  <2>3. Len(SizesOf(messages)) = n
    BY <1>1, <1>7 DEF SizesOf
  <2>4. Added(PlusOne(SizesOf(messages))) = n + Added(SizesOf(messages))
        /\ Added(SizesOf(messages)) \in Nat
    BY <1>9, <2>3, AddedPlusOne, AddedNat
  <2>. DEFINE a == Added(SizesOf(messages))
              b == Added(PlusOne(SizesOf(messages)))
  <2>5. IndexSize(t) = n + a /\ Bytes(part) = b /\ b = n + a /\ a \in Nat
    BY <1>9, <2>1, <2>2, <2>4
  <2>. HIDE DEF a, b
  <2>. QED
    BY <1>1, <2>5
<1>11. /\ Subs(part, 3) = <<>> /\ Ints(part, 4) = <<>>
       /\ <<>> \in Seq(Seq(EntryFields)) /\ <<>> \in Seq(Int \cup Keys)
  BY <1>9
<1>12. Gives(part, messages, <<>>, <<>>, IndexSize(t))
  BY <1>7, <1>9, <1>10, <1>11 DEF Gives
<1>13. ASSUME NEW b \in FileBlocks
       PROVE  BlockIndexTableParse(messages[b + 1]).freeSpace = t.freeSpace[b]
  <2>1. b + 1 \in 1..n /\ (b + 1) - 1 = b
    BY StorageAssumption DEF FileBlocks, n
  <2>. QED
    BY <1>5, <2>1
<1>. QED
  BY <1>7, <1>9, <1>12, <1>13 DEF messages, part, n

\* The entries of the map, in any order.
EntriesPart(t, order) ==
  Each(LAMBDA k : Sub(3, EntrySerialize(k, Message(t).keyBlockMap[k])), order)
EntryMessages(t, order) == [i \in 1..Len(order) |-> Entry(t, order[i])]
EntriesSize(t) ==
  SumOf(LAMBDA k : 1 + EntryByteSizeLong(Message(t).keyBlockMap[k]),
        SetToSeq(DOMAIN Message(t).keyBlockMap))

LEMMA EntriesPartGives ==
  ASSUME NEW t \in TablesType, NEW order \in SetToSeqs(Mapping(t))
  PROVE  /\ Gives(EntriesPart(t, order), <<>>, EntryMessages(t, order), <<>>, EntriesSize(t))
         /\ Len(EntryMessages(t, order)) = Len(order)
         /\ Orders(order, Len(order), Mapping(t)) /\ Len(order) \in Nat
         /\ \A i \in 1..Len(EntriesPart(t, order)) :
              /\ EntriesPart(t, order)[i].num = 3 /\ EntriesPart(t, order)[i].bytes # 0
              /\ \E k \in Mapping(t) : EntriesPart(t, order)[i].subs = Entry(t, k)
<1>. DEFINE n == Cardinality(Mapping(t))
            part == EntriesPart(t, order)
            messages == EntryMessages(t, order)
            D == Mapping(t)
            any == SetToSeq(D)
            W == [k \in D |-> 1 + EntryByteSizeLong(t.keyBlockMap[k])]
            map == Message(t).keyBlockMap
<1>1. /\ IsFiniteSet(D) /\ D \subseteq Keys /\ DOMAIN map = D
      /\ \A k \in D : map[k] = t.keyBlockMap[k] /\ t.keyBlockMap[k] \in Nat
  BY MapType
<1>2. n \in Nat /\ Orders(order, n, D) /\ Orders(any, n, D)
  BY <1>1, SetOrders
<1>3. EntriesSize(t) = SumOf(LAMBDA k : 1 + EntryByteSizeLong(map[k]), any)
  BY <1>1 DEF EntriesSize
<1>4. part = Each(LAMBDA k : Sub(3, EntrySerialize(k, map[k])), order)
  BY DEF EntriesPart
<1>. HIDE DEF n, D, any, map
<1>5. /\ order \in [1..n -> D] /\ any \in [1..n -> D]
      /\ DOMAIN order = 1..n /\ DOMAIN any = 1..n /\ Len(order) = n
      /\ \A i \in 1..n : order[i] \in D /\ any[i] \in D
  BY <1>2 DEF Orders
<1>6. ASSUME NEW k \in D
      PROVE  /\ Entry(t, k) \in Seq(EntryFields)
             /\ EntryByteSizeLong(t.keyBlockMap[k]) = Delimited(Bytes(Entry(t, k)))
             /\ EntryByteSizeLong(t.keyBlockMap[k]) \in Nat
  BY <1>1, EntryRoundTrip DEF Entry
<1>7. messages = [i \in 1..n |-> Entry(t, order[i])]
  BY <1>5 DEF EntryMessages
<1>8. messages \in Seq(Seq(EntryFields)) /\ Len(messages) = n
  <2>. HIDE DEF messages
  <2>1. messages = [i \in 1..n |-> messages[i]] /\ \A i \in 1..n : messages[i] = Entry(t, order[i])
    BY <1>7
  <2>2. \A i \in 1..n : messages[i] \in Seq(EntryFields)
    BY <1>5, <1>6, <2>1
  <2>. QED
    BY <1>2, <2>1, <2>2, FunctionIsSeq
<1>9. Encloses(part, 3, messages)
  <2>1. part = [i \in 1..n |-> Sub(3, EntrySerialize(order[i], map[order[i]]))]
    BY <1>4, <1>5 DEF Each
  <2>2. \A i \in 1..n : messages[i] = EntrySerialize(order[i], map[order[i]])
    BY <1>1, <1>5, <1>7 DEF Entry
  <2>. HIDE DEF part, messages
  <2>. QED
    BY <1>8, <2>1, <2>2 DEF Encloses
<1>. HIDE DEF messages, part, W
<1>10. /\ part \in Seq(InfoFields) /\ Len(part) = n
       /\ Subs(part, 3) = messages
       /\ \A m : m # 3 => Subs(part, m) = <<>> /\ Ints(part, m) = <<>>
       /\ SizesOf(messages) \in Seq(Nat)
       /\ Bytes(part) = Added(PlusOne(SizesOf(messages)))
       /\ \A i \in 1..n : part[i].num = 3 /\ part[i].bytes # 0 /\ part[i].subs = messages[i]
  <2>0. 3 \in Nat
    OBVIOUS
  <2>1. PartRead(part, 3, messages)
    BY <1>8, <1>9, <2>0, SubParts
  <2>. QED
    BY <1>8, <2>1, Zenon DEF PartRead
<1>11. W \in [D -> Nat] /\ \A k \in D : W[k] = 1 + Delimited(Bytes(Entry(t, k)))
  BY <1>6 DEF W
<1>12. EntriesSize(t) = Bytes(part) /\ EntriesSize(t) \in Nat
  <2>1. EntriesSize(t) = Added(Weights(W, any, n))
    <3>1. EntriesSize(t) = Added([i \in 1..n |-> 1 + EntryByteSizeLong(map[any[i]])])
      BY <1>3, <1>5 DEF SumOf, Each
    <3>2. [i \in 1..n |-> 1 + EntryByteSizeLong(map[any[i]])] = [i \in 1..n |-> W[any[i]]]
      <4>1. \A i \in 1..n : 1 + EntryByteSizeLong(map[any[i]]) = W[any[i]]
        BY <1>1, <1>5 DEF W
      <4>. QED
        BY <4>1
    <3>. QED
      BY <3>1, <3>2 DEF Weights
  <2>2. PlusOne(SizesOf(messages)) = Weights(W, order, n)
    <3>1. \A i \in 1..n : messages[i] = Entry(t, order[i]) /\ order[i] \in D
      BY <1>5, <1>7
    <3>2. \A i \in 1..n : 1 + Delimited(Bytes(messages[i])) = W[order[i]]
      BY <1>11, <3>1
    <3>3. Len(SizesOf(messages)) = n /\ \A i \in 1..n : SizesOf(messages)[i] = Delimited(Bytes(messages[i]))
      BY <1>2, <1>8 DEF SizesOf
    <3>. QED
      BY <3>2, <3>3 DEF PlusOne, Weights
  <2>3. Added(Weights(W, order, n)) = Added(Weights(W, any, n))
    BY <1>2, <1>11, AddedReorder
  <2>4. Bytes(part) \in Nat
    BY <1>10, BytesNat DEF InfoFields
  <2>. QED
    BY <1>10, <2>1, <2>2, <2>3, <2>4
<1>13. /\ Subs(part, 2) = <<>> /\ Ints(part, 4) = <<>>
       /\ <<>> \in Seq(Seq(EntryFields)) /\ <<>> \in Seq(Int \cup Keys)
  BY <1>10
<1>14. Gives(part, <<>>, messages, <<>>, EntriesSize(t))
  BY <1>8, <1>10, <1>12, <1>13 DEF Gives
<1>15. ASSUME NEW i \in 1..n PROVE order[i] \in D /\ part[i].subs = Entry(t, order[i])
  BY <1>5, <1>7, <1>10
<1>. QED
  BY <1>2, <1>5, <1>8, <1>10, <1>14, <1>15 DEF messages, part, D

\* The blocks that are used.
Used(t) == Message(t).blockUsageTable
UsedPart(t) == Unless(Used(t) = <<>>, Packed(4, Used(t), Len(Used(t))))

LEMMA UsedPartGives ==
  ASSUME NEW t \in TablesType
  PROVE  /\ Gives(UsedPart(t), <<>>, <<>>, Used(t), TextSize(Len(Used(t))))
         /\ Used(t) \in Seq(Int) /\ Len(Used(t)) = LastBlock + 1
         /\ \A b \in FileBlocks : Used(t)[b + 1] = 1 <=> b \in t.blockUsageTable
         /\ \A i \in 1..Len(UsedPart(t)) : /\ UsedPart(t)[i].num = 4 /\ UsedPart(t)[i].bytes # 0
                                           /\ UsedPart(t)[i].ints = Used(t)
<1>. DEFINE n == LastBlock + 1
            u == Used(t)
            len == Delimited(n)
            f == Packed(4, u, n)
<1>1. n \in Nat /\ n # 0
  BY StorageAssumption
<1>2. u = [i \in 1..n |-> IF i - 1 \in t.blockUsageTable THEN 1 ELSE 0]
  BY DEF Used, Message
<1>3. u \in Seq(Int) /\ Len(u) = n /\ u \in Seq(Int \cup Keys) /\ u # <<>>
  BY <1>1, <1>2
<1>4. \A b \in FileBlocks : u[b + 1] = 1 <=> b \in t.blockUsageTable
  BY <1>2, StorageAssumption DEF FileBlocks
<1>5. TextSize(n) = 1 + len /\ len \in Nat /\ 1 + len \in Nat /\ 1 + len # 0
  <2>1. len \in Nat
    BY <1>1, DelimitedType
  <2>2. TextSize(n) = 1 + len
    BY <1>1 DEF TextSize
  <2>. HIDE DEF len
  <2>. QED
    BY <2>1, <2>2
<1>6. UsedPart(t) = <<f>> /\ f = [num |-> 4, ints |-> u, subs |-> <<>>, bytes |-> 1 + len]
  BY <1>3 DEF UsedPart, Unless, Packed, Field
<1>. HIDE DEF n, u, len, f
<1>7. f \in InfoFields /\ f.num = 4 /\ f.ints = u /\ f.bytes = 1 + len
  <2>1. <<>> \in Seq(EntryFields)
    OBVIOUS
  <2>. QED
    BY <1>3, <1>5, <1>6, <2>1 DEF InfoFields, Fields
<1>8. Bytes(<<f>>) = 1 + len /\ Ints(<<f>>, 4) = u
  BY <1>7, BytesOne, IntsOne DEF InfoFields
<1>9. <<f>> \in Seq(InfoFields) /\ Len(<<f>>) = 1 /\ <<f>>[1] = f
  BY <1>7
<1>10. \A m : m # 4 => Subs(<<f>>, m) = <<>>
  <2>. SUFFICES ASSUME NEW m, m # 4 PROVE Subs(<<f>>, m) = <<>>
    OBVIOUS
  <2>1. \A i \in 1..Len(<<f>>) : <<f>>[i].num # m
    BY <1>7, <1>9
  <2>. DEFINE s == <<f>>
  <2>2. s \in Seq(InfoFields) /\ \A i \in 1..Len(s) : s[i].num # m
    BY <1>9, <2>1
  <2>. HIDE DEF s
  <2>3. Subs(s, m) = <<>>
    BY <2>2, NothingToRead DEF InfoFields
  <2>. QED
    BY <2>3 DEF s
<1>11. /\ Subs(<<f>>, 2) = <<>> /\ Subs(<<f>>, 3) = <<>> /\ <<>> \in Seq(Seq(EntryFields))
  BY <1>10
<1>12. Gives(<<f>>, <<>>, <<>>, u, 1 + len)
  BY <1>3, <1>5, <1>8, <1>9, <1>11 DEF Gives
<1>13. \A i \in 1..Len(<<f>>) : <<f>>[i].num = 4 /\ <<f>>[i].bytes # 0 /\ <<f>>[i].ints = u
  BY <1>5, <1>7, <1>9
<1>. QED
  BY <1>3, <1>4, <1>5, <1>6, <1>12, <1>13 DEF u, n

-----------------------------------------------------------------------------
(* The message as a whole.                                                 *)

Entries(map) == {EntrySerialize(k, map[k]) : k \in {k \in Keys : map[k] # NoBlock}}

\* Every entry of the key map says what map does.
Agreeing(map) == {f \in InfoFields : f.bytes # 0 /\ (f.num = 3 => f.subs \in Entries(map))}

InfoGives(s, t, order) ==
  Gives(s, IndexMessages(t), EntryMessages(t, order), Used(t),
        FileInfoByteSizeLong(Message(t)))

\* The size that is announced, part by part.
SuperSize == 1 + Delimited(SuperBlockByteSizeLong(superBlock))
UsedSize(t) == TextSize(Len(Used(t)))

LEMMA SizeParts ==
  ASSUME NEW t \in TablesType
  PROVE  /\ FileInfoByteSizeLong(Message(t))
              = ((IndexSize(t) + EntriesSize(t)) + UsedSize(t)) + SuperSize
         /\ IndexSize(t) \in Nat /\ EntriesSize(t) \in Nat /\ UsedSize(t) \in Nat
         /\ SuperSize \in Nat
<1>. DEFINE la == SuperSize
            lb == IndexSize(t)
            lc == EntriesSize(t)
            ld == UsedSize(t)
<1>1. SetToSeqs(Mapping(t)) # {}
  BY MapType, SetOrdered
<1>2. la \in Nat /\ lb \in Nat /\ lc \in Nat /\ ld \in Nat
  BY <1>1, SuperPartGives, IndexPartGives, EntriesPartGives, UsedPartGives
     DEF Gives, SuperSize, UsedSize
<1>3. FileInfoByteSizeLong(Message(t)) = ((lb + lc) + ld) + la
  <2>1. SumOf(LAMBDA x : 1 + Delimited(SuperBlockByteSizeLong(x)), Message(t).superBlock) = la
    <3>1. Message(t).superBlock = <<superBlock>>
      BY DEF Message
    <3>2. SumOf(LAMBDA x : 1 + Delimited(SuperBlockByteSizeLong(x)), Message(t).superBlock) = Added(<<la>>)
      BY <3>1 DEF SumOf, Each, SuperSize
    <3>. HIDE DEF la
    <3>. QED
      BY <1>2, <3>2, AddedOne
  <2>. DEFINE super == SumOf(LAMBDA x : 1 + Delimited(SuperBlockByteSizeLong(x)), Message(t).superBlock)
              len == Len(Message(t).blockIndexTables)
              sum == SumOf(LAMBDA x : Delimited(BlockIndexTableByteSizeLong(x)),
                           Message(t).blockIndexTables)
  <2>2. lb = len + sum
    BY DEF IndexSize, Index
  <2>3. FileInfoByteSizeLong(Message(t)) = (((len + sum) + lc) + ld) + super
    BY DEF FileInfoByteSizeLong, EntriesSize, UsedSize, Used
  <2>. HIDE DEF super, len, sum, la, lb, lc, ld
  <2>. QED
    BY <2>1, <2>2, <2>3 DEF super
<1>. QED
  BY <1>2, <1>3

LEMMA PartsGive ==
  ASSUME NEW t \in TablesType, NEW order \in SetToSeqs(Mapping(t))
  PROVE  InfoGives(((SuperPart \o IndexPart(t)) \o EntriesPart(t, order)) \o UsedPart(t), t, order)
<1>. DEFINE a == SuperPart
            b == IndexPart(t)
            c == EntriesPart(t, order)
            d == UsedPart(t)
            la == 1 + Delimited(SuperBlockByteSizeLong(superBlock))
            lb == IndexSize(t)
            lc == EntriesSize(t)
            ld == TextSize(Len(Used(t)))
            ms == IndexMessages(t)
            es == EntryMessages(t, order)
            us == Used(t)
            e == <<>>
            s == ((a \o b) \o c) \o d
<1>1. Gives(a, e, e, e, la) /\ Gives(b, ms, e, e, lb) /\ Gives(c, e, es, e, lc)
      /\ Gives(d, e, e, us, ld)
  BY SuperPartGives, IndexPartGives, EntriesPartGives, UsedPartGives
<1>2. la \in Nat /\ lb \in Nat /\ lc \in Nat /\ ld \in Nat
  BY <1>1 DEF Gives
<1>3. FileInfoByteSizeLong(Message(t)) = ((lb + lc) + ld) + la
  BY SizeParts DEF SuperSize, UsedSize
<1>. HIDE DEF a, b, c, d, la, lb, lc, ld, ms, es, us, e
<1>4. Gives(a \o b, e \o ms, e \o e, e \o e, la + lb)
  BY <1>1, GivesBoth
<1>5. Gives((a \o b) \o c, (e \o ms) \o e, (e \o e) \o es, (e \o e) \o e, (la + lb) + lc)
  BY <1>1, <1>4, GivesBoth
<1>6. Gives(s, ((e \o ms) \o e) \o e, ((e \o e) \o es) \o e, ((e \o e) \o e) \o us,
            ((la + lb) + lc) + ld)
  BY <1>1, <1>5, GivesBoth
<1>7. ms \in Seq(Seq(EntryFields)) /\ es \in Seq(Seq(EntryFields)) /\ us \in Seq(Int \cup Keys)
  BY <1>1 DEF Gives
<1>8. e \o ms = ms /\ ms \o e = ms /\ e \o es = es /\ es \o e = es /\ e \o us = us /\ e \o e = e
  <2>1. <<>> \in Seq(Int)
    OBVIOUS
  <2>. QED
    BY <1>7, <2>1, ConcatEmpty DEF e
<1>9. ((la + lb) + lc) + ld = ((lb + lc) + ld) + la
  BY <1>2
<1>10. Gives(s, ms, es, us, ((lb + lc) + ld) + la)
  BY <1>6, <1>8, <1>9, Zenon
<1>11. InfoGives(s, t, order)
  BY <1>3, <1>10 DEF InfoGives, ms, es, us
<1>. QED
  BY <1>11 DEF a, b, c, d

\* The fields agree with the map.
LEMMA PartsAgree ==
  ASSUME NEW t \in TablesType, NEW order \in SetToSeqs(Mapping(t))
  PROVE  ((SuperPart \o IndexPart(t)) \o EntriesPart(t, order)) \o UsedPart(t)
         \in Seq(Agreeing(t.keyBlockMap)) \ {<<>>}
<1>. DEFINE A == Agreeing(t.keyBlockMap)
            a == SuperPart
            b == IndexPart(t)
            c == EntriesPart(t, order)
            d == UsedPart(t)
<1>1. a \in Seq(InfoFields) /\ b \in Seq(InfoFields) /\ c \in Seq(InfoFields)
      /\ d \in Seq(InfoFields) /\ Len(a) = 1
  BY SuperPartGives, IndexPartGives, EntriesPartGives, UsedPartGives DEF Gives
<1>2. \A i \in 1..Len(a) : a[i].num = 1 /\ a[i].bytes # 0
  BY SuperPartGives
<1>3. \A i \in 1..Len(b) : b[i].num = 2 /\ b[i].bytes # 0
  BY IndexPartGives
<1>4. \A i \in 1..Len(c) : c[i].num = 3 /\ c[i].bytes # 0 /\ c[i].subs \in Entries(t.keyBlockMap)
  <2>. TAKE i \in 1..Len(c)
  <2>1. c[i].num = 3 /\ c[i].bytes # 0 /\ \E k \in Mapping(t) : c[i].subs = Entry(t, k)
    BY EntriesPartGives
  <2>. HIDE DEF c
  <2>2. c[i].subs \in Entries(t.keyBlockMap)
    BY <2>1 DEF Entries, Mapping, Entry
  <2>. QED
    BY <2>1, <2>2
<1>5. \A i \in 1..Len(d) : d[i].num = 4 /\ d[i].bytes # 0
  BY UsedPartGives
<1>. HIDE DEF a, b, c, d, A
<1>6. ASSUME NEW f \in InfoFields, f.bytes # 0, f.num = 3 => f.subs \in Entries(t.keyBlockMap)
      PROVE  f \in A
  BY <1>6 DEF A, Agreeing
<1>7. a \in Seq(A) /\ b \in Seq(A) /\ c \in Seq(A) /\ d \in Seq(A)
  <2>0. \A x \in Seq(InfoFields) : \A i \in 1..Len(x) : x[i] \in InfoFields
    BY SeqElements
  <2>a. \A i \in 1..Len(a) : a[i] \in A
    BY <1>1, <1>2, <1>6, <2>0
  <2>b. \A i \in 1..Len(b) : b[i] \in A
    BY <1>1, <1>3, <1>6, <2>0
  <2>c. \A i \in 1..Len(c) : c[i] \in A
    BY <1>1, <1>4, <1>6, <2>0
  <2>d. \A i \in 1..Len(d) : d[i] \in A
    BY <1>1, <1>5, <1>6, <2>0
  <2>2. \A x \in Seq(InfoFields) : (\A i \in 1..Len(x) : x[i] \in A) => x \in Seq(A)
    OBVIOUS
  <2>. QED
    BY <1>1, <2>a, <2>b, <2>c, <2>d, <2>2
<1>8. a \o b \in Seq(A) /\ Len(a \o b) = 1 + Len(b) /\ Len(b) \in Nat
  <2>1. Len(b) \in Nat
    BY <1>7, LenNat
  <2>2. a \o b \in Seq(A) /\ Len(a \o b) = Len(a) + Len(b)
    BY <1>7, Concat
  <2>. QED
    BY <1>1, <2>1, <2>2
<1>9. (a \o b) \o c \in Seq(A) /\ Len((a \o b) \o c) = (1 + Len(b)) + Len(c) /\ Len(c) \in Nat
  BY <1>7, <1>8, Concat, LenNat
<1>10. ((a \o b) \o c) \o d \in Seq(A) /\ Len(((a \o b) \o c) \o d) = ((1 + Len(b)) + Len(c)) + Len(d)
       /\ Len(d) \in Nat
  BY <1>7, <1>9, Concat, LenNat
<1>11. ((1 + Len(b)) + Len(c)) + Len(d) # 0
  BY <1>8, <1>9, <1>10
<1>12. ((a \o b) \o c) \o d # <<>>
  <2>. DEFINE s == ((a \o b) \o c) \o d
  <2>1. Len(s) # 0
    BY <1>10, <1>11
  <2>2. Len(<<>>) = 0
    OBVIOUS
  <2>. HIDE DEF s
  <2>3. s # <<>>
    BY <2>1, <2>2
  <2>. QED
    BY <2>3 DEF s
<1>. QED
  BY <1>10, <1>12 DEF a, b, c, d, A

\* What is read back.
LEMMA PartsRead ==
  ASSUME NEW t \in TablesType, NEW order \in SetToSeqs(Mapping(t)),
         NEW s, InfoGives(s, t, order)
  PROVE  Tables(FileInfoParse(s)) = t
<1>. DEFINE D == Mapping(t)
            n == Len(order)
            es == EntryMessages(t, order)
            m == FileInfoParse(s)
            KeyOf(i) == LastInt(Subs(s, 3)[i], 1, 0)
<1>1. /\ Subs(s, 2) = IndexMessages(t) /\ Subs(s, 3) = es /\ Ints(s, 4) = Used(t)
      /\ IndexMessages(t) \in Seq(Seq(EntryFields)) /\ es \in Seq(Seq(EntryFields))
      /\ Used(t) \in Seq(Int \cup Keys)
  BY DEF InfoGives, Gives
<1>2. Len(es) = n /\ n \in Nat /\ Orders(order, n, D) /\ DOMAIN es = 1..n
  BY <1>1, EntriesPartGives, SeqElements
<1>3. ASSUME NEW i \in 1..n
      PROVE  /\ order[i] \in D /\ KeyOf(i) = order[i]
             /\ LastInt(Subs(s, 3)[i], 2, 0) = t.keyBlockMap[order[i]]
  <2>1. order[i] \in D /\ es[i] = EntrySerialize(order[i], t.keyBlockMap[order[i]])
    BY <1>2 DEF Orders, EntryMessages, Entry
  <2>2. order[i] \in Keys /\ t.keyBlockMap[order[i]] \in Nat
    BY <2>1, MapType
  <2>3. /\ LastInt(EntrySerialize(order[i], t.keyBlockMap[order[i]]), 1, 0) = order[i]
        /\ LastInt(EntrySerialize(order[i], t.keyBlockMap[order[i]]), 2, 0) = t.keyBlockMap[order[i]]
    BY <2>2, EntryRoundTrip
  <2>. QED
    BY <1>1, <2>1, <2>3
<1>4. m.keyBlockMap = [k \in {KeyOf(i) : i \in 1..n} |->
         LastInt(Subs(s, 3)[Max({i \in 1..n : KeyOf(i) = k})], 2, 0)]
  BY <1>1, <1>2 DEF FileInfoParse
<1>. HIDE DEF KeyOf, n, D, es
<1>5. {KeyOf(i) : i \in 1..n} = D
  BY <1>2, <1>3 DEF Orders
<1>6. ASSUME NEW k \in D
      PROVE  m.keyBlockMap[k] = t.keyBlockMap[k]
  <2>1. PICK i \in 1..n : order[i] = k
    BY <1>2 DEF Orders
  <2>2. {j \in 1..n : KeyOf(j) = k} = {i}
    BY <1>2, <1>3, <2>1 DEF Orders
  <2>3. Max({i}) = i
    BY DEF Max
  <2>. QED
    BY <1>3, <1>4, <1>5, <2>1, <2>2, <2>3
<1>7. DOMAIN m.keyBlockMap = D
  BY <1>4, <1>5
<1>8. m.blockUsageTable = Used(t)
  BY <1>1, ConcatEmpty DEF FileInfoParse, NewFileInfo
<1>9. /\ Len(m.blockIndexTables) = LastBlock + 1
      /\ \A b \in FileBlocks : m.blockIndexTables[b + 1].freeSpace = t.freeSpace[b]
  <2>. DEFINE x == IndexMessages(t)
              y == Each(BlockIndexTableParse, x)
  <2>1. m.blockIndexTables = <<>> \o y
    BY <1>1 DEF FileInfoParse, NewFileInfo
  <2>2. Len(x) = LastBlock + 1 /\ DOMAIN x = 1..Len(x) /\ LastBlock + 1 \in Nat
    BY <1>1, IndexPartGives, SeqElements, StorageAssumption
  <2>3. y = [i \in 1..(LastBlock + 1) |-> BlockIndexTableParse(x[i])]
    BY <2>2 DEF Each
  <2>4. \A b \in FileBlocks : BlockIndexTableParse(x[b + 1]).freeSpace = t.freeSpace[b]
    BY IndexPartGives
  <2>5. \A b \in FileBlocks : b + 1 \in 1..(LastBlock + 1)
    BY StorageAssumption DEF FileBlocks
  <2>6. y \in Seq({BlockIndexTableParse(x[i]) : i \in 1..(LastBlock + 1)}) /\ Len(y) = LastBlock + 1
    BY <2>2, <2>3
  <2>7. <<>> \o y = y
    BY <2>6, ConcatEmpty
  <2>. HIDE DEF x
  <2>8. \A b \in FileBlocks : y[b + 1] = BlockIndexTableParse(x[b + 1])
    BY <2>3, <2>5
  <2>. HIDE DEF y
  <2>. QED
    BY <2>1, <2>4, <2>6, <2>7, <2>8
<1>10. /\ Len(Used(t)) = LastBlock + 1
       /\ \A b \in FileBlocks : Used(t)[b + 1] = 1 <=> b \in t.blockUsageTable
  BY UsedPartGives
<1>11. \A b \in FileBlocks : b < LastBlock + 1
  BY StorageAssumption DEF FileBlocks
<1>12. Tables(m) =
         FileInfo({b \in FileBlocks : IF b < Len(m.blockUsageTable)
                                      THEN m.blockUsageTable[b + 1] = 1
                                      ELSE b \in NewFile.blockUsageTable},
                  [k \in Keys |-> IF k \in DOMAIN m.keyBlockMap THEN m.keyBlockMap[k] ELSE NoBlock],
                  [b \in FileBlocks |-> IF b < Len(m.blockIndexTables)
                                        THEN m.blockIndexTables[b + 1].freeSpace
                                        ELSE NewFile.freeSpace[b]])
  BY DEF Tables
<1>. HIDE DEF m
<1>13. {b \in FileBlocks : IF b < Len(m.blockUsageTable)
                           THEN m.blockUsageTable[b + 1] = 1
                           ELSE b \in NewFile.blockUsageTable} = t.blockUsageTable
  <2>1. t.blockUsageTable \subseteq FileBlocks
    BY DEF TablesType
  <2>. QED
    BY <1>8, <1>10, <1>11, <2>1
<1>14. [k \in Keys |-> IF k \in DOMAIN m.keyBlockMap THEN m.keyBlockMap[k] ELSE NoBlock]
       = t.keyBlockMap
  <2>1. t.keyBlockMap = [k \in Keys |-> t.keyBlockMap[k]]
    BY DEF TablesType
  <2>2. \A k \in Keys : (IF k \in DOMAIN m.keyBlockMap THEN m.keyBlockMap[k] ELSE NoBlock)
                         = t.keyBlockMap[k]
    BY <1>6, <1>7 DEF D, Mapping
  <2>. QED
    BY <2>1, <2>2
<1>15. [b \in FileBlocks |-> IF b < Len(m.blockIndexTables)
                             THEN m.blockIndexTables[b + 1].freeSpace
                             ELSE NewFile.freeSpace[b]] = t.freeSpace
  <2>1. t.freeSpace = [b \in FileBlocks |-> t.freeSpace[b]]
    BY DEF TablesType
  <2>2. \A b \in FileBlocks : (IF b < Len(m.blockIndexTables)
                               THEN m.blockIndexTables[b + 1].freeSpace
                               ELSE NewFile.freeSpace[b]) = t.freeSpace[b]
    BY <1>9, <1>11
  <2>. QED
    BY <2>1, <2>2
<1>16. t = FileInfo(t.blockUsageTable, t.keyBlockMap, t.freeSpace)
  BY DEF TablesType, FileInfo
<1>17. Tables(m) = t
  BY <1>12, <1>13, <1>14, <1>15, <1>16, Zenon
<1>. QED
  BY <1>17 DEF m

LEMMA SerializedParts ==
  ASSUME NEW t \in TablesType, NEW order
  PROVE  FileInfoSerialize(Message(t), order)
           = ((SuperPart \o IndexPart(t)) \o EntriesPart(t, order)) \o UsedPart(t)
<1>1. Each(LAMBDA x : Sub(1, SuperBlockSerialize(x)), Message(t).superBlock) = SuperPart
  <2>1. Message(t).superBlock = <<superBlock>>
    BY DEF Message
  <2>. QED
    BY <2>1 DEF Each, SuperPart
<1>. QED
  BY <1>1 DEF FileInfoSerialize, IndexPart, Index, EntriesPart, UsedPart, Used

\* Whatever the order of the entries, what is written of the tables has the size
\* that is announced, agrees with the key map and is read back as the tables.
THEOREM InfoRoundTrip ==
  ASSUME NEW t \in TablesType, NEW order \in SetToSeqs(DOMAIN Message(t).keyBlockMap)
  PROVE  LET s == FileInfoSerialize(Message(t), order) IN
         /\ s \in Seq(Agreeing(t.keyBlockMap)) \ {<<>>}
         /\ Tables(FileInfoParse(s)) = t
         /\ FileInfoByteSizeLong(Message(t)) = Bytes(s)
<1>. DEFINE s == FileInfoSerialize(Message(t), order)
            parts == ((SuperPart \o IndexPart(t)) \o EntriesPart(t, order)) \o UsedPart(t)
<1>1. order \in SetToSeqs(Mapping(t))
  BY MapType
<1>2. s = parts
  BY SerializedParts
<1>3. InfoGives(parts, t, order) /\ parts \in Seq(Agreeing(t.keyBlockMap)) \ {<<>>}
  BY <1>1, PartsGive, PartsAgree
<1>. HIDE DEF parts
<1>4. Tables(FileInfoParse(parts)) = t
  BY <1>1, <1>3, PartsRead
<1>5. FileInfoByteSizeLong(Message(t)) = Bytes(parts)
  BY <1>3 DEF InfoGives, Gives
<1>. QED
  BY <1>2, <1>3, <1>4, <1>5

-----------------------------------------------------------------------------
(* Writing over an older image, and reading.                               *)

Solid == {f \in InfoFields : f.bytes # 0}
Places(A) == [at : Nat, field : A]
WholeOf(bytes, size) ==
  [i \in 1..Len(bytes) |-> Unless(bytes[i].at + bytes[i].field.bytes > size, bytes[i].field)]
LeftOf(bytes, size) ==
  [i \in 1..Len(bytes) |-> Unless(bytes[i].at < size, bytes[i])]

LEMMA SolidParts ==
  ASSUME NEW A \in SUBSET Solid, NEW fields \in Seq(A)
  PROVE  /\ fields \in Seq(InfoFields) /\ Len(fields) \in Nat /\ DOMAIN fields = 1..Len(fields)
         /\ \A i \in 1..Len(fields) : /\ fields[i] \in A /\ fields[i] \in InfoFields
                                      /\ fields[i].bytes \in Nat \ {0}
<1>1. Len(fields) \in Nat /\ DOMAIN fields = 1..Len(fields)
      /\ \A i \in 1..Len(fields) : fields[i] \in A
  BY SeqElements
<1>2. \A f \in A : f \in InfoFields /\ f.bytes # 0
  BY DEF Solid
<1>3. \A f \in InfoFields : f.bytes \in Nat
  BY DEF InfoFields, Fields
<1>4. fields \in Seq(InfoFields)
  BY <1>1, <1>2
<1>. QED
  BY <1>1, <1>2, <1>3, <1>4

\* The bytes before a field, and with it.
LEMMA BytesBefore ==
  ASSUME NEW fields \in Seq(InfoFields), NEW i \in 1..Len(fields)
  PROVE  /\ Bytes(SubSeq(fields, 1, i - 1)) \in Nat
         /\ Bytes(SubSeq(fields, 1, i - 1)) + fields[i].bytes <= Bytes(fields)
<1>. DEFINE n == Len(fields)
            a == SubSeq(fields, 1, i - 1)
            b == <<fields[i]>>
            c == SubSeq(fields, i + 1, n)
            ab == a \o b
<1>1. n \in Nat /\ i \in Nat /\ i >= 1 /\ i <= n /\ fields[i] \in InfoFields
  BY SeqElements
<1>2. a \in Seq(InfoFields) /\ Len(a) = i - 1 /\ \A j \in 1..(i - 1) : a[j] = fields[j]
  BY <1>1
<1>3. b \in Seq(InfoFields) /\ Len(b) = 1 /\ b[1] = fields[i]
  BY <1>1
<1>4. c \in Seq(InfoFields) /\ Len(c) = n - i /\ \A j \in 1..(n - i) : c[j] = fields[i + j]
  BY <1>1
<1>. HIDE DEF a, b, c
<1>5. /\ ab \in Seq(InfoFields) /\ Len(ab) = i
      /\ \A j \in 1..(i - 1) : ab[j] = fields[j]
      /\ ab[i] = fields[i]
  <2>1. ab \in Seq(InfoFields) /\ Len(ab) = Len(a) + Len(b)
    BY <1>2, <1>3, Concat
  <2>2. \A m \in 1..Len(b) : ab[Len(a) + m] = b[m]
    BY <1>2, <1>3, Concat
  <2>. HIDE DEF ab
  <2>3. Len(a) + 1 = i /\ 1 \in 1..Len(b) /\ Len(a) + Len(b) = i
    BY <1>1, <1>2, <1>3
  <2>4. ab[Len(a) + 1] = b[1]
    BY <2>2, <2>3
  <2>5. \A j \in 1..Len(a) : ab[j] = a[j]
    BY <1>2, <1>3, Concat DEF ab
  <2>. QED
    BY <1>2, <1>3, <2>1, <2>3, <2>4, <2>5
<1>. HIDE DEF ab
<1>6. fields = ab \o c
  <2>1. Len(fields) = Len(ab) + Len(c)
    BY <1>1, <1>4, <1>5
  <2>2. \A j \in 1..Len(ab) : fields[j] = ab[j]
    BY <1>1, <1>5
  <2>3. \A j \in 1..Len(c) : fields[Len(ab) + j] = c[j]
    BY <1>4, <1>5
  <2>4. Joins(ab, c, fields)
    BY <2>1, <2>2, <2>3 DEF Joins
  <2>. QED
    BY <1>4, <1>5, <2>4, Joined
<1>7. Bytes(ab) = Bytes(a) + Bytes(b) /\ Bytes(a) \in Nat /\ Bytes(b) \in Nat
  BY <1>2, <1>3, BytesConcat, BytesNat DEF InfoFields, ab
<1>8. Bytes(ab \o c) = Bytes(ab) + Bytes(c) /\ Bytes(c) \in Nat /\ Bytes(ab) \in Nat
  BY <1>4, <1>5, BytesConcat, BytesNat DEF InfoFields
<1>9. Bytes(b) = fields[i].bytes
  BY <1>1, BytesOne DEF InfoFields, b
<1>. DEFINE x == Bytes(a)
            y == Bytes(b)
            z == Bytes(c)
            u == Bytes(fields)
<1>10. u = (x + y) + z /\ x \in Nat /\ y \in Nat /\ z \in Nat
  BY <1>6, <1>7, <1>8
<1>. HIDE DEF x, y, z, u
<1>11. x \in Nat /\ x + y <= u
  BY <1>10
<1>. QED
  BY <1>9, <1>11 DEF x, y, u, a

\* What is placed, and what is whole of it.
LEMMA PlacedWhole ==
  ASSUME NEW A \in SUBSET Solid, NEW fields \in Seq(A), NEW file
  PROVE  /\ Placed(file, fields) \in Seq(Places(A)) /\ Bytes(fields) \in Nat
         /\ WholeOf(Placed(file, fields), Bytes(fields)) = Singles(fields)
<1>. DEFINE n == Len(fields)
            q == Placed(file, fields)
            size == Bytes(fields)
<1>1. /\ fields \in Seq(InfoFields) /\ n \in Nat /\ DOMAIN fields = 1..n
      /\ \A i \in 1..n : /\ fields[i] \in A /\ fields[i] \in InfoFields
                          /\ fields[i].bytes \in Nat \ {0}
  BY SolidParts
<1>2. q = [i \in 1..n |-> [at |-> Bytes(SubSeq(fields, 1, i - 1)), field |-> fields[i]]]
  BY <1>1 DEF Placed
<1>3. size \in Nat
  BY <1>1, BytesNat DEF InfoFields
<1>. HIDE DEF q, size
<1>4. ASSUME NEW i \in 1..n
      PROVE  /\ q[i] \in Places(A) /\ q[i].field = fields[i]
             /\ ~(q[i].at + q[i].field.bytes > size)
  <2>. DEFINE x == Bytes(SubSeq(fields, 1, i - 1))
              y == fields[i].bytes
  <2>1. x \in Nat /\ x + y <= size
    BY <1>1, BytesBefore DEF size
  <2>2. q[i] = [at |-> x, field |-> fields[i]]
    BY <1>2
  <2>. HIDE DEF x
  <2>3. q[i].at = x /\ q[i].field = fields[i] /\ q[i] \in Places(A)
    BY <1>1, <2>1, <2>2 DEF Places
  <2>4. y \in Nat
    BY <1>1
  <2>. HIDE DEF y
  <2>5. ~(x + y > size)
    BY <1>3, <2>1, <2>4
  <2>. QED
    BY <2>3, <2>5 DEF y
<1>5. q = [i \in 1..n |-> q[i]]
  BY <1>2
<1>6. q \in Seq(Places(A)) /\ Len(q) = n
  BY <1>1, <1>4, <1>5, FunctionIsSeq
<1>7. WholeOf(q, size) = Singles(fields)
  BY <1>4, <1>6 DEF WholeOf, Singles, Unless
<1>. QED
  BY <1>3, <1>6, <1>7 DEF q, size

\* What is left of an older image lies behind the end of the new one.
LEMMA LeftBehind ==
  ASSUME NEW A \in SUBSET Solid, NEW bytes \in Seq(Places(A)), NEW size \in Nat
  PROVE  /\ Flat(LeftOf(bytes, size)) \in Seq({q \in Places(A) : ~(q.at < size)})
         /\ Flat(LeftOf(bytes, size)) \in Seq(Places(A))
<1>. DEFINE B == {q \in Places(A) : ~(q.at < size)}
            n == Len(bytes)
<1>1. n \in Nat /\ \A i \in 1..n : bytes[i] \in Places(A)
  BY SeqElements
<1>2. ASSUME NEW i \in 1..n PROVE Unless(bytes[i].at < size, bytes[i]) \in Seq(B)
  <2>1. CASE bytes[i].at < size
    BY <2>1 DEF Unless
  <2>2. CASE ~(bytes[i].at < size)
    <3>1. bytes[i] \in B
      BY <1>1, <2>2
    <3>. HIDE DEF B
    <3>2. <<bytes[i]>> \in Seq(B)
      BY <3>1
    <3>. QED
      BY <2>2, <3>2 DEF Unless
  <2>. QED
    BY <2>1, <2>2
<1>3. B \subseteq Places(A)
  OBVIOUS
<1>. HIDE DEF B
<1>4. LeftOf(bytes, size) \in Seq(Seq(B))
  BY <1>1, <1>2 DEF LeftOf
<1>5. Flat(LeftOf(bytes, size)) \in Seq(B)
  BY <1>4, FlatType
<1>6. Seq(B) \subseteq Seq(Places(A))
  BY <1>3
<1>. QED
  BY <1>5, <1>6 DEF B

LEMMA NothingWhole ==
  ASSUME NEW A \in SUBSET Solid, NEW size \in Nat,
         NEW bytes \in Seq({q \in Places(A) : ~(q.at < size)})
  PROVE  \A i \in 1..Len(bytes) : WholeOf(bytes, size)[i] = <<>>
<1>. TAKE i \in 1..Len(bytes)
<1>1. bytes[i] \in Places(A) /\ ~(bytes[i].at < size)
  BY SeqElements
<1>2. bytes[i].at \in Nat /\ bytes[i].field \in A
  BY <1>1 DEF Places
<1>3. bytes[i].field \in InfoFields /\ bytes[i].field.bytes # 0
  BY <1>2 DEF Solid
<1>4. bytes[i].field.bytes \in Nat
  BY <1>3 DEF InfoFields, Fields
<1>. DEFINE x == bytes[i].at
            y == bytes[i].field.bytes
<1>5. x \in Nat /\ y \in Nat /\ y # 0 /\ ~(x < size)
  BY <1>1, <1>2, <1>3, <1>4
<1>. HIDE DEF x, y
<1>6. x + y > size
  BY <1>5
<1>. QED
  BY <1>6 DEF WholeOf, Unless, x, y

LEMMA WholeType ==
  ASSUME NEW A \in SUBSET Solid, NEW bytes \in Seq(Places(A)), NEW size
  PROVE  /\ WholeOf(bytes, size) \in Seq(Seq(A))
         /\ Len(WholeOf(bytes, size)) = Len(bytes)
         /\ Flat(WholeOf(bytes, size)) \in Seq(A)
<1>1. Len(bytes) \in Nat /\ \A i \in 1..Len(bytes) : bytes[i] \in Places(A)
  BY SeqElements
<1>3. WholeOf(bytes, size) \in Seq(Seq(A)) /\ Len(WholeOf(bytes, size)) = Len(bytes)
  <2>1. \A i \in 1..Len(bytes) :
          Unless(bytes[i].at + bytes[i].field.bytes > size, bytes[i].field) \in Seq(A)
    BY <1>1 DEF Places, Unless
  <2>. QED
    BY <1>1, <2>1 DEF WholeOf
<1>. QED
  BY <1>3, FlatType

Image(tables, fields) ==
  \E order \in SetToSeqs(DOMAIN Message(tables).keyBlockMap) :
    fields = FileInfoSerialize(Message(tables), order)

\* A file of which the image, and what it covers, have their fields in a set, or
\* agree with a map.
HoldsIn(file, A) ==
  /\ file.size \in Nat /\ file.bytes \in Seq(Places(A))
  /\ file = [size |-> file.size, bytes |-> file.bytes]
Holds(file, map) == HoldsIn(file, Agreeing(map))

LEMMA AgreeingSolid == \A map : Agreeing(map) \in SUBSET Solid
  BY DEF Agreeing, Solid

LEMMA AgreeingParts ==
  ASSUME NEW map, NEW fields \in Seq(Agreeing(map))
  PROVE  /\ fields \in Seq(InfoFields) /\ Len(fields) \in Nat /\ DOMAIN fields = 1..Len(fields)
         /\ \A i \in 1..Len(fields) : /\ fields[i] \in Agreeing(map) /\ fields[i] \in InfoFields
                                      /\ fields[i].bytes \in Nat \ {0}
  BY AgreeingSolid, SolidParts

LEMMA WithinIs ==
  ASSUME NEW A \in SUBSET Solid, NEW file, HoldsIn(file, A)
  PROVE  /\ Within(file) = Flat(WholeOf(file.bytes, file.size))
         /\ Within(file) \in Seq(A)
<1>1. file.bytes \in Seq(Places(A))
  BY DEF HoldsIn
<1>2. DOMAIN file.bytes = 1..Len(file.bytes)
  BY <1>1, SeqElements
<1>3. Within(file) = Flat(WholeOf(file.bytes, file.size))
  <2>1. Within(file) = FlatTo(WholeOf(file.bytes, file.size), Len(file.bytes))
    BY <1>2 DEF Within, JoinedOf, Each, WholeOf
  <2>2. Len(WholeOf(file.bytes, file.size)) = Len(file.bytes)
    BY <1>1, WholeType
  <2>. QED
    BY <2>1, <2>2 DEF Flat
<1>. QED
  BY <1>1, <1>3, WholeType

LEMMA WithTablesIs ==
  ASSUME NEW A \in SUBSET Solid, NEW file, HoldsIn(file, A), NEW fields
  PROVE  WithTables(file, fields) =
           [size |-> file.size,
            bytes |-> Placed(file, fields) \o Flat(LeftOf(file.bytes, Bytes(fields)))]
<1>1. file.bytes \in Seq(Places(A)) /\ file = [size |-> file.size, bytes |-> file.bytes]
  BY DEF HoldsIn
<1>2. DOMAIN file.bytes = 1..Len(file.bytes)
  BY <1>1, SeqElements
<1>3. JoinedOf(LAMBDA p : Unless(p.at < Bytes(fields), p), file.bytes)
      = Flat(LeftOf(file.bytes, Bytes(fields)))
  <2>1. JoinedOf(LAMBDA p : Unless(p.at < Bytes(fields), p), file.bytes)
        = FlatTo(LeftOf(file.bytes, Bytes(fields)), Len(file.bytes))
    BY <1>2 DEF JoinedOf, Each, LeftOf
  <2>2. Len(file.bytes) \in Nat
    BY <1>1, LenNat
  <2>3. Len(LeftOf(file.bytes, Bytes(fields))) = Len(file.bytes)
    BY <2>2 DEF LeftOf
  <2>. QED
    BY <2>1, <2>3 DEF Flat
<1>. DEFINE all == Placed(file, fields) \o Flat(LeftOf(file.bytes, Bytes(fields)))
<1>4. WithTables(file, fields) = [file EXCEPT !.bytes = all]
  BY <1>3 DEF WithTables
<1>. HIDE DEF all
<1>5. [file EXCEPT !.bytes = all] = [size |-> file.size, bytes |-> all]
  BY <1>1
<1>. QED
  BY <1>4, <1>5 DEF all

\* The second write makes the fields whole again, and nothing else.
LEMMA WrittenWhole ==
  ASSUME NEW A \in SUBSET Solid, NEW file, HoldsIn(file, A),
         NEW fields \in Seq(A) \ {<<>>}, file.size = Bytes(fields)
  PROVE  /\ HoldsIn(WithTables(file, fields), A)
         /\ Within(WithTables(file, fields)) = fields
         /\ Readable(WithTables(file, fields))
<1>. DEFINE size == Bytes(fields)
            a == Placed(file, fields)
            b == Flat(LeftOf(file.bytes, size))
            all == a \o b
            new == WithTables(file, fields)
            wa == WholeOf(a, size)
            wb == WholeOf(b, size)
            w == WholeOf(all, size)
<1>1. fields \in Seq(A) /\ fields # <<>> /\ file.bytes \in Seq(Places(A))
  BY DEF HoldsIn
<1>2. a \in Seq(Places(A)) /\ size \in Nat /\ wa = Singles(fields)
  BY <1>1, PlacedWhole
<1>3. b \in Seq({q \in Places(A) : ~(q.at < size)}) /\ b \in Seq(Places(A))
  BY <1>1, <1>2, LeftBehind
<1>4. \A i \in 1..Len(b) : wb[i] = <<>>
  BY <1>2, <1>3, NothingWhole
<1>5. new = [size |-> size, bytes |-> all]
  BY WithTablesIs
<1>. HIDE DEF size, a, b, new
<1>6. /\ all \in Seq(Places(A)) /\ Len(all) = Len(a) + Len(b)
      /\ \A i \in 1..Len(a) : all[i] = a[i]
      /\ \A i \in 1..Len(b) : all[Len(a) + i] = b[i]
  BY <1>2, <1>3, Concat
<1>. HIDE DEF all
<1>7. HoldsIn(new, A)
  BY <1>2, <1>5, <1>6 DEF HoldsIn
<1>8. Len(a) \in Nat /\ Len(b) \in Nat
  BY <1>2, <1>3, LenNat
<1>9. /\ wa \in Seq(Seq(A)) /\ Len(wa) = Len(a)
      /\ wb \in Seq(Seq(A)) /\ Len(wb) = Len(b)
      /\ w \in Seq(Seq(A)) /\ Len(w) = Len(all)
  BY <1>2, <1>3, <1>6, WholeType
<1>10. Joins(wa, wb, w)
  <2>1. \A i \in 1..Len(a) : w[i] = wa[i]
    BY <1>6, <1>8 DEF WholeOf
  <2>2. \A i \in 1..Len(b) : w[Len(a) + i] = wb[i]
    <3>. TAKE i \in 1..Len(b)
    <3>1. Len(a) + i \in 1..Len(all)
      BY <1>6, <1>8
    <3>. QED
      BY <1>6, <3>1 DEF WholeOf
  <2>. HIDE DEF wa, wb, w
  <2>. QED
    BY <1>6, <1>9, <2>1, <2>2 DEF Joins
<1>. HIDE DEF wa, wb, w
<1>11. w = wa \o wb
  BY <1>9, <1>10, Joined
<1>12. Flat(w) = Flat(wa) \o Flat(wb)
  BY <1>9, <1>11, FlatConcat
<1>13. Flat(wa) = fields
  BY <1>1, <1>2, FlatSingles
<1>14. Flat(wb) = <<>>
  BY <1>4, <1>9, FlatNothing
<1>15. Flat(w) = fields
  BY <1>1, <1>12, <1>13, <1>14, ConcatEmpty
<1>16. Within(new) = fields
  <2>1. new.bytes = all /\ new.size = size
    BY <1>5
  <2>. QED
    BY <1>7, <1>15, <2>1, WithinIs DEF w
<1>17. size # 0
  <2>1. Len(fields) \in Nat /\ Len(fields) # 0
    BY <1>1
  <2>2. 1 \in 1..Len(fields)
    BY <2>1
  <2>3. fields \in Seq(InfoFields) /\ fields[1].bytes \in Nat \ {0}
    BY <1>1, <2>2, SolidParts
  <2>. DEFINE x == Bytes(SubSeq(fields, 1, 1 - 1))
              y == fields[1].bytes
  <2>4. x \in Nat /\ x + y <= size
    BY <2>2, <2>3, BytesBefore DEF size
  <2>5. y \in Nat \ {0}
    BY <2>3
  <2>. HIDE DEF x, y
  <2>. QED
    BY <1>2, <2>4, <2>5
<1>18. Readable(new)
  BY <1>5, <1>16, <1>17 DEF Readable, size
<1>. QED
  BY <1>7, <1>16, <1>18 DEF new

Extends(old, map) == \A k \in Keys : old[k] # NoBlock => map[k] = old[k]

LEMMA HoldsExtends ==
  ASSUME NEW old, NEW map, Extends(old, map), NEW file, Holds(file, old)
  PROVE  Holds(file, map)
<1>1. Entries(old) \subseteq Entries(map)
  <2>. SUFFICES ASSUME NEW k \in Keys, old[k] # NoBlock
                PROVE  EntrySerialize(k, old[k]) \in Entries(map)
    BY DEF Entries
  <2>1. map[k] = old[k]
    BY DEF Extends
  <2>2. EntrySerialize(k, map[k]) \in Entries(map)
    BY <2>1 DEF Entries
  <2>. QED
    BY <2>1, <2>2
<1>2. Agreeing(old) \subseteq Agreeing(map)
  BY <1>1 DEF Agreeing
<1>3. Places(Agreeing(old)) \subseteq Places(Agreeing(map))
  BY <1>2 DEF Places
<1>4. Seq(Places(Agreeing(old))) \subseteq Seq(Places(Agreeing(map)))
  BY <1>3
<1>. QED
  BY <1>4 DEF Holds, HoldsIn

LEMMA ImageAgrees ==
  ASSUME NEW t \in TablesType, NEW fields, Image(t, fields)
  PROVE  /\ fields \in Seq(Agreeing(t.keyBlockMap)) \ {<<>>}
         /\ Tables(FileInfoParse(fields)) = t
         /\ FileInfoByteSizeLong(Message(t)) = Bytes(fields)
<1>1. PICK order \in SetToSeqs(DOMAIN Message(t).keyBlockMap) :
             fields = FileInfoSerialize(Message(t), order)
  BY DEF Image
<1>. QED
  BY <1>1, InfoRoundTrip

\* The tables that are written over an older image are what is read back, when
\* they map every key of the older image to the same block.
THEOREM BlockZeroRoundTrip ==
  ASSUME NEW t \in TablesType, NEW old, Extends(old, t.keyBlockMap),
         NEW file, Holds(file, old), NEW fields, Image(t, fields), file.size = Bytes(fields)
  PROVE  /\ Holds(WithTables(file, fields), t.keyBlockMap)
         /\ Opened(WithTables(file, fields)) = t
<1>. DEFINE A == Agreeing(t.keyBlockMap)
<1>0. A \in SUBSET Solid
  BY AgreeingSolid
<1>1. HoldsIn(file, A)
  BY HoldsExtends DEF Holds
<1>2. fields \in Seq(Agreeing(t.keyBlockMap)) \ {<<>>} /\ Tables(FileInfoParse(fields)) = t
  BY ImageAgrees
<1>3. /\ HoldsIn(WithTables(file, fields), A)
      /\ Within(WithTables(file, fields)) = fields
      /\ Readable(WithTables(file, fields))
  <2>. HIDE DEF A
  <2>1. fields \in Seq(A) \ {<<>>}
    BY <1>2 DEF A
  <2>. QED
    BY <1>0, <1>1, <2>1, WrittenWhole
<1>. QED
  BY <1>2, <1>3 DEF Opened, Holds

\* Every set of natural numbers up to some number has a greatest element.
LEMMA GreatestOf ==
  ASSUME NEW n \in Nat, NEW S, S \subseteq 1..n, S # {}
  PROVE  Max(S) \in S
<1>. DEFINE T == {n - i : i \in S}
<1>1. T \subseteq Nat /\ T # {}
  <2>1. \A i \in S : n - i \in Nat
    OBVIOUS
  <2>2. T # {}
    OBVIOUS
  <2>. QED
    BY <2>1, <2>2
<1>2. PICK m \in T : \A j \in T : m <= j
  BY <1>1, LeastNat
<1>3. PICK x \in S : m = n - x
  BY <1>2
<1>4. \A y \in S : x >= y
  <2>. TAKE y \in S
  <2>1. n - x <= n - y
    BY <1>2, <1>3
  <2>2. x \in Int /\ y \in Int
    OBVIOUS
  <2>. QED
    BY <2>1, <2>2
<1>. QED
  BY <1>4 DEF Max

\* What is enclosed in the fields of a number.
LEMMA SubsAmong ==
  ASSUME NEW fields \in Seq(InfoFields), NEW num, NEW Y,
         \A i \in 1..Len(fields) : fields[i].num = num => fields[i].subs \in Y
  PROVE  Subs(fields, num) \in Seq(Y)
<1>1. Len(fields) \in Nat /\ DOMAIN fields = 1..Len(fields)
  BY SeqElements
<1>2. Subs(fields, num) = Flat(SubsOf(fields, num))
  BY <1>1, SubsIs
<1>3. \A i \in 1..Len(fields) :
        (IF fields[i].num # num THEN <<>> ELSE <<fields[i].subs>>) \in Seq(Y)
  OBVIOUS
<1>4. SubsOf(fields, num) \in Seq(Seq(Y))
  BY <1>1, <1>3 DEF SubsOf
<1>. QED
  BY <1>2, <1>4, FlatType

AnyEntry == {EntrySerialize(k, b) : k \in Keys, b \in Blocks}

\* A key is read with a block one of its entries says, or with none.
LEMMA ParsedEntry ==
  ASSUME NEW fields, NEW E \in SUBSET AnyEntry, Subs(fields, 3) \in Seq(E), NEW k \in Keys
  PROVE  LET b == Tables(FileInfoParse(fields)).keyBlockMap[k] IN
         b = NoBlock \/ (b \in Blocks /\ EntrySerialize(k, b) \in E)
<1>. DEFINE e == Subs(fields, 3)
            n == Len(e)
            m == FileInfoParse(fields).keyBlockMap
            KeyOf(i) == LastInt(e[i], 1, 0)
<1>2. n \in Nat /\ DOMAIN e = 1..n /\ \A i \in 1..n : e[i] \in E
  BY SeqElements
<1>3. m = [x \in {KeyOf(i) : i \in 1..n} |->
             LastInt(e[Max({i \in 1..n : KeyOf(i) = x})], 2, 0)]
  BY <1>2 DEF FileInfoParse
<1>4. Tables(FileInfoParse(fields)).keyBlockMap[k] = IF k \in DOMAIN m THEN m[k] ELSE NoBlock
  BY DEF Tables, FileInfo
<1>. HIDE DEF e, n, m
<1>5. CASE k \in DOMAIN m
  <2>. DEFINE S == {i \in 1..n : KeyOf(i) = k}
              last == Max(S)
  <2>1. S # {} /\ S \subseteq 1..n
    BY <1>3, <1>5
  <2>. HIDE DEF S
  <2>2. last \in S
    BY <1>2, <2>1, GreatestOf
  <2>3. last \in 1..n /\ KeyOf(last) = k
    BY <2>2 DEF S
  <2>4. m[k] = LastInt(e[last], 2, 0)
    BY <1>3, <1>5 DEF S
  <2>. HIDE DEF last
  <2>5. PICK x \in Keys, b \in Blocks : e[last] = EntrySerialize(x, b)
    BY <1>2, <2>3 DEF AnyEntry
  <2>6. b \in Nat
    BY DEF Blocks
  <2>7. LastInt(e[last], 1, 0) = x /\ LastInt(e[last], 2, 0) = b
    BY <2>5, <2>6, EntryRoundTrip
  <2>8. x = k /\ m[k] = b /\ e[last] \in E
    BY <1>2, <2>3, <2>4, <2>7
  <2>. QED
    BY <1>4, <1>5, <2>5, <2>8
<1>. QED
  BY <1>4, <1>5

\* What is read of an image that agrees with a map.
LEMMA ParsedAgrees ==
  ASSUME NEW map \in [Keys -> Blocks \cup {NoBlock}], NEW fields \in Seq(Agreeing(map)),
         NEW k \in Keys
  PROVE  Tables(FileInfoParse(fields)).keyBlockMap[k] \in {NoBlock, map[k]}
<1>. DEFINE b == Tables(FileInfoParse(fields)).keyBlockMap[k]
<1>1. /\ fields \in Seq(InfoFields)
      /\ \A i \in 1..Len(fields) : fields[i] \in Agreeing(map)
  BY AgreeingParts
<1>2. Subs(fields, 3) \in Seq(Entries(map))
  BY <1>1, SubsAmong DEF Agreeing
<1>3. Entries(map) \in SUBSET AnyEntry
  <2>. SUFFICES ASSUME NEW x \in Keys, map[x] # NoBlock
                PROVE  EntrySerialize(x, map[x]) \in AnyEntry
    BY DEF Entries
  <2>1. map[x] \in Blocks
    OBVIOUS
  <2>. QED
    BY <2>1 DEF AnyEntry
<1>4. b = NoBlock \/ (b \in Blocks /\ EntrySerialize(k, b) \in Entries(map))
  BY <1>2, <1>3, ParsedEntry
<1>. HIDE DEF b
<1>5. ASSUME b \in Blocks, EntrySerialize(k, b) \in Entries(map) PROVE b = map[k]
  <2>1. PICK x \in Keys : map[x] # NoBlock /\ EntrySerialize(k, b) = EntrySerialize(x, map[x])
    BY <1>5 DEF Entries
  <2>2. b \in Nat /\ map[x] \in Nat
    BY <1>5, <2>1 DEF Blocks
  <2>3. LastInt(EntrySerialize(k, b), 1, 0) = k /\ LastInt(EntrySerialize(k, b), 2, 0) = b
    BY <2>2, EntryRoundTrip
  <2>4. /\ LastInt(EntrySerialize(x, map[x]), 1, 0) = x
        /\ LastInt(EntrySerialize(x, map[x]), 2, 0) = map[x]
    BY <2>2, EntryRoundTrip
  <2>. QED
    BY <2>1, <2>3, <2>4
<1>. QED
  BY <1>4, <1>5 DEF b

\* Whatever is whole of the images in a file, every key is read with the block it
\* has there, or with none.
THEOREM OpenedAgrees ==
  ASSUME NEW map \in [Keys -> Blocks \cup {NoBlock}], NEW file, Holds(file, map),
         NEW k \in Keys
  PROVE  Opened(file).keyBlockMap[k] \in {NoBlock, map[k]}
<1>1. Within(file) \in Seq(Agreeing(map))
  BY WithinIs, AgreeingSolid DEF Holds
<1>2. Tables(FileInfoParse(Within(file))).keyBlockMap[k] \in {NoBlock, map[k]}
  BY <1>1, ParsedAgrees
<1>3. NewFile.keyBlockMap[k] = NoBlock
  BY DEF NewFile, FileInfo
<1>. QED
  BY <1>2, <1>3 DEF Opened

-----------------------------------------------------------------------------
(* How large the tables can become.                                        *)

\* 72 bytes for the super block, 36 for the index of a block and one for its use,
\* 24 for the entry of a key; the key, the block and the free space are varints.
Largest == 83 + 37 * (LastBlock + 1) + 24 * Cardinality(Keys)

LEMMA AddedBound ==
  ASSUME NEW c \in Nat, NEW t \in Seq(Nat), \A i \in 1..Len(t) : t[i] <= c
  PROVE  Added(t) <= c * Len(t)
<1>. DEFINE S == 0..c
            A == {s \in Seq(S) : Added(s) <= c * Len(s)}
<1>0. \A s \in Seq(S) : s \in Seq(Nat) /\ Len(s) \in Nat
  OBVIOUS
<1>1. <<>> \in A
  BY AddedEmpty
<1>2. ASSUME NEW s \in Seq(S), NEW x \in S, s \in A
      PROVE  s \o <<x>> \in A
  <2>. DEFINE u == s \o <<x>>
  <2>1. u \in Seq(S) /\ Len(u) = Len(s) + 1
    BY Longer
  <2>2. Added(u) = Added(s) + x /\ Added(s) \in Nat
    BY <1>0, AddedMore, AddedNat
  <2>3. Added(s) <= c * Len(s) /\ Len(s) \in Nat /\ x \in Nat /\ x <= c
    BY <1>0, <1>2
  <2>. HIDE DEF u
  <2>. DEFINE a == Added(s)
              n == Len(s)
              m == c * n
  <2>4. m \in Nat /\ c * (n + 1) = m + c
    BY <2>3
  <2>5. a <= m /\ a \in Nat /\ Added(u) = a + x /\ c * Len(u) = m + c
    BY <2>1, <2>2, <2>3, <2>4
  <2>. HIDE DEF a, m
  <2>6. Added(u) <= c * Len(u)
    BY <2>3, <2>4, <2>5
  <2>. QED
    BY <2>1, <2>6 DEF u
<1>3. t \in Seq(S)
  <2>1. \A i \in 1..Len(t) : t[i] \in S
    OBVIOUS
  <2>. QED
    BY <2>1
<1>. HIDE DEF A, S
<1>4. Grows(A, S)
  BY <1>1, <1>2 DEF Grows
<1>5. t \in A
  BY <1>3, <1>4, SeqInduct
<1>. QED
  BY <1>5 DEF A

LEMMA DelimitedBound ==
  ASSUME NEW n \in Nat
  PROVE  Delimited(n) <= 10 + n /\ Delimited(n) \in Nat /\ (n < 128 => Delimited(n) = 1 + n)
<1>1. Varint(n) \in 1..10 /\ (n < 128 => Varint(n) = 1)
  BY DEF Varint
<1>. QED
  BY <1>1 DEF Delimited

LEMMA NumberBound ==
  ASSUME NEW n \in Int
  PROVE  NumberSize(n) \in 0..11
<1>1. Varint(n) \in 1..10
  BY VarintType
<1>. QED
  BY <1>1 DEF NumberSize

LEMMA SuperBound == SuperSize <= 72
<1>. DEFINE a == NumberSize(superBlock.fileSize)
            b == NumberSize(superBlock.blockSize)
            c == NumberSize(superBlock.blockNum)
            n == SuperBlockByteSizeLong(superBlock)
<1>1. LastBlock + 1 \in Int /\ BlockSize \in Int /\ BlockSize * (LastBlock + 1) \in Int
  BY StorageAssumption, BlockZeroAssumption
<1>2. a \in 0..11 /\ b \in 0..11 /\ c \in 0..11
  BY <1>1, NumberBound DEF superBlock
<1>3. TextSize(superBlock.fileName) = 10 /\ TextSize(superBlock.createTime) = 27
  <2>1. superBlock.fileName = 8 /\ superBlock.createTime = 25
    BY DEF superBlock
  <2>2. Delimited(8) = 9 /\ Delimited(25) = 26
    BY DelimitedBound
  <2>. QED
    BY <2>1, <2>2 DEF TextSize
<1>4. n = (((10 + 27) + a) + b) + c
  BY <1>3 DEF SuperBlockByteSizeLong
<1>. HIDE DEF a, b, c, n
<1>5. n \in Nat /\ n <= 70
  BY <1>2, <1>4
<1>6. Delimited(n) = 1 + n
  BY <1>5, DelimitedBound
<1>. QED
  BY <1>5, <1>6 DEF SuperSize, n

LEMMA IndexBound ==
  ASSUME NEW t \in TablesType
  PROVE  IndexSize(t) <= 36 * (LastBlock + 1)
<1>. DEFINE n == LastBlock + 1
            x == Index(t)
            sizes == [i \in 1..n |-> Delimited(BlockIndexTableByteSizeLong(x[i]))]
<1>1. n \in Nat
  BY StorageAssumption
<1>2. x = [i \in 1..n |-> [blockNumber |-> i - 1, offset |-> (i - 1) * BlockSize,
                           freeSpace |-> t.freeSpace[i - 1]]]
  BY DEF Index, Message
<1>3. DOMAIN x = 1..n /\ Len(x) = n
  BY <1>1, <1>2
<1>4. IndexSize(t) = n + Added(sizes)
  BY <1>3 DEF IndexSize, SumOf, Each
<1>5. ASSUME NEW i \in 1..n
      PROVE  sizes[i] \in Nat /\ sizes[i] <= 35
  <2>. DEFINE a == NumberSize(x[i].blockNumber)
              b == NumberSize(x[i].offset)
              c == NumberSize(x[i].freeSpace)
              m == BlockIndexTableByteSizeLong(x[i])
  <2>1. i - 1 \in FileBlocks /\ i - 1 \in Int /\ BlockSize \in Int
    BY <1>1, StorageAssumption, BlockZeroAssumption DEF FileBlocks
  <2>2. t.freeSpace[i - 1] \in Int /\ (i - 1) * BlockSize \in Int
    BY <2>1 DEF TablesType
  <2>3. x[i].blockNumber \in Int /\ x[i].offset \in Int /\ x[i].freeSpace \in Int
    <3>. HIDE DEF x, n
    <3>. QED
      BY <1>2, <2>1, <2>2
  <2>4. a \in 0..11 /\ b \in 0..11 /\ c \in 0..11
    <3>. HIDE DEF x
    <3>. QED
      BY <2>3, NumberBound
  <2>5. m = (a + b) + c
    BY DEF BlockIndexTableByteSizeLong
  <2>. HIDE DEF a, b, c, m
  <2>6. m \in Nat /\ m <= 33
    BY <2>4, <2>5
  <2>7. Delimited(m) = 1 + m
    BY <2>6, DelimitedBound
  <2>8. sizes[i] = Delimited(m)
    BY DEF m
  <2>. HIDE DEF sizes
  <2>. QED
    BY <2>6, <2>7, <2>8
<1>. HIDE DEF n, x
<1>6. sizes \in Seq(Nat) /\ Len(sizes) = n
  <2>1. sizes = [i \in 1..n |-> sizes[i]]
    OBVIOUS
  <2>. HIDE DEF sizes
  <2>. QED
    BY <1>1, <1>5, <2>1, FunctionIsSeq
<1>. HIDE DEF sizes
<1>7. Added(sizes) <= 35 * n /\ Added(sizes) \in Nat
  <2>1. \A i \in 1..Len(sizes) : sizes[i] <= 35
    BY <1>5, <1>6
  <2>2. 35 \in Nat
    OBVIOUS
  <2>3. Added(sizes) <= 35 * Len(sizes)
    BY <1>6, <2>1, <2>2, AddedBound
  <2>. QED
    BY <1>6, <2>3, AddedNat
<1>. DEFINE sum == Added(sizes)
<1>8. sum <= 35 * n /\ sum \in Nat /\ IndexSize(t) = n + sum
  BY <1>4, <1>7
<1>. HIDE DEF sum
<1>9. IndexSize(t) <= 36 * n
  BY <1>1, <1>8
<1>. QED
  BY <1>9 DEF n

LEMMA EntriesBound ==
  ASSUME NEW t \in TablesType
  PROVE  EntriesSize(t) <= 24 * Cardinality(Keys)
<1>. DEFINE D == Mapping(t)
            n == Cardinality(D)
            any == SetToSeq(D)
            map == Message(t).keyBlockMap
            sizes == [i \in 1..n |-> 1 + EntryByteSizeLong(map[any[i]])]
<1>1. /\ IsFiniteSet(D) /\ D \subseteq Keys /\ DOMAIN map = D
      /\ \A k \in D : map[k] = t.keyBlockMap[k] /\ t.keyBlockMap[k] \in Nat
  BY MapType
<1>2. n \in Nat /\ Orders(any, n, D)
  BY <1>1, SetOrders
<1>3. n <= Cardinality(Keys) /\ Cardinality(Keys) \in Nat
  BY <1>1, BlockZeroAssumption, FS_Subset, FS_CardinalityType
<1>4. EntriesSize(t) = SumOf(LAMBDA k : 1 + EntryByteSizeLong(map[k]), any)
  BY <1>1 DEF EntriesSize
<1>. HIDE DEF n, D, any, map
<1>5. any \in [1..n -> D] /\ DOMAIN any = 1..n
  BY <1>2 DEF Orders
<1>6. EntriesSize(t) = Added(sizes)
  BY <1>4, <1>5 DEF SumOf, Each
<1>7. ASSUME NEW i \in 1..n
      PROVE  sizes[i] \in Nat /\ sizes[i] <= 24
  <2>. DEFINE b == map[any[i]]
              m == 1 + KeyBytes + 1 + Varint(b)
  <2>1. b \in Nat
    BY <1>1, <1>5
  <2>2. m \in Nat /\ m <= 22
    BY <2>1, VarintType, InfoAssumption
  <2>3. EntryByteSizeLong(b) = Delimited(m)
    BY DEF EntryByteSizeLong
  <2>4. sizes[i] = 1 + EntryByteSizeLong(b)
    OBVIOUS
  <2>. HIDE DEF b, m, sizes
  <2>5. Delimited(m) = 1 + m
    BY <2>2, DelimitedBound
  <2>. QED
    BY <2>2, <2>3, <2>4, <2>5
<1>8. sizes \in Seq(Nat) /\ Len(sizes) = n
  <2>1. sizes = [i \in 1..n |-> sizes[i]]
    OBVIOUS
  <2>. HIDE DEF sizes
  <2>. QED
    BY <1>2, <1>7, <2>1, FunctionIsSeq
<1>. HIDE DEF sizes
<1>9. Added(sizes) <= 24 * n
  <2>1. \A i \in 1..Len(sizes) : sizes[i] <= 24
    BY <1>7, <1>8
  <2>2. 24 \in Nat
    OBVIOUS
  <2>. QED
    BY <1>8, <2>1, <2>2, AddedBound
<1>10. Added(sizes) \in Nat
  BY <1>8, AddedNat
<1>. QED
  BY <1>2, <1>3, <1>6, <1>9, <1>10

LEMMA UsedBound ==
  ASSUME NEW t \in TablesType
  PROVE  UsedSize(t) <= 11 + (LastBlock + 1)
<1>1. Len(Used(t)) = LastBlock + 1 /\ LastBlock + 1 \in Nat /\ LastBlock + 1 # 0
  BY UsedPartGives, StorageAssumption
<1>. DEFINE n == LastBlock + 1
<1>2. UsedSize(t) = 1 + Delimited(n) /\ n \in Nat
  BY <1>1 DEF UsedSize, TextSize
<1>. HIDE DEF n
<1>3. Delimited(n) <= 10 + n /\ Delimited(n) \in Nat
  BY <1>2, DelimitedBound
<1>4. UsedSize(t) <= 11 + n
  BY <1>2, <1>3
<1>. QED
  BY <1>4 DEF n

\* The tables are never larger than that, whatever is in them.
LEMMA InfoBound ==
  ASSUME NEW t \in TablesType
  PROVE  FileInfoByteSizeLong(Message(t)) \in 0..Largest /\ Largest \in Nat
<1>. DEFINE a == SuperSize
            b == IndexSize(t)
            c == EntriesSize(t)
            d == UsedSize(t)
            e == Cardinality(Keys)
            n == LastBlock + 1
            size == FileInfoByteSizeLong(Message(t))
<1>1. size = ((b + c) + d) + a /\ a \in Nat /\ b \in Nat /\ c \in Nat /\ d \in Nat
  BY SizeParts
<1>2. a <= 72 /\ b <= 36 * n /\ c <= 24 * e /\ d <= 11 + n
  BY SuperBound, IndexBound, EntriesBound, UsedBound
<1>3. e \in Nat /\ n \in Nat
  BY StorageAssumption, BlockZeroAssumption, FS_CardinalityType
<1>4. Largest = (83 + 37 * n) + 24 * e
  BY DEF Largest
<1>. HIDE DEF a, b, c, d, e, n, size
<1>5. size \in 0..Largest /\ Largest \in Nat
  BY <1>1, <1>2, <1>3, <1>4
<1>. QED
  BY <1>5 DEF size

-----------------------------------------------------------------------------
(* What is read of a file that may have been damaged: the tables of a mix  *)
(* of images still are tables, and block 0 has room for them.              *)

FreeOf(message) == BlockIndexTableParse(message).freeSpace
Sane == {f \in Solid : /\ f.num = 2 => FreeOf(f.subs) \in Int
                       /\ f.num = 3 => f.subs \in AnyEntry
                       /\ f.num = 4 => f.ints # <<>> /\ f.ints[1] = 1}

\* What block 0 has left when the largest tables are written to it.
Room == BlockSize - Largest
RoomyTables == {t \in TablesType : t.freeSpace[0] \in Room..BlockSize}

\* The index of block 0 comes second in an image, and nothing of another image that
\* is left behind it reaches as far to the front.
IndexOfZero(f) == f.num = 2 /\ FreeOf(f.subs) \in Room..BlockSize
SaneFields(fields) == /\ fields \in Seq(Sane) /\ Len(fields) >= 2
                      /\ fields[1].num # 2 /\ IndexOfZero(fields[2])
IndexFirst(bytes) ==
  \/ bytes = <<>>
  \/ /\ Len(bytes) >= 2 /\ bytes[1].field.num # 2 /\ IndexOfZero(bytes[2].field)
     /\ \A i \in 3..Len(bytes) : bytes[i].at >= bytes[2].at + bytes[2].field.bytes
SaneFile(file) == HoldsIn(file, Sane) /\ IndexFirst(file.bytes)

LEMMA SaneSolid == Sane \in SUBSET Solid
  BY DEF Sane

\* A new file, and the first write.
LEMMA SizeSane ==
  ASSUME NEW file, SaneFile(file), NEW size \in Nat
  PROVE  SaneFile(WithSize(file, size))
<1>. DEFINE new == WithSize(file, size)
<1>1. file = [size |-> file.size, bytes |-> file.bytes]
  BY DEF SaneFile, HoldsIn
<1>2. new = [size |-> size, bytes |-> file.bytes]
  BY <1>1 DEF WithSize
<1>3. new.size = size /\ new.bytes = file.bytes
  BY <1>2
<1>. QED
  BY <1>2, <1>3 DEF SaneFile, HoldsIn

LEMMA FrontKept ==
  ASSUME NEW X, NEW s \in Seq(X), NEW t \in Seq(X), Len(s) >= 2
  PROVE  s \o t \in Seq(X) /\ Len(s \o t) >= 2 /\ (s \o t)[1] = s[1] /\ (s \o t)[2] = s[2]
<1>. DEFINE u == s \o t
<1>1. /\ u \in Seq(X) /\ Len(u) = Len(s) + Len(t) /\ \A i \in 1..Len(s) : u[i] = s[i]
      /\ Len(s) \in Nat /\ Len(t) \in Nat
  BY Concat, LenNat
<1>. HIDE DEF u
<1>2. 1 \in 1..Len(s) /\ 2 \in 1..Len(s) /\ Len(u) >= 2
  BY <1>1
<1>3. u \in Seq(X) /\ Len(u) >= 2 /\ u[1] = s[1] /\ u[2] = s[2]
  BY <1>1, <1>2
<1>. QED
  BY <1>3 DEF u

\* An image of tables that leave block 0 room.
LEMMA ImageSane ==
  ASSUME NEW t \in RoomyTables, NEW fields, Image(t, fields)
  PROVE  SaneFields(fields)
<1>t. t \in TablesType /\ t.freeSpace[0] \in Room..BlockSize
      /\ \A b \in FileBlocks : t.freeSpace[b] \in Int
  BY DEF RoomyTables, TablesType
<1>p. PICK order \in SetToSeqs(DOMAIN Message(t).keyBlockMap) :
             fields = FileInfoSerialize(Message(t), order)
  BY DEF Image
<1>. DEFINE a == SuperPart
            b == IndexPart(t)
            c == EntriesPart(t, order)
            d == UsedPart(t)
            abc == (a \o b) \o c
<1>o. order \in SetToSeqs(Mapping(t))
  BY <1>t, <1>p, MapType
<1>s. fields = abc \o d
  BY <1>t, <1>p, SerializedParts
<1>1. /\ a \in Seq(InfoFields) /\ b \in Seq(InfoFields) /\ c \in Seq(InfoFields)
      /\ d \in Seq(InfoFields) /\ Len(a) = 1 /\ Len(b) = LastBlock + 1
  BY <1>t, <1>o, SuperPartGives, IndexPartGives, EntriesPartGives, UsedPartGives DEF Gives
<1>2. \A i \in 1..Len(a) : a[i].num = 1 /\ a[i].bytes # 0
  BY SuperPartGives
<1>3. \A i \in 1..Len(b) : b[i].num = 2 /\ b[i].bytes # 0 /\ FreeOf(b[i].subs) = t.freeSpace[i - 1]
  <2>. TAKE i \in 1..Len(b)
  <2>1. b[i].num = 2 /\ b[i].bytes # 0 /\ b[i].subs = IndexMessages(t)[i]
    BY <1>t, IndexPartGives
  <2>2. i - 1 \in FileBlocks /\ (i - 1) + 1 = i
    BY <1>1, StorageAssumption DEF FileBlocks
  <2>3. BlockIndexTableParse(IndexMessages(t)[(i - 1) + 1]).freeSpace = t.freeSpace[i - 1]
    BY <1>t, <2>2, IndexPartGives
  <2>. QED
    BY <2>1, <2>2, <2>3 DEF FreeOf
<1>4. \A i \in 1..Len(c) : c[i].num = 3 /\ c[i].bytes # 0 /\ c[i].subs \in AnyEntry
  <2>. TAKE i \in 1..Len(c)
  <2>1. c[i].num = 3 /\ c[i].bytes # 0 /\ \E k \in Mapping(t) : c[i].subs = Entry(t, k)
    BY <1>t, <1>o, EntriesPartGives
  <2>. HIDE DEF c
  <2>2. PICK k \in Mapping(t) : c[i].subs = EntrySerialize(k, t.keyBlockMap[k])
    BY <2>1 DEF Entry
  <2>3. k \in Keys /\ t.keyBlockMap[k] \in Blocks
    BY <1>t, MapType
  <2>4. EntrySerialize(k, t.keyBlockMap[k]) \in AnyEntry
    BY <2>3 DEF AnyEntry
  <2>. QED
    BY <2>1, <2>2, <2>4
<1>5. \A i \in 1..Len(d) : d[i].num = 4 /\ d[i].bytes # 0 /\ d[i].ints # <<>> /\ d[i].ints[1] = 1
  <2>. TAKE i \in 1..Len(d)
  <2>1. d[i].num = 4 /\ d[i].bytes # 0 /\ d[i].ints = Used(t)
    BY <1>t, UsedPartGives
  <2>2. 0 \in FileBlocks /\ 0 \in t.blockUsageTable
    BY <1>t, StorageAssumption DEF FileBlocks, TablesType
  <2>3. Used(t)[0 + 1] = 1 /\ Len(Used(t)) = LastBlock + 1 /\ LastBlock + 1 # 0
    BY <1>t, <2>2, UsedPartGives, StorageAssumption
  <2>4. Used(t) # <<>>
    BY <2>3
  <2>. QED
    BY <2>1, <2>3, <2>4
<1>6. \A x \in Seq(InfoFields) : \A i \in 1..Len(x) : x[i] \in InfoFields
  BY SeqElements
<1>7. \A x \in Seq(InfoFields) : (\A i \in 1..Len(x) : x[i] \in Sane) => x \in Seq(Sane)
  OBVIOUS
<1>. HIDE DEF a, b, c, d
<1>e. ASSUME NEW f \in InfoFields, f.bytes # 0, f.num = 2 => FreeOf(f.subs) \in Int,
             f.num = 3 => f.subs \in AnyEntry, f.num = 4 => f.ints # <<>> /\ f.ints[1] = 1
      PROVE  f \in Sane
  BY <1>e DEF Sane, Solid
<1>8. a \in Seq(Sane)
  <2>1. \A i \in 1..Len(a) : a[i] \in Sane
    <3>. TAKE i \in 1..Len(a)
    <3>1. a[i] \in InfoFields /\ a[i].num = 1 /\ a[i].bytes # 0
      BY <1>1, <1>2, <1>6
    <3>2. ~(a[i].num = 2) /\ ~(a[i].num = 3) /\ ~(a[i].num = 4)
      BY <3>1
    <3>. QED
      BY <1>e, <3>1, <3>2, Zenon
  <2>. QED
    BY <1>1, <1>7, <2>1
<1>9. b \in Seq(Sane)
  <2>1. \A i \in 1..Len(b) : i - 1 \in FileBlocks
    BY <1>1, StorageAssumption DEF FileBlocks
  <2>2. \A i \in 1..Len(b) : b[i] \in Sane
    <3>. TAKE i \in 1..Len(b)
    <3>1. b[i] \in InfoFields /\ b[i].num = 2 /\ b[i].bytes # 0 /\ FreeOf(b[i].subs) = t.freeSpace[i - 1]
      BY <1>1, <1>3, <1>6
    <3>2. ~(b[i].num = 3) /\ ~(b[i].num = 4)
      BY <3>1
    <3>3. FreeOf(b[i].subs) \in Int
      BY <1>t, <2>1, <3>1
    <3>. QED
      BY <1>e, <3>1, <3>2, <3>3, Zenon
  <2>. QED
    BY <1>1, <1>7, <2>2
<1>10. c \in Seq(Sane)
  <2>1. \A i \in 1..Len(c) : c[i] \in Sane
    BY <1>1, <1>4, <1>6, <1>e
  <2>. QED
    BY <1>1, <1>7, <2>1
<1>11. d \in Seq(Sane)
  <2>1. \A i \in 1..Len(d) : d[i] \in Sane
    BY <1>1, <1>5, <1>6, <1>e
  <2>. QED
    BY <1>1, <1>7, <2>1
<1>12. LastBlock + 1 \in Nat /\ LastBlock + 1 >= 1
  BY StorageAssumption
<1>13. a \o b \in Seq(Sane) /\ Len(a \o b) >= 2 /\ (a \o b)[1] = a[1] /\ (a \o b)[2] = b[1]
  <2>. DEFINE u == a \o b
  <2>1. /\ u \in Seq(Sane) /\ Len(u) = Len(a) + Len(b)
        /\ \A i \in 1..Len(a) : u[i] = a[i]
        /\ \A i \in 1..Len(b) : u[Len(a) + i] = b[i]
    BY <1>8, <1>9, Concat
  <2>. HIDE DEF u
  <2>2. 1 \in 1..Len(a) /\ 1 \in 1..Len(b) /\ Len(a) + 1 = 2 /\ Len(u) >= 2
    BY <1>1, <1>12, <2>1
  <2>3. u[1] = a[1] /\ u[Len(a) + 1] = b[1]
    BY <2>1, <2>2
  <2>. QED
    BY <2>1, <2>2, <2>3 DEF u
<1>14. abc \in Seq(Sane) /\ Len(abc) >= 2 /\ abc[1] = a[1] /\ abc[2] = b[1]
  BY <1>10, <1>13, FrontKept
<1>. HIDE DEF abc
<1>15. fields \in Seq(Sane) /\ Len(fields) >= 2 /\ fields[1] = a[1] /\ fields[2] = b[1]
  BY <1>s, <1>11, <1>14, FrontKept
<1>16. a[1].num = 1 /\ b[1].num = 2 /\ FreeOf(b[1].subs) = t.freeSpace[0]
  <2>1. 1 \in 1..Len(a) /\ 1 \in 1..Len(b) /\ 1 - 1 = 0
    BY <1>1, <1>12
  <2>. QED
    BY <1>2, <1>3, <2>1
<1>. QED
  BY <1>t, <1>15, <1>16 DEF SaneFields, IndexOfZero

\* In an image the third field and what follows lie behind the second.
LEMMA PlacedAfter ==
  ASSUME NEW fields \in Seq(InfoFields), NEW i \in 3..Len(fields)
  PROVE  Bytes(SubSeq(fields, 1, i - 1)) >= Bytes(SubSeq(fields, 1, 2 - 1)) + fields[2].bytes
<1>. DEFINE s == SubSeq(fields, 1, i - 1)
            one == SubSeq(fields, 1, 2 - 1)
<1>1. Len(fields) \in Nat /\ \A j \in 1..Len(fields) : fields[j] \in InfoFields
  BY SeqElements
<1>2. s \in Seq(InfoFields) /\ Len(s) = i - 1 /\ \A j \in 1..(i - 1) : s[j] = fields[j]
  BY <1>1
<1>3. one \in Seq(InfoFields) /\ Len(one) = 1 /\ one[1] = fields[1]
  BY <1>1
<1>. HIDE DEF s, one
<1>4. SubSeq(s, 1, 2 - 1) = one
  <2>1. Len(SubSeq(s, 1, 2 - 1)) = 1 /\ SubSeq(s, 1, 2 - 1)[1] = s[1]
        /\ SubSeq(s, 1, 2 - 1) \in Seq(InfoFields)
    BY <1>2
  <2>. QED
    BY <1>2, <1>3, <2>1
<1>5. 2 \in 1..Len(s) /\ s[2] = fields[2]
  BY <1>2
<1>6. Bytes(SubSeq(s, 1, 2 - 1)) \in Nat /\ Bytes(SubSeq(s, 1, 2 - 1)) + s[2].bytes <= Bytes(s)
  BY <1>2, <1>5, BytesBefore
<1>7. Bytes(one) \in Nat /\ fields[2].bytes \in Nat /\ Bytes(s) \in Nat
      /\ Bytes(one) + fields[2].bytes <= Bytes(s)
  <2>1. fields[2] \in InfoFields
    BY <1>1
  <2>2. fields[2].bytes \in Nat
    BY <2>1 DEF InfoFields, Fields
  <2>3. Bytes(s) \in Nat
    BY <1>2, BytesNat DEF InfoFields
  <2>. QED
    BY <1>4, <1>5, <1>6, <2>2, <2>3
<1>. DEFINE x == Bytes(one)
            y == fields[2].bytes
            z == Bytes(s)
<1>8. x \in Nat /\ y \in Nat /\ z \in Nat /\ x + y <= z
  BY <1>7
<1>. HIDE DEF x, y, z
<1>9. z >= x + y
  BY <1>8
<1>. QED
  BY <1>9 DEF x, y, z, s, one

\* The second write, over whatever is there.
LEMMA WrittenSane ==
  ASSUME NEW file, SaneFile(file), NEW fields, SaneFields(fields)
  PROVE  SaneFile(WithTables(file, fields))
<1>. DEFINE size == Bytes(fields)
            a == Placed(file, fields)
            b == Flat(LeftOf(file.bytes, size))
            all == a \o b
            new == WithTables(file, fields)
            P == Places(Sane)
<1>1. /\ fields \in Seq(Sane) /\ Len(fields) >= 2 /\ fields[1].num # 2 /\ IndexOfZero(fields[2])
      /\ HoldsIn(file, Sane) /\ file.bytes \in Seq(P) /\ file.size \in Nat
  BY DEF SaneFile, SaneFields, HoldsIn
<1>2. /\ fields \in Seq(InfoFields) /\ Len(fields) \in Nat /\ DOMAIN fields = 1..Len(fields)
      /\ \A i \in 1..Len(fields) : fields[i] \in InfoFields
  BY <1>1, SaneSolid, SolidParts
<1>3. a \in Seq(P) /\ size \in Nat
  BY <1>1, SaneSolid, PlacedWhole
<1>4. b \in Seq({q \in P : ~(q.at < size)}) /\ b \in Seq(P)
  BY <1>1, <1>3, SaneSolid, LeftBehind
<1>5. new = [size |-> file.size, bytes |-> all]
  BY <1>1, SaneSolid, WithTablesIs
<1>6. /\ Len(a) = Len(fields)
      /\ \A i \in 1..Len(fields) : a[i].at = Bytes(SubSeq(fields, 1, i - 1)) /\ a[i].field = fields[i]
  BY <1>2 DEF Placed
<1>7. \A i \in 1..Len(b) : b[i].at >= size /\ b[i].at \in Nat
  <2>. HIDE DEF b, size
  <2>. TAKE i \in 1..Len(b)
  <2>1. b[i] \in P /\ ~(b[i].at < size)
    BY <1>4, SeqElements
  <2>2. b[i].at \in Nat
    BY <2>1 DEF Places
  <2>. QED
    BY <1>3, <2>1, <2>2
<1>. HIDE DEF size, a, b
<1>8. /\ all \in Seq(P) /\ Len(all) = Len(a) + Len(b)
      /\ \A i \in 1..Len(a) : all[i] = a[i]
      /\ \A i \in 1..Len(b) : all[Len(a) + i] = b[i]
  BY <1>3, <1>4, Concat
<1>9. Len(all) >= 2 /\ all[1] = a[1] /\ all[2] = a[2]
  BY <1>1, <1>3, <1>4, <1>6, FrontKept
<1>. HIDE DEF all, new
<1>10. HoldsIn(new, Sane)
  <2>1. new.size = file.size /\ new.bytes = all
    BY <1>5
  <2>. QED
    BY <1>1, <1>5, <1>8, <2>1 DEF HoldsIn
<1>11. a[1].field = fields[1] /\ a[2].field = fields[2]
       /\ a[2].at = Bytes(SubSeq(fields, 1, 2 - 1))
  BY <1>1, <1>2, <1>6
<1>12. a[2].at \in Nat /\ fields[2].bytes \in Nat /\ a[2].at + fields[2].bytes <= size
  <2>1. 2 \in 1..Len(fields)
    BY <1>1, <1>2
  <2>2. fields[2].bytes \in Nat
    BY <1>2, <2>1 DEF InfoFields, Fields
  <2>3. /\ Bytes(SubSeq(fields, 1, 2 - 1)) \in Nat
        /\ Bytes(SubSeq(fields, 1, 2 - 1)) + fields[2].bytes <= Bytes(fields)
    BY <1>2, <2>1, BytesBefore
  <2>. QED
    BY <1>11, <2>2, <2>3 DEF size
<1>13. ASSUME NEW i \in 3..Len(all)
       PROVE  all[i].at >= a[2].at + fields[2].bytes
  <2>0. Len(a) \in Nat /\ Len(b) \in Nat
    BY <1>3, <1>4, LenNat
  <2>1. CASE i <= Len(a)
    <3>1. i \in 1..Len(a) /\ i \in 3..Len(fields) /\ i \in 1..Len(fields)
      BY <1>6, <2>0, <2>1
    <3>2. Bytes(SubSeq(fields, 1, i - 1)) >= Bytes(SubSeq(fields, 1, 2 - 1)) + fields[2].bytes
      BY <1>2, <3>1, PlacedAfter
    <3>3. all[i].at = Bytes(SubSeq(fields, 1, i - 1))
      BY <1>6, <1>8, <3>1
    <3>. QED
      BY <1>11, <3>2, <3>3
  <2>2. CASE ~(i <= Len(a))
    <3>. DEFINE j == i - Len(a)
    <3>1. j \in 1..Len(b) /\ Len(a) + j = i
      BY <1>8, <2>0, <2>2
    <3>2. all[i] = b[j]
      BY <1>8, <3>1
    <3>3. b[j].at >= size /\ b[j].at \in Nat
      BY <1>7, <3>1
    <3>. HIDE DEF j
    <3>. QED
      BY <1>3, <1>12, <3>2, <3>3
  <2>. QED
    BY <2>1, <2>2
<1>14. IndexFirst(all)
  BY <1>1, <1>9, <1>11, <1>13 DEF IndexFirst
<1>15. new.bytes = all
  BY <1>5
<1>. QED
  BY <1>10, <1>14, <1>15 DEF SaneFile, new

\* A sequence all of whose elements are in a set.
LEMMA SeqOver ==
  ASSUME NEW X, NEW s \in Seq(X), NEW S, \A i \in 1..Len(s) : s[i] \in S
  PROVE  s \in Seq(S)
<1>1. Len(s) \in Nat /\ s = [i \in 1..Len(s) |-> s[i]]
  OBVIOUS
<1>. QED
  BY <1>1, FunctionIsSeq

\* The first two of the sequences that are joined.
LEMMA FlatFront ==
  ASSUME NEW X, NEW w \in Seq(Seq(X)), Len(w) >= 2
  PROVE  \E rest \in Seq(X) : Flat(w) = (w[1] \o w[2]) \o rest
<1>. DEFINE a == <<w[1]>>
            b == <<w[2]>>
            n == Len(w) - 2
            c == [i \in 1..n |-> w[2 + i]]
            ab == a \o b
<1>1. Len(w) \in Nat /\ w[1] \in Seq(X) /\ w[2] \in Seq(X)
  OBVIOUS
<1>2. a \in Seq(Seq(X)) /\ b \in Seq(Seq(X)) /\ ab \in Seq(Seq(X))
      /\ Len(ab) = 2 /\ ab[1] = w[1] /\ ab[2] = w[2]
  BY <1>1
<1>3. c \in Seq(Seq(X)) /\ Len(c) = Len(w) - 2 /\ \A i \in 1..Len(c) : c[i] = w[2 + i]
  <2>1. n \in Nat /\ \A i \in 1..n : 2 + i \in 1..Len(w)
    BY <1>1
  <2>2. \A i \in 1..n : c[i] \in Seq(X)
    BY <2>1, SeqElements
  <2>3. c \in Seq(Seq(X)) /\ Len(c) = n
    BY <2>1, <2>2, FunctionIsSeq
  <2>. QED
    BY <2>1, <2>3
<1>4. Flat(a) = w[1] /\ Flat(b) = w[2]
  BY <1>1, FlatOne
<1>5. Flat(ab) = w[1] \o w[2]
  BY <1>2, <1>4, FlatConcat
<1>. HIDE DEF a, b, n, c, ab
<1>6. Joins(ab, c, w)
  <2>1. Len(w) = Len(ab) + Len(c)
    BY <1>1, <1>2, <1>3
  <2>2. ASSUME NEW i \in 1..Len(ab) PROVE w[i] = ab[i]
    <3>1. i = 1 \/ i = 2
      BY <1>2
    <3>. QED
      BY <1>2, <3>1
  <2>3. ASSUME NEW i \in 1..Len(c) PROVE w[Len(ab) + i] = c[i]
    <3>1. c[i] = w[2 + i]
      BY <1>3
    <3>. QED
      BY <1>2, <3>1
  <2>. QED
    BY <2>1, <2>2, <2>3 DEF Joins
<1>7. w = ab \o c
  BY <1>2, <1>3, <1>6, Joined
<1>8. Flat(w) = Flat(ab) \o Flat(c)
  BY <1>2, <1>3, <1>7, FlatConcat
<1>9. Flat(c) \in Seq(X)
  BY <1>3, FlatType
<1>. QED
  BY <1>5, <1>8, <1>9

\* If all that are joined begin alike, so does the whole.
LEMMA FlatBegins ==
  ASSUME NEW X, NEW x, NEW t \in Seq(Seq(X)),
         \A i \in 1..Len(t) : t[i] # <<>> => t[i][1] = x
  PROVE  Flat(t) # <<>> => Flat(t)[1] = x
<1>. DEFINE S == {s \in Seq(X) : s # <<>> => s[1] = x}
            A == {s \in Seq(S) : Flat(s) # <<>> => Flat(s)[1] = x}
<1>0. S \subseteq Seq(X)
  OBVIOUS
<1>1. <<>> \in A
  BY FlatEmpty
<1>2. ASSUME NEW s \in Seq(S), NEW y \in S, s \in A
      PROVE  s \o <<y>> \in A
  <2>. DEFINE u == s \o <<y>>
              f == Flat(s)
  <2>1. s \in Seq(Seq(X)) /\ y \in Seq(X)
    BY <1>0
  <2>2. Flat(u) = f \o y /\ f \in Seq(X)
    BY <2>1, FlatMore, FlatType
  <2>3. u \in Seq(S)
    BY Longer
  <2>4. (f # <<>> => f[1] = x) /\ (y # <<>> => y[1] = x)
    BY <1>2
  <2>. HIDE DEF u, f
  <2>5. f \o y # <<>> => (f \o y)[1] = x
    <3>1. CASE f = <<>>
      <4>1. f \o y = y
        BY <2>1, <3>1, ConcatEmpty
      <4>. QED
        BY <2>4, <4>1
    <3>2. CASE f # <<>>
      <4>1. 1 \in 1..Len(f)
        BY <2>2, <3>2
      <4>2. (f \o y)[1] = f[1]
        BY <2>1, <2>2, <4>1, Concat
      <4>. QED
        BY <2>4, <3>2, <4>2
    <3>. QED
      BY <3>1, <3>2
  <2>6. Flat(u) # <<>> => Flat(u)[1] = x
    BY <2>2, <2>5
  <2>. QED
    BY <2>3, <2>6 DEF u
<1>3. t \in Seq(S)
  <2>1. Len(t) \in Nat /\ \A i \in 1..Len(t) : t[i] \in Seq(X)
    BY SeqElements
  <2>2. \A i \in 1..Len(t) : t[i] \in S
    BY <2>1
  <2>. HIDE DEF S
  <2>. QED
    BY <2>2, SeqOver
<1>. HIDE DEF A, S
<1>4. Grows(A, S)
  BY <1>1, <1>2 DEF Grows
<1>5. t \in A
  BY <1>3, <1>4, SeqInduct
<1>. QED
  BY <1>5 DEF A

\* The index of block 0 is whole and the first that is read, or none is.
LEMMA ZeroRead ==
  ASSUME NEW file, SaneFile(file)
  PROVE  \/ Subs(Within(file), 2) = <<>>
         \/ /\ Len(Subs(Within(file), 2)) >= 1
            /\ FreeOf(Subs(Within(file), 2)[1]) \in Room..BlockSize
<1>. DEFINE bytes == file.bytes
            size == file.size
            w == WholeOf(bytes, size)
            N == {f \in Sane : f.num # 2}
            P == Places(Sane)
            n == Len(bytes)
<1>1. HoldsIn(file, Sane) /\ IndexFirst(bytes) /\ bytes \in Seq(P) /\ size \in Nat
  BY DEF SaneFile, HoldsIn
<1>2. Within(file) = Flat(w)
  BY <1>1, SaneSolid, WithinIs
<1>3. w \in Seq(Seq(Sane)) /\ Len(w) = n /\ n \in Nat
  BY <1>1, SaneSolid, WholeType, LenNat
<1>4. \A i \in 1..n : bytes[i].at \in Nat /\ bytes[i].field \in Sane
  <2>. TAKE i \in 1..n
  <2>1. bytes[i] \in P
    BY <1>1, SeqElements
  <2>. QED
    BY <2>1 DEF Places
<1>5. \A f \in Sane : f \in InfoFields /\ f.bytes \in Nat /\ f.bytes # 0 /\ f.num \in Nat
                      /\ f.subs \in Seq(EntryFields)
  BY DEF Sane, Solid, InfoFields, Fields
<1>6. \A i \in 1..n : w[i] = IF bytes[i].at + bytes[i].field.bytes > size THEN <<>>
                             ELSE <<bytes[i].field>>
  BY DEF WholeOf, Unless
<1>. HIDE DEF w, P, bytes, size
<1>7. ASSUME \A i \in 1..n : w[i] \in Seq(N)
      PROVE  Subs(Within(file), 2) = <<>>
  <2>1. w \in Seq(Seq(N))
    BY <1>3, <1>7
  <2>. DEFINE s == Flat(w)
  <2>2. s \in Seq(N)
    BY <2>1, FlatType
  <2>. HIDE DEF s
  <2>3. Len(s) \in Nat /\ \A i \in 1..Len(s) : s[i] \in N
    BY <2>2, SeqElements
  <2>4. s \in Seq(InfoFields) /\ \A i \in 1..Len(s) : s[i].num # 2
    BY <1>5, <2>2, <2>3
  <2>5. Subs(s, 2) = <<>>
    BY <2>4, NothingToRead DEF InfoFields
  <2>. QED
    BY <1>2, <2>5 DEF s
<1>8. CASE bytes = <<>>
  <2>1. n = 0
    BY <1>8
  <2>2. \A i \in 1..n : w[i] \in Seq(N)
    BY <2>1
  <2>. QED
    BY <1>7, <2>2
<1>9. CASE bytes # <<>>
  <2>. DEFINE f1 == bytes[1].field
              f2 == bytes[2].field
              at2 == bytes[2].at
  <2>1. /\ n >= 2 /\ f1.num # 2 /\ IndexOfZero(f2)
        /\ \A i \in 3..n : bytes[i].at >= at2 + f2.bytes
    BY <1>1, <1>9 DEF IndexFirst
  <2>2. 1 \in 1..n /\ 2 \in 1..n
    BY <1>3, <2>1
  <2>3. f1 \in Sane /\ f2 \in Sane /\ at2 \in Nat /\ f2.bytes \in Nat /\ f1 \in N
    BY <1>4, <1>5, <2>1, <2>2
  <2>4. w[1] \in Seq(N)
    <3>1. w[1] = <<>> \/ w[1] = <<f1>>
      BY <1>6, <2>2
    <3>. HIDE DEF N, f1
    <3>2. <<>> \in Seq(N) /\ <<f1>> \in Seq(N)
      BY <2>3
    <3>. QED
      BY <3>1, <3>2
  <2>5. CASE at2 + f2.bytes > size
    <3>1. ASSUME NEW i \in 2..n PROVE w[i] = <<>>
      <4>1. i \in 1..n /\ bytes[i].at \in Nat /\ bytes[i].field.bytes \in Nat
        BY <1>3, <1>4, <1>5
      <4>2. bytes[i].at + bytes[i].field.bytes > size
        <5>1. CASE i = 2
          BY <2>5, <5>1
        <5>2. CASE i # 2
          <6>1. i \in 3..n
            BY <1>3, <5>2
          <6>2. bytes[i].at >= at2 + f2.bytes
            BY <2>1, <6>1
          <6>. DEFINE x == bytes[i].at
                      y == bytes[i].field.bytes
                      z == f2.bytes
          <6>3. x >= at2 + z /\ at2 + z > size /\ x \in Nat /\ y \in Nat /\ z \in Nat
            BY <2>3, <2>5, <4>1, <6>2
          <6>. HIDE DEF x, y, z, at2
          <6>4. x + y > size
            BY <1>1, <2>3, <6>3
          <6>. QED
            BY <6>4 DEF x, y
        <5>. QED
          BY <5>1, <5>2
      <4>. QED
        BY <1>6, <4>1, <4>2
    <3>2. \A i \in 1..n : w[i] \in Seq(N)
      <4>. TAKE i \in 1..n
      <4>1. i = 1 \/ i \in 2..n
        BY <1>3
      <4>2. <<>> \in Seq(N)
        OBVIOUS
      <4>. QED
        BY <2>4, <3>1, <4>1, <4>2
    <3>. QED
      BY <1>7, <3>2
  <2>6. CASE ~(at2 + f2.bytes > size)
    <3>1. w[2] = <<f2>>
      BY <1>6, <2>2, <2>6
    <3>2. PICK rest \in Seq(Sane) : Flat(w) = (w[1] \o w[2]) \o rest
      BY <1>3, <2>1, FlatFront
    <3>. DEFINE x == w[1]
                y == <<f2>>
    <3>. HIDE DEF f2, N
    <3>3. x \in Seq(InfoFields) /\ y \in Seq(InfoFields) /\ rest \in Seq(InfoFields)
      <4>1. N \subseteq InfoFields /\ Sane \subseteq InfoFields /\ f2 \in InfoFields
        BY <1>5, <2>3 DEF N
      <4>. QED
        BY <2>4, <4>1
    <3>4. x \o y \in Seq(InfoFields)
      BY <3>3, Concat
    <3>5. Subs((x \o y) \o rest, 2) = (Subs(x, 2) \o Subs(y, 2)) \o Subs(rest, 2)
      <4>. HIDE DEF x, y
      <4>. DEFINE xy == x \o y
      <4>0. xy \in Seq(InfoFields)
        BY <3>4
      <4>1. \A m : Subs(xy, m) = Subs(x, m) \o Subs(y, m)
        BY <3>3, SubsConcat DEF InfoFields
      <4>. HIDE DEF xy
      <4>2. \A m : Subs(xy \o rest, m) = Subs(xy, m) \o Subs(rest, m)
        BY <3>3, <4>0, SubsConcat DEF InfoFields
      <4>3. Subs(xy \o rest, 2) = (Subs(x, 2) \o Subs(y, 2)) \o Subs(rest, 2)
        BY <4>1, <4>2, Zenon
      <4>. QED
        BY <4>3 DEF xy
    <3>6. Subs(x, 2) = <<>>
      <4>1. \A i \in 1..Len(x) : x[i].num # 2
        BY <2>4, SeqElements DEF N
      <4>. HIDE DEF x
      <4>. QED
        BY <3>3, <4>1, NothingToRead DEF InfoFields
    <3>7. Subs(y, 2) = <<f2.subs>>
      <4>1. f2.num = 2 /\ y[1] = f2 /\ Len(y) = 1
        BY <2>1 DEF IndexOfZero
      <4>2. \A i \in 1..Len(y) : y[i].num = 2
        BY <4>1
      <4>. HIDE DEF y
      <4>3. Subs(y, 2) = [i \in 1..Len(y) |-> y[i].subs]
        BY <3>3, <4>2, SubsAll DEF InfoFields
      <4>4. [i \in 1..Len(y) |-> y[i].subs] = <<f2.subs>>
        BY <4>1
      <4>. QED
        BY <4>3, <4>4
    <3>8. Subs(rest, 2) \in Seq(Seq(EntryFields)) /\ f2.subs \in Seq(EntryFields)
      BY <1>5, <2>3, <3>3, SubsType DEF InfoFields
    <3>. DEFINE m == f2.subs
                z == Subs(rest, 2)
    <3>9. Subs(Within(file), 2) = (<<>> \o <<m>>) \o z
      BY <1>2, <3>1, <3>2, <3>5, <3>6, <3>7
    <3>10. z \in Seq(Seq(EntryFields)) /\ m \in Seq(EntryFields) /\ FreeOf(m) \in Room..BlockSize
      BY <2>1, <3>8 DEF IndexOfZero
    <3>. HIDE DEF m, z
    <3>11. Len((<<>> \o <<m>>) \o z) >= 1 /\ ((<<>> \o <<m>>) \o z)[1] = m
      BY <3>10
    <3>. QED
      BY <3>9, <3>10, <3>11
  <2>. QED
    BY <2>5, <2>6
<1>. QED
  BY <1>8, <1>9

LEMMA LargestNat == Largest \in Nat
<1>. DEFINE e == Cardinality(Keys)
<1>1. e \in Nat /\ LastBlock + 1 \in Nat
  BY StorageAssumption, BlockZeroAssumption, FS_CardinalityType
<1>. HIDE DEF e
<1>2. (83 + 37 * (LastBlock + 1)) + 24 * e \in Nat
  BY <1>1
<1>. QED
  BY <1>2 DEF Largest, e

LEMMA NewFileRoomy == NewFile \in RoomyTables
<1>1. 0 \in FileBlocks /\ BlockSize \in Nat /\ Largest \in Nat
  BY StorageAssumption, BlockZeroAssumption, LargestNat DEF FileBlocks
<1>2. BlockSize \in Room..BlockSize
  BY <1>1 DEF Room
<1>3. /\ NewFile.blockUsageTable = {0} /\ NewFile.keyBlockMap = [k \in Keys |-> NoBlock]
      /\ NewFile.freeSpace = [b \in FileBlocks |-> BlockSize]
      /\ NewFile = [blockUsageTable |-> {0}, keyBlockMap |-> [k \in Keys |-> NoBlock],
                    freeSpace |-> [b \in FileBlocks |-> BlockSize]]
  BY DEF NewFile, FileInfo
<1>4. NewFile \in TablesType
  BY <1>1, <1>3 DEF TablesType
<1>. QED
  BY <1>1, <1>2, <1>3, <1>4 DEF RoomyTables

\* The used blocks that are read: block 0 is one of them.
LEMMA ZeroUsed ==
  ASSUME NEW fields \in Seq(Sane)
  PROVE  0 \in Tables(FileInfoParse(fields)).blockUsageTable
<1>. DEFINE used == Ints(fields, 4)
            parts == IntsOf(fields, 4)
<1>1. /\ fields \in Seq(InfoFields) /\ Len(fields) \in Nat /\ DOMAIN fields = 1..Len(fields)
      /\ \A i \in 1..Len(fields) : fields[i] \in Sane
  BY SaneSolid, SolidParts
<1>2. parts \in Seq(Seq(Int \cup Keys)) /\ Len(parts) = Len(fields) /\ used \in Seq(Int \cup Keys)
  BY <1>1, IntsType DEF InfoFields
<1>3. used = Flat(parts)
  BY <1>1, IntsIs
<1>4. \A i \in 1..Len(parts) : parts[i] # <<>> => parts[i][1] = 1
  BY <1>1, <1>2 DEF IntsOf, Sane
<1>. HIDE DEF used, parts
<1>5. used # <<>> => used[1] = 1
  BY <1>2, <1>3, <1>4, FlatBegins
<1>6. FileInfoParse(fields).blockUsageTable = used
  <2>1. FileInfoParse(fields).blockUsageTable = <<>> \o used
    BY DEF FileInfoParse, NewFileInfo, used
  <2>. QED
    BY <1>2, <2>1, ConcatEmpty
<1>7. 0 \in FileBlocks /\ 0 \in NewFile.blockUsageTable
  BY StorageAssumption DEF FileBlocks, NewFile, FileInfo
<1>8. 0 < Len(used) => used[0 + 1] = 1
  BY <1>2, <1>5
<1>9. Tables(FileInfoParse(fields)).blockUsageTable
        = {b \in FileBlocks : IF b < Len(used) THEN used[b + 1] = 1
                              ELSE b \in NewFile.blockUsageTable}
  BY <1>6 DEF Tables, FileInfo
<1>. QED
  BY <1>7, <1>8, <1>9

\* The free space that is read is a number.
LEMMA SpaceRead ==
  ASSUME NEW fields \in Seq(Sane), NEW b \in FileBlocks
  PROVE  LET index == Subs(fields, 2) IN
         /\ index \in Seq(Seq(EntryFields))
         /\ Tables(FileInfoParse(fields)).freeSpace[b]
              = IF b < Len(index) THEN FreeOf(index[b + 1]) ELSE BlockSize
         /\ b < Len(index) => FreeOf(index[b + 1]) \in Int
<1>. DEFINE index == Subs(fields, 2)
            G == {x \in Seq(EntryFields) : FreeOf(x) \in Int}
            y == Each(BlockIndexTableParse, index)
<1>1. /\ fields \in Seq(InfoFields) /\ \A i \in 1..Len(fields) : fields[i] \in Sane
  BY SaneSolid, SolidParts
<1>2. \A f \in Sane : f.num = 2 => f.subs \in G
  BY DEF Sane, Solid, InfoFields, Fields
<1>3. index \in Seq(G)
  <2>. HIDE DEF G
  <2>. QED
    BY <1>1, <1>2, SubsAmong
<1>4. G \subseteq Seq(EntryFields)
  OBVIOUS
<1>5. Len(index) \in Nat /\ DOMAIN index = 1..Len(index) /\ \A i \in 1..Len(index) : index[i] \in G
  BY <1>3, SeqElements
<1>6. FileInfoParse(fields).blockIndexTables = <<>> \o y
  BY DEF FileInfoParse, NewFileInfo
<1>. HIDE DEF index
<1>7. y = [i \in 1..Len(index) |-> BlockIndexTableParse(index[i])]
  BY <1>5 DEF Each
<1>8. y \in Seq({BlockIndexTableParse(index[i]) : i \in 1..Len(index)}) /\ Len(y) = Len(index)
  BY <1>5, <1>7
<1>9. <<>> \o y = y
  BY <1>8, ConcatEmpty
<1>10. b < Len(index) => b + 1 \in 1..Len(index)
  BY <1>5, StorageAssumption DEF FileBlocks
<1>11. b < Len(index) => y[b + 1].freeSpace = FreeOf(index[b + 1])
  BY <1>7, <1>10 DEF FreeOf
<1>. HIDE DEF y
<1>12. NewFile.freeSpace[b] = BlockSize
  BY DEF NewFile, FileInfo
<1>13. Tables(FileInfoParse(fields)).freeSpace[b]
         = IF b < Len(index) THEN y[b + 1].freeSpace ELSE BlockSize
  BY <1>6, <1>8, <1>9, <1>12 DEF Tables, FileInfo
<1>14. b < Len(index) => FreeOf(index[b + 1]) \in Int
  BY <1>5, <1>10
<1>15. index \in Seq(Seq(EntryFields))
  BY <1>3, <1>4
<1>. QED
  BY <1>11, <1>13, <1>14, <1>15 DEF index

\* What main finds in a file, damaged or not, are tables, and block 0 has room for
\* the largest.
THEOREM OpenedSane ==
  ASSUME NEW file, SaneFile(file)
  PROVE  Opened(file) \in RoomyTables
<1>. DEFINE f == Within(file)
            t == Tables(FileInfoParse(f))
            index == Subs(f, 2)
<1>1. f \in Seq(Sane)
  BY SaneSolid, WithinIs DEF SaneFile
<1>2. index = <<>> \/ (Len(index) >= 1 /\ FreeOf(index[1]) \in Room..BlockSize)
  BY ZeroRead
<1>. HIDE DEF f
<1>3. t = [blockUsageTable |-> t.blockUsageTable, keyBlockMap |-> t.keyBlockMap,
           freeSpace |-> t.freeSpace]
  BY DEF Tables, FileInfo
<1>4. t.blockUsageTable \subseteq FileBlocks /\ 0 \in t.blockUsageTable
  <2>1. t.blockUsageTable \subseteq FileBlocks
    BY DEF Tables, FileInfo
  <2>. QED
    BY <1>1, <2>1, ZeroUsed
<1>5. t.keyBlockMap \in [Keys -> Blocks \cup {NoBlock}]
  <2>1. Subs(f, 3) \in Seq(AnyEntry)
    <3>1. f \in Seq(InfoFields) /\ \A i \in 1..Len(f) : f[i] \in Sane
      BY <1>1, SaneSolid, SolidParts
    <3>2. \A i \in 1..Len(f) : f[i].num = 3 => f[i].subs \in AnyEntry
      BY <3>1 DEF Sane
    <3>. QED
      BY <3>1, <3>2, SubsAmong
  <2>2. \A k \in Keys : t.keyBlockMap[k] \in Blocks \cup {NoBlock}
    BY <2>1, ParsedEntry
  <2>3. t.keyBlockMap = [k \in Keys |-> t.keyBlockMap[k]]
    BY DEF Tables, FileInfo
  <2>. HIDE DEF t
  <2>. QED
    BY <2>2, <2>3
<1>6. \A b \in FileBlocks :
        /\ t.freeSpace[b] = IF b < Len(index) THEN FreeOf(index[b + 1]) ELSE BlockSize
        /\ b < Len(index) => FreeOf(index[b + 1]) \in Int
  BY <1>1, SpaceRead
<1>7. t.freeSpace = [b \in FileBlocks |-> t.freeSpace[b]]
  BY DEF Tables, FileInfo
<1>8. 0 \in FileBlocks /\ BlockSize \in Nat /\ BlockSize \in Room..BlockSize
  BY StorageAssumption, BlockZeroAssumption, LargestNat DEF FileBlocks, Room
<1>. HIDE DEF t, index
<1>9. \A b \in FileBlocks : t.freeSpace[b] \in Int
  BY <1>6, <1>8
<1>10. t.freeSpace[0] \in Room..BlockSize
  <2>1. CASE index = <<>>
    <3>1. ~(0 < Len(index))
      BY <2>1
    <3>. QED
      BY <1>6, <1>8, <3>1
  <2>2. CASE Len(index) >= 1 /\ FreeOf(index[1]) \in Room..BlockSize
    <3>1. index \in Seq(Seq(EntryFields))
      BY <1>1, <1>8, SpaceRead DEF index
    <3>2. 0 < Len(index) /\ 0 + 1 = 1
      BY <2>2, <3>1
    <3>. QED
      BY <1>6, <1>8, <2>2, <3>2
  <2>. QED
    BY <1>2, <2>1, <2>2 DEF index
<1>11. t \in TablesType
  <2>1. t.freeSpace \in [FileBlocks -> Int]
    BY <1>7, <1>9
  <2>. QED
    BY <1>3, <1>4, <1>5, <2>1 DEF TablesType
<1>12. t \in RoomyTables
  BY <1>10, <1>11 DEF RoomyTables
<1>. QED
  BY <1>12, NewFileRoomy DEF Opened, f, t
=============================================================================
