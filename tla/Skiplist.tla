------------------------------ MODULE Skiplist ------------------------------
(***************************************************************************)
(* The skip list (class Skiplist, include/skiplist.hpp): nodes linked on   *)
(* several levels, and their image in a block of the file.                 *)
(*                                                                         *)
(* A node is named by its key, the head node by head: add never creates a  *)
(* second node for a key.  A value is its length in bytes; some lengths    *)
(* stand for values that are not UTF-8.  Each method is one step, as it is *)
(* for others when the caller holds a lock: what another thread sees of a  *)
(* deserialize that loadFromDisk calls without one is left out.            *)
(***************************************************************************)
EXTENDS SkiplistMessages, FiniteSetsExt, Functions

CONSTANTS
  Level,      \* Skiplist::level
  Keys,       \* keys of the requests
  Values,     \* lengths of the values
  Mangled,    \* those of values that are not UTF-8
  head, null,  \* the head node; the null pointer
  BlockSize   \* BLOCK_SIZE = CACHE_SIZE

ASSUME SkiplistAssumption ==
  /\ Level \in Nat \ {0} /\ Keys \subseteq Int /\ Values \subseteq Nat
  /\ Mangled \subseteq Values \ {0}
  /\ head # null /\ {head, null} \cap Int = {}
  /\ BlockSize \in Nat

Levels == 0..(Level - 1)
Nodes  == Keys \cup {head}

VARIABLES
  next,       \* next[i][n]: the successor of node n on level i, Node::next
  value,      \* Node::value
  allocated,  \* the nodes that exist, head apart
  image       \* what the block holds: a length and a proto::Skiplist

vars == <<next, value, allocated, image>>

NoLinks == [i \in Levels |-> [n \in Nodes |-> null]]

\* Skiplist::Skiplist; the block was written by nobody yet.
Init == /\ next = NoLinks
        /\ value = [k \in Keys |-> 0]
        /\ allocated = {}
        /\ image = [size |-> 0, fields |-> <<>>]

-----------------------------------------------------------------------------
\* The last node that the while loop of find reaches on level i from node p.
Walk(i, p, target) ==
  LET last[n \in Nodes] ==
        IF next[i][n] # null /\ next[i][n] < target THEN last[next[i][n]] ELSE n
  IN last[p]

\* find: on each level, from the top, the search goes on where it stopped above.
find(target) ==
  LET pre[i \in Levels] ==
        Walk(i, IF i = Level - 1 THEN head ELSE pre[i + 1], target)
  IN pre

\* search: "" stands for a key that is not there.
search(key) ==
  LET p == next[0][find(key)[0]] IN IF p = key THEN value[p] ELSE 0

\* The levels a new node is linked on: the coin stops the loop after one of
\* them.  Mutant: the node is only linked on the last of them.
LinkedTop(h) == {h - 1}
Linked(h) == 0..(h - 1)

\* Linking k behind p on a level.  Mutant: what was behind p is cut off.
SplicedLast(i, k, p) == [next[i] EXCEPT ![p] = k]
Spliced(i, k, p) == [next[i] EXCEPT ![k] = next[i][p], ![p] = k]

\* add of a key that exists changes its value only.
add(k, v) ==
  LET pre == find(k) IN
  /\ value' = [value EXCEPT ![k] = v]
  /\ \/ next[0][pre[0]] = k /\ UNCHANGED <<next, allocated>>
     \/ /\ next[0][pre[0]] # k
        /\ allocated' = allocated \cup {k}
        /\ \E h \in 1..Level :
             next' = [i \in Levels |->
               IF i \in Linked(h) THEN Spliced(i, k, pre[i]) ELSE next[i]]
  /\ UNCHANGED image

\* The levels erase unlinks: it stops at the first one without the node.
\* Mutant: only the lowest.
UnlinkedLowest(k, pre) == {0}
Unlinked(k, pre) == {i \in Levels : \A j \in 0..i : next[j][pre[j]] = k}

erase(k) ==
  LET pre == find(k) IN
  /\ next[0][pre[0]] = k
  /\ next' = [i \in Levels |->
       IF i \in Unlinked(k, pre)
       THEN [next[i] EXCEPT ![pre[i]] = next[i][k], ![k] = null]
       ELSE [next[i] EXCEPT ![k] = null]]
  /\ value' = [value EXCEPT ![k] = 0]
  /\ allocated' = allocated \ {k}
  /\ UNCHANGED image

\* ~Skiplist, called to empty the list: the head stays.
clear ==
  /\ next' = NoLinks
  /\ value' = [k \in Keys |-> 0]
  /\ allocated' = {}
  /\ UNCHANGED image

-----------------------------------------------------------------------------
(* The image: every node in the order of level 0, the head first.  A link  *)
(* is the key of the node it leads to; -1 is the head and -2 null.         *)

Key(n) == IF n = head THEN -1 ELSE n
Link(n) == IF n = null THEN -2 ELSE n

\* The nodes of level i in order, the head first.
Chain(i) ==
  LET from[n \in Nodes] ==
        <<n>> \o (IF next[i][n] = null THEN <<>> ELSE from[next[i][n]])
  IN from[head]

NodeImage(n) == [key |-> Key(n), value |-> IF n = head THEN 0 ELSE value[n],
                 next |-> [l \in 1..Level |-> Link(next[l - 1][n])]]

Image == LET chain == Chain(0) IN Each(NodeImage, chain)

serialize == LET nodes == Image IN
             /\ image' = [size |-> SkiplistByteSizeLong(nodes),
                          fields |-> SkiplistSerialize(nodes)]
             /\ UNCHANGED <<next, value, allocated>>

\* The image is read as far as its length says, and is refused if it does not end
\* there or if a value is not UTF-8, although it was written.  A block that was never
\* written is empty.
ImageNodes == SkiplistParse(image.fields)
Parsed == image.size # 0 /\ image.size = Bytes(image.fields)
VerifyUTF8(nodes) == \A j \in DOMAIN nodes : nodes[j].value \notin Mangled
OfKey(nodes, key) == {j \in DOMAIN nodes : nodes[j].key = key}

\* The link that deserialize leaves in the node of a key: the last one among
\* the image's nodes of that key that is not null.  Mutant: null is a key too.
RestoredNull(nodes, i, key) ==
  LET J == OfKey(nodes, key)
  IN IF J = {} THEN null ELSE nodes[Max(J)].next[i + 1]
Restored(nodes, i, key) ==
  LET J == {j \in OfKey(nodes, key) : nodes[j].next[i + 1] # -2}
  IN IF J = {} THEN null ELSE nodes[Max(J)].next[i + 1]

\* deserialize: a new node for each node of the image, those of one key being
\* one node; the links of key -1 go to the head.  An image that cannot be read
\* leaves the list as it is.
deserialize ==
  LET nodes == ImageNodes IN
  /\ Parsed /\ VerifyUTF8(nodes)
  /\ allocated' = {k \in Keys : OfKey(nodes, k) # {}}
  /\ value' = [k \in Keys |->
       LET J == OfKey(nodes, k) IN IF J = {} THEN 0 ELSE nodes[Max(J)].value]
  /\ next' = [i \in Levels |-> [n \in Nodes |-> Restored(nodes, i, Key(n))]]
  /\ UNCHANGED image

Next ==
  \/ \E k \in Keys, v \in Values : add(k, v)
  \/ \E k \in Keys : erase(k)
  \/ clear \/ serialize \/ deserialize

Spec == Init /\ [][Next]_vars

-----------------------------------------------------------------------------
(* Sizes in bytes: what add and deserialize count for a node, and what the *)
(* node takes in the image (protobuf wire format).                         *)

Largest(S) == Max(S)

\* sizeof(int) + value.capacity() + sizeof(Node*) * level, on a 64-bit machine;
\* a std::string has room for 15 characters in place.
NodeSize(k) == 4 + Largest({15, value[k]}) + 8 * Level

NodeImageSize(k) == 1 + Delimited(NodeByteSizeLong(NodeImage(k)))

Total(Size(_)) == SumFunction([k \in allocated |-> Size(k)])

-----------------------------------------------------------------------------
(* Properties.                                                             *)

\* Every variable has its type: links lead to nodes or to null.
TypeOK ==
  /\ next \in [Levels -> [Nodes -> Keys \cup {null}]]
  /\ value \in [Keys -> Values \cup {0}] /\ allocated \subseteq Keys
  /\ image.size \in Nat
  /\ LET nodes == ImageNodes IN \A j \in DOMAIN nodes :
       /\ nodes[j].key \in Keys \cup {-1}
       /\ nodes[j].next \in [1..Level -> Keys \cup {-2}]

\* The levels are what makes search correct: level 0 links every node, in the
\* order of their keys, and each level is a sublist of the one below.
LevelsNested ==
  LET on(i) == {n \in allocated : \E m \in allocated \cup {head} : next[i][m] = n}
  IN /\ on(0) = allocated
     /\ \A i \in Levels \ {0} : on(i) \subseteq on(i - 1)
     /\ \A i \in Levels, n \in allocated :
          next[i][n] # null => n \in on(i) /\ n < next[i][n]

\* No link leads to a node that has been deleted.
NoDangling == \A i \in Levels, n \in allocated \cup {head} :
                next[i][n] \in allocated \cup {null}

\* The skip list implements a map that can be saved and read back: whatever the
\* levels, searching, adding and erasing see the same keys and values.
Contents == [k \in Keys |-> IF next[0][find(k)[0]] = k THEN value[k] ELSE null]
\* (The only member of a set, so that TLC reads the image once.)
Saved == CHOOSE saved \in
  {[k \in Keys |-> LET J == OfKey(nodes, k) \ {1}
                   IN IF J = {} THEN null ELSE nodes[Max(J)].value]
     : nodes \in {ImageNodes}} : TRUE
Map == INSTANCE KeyMap WITH Absent <- null, map <- Contents, saved <- Saved
ImplementsKeyMap == Map!Spec

\* The length written in front of an image is the number of its bytes: the size
\* that proto::Skiplist computes and the fields it writes agree, whatever fields
\* of its nodes are left out.
SizeRecorded == image.size = Bytes(image.fields)

\* "The size of the cache (the size of one block)": the nodes of a cache that is
\* not over its limit fit into a block.
FullCacheFitsBlock == Total(NodeSize) <= BlockSize => Total(NodeImageSize) <= BlockSize
=============================================================================
