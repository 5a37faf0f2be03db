--------------------------- MODULE SkiplistProofs ---------------------------
(***************************************************************************)
(* The safety of the skip list for any keys, values and number of levels:  *)
(* what its links look like, where a search ends, and what is read back    *)
(* from an image.  The two marks of the image, -1 and -2, must not be keys *)
(* (NoMarks): a key of either value is confused with the head or with null.*)
(***************************************************************************)
EXTENDS Skiplist, WireProofs, FiniteSetTheorems

NoMarks == Keys \cap {-1, -2} = {}


\* A finite nonempty set of integers has a greatest element.
LEMMA Greatest ==
  ASSUME NEW S \in SUBSET Int, IsFiniteSet(S), S # {}
  PROVE  \E x \in S : \A y \in S : y <= x
<1>. DEFINE Top(T) == \E x \in T : \A y \in T : y <= x
            Bad == {n \in Nat : \E T \in SUBSET Int :
                      IsFiniteSet(T) /\ T # {} /\ Cardinality(T) = n /\ ~Top(T)}
<1>1. SUFFICES ASSUME Bad # {} PROVE FALSE
  <2>1. Cardinality(S) \in Nat
    BY FS_CardinalityType
  <2>. QED
    BY <2>1
<1>2. PICK n \in Bad : \A m \in Bad : n <= m
  BY <1>1, LeastNat
<1>3. PICK T \in SUBSET Int : IsFiniteSet(T) /\ T # {} /\ Cardinality(T) = n /\ ~Top(T)
  BY <1>2
<1>4. PICK x \in T : TRUE
  BY <1>3
<1>. DEFINE U == T \ {x}
<1>5. U \in SUBSET Int /\ IsFiniteSet(U) /\ Cardinality(U) = n - 1
  BY <1>3, <1>4, FS_RemoveElement
<1>6. CASE U = {}
  BY <1>3, <1>4, <1>6
<1>7. CASE U # {}
  <2>1. Cardinality(U) \in Nat
    BY <1>5, FS_CardinalityType
  <2>2. n - 1 \in Nat /\ ~(n <= n - 1)
    BY <1>2, <1>5, <2>1
  <2>3. Top(U)
    BY <1>2, <1>5, <1>7, <2>2
  <2>4. PICK z \in U : \A y \in U : y <= z
    BY <2>3
  <2>5. CASE x <= z
    BY <1>3, <2>4, <2>5
  <2>6. CASE z <= x
    BY <1>3, <1>4, <2>4, <2>6
  <2>. QED
    BY <1>3, <1>4, <2>4, <2>5, <2>6
<1>. QED
  BY <1>6, <1>7

-----------------------------------------------------------------------------
(* A level: its links lead through the keys of S in order.                 *)

After(n, m) == n = head \/ n < m

\* The link of node n: to the first key of S after it, or to null.
LinkOf(f, S, n) ==
  \/ f[n] = null /\ \A m \in S : ~After(n, m)
  \/ f[n] \in S /\ After(n, f[n]) /\ \A m \in S : After(n, m) => f[n] <= m

Lists(f, S) ==
  /\ f \in [Nodes -> Keys \cup {null}] /\ S \subseteq Keys /\ IsFiniteSet(S)
  /\ \A n \in S \cup {head} : LinkOf(f, S, n)
  /\ \A n \in Nodes \ (S \cup {head}) : f[n] = null

LEMMA Names ==
  /\ head \notin Int /\ null \notin Int /\ head # null /\ Keys \subseteq Int
  /\ head \notin Keys /\ null \notin Keys /\ head \in Nodes /\ Keys \subseteq Nodes
  /\ \A n \in Nodes : n = head \/ n \in Keys
  BY SkiplistAssumption DEF Nodes

\* Where the while loop of find ends: at the last node before target.
EndsAt(S, target, m) ==
  /\ m \in S \cup {head} /\ (m = head \/ m < target)
  /\ \A x \in S : After(m, x) => target <= x

\* The same, for a search that starts at any node.
Reach(S, target, n, m) ==
  IF n \in S \cup {head}
  THEN /\ m = n \/ (m \in S /\ After(n, m) /\ m < target)
       /\ \A x \in S : After(m, x) => target <= x
  ELSE m = n

LEMMA ReachExists ==
  ASSUME NEW f, NEW S, Lists(f, S), NEW target \in Int, NEW n \in Nodes
  PROVE  \E m \in Nodes : Reach(S, target, n, m)
<1>. DEFINE T == {x \in S : After(n, x) /\ x < target}
<1>1. S \subseteq Keys /\ IsFiniteSet(S) /\ T \in SUBSET S /\ IsFiniteSet(T)
  BY FS_Subset DEF Lists
<1>2. T \in SUBSET Int
  BY <1>1, Names
<1>3. CASE n \notin S \cup {head}
  BY <1>3 DEF Reach
<1>4. CASE n \in S \cup {head} /\ T = {}
  <2>1. \A x \in S : After(n, x) => target <= x
    BY <1>1, <1>4, Names
  <2>. QED
    BY <1>4, <2>1 DEF Reach
<1>5. CASE n \in S \cup {head} /\ T # {}
  <2>1. PICK m \in T : \A y \in T : y <= m
    BY <1>1, <1>2, <1>5, Greatest
  <2>2. ASSUME NEW x \in S, After(m, x) PROVE target <= x
    <3>1. m < x /\ m \in Int /\ x \in Int
      BY <1>1, <2>1, <2>2, Names DEF After
    <3>2. x \notin T
      BY <2>1, <3>1
    <3>3. After(n, x)
      BY <1>1, <1>5, <2>1, <3>1, Names DEF After
    <3>. QED
      BY <3>1, <3>2, <3>3
  <2>3. m \in S /\ After(n, m) /\ m < target /\ m \in Nodes
    BY <1>1, <2>1, Names
  <2>. QED
    BY <1>5, <2>2, <2>3 DEF Reach
<1>. QED
  BY <1>3, <1>4, <1>5

LEMMA ReachUnique ==
  ASSUME NEW f, NEW S, Lists(f, S), NEW target \in Int, NEW n \in Nodes,
         NEW m, NEW p, Reach(S, target, n, m), Reach(S, target, n, p)
  PROVE  m = p
<1>1. S \subseteq Keys
  BY DEF Lists
<1>2. CASE n \notin S \cup {head}
  BY <1>2 DEF Reach
<1>3. CASE n \in S \cup {head}
  <2>1. ASSUME NEW a, NEW b, Reach(S, target, n, a), Reach(S, target, n, b), b \in S,
               After(n, b), b < target
        PROVE  ~After(a, b)
    BY <1>1, <1>3, <2>1, Names DEF Reach
  <2>2. CASE m = n
    BY <1>1, <1>3, <2>1, <2>2, Names DEF Reach
  <2>3. CASE p = n
    BY <1>1, <1>3, <2>1, <2>3, Names DEF Reach
  <2>4. CASE m # n /\ p # n
    <3>1. /\ m \in S /\ p \in S /\ After(n, m) /\ After(n, p) /\ m < target /\ p < target
          /\ m \in Int /\ p \in Int
      BY <1>1, <1>3, <2>4, Names DEF Reach
    <3>2. ~(m < p) /\ ~(p < m)
      BY <2>1, <3>1 DEF After
    <3>. QED
      BY <3>1, <3>2
  <2>. QED
    BY <2>2, <2>3, <2>4
<1>. QED
  BY <1>2, <1>3

LEMMA ReachStep ==
  ASSUME NEW f, NEW S, Lists(f, S), NEW target \in Int, NEW n \in Nodes, NEW m,
         f[n] # null, f[n] < target, Reach(S, target, f[n], m)
  PROVE  Reach(S, target, n, m) /\ f[n] \in S /\ n \in S \cup {head} /\ After(n, f[n])
<1>1. S \subseteq Keys /\ n \in S \cup {head} /\ f[n] \in S /\ After(n, f[n])
  BY DEF Lists, LinkOf
<1>2. /\ m = f[n] \/ (m \in S /\ After(f[n], m) /\ m < target)
      /\ \A x \in S : After(m, x) => target <= x
  BY <1>1 DEF Reach
<1>3. m \in S /\ m < target /\ After(n, m)
  BY <1>1, <1>2, Names DEF After
<1>. QED
  BY <1>1, <1>2, <1>3 DEF Reach

LEMMA ReachStop ==
  ASSUME NEW f, NEW S, Lists(f, S), NEW target \in Int, NEW n \in Nodes,
         ~(f[n] # null /\ f[n] < target)
  PROVE  Reach(S, target, n, n)
<1>1. CASE n \notin S \cup {head}
  BY <1>1 DEF Reach
<1>2. CASE n \in S \cup {head}
  <2>1. LinkOf(f, S, n) /\ S \subseteq Keys
    BY <1>2 DEF Lists
  <2>2. ASSUME NEW x \in S, After(n, x) PROVE target <= x
    <3>1. f[n] \in S /\ f[n] <= x /\ f[n] # null
      BY <2>1, <2>2, Names DEF LinkOf
    <3>. QED
      BY <2>1, <3>1, Names
  <2>. QED
    BY <1>2, <2>2 DEF Reach
<1>. QED
  BY <1>1, <1>2

\* The recursive function of Walk, on a level f.
WalkFrom(f, target, g) ==
  g = [n \in Nodes |-> IF f[n] # null /\ f[n] < target THEN g[f[n]] ELSE n]
WalkIn(f, p, target) == (CHOOSE g : WalkFrom(f, target, g))[p]

LEMMA WalkExists ==
  ASSUME NEW f, NEW S, Lists(f, S), NEW target \in Int
  PROVE  \E g : WalkFrom(f, target, g)
<1>. DEFINE g == [n \in Nodes |-> CHOOSE m \in Nodes : Reach(S, target, n, m)]
<1>1. \A n \in Nodes : Reach(S, target, n, g[n])
  BY ReachExists
<1>2. g = [n \in Nodes |-> g[n]]
  OBVIOUS
<1>. HIDE DEF g
<1>3. ASSUME NEW n \in Nodes
      PROVE  g[n] = IF f[n] # null /\ f[n] < target THEN g[f[n]] ELSE n
  <2>1. CASE f[n] # null /\ f[n] < target
    <3>1. f[n] \in Nodes
      BY <2>1, Names DEF Lists
    <3>2. Reach(S, target, n, g[f[n]])
      BY <1>1, <2>1, <3>1, ReachStep
    <3>3. g[n] = g[f[n]]
      BY <1>1, <3>2, ReachUnique
    <3>. QED
      BY <2>1, <3>3
  <2>2. CASE ~(f[n] # null /\ f[n] < target)
    <3>1. Reach(S, target, n, n)
      BY <2>2, ReachStop
    <3>2. g[n] = n
      BY <1>1, <3>1, ReachUnique
    <3>. QED
      BY <2>2, <3>2
  <2>. QED
    BY <2>1, <2>2
<1>. QED
  BY <1>2, <1>3 DEF WalkFrom

LEMMA WalkReaches ==
  ASSUME NEW f, NEW S, Lists(f, S), NEW target \in Int, NEW g, WalkFrom(f, target, g),
         NEW n \in Nodes
  PROVE  Reach(S, target, n, g[n])
<1>0. S \subseteq Keys /\ IsFiniteSet(S)
  BY DEF Lists
<1>. DEFINE Bad == {x \in S : ~Reach(S, target, x, g[x])}
<1>1. ASSUME NEW x \in Nodes, ~Reach(S, target, x, g[x])
      PROVE  f[x] \in Bad /\ After(x, f[x])
  <2>1. g[x] = IF f[x] # null /\ f[x] < target THEN g[f[x]] ELSE x
    BY DEF WalkFrom
  <2>2. f[x] # null /\ f[x] < target /\ g[x] = g[f[x]]
    BY <1>1, <2>1, ReachStop
  <2>3. x \in S \cup {head} /\ f[x] \in S /\ After(x, f[x])
    BY <2>2 DEF Lists, LinkOf
  <2>4. ~Reach(S, target, f[x], g[f[x]])
    BY <1>1, <2>2, ReachStep
  <2>. QED
    BY <2>3, <2>4
<1>2. SUFFICES ASSUME ~Reach(S, target, n, g[n]) PROVE FALSE
  OBVIOUS
<1>3. Bad # {} /\ Bad \in SUBSET Int /\ IsFiniteSet(Bad)
  BY <1>0, <1>1, <1>2, Names, FS_Subset
<1>4. PICK x \in Bad : \A y \in Bad : y <= x
  BY <1>3, Greatest
<1>5. f[x] \in Bad /\ After(x, f[x]) /\ x \in Int /\ f[x] \in Int /\ x # head
  BY <1>0, <1>1, <1>3, <1>4, Names
<1>. QED
  BY <1>4, <1>5 DEF After

LEMMA WalkEnds ==
  ASSUME NEW f, NEW S, Lists(f, S), NEW target \in Int, NEW p \in S \cup {head},
         p = head \/ p < target
  PROVE  EndsAt(S, target, WalkIn(f, p, target))
<1>. DEFINE g == CHOOSE g : WalkFrom(f, target, g)
<1>1. WalkFrom(f, target, g)
  BY WalkExists
<1>2. p \in Nodes
  BY Names DEF Lists
<1>. HIDE DEF g
<1>3. Reach(S, target, p, g[p])
  BY <1>1, <1>2, WalkReaches
<1>4. EndsAt(S, target, g[p])
  BY <1>3 DEF Reach, EndsAt
<1>. QED
  BY <1>4 DEF WalkIn, g

LEMMA EndsUnique ==
  ASSUME NEW S, S \subseteq Keys, NEW target \in Int, NEW m, NEW p,
         EndsAt(S, target, m), EndsAt(S, target, p)
  PROVE  m = p
<1>1. ASSUME NEW a, NEW b, EndsAt(S, target, a), EndsAt(S, target, b)
      PROVE  a = head \/ b # head
  BY <1>1, Names DEF EndsAt, After
<1>2. m = head <=> p = head
  BY <1>1
<1>3. CASE m # head /\ p # head
  <2>1. m \in S /\ p \in S /\ m < target /\ p < target /\ m \in Int /\ p \in Int
    BY <1>3, Names DEF EndsAt
  <2>2. ~(m < p) /\ ~(p < m)
    BY <2>1 DEF EndsAt, After
  <2>. QED
    BY <2>1, <2>2
<1>. QED
  BY <1>2, <1>3

-----------------------------------------------------------------------------
(* The levels: on[i] is the set of the keys that are linked on level i.    *)

Levelled(nx, on) ==
  /\ on \in [Levels -> SUBSET Keys] /\ nx \in [Levels -> [Nodes -> Keys \cup {null}]]
  /\ \A i \in Levels : Lists(nx[i], on[i])
  /\ \A i \in Levels \ {0} : on[i] \subseteq on[i - 1]

LEMMA LevelNumbers ==
  /\ 0 \in Levels /\ Level - 1 \in Levels /\ Level \in Nat \ {0}
  /\ \A i \in Levels : i \in Nat /\ i <= Level - 1 /\ (i # 0 => i - 1 \in Levels)
                      /\ (i # Level - 1 => i + 1 \in Levels)
  BY SkiplistAssumption DEF Levels

\* Each level is a sublist of level 0.
LEMMA OnBelow ==
  ASSUME NEW nx, NEW on, Levelled(nx, on), NEW i \in Levels
  PROVE  on[i] \subseteq on[0]
<1>. DEFINE Bad == {j \in Nat : j \in Levels /\ ~(on[j] \subseteq on[0])}
<1>1. SUFFICES ASSUME Bad # {} PROVE FALSE
  BY LevelNumbers
<1>2. PICK j \in Bad : \A y \in Bad : j <= y
  BY <1>1, LeastNat
<1>3. j # 0
  BY <1>2
<1>4. j - 1 \in Nat /\ j - 1 \in Levels /\ ~(j <= j - 1) /\ j \in Levels \ {0}
  <2>1. j \in Nat /\ j \in Levels
    BY <1>2
  <2>2. j - 1 \in Levels
    BY <1>3, <2>1, LevelNumbers
  <2>. HIDE DEF Bad
  <2>. QED
    BY <1>3, <2>1, <2>2
<1>5. on[j] \subseteq on[j - 1] /\ on[j - 1] \subseteq on[0]
  BY <1>2, <1>4 DEF Levelled
<1>. QED
  BY <1>2, <1>5

\* The recursive function of find.
FindFrom(nx, target, g) ==
  g = [i \in Levels |-> WalkIn(nx[i], IF i = Level - 1 THEN head ELSE g[i + 1], target)]
FindIn(nx, target) == CHOOSE g : FindFrom(nx, target, g)

\* A walk down one level ends there, if it starts where one above it ended.
LEMMA WalkBelow ==
  ASSUME NEW nx, NEW on, Levelled(nx, on), NEW target \in Int, NEW i \in Levels, NEW p,
         i = Level - 1 => p = head, i # Level - 1 => EndsAt(on[i + 1], target, p)
  PROVE  EndsAt(on[i], target, WalkIn(nx[i], p, target))
<1>1. Lists(nx[i], on[i])
  BY DEF Levelled
<1>2. p \in on[i] \cup {head} /\ (p = head \/ p < target)
  <2>1. CASE i = Level - 1
    BY <2>1
  <2>2. CASE i # Level - 1
    <3>1. i + 1 \in Levels \ {0} /\ (i + 1) - 1 = i
      BY <2>2, LevelNumbers
    <3>2. on[i + 1] \subseteq on[i]
      BY <3>1 DEF Levelled
    <3>. QED
      BY <2>2, <3>2 DEF EndsAt
  <2>. QED
    BY <2>1, <2>2
<1>. QED
  BY <1>1, <1>2, WalkEnds

LEMMA FindExists ==
  ASSUME NEW nx, NEW on, Levelled(nx, on), NEW target \in Int
  PROVE  \E g : FindFrom(nx, target, g)
<1>. DEFINE g == [i \in Levels |-> CHOOSE m : EndsAt(on[i], target, m)]
<1>1. ASSUME NEW i \in Levels PROVE EndsAt(on[i], target, g[i])
  <2>1. EndsAt(on[i], target, WalkIn(nx[i], head, target))
    BY WalkEnds DEF Levelled
  <2>. QED
    BY <2>1
<1>2. g = [i \in Levels |-> g[i]]
  OBVIOUS
<1>. HIDE DEF g
<1>3. ASSUME NEW i \in Levels
      PROVE  g[i] = WalkIn(nx[i], IF i = Level - 1 THEN head ELSE g[i + 1], target)
  <2>. DEFINE p == IF i = Level - 1 THEN head ELSE g[i + 1]
  <2>1. i # Level - 1 => EndsAt(on[i + 1], target, p)
    BY <1>1, LevelNumbers
  <2>2. i = Level - 1 => p = head
    OBVIOUS
  <2>. HIDE DEF p
  <2>3. EndsAt(on[i], target, WalkIn(nx[i], p, target))
    BY <2>1, <2>2, WalkBelow
  <2>4. on[i] \subseteq Keys
    BY DEF Levelled
  <2>5. g[i] = WalkIn(nx[i], p, target)
    BY <1>1, <2>3, <2>4, EndsUnique
  <2>. QED
    BY <2>5 DEF p
<1>. QED
  BY <1>2, <1>3 DEF FindFrom

\* On every level, find ends at the last node before target.
LEMMA FindEnds ==
  ASSUME NEW nx, NEW on, Levelled(nx, on), NEW target \in Int, NEW i \in Levels
  PROVE  EndsAt(on[i], target, FindIn(nx, target)[i])
<1>. DEFINE g == FindIn(nx, target)
            Bad == {j \in Levels : ~EndsAt(on[j], target, g[j])}
<1>1. FindFrom(nx, target, g)
  BY FindExists DEF FindIn
<1>. HIDE DEF g
<1>2. SUFFICES ASSUME Bad # {} PROVE FALSE
  BY DEF g
<1>3. Bad \in SUBSET Int /\ IsFiniteSet(Bad)
  <2>1. IsFiniteSet(Levels) /\ Levels \in SUBSET Int
    BY LevelNumbers, FS_Interval DEF Levels
  <2>. QED
    BY <2>1, FS_Subset
<1>4. PICK j \in Bad : \A y \in Bad : y <= j
  BY <1>2, <1>3, Greatest
<1>. DEFINE p == IF j = Level - 1 THEN head ELSE g[j + 1]
<1>5. g[j] = WalkIn(nx[j], p, target)
  BY <1>1 DEF FindFrom
<1>6. j # Level - 1 => EndsAt(on[j + 1], target, p)
  <2>1. SUFFICES ASSUME j # Level - 1 PROVE EndsAt(on[j + 1], target, g[j + 1])
    OBVIOUS
  <2>2. j + 1 \in Levels /\ ~(j + 1 <= j)
    BY <2>1, LevelNumbers
  <2>. QED
    BY <1>4, <2>2
<1>7. j = Level - 1 => p = head
  OBVIOUS
<1>. HIDE DEF p
<1>8. EndsAt(on[j], target, WalkIn(nx[j], p, target))
  BY <1>6, <1>7, WalkBelow
<1>. QED
  BY <1>4, <1>5, <1>8

\* A key is linked on a level if and only if find ends just before it.
LEMMA FoundOn ==
  ASSUME NEW nx, NEW on, Levelled(nx, on), NEW k \in Keys, NEW i \in Levels
  PROVE  k \in on[i] <=> nx[i][FindIn(nx, k)[i]] = k
<1>. DEFINE p == FindIn(nx, k)[i]
<1>1. EndsAt(on[i], k, p) /\ Lists(nx[i], on[i]) /\ k \in Int
  BY FindEnds, Names DEF Levelled
<1>2. p \in on[i] \cup {head} /\ on[i] \subseteq Keys /\ LinkOf(nx[i], on[i], p)
  BY <1>1 DEF EndsAt, Lists
<1>. HIDE DEF p
<1>3. ASSUME k \in on[i] PROVE nx[i][p] = k
  <2>1. After(p, k)
    BY <1>1 DEF EndsAt, After
  <2>2. nx[i][p] \in on[i] /\ After(p, nx[i][p]) /\ nx[i][p] <= k
    BY <1>2, <1>3, <2>1 DEF LinkOf
  <2>3. k <= nx[i][p]
    BY <1>1, <2>2 DEF EndsAt
  <2>. QED
    BY <1>1, <1>2, <2>2, <2>3, Names
<1>4. ASSUME nx[i][p] = k PROVE k \in on[i]
  BY <1>2, <1>4, Names DEF LinkOf
<1>. QED
  BY <1>3, <1>4 DEF p

\* find and Walk are these functions of the links.
LEMMA FindIs ==
  ASSUME NEW target
  PROVE  find(target) = FindIn(next, target)
  BY DEF find, FindIn, FindFrom, Walk, WalkIn, WalkFrom

-----------------------------------------------------------------------------
(* The nodes of a level in order: what Chain computes.                     *)

\* c follows the links from node n to null.
Path(f, n, c) ==
  /\ c \in Seq(Nodes) /\ Len(c) # 0 /\ c[1] = n /\ f[c[Len(c)]] = null
  /\ \A j \in 1..Len(c) : j # Len(c) => f[c[j]] = c[j + 1]

LEMMA PathOne ==
  ASSUME NEW f, NEW n \in Nodes, f[n] = null
  PROVE  Path(f, n, <<n>>)
  BY DEF Path

LEMMA PathMore ==
  ASSUME NEW f, NEW n \in Nodes, NEW c, Path(f, f[n], c)
  PROVE  Path(f, n, <<n>> \o c)
<1>. DEFINE d == <<n>> \o c
<1>1. c \in Seq(Nodes) /\ Len(c) \in Nat \ {0} /\ <<n>> \in Seq(Nodes)
  BY LenNat DEF Path
<1>2. /\ d \in Seq(Nodes) /\ Len(d) = Len(c) + 1 /\ d[1] = n
      /\ \A j \in 1..Len(c) : d[1 + j] = c[j]
  BY <1>1
<1>. HIDE DEF d
<1>3. d[Len(d)] = c[Len(c)] /\ d[2] = c[1]
  <2>1. d[1 + Len(c)] = c[Len(c)] /\ d[1 + 1] = c[1] /\ Len(d) = 1 + Len(c)
    BY <1>1, <1>2
  <2>. QED
    BY <2>1
<1>4. ASSUME NEW j \in 1..Len(d), j # Len(d) PROVE f[d[j]] = d[j + 1]
  <2>1. CASE j = 1
    BY <1>2, <1>3, <2>1 DEF Path
  <2>2. CASE j # 1
    <3>1. j - 1 \in 1..Len(c) /\ j - 1 # Len(c) /\ (j - 1) + 1 \in 1..Len(c)
          /\ 1 + (j - 1) = j /\ 1 + ((j - 1) + 1) = j + 1
      BY <1>1, <1>2, <1>4, <2>2
    <3>2. d[j] = c[j - 1] /\ d[j + 1] = c[(j - 1) + 1]
      BY <1>2, <3>1
    <3>. QED
      BY <3>1, <3>2 DEF Path
  <2>. QED
    BY <2>1, <2>2
<1>. QED
  BY <1>1, <1>2, <1>3, <1>4 DEF Path, d

LEMMA PathAgrees ==
  ASSUME NEW f, NEW n, NEW c, NEW d, Path(f, n, c), Path(f, n, d),
         NEW i \in Nat, i # 0, i <= Len(c), i <= Len(d)
  PROVE  c[i] = d[i]
<1>. DEFINE Bad == {j \in Nat : j # 0 /\ j <= Len(c) /\ j <= Len(d) /\ c[j] # d[j]}
<1>1. SUFFICES ASSUME Bad # {} PROVE FALSE
  OBVIOUS
<1>2. PICK j \in Bad : \A y \in Bad : j <= y
  BY <1>1, LeastNat
<1>3. Len(c) \in Nat /\ Len(d) \in Nat
  BY LenNat DEF Path
<1>4. j # 1
  BY <1>2 DEF Path
<1>5. /\ j - 1 \in 1..Len(c) /\ j - 1 \in 1..Len(d) /\ j - 1 # Len(c) /\ j - 1 # Len(d)
      /\ j - 1 \in Nat /\ j - 1 # 0 /\ ~(j <= j - 1) /\ (j - 1) + 1 = j
  BY <1>2, <1>3, <1>4
<1>6. c[j - 1] = d[j - 1]
  BY <1>2, <1>3, <1>5
<1>7. f[c[j - 1]] = c[j] /\ f[d[j - 1]] = d[j]
  BY <1>5 DEF Path
<1>. QED
  BY <1>2, <1>6, <1>7

LEMMA PathUnique ==
  ASSUME NEW f, NEW n, NEW c, NEW d, Path(f, n, c), Path(f, n, d)
  PROVE  c = d
<1>1. /\ c \in Seq(Nodes) /\ d \in Seq(Nodes)
      /\ Len(c) \in Nat \ {0} /\ Len(d) \in Nat \ {0}
  BY LenNat DEF Path
<1>2. ASSUME NEW a, NEW b, Path(f, n, a), Path(f, n, b), Len(a) \in Nat \ {0},
             Len(b) \in Nat \ {0}, b \in Seq(Nodes)
      PROVE  ~(Len(a) < Len(b))
  <2>1. SUFFICES ASSUME Len(a) < Len(b) PROVE FALSE
    OBVIOUS
  <2>2. a[Len(a)] = b[Len(a)]
    BY <1>2, <2>1, PathAgrees
  <2>3. Len(a) \in 1..Len(b) /\ Len(a) # Len(b) /\ Len(a) + 1 \in 1..Len(b)
    BY <1>2, <2>1
  <2>4. f[b[Len(a)]] = b[Len(a) + 1] /\ b[Len(a) + 1] \in Nodes
    BY <1>2, <2>3, SeqElements DEF Path
  <2>5. f[a[Len(a)]] = null
    BY <1>2 DEF Path
  <2>. QED
    BY <2>2, <2>4, <2>5, Names
<1>3. Len(c) = Len(d)
  BY <1>1, <1>2
<1>4. \A i \in 1..Len(c) : c[i] = d[i]
  BY <1>1, <1>3, PathAgrees
<1>. QED
  BY <1>1, <1>3, <1>4, SeqEqual

LEMMA PathExists ==
  ASSUME NEW f, NEW S, Lists(f, S), NEW n \in Nodes
  PROVE  \E c : Path(f, n, c)
<1>. DEFINE Bad == {x \in S : ~ \E c : Path(f, x, c)}
<1>1. ASSUME NEW x \in Nodes, ~ \E c : Path(f, x, c)
      PROVE  f[x] \in Bad /\ After(x, f[x])
  <2>1. f[x] # null
    BY <1>1, PathOne
  <2>2. f[x] \in S /\ After(x, f[x])
    BY <2>1 DEF Lists, LinkOf
  <2>. QED
    BY <1>1, <2>2, PathMore
<1>2. SUFFICES ASSUME ~ \E c : Path(f, n, c) PROVE FALSE
  OBVIOUS
<1>3. S \subseteq Keys /\ IsFiniteSet(S)
  BY DEF Lists
<1>4. Bad # {} /\ Bad \in SUBSET Int /\ IsFiniteSet(Bad)
  BY <1>1, <1>2, <1>3, Names, FS_Subset
<1>5. PICK x \in Bad : \A y \in Bad : y <= x
  BY <1>4, Greatest
<1>6. f[x] \in Bad /\ After(x, f[x]) /\ x \in Int /\ f[x] \in Int /\ x # head
  BY <1>1, <1>3, <1>4, <1>5, Names
<1>. QED
  BY <1>5, <1>6 DEF After

\* The recursive function of Chain, on a level f.
ChainFrom(f, g) ==
  g = [n \in Nodes |-> <<n>> \o (IF f[n] = null THEN <<>> ELSE g[f[n]])]
ChainIn(f) == (CHOOSE g : ChainFrom(f, g))[head]

LEMMA ChainExists ==
  ASSUME NEW f, NEW S, Lists(f, S)
  PROVE  \E g : ChainFrom(f, g)
<1>. DEFINE g == [n \in Nodes |-> CHOOSE c : Path(f, n, c)]
<1>1. \A n \in Nodes : Path(f, n, g[n])
  BY PathExists
<1>2. g = [n \in Nodes |-> g[n]]
  OBVIOUS
<1>. HIDE DEF g
<1>3. ASSUME NEW n \in Nodes
      PROVE  g[n] = <<n>> \o (IF f[n] = null THEN <<>> ELSE g[f[n]])
  <2>1. CASE f[n] = null
    <3>1. g[n] = <<n>>
      BY <1>1, <2>1, PathOne, PathUnique
    <3>. QED
      BY <2>1, <3>1
  <2>2. CASE f[n] # null
    <3>1. f[n] \in Nodes
      BY <2>2, Names DEF Lists
    <3>2. Path(f, n, <<n>> \o g[f[n]])
      BY <1>1, <3>1, PathMore
    <3>3. g[n] = <<n>> \o g[f[n]]
      BY <1>1, <3>2, PathUnique
    <3>. QED
      BY <2>2, <3>3
  <2>. QED
    BY <2>1, <2>2
<1>. QED
  BY <1>2, <1>3 DEF ChainFrom

LEMMA ChainPath ==
  ASSUME NEW f, NEW S, Lists(f, S)
  PROVE  Path(f, head, ChainIn(f))
<1>. DEFINE g == CHOOSE g : ChainFrom(f, g)
            Bad == {x \in S : ~Path(f, x, g[x])}
<1>1. ChainFrom(f, g)
  BY ChainExists
<1>. HIDE DEF g
<1>2. ASSUME NEW x \in Nodes, ~Path(f, x, g[x])
      PROVE  f[x] \in Bad /\ After(x, f[x])
  <2>1. g[x] = <<x>> \o (IF f[x] = null THEN <<>> ELSE g[f[x]])
    BY <1>1 DEF ChainFrom
  <2>2. f[x] # null
    <3>1. SUFFICES ASSUME f[x] = null PROVE FALSE
      OBVIOUS
    <3>2. g[x] = <<x>>
      BY <2>1, <3>1
    <3>. QED
      BY <1>2, <3>1, <3>2, PathOne
  <2>3. f[x] \in S /\ After(x, f[x])
    BY <2>2 DEF Lists, LinkOf
  <2>4. ~Path(f, f[x], g[f[x]])
    BY <1>2, <2>1, <2>2, PathMore
  <2>. QED
    BY <2>3, <2>4
<1>3. SUFFICES ASSUME ~Path(f, head, g[head]) PROVE FALSE
  BY DEF ChainIn, g
<1>4. S \subseteq Keys /\ IsFiniteSet(S)
  BY DEF Lists
<1>5. Bad # {} /\ Bad \in SUBSET Int /\ IsFiniteSet(Bad)
  BY <1>2, <1>3, <1>4, Names, FS_Subset
<1>6. PICK x \in Bad : \A y \in Bad : y <= x
  BY <1>5, Greatest
<1>7. f[x] \in Bad /\ After(x, f[x]) /\ x \in Int /\ f[x] \in Int /\ x # head
  BY <1>2, <1>4, <1>5, <1>6, Names
<1>. QED
  BY <1>6, <1>7 DEF After

LEMMA ChainIs ==
  ASSUME NEW i
  PROVE  Chain(i) = ChainIn(next[i])
  BY DEF Chain, ChainIn, ChainFrom

\* c has every node of S and the head once, the head first.
Enumerates(c, S) ==
  /\ c \in Seq(S \cup {head}) /\ Len(c) # 0 /\ c[1] = head
  /\ \A i, j \in 1..Len(c) : c[i] = c[j] => i = j
  /\ \A x \in S \cup {head} : \E j \in 1..Len(c) : c[j] = x

LEMMA PathEnumerates ==
  ASSUME NEW f, NEW S, Lists(f, S), NEW c, Path(f, head, c)
  PROVE  Enumerates(c, S)
<1>0. S \subseteq Keys /\ c \in Seq(Nodes) /\ Len(c) \in Nat \ {0} /\ DOMAIN c = 1..Len(c)
  BY LenNat, SeqElements DEF Lists, Path
<1>1. \A j \in 1..Len(c) : c[j] \in Nodes
  BY <1>0, SeqElements
<1>2. ASSUME NEW j \in 1..Len(c), j # 1
      PROVE  j - 1 \in 1..Len(c) /\ f[c[j - 1]] = c[j]
  <2>1. j - 1 \in 1..Len(c) /\ j - 1 # Len(c) /\ (j - 1) + 1 = j
    BY <1>0, <1>2
  <2>. QED
    BY <2>1 DEF Path
<1>3. ASSUME NEW j \in 1..Len(c), j # 1
      PROVE  c[j] \in S /\ After(c[j - 1], c[j])
  <2>1. f[c[j - 1]] \in S /\ After(c[j - 1], f[c[j - 1]])
    BY <1>1, <1>2, <1>3, Names DEF Lists, LinkOf
  <2>. QED
    BY <1>2, <1>3, <2>1
<1>4. c[1] = head
  BY DEF Path
<1>5. c \in Seq(S \cup {head})
  <2>1. \A j \in 1..Len(c) : c[j] \in S \cup {head}
    BY <1>3, <1>4
  <2>2. c = [j \in 1..Len(c) |-> c[j]]
    BY <1>0
  <2>. QED
    BY <1>0, <2>1, <2>2, FunctionIsSeq
<1>6. ASSUME NEW i \in 1..Len(c), NEW j \in 1..Len(c), i < j
      PROVE  c[j] \in S /\ After(c[i], c[j])
  <2>. DEFINE Bad == {m \in Nat : m \in 1..Len(c) /\ i < m /\ ~After(c[i], c[m])}
  <2>1. c[j] \in S
    BY <1>3, <1>6
  <2>2. SUFFICES ASSUME Bad # {} PROVE FALSE
    BY <1>6, <2>1
  <2>3. PICK m \in Bad : \A y \in Bad : m <= y
    BY <2>2, LeastNat
  <2>4. m # 1 /\ m - 1 \in Nat /\ m - 1 \in 1..Len(c) /\ ~(m <= m - 1) /\ i <= m - 1
    BY <1>0, <2>3
  <2>5. After(c[m - 1], c[m]) /\ c[m] \in S
    BY <1>3, <2>3, <2>4
  <2>6. i # m - 1
    BY <2>3, <2>5
  <2>7. i < m - 1 /\ m - 1 # 1
    BY <2>4, <2>6
  <2>8. After(c[i], c[m - 1])
    BY <2>3, <2>4, <2>7
  <2>9. c[m - 1] \in S
    BY <1>3, <2>4, <2>7
  <2>10. After(c[i], c[m])
    <3>1. c[i] \in S \cup {head}
      BY <1>3, <1>4
    <3>. QED
      BY <1>0, <2>5, <2>8, <2>9, <3>1, Names DEF After
  <2>. QED
    BY <2>3, <2>10
<1>7. ASSUME NEW i \in 1..Len(c), NEW j \in 1..Len(c), i < j PROVE c[i] # c[j]
  <2>1. c[j] \in S /\ After(c[i], c[j])
    BY <1>6, <1>7
  <2>. QED
    BY <1>0, <2>1, Names DEF After
<1>8. \A i, j \in 1..Len(c) : c[i] = c[j] => i = j
  <2>. TAKE i, j \in 1..Len(c)
  <2>1. i < j \/ j < i \/ i = j
    BY <1>0
  <2>. QED
    BY <1>7, <2>1
<1>9. ASSUME NEW x \in S PROVE \E j \in 1..Len(c) : c[j] = x
  <2>. DEFINE Bad == {m \in Nat : m \in 1..Len(c) /\ ~After(c[m], x)}
  <2>1. SUFFICES ASSUME \A j \in 1..Len(c) : c[j] # x PROVE FALSE
    OBVIOUS
  <2>2. ASSUME NEW m \in 1..Len(c), After(c[m], x)
        PROVE  f[c[m]] \in S /\ f[c[m]] <= x
    <3>1. c[m] \in S \cup {head}
      BY <1>3, <1>4
    <3>. QED
      BY <2>2, <3>1 DEF Lists, LinkOf
  <2>3. Bad # {}
    <3>1. SUFFICES ASSUME After(c[Len(c)], x) PROVE FALSE
      BY <1>0
    <3>2. f[c[Len(c)]] \in S
      BY <1>0, <2>2, <3>1
    <3>. QED
      BY <1>0, <3>2, Names DEF Path
  <2>4. PICK m \in Bad : \A y \in Bad : m <= y
    BY <2>3, LeastNat
  <2>5. m # 1
    BY <1>4, <2>4 DEF After
  <2>6. m - 1 \in Nat /\ m - 1 \in 1..Len(c) /\ ~(m <= m - 1)
    BY <1>0, <2>4, <2>5
  <2>7. After(c[m - 1], x)
    BY <2>4, <2>6
  <2>8. c[m] \in S /\ c[m] <= x
    BY <1>2, <2>2, <2>4, <2>5, <2>6, <2>7
  <2>9. c[m] # x
    BY <2>1, <2>4
  <2>10. c[m] < x
    BY <1>0, <2>8, <2>9, Names
  <2>. QED
    BY <2>4, <2>10 DEF After
<1>. QED
  BY <1>0, <1>4, <1>5, <1>8, <1>9 DEF Enumerates

-----------------------------------------------------------------------------
(* An image of links nx and values val whose nodes are listed in c, and    *)
(* what is read back from it.                                              *)

NodeImageOf(nx, val, n) ==
  [key |-> Key(n), value |-> IF n = head THEN 0 ELSE val[n],
   next |-> [l \in 1..Level |-> Link(nx[l - 1][n])]]
ImageOf(nx, val, c) == [j \in 1..Len(c) |-> NodeImageOf(nx, val, c[j])]

\* The links and values of a skip list whose nodes are those of al.
Sound(nx, val, al) ==
  /\ val \in [Keys -> Values \cup {0}]
  /\ \E on : Levelled(nx, on) /\ on[0] = al

LEMMA SoundParts ==
  ASSUME NEW nx, NEW val, NEW al, Sound(nx, val, al)
  PROVE  /\ val \in [Keys -> Values \cup {0}] /\ al \subseteq Keys
         /\ nx \in [Levels -> [Nodes -> Keys \cup {null}]]
         /\ Lists(nx[0], al)
         /\ \A i \in Levels, n \in Nodes \ (al \cup {head}) : nx[i][n] = null
         /\ \A i \in Levels, n \in al \cup {head} : nx[i][n] \in al \cup {null}
<1>1. PICK on : Levelled(nx, on) /\ on[0] = al
  BY DEF Sound
<1>2. /\ nx \in [Levels -> [Nodes -> Keys \cup {null}]] /\ on \in [Levels -> SUBSET Keys]
      /\ Lists(nx[0], al) /\ al \subseteq Keys
  BY <1>1, LevelNumbers DEF Levelled
<1>3. \A i \in Levels : on[i] \subseteq al
  BY <1>1, OnBelow
<1>4. \A i \in Levels : Lists(nx[i], on[i])
  BY <1>1 DEF Levelled
<1>5. \A i \in Levels, n \in Nodes \ (al \cup {head}) : nx[i][n] = null
  BY <1>3, <1>4 DEF Lists
<1>6. ASSUME NEW i \in Levels, NEW n \in al \cup {head} PROVE nx[i][n] \in al \cup {null}
  <2>1. CASE n \in on[i] \cup {head}
    BY <1>3, <1>4, <2>1 DEF Lists, LinkOf
  <2>2. CASE n \notin on[i] \cup {head}
    BY <1>2, <1>4, <1>6, <2>2, Names DEF Lists
  <2>. QED
    BY <2>1, <2>2
<1>. QED
  BY <1>2, <1>5, <1>6 DEF Sound

LEMMA KeyType ==
  ASSUME NEW n \in Nodes
  PROVE  Key(n) \in Keys \cup {-1} /\ Key(n) \in Int
  BY Names DEF Key

LEMMA KeyInjective ==
  ASSUME NoMarks, NEW n \in Nodes, NEW m \in Nodes, Key(n) = Key(m)
  PROVE  n = m
<1>1. -1 \notin Keys
  BY DEF NoMarks
<1>. QED
  BY <1>1, Names DEF Key

LEMMA LinkType ==
  ASSUME NEW n \in Keys \cup {null}
  PROVE  Link(n) \in Keys \cup {-2} /\ Link(n) \in Int
  BY Names DEF Link

LEMMA LinkNull ==
  ASSUME NoMarks, NEW n \in Keys \cup {null}
  PROVE  IF n = null THEN Link(n) = -2 ELSE Link(n) = n /\ Link(n) # -2
<1>1. -2 \notin Keys
  BY DEF NoMarks
<1>. QED
  BY <1>1 DEF Link

LEMMA NodeImageType ==
  ASSUME NEW nx, NEW val, NEW al, Sound(nx, val, al), NEW n \in al \cup {head}
  PROVE  /\ NodeImageOf(nx, val, n) \in NodeImages
         /\ NodeImageOf(nx, val, n).key = Key(n)
         /\ n \in Keys => NodeImageOf(nx, val, n).value = val[n]
         /\ NodeImageOf(nx, val, n).next \in [1..Level -> Keys \cup {-2}]
         /\ \A i \in Levels : NodeImageOf(nx, val, n).next[i + 1] = Link(nx[i][n])
<1>. DEFINE k == Key(n)
            v == IF n = head THEN 0 ELSE val[n]
            x == [l \in 1..Level |-> Link(nx[l - 1][n])]
<1>1. n \in Nodes /\ (n = head \/ n \in Keys)
  BY SoundParts, Names
<1>2. k \in Int
  BY <1>1, KeyType
<1>3. v \in Nat /\ (n \in Keys => v = val[n])
  BY <1>1, SoundParts, Names, SkiplistAssumption
<1>4. \A l \in 1..Level : nx[l - 1][n] \in Keys \cup {null}
  <2>1. \A l \in 1..Level : l - 1 \in Levels
    BY LevelNumbers DEF Levels
  <2>. QED
    BY <1>1, <2>1, SoundParts
<1>5. \A l \in 1..Level : Link(nx[l - 1][n]) \in Keys \cup {-2} /\ Link(nx[l - 1][n]) \in Int
  BY <1>4, LinkType
<1>6. x \in [1..Level -> Keys \cup {-2}] /\ x \in Seq(Int)
  BY <1>5, LevelNumbers
<1>7. \A i \in Levels : x[i + 1] = Link(nx[i][n])
  <2>. TAKE i \in Levels
  <2>1. i + 1 \in 1..Level /\ (i + 1) - 1 = i
    BY LevelNumbers
  <2>. QED
    BY <2>1
<1>8. NodeImageOf(nx, val, n) = [key |-> k, value |-> v, next |-> x]
  BY DEF NodeImageOf
<1>. HIDE DEF k, v, x
<1>. QED
  BY <1>2, <1>3, <1>6, <1>7, <1>8 DEF NodeImages, k

LEMMA ImageType ==
  ASSUME NEW nx, NEW val, NEW al, Sound(nx, val, al), NEW c, Enumerates(c, al)
  PROVE  /\ ImageOf(nx, val, c) \in Seq(NodeImages) /\ DOMAIN ImageOf(nx, val, c) = 1..Len(c)
         /\ \A j \in 1..Len(c) : /\ ImageOf(nx, val, c)[j] = NodeImageOf(nx, val, c[j])
                                 /\ c[j] \in al \cup {head}
<1>1. Len(c) \in Nat /\ \A j \in 1..Len(c) : c[j] \in al \cup {head}
  BY SeqElements DEF Enumerates
<1>2. \A j \in 1..Len(c) : NodeImageOf(nx, val, c[j]) \in NodeImages
  BY <1>1, NodeImageType
<1>. QED
  BY <1>1, <1>2 DEF ImageOf

\* The nodes of a key in an image: the one that is listed, if any.
LEMMA OneOfKey ==
  ASSUME NoMarks, NEW nx, NEW val, NEW al, Sound(nx, val, al), NEW c, Enumerates(c, al),
         NEW n \in Nodes
  PROVE  /\ n \notin al \cup {head} => OfKey(ImageOf(nx, val, c), Key(n)) = {}
         /\ n \in al \cup {head} =>
              \E j \in 1..Len(c) : c[j] = n /\ OfKey(ImageOf(nx, val, c), Key(n)) = {j}
<1>. DEFINE nodes == ImageOf(nx, val, c)
<1>1. DOMAIN nodes = 1..Len(c) /\ al \subseteq Keys
      /\ \A j \in 1..Len(c) : nodes[j].key = Key(c[j]) /\ c[j] \in al \cup {head}
  BY ImageType, NodeImageType, SoundParts
<1>. HIDE DEF nodes
<1>2. OfKey(nodes, Key(n)) = {j \in 1..Len(c) : c[j] = n}
  <2>1. \A j \in 1..Len(c) : nodes[j].key = Key(n) <=> c[j] = n
    <3>. TAKE j \in 1..Len(c)
    <3>1. c[j] \in Nodes
      BY <1>1, Names
    <3>. QED
      BY <1>1, <3>1, KeyInjective
  <2>. QED
    BY <1>1, <2>1 DEF OfKey
<1>3. ASSUME n \notin al \cup {head} PROVE OfKey(nodes, Key(n)) = {}
  BY <1>1, <1>2, <1>3
<1>4. ASSUME n \in al \cup {head}
      PROVE  \E j \in 1..Len(c) : c[j] = n /\ OfKey(nodes, Key(n)) = {j}
  <2>1. PICK j \in 1..Len(c) : c[j] = n
    BY <1>4 DEF Enumerates
  <2>2. \A l \in 1..Len(c) : c[l] = n => l = j
    BY <2>1 DEF Enumerates
  <2>3. OfKey(nodes, Key(n)) = {j}
    BY <1>2, <2>1, <2>2
  <2>. QED
    BY <2>1, <2>3
<1>. QED
  BY <1>3, <1>4 DEF nodes

LEMMA MaxOne ==
  ASSUME NEW j \in Int
  PROVE  Max({j}) = j
  BY DEF Max

\* The links, nodes and values are read back.
LEMMA LinksReadBack ==
  ASSUME NoMarks, NEW nx, NEW val, NEW al, Sound(nx, val, al), NEW c, Enumerates(c, al),
         NEW i \in Levels, NEW n \in Nodes
  PROVE  Restored(ImageOf(nx, val, c), i, Key(n)) = nx[i][n]
<1>. DEFINE nodes == ImageOf(nx, val, c)
            J == {j \in OfKey(nodes, Key(n)) : nodes[j].next[i + 1] # -2}
<1>1. Restored(nodes, i, Key(n)) = IF J = {} THEN null ELSE nodes[Max(J)].next[i + 1]
  BY DEF Restored
<1>2. nx[i][n] \in Keys \cup {null}
  BY SoundParts
<1>3. CASE n \notin al \cup {head}
  <2>1. J = {}
    BY <1>3, OneOfKey
  <2>. QED
    BY <1>1, <1>3, <2>1, SoundParts
<1>4. CASE n \in al \cup {head}
  <2>1. PICK j \in 1..Len(c) : c[j] = n /\ OfKey(nodes, Key(n)) = {j}
    BY <1>4, OneOfKey
  <2>2. nodes[j].next[i + 1] = Link(nx[i][n])
    BY <1>4, <2>1, ImageType, NodeImageType
  <2>3. CASE nx[i][n] = null
    <3>1. J = {}
      BY <1>2, <2>1, <2>2, <2>3, LinkNull
    <3>. QED
      BY <1>1, <2>3, <3>1
  <2>4. CASE nx[i][n] # null
    <3>1. J = {j} /\ nodes[j].next[i + 1] = nx[i][n]
      BY <1>2, <2>1, <2>2, <2>4, LinkNull
    <3>2. Max(J) = j
      BY <3>1, MaxOne
    <3>. QED
      BY <1>1, <3>1, <3>2
  <2>. QED
    BY <2>3, <2>4
<1>. QED
  BY <1>3, <1>4

LEMMA ValuesReadBack ==
  ASSUME NoMarks, NEW nx, NEW val, NEW al, Sound(nx, val, al), NEW c, Enumerates(c, al),
         NEW k \in Keys
  PROVE  /\ OfKey(ImageOf(nx, val, c), k) # {} <=> k \in al
         /\ 1 \notin OfKey(ImageOf(nx, val, c), k)
         /\ k \in al =>
              ImageOf(nx, val, c)[Max(OfKey(ImageOf(nx, val, c), k))].value = val[k]
<1>. DEFINE nodes == ImageOf(nx, val, c)
<1>1. k \in Nodes /\ Key(k) = k /\ k # head
  BY Names DEF Key
<1>2. CASE k \notin al
  BY <1>1, <1>2, OneOfKey
<1>3. CASE k \in al
  <2>1. PICK j \in 1..Len(c) : c[j] = k /\ OfKey(nodes, k) = {j}
    BY <1>1, <1>3, OneOfKey
  <2>2. j # 1
    BY <1>1, <2>1 DEF Enumerates
  <2>3. Max(OfKey(nodes, k)) = j
    BY <2>1, MaxOne
  <2>4. nodes[j].value = val[k]
    BY <1>3, <2>1, ImageType, NodeImageType
  <2>. QED
    BY <1>3, <2>1, <2>2, <2>3, <2>4
<1>. QED
  BY <1>2, <1>3

-----------------------------------------------------------------------------
(* Linking and unlinking a key on a level, behind the node p where find    *)
(* ended.                                                                  *)

LEMMA BehindEnd ==
  ASSUME NEW f, NEW S, Lists(f, S), NEW k \in Keys, NEW p, EndsAt(S, k, p)
  PROVE  /\ p \in S \cup {head} /\ p \in Nodes /\ p # k /\ After(p, k)
         /\ S \subseteq Keys /\ LinkOf(f, S, p) /\ \A m \in S : After(p, m) => k <= m
         /\ \A n \in S \cup {head} : n # p /\ After(n, k) => f[n] \in S /\ f[n] < k
<1>1. /\ p \in S \cup {head} /\ S \subseteq Keys /\ LinkOf(f, S, p) /\ k \in Int
      /\ \A m \in S : After(p, m) => k <= m
  BY Names DEF EndsAt, Lists
<1>2. p \in Nodes /\ p # k /\ After(p, k)
  BY <1>1, Names DEF EndsAt, After
<1>3. ASSUME NEW n \in S \cup {head}, n # p, After(n, k)
      PROVE  f[n] \in S /\ f[n] < k
  <2>1. p \in S /\ p < k /\ After(n, p)
    <3>1. CASE n = head
      BY <1>1, <1>3, <3>1 DEF After, EndsAt
    <3>2. CASE n # head
      <4>1. n \in S /\ n \in Int /\ n < k
        BY <1>1, <1>3, <3>2, Names DEF After
      <4>2. ~After(p, n)
        BY <1>1, <4>1
      <4>3. p \in S /\ p \in Int /\ ~(p < n)
        BY <1>1, <4>2, Names DEF After
      <4>. QED
        BY <1>2, <1>3, <4>1, <4>3, Names DEF After
    <3>. QED
      BY <3>1, <3>2
  <2>2. LinkOf(f, S, n)
    BY <1>3 DEF Lists
  <2>3. f[n] \in S /\ f[n] <= p
    BY <2>1, <2>2 DEF LinkOf
  <2>. QED
    BY <1>1, <2>1, <2>3, Names
<1>. QED
  BY <1>1, <1>2, <1>3

LEMMA SpliceLists ==
  ASSUME NEW f, NEW S, Lists(f, S), NEW k \in Keys, k \notin S, NEW p, EndsAt(S, k, p)
  PROVE  Lists([f EXCEPT ![k] = f[p], ![p] = k], S \cup {k})
<1>. DEFINE g == [f EXCEPT ![k] = f[p], ![p] = k]
            T == S \cup {k}
<1>1. /\ p \in S \cup {head} /\ p \in Nodes /\ p # k /\ After(p, k)
      /\ S \subseteq Keys /\ LinkOf(f, S, p) /\ \A m \in S : After(p, m) => k <= m
      /\ \A n \in S \cup {head} : n # p /\ After(n, k) => f[n] \in S /\ f[n] < k
  BY BehindEnd
<1>2. f \in [Nodes -> Keys \cup {null}] /\ k \in Nodes /\ k # head /\ IsFiniteSet(S)
  BY Names DEF Lists
<1>3. /\ g \in [Nodes -> Keys \cup {null}] /\ g[k] = f[p] /\ g[p] = k
      /\ \A n \in Nodes : n # k /\ n # p => g[n] = f[n]
  BY <1>1, <1>2
<1>. HIDE DEF g
<1>4. T \subseteq Keys /\ IsFiniteSet(T)
  BY <1>1, <1>2, FS_AddElement
<1>5. LinkOf(g, T, k)
  <2>1. \A m \in S : After(k, m) => After(p, m)
    BY <1>1, <1>2, Names DEF After
  <2>2. ~After(k, k)
    BY <1>2, Names DEF After
  <2>3. CASE f[p] = null
    <3>1. \A m \in S : ~After(p, m)
      BY <1>1, <2>3, Names DEF LinkOf
    <3>. QED
      BY <1>3, <2>1, <2>2, <2>3, <3>1 DEF LinkOf
  <2>4. CASE f[p] # null
    <3>1. f[p] \in S /\ After(p, f[p]) /\ \A m \in S : After(p, m) => f[p] <= m
      BY <1>1, <2>4 DEF LinkOf
    <3>2. k <= f[p] /\ f[p] # k
      BY <1>1, <3>1
    <3>3. After(k, f[p])
      BY <1>1, <3>1, <3>2, Names DEF After
    <3>. QED
      BY <1>3, <2>1, <2>2, <3>1, <3>3 DEF LinkOf
  <2>. QED
    BY <2>3, <2>4
<1>6. LinkOf(g, T, p)
  <2>1. \A m \in T : After(p, m) => k <= m
    BY <1>1, Names
  <2>. QED
    BY <1>1, <1>3, <2>1 DEF LinkOf
<1>7. ASSUME NEW n \in S \cup {head}, n # p PROVE LinkOf(g, T, n)
  <2>1. LinkOf(f, S, n) /\ g[n] = f[n]
    BY <1>1, <1>2, <1>3, <1>7, Names DEF Lists
  <2>2. CASE After(n, k)
    <3>1. f[n] \in S /\ f[n] < k
      BY <1>1, <1>7, <2>2
    <3>2. f[n] <= k /\ f[n] # null
      BY <1>1, <3>1, Names
    <3>. QED
      BY <2>1, <3>1, <3>2 DEF LinkOf
  <2>3. CASE ~After(n, k)
    BY <2>1, <2>3 DEF LinkOf
  <2>. QED
    BY <2>2, <2>3
<1>8. ASSUME NEW n \in Nodes \ (T \cup {head}) PROVE g[n] = null
  <2>1. n # p /\ n # k /\ f[n] = null
    BY <1>1, <1>8 DEF Lists
  <2>. QED
    BY <1>3, <2>1
<1>. QED
  BY <1>3, <1>4, <1>5, <1>6, <1>7, <1>8 DEF Lists, g

LEMMA UnlinkLists ==
  ASSUME NEW f, NEW S, Lists(f, S), NEW k \in Keys, k \in S, NEW p, EndsAt(S, k, p)
  PROVE  Lists([f EXCEPT ![p] = f[k], ![k] = null], S \ {k})
<1>. DEFINE g == [f EXCEPT ![p] = f[k], ![k] = null]
            T == S \ {k}
<1>1. /\ p \in S \cup {head} /\ p \in Nodes /\ p # k /\ After(p, k)
      /\ S \subseteq Keys /\ LinkOf(f, S, p) /\ \A m \in S : After(p, m) => k <= m
      /\ \A n \in S \cup {head} : n # p /\ After(n, k) => f[n] \in S /\ f[n] < k
  BY BehindEnd
<1>2. /\ f \in [Nodes -> Keys \cup {null}] /\ k \in Nodes /\ k # head /\ IsFiniteSet(S)
      /\ LinkOf(f, S, k)
  BY Names DEF Lists
<1>3. /\ g \in [Nodes -> Keys \cup {null}] /\ g[k] = null /\ g[p] = f[k]
      /\ \A n \in Nodes : n # k /\ n # p => g[n] = f[n]
  BY <1>1, <1>2
<1>. HIDE DEF g
<1>4. T \subseteq Keys /\ IsFiniteSet(T)
  BY <1>1, <1>2, FS_RemoveElement
<1>5. LinkOf(g, T, p)
  <2>1. \A m \in T : After(p, m) => After(k, m)
    <3>1. \A m \in T : After(p, m) => k <= m /\ m # k /\ m \in Int
      BY <1>1, <1>4, Names
    <3>. QED
      BY <3>1, Names DEF After
  <2>2. CASE f[k] = null
    BY <1>2, <1>3, <2>1, <2>2, Names, <1>1 DEF LinkOf
  <2>3. CASE f[k] # null
    <3>1. f[k] \in S /\ After(k, f[k]) /\ \A m \in S : After(k, m) => f[k] <= m
      BY <1>2, <2>3 DEF LinkOf
    <3>2. f[k] # k /\ After(p, f[k])
      BY <1>1, <1>2, <3>1, Names DEF After
    <3>. QED
      BY <1>3, <2>1, <3>1, <3>2 DEF LinkOf
  <2>. QED
    BY <2>2, <2>3
<1>6. ASSUME NEW n \in T \cup {head}, n # p PROVE LinkOf(g, T, n)
  <2>1. LinkOf(f, S, n) /\ g[n] = f[n]
    BY <1>1, <1>2, <1>3, <1>6, Names DEF Lists
  <2>2. f[n] # k
    <3>1. SUFFICES ASSUME f[n] = k PROVE FALSE
      OBVIOUS
    <3>2. After(n, k)
      BY <2>1, <3>1, Names DEF LinkOf
    <3>3. f[n] < k
      BY <1>1, <1>6, <3>2
    <3>. QED
      BY <3>1, <3>3, Names
  <2>. QED
    BY <2>1, <2>2 DEF LinkOf
<1>7. ASSUME NEW n \in Nodes \ (T \cup {head}) PROVE g[n] = null
  <2>1. CASE n = k
    BY <1>3, <2>1
  <2>2. CASE n # k
    BY <1>1, <1>3, <1>7, <2>2 DEF Lists
  <2>. QED
    BY <2>1, <2>2
<1>. QED
  BY <1>3, <1>4, <1>5, <1>6, <1>7 DEF Lists, g

-----------------------------------------------------------------------------
(* The inductive invariant: the links and values are those of a skip list, *)
(* and so were those that the image was made of.                           *)

Pictures(img, nx, val, al, c) ==
  /\ Sound(nx, val, al) /\ Enumerates(c, al)
  /\ img = [size |-> SkiplistByteSizeLong(ImageOf(nx, val, c)),
            fields |-> SkiplistSerialize(ImageOf(nx, val, c))]
Unwritten(img) == img = [size |-> 0, fields |-> <<>>]
ImageSound(img) == Unwritten(img) \/ \E nx, val, al, c : Pictures(img, nx, val, al, c)

IInv == Sound(next, value, allocated) /\ ImageSound(image)

LEMMA Reading ==
  ASSUME NEW img, NEW nx, NEW val, NEW al, NEW c, Pictures(img, nx, val, al, c)
  PROVE  /\ SkiplistParse(img.fields) = ImageOf(nx, val, c)
         /\ img.size \in Nat /\ img.size = Bytes(img.fields)
<1>1. ImageOf(nx, val, c) \in Seq(NodeImages)
  BY ImageType DEF Pictures
<1>. QED
  BY <1>1, ImageRoundTrip DEF Pictures

LEMMA ReadingUnwritten ==
  ASSUME NEW img, Unwritten(img)
  PROVE  SkiplistParse(img.fields) = <<>> /\ img.size = 0 /\ Bytes(img.fields) = 0
<1>1. Subs(<<>>, 1) = <<>>
  <2>1. Len(<<>>) = 0 /\ Len(SubsOf(<<>>, 1)) = 0
    BY DEF SubsOf
  <2>2. Subs(<<>>, 1) = Flat(SubsOf(<<>>, 1))
    BY <2>1, SubsIs
  <2>. QED
    BY <2>1, <2>2, FlatEmpty
<1>2. SkiplistParse(<<>>) = <<>>
  <2>1. SkiplistParse(<<>>) = <<>> \o [i \in DOMAIN Subs(<<>>, 1) |-> NodeParse(Subs(<<>>, 1)[i])]
    BY DEF SkiplistParse, NewSkiplist, Each
  <2>2. [i \in DOMAIN Subs(<<>>, 1) |-> NodeParse(Subs(<<>>, 1)[i])] = <<>>
    BY <1>1
  <2>. QED
    BY <2>1, <2>2
<1>. QED
  BY <1>2, BytesEmpty DEF Unwritten

\* An empty list.
LEMMA EmptySound ==
  Sound(NoLinks, [k \in Keys |-> 0], {})
<1>. DEFINE on == [i \in Levels |-> {}]
<1>1. on \in [Levels -> SUBSET Keys] /\ on[0] = {} /\ \A i \in Levels : on[i] = {}
  BY LevelNumbers
<1>2. NoLinks \in [Levels -> [Nodes -> Keys \cup {null}]]
      /\ \A i \in Levels, n \in Nodes : NoLinks[i][n] = null
  BY DEF NoLinks
<1>3. \A i \in Levels : Lists(NoLinks[i], {})
  BY <1>2, Names, FS_EmptySet DEF Lists, LinkOf
<1>4. Levelled(NoLinks, on)
  BY <1>1, <1>2, <1>3, LevelNumbers DEF Levelled
<1>. QED
  BY <1>1, <1>4 DEF Sound

LEMMA InitSound == Init => IInv
  BY EmptySound DEF Init, IInv, ImageSound, Unwritten

LEMMA AddSound ==
  ASSUME Sound(next, value, allocated), NEW k \in Keys, NEW v \in Values, add(k, v)
  PROVE  /\ Sound(next', value', allocated') /\ image' = image
         /\ value' = [value EXCEPT ![k] = v] /\ allocated' = allocated \cup {k}
<1>. DEFINE pre == FindIn(next, k)
<1>1. PICK on : Levelled(next, on) /\ on[0] = allocated
  BY DEF Sound
<1>2. value' \in [Keys -> Values \cup {0}] /\ value' = [value EXCEPT ![k] = v] /\ image' = image
  BY DEF Sound, add
<1>3. k \in on[0] <=> next[0][pre[0]] = k
  BY <1>1, FoundOn, LevelNumbers
<1>4. CASE next[0][pre[0]] = k
  <2>1. next' = next /\ allocated' = allocated
    BY <1>4, FindIs DEF add
  <2>. QED
    BY <1>1, <1>2, <1>3, <1>4, <2>1 DEF Sound
<1>5. CASE next[0][pre[0]] # k
  <2>1. /\ allocated' = allocated \cup {k}
        /\ \E h \in 1..Level : next' = [i \in Levels |->
             IF i \in Linked(h) THEN Spliced(i, k, pre[i]) ELSE next[i]]
    BY <1>5, FindIs DEF add
  <2>2. PICK h \in 1..Level : next' = [i \in Levels |->
             IF i \in Linked(h) THEN Spliced(i, k, pre[i]) ELSE next[i]]
    BY <2>1
  <2>. DEFINE low == [i \in Levels |-> IF i \in Linked(h) THEN on[i] \cup {k} ELSE on[i]]
  <2>3. ASSUME NEW i \in Levels
        PROVE  /\ Lists(next[i], on[i]) /\ on[i] \subseteq Keys
               /\ EndsAt(on[i], k, pre[i]) /\ k \notin on[i]
    <3>1. Lists(next[i], on[i]) /\ on[i] \subseteq Keys
      BY <1>1 DEF Levelled
    <3>2. EndsAt(on[i], k, pre[i])
      BY <1>1, FindEnds, Names
    <3>3. k \notin on[i]
      BY <1>1, <1>3, <1>5, OnBelow
    <3>. QED
      BY <3>1, <3>2, <3>3
  <2>. HIDE DEF pre
  <2>4. ASSUME NEW i \in Levels
        PROVE  Lists(next'[i], low[i]) /\ low[i] \subseteq Keys
    <3>1. CASE i \in Linked(h)
      <4>1. Lists([next[i] EXCEPT ![k] = next[i][pre[i]], ![pre[i]] = k], on[i] \cup {k})
        BY <2>3, SpliceLists
      <4>2. next'[i] = [next[i] EXCEPT ![k] = next[i][pre[i]], ![pre[i]] = k]
        BY <2>2, <3>1 DEF Spliced
      <4>. QED
        BY <2>3, <3>1, <4>1, <4>2
    <3>2. CASE i \notin Linked(h)
      BY <2>2, <2>3, <3>2
    <3>. QED
      BY <3>1, <3>2
  <2>5. next' \in [Levels -> [Nodes -> Keys \cup {null}]]
    <3>1. next' = [i \in Levels |-> next'[i]]
      BY <2>2
    <3>. QED
      BY <2>4, <3>1 DEF Lists
  <2>6. 0 \in Linked(h) /\ \A i \in Linked(h) : i # 0 => i - 1 \in Linked(h)
    BY LevelNumbers DEF Linked
  <2>7. ASSUME NEW i \in Levels \ {0} PROVE low[i] \subseteq low[i - 1]
    <3>1. on[i] \subseteq on[i - 1] /\ i - 1 \in Levels
      BY <1>1, <2>7, LevelNumbers DEF Levelled
    <3>. QED
      BY <2>6, <2>7, <3>1
  <2>8. Levelled(next', low)
    BY <2>4, <2>5, <2>7 DEF Levelled
  <2>9. low[0] = allocated'
    BY <1>1, <2>1, <2>6, LevelNumbers
  <2>. HIDE DEF low
  <2>. QED
    BY <1>2, <2>1, <2>8, <2>9 DEF Sound
<1>. QED
  BY <1>4, <1>5

LEMMA EraseSound ==
  ASSUME Sound(next, value, allocated), NEW k \in Keys, erase(k)
  PROVE  /\ Sound(next', value', allocated') /\ image' = image
         /\ value' = [value EXCEPT ![k] = 0] /\ allocated' = allocated \ {k}
<1>. DEFINE pre == FindIn(next, k)
<1>1. PICK on : Levelled(next, on) /\ on[0] = allocated
  BY DEF Sound
<1>2. /\ value' \in [Keys -> Values \cup {0}] /\ value' = [value EXCEPT ![k] = 0]
      /\ image' = image /\ allocated' = allocated \ {k}
  BY DEF Sound, erase
<1>3. next' = [i \in Levels |->
        IF i \in Unlinked(k, pre)
        THEN [next[i] EXCEPT ![pre[i]] = next[i][k], ![k] = null]
        ELSE [next[i] EXCEPT ![k] = null]]
  BY FindIs DEF erase
<1>4. ASSUME NEW i \in Levels
      PROVE  /\ Lists(next[i], on[i]) /\ on[i] \subseteq Keys /\ EndsAt(on[i], k, pre[i])
             /\ k \in on[i] <=> next[i][pre[i]] = k
  BY <1>1, FindEnds, FoundOn, Names DEF Levelled
<1>. HIDE DEF pre
<1>5. Unlinked(k, pre) = {i \in Levels : k \in on[i]}
  <2>1. ASSUME NEW i \in Levels, k \in on[i], NEW j \in 0..i PROVE next[j][pre[j]] = k
    <3>. DEFINE Bad == {d \in Nat : d <= i /\ k \notin on[i - d]}
    <3>1. i \in Nat /\ j \in Levels /\ i - j \in Nat /\ i - j <= i /\ i - (i - j) = j
      BY LevelNumbers DEF Levels
    <3>2. SUFFICES ASSUME Bad # {} PROVE FALSE
      BY <1>4, <3>1
    <3>3. PICK d \in Bad : \A y \in Bad : d <= y
      BY <3>2, LeastNat
    <3>4. d # 0
      BY <2>1, <3>1, <3>3
    <3>5. d - 1 \in Nat /\ ~(d <= d - 1) /\ d - 1 <= i
      BY <3>1, <3>3, <3>4
    <3>6. k \in on[i - (d - 1)]
      BY <3>3, <3>5
    <3>7. i - (d - 1) \in Levels \ {0} /\ (i - (d - 1)) - 1 = i - d
      <4>1. d \in Nat /\ d <= i /\ Level - 1 \in Int /\ i <= Level - 1
        BY <3>3, LevelNumbers
      <4>. HIDE DEF Bad
      <4>. QED
        BY <3>1, <3>4, <4>1 DEF Levels
    <3>8. on[i - (d - 1)] \subseteq on[i - d]
      BY <1>1, <3>7 DEF Levelled
    <3>. QED
      BY <3>3, <3>6, <3>8
  <2>2. \A i \in Levels : i \in 0..i
    BY LevelNumbers
  <2>3. \A i \in Levels : k \in on[i] <=> \A j \in 0..i : next[j][pre[j]] = k
    BY <1>4, <2>1, <2>2
  <2>. QED
    BY <2>3 DEF Unlinked
<1>. DEFINE low == [i \in Levels |-> on[i] \ {k}]
<1>6. ASSUME NEW i \in Levels
      PROVE  Lists(next'[i], low[i]) /\ low[i] \subseteq Keys
  <2>1. CASE k \in on[i]
    <3>1. Lists([next[i] EXCEPT ![pre[i]] = next[i][k], ![k] = null], on[i] \ {k})
      BY <1>4, <2>1, UnlinkLists
    <3>2. next'[i] = [next[i] EXCEPT ![pre[i]] = next[i][k], ![k] = null]
      BY <1>3, <1>5, <2>1
    <3>. QED
      BY <1>4, <3>1, <3>2
  <2>2. CASE k \notin on[i]
    <3>1. next[i] \in [Nodes -> Keys \cup {null}] /\ next[i][k] = null
      BY <1>4, <2>2, Names DEF Lists
    <3>2. [next[i] EXCEPT ![k] = null] = next[i]
      BY <3>1
    <3>3. next'[i] = next[i]
      BY <1>3, <1>5, <2>2, <3>2
    <3>4. on[i] \ {k} = on[i]
      BY <2>2
    <3>. QED
      BY <1>4, <3>3, <3>4
  <2>. QED
    BY <2>1, <2>2
<1>7. next' \in [Levels -> [Nodes -> Keys \cup {null}]]
  <2>1. next' = [i \in Levels |-> next'[i]]
    BY <1>3
  <2>. QED
    BY <1>6, <2>1 DEF Lists
<1>8. ASSUME NEW i \in Levels \ {0} PROVE low[i] \subseteq low[i - 1]
  <2>1. on[i] \subseteq on[i - 1] /\ i - 1 \in Levels
    BY <1>1, <1>8, LevelNumbers DEF Levelled
  <2>. QED
    BY <1>8, <2>1
<1>9. Levelled(next', low)
  BY <1>6, <1>7, <1>8 DEF Levelled
<1>10. low[0] = allocated'
  BY <1>1, <1>2, LevelNumbers
<1>. HIDE DEF low
<1>. QED
  BY <1>2, <1>9, <1>10 DEF Sound

LEMMA ImageIs ==
  ASSUME Sound(next, value, allocated)
  PROVE  /\ Image = ImageOf(next, value, ChainIn(next[0]))
         /\ Enumerates(ChainIn(next[0]), allocated)
<1>. DEFINE c == ChainIn(next[0])
<1>1. Lists(next[0], allocated)
  BY SoundParts
<1>2. Path(next[0], head, c)
  BY <1>1, ChainPath
<1>3. Enumerates(c, allocated)
  BY <1>1, <1>2, PathEnumerates
<1>4. DOMAIN c = 1..Len(c)
  BY <1>3, SeqElements DEF Enumerates
<1>5. Image = [i \in DOMAIN c |-> NodeImage(c[i])]
  BY ChainIs DEF Image, Each
<1>. HIDE DEF c
<1>6. Image = ImageOf(next, value, c)
  BY <1>4, <1>5 DEF ImageOf, NodeImage, NodeImageOf
<1>. QED
  BY <1>3, <1>6 DEF c

LEMMA SerializeSound ==
  ASSUME Sound(next, value, allocated), serialize
  PROVE  /\ Sound(next', value', allocated') /\ next' = next /\ value' = value
         /\ allocated' = allocated
         /\ \E c : Pictures(image', next, value, allocated, c)
<1>1. next' = next /\ value' = value /\ allocated' = allocated
  BY DEF serialize
<1>2. image' = [size |-> SkiplistByteSizeLong(Image), fields |-> SkiplistSerialize(Image)]
  BY DEF serialize
<1>3. Pictures(image', next, value, allocated, ChainIn(next[0]))
  BY <1>2, ImageIs DEF Pictures
<1>. QED
  BY <1>1, <1>3

LEMMA DeserializeSound ==
  ASSUME NoMarks, ImageSound(image), deserialize
  PROVE  \E nx, val, al, c :
           /\ Pictures(image, nx, val, al, c) /\ Sound(next', value', allocated')
           /\ next' = nx /\ allocated' = al /\ image' = image
           /\ \A k \in al : value'[k] = val[k] /\ val[k] \notin Mangled
<1>1. PICK nx, val, al, c : Pictures(image, nx, val, al, c)
  <2>1. image.size # 0
    BY DEF deserialize, Parsed
  <2>. QED
    BY <2>1 DEF ImageSound, Unwritten
<1>. DEFINE nodes == ImageOf(nx, val, c)
<1>2. Sound(nx, val, al) /\ Enumerates(c, al) /\ ImageNodes = nodes
  BY <1>1, Reading DEF Pictures, ImageNodes
<1>. HIDE DEF nodes
<1>3. /\ allocated' = {k \in Keys : OfKey(nodes, k) # {}}
      /\ value' = [k \in Keys |-> IF OfKey(nodes, k) = {} THEN 0
                                  ELSE nodes[Max(OfKey(nodes, k))].value]
      /\ next' = [i \in Levels |-> [n \in Nodes |-> Restored(nodes, i, Key(n))]]
      /\ image' = image
  BY <1>2 DEF deserialize
<1>4. al \subseteq Keys /\ val \in [Keys -> Values \cup {0}]
      /\ nx \in [Levels -> [Nodes -> Keys \cup {null}]]
  BY <1>2, SoundParts
<1>5. \A k \in Keys : /\ OfKey(nodes, k) # {} <=> k \in al
                      /\ k \in al => nodes[Max(OfKey(nodes, k))].value = val[k]
  BY <1>2, ValuesReadBack DEF nodes
<1>v. ASSUME NEW k \in al PROVE val[k] \notin Mangled
  <2>1. VerifyUTF8(nodes)
    BY <1>2 DEF deserialize
  <2>2. k \in Nodes /\ k # head
    BY <1>4, Names
  <2>3. PICK j \in 1..Len(c) : c[j] = k
    BY <1>2 DEF Enumerates
  <2>4. j \in DOMAIN nodes /\ nodes[j].value = val[k]
    BY <2>2, <2>3 DEF nodes, ImageOf, NodeImageOf
  <2>. QED
    BY <2>1, <2>4 DEF VerifyUTF8
<1>6. allocated' = al
  BY <1>3, <1>4, <1>5
<1>7. value' \in [Keys -> Values \cup {0}] /\ \A k \in al : value'[k] = val[k]
  BY <1>3, <1>4, <1>5
<1>8. next' = nx
  <2>1. \A i \in Levels, n \in Nodes : Restored(nodes, i, Key(n)) = nx[i][n]
    BY <1>2, LinksReadBack DEF nodes
  <2>2. next' = [i \in Levels |-> [n \in Nodes |-> nx[i][n]]]
    BY <1>3, <2>1
  <2>. QED
    BY <1>4, <2>2
<1>9. Sound(next', value', allocated')
  BY <1>2, <1>6, <1>7, <1>8 DEF Sound
<1>10. /\ Pictures(image, nx, val, al, c) /\ Sound(next', value', allocated')
       /\ next' = nx /\ allocated' = al /\ image' = image
       /\ \A k \in al : value'[k] = val[k] /\ val[k] \notin Mangled
  BY <1>1, <1>3, <1>6, <1>7, <1>8, <1>9, <1>v
<1>. QED
  BY <1>10, Zenon

LEMMA NextSound ==
  ASSUME NoMarks, IInv, [Next]_vars
  PROVE  IInv'
<1>1. Sound(next, value, allocated) /\ ImageSound(image)
  BY DEF IInv
<1>2. ASSUME NEW k \in Keys, NEW v \in Values, add(k, v) PROVE IInv'
  BY <1>1, <1>2, AddSound DEF IInv
<1>3. ASSUME NEW k \in Keys, erase(k) PROVE IInv'
  BY <1>1, <1>3, EraseSound DEF IInv
<1>4. CASE clear
  BY <1>1, <1>4, EmptySound DEF IInv, clear
<1>5. CASE serialize
  BY <1>1, <1>5, SerializeSound DEF IInv, ImageSound
<1>6. CASE deserialize
  BY <1>1, <1>6, DeserializeSound DEF IInv
<1>7. CASE UNCHANGED vars
  BY <1>1, <1>7 DEF IInv, vars
<1>. QED
  BY <1>2, <1>3, <1>4, <1>5, <1>6, <1>7 DEF Next

\* Whatever is added, erased, saved and read back, the links are those of a
\* skip list, and the image is that of one.
THEOREM Invariant ==
  ASSUME NoMarks
  PROVE  Spec => []IInv
<1>1. Init => IInv
  BY InitSound
<1>2. IInv /\ [Next]_vars => IInv'
  BY NextSound
<1>. QED
  BY <1>1, <1>2, PTL DEF Spec

-----------------------------------------------------------------------------
(* What follows from it.                                                   *)

LEMMA SoundTypes == IInv => TypeOK
<1>. SUFFICES ASSUME IInv PROVE TypeOK
  OBVIOUS
<1>1. Sound(next, value, allocated) /\ ImageSound(image)
  BY DEF IInv
<1>2. /\ next \in [Levels -> [Nodes -> Keys \cup {null}]]
      /\ value \in [Keys -> Values \cup {0}] /\ allocated \subseteq Keys
  BY <1>1, SoundParts
<1>3. image.size \in Nat /\ \A j \in DOMAIN ImageNodes :
        /\ ImageNodes[j].key \in Keys \cup {-1}
        /\ ImageNodes[j].next \in [1..Level -> Keys \cup {-2}]
  <2>1. CASE Unwritten(image)
    BY <2>1, ReadingUnwritten DEF ImageNodes
  <2>2. ASSUME NEW nx, NEW val, NEW al, NEW c, Pictures(image, nx, val, al, c)
        PROVE  image.size \in Nat /\ \A j \in DOMAIN ImageNodes :
                 /\ ImageNodes[j].key \in Keys \cup {-1}
                 /\ ImageNodes[j].next \in [1..Level -> Keys \cup {-2}]
    <3>1. ImageNodes = ImageOf(nx, val, c) /\ image.size \in Nat
          /\ Sound(nx, val, al) /\ Enumerates(c, al)
      BY <2>2, Reading DEF ImageNodes, Pictures
    <3>2. ASSUME NEW j \in DOMAIN ImageNodes
          PROVE  /\ ImageNodes[j].key \in Keys \cup {-1}
                 /\ ImageNodes[j].next \in [1..Level -> Keys \cup {-2}]
      <4>1. ImageNodes[j] = NodeImageOf(nx, val, c[j]) /\ c[j] \in al \cup {head}
        BY <3>1, ImageType
      <4>2. c[j] \in Nodes
        BY <3>1, <4>1, SoundParts, Names
      <4>. QED
        BY <3>1, <4>1, <4>2, NodeImageType, KeyType
    <3>. QED
      BY <3>1, <3>2
  <2>. QED
    BY <1>1, <2>1, <2>2 DEF ImageSound
<1>. QED
  BY <1>2, <1>3 DEF TypeOK

LEMMA SoundLevels == IInv => LevelsNested
<1>. SUFFICES ASSUME IInv PROVE LevelsNested
  OBVIOUS
<1>. DEFINE linked(i) == {n \in allocated : \E m \in allocated \cup {head} : next[i][m] = n}
<1>1. PICK on : Levelled(next, on) /\ on[0] = allocated
  BY DEF IInv, Sound
<1>2. ASSUME NEW i \in Levels PROVE linked(i) = on[i]
  <2>1. Lists(next[i], on[i]) /\ on[i] \subseteq allocated /\ on[i] \subseteq Keys
    BY <1>1, OnBelow DEF Levelled
  <2>2. allocated \subseteq Keys
    BY <1>1, LevelNumbers DEF Levelled
  <2>3. ASSUME NEW n \in allocated, NEW m \in allocated \cup {head}, next[i][m] = n
        PROVE  n \in on[i]
    <3>1. m \in Nodes /\ n # null
      BY <2>2, Names
    <3>. QED
      BY <2>1, <2>3, <3>1 DEF Lists, LinkOf
  <2>4. ASSUME NEW n \in on[i]
        PROVE  \E m \in allocated \cup {head} : next[i][m] = n
    <3>1. next[i][FindIn(next, n)[i]] = n
      BY <1>1, <2>1, FoundOn
    <3>2. FindIn(next, n)[i] \in on[i] \cup {head}
      BY <1>1, <2>1, FindEnds, Names DEF EndsAt
    <3>. QED
      BY <2>1, <3>1, <3>2
  <2>. QED
    BY <2>1, <2>3, <2>4
<1>3. linked(0) = allocated
  BY <1>1, <1>2, LevelNumbers
<1>4. \A i \in Levels \ {0} : linked(i) \subseteq linked(i - 1)
  BY <1>1, <1>2, LevelNumbers DEF Levelled
<1>5. ASSUME NEW i \in Levels, NEW n \in allocated, next[i][n] # null
      PROVE  n \in linked(i) /\ n < next[i][n]
  <2>1. Lists(next[i], on[i]) /\ n \in Keys
    BY <1>1, LevelNumbers DEF Levelled
  <2>2. n \in on[i] /\ n # head
    BY <1>5, <2>1, Names DEF Lists
  <2>3. After(n, next[i][n])
    BY <1>5, <2>1, <2>2 DEF Lists, LinkOf
  <2>. QED
    BY <1>2, <2>2, <2>3 DEF After
<1>. QED
  BY <1>3, <1>4, <1>5 DEF LevelsNested

LEMMA SoundDangling == IInv => NoDangling
<1>. SUFFICES ASSUME IInv PROVE NoDangling
  OBVIOUS
<1>1. Sound(next, value, allocated)
  BY DEF IInv
<1>. QED
  BY <1>1, SoundParts DEF NoDangling

LEMMA SoundSizes == IInv => SizeRecorded
  BY Reading, ReadingUnwritten DEF IInv, ImageSound, SizeRecorded

\* Every variable of the skip list has its type, the nodes read from the block
\* included.
THEOREM TypeCorrect ==
  ASSUME NoMarks
  PROVE  Spec => []TypeOK
  BY Invariant, SoundTypes, PTL

\* Level 0 links every node in the order of the keys, and each level is a
\* sublist of the one below: what find relies on.
THEOREM SearchLevels ==
  ASSUME NoMarks
  PROVE  Spec => []LevelsNested
  BY Invariant, SoundLevels, PTL

\* erase leaves no link to the node it deletes.
THEOREM NoLinkToDeleted ==
  ASSUME NoMarks
  PROVE  Spec => []NoDangling
  BY Invariant, SoundDangling, PTL

\* The length written in front of an image is the number of its bytes.
THEOREM SizeIsRecorded ==
  ASSUME NoMarks
  PROVE  Spec => []SizeRecorded
  BY Invariant, SoundSizes, PTL

-----------------------------------------------------------------------------
(* The refinement of the map that can be saved and read back.              *)

MapOf(al, val) == [k \in Keys |-> IF k \in al THEN val[k] ELSE null]

ContentsOf(nx, val) ==
  [k \in Keys |-> IF nx[0][FindIn(nx, k)[0]] = k THEN val[k] ELSE null]
SavedOf(nodes) ==
  [k \in Keys |-> LET J == OfKey(nodes, k) \ {1}
                  IN IF J = {} THEN null ELSE nodes[Max(J)].value]

LEMMA ContentsSound ==
  ASSUME NEW nx, NEW val, NEW al, Sound(nx, val, al)
  PROVE  ContentsOf(nx, val) = MapOf(al, val)
<1>1. PICK on : Levelled(nx, on) /\ on[0] = al
  BY DEF Sound
<1>2. \A k \in Keys : k \in al <=> nx[0][FindIn(nx, k)[0]] = k
  BY <1>1, FoundOn, LevelNumbers
<1>. QED
  BY <1>2 DEF ContentsOf, MapOf

LEMMA SavedSound ==
  ASSUME NoMarks, NEW img, NEW nx, NEW val, NEW al, NEW c, Pictures(img, nx, val, al, c)
  PROVE  SavedOf(SkiplistParse(img.fields)) = MapOf(al, val)
<1>. DEFINE nodes == ImageOf(nx, val, c)
<1>1. SkiplistParse(img.fields) = nodes /\ Sound(nx, val, al) /\ Enumerates(c, al)
  BY Reading DEF Pictures
<1>2. \A k \in Keys : /\ OfKey(nodes, k) # {} <=> k \in al
                      /\ 1 \notin OfKey(nodes, k)
                      /\ k \in al => nodes[Max(OfKey(nodes, k))].value = val[k]
  BY <1>1, ValuesReadBack
<1>. HIDE DEF nodes
<1>3. \A k \in Keys : OfKey(nodes, k) \ {1} = OfKey(nodes, k)
  BY <1>2
<1>. QED
  BY <1>1, <1>2, <1>3 DEF SavedOf, MapOf

LEMMA SavedUnwritten ==
  ASSUME NEW img, Unwritten(img)
  PROVE  SavedOf(SkiplistParse(img.fields)) = [k \in Keys |-> null]
<1>1. SkiplistParse(img.fields) = <<>>
  BY ReadingUnwritten
<1>2. \A k \in Keys : OfKey(<<>>, k) \ {1} = {}
  BY DEF OfKey
<1>. QED
  BY <1>1, <1>2 DEF SavedOf

LEMMA ContentsIs == Contents = ContentsOf(next, value) /\ Contents' = ContentsOf(next', value')
  BY DEF Contents, ContentsOf, find, FindIn, FindFrom, Walk, WalkIn, WalkFrom

LEMMA OnlyMember ==
  ASSUME NEW a
  PROVE  (CHOOSE x \in {a} : TRUE) = a
  OBVIOUS

LEMMA SavedIs ==
  /\ Saved = SavedOf(SkiplistParse(image.fields))
  /\ Saved' = SavedOf(SkiplistParse(image'.fields))
<1>1. \A N : {SavedOf(nodes) : nodes \in {N}} = {SavedOf(N)}
  OBVIOUS
<1>2. Saved = CHOOSE saved \in {SavedOf(nodes) : nodes \in {ImageNodes}} : TRUE
  BY DEF Saved, SavedOf
<1>3. Saved' = CHOOSE saved \in {SavedOf(nodes) : nodes \in {ImageNodes'}} : TRUE
  BY DEF Saved, SavedOf
<1>. QED
  BY <1>1, <1>2, <1>3, OnlyMember DEF ImageNodes

LEMMA InitMaps == Init => Map!Init
<1>. SUFFICES ASSUME Init PROVE Map!Init
  OBVIOUS
<1>1. Contents = MapOf({}, value)
  <2>1. Sound(next, value, {})
    BY EmptySound DEF Init
  <2>. QED
    BY <2>1, ContentsSound, ContentsIs
<1>2. Saved = [k \in Keys |-> null]
  BY SavedIs, SavedUnwritten DEF Init, Unwritten
<1>. QED
  BY <1>1, <1>2 DEF MapOf, Map!Init, Map!Empty

LEMMA StepMaps ==
  ASSUME NoMarks, IInv, [Next]_vars
  PROVE  [Map!Next]_(Map!vars)
<1>1. Sound(next, value, allocated) /\ ImageSound(image) /\ allocated \subseteq Keys
      /\ value \in [Keys -> Values \cup {0}]
  BY SoundParts DEF IInv
<1>2. Contents = MapOf(allocated, value)
  BY <1>1, ContentsSound, ContentsIs
<1>3. ASSUME Sound(next', value', allocated') PROVE Contents' = MapOf(allocated', value')
  BY <1>3, ContentsSound, ContentsIs
<1>4. ASSUME image' = image PROVE Saved' = Saved
  BY <1>4, SavedIs
<1>5. ASSUME NEW k \in Keys, NEW v \in Values, add(k, v) PROVE Map!Next
  <2>1. /\ Sound(next', value', allocated') /\ image' = image
        /\ value' = [value EXCEPT ![k] = v] /\ allocated' = allocated \cup {k}
    BY <1>1, <1>5, AddSound
  <2>2. Contents' = [Contents EXCEPT ![k] = v]
    BY <1>1, <1>2, <1>3, <2>1 DEF MapOf
  <2>3. Map!Put(k, v)
    BY <1>4, <2>1, <2>2 DEF Map!Put
  <2>. QED
    BY <2>3 DEF Map!Next
<1>6. ASSUME NEW k \in Keys, erase(k) PROVE Map!Next
  <2>1. /\ Sound(next', value', allocated') /\ image' = image
        /\ value' = [value EXCEPT ![k] = 0] /\ allocated' = allocated \ {k}
    BY <1>1, <1>6, EraseSound
  <2>2. Contents' = [Contents EXCEPT ![k] = null]
    BY <1>1, <1>2, <1>3, <2>1 DEF MapOf
  <2>3. Map!Erase(k)
    BY <1>4, <2>1, <2>2 DEF Map!Erase
  <2>. QED
    BY <2>3 DEF Map!Next
<1>7. CASE clear
  <2>1. Sound(next', value', allocated') /\ allocated' = {} /\ image' = image
    BY <1>7, EmptySound DEF clear
  <2>2. Contents' = [k \in Keys |-> null]
    BY <1>3, <2>1 DEF MapOf
  <2>3. Map!Clear
    BY <1>4, <2>1, <2>2 DEF Map!Clear, Map!Empty
  <2>. QED
    BY <2>3 DEF Map!Next
<1>8. CASE serialize
  <2>1. /\ Sound(next', value', allocated') /\ value' = value /\ allocated' = allocated
        /\ \E c : Pictures(image', next, value, allocated, c)
    BY <1>1, <1>8, SerializeSound
  <2>2. Saved' = MapOf(allocated, value)
    BY <2>1, SavedSound, SavedIs
  <2>3. Map!Save
    BY <1>2, <1>3, <2>1, <2>2 DEF Map!Save
  <2>. QED
    BY <2>3 DEF Map!Next
<1>9. CASE deserialize
  <2>1. PICK nx, val, al, c :
          /\ Pictures(image, nx, val, al, c) /\ Sound(next', value', allocated')
          /\ next' = nx /\ allocated' = al /\ image' = image
          /\ \A k \in al : value'[k] = val[k] /\ val[k] \notin Mangled
    BY <1>1, <1>9, DeserializeSound
  <2>2. Saved = MapOf(al, val)
    BY <2>1, SavedSound, SavedIs
  <2>3. Contents' = MapOf(al, val)
    BY <1>3, <2>1 DEF MapOf
  <2>4. \A k \in Keys : Saved[k] \notin Mangled
    <3>1. null \notin Mangled
      <4>1. null \notin Int
        BY Names
      <4>2. \A x \in Mangled : x \in Nat
        BY SkiplistAssumption
      <4>. QED
        BY <4>1, <4>2
    <3>. HIDE DEF Saved
    <3>2. ASSUME NEW k \in Keys PROVE Saved[k] \notin Mangled
      <4>1. Saved[k] = IF k \in al THEN val[k] ELSE null
        BY <2>2 DEF MapOf
      <4>. QED
        BY <2>1, <3>1, <4>1
    <3>. QED
      BY <3>2
  <2>5. Map!Load
    BY <1>4, <2>1, <2>2, <2>3, <2>4 DEF Map!Load
  <2>. QED
    BY <2>5 DEF Map!Next
<1>10. CASE UNCHANGED vars
  <2>1. Contents' = Contents
    BY <1>10, ContentsIs DEF vars
  <2>. QED
    BY <1>4, <1>10, <2>1 DEF vars, Map!vars
<1>. QED
  BY <1>5, <1>6, <1>7, <1>8, <1>9, <1>10 DEF Next

\* The skip list implements a map that can be saved in a block and read back:
\* whatever coins were thrown, add, erase and search act on the same map, and
\* deserialize restores the one that serialize wrote.
THEOREM Refinement ==
  ASSUME NoMarks
  PROVE  Spec => ImplementsKeyMap
<1>1. Init => Map!Init
  BY InitMaps
<1>2. IInv /\ [Next]_vars => [Map!Next]_(Map!vars)
  BY StepMaps
<1>. QED
  BY <1>1, <1>2, Invariant, PTL DEF Spec, ImplementsKeyMap, Map!Spec
=============================================================================
