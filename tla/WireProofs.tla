----------------------------- MODULE WireProofs -----------------------------
(***************************************************************************)
(* Facts about the wire format: what is joined and what is added, and what *)
(* is read back from fields that were written one after the other.  The    *)
(* sequences are of any length; induction over it takes a counterexample   *)
(* of least length.                                                        *)
(***************************************************************************)
EXTENDS SkiplistMessages, SequenceTheorems, WellFoundedInduction, TLAPS

\* Every nonempty set of natural numbers has a least element.
LEMMA LeastNat ==
  ASSUME NEW T, T \subseteq Nat, T # {}
  PROVE  \E n \in T : \A m \in T : n <= m
<1>1. PICK n \in T : \A m \in T : <<m, n>> \notin OpToRel(<, Nat)
  BY NatLessThanWellFounded, WFMin
<1>2. ASSUME NEW m \in T PROVE n <= m
  <2>1. n \in Nat /\ m \in Nat /\ ~(m < n)
    BY <1>1 DEF OpToRel
  <2>. QED
    BY <2>1
<1>. QED
  BY <1>2

\* A sequence is made of its elements.
LEMMA SeqElements ==
  ASSUME NEW X, NEW s \in Seq(X)
  PROVE  /\ Len(s) \in Nat /\ DOMAIN s = 1..Len(s)
         /\ \A i \in 1..Len(s) : s[i] \in X
  OBVIOUS

LEMMA LenNat ==
  ASSUME NEW X, NEW s \in Seq(X)
  PROVE  Len(s) \in Nat
  OBVIOUS

LEMMA FunctionIsSeq ==
  ASSUME NEW X, NEW n \in Nat, NEW s, s = [i \in 1..n |-> s[i]],
         \A i \in 1..n : s[i] \in X
  PROVE  s \in Seq(X) /\ Len(s) = n
  OBVIOUS

Alike(t, u, n) == \A i \in 1..n : t[i] = u[i]

\* The elements of a concatenation.
LEMMA Concat ==
  ASSUME NEW X, NEW s \in Seq(X), NEW t \in Seq(X)
  PROVE  /\ s \o t \in Seq(X) /\ Len(s \o t) = Len(s) + Len(t)
         /\ \A i \in 1..Len(s) : (s \o t)[i] = s[i]
         /\ \A i \in 1..Len(t) : (s \o t)[Len(s) + i] = t[i]
  OBVIOUS

Joins(s, t, u) == /\ Len(u) = Len(s) + Len(t) /\ \A i \in 1..Len(s) : u[i] = s[i]
                  /\ \A i \in 1..Len(t) : u[Len(s) + i] = t[i]

LEMMA Joined ==
  ASSUME NEW X, NEW s \in Seq(X), NEW t \in Seq(X), NEW u \in Seq(X), Joins(s, t, u)
  PROVE  u = s \o t
  BY DEF Joins

LEMMA ConcatEmpty ==
  ASSUME NEW X, NEW s \in Seq(X)
  PROVE  s \o <<>> = s /\ <<>> \o s = s
  OBVIOUS

Associates(s, t, u) == (s \o t) \o u = s \o (t \o u)

LEMMA Associative ==
  ASSUME NEW X, NEW s \in Seq(X), NEW t \in Seq(X), NEW u \in Seq(X)
  PROVE  Associates(s, t, u)
  BY ConcatAssociative DEF Associates

\* A sequence without its last element.
LEMMA ShorterSeq ==
  ASSUME NEW X, NEW s \in Seq(X), Len(s) # 0
  PROVE  \E u \in Seq(X) : /\ Len(u) = Len(s) - 1 /\ Alike(u, s, Len(u))
                           /\ s = u \o <<s[Len(s)]>>
<1>. DEFINE u == [i \in 1..(Len(s) - 1) |-> s[i]]
<1>1. Len(s) \in Nat /\ Len(s) - 1 \in Nat
  OBVIOUS
<1>2. u \in Seq(X) /\ Len(u) = Len(s) - 1
  BY <1>1
<1>3. \A i \in 1..Len(u) : u[i] = s[i]
  BY <1>2
<1>4. <<s[Len(s)]>> \in Seq(X) /\ Len(<<s[Len(s)]>>) = 1
  BY <1>1
<1>. HIDE DEF u
<1>5. s = u \o <<s[Len(s)]>>
  <2>1. /\ u \o <<s[Len(s)]>> \in Seq(X) /\ Len(u \o <<s[Len(s)]>>) = Len(s)
        /\ \A i \in 1..Len(u) : (u \o <<s[Len(s)]>>)[i] = u[i]
        /\ \A i \in 1..1 : (u \o <<s[Len(s)]>>)[Len(u) + i] = <<s[Len(s)]>>[i]
    BY <1>1, <1>2, <1>4, Concat
  <2>2. ASSUME NEW i \in 1..Len(s) PROVE s[i] = (u \o <<s[Len(s)]>>)[i]
    <3>1. CASE i \in 1..Len(u)
      BY <3>1, <2>1, <1>3
    <3>2. CASE i = Len(u) + 1
      BY <3>2, <2>1, <1>2, <1>1
    <3>. QED
      BY <3>1, <3>2, <1>1, <1>2
  <2>. QED
    BY <2>1, <2>2, SeqEqual
<1>. QED
  BY <1>2, <1>3, <1>5 DEF Alike

-----------------------------------------------------------------------------
(* What joins and adds a sequence: the recursive functions of JoinedOf and *)
(* Added exist and are the only ones.                                      *)

IsJoin(t, n, g) == g = [i \in 0..n |-> IF i = 0 THEN <<>> ELSE g[i - 1] \o t[i]]
IsSum(t, n, g) == g = [i \in 0..n |-> IF i = 0 THEN 0 ELSE g[i - 1] + t[i]]

LEMMA JoinExists ==
  ASSUME NEW t, NEW n \in Nat
  PROVE  \E g : IsJoin(t, n, g)
<1>. DEFINE Bad == {m \in Nat : ~ \E g : IsJoin(t, m, g)}
<1>1. SUFFICES ASSUME Bad # {} PROVE FALSE
  OBVIOUS
<1>2. PICK m \in Bad : \A y \in Bad : m <= y
  BY <1>1, LeastNat
<1>3. CASE m = 0
  <2>1. IsJoin(t, 0, [i \in 0..0 |-> <<>>])
    BY DEF IsJoin
  <2>. QED
    BY <2>1, <1>3
<1>4. CASE m # 0
  <2>1. m - 1 \in Nat /\ ~(m <= m - 1)
    BY <1>4
  <2>2. PICK g : IsJoin(t, m - 1, g)
    BY <2>1, <1>2
  <2>. DEFINE h == [i \in 0..m |-> IF i = m THEN g[m - 1] \o t[m] ELSE g[i]]
  <2>3. ASSUME NEW i \in 0..m
        PROVE  h[i] = IF i = 0 THEN <<>> ELSE h[i - 1] \o t[i]
    <3>1. CASE i = m
      BY <3>1, <2>1
    <3>2. CASE i # m
      <4>1. i \in 0..(m - 1)
            /\ (i # 0 => i - 1 \in 0..(m - 1) /\ i - 1 # m /\ i - 1 \in 0..m)
        BY <3>2, <2>1
      <4>. QED
        BY <4>1, <2>2, <3>2 DEF IsJoin
    <3>. QED
      BY <3>1, <3>2
  <2>4. h = [i \in 0..m |-> h[i]]
    OBVIOUS
  <2>5. IsJoin(t, m, h)
    <3>. HIDE DEF h
    <3>. QED
      BY <2>3, <2>4 DEF IsJoin
  <2>. QED
    BY <2>5
<1>. QED
  BY <1>3, <1>4

LEMMA SumExists ==
  ASSUME NEW t, NEW n \in Nat
  PROVE  \E g : IsSum(t, n, g)
<1>. DEFINE Bad == {m \in Nat : ~ \E g : IsSum(t, m, g)}
<1>1. SUFFICES ASSUME Bad # {} PROVE FALSE
  OBVIOUS
<1>2. PICK m \in Bad : \A y \in Bad : m <= y
  BY <1>1, LeastNat
<1>3. CASE m = 0
  <2>1. IsSum(t, 0, [i \in 0..0 |-> 0])
    BY DEF IsSum
  <2>. QED
    BY <2>1, <1>3
<1>4. CASE m # 0
  <2>1. m - 1 \in Nat /\ ~(m <= m - 1)
    BY <1>4
  <2>2. PICK g : IsSum(t, m - 1, g)
    BY <2>1, <1>2
  <2>. DEFINE h == [i \in 0..m |-> IF i = m THEN g[m - 1] + t[m] ELSE g[i]]
  <2>3. ASSUME NEW i \in 0..m
        PROVE  h[i] = IF i = 0 THEN 0 ELSE h[i - 1] + t[i]
    <3>1. CASE i = m
      BY <3>1, <2>1
    <3>2. CASE i # m
      <4>1. i \in 0..(m - 1)
            /\ (i # 0 => i - 1 \in 0..(m - 1) /\ i - 1 # m /\ i - 1 \in 0..m)
        BY <3>2, <2>1
      <4>. QED
        BY <4>1, <2>2, <3>2 DEF IsSum
    <3>. QED
      BY <3>1, <3>2
  <2>4. h = [i \in 0..m |-> h[i]]
    OBVIOUS
  <2>5. IsSum(t, m, h)
    <3>. HIDE DEF h
    <3>. QED
      BY <2>3, <2>4 DEF IsSum
  <2>. QED
    BY <2>5
<1>. QED
  BY <1>3, <1>4

\* What has been joined, or added, so far depends on the elements so far.
LEMMA JoinPrefix ==
  ASSUME NEW t, NEW u, NEW n \in Nat, NEW m \in Nat, NEW g, NEW h,
         IsJoin(t, n, g), IsJoin(u, m, h), n <= m, Alike(t, u, n),
         NEW i \in 0..n
  PROVE  g[i] = h[i]
<1>. DEFINE Bad == {j \in Nat : j <= n /\ g[j] # h[j]}
<1>1. SUFFICES ASSUME Bad # {} PROVE FALSE
  OBVIOUS
<1>2. PICK j \in Bad : \A y \in Bad : j <= y
  BY <1>1, LeastNat
<1>3. j \in 0..n /\ j \in 0..m
  BY <1>2
<1>4. CASE j = 0
  BY <1>2, <1>3, <1>4 DEF IsJoin
<1>5. CASE j # 0
  <2>1. j - 1 \in Nat /\ j - 1 <= n /\ ~(j <= j - 1) /\ j \in 1..n
    BY <1>3, <1>5
  <2>2. g[j - 1] = h[j - 1]
    BY <1>2, <2>1
  <2>3. g[j] = g[j - 1] \o t[j] /\ h[j] = h[j - 1] \o u[j]
    BY <1>3, <1>5 DEF IsJoin
  <2>. QED
    BY <1>2, <2>1, <2>2, <2>3 DEF Alike
<1>. QED
  BY <1>4, <1>5

LEMMA SumPrefix ==
  ASSUME NEW t, NEW u, NEW n \in Nat, NEW m \in Nat, NEW g, NEW h,
         IsSum(t, n, g), IsSum(u, m, h), n <= m, Alike(t, u, n),
         NEW i \in 0..n
  PROVE  g[i] = h[i]
<1>. DEFINE Bad == {j \in Nat : j <= n /\ g[j] # h[j]}
<1>1. SUFFICES ASSUME Bad # {} PROVE FALSE
  OBVIOUS
<1>2. PICK j \in Bad : \A y \in Bad : j <= y
  BY <1>1, LeastNat
<1>3. j \in 0..n /\ j \in 0..m
  BY <1>2
<1>4. CASE j = 0
  BY <1>2, <1>3, <1>4 DEF IsSum
<1>5. CASE j # 0
  <2>1. j - 1 \in Nat /\ j - 1 <= n /\ ~(j <= j - 1) /\ j \in 1..n
    BY <1>3, <1>5
  <2>2. g[j - 1] = h[j - 1]
    BY <1>2, <2>1
  <2>3. g[j] = g[j - 1] + t[j] /\ h[j] = h[j - 1] + u[j]
    BY <1>3, <1>5 DEF IsSum
  <2>. QED
    BY <1>2, <2>1, <2>2, <2>3 DEF Alike
<1>. QED
  BY <1>4, <1>5

Flat(s) == FlatTo(s, Len(s))

LEMMA FlatIs ==
  ASSUME NEW t, Len(t) \in Nat, NEW g, IsJoin(t, Len(t), g)
  PROVE  Flat(t) = g[Len(t)]
<1>. DEFINE h == CHOOSE h : IsJoin(t, Len(t), h)
<1>1. IsJoin(t, Len(t), h)
  OBVIOUS
<1>2. Len(t) \in 0..Len(t)
  OBVIOUS
<1>3. Flat(t) = h[Len(t)]
  BY DEF Flat, FlatTo, IsJoin
<1>. HIDE DEF h
<1>4. g[Len(t)] = h[Len(t)]
  BY <1>1, <1>2, JoinPrefix DEF Alike
<1>. QED
  BY <1>3, <1>4

LEMMA AddedIs ==
  ASSUME NEW t, Len(t) \in Nat, NEW g, IsSum(t, Len(t), g)
  PROVE  Added(t) = g[Len(t)]
<1>. DEFINE h == CHOOSE h : IsSum(t, Len(t), h)
<1>1. IsSum(t, Len(t), h)
  OBVIOUS
<1>2. Len(t) \in 0..Len(t)
  OBVIOUS
<1>3. Added(t) = h[Len(t)]
  BY DEF Added, IsSum
<1>. HIDE DEF h
<1>4. g[Len(t)] = h[Len(t)]
  BY <1>1, <1>2, SumPrefix DEF Alike
<1>. QED
  BY <1>3, <1>4

\* One element after the other.
LEMMA FlatEmpty ==
  ASSUME NEW t, Len(t) = 0
  PROVE  Flat(t) = <<>>
<1>1. IsJoin(t, 0, [i \in 0..0 |-> <<>>])
  BY DEF IsJoin
<1>. QED
  BY <1>1, FlatIs

LEMMA AddedEmpty ==
  ASSUME NEW t, Len(t) = 0
  PROVE  Added(t) = 0
<1>1. IsSum(t, 0, [i \in 0..0 |-> 0])
  BY DEF IsSum
<1>. QED
  BY <1>1, AddedIs

LEMMA FlatLast ==
  ASSUME NEW t, NEW u, Len(t) \in Nat \ {0}, Len(u) = Len(t) - 1,
         Alike(u, t, Len(u))
  PROVE  Flat(t) = Flat(u) \o t[Len(t)]
<1>0. Len(t) \in Nat /\ Len(u) \in Nat
  OBVIOUS
<1>1. PICK g : IsJoin(t, Len(t), g)
  BY <1>0, JoinExists
<1>2. PICK h : IsJoin(u, Len(u), h)
  BY <1>0, JoinExists
<1>3. Len(u) \in Nat /\ Len(u) <= Len(t) /\ Len(u) \in 0..Len(u) /\ Len(t) \in 0..Len(t)
  OBVIOUS
<1>4. h[Len(u)] = g[Len(u)]
  <2>. DEFINE n == Len(u)
              m == Len(t)
  <2>1. n \in Nat /\ m \in Nat /\ n <= m /\ n \in 0..n
    BY <1>0
  <2>2. IsJoin(u, n, h) /\ IsJoin(t, m, g) /\ Alike(u, t, n)
    BY <1>1, <1>2
  <2>. HIDE DEF n, m
  <2>3. h[n] = g[n]
    BY <2>1, <2>2, JoinPrefix
  <2>. QED
    BY <2>3 DEF n
<1>5. g[Len(t)] = g[Len(t) - 1] \o t[Len(t)]
  BY <1>1, <1>3 DEF IsJoin
<1>. QED
  BY <1>1, <1>2, <1>3, <1>4, <1>5, FlatIs

LEMMA AddedLast ==
  ASSUME NEW t, NEW u, Len(t) \in Nat \ {0}, Len(u) = Len(t) - 1,
         Alike(u, t, Len(u))
  PROVE  Added(t) = Added(u) + t[Len(t)]
<1>0. Len(t) \in Nat /\ Len(u) \in Nat
  OBVIOUS
<1>1. PICK g : IsSum(t, Len(t), g)
  BY <1>0, SumExists
<1>2. PICK h : IsSum(u, Len(u), h)
  BY <1>0, SumExists
<1>3. Len(u) \in Nat /\ Len(u) <= Len(t) /\ Len(u) \in 0..Len(u) /\ Len(t) \in 0..Len(t)
  OBVIOUS
<1>4. h[Len(u)] = g[Len(u)]
  <2>. DEFINE n == Len(u)
              m == Len(t)
  <2>1. n \in Nat /\ m \in Nat /\ n <= m /\ n \in 0..n
    BY <1>0
  <2>2. IsSum(u, n, h) /\ IsSum(t, m, g) /\ Alike(u, t, n)
    BY <1>1, <1>2
  <2>. HIDE DEF n, m
  <2>3. h[n] = g[n]
    BY <2>1, <2>2, SumPrefix
  <2>. QED
    BY <2>3 DEF n
<1>5. g[Len(t)] = g[Len(t) - 1] + t[Len(t)]
  BY <1>1, <1>3 DEF IsSum
<1>. QED
  BY <1>1, <1>2, <1>3, <1>4, <1>5, AddedIs

\* One element more.
LEMMA Longer ==
  ASSUME NEW X, NEW s \in Seq(X), NEW x \in X
  PROVE  /\ s \o <<x>> \in Seq(X) /\ Len(s) \in Nat /\ Len(s \o <<x>>) = Len(s) + 1
         /\ (s \o <<x>>)[Len(s) + 1] = x /\ Alike(s, s \o <<x>>, Len(s))
  BY DEF Alike

LEMMA FlatMore ==
  ASSUME NEW X, NEW t \in Seq(X), NEW x \in X
  PROVE  Flat(t \o <<x>>) = Flat(t) \o x
<1>. DEFINE u == t \o <<x>>
<1>1. /\ Len(u) \in Nat \ {0} /\ Len(t) = Len(u) - 1 /\ Alike(t, u, Len(t))
      /\ u[Len(u)] = x
  BY Longer
<1>. HIDE DEF u
<1>2. Flat(u) = Flat(t) \o u[Len(u)]
  BY <1>1, FlatLast
<1>. QED
  BY <1>1, <1>2 DEF u

LEMMA AddedMore ==
  ASSUME NEW X, NEW t \in Seq(X), NEW x \in X
  PROVE  Added(t \o <<x>>) = Added(t) + x
<1>. DEFINE u == t \o <<x>>
<1>1. /\ Len(u) \in Nat \ {0} /\ Len(t) = Len(u) - 1 /\ Alike(t, u, Len(t))
      /\ u[Len(u)] = x
  BY Longer
<1>. HIDE DEF u
<1>2. Added(u) = Added(t) + u[Len(u)]
  BY <1>1, AddedLast
<1>. QED
  BY <1>1, <1>2 DEF u

\* A set that has the empty sequence, and with a sequence each longer by one.
Grows(A, X) == <<>> \in A /\ \A s \in Seq(X), x \in X : s \in A => s \o <<x>> \in A

LEMMA SeqInduct ==
  ASSUME NEW X, NEW A, Grows(A, X), NEW s \in Seq(X)
  PROVE  s \in A
<1>. DEFINE Bad == {n \in Nat : \E u \in Seq(X) : Len(u) = n /\ u \notin A}
<1>1. SUFFICES ASSUME Bad # {} PROVE FALSE
  BY LenNat
<1>2. PICK n \in Bad : \A m \in Bad : n <= m
  BY <1>1, LeastNat
<1>3. PICK u \in Seq(X) : Len(u) = n /\ u \notin A
  BY <1>2
<1>4. CASE n = 0
  <2>1. u = <<>>
    BY <1>3, <1>4
  <2>. QED
    BY <1>3, <2>1 DEF Grows
<1>5. CASE n # 0
  <2>1. PICK v \in Seq(X) : Len(v) = Len(u) - 1 /\ u = v \o <<u[Len(u)]>>
    BY <1>3, <1>5, ShorterSeq
  <2>2. n - 1 \in Nat /\ ~(n <= n - 1) /\ Len(u) \in 1..Len(u)
    BY <1>3, <1>5
  <2>3. v \in A
    BY <1>2, <1>3, <2>1, <2>2
  <2>4. u[Len(u)] \in X
    BY <2>2
  <2>. QED
    BY <1>3, <2>1, <2>3, <2>4 DEF Grows
<1>. QED
  BY <1>4, <1>5

\* What is joined is a sequence; joining a concatenation.
LEMMA FlatType ==
  ASSUME NEW X, NEW t \in Seq(Seq(X))
  PROVE  Flat(t) \in Seq(X)
<1>. DEFINE A == {s \in Seq(Seq(X)) : Flat(s) \in Seq(X)}
<1>1. <<>> \in A
  <2>1. Flat(<<>>) = <<>>
    BY FlatEmpty
  <2>2. <<>> \in Seq(X) /\ <<>> \in Seq(Seq(X))
    OBVIOUS
  <2>. QED
    BY <2>1, <2>2, Zenon
<1>2. ASSUME NEW s \in Seq(Seq(X)), NEW x \in Seq(X), s \in A
      PROVE  s \o <<x>> \in A
  <2>1. Flat(s \o <<x>>) = Flat(s) \o x /\ s \o <<x>> \in Seq(Seq(X))
    BY FlatMore, Longer
  <2>. QED
    BY <1>2, <2>1, Concat
<1>. HIDE DEF A
<1>3. Grows(A, Seq(X))
  BY <1>1, <1>2 DEF Grows
<1>4. t \in A
  BY <1>3, SeqInduct
<1>. QED
  BY <1>4 DEF A

LEMMA FlatConcat ==
  ASSUME NEW X, NEW t \in Seq(Seq(X)), NEW u \in Seq(Seq(X))
  PROVE  Flat(t \o u) = Flat(t) \o Flat(u)
<1>. DEFINE A == {s \in Seq(Seq(X)) : Flat(t \o s) = Flat(t) \o Flat(s)}
<1>1. <<>> \in A
  <2>1. Flat(<<>>) = <<>> /\ Flat(t) \in Seq(X)
    BY FlatEmpty, FlatType
  <2>. QED
    BY <2>1, ConcatEmpty
<1>2. ASSUME NEW s \in Seq(Seq(X)), NEW x \in Seq(X), s \in A
      PROVE  s \o <<x>> \in A
  <2>1. <<x>> \in Seq(Seq(X)) /\ s \o <<x>> \in Seq(Seq(X)) /\ t \o s \in Seq(Seq(X))
    BY Longer, Concat
  <2>2. Associates(t, s, <<x>>)
    BY <2>1, Associative
  <2>3. Associates(Flat(t), Flat(s), x)
    BY FlatType, Associative
  <2>4. Flat(s \o <<x>>) = Flat(s) \o x /\ Flat((t \o s) \o <<x>>) = Flat(t \o s) \o x
    BY <2>1, FlatMore
  <2>. QED
    BY <1>2, <2>1, <2>2, <2>3, <2>4 DEF Associates
<1>. HIDE DEF A
<1>3. Grows(A, Seq(X))
  BY <1>1, <1>2 DEF Grows
<1>4. u \in A
  BY <1>3, SeqInduct
<1>. QED
  BY <1>4 DEF A

LEMMA FlatOne ==
  ASSUME NEW X, NEW x \in Seq(X)
  PROVE  Flat(<<x>>) = x
<1>1. <<>> \in Seq(Seq(X)) /\ <<>> \o <<x>> = <<x>> /\ Flat(<<>>) = <<>>
  BY FlatEmpty
<1>2. Flat(<<>> \o <<x>>) = Flat(<<>>) \o x
  BY <1>1, FlatMore
<1>. QED
  BY <1>1, <1>2, ConcatEmpty

\* Sequences of one element each.
Singles(x) == [i \in 1..Len(x) |-> <<x[i]>>]

LEMMA FlatSingles ==
  ASSUME NEW X, NEW s \in Seq(X)
  PROVE  Flat(Singles(s)) = s
<1>. DEFINE A == {u \in Seq(X) : Flat(Singles(u)) = u}
<1>1. <<>> \in A
  BY FlatEmpty DEF Singles
<1>2. ASSUME NEW u \in Seq(X), NEW x \in X, u \in A
      PROVE  u \o <<x>> \in A
  <2>1. Singles(u) \in Seq(Seq(X)) /\ <<x>> \in Seq(X)
    BY DEF Singles
  <2>2. Singles(u \o <<x>>) = Singles(u) \o <<<<x>>>>
    BY DEF Singles
  <2>3. Flat(Singles(u) \o <<<<x>>>>) = Flat(Singles(u)) \o <<x>>
    BY <2>1, FlatMore
  <2>. QED
    BY <1>2, <2>2, <2>3, Longer
<1>. HIDE DEF A
<1>3. Grows(A, X)
  BY <1>1, <1>2 DEF Grows
<1>4. s \in A
  BY <1>3, SeqInduct
<1>. QED
  BY <1>4 DEF A

\* Joining nothing but empty sequences.
LEMMA FlatNothing ==
  ASSUME NEW X, NEW t \in Seq(Seq(X)), \A i \in 1..Len(t) : t[i] = <<>>
  PROVE  Flat(t) = <<>>
<1>1. \A i \in 1..Len(t) : t[i] \in Seq({})
  OBVIOUS
<1>2. Len(t) \in Nat /\ t = [i \in 1..Len(t) |-> t[i]]
  OBVIOUS
<1>3. t \in Seq(Seq({}))
  BY <1>1, <1>2, FunctionIsSeq
<1>4. Flat(t) \in Seq({})
  BY <1>3, FlatType
<1>. QED
  BY <1>4

\* What is added is a number; adding a concatenation, and one more each.
LEMMA AddedNat ==
  ASSUME NEW t \in Seq(Nat)
  PROVE  Added(t) \in Nat
<1>. DEFINE A == {s \in Seq(Nat) : Added(s) \in Nat}
<1>1. <<>> \in A
  BY AddedEmpty
<1>2. ASSUME NEW s \in Seq(Nat), NEW x \in Nat, s \in A
      PROVE  s \o <<x>> \in A
  <2>1. Added(s \o <<x>>) = Added(s) + x /\ s \o <<x>> \in Seq(Nat)
    BY AddedMore, Longer
  <2>. QED
    BY <1>2, <2>1
<1>. HIDE DEF A
<1>3. Grows(A, Nat)
  BY <1>1, <1>2 DEF Grows
<1>4. t \in A
  BY <1>3, SeqInduct
<1>. QED
  BY <1>4 DEF A

LEMMA AddedConcat ==
  ASSUME NEW t \in Seq(Nat), NEW u \in Seq(Nat)
  PROVE  Added(t \o u) = Added(t) + Added(u)
<1>. DEFINE A == {s \in Seq(Nat) : Added(t \o s) = Added(t) + Added(s)}
<1>1. <<>> \in A
  <2>1. Added(<<>>) = 0 /\ Added(t) \in Nat
    BY AddedEmpty, AddedNat
  <2>. QED
    BY <2>1, ConcatEmpty
<1>2. ASSUME NEW s \in Seq(Nat), NEW x \in Nat, s \in A
      PROVE  s \o <<x>> \in A
  <2>1. <<x>> \in Seq(Nat) /\ s \o <<x>> \in Seq(Nat) /\ t \o s \in Seq(Nat)
    BY Longer, Concat
  <2>2. Associates(t, s, <<x>>)
    BY <2>1, Associative
  <2>3. Added(s \o <<x>>) = Added(s) + x /\ Added((t \o s) \o <<x>>) = Added(t \o s) + x
    BY <2>1, AddedMore
  <2>4. Added(t) \in Nat /\ Added(s) \in Nat
    BY AddedNat
  <2>5. t \o (s \o <<x>>) = (t \o s) \o <<x>>
    BY <2>2 DEF Associates
  <2>6. Added(t \o (s \o <<x>>)) = Added(t) + Added(s \o <<x>>)
    <3>. DEFINE ts == Added(t \o s)
                a == Added(t)
                b == Added(s)
                bx == Added(s \o <<x>>)
    <3>1. /\ ts = a + b /\ bx = b + x /\ a \in Nat /\ b \in Nat
          /\ Added(t \o (s \o <<x>>)) = ts + x
      BY <1>2, <2>3, <2>4, <2>5
    <3>. HIDE DEF A, ts, a, b, bx
    <3>2. Added(t \o (s \o <<x>>)) = a + bx
      BY <3>1
    <3>. QED
      BY <3>2 DEF a, bx
  <2>. QED
    BY <2>1, <2>6
<1>. HIDE DEF A
<1>3. Grows(A, Nat)
  BY <1>1, <1>2 DEF Grows
<1>4. u \in A
  BY <1>3, SeqInduct
<1>. QED
  BY <1>4 DEF A

LEMMA AddedOne ==
  ASSUME NEW x \in Nat
  PROVE  Added(<<x>>) = x
<1>1. <<>> \in Seq(Nat) /\ <<>> \o <<x>> = <<x>> /\ Added(<<>>) = 0
  BY AddedEmpty
<1>2. Added(<<>> \o <<x>>) = Added(<<>>) + x
  BY <1>1, AddedMore
<1>. QED
  BY <1>1, <1>2

PlusOne(x) == [i \in 1..Len(x) |-> 1 + x[i]]

LEMMA AddedPlusOne ==
  ASSUME NEW s \in Seq(Nat)
  PROVE  Added(PlusOne(s)) = Len(s) + Added(s)
<1>. DEFINE A == {u \in Seq(Nat) : Added(PlusOne(u)) = Len(u) + Added(u)}
<1>1. <<>> \in A
  <2>1. Added(PlusOne(<<>>)) = 0 /\ Added(<<>>) = 0
    BY AddedEmpty DEF PlusOne
  <2>. QED
    BY <2>1
<1>2. ASSUME NEW u \in Seq(Nat), NEW x \in Nat, u \in A
      PROVE  u \o <<x>> \in A
  <2>1. PlusOne(u) \in Seq(Nat) /\ 1 + x \in Nat /\ Added(u) \in Nat
    BY AddedNat DEF PlusOne
  <2>2. PlusOne(u \o <<x>>) = PlusOne(u) \o <<1 + x>>
    BY DEF PlusOne
  <2>3. Added(PlusOne(u) \o <<1 + x>>) = Added(PlusOne(u)) + (1 + x)
    BY <2>1, AddedMore
  <2>4. Added(u \o <<x>>) = Added(u) + x
    BY AddedMore
  <2>5. u \o <<x>> \in Seq(Nat) /\ Len(u) \in Nat /\ Len(u \o <<x>>) = Len(u) + 1
    BY Longer
  <2>6. Added(PlusOne(u \o <<x>>)) = Len(u \o <<x>>) + Added(u \o <<x>>)
    <3>. DEFINE p == Added(PlusOne(u))
                a == Added(u)
                n == Len(u)
                px == Added(PlusOne(u \o <<x>>))
                ax == Added(u \o <<x>>)
                nx == Len(u \o <<x>>)
    <3>1. /\ p = n + a /\ a \in Nat /\ n \in Nat /\ ax = a + x
          /\ px = p + (1 + x) /\ nx = n + 1
      BY <1>2, <2>1, <2>2, <2>3, <2>4, <2>5
    <3>. HIDE DEF A, p, a, n, px, ax, nx
    <3>2. px = nx + ax
      BY <3>1
    <3>. QED
      BY <3>2 DEF px, ax, nx
  <2>. QED
    BY <2>5, <2>6
<1>. HIDE DEF A
<1>3. Grows(A, Nat)
  BY <1>1, <1>2 DEF Grows
<1>4. s \in A
  BY <1>3, SeqInduct
<1>. QED
  BY <1>4 DEF A

\* Replacing one number changes what is added by the difference.
Swaps(s) == \A j \in 1..Len(s), b \in Nat : Added([s EXCEPT ![j] = b]) + s[j] = Added(s) + b

LEMMA AddedSwap ==
  ASSUME NEW t \in Seq(Nat)
  PROVE  Swaps(t)
<1>. DEFINE A == {s \in Seq(Nat) : Swaps(s)}
<1>1. <<>> \in A
  BY DEF Swaps
<1>2. ASSUME NEW s \in Seq(Nat), NEW x \in Nat, s \in A
      PROVE  s \o <<x>> \in A
  <2>. DEFINE sx == s \o <<x>>
              n == Len(s)
  <2>1. /\ sx \in Seq(Nat) /\ n \in Nat /\ Len(sx) = n + 1 /\ sx[n + 1] = x
        /\ Alike(s, sx, n) /\ Added(sx) = Added(s) + x
    BY AddedMore, Longer
  <2>. SUFFICES ASSUME NEW j \in 1..Len(sx), NEW b \in Nat
                PROVE  Added([sx EXCEPT ![j] = b]) + sx[j] = Added(sx) + b
    BY <2>1 DEF Swaps
  <2>2. Added(s) \in Nat
    BY AddedNat
  <2>. DEFINE e == [sx EXCEPT ![j] = b]
              se == Added(s)
              xe == Added(sx)
              ee == Added(e)
              sj == sx[j]
  <2>e. /\ e \in Seq(Nat) /\ Len(e) = n + 1 /\ e[j] = b
        /\ \A i \in 1..(n + 1) : i # j => e[i] = sx[i]
    <3>1. sx \in Seq(Nat) /\ DOMAIN sx = 1..(n + 1) /\ n + 1 \in Nat
      BY <2>1, SeqElements
    <3>. HIDE DEF sx, n
    <3>. QED
      BY <2>1, <3>1
  <2>3. CASE j \in 1..n
    <3>. DEFINE u == [s EXCEPT ![j] = b]
                ue == Added(u)
    <3>1. u \in Seq(Nat) /\ Len(u) = n /\ u[j] = b /\ \A i \in 1..n : i # j => u[i] = s[i]
      BY <2>3
    <3>2. e = u \o <<x>>
      <4>1. <<x>> \in Seq(Nat) /\ Len(<<x>>) = 1 /\ <<x>>[1] = x
        OBVIOUS
      <4>2. \A i \in 1..n : e[i] = u[i]
        <5>1. 1..n \subseteq 1..(n + 1)
          BY <2>1
        <5>. HIDE DEF e, u, sx, n
        <5>. QED
          BY <2>1, <2>3, <2>e, <3>1, <5>1 DEF Alike
      <4>3. e[n + 1] = x
        <5>1. n + 1 # j /\ n + 1 \in 1..(n + 1)
          BY <2>1, <2>3
        <5>. HIDE DEF e, sx, n
        <5>. QED
          BY <2>1, <2>e, <5>1
      <4>. HIDE DEF e, u, sx, n
      <4>4. Joins(u, <<x>>, e)
        BY <2>1, <2>e, <3>1, <4>1, <4>2, <4>3 DEF Joins
      <4>. QED
        BY <2>e, <3>1, <4>1, <4>4, Joined
    <3>3. Added(u \o <<x>>) = Added(u) + x /\ Added(u) \in Nat
      BY <3>1, AddedMore, AddedNat
    <3>4. Added(u) + s[j] = Added(s) + b
      BY <1>2, <2>3 DEF Swaps
    <3>5. sx[j] = s[j] /\ s[j] \in Nat
      BY <2>1, <2>3 DEF Alike
    <3>6. /\ ee = ue + x /\ ue \in Nat /\ ue + sj = se + b
          /\ sj \in Nat /\ se \in Nat /\ xe = se + x
      BY <2>1, <2>2, <3>2, <3>3, <3>4, <3>5
    <3>. HIDE DEF u, sx, n, A, e, se, xe, ee, sj, ue
    <3>7. ee + sj = xe + b
      BY <3>6
    <3>. QED
      BY <3>7 DEF ee, e, sj, xe
  <2>4. CASE j = n + 1
    <3>1. e = s \o <<b>>
      <4>1. <<b>> \in Seq(Nat) /\ Len(<<b>>) = 1 /\ <<b>>[1] = b
        OBVIOUS
      <4>2. \A i \in 1..n : e[i] = s[i]
        <5>1. 1..n \subseteq 1..(n + 1) /\ n + 1 \notin 1..n
          BY <2>1
        <5>. HIDE DEF e, sx, n
        <5>. QED
          BY <2>1, <2>4, <2>e, <5>1 DEF Alike
      <4>. HIDE DEF e, sx
      <4>3. Joins(s, <<b>>, e)
        BY <2>1, <2>4, <2>e, <4>1, <4>2 DEF Joins
      <4>. QED
        BY <2>e, <4>1, <4>3, Joined
    <3>2. Added(s \o <<b>>) = Added(s) + b
      BY AddedMore
    <3>3. ee = se + b /\ sj = x /\ xe = se + x /\ se \in Nat
      BY <2>1, <2>2, <2>4, <3>1, <3>2
    <3>. HIDE DEF sx, n, A, e, se, xe, ee, sj
    <3>4. ee + sj = xe + b
      BY <3>3
    <3>. QED
      BY <3>4 DEF ee, e, sj, xe
  <2>5. j \in 1..n \/ j = n + 1
    BY <2>1
  <2>. QED
    BY <2>3, <2>4, <2>5
<1>. HIDE DEF A
<1>3. Grows(A, Nat)
  BY <1>1, <1>2 DEF Grows
<1>4. t \in A
  BY <1>3, SeqInduct
<1>. QED
  BY <1>4 DEF A

\* s has every element of D once.
Orders(s, n, D) ==
  /\ s \in [1..n -> D] /\ \A i, j \in 1..n : s[i] = s[j] => i = j
  /\ \A d \in D : \E i \in 1..n : s[i] = d
Weights(W, s, n) == [i \in 1..n |-> W[s[i]]]
OrderMatters(n) ==
  \E D : \E W \in [D -> Nat] : \E s, u :
    Orders(s, n, D) /\ Orders(u, n, D) /\ Added(Weights(W, s, n)) # Added(Weights(W, u, n))

\* Taking one element out of an order.
LEMMA OrderWithout ==
  ASSUME NEW D, NEW n \in Nat \ {0}, NEW u, Orders(u, n, D), NEW j \in 1..n,
         NEW v, v = [i \in 1..(n - 1) |-> IF i = j THEN u[n] ELSE u[i]]
  PROVE  Orders(v, n - 1, D \ {u[j]})
<1>1. n - 1 \in Nat /\ n \in 1..n /\ n \notin 1..(n - 1) /\ 1..(n - 1) \subseteq 1..n
      /\ \A i \in 1..n : i = n \/ i \in 1..(n - 1)
  OBVIOUS
<1>2. u \in [1..n -> D] /\ \A i, k \in 1..n : u[i] = u[k] => i = k
  BY DEF Orders
<1>3. v \in [1..(n - 1) -> D \ {u[j]}]
  <2>. SUFFICES ASSUME NEW i \in 1..(n - 1) PROVE v[i] \in D \ {u[j]}
    OBVIOUS
  <2>1. CASE i = j
    BY <1>1, <1>2, <2>1
  <2>2. CASE i # j
    BY <1>1, <1>2, <2>2
  <2>. QED
    BY <2>1, <2>2
<1>4. ASSUME NEW i \in 1..(n - 1), NEW k \in 1..(n - 1), v[i] = v[k] PROVE i = k
  <2>1. i \in 1..n /\ k \in 1..n /\ i # n /\ k # n
    BY <1>1
  <2>2. CASE i = j
    BY <1>1, <1>2, <1>4, <2>1, <2>2
  <2>3. CASE i # j /\ k = j
    BY <1>1, <1>2, <1>4, <2>1, <2>3
  <2>4. CASE i # j /\ k # j
    BY <1>2, <1>4, <2>1, <2>4
  <2>. QED
    BY <2>2, <2>3, <2>4
<1>5. ASSUME NEW d \in D \ {u[j]} PROVE \E i \in 1..(n - 1) : v[i] = d
  <2>1. PICK i \in 1..n : u[i] = d
    BY DEF Orders
  <2>2. i # j
    BY <1>5, <2>1
  <2>3. CASE i = n
    <3>1. j \in 1..(n - 1)
      BY <1>1, <2>2, <2>3
    <3>2. v[j] = d
      BY <2>1, <2>3, <3>1
    <3>. QED
      BY <3>1, <3>2
  <2>4. CASE i # n
    <3>1. i \in 1..(n - 1)
      BY <1>1, <2>4
    <3>2. v[i] = d
      BY <2>1, <2>2, <3>1
    <3>. QED
      BY <3>1, <3>2
  <2>. QED
    BY <2>3, <2>4
<1>. QED
  BY <1>3, <1>4, <1>5 DEF Orders

LEMMA WeightsWithout ==
  ASSUME NEW D, NEW W \in [D -> Nat], NEW n \in Nat \ {0}, NEW u, Orders(u, n, D),
         NEW j \in 1..n,
         NEW v, v = [i \in 1..(n - 1) |-> IF i = j THEN u[n] ELSE u[i]]
  PROVE  Added(Weights(W, u, n)) = Added(Weights(W, v, n - 1)) + W[u[j]]
<1>. DEFINE c == Weights(W, u, n)
            e == [c EXCEPT ![j] = c[n]]
            f == Weights(W, v, n - 1)
<1>1. n \in 1..n /\ n - 1 \in Nat
  OBVIOUS
<1>2. \A i \in 1..n : W[u[i]] \in Nat
  BY DEF Orders
<1>3. c \in Seq(Nat) /\ Len(c) = n /\ \A i \in 1..n : c[i] = W[u[i]] /\ c[i] \in Nat
  BY <1>2 DEF Weights
<1>. HIDE DEF c
<1>4. e \in Seq(Nat) /\ Len(e) = n /\ e[n] = c[n]
  BY <1>1, <1>3
<1>5. Added(e) + c[j] = Added(c) + c[n]
  BY <1>1, <1>3, AddedSwap DEF Swaps
<1>6. f \in Seq(Nat) /\ Len(f) = n - 1 /\ Alike(f, e, n - 1)
  <2>1. \A i \in 1..(n - 1) : W[v[i]] = e[i] /\ e[i] \in Nat
    BY <1>1, <1>3
  <2>. HIDE DEF e
  <2>. QED
    BY <1>1, <2>1 DEF Weights, Alike
<1>. HIDE DEF e, f
<1>7. Added(e) = Added(f) + e[n]
  BY <1>4, <1>6, AddedLast
<1>8. Added(f) \in Nat /\ Added(c) \in Nat
  BY <1>3, <1>6, AddedNat
<1>9. Added(c) = Added(f) + c[j]
  <2>1. c[j] \in Nat /\ c[n] \in Nat
    BY <1>1, <1>3
  <2>. DEFINE ae == Added(e)
              af == Added(f)
              ac == Added(c)
              cj == c[j]
              cn == c[n]
  <2>2. ae + cj = ac + cn /\ ae = af + cn /\ af \in Nat /\ ac \in Nat /\ cj \in Nat /\ cn \in Nat
    BY <1>4, <1>5, <1>7, <1>8, <2>1
  <2>. HIDE DEF ae, af, ac, cj, cn
  <2>3. ac = af + cj
    BY <2>2
  <2>. QED
    BY <2>3 DEF ac, af, cj
<1>. QED
  BY <1>3, <1>9 DEF c, f

\* In whatever order numbers are added, the sum is the same.
LEMMA AddedReorder ==
  ASSUME NEW D, NEW W \in [D -> Nat], NEW n \in Nat, NEW s, NEW u,
         Orders(s, n, D), Orders(u, n, D)
  PROVE  Added(Weights(W, s, n)) = Added(Weights(W, u, n))
<1>. DEFINE Bad == {i \in Nat : OrderMatters(i)}
<1>1. SUFFICES ASSUME Bad # {} PROVE FALSE
  BY DEF OrderMatters
<1>2. PICK m \in Bad : \A i \in Bad : m <= i
  BY <1>1, LeastNat
<1>3. m \in Nat /\ OrderMatters(m)
  BY <1>2
<1>4. PICK E : \E V \in [E -> Nat] : \E a, b :
        Orders(a, m, E) /\ Orders(b, m, E) /\ Added(Weights(V, a, m)) # Added(Weights(V, b, m))
  BY <1>3 DEF OrderMatters
<1>5. PICK V \in [E -> Nat] : \E a, b :
        Orders(a, m, E) /\ Orders(b, m, E) /\ Added(Weights(V, a, m)) # Added(Weights(V, b, m))
  BY <1>4
<1>6. PICK a, b :
        Orders(a, m, E) /\ Orders(b, m, E) /\ Added(Weights(V, a, m)) # Added(Weights(V, b, m))
  BY <1>5
<1>7. m # 0
  <2>1. ASSUME m = 0 PROVE Added(Weights(V, a, m)) = 0 /\ Added(Weights(V, b, m)) = 0
    <3>1. Len(Weights(V, a, 0)) = 0 /\ Len(Weights(V, b, 0)) = 0
      BY DEF Weights
    <3>. QED
      BY <2>1, <3>1, AddedEmpty
  <2>. QED
    BY <1>6, <2>1
<1>8. m - 1 \in Nat /\ ~(m <= m - 1) /\ m \in 1..m
  BY <1>3, <1>7
<1>9. a[m] \in E
  BY <1>6, <1>8 DEF Orders
<1>10. PICK j \in 1..m : b[j] = a[m]
  BY <1>6, <1>9 DEF Orders
<1>. DEFINE F == E \ {a[m]}
            U == [d \in F |-> V[d]]
            p == [i \in 1..(m - 1) |-> IF i = m THEN a[m] ELSE a[i]]
            q == [i \in 1..(m - 1) |-> IF i = j THEN b[m] ELSE b[i]]
<1>11. Orders(p, m - 1, F) /\ Added(Weights(V, a, m)) = Added(Weights(V, p, m - 1)) + V[a[m]]
  <2>1. p = [i \in 1..(m - 1) |-> IF i = m THEN a[m] ELSE a[i]]
    OBVIOUS
  <2>. HIDE DEF p, F
  <2>2. Orders(p, m - 1, E \ {a[m]})
    BY <1>3, <1>6, <1>7, <1>8, <2>1, OrderWithout
  <2>3. Added(Weights(V, a, m)) = Added(Weights(V, p, m - 1)) + V[a[m]]
    BY <1>3, <1>6, <1>7, <1>8, <2>1, WeightsWithout
  <2>. QED
    BY <2>2, <2>3 DEF F
<1>12. Orders(q, m - 1, F) /\ Added(Weights(V, b, m)) = Added(Weights(V, q, m - 1)) + V[a[m]]
  <2>1. q = [i \in 1..(m - 1) |-> IF i = j THEN b[m] ELSE b[i]]
    OBVIOUS
  <2>. HIDE DEF q, F
  <2>2. Orders(q, m - 1, E \ {b[j]})
    BY <1>3, <1>6, <1>7, <1>8, <2>1, OrderWithout
  <2>3. Added(Weights(V, b, m)) = Added(Weights(V, q, m - 1)) + V[b[j]]
    BY <1>3, <1>6, <1>7, <1>8, <2>1, WeightsWithout
  <2>. QED
    BY <1>10, <2>2, <2>3 DEF F
<1>13. U \in [F -> Nat] /\ Weights(U, p, m - 1) = Weights(V, p, m - 1)
       /\ Weights(U, q, m - 1) = Weights(V, q, m - 1)
  <2>. HIDE DEF p, q
  <2>1. \A i \in 1..(m - 1) : p[i] \in F /\ q[i] \in F
    BY <1>11, <1>12 DEF Orders
  <2>. QED
    BY <2>1 DEF Weights
<1>. HIDE DEF F, U, p, q
<1>14. m - 1 \notin Bad
  BY <1>2, <1>8
<1>15. ~OrderMatters(m - 1)
  BY <1>8, <1>14
<1>16. Added(Weights(U, p, m - 1)) = Added(Weights(U, q, m - 1))
  BY <1>11, <1>12, <1>13, <1>15 DEF OrderMatters
<1>. QED
  BY <1>6, <1>11, <1>12, <1>13, <1>16

-----------------------------------------------------------------------------
(* Fields: I is the set of the integers they carry, S the set of what they *)
(* enclose.                                                                *)

Fields(I, S) == [num : Nat, ints : Seq(I), subs : S, bytes : Nat]

LEMMA FieldParts ==
  ASSUME NEW I, NEW S, NEW fields \in Seq(Fields(I, S)), NEW i \in 1..Len(fields)
  PROVE  /\ fields[i].num \in Nat /\ fields[i].ints \in Seq(I)
         /\ fields[i].subs \in S /\ fields[i].bytes \in Nat
<1>1. fields[i] \in Fields(I, S)
  BY SeqElements
<1>. QED
  BY <1>1 DEF Fields

IntsOf(fields, num) ==
  [i \in 1..Len(fields) |-> IF fields[i].num = num THEN fields[i].ints ELSE <<>>]
SubsOf(fields, num) ==
  [i \in 1..Len(fields) |-> IF fields[i].num # num THEN <<>> ELSE <<fields[i].subs>>]
BytesOf(fields) == [i \in 1..Len(fields) |-> fields[i].bytes]

LEMMA IntsIs ==
  ASSUME NEW fields, DOMAIN fields = 1..Len(fields), Len(fields) \in Nat, NEW num
  PROVE  Ints(fields, num) = Flat(IntsOf(fields, num))
<1>1. Ints(fields, num) = FlatTo(IntsOf(fields, num), Len(fields))
  BY DEF Ints, JoinedOf, Each, IntsOf
<1>2. Len(IntsOf(fields, num)) = Len(fields)
  BY DEF IntsOf
<1>. QED
  BY <1>1, <1>2 DEF Flat

LEMMA SubsIs ==
  ASSUME NEW fields, DOMAIN fields = 1..Len(fields), Len(fields) \in Nat, NEW num
  PROVE  Subs(fields, num) = Flat(SubsOf(fields, num))
<1>1. Subs(fields, num) = FlatTo(SubsOf(fields, num), Len(fields))
  BY DEF Subs, JoinedOf, Each, Unless, SubsOf
<1>2. Len(SubsOf(fields, num)) = Len(fields)
  BY DEF SubsOf
<1>. QED
  BY <1>1, <1>2 DEF Flat

LEMMA BytesIs ==
  ASSUME NEW I, NEW S, NEW fields \in Seq(Fields(I, S))
  PROVE  Bytes(fields) = Added(BytesOf(fields)) /\ BytesOf(fields) \in Seq(Nat)
         /\ Len(BytesOf(fields)) = Len(fields)
<1>1. DOMAIN fields = 1..Len(fields)
  BY SeqElements
<1>2. Bytes(fields) = Added([i \in DOMAIN fields |-> fields[i].bytes])
  BY DEF Bytes, SumOf, Each
<1>3. BytesOf(fields) \in Seq(Nat) /\ Len(BytesOf(fields)) = Len(fields)
  <2>1. \A i \in 1..Len(fields) : fields[i].bytes \in Nat
    BY FieldParts
  <2>2. Len(fields) \in Nat
    BY LenNat
  <2>. QED
    BY <2>1, <2>2 DEF BytesOf
<1>. QED
  BY <1>1, <1>2, <1>3 DEF BytesOf

\* The integers of a number in fields one after the other.
LEMMA IntsType ==
  ASSUME NEW I, NEW S, NEW fields \in Seq(Fields(I, S)), NEW num
  PROVE  /\ IntsOf(fields, num) \in Seq(Seq(I)) /\ Len(IntsOf(fields, num)) = Len(fields)
         /\ Ints(fields, num) \in Seq(I)
<1>1. Len(fields) \in Nat
  BY LenNat
<1>2. IntsOf(fields, num) \in Seq(Seq(I)) /\ Len(IntsOf(fields, num)) = Len(fields)
  <2>1. \A i \in 1..Len(fields) : fields[i].ints \in Seq(I)
    BY FieldParts
  <2>2. \A i \in 1..Len(fields) :
          (IF fields[i].num = num THEN fields[i].ints ELSE <<>>) \in Seq(I)
    BY <2>1
  <2>. QED
    BY <1>1, <2>2 DEF IntsOf
<1>. QED
  BY <1>1, <1>2, IntsIs, FlatType

LEMMA IntsConcat ==
  ASSUME NEW I, NEW S, NEW s \in Seq(Fields(I, S)), NEW t \in Seq(Fields(I, S)), NEW num
  PROVE  Ints(s \o t, num) = Ints(s, num) \o Ints(t, num)
<1>. DEFINE a == IntsOf(s, num)
            b == IntsOf(t, num)
            c == IntsOf(s \o t, num)
<1>1. /\ s \o t \in Seq(Fields(I, S)) /\ Len(s \o t) = Len(s) + Len(t)
      /\ \A i \in 1..Len(s) : (s \o t)[i] = s[i]
      /\ \A i \in 1..Len(t) : (s \o t)[Len(s) + i] = t[i]
  BY Concat
<1>2. Len(s) \in Nat /\ Len(t) \in Nat /\ Len(s \o t) \in Nat
  BY <1>1, LenNat
<1>3. /\ a \in Seq(Seq(I)) /\ b \in Seq(Seq(I)) /\ c \in Seq(Seq(I))
      /\ Len(a) = Len(s) /\ Len(b) = Len(t) /\ Len(c) = Len(s) + Len(t)
  BY <1>1, IntsType
<1>4. \A i \in 1..Len(s) : c[i] = a[i]
  BY <1>1, <1>2 DEF IntsOf
<1>5. \A i \in 1..Len(t) : c[Len(s) + i] = b[i]
  <2>. TAKE i \in 1..Len(t)
  <2>1. Len(s) + i \in 1..Len(s \o t)
    BY <1>1, <1>2
  <2>. QED
    BY <1>1, <2>1 DEF IntsOf
<1>. HIDE DEF a, b, c
<1>6. c = a \o b
  <2>1. Joins(a, b, c)
    BY <1>3, <1>4, <1>5 DEF Joins
  <2>. QED
    BY <1>3, <2>1, Joined
<1>7. Flat(c) = Flat(a) \o Flat(b)
  BY <1>3, <1>6, FlatConcat
<1>8. DOMAIN s = 1..Len(s) /\ DOMAIN t = 1..Len(t) /\ DOMAIN (s \o t) = 1..Len(s \o t)
  BY <1>1, SeqElements
<1>9. Ints(s, num) = Flat(a) /\ Ints(t, num) = Flat(b) /\ Ints(s \o t, num) = Flat(c)
  <2>. USE <1>2, <1>8, IntsIs DEF a, b, c
  <2>1. Ints(s, num) = Flat(a)
    OBVIOUS
  <2>2. Ints(t, num) = Flat(b)
    OBVIOUS
  <2>3. Ints(s \o t, num) = Flat(c)
    OBVIOUS
  <2>. QED
    BY <2>1, <2>2, <2>3
<1>. QED
  BY <1>7, <1>9

LEMMA IntsOne ==
  ASSUME NEW I, NEW S, NEW f \in Fields(I, S), NEW num
  PROVE  Ints(<<f>>, num) = IF f.num = num THEN f.ints ELSE <<>>
<1>. DEFINE x == IF f.num = num THEN f.ints ELSE <<>>
<1>1. x \in Seq(I)
  BY DEF Fields
<1>2. IntsOf(<<f>>, num) = <<x>>
  BY DEF IntsOf
<1>3. Ints(<<f>>, num) = Flat(<<x>>)
  <2>1. Len(<<f>>) \in Nat
    OBVIOUS
  <2>2. Ints(<<f>>, num) = Flat(IntsOf(<<f>>, num))
    BY <2>1, IntsIs
  <2>. QED
    BY <1>2, <2>2
<1>. QED
  BY <1>1, <1>3, FlatOne

LEMMA IntsEmpty ==
  ASSUME NEW num
  PROVE  Ints(<<>>, num) = <<>>
<1>1. Len(<<>>) = 0 /\ Len(IntsOf(<<>>, num)) = 0
  BY DEF IntsOf
<1>2. Ints(<<>>, num) = Flat(IntsOf(<<>>, num))
  BY <1>1, IntsIs
<1>. QED
  BY <1>1, <1>2, FlatEmpty

\* The bytes of fields one after the other.
LEMMA BytesNat ==
  ASSUME NEW I, NEW S, NEW fields \in Seq(Fields(I, S))
  PROVE  Bytes(fields) \in Nat
  BY BytesIs, AddedNat

LEMMA BytesConcat ==
  ASSUME NEW I, NEW S, NEW s \in Seq(Fields(I, S)), NEW t \in Seq(Fields(I, S))
  PROVE  Bytes(s \o t) = Bytes(s) + Bytes(t)
<1>. DEFINE a == BytesOf(s)
            b == BytesOf(t)
            c == BytesOf(s \o t)
<1>1. /\ s \o t \in Seq(Fields(I, S)) /\ Len(s \o t) = Len(s) + Len(t)
      /\ \A i \in 1..Len(s) : (s \o t)[i] = s[i]
      /\ \A i \in 1..Len(t) : (s \o t)[Len(s) + i] = t[i]
  BY Concat
<1>2. Len(s) \in Nat /\ Len(t) \in Nat /\ Len(s \o t) \in Nat
  BY <1>1, LenNat
<1>3. /\ a \in Seq(Nat) /\ b \in Seq(Nat) /\ c \in Seq(Nat)
      /\ Len(a) = Len(s) /\ Len(b) = Len(t) /\ Len(c) = Len(s) + Len(t)
  BY <1>1, BytesIs
<1>4. \A i \in 1..Len(s) : c[i] = a[i]
  BY <1>1, <1>2 DEF BytesOf
<1>5. \A i \in 1..Len(t) : c[Len(s) + i] = b[i]
  <2>. TAKE i \in 1..Len(t)
  <2>1. Len(s) + i \in 1..Len(s \o t)
    BY <1>1, <1>2
  <2>. QED
    BY <1>1, <2>1 DEF BytesOf
<1>. HIDE DEF a, b, c
<1>6. c = a \o b
  <2>1. Joins(a, b, c)
    BY <1>3, <1>4, <1>5 DEF Joins
  <2>. QED
    BY <1>3, <2>1, Joined
<1>7. Added(c) = Added(a) + Added(b)
  BY <1>3, <1>6, AddedConcat
<1>8. Bytes(s) = Added(a) /\ Bytes(t) = Added(b) /\ Bytes(s \o t) = Added(c)
  BY <1>1, BytesIs DEF a, b, c
<1>. QED
  BY <1>7, <1>8

LEMMA BytesOne ==
  ASSUME NEW I, NEW S, NEW f \in Fields(I, S)
  PROVE  Bytes(<<f>>) = f.bytes
<1>1. <<f>> \in Seq(Fields(I, S)) /\ f.bytes \in Nat
  BY DEF Fields
<1>2. BytesOf(<<f>>) = <<f.bytes>>
  BY DEF BytesOf
<1>3. Bytes(<<f>>) = Added(<<f.bytes>>)
  BY <1>1, <1>2, BytesIs
<1>. QED
  BY <1>1, <1>3, AddedOne

LEMMA BytesEmpty == Bytes(<<>>) = 0
<1>1. <<>> \in Seq(Fields({}, {})) /\ Len(<<>>) = 0
  OBVIOUS
<1>2. Bytes(<<>>) = Added(BytesOf(<<>>)) /\ Len(BytesOf(<<>>)) = 0
  BY <1>1, BytesIs
<1>. QED
  BY <1>2, AddedEmpty

\* What is enclosed in fields of one number.
LEMMA SubsAll ==
  ASSUME NEW I, NEW S, NEW fields \in Seq(Fields(I, S)), NEW num,
         \A i \in 1..Len(fields) : fields[i].num = num
  PROVE  Subs(fields, num) = [i \in 1..Len(fields) |-> fields[i].subs]
<1>. DEFINE x == [i \in 1..Len(fields) |-> fields[i].subs]
<1>1. Len(fields) \in Nat
  BY LenNat
<1>2. x \in Seq(S) /\ Len(x) = Len(fields)
  <2>1. \A i \in 1..Len(fields) : fields[i].subs \in S
    BY FieldParts
  <2>. QED
    BY <1>1, <2>1
<1>3. SubsOf(fields, num) = Singles(x)
  BY <1>1 DEF SubsOf, Singles
<1>. HIDE DEF x
<1>4. Flat(Singles(x)) = x
  BY <1>2, FlatSingles
<1>. QED
  BY <1>1, <1>3, <1>4, SubsIs DEF x

LEMMA SubsType ==
  ASSUME NEW I, NEW S, NEW fields \in Seq(Fields(I, S)), NEW num
  PROVE  /\ SubsOf(fields, num) \in Seq(Seq(S)) /\ Len(SubsOf(fields, num)) = Len(fields)
         /\ Subs(fields, num) \in Seq(S)
<1>1. Len(fields) \in Nat /\ DOMAIN fields = 1..Len(fields)
  BY SeqElements
<1>2. SubsOf(fields, num) \in Seq(Seq(S)) /\ Len(SubsOf(fields, num)) = Len(fields)
  <2>1. \A i \in 1..Len(fields) : fields[i].subs \in S
    BY FieldParts
  <2>2. \A i \in 1..Len(fields) :
          (IF fields[i].num # num THEN <<>> ELSE <<fields[i].subs>>) \in Seq(S)
    BY <2>1
  <2>. QED
    BY <1>1, <2>2 DEF SubsOf
<1>. QED
  BY <1>1, <1>2, SubsIs, FlatType

LEMMA SubsConcat ==
  ASSUME NEW I, NEW S, NEW s \in Seq(Fields(I, S)), NEW t \in Seq(Fields(I, S)), NEW num
  PROVE  Subs(s \o t, num) = Subs(s, num) \o Subs(t, num)
<1>. DEFINE a == SubsOf(s, num)
            b == SubsOf(t, num)
            c == SubsOf(s \o t, num)
<1>1. /\ s \o t \in Seq(Fields(I, S)) /\ Len(s \o t) = Len(s) + Len(t)
      /\ \A i \in 1..Len(s) : (s \o t)[i] = s[i]
      /\ \A i \in 1..Len(t) : (s \o t)[Len(s) + i] = t[i]
  BY Concat
<1>2. Len(s) \in Nat /\ Len(t) \in Nat /\ Len(s \o t) \in Nat
  BY <1>1, LenNat
<1>3. /\ a \in Seq(Seq(S)) /\ b \in Seq(Seq(S)) /\ c \in Seq(Seq(S))
      /\ Len(a) = Len(s) /\ Len(b) = Len(t) /\ Len(c) = Len(s) + Len(t)
  BY <1>1, SubsType
<1>4. \A i \in 1..Len(s) : c[i] = a[i]
  BY <1>1, <1>2 DEF SubsOf
<1>5. \A i \in 1..Len(t) : c[Len(s) + i] = b[i]
  <2>. TAKE i \in 1..Len(t)
  <2>1. Len(s) + i \in 1..Len(s \o t)
    BY <1>1, <1>2
  <2>. QED
    BY <1>1, <2>1 DEF SubsOf
<1>. HIDE DEF a, b, c
<1>6. c = a \o b
  <2>1. Joins(a, b, c)
    BY <1>3, <1>4, <1>5 DEF Joins
  <2>. QED
    BY <1>3, <2>1, Joined
<1>7. Flat(c) = Flat(a) \o Flat(b)
  BY <1>3, <1>6, FlatConcat
<1>8. DOMAIN s = 1..Len(s) /\ DOMAIN t = 1..Len(t) /\ DOMAIN (s \o t) = 1..Len(s \o t)
  BY <1>1, SeqElements
<1>9. Subs(s, num) = Flat(a) /\ Subs(t, num) = Flat(b) /\ Subs(s \o t, num) = Flat(c)
  <2>. USE <1>2, <1>8, SubsIs DEF a, b, c
  <2>1. Subs(s, num) = Flat(a)
    OBVIOUS
  <2>2. Subs(t, num) = Flat(b)
    OBVIOUS
  <2>3. Subs(s \o t, num) = Flat(c)
    OBVIOUS
  <2>. QED
    BY <2>1, <2>2, <2>3
<1>. QED
  BY <1>7, <1>9

\* Fields of other numbers have nothing to read.
LEMMA NothingToRead ==
  ASSUME NEW I, NEW S, NEW fields \in Seq(Fields(I, S)), NEW num,
         \A i \in 1..Len(fields) : fields[i].num # num
  PROVE  Ints(fields, num) = <<>> /\ Subs(fields, num) = <<>>
<1>1. Len(fields) \in Nat /\ DOMAIN fields = 1..Len(fields)
  BY SeqElements
<1>2. \A i \in 1..Len(fields) : IntsOf(fields, num)[i] = <<>> /\ SubsOf(fields, num)[i] = <<>>
  BY DEF IntsOf, SubsOf
<1>3. /\ IntsOf(fields, num) \in Seq(Seq(I)) /\ Len(IntsOf(fields, num)) = Len(fields)
      /\ SubsOf(fields, num) \in Seq(Seq(S)) /\ Len(SubsOf(fields, num)) = Len(fields)
  BY IntsType, SubsType
<1>4. Flat(IntsOf(fields, num)) = <<>> /\ Flat(SubsOf(fields, num)) = <<>>
  BY <1>2, <1>3, FlatNothing
<1>. QED
  BY <1>1, <1>4, IntsIs, SubsIs

-----------------------------------------------------------------------------
(* The messages of the skip list.                                          *)

NodeImages == [key : Int, value : Nat, next : Seq(Int)]

\* A node has fields that enclose nothing, an image those of its nodes.
NodeFields == Fields(Int, {<<>>})
ImageFields == Fields(Int, Seq(NodeFields))

LEMMA VarintType ==
  ASSUME NEW n \in Int
  PROVE  Varint(n) \in 1..10
  BY DEF Varint

LEMMA DelimitedType ==
  ASSUME NEW n \in Nat
  PROVE  Delimited(n) \in Nat
  BY VarintType DEF Delimited

\* The links of a node take no bytes only when there are none.
LEMMA NextBytesType ==
  ASSUME NEW node \in NodeImages
  PROVE  NextBytes(node) \in Nat /\ (NextBytes(node) = 0 => node.next = <<>>)
<1>. DEFINE s == node.next
            m == [i \in 1..Len(s) |-> Varint(s[i]) - 1]
<1>1. s \in Seq(Int)
  BY DEF NodeImages
<1>2. Len(s) \in Nat /\ DOMAIN s = 1..Len(s) /\ \A i \in 1..Len(s) : s[i] \in Int
  BY <1>1, SeqElements
<1>3. NextBytes(node) = Added([i \in 1..Len(s) |-> Varint(s[i])])
  BY <1>2 DEF NextBytes, SumOf, Each
<1>4. m \in Seq(Nat) /\ Len(m) = Len(s) /\ [i \in 1..Len(s) |-> Varint(s[i])] = PlusOne(m)
  <2>1. \A i \in 1..Len(s) : Varint(s[i]) \in 1..10
    BY <1>2, VarintType
  <2>2. \A i \in 1..Len(s) : Varint(s[i]) - 1 \in Nat /\ 1 + (Varint(s[i]) - 1) = Varint(s[i])
    BY <2>1
  <2>. HIDE DEF s
  <2>. QED
    BY <1>2, <2>2 DEF PlusOne
<1>. HIDE DEF s, m
<1>5. NextBytes(node) = Len(s) + Added(m) /\ Added(m) \in Nat
  BY <1>3, <1>4, AddedPlusOne, AddedNat
<1>6. NextBytes(node) \in Nat /\ (NextBytes(node) = 0 => Len(s) = 0)
  BY <1>2, <1>5
<1>7. Len(s) = 0 => s = <<>>
  BY <1>1
<1>. QED
  BY <1>6, <1>7 DEF s

\* What is written of one field of a node, and what is read back of it.
Part(field, num, ints, bytes) ==
  /\ field \in Seq(NodeFields) /\ Bytes(field) = bytes
  /\ Ints(field, num) = ints /\ \A n \in 1..3 : n # num => Ints(field, n) = <<>>

LEMMA PartAbsent ==
  ASSUME NEW num
  PROVE  Part(<<>>, num, <<>>, 0)
<1>1. <<>> \in Seq(NodeFields)
  OBVIOUS
<1>. QED
  BY <1>1, IntsEmpty, BytesEmpty DEF Part

LEMMA PartPresent ==
  ASSUME NEW num \in 1..3, NEW ints \in Seq(Int), NEW len \in Nat
  PROVE  Part(<<Field(num, ints, <<>>, len)>>, num, ints, 1 + len)
<1>. DEFINE f == Field(num, ints, <<>>, len)
<1>1. f \in NodeFields /\ f.num = num /\ f.ints = ints /\ f.bytes = 1 + len
  BY DEF NodeFields, Fields, Field
<1>. HIDE DEF f
<1>2. <<f>> \in Seq(NodeFields) /\ Bytes(<<f>>) = f.bytes
  BY <1>1, BytesOne DEF NodeFields
<1>3. \A n : Ints(<<f>>, n) = IF f.num = n THEN f.ints ELSE <<>>
  BY <1>1, IntsOne DEF NodeFields
<1>. QED
  BY <1>1, <1>2, <1>3 DEF Part, f

LEMMA PartKey ==
  ASSUME NEW node \in NodeImages
  PROVE  Part(Unless(node.key = 0, Number(1, node.key)), 1,
              IF node.key = 0 THEN <<>> ELSE <<node.key>>,
              IF node.key = 0 THEN 0 ELSE 1 + Varint(node.key))
<1>1. node.key \in Int /\ <<node.key>> \in Seq(Int) /\ Varint(node.key) \in Nat
  BY VarintType DEF NodeImages
<1>2. CASE node.key = 0
  BY <1>2, PartAbsent DEF Unless
<1>3. CASE node.key # 0
  <2>. DEFINE ints == <<node.key>>
              len == Varint(node.key)
  <2>1. Part(<<Field(1, ints, <<>>, len)>>, 1, ints, 1 + len)
    <3>1. 1 \in 1..3 /\ ints \in Seq(Int) /\ len \in Nat
      BY <1>1
    <3>. HIDE DEF ints, len
    <3>. QED
      BY <3>1, PartPresent
  <2>. QED
    BY <1>3, <2>1 DEF Unless, Number
<1>. QED
  BY <1>2, <1>3

LEMMA PartValue ==
  ASSUME NEW node \in NodeImages
  PROVE  Part(Unless(node.value = 0, Text(2, node.value)), 2,
              IF node.value = 0 THEN <<>> ELSE <<node.value>>,
              IF node.value = 0 THEN 0 ELSE 1 + Delimited(node.value))
<1>1. node.value \in Nat /\ <<node.value>> \in Seq(Int) /\ Delimited(node.value) \in Nat
  BY DelimitedType DEF NodeImages
<1>2. CASE node.value = 0
  BY <1>2, PartAbsent DEF Unless
<1>3. CASE node.value # 0
  <2>. DEFINE ints == <<node.value>>
              len == Delimited(node.value)
  <2>1. Part(<<Field(2, ints, <<>>, len)>>, 2, ints, 1 + len)
    <3>1. 2 \in 1..3 /\ ints \in Seq(Int) /\ len \in Nat
      BY <1>1
    <3>. HIDE DEF ints, len
    <3>. QED
      BY <3>1, PartPresent
  <2>. QED
    BY <1>3, <2>1 DEF Unless, Text
<1>. QED
  BY <1>2, <1>3

LEMMA PartNext ==
  ASSUME NEW node \in NodeImages
  PROVE  Part(Unless(NextBytes(node) = 0, Packed(3, node.next, NextBytes(node))), 3,
              node.next,
              IF NextBytes(node) = 0 THEN 0 ELSE 1 + Delimited(NextBytes(node)))
<1>1. NextBytes(node) \in Nat /\ (NextBytes(node) = 0 => node.next = <<>>)
  BY NextBytesType
<1>2. node.next \in Seq(Int) /\ Delimited(NextBytes(node)) \in Nat
  BY <1>1, DelimitedType DEF NodeImages
<1>3. CASE NextBytes(node) = 0
  BY <1>1, <1>3, PartAbsent DEF Unless
<1>4. CASE NextBytes(node) # 0
  BY <1>2, <1>4, PartPresent DEF Unless, Packed
<1>. QED
  BY <1>3, <1>4

\* What is written of a node is read back, and its size is the one announced.
LEMMA NodeRoundTrip ==
  ASSUME NEW node \in NodeImages
  PROVE  /\ NodeSerialize(node) \in Seq(NodeFields)
         /\ NodeParse(NodeSerialize(node)) = node
         /\ NodeByteSizeLong(node) = Bytes(NodeSerialize(node))
         /\ Bytes(NodeSerialize(node)) \in Nat
<1>. DEFINE a == Unless(node.key = 0, Number(1, node.key))
            b == Unless(node.value = 0, Text(2, node.value))
            c == Unless(NextBytes(node) = 0, Packed(3, node.next, NextBytes(node)))
            ka == IF node.key = 0 THEN <<>> ELSE <<node.key>>
            vb == IF node.value = 0 THEN <<>> ELSE <<node.value>>
            la == IF node.key = 0 THEN 0 ELSE 1 + Varint(node.key)
            lb == IF node.value = 0 THEN 0 ELSE 1 + Delimited(node.value)
            lc == IF NextBytes(node) = 0 THEN 0 ELSE 1 + Delimited(NextBytes(node))
            ab == a \o b
            s == NodeSerialize(node)
<1>1. Part(a, 1, ka, la) /\ Part(b, 2, vb, lb) /\ Part(c, 3, node.next, lc)
  BY PartKey, PartValue, PartNext
<1>2. s = ab \o c
  BY DEF NodeSerialize
<1>2a. ab = a \o b
  OBVIOUS
<1>3. NodeByteSizeLong(node) = (lc + lb) + la
  BY DEF NodeByteSizeLong
<1>4. /\ node.key \in Int /\ node.value \in Nat /\ node.next \in Seq(Int)
      /\ node = [key |-> node.key, value |-> node.value, next |-> node.next]
  BY DEF NodeImages
<1>5. (ka = <<>> /\ node.key = 0) \/ ka = <<node.key>>
  OBVIOUS
<1>6. (vb = <<>> /\ node.value = 0) \/ vb = <<node.value>>
  OBVIOUS
<1>. HIDE DEF a, b, c, ka, vb, la, lb, lc, ab, s
<1>7. a \in Seq(NodeFields) /\ b \in Seq(NodeFields) /\ c \in Seq(NodeFields)
  BY <1>1 DEF Part
<1>8. ab \in Seq(NodeFields) /\ s \in Seq(NodeFields)
  BY <1>2, <1>2a, <1>7, Concat
<1>9. \A n : Ints(s, n) = (Ints(a, n) \o Ints(b, n)) \o Ints(c, n)
  <2>. TAKE n
  <2>1. Ints(ab, n) = Ints(a, n) \o Ints(b, n)
    BY <1>2a, <1>7, IntsConcat DEF NodeFields
  <2>2. Ints(s, n) = Ints(ab, n) \o Ints(c, n)
    BY <1>2, <1>7, <1>8, IntsConcat DEF NodeFields
  <2>. QED
    BY <1>2, <2>1, <2>2
<1>10. /\ Ints(a, 1) = ka /\ Ints(b, 1) = <<>> /\ Ints(c, 1) = <<>>
       /\ Ints(a, 2) = <<>> /\ Ints(b, 2) = vb /\ Ints(c, 2) = <<>>
       /\ Ints(a, 3) = <<>> /\ Ints(b, 3) = <<>> /\ Ints(c, 3) = node.next
  BY <1>1 DEF Part
<1>11. Ints(s, 1) = ka /\ Ints(s, 2) = vb /\ Ints(s, 3) = node.next
  <2>1. ka \in Seq(Int) /\ vb \in Seq(Int) /\ node.next \in Seq(Int)
    <3>1. <<>> \in Seq(Int) /\ <<node.key>> \in Seq(Int) /\ <<node.value>> \in Seq(Int)
      BY <1>4
    <3>. QED
      BY <3>1, <1>4, <1>5, <1>6
  <2>2. \A x \in Seq(Int) : x \o <<>> = x /\ <<>> \o x = x
    BY ConcatEmpty
  <2>3. (ka \o <<>>) \o <<>> = ka /\ (<<>> \o vb) \o <<>> = vb
        /\ (<<>> \o <<>>) \o node.next = node.next
    <3>1. <<>> \in Seq(Int)
      OBVIOUS
    <3>. QED
      BY <2>1, <2>2, <3>1, Zenon
  <2>. QED
    BY <1>9, <1>10, <2>3
<1>12. LastInt(s, 1, 0) = node.key /\ LastInt(s, 2, 0) = node.value
  <2>1. \A x : <<x>> # <<>> /\ Last(<<x>>) = x
    BY DEF Last
  <2>2. LastInt(s, 1, 0) = node.key
    <3>1. CASE ka = <<>> /\ node.key = 0
      BY <1>11, <3>1 DEF LastInt
    <3>2. CASE ka = <<node.key>>
      BY <1>4, <1>11, <2>1, <3>2 DEF LastInt
    <3>. QED
      BY <1>5, <3>1, <3>2
  <2>3. LastInt(s, 2, 0) = node.value
    <3>1. CASE vb = <<>> /\ node.value = 0
      BY <1>11, <3>1 DEF LastInt
    <3>2. CASE vb = <<node.value>>
      BY <1>4, <1>11, <2>1, <3>2 DEF LastInt
    <3>. QED
      BY <1>6, <3>1, <3>2
  <2>. QED
    BY <2>2, <2>3
<1>13. NodeParse(s) = node
  <2>1. NodeParse(s) = [key |-> LastInt(s, 1, 0), value |-> LastInt(s, 2, 0),
                        next |-> <<>> \o Ints(s, 3)]
    BY DEF NodeParse, NewNode
  <2>. QED
    BY <1>4, <1>11, <1>12, <2>1, ConcatEmpty
<1>14. Bytes(s) = (Bytes(a) + Bytes(b)) + Bytes(c)
  <2>1. Bytes(ab) = Bytes(a) + Bytes(b)
    BY <1>2a, <1>7, BytesConcat DEF NodeFields
  <2>2. Bytes(s) = Bytes(ab) + Bytes(c)
    BY <1>2, <1>7, <1>8, BytesConcat DEF NodeFields
  <2>. QED
    BY <1>2, <2>1, <2>2
<1>15. Bytes(a) = la /\ Bytes(b) = lb /\ Bytes(c) = lc
  BY <1>1 DEF Part
<1>16. Bytes(a) \in Nat /\ Bytes(b) \in Nat /\ Bytes(c) \in Nat
  BY <1>7, BytesNat DEF NodeFields
<1>17. NodeByteSizeLong(node) = Bytes(s) /\ Bytes(s) \in Nat
  BY <1>3, <1>14, <1>15, <1>16
<1>. QED
  BY <1>8, <1>13, <1>17 DEF s

\* The nodes of an image are read back, and its size is the one announced.
THEOREM ImageRoundTrip ==
  ASSUME NEW nodes \in Seq(NodeImages)
  PROVE  /\ SkiplistSerialize(nodes) \in Seq(ImageFields)
         /\ SkiplistParse(SkiplistSerialize(nodes)) = nodes
         /\ SkiplistByteSizeLong(nodes) = Bytes(SkiplistSerialize(nodes))
         /\ SkiplistByteSizeLong(nodes) \in Nat
<1>. DEFINE n == Len(nodes)
            f(i) == Sub(1, NodeSerialize(nodes[i]))
            s == [i \in 1..n |-> f(i)]
            m == [i \in 1..n |-> Delimited(NodeByteSizeLong(nodes[i]))]
<1>1. n \in Nat /\ DOMAIN nodes = 1..n /\ \A i \in 1..n : nodes[i] \in NodeImages
  BY SeqElements
<1>2. SkiplistSerialize(nodes) = s
  BY <1>1 DEF SkiplistSerialize, Each
<1>3. SkiplistByteSizeLong(nodes) = n + Added(m)
  BY <1>1 DEF SkiplistByteSizeLong, SumOf, Each
<1>4. ASSUME NEW i \in 1..n
      PROVE  /\ f(i) \in ImageFields /\ f(i).num = 1 /\ f(i).subs = NodeSerialize(nodes[i])
             /\ f(i).bytes = 1 + m[i] /\ m[i] \in Nat
             /\ NodeParse(f(i).subs) = nodes[i]
  <2>1. /\ NodeSerialize(nodes[i]) \in Seq(NodeFields)
        /\ NodeParse(NodeSerialize(nodes[i])) = nodes[i]
        /\ NodeByteSizeLong(nodes[i]) = Bytes(NodeSerialize(nodes[i]))
        /\ Bytes(NodeSerialize(nodes[i])) \in Nat
    BY <1>1, NodeRoundTrip
  <2>2. m[i] = Delimited(Bytes(NodeSerialize(nodes[i]))) /\ m[i] \in Nat
    BY <2>1, DelimitedType
  <2>3. f(i) = [num |-> 1, ints |-> <<>>, subs |-> NodeSerialize(nodes[i]), bytes |-> 1 + m[i]]
    BY <2>2 DEF Sub, Field
  <2>. HIDE DEF f, s, m, n
  <2>4. /\ f(i).num = 1 /\ f(i).subs = NodeSerialize(nodes[i]) /\ f(i).bytes = 1 + m[i]
    BY <2>3
  <2>5. f(i) \in ImageFields
    <3>1. 1 + m[i] \in Nat /\ <<>> \in Seq(Int) /\ 1 \in Nat
      BY <2>2
    <3>. QED
      BY <2>1, <2>3, <3>1 DEF ImageFields, Fields
  <2>. QED
    BY <2>1, <2>2, <2>4, <2>5
<1>. HIDE DEF f
<1>5. s \in Seq(ImageFields) /\ Len(s) = n
  BY <1>1, <1>4
<1>6. \A i \in 1..n : s[i] = f(i)
  OBVIOUS
<1>7. m \in Seq(Nat) /\ Len(m) = n
  BY <1>1, <1>4
<1>. HIDE DEF s, m
<1>8. Subs(s, 1) = [i \in 1..n |-> s[i].subs]
  BY <1>4, <1>5, <1>6, SubsAll DEF ImageFields
<1>9. SkiplistParse(s) = nodes
  <2>1. SkiplistParse(s) = <<>> \o [i \in DOMAIN Subs(s, 1) |-> NodeParse(Subs(s, 1)[i])]
    BY DEF SkiplistParse, NewSkiplist, Each
  <2>2. DOMAIN Subs(s, 1) = 1..n /\ \A i \in 1..n : NodeParse(Subs(s, 1)[i]) = nodes[i]
    BY <1>4, <1>6, <1>8
  <2>3. [i \in DOMAIN Subs(s, 1) |-> NodeParse(Subs(s, 1)[i])] = [i \in 1..n |-> nodes[i]]
    BY <2>2
  <2>4. [i \in 1..n |-> nodes[i]] = nodes
    BY <1>1
  <2>. QED
    BY <2>1, <2>3, <2>4, ConcatEmpty
<1>10. Bytes(s) = n + Added(m) /\ n + Added(m) \in Nat
  <2>1. BytesOf(s) = PlusOne(m)
    BY <1>4, <1>5, <1>6, <1>7 DEF BytesOf, PlusOne
  <2>2. Bytes(s) = Added(PlusOne(m))
    BY <1>5, <2>1, BytesIs DEF ImageFields
  <2>3. Added(PlusOne(m)) = Len(m) + Added(m) /\ Added(m) \in Nat
    BY <1>7, AddedPlusOne, AddedNat
  <2>. QED
    BY <1>1, <1>7, <2>2, <2>3
<1>. QED
  BY <1>2, <1>3, <1>5, <1>9, <1>10
=============================================================================
