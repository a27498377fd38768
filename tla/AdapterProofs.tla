---------------------------- MODULE AdapterProofs ----------------------------
(***************************************************************************)
(* Proofs about Adapters: what the loop gets of a reply, and that what it*)
(* sends next is accepted.  The first part is about the operators on     *)
(* sequences; the induction theorems of the library take an operator as a*)
(* parameter, which the provers cannot instantiate, so Induction is stated*)
(* with a set.                                                           *)
(***************************************************************************)
EXTENDS Adapters, FiniteSetTheorems, NaturalsInduction, SequenceTheorems, TLAPS

(* A set of natural numbers that is not empty has a least element.       *)
LEMMA LeastElement ==
    ASSUME NEW T \in SUBSET Nat, T # {} PROVE \E x \in T : \A y \in T : x <= y
<1>1. \E R : /\ \A x, y \in Nat : << y, x >> \in R <=> y < x
             /\ \A U \in SUBSET Nat :
                    U # {} => \E x \in U : \A y \in U : ~ (<< y, x >> \in R)
  <2>1. \A x, y \in Nat : << y, x >> \in OpToRel(<, Nat) <=> y < x
    BY DEF OpToRel
  <2>2. \A U \in SUBSET Nat :
            U # {} => \E x \in U : \A y \in U : ~ (<< y, x >> \in OpToRel(<, Nat))
    BY WFMin, NatLessThanWellFounded
  <2>. WITNESS OpToRel(<, Nat)
  <2>. QED BY <2>1, <2>2, Zenon
<1>2. PICK R : /\ \A x, y \in Nat : << y, x >> \in R <=> y < x
               /\ \A U \in SUBSET Nat :
                      U # {} => \E x \in U : \A y \in U : ~ (<< y, x >> \in R)
  BY <1>1
<1>3. PICK x \in T : \A y \in T : ~ (<< y, x >> \in R)
  BY <1>2
<1>4. ASSUME NEW y \in T PROVE x <= y
  <2>1. x \in Nat /\ y \in Nat
    OBVIOUS
  <2>2. ~ (y < x)
    BY <1>2, <1>3, <2>1
  <2>. QED BY <2>1, <2>2
<1>. QED BY <1>4

(* A set of natural numbers that contains 0, and with each number the    *)
(* next, is Nat: induction without an operator as a parameter.           *)
LEMMA Induction ==
    ASSUME NEW T \in SUBSET Nat, 0 \in T, \A n \in T : n + 1 \in T
    PROVE  T = Nat
<1>. SUFFICES ASSUME T # Nat PROVE FALSE
  OBVIOUS
<1>1. PICK x \in Nat \ T : \A y \in Nat \ T : x <= y
  BY LeastElement
<1>2. x - 1 \in Nat /\ x - 1 \in T
  BY <1>1
<1>. QED BY <1>1, <1>2

(* What FlattenSeq computes: the function of its definition exists, for  *)
(* every sequence.                                                       *)
LEMMA FlattenRec ==
    ASSUME NEW seqs, Len(seqs) \in Nat, Len(seqs) > 0
    PROVE  \E f : /\ f = [i \in 1 .. Len(seqs) |-> IF i = 1 THEN seqs[i] ELSE f[i - 1] \o seqs[i]]
                  /\ FlattenSeq(seqs) = f[Len(seqs)]
<1>. DEFINE Rec(f, n) == f = [i \in 1 .. n |-> IF i = 1 THEN seqs[i] ELSE f[i - 1] \o seqs[i]]
            T == {n \in Nat : \E f : Rec(f, n)}
<1>1. 0 \in T
  <2>. Rec(<< >>, 0)
    OBVIOUS
  <2>. QED OBVIOUS
<1>2. ASSUME NEW n \in T PROVE n + 1 \in T
  <2>1. PICK f : Rec(f, n)
    OBVIOUS
  <2>. DEFINE g == [i \in 1 .. n + 1 |->
                      IF i = 1 THEN seqs[i] ELSE IF i <= n THEN f[i] ELSE f[n] \o seqs[i]]
  <2>2. Rec(g, n + 1)
    <3>1. \A i \in 1 .. n : f[i] = IF i = 1 THEN seqs[i] ELSE f[i - 1] \o seqs[i]
      BY <2>1
    <3>2. \A i \in 1 .. n : g[i] = f[i]
      BY <3>1
    <3>3. ASSUME NEW i \in 1 .. n + 1
          PROVE  g[i] = IF i = 1 THEN seqs[i] ELSE g[i - 1] \o seqs[i]
      <4>1. CASE i = 1
        BY <4>1
      <4>2. CASE i # 1 /\ i <= n
        <5>1. i \in 1 .. n /\ i - 1 \in 1 .. n
          BY <4>2
        <5>. QED BY <3>1, <3>2, <4>2, <5>1
      <4>3. CASE i # 1 /\ i = n + 1
        <5>1. n \in 1 .. n /\ i - 1 = n /\ ~ (i <= n)
          BY <4>3
        <5>2. g[i] = f[n] \o seqs[i]
          BY <4>3, <5>1
        <5>3. g[i - 1] = f[n]
          BY <3>2, <5>1
        <5>. QED BY <4>3, <5>2, <5>3
      <4>. QED BY <4>1, <4>2, <4>3
    <3>. HIDE DEF g
    <3>4. g = [i \in 1 .. n + 1 |-> g[i]]
      BY DEF g
    <3>. QED BY <3>3, <3>4
  <2>3. \E h : Rec(h, n + 1)
    BY <2>2, Zenon
  <2>4. n + 1 \in Nat
    OBVIOUS
  <2>. QED BY <2>3, <2>4, Zenon
<1>3. \E f : Rec(f, Len(seqs))
  <2>. T = Nat
    <3>. HIDE DEF T
    <3>. QED BY <1>1, <1>2, Induction DEF T
  <2>. QED OBVIOUS
<1>. DEFINE flatten == CHOOSE f : Rec(f, Len(seqs))
<1>4. Rec(flatten, Len(seqs))
  BY <1>3, Zenon
<1>5. Len(seqs) # 0
  OBVIOUS
<1>6. FlattenSeq(seqs) = flatten[Len(seqs)]
  BY <1>5, Zenon DEF FlattenSeq
<1>. QED BY <1>4, <1>6, Zenon

(* One more sequence at the end is appended to what the others flatten   *)
(* to.                                                                   *)
LEMMA FlattenAppend ==
    ASSUME NEW X, NEW s \in Seq(Seq(X)), NEW e \in Seq(X)
    PROVE  /\ FlattenSeq(s) \in Seq(X)
           /\ FlattenSeq(s \o << e >>) = FlattenSeq(s) \o e
<1>. DEFINE t == s \o << e >>
<1>1. /\ t \in Seq(Seq(X)) /\ Len(t) = Len(s) + 1 /\ t[Len(s) + 1] = e
      /\ \A i \in 1 .. Len(s) : t[i] = s[i]
      /\ Len(s) \in Nat
  OBVIOUS
<1>. HIDE DEF t
<1>2. PICK g : /\ g = [i \in 1 .. Len(t) |-> IF i = 1 THEN t[i] ELSE g[i - 1] \o t[i]]
               /\ FlattenSeq(t) = g[Len(t)]
  <2>1. Len(t) \in Nat /\ Len(t) > 0
    BY <1>1
  <2>. QED BY <2>1, FlattenRec, Zenon
<1>3. \A i \in 1 .. Len(t) : g[i] = IF i = 1 THEN t[i] ELSE g[i - 1] \o t[i]
  BY <1>2
<1>4. CASE Len(s) = 0
  <2>1. s = << >> /\ FlattenSeq(s) = s
    BY <1>4 DEF FlattenSeq
  <2>2. FlattenSeq(t) = e
    BY <1>1, <1>2, <1>3, <1>4
  <2>3. s \in Seq(X) /\ s \o e = e
    BY <2>1
  <2>. QED BY <2>1, <2>2, <2>3 DEF t
<1>5. CASE Len(s) # 0
  <2>1. PICK f : /\ f = [i \in 1 .. Len(s) |-> IF i = 1 THEN s[i] ELSE f[i - 1] \o s[i]]
                 /\ FlattenSeq(s) = f[Len(s)]
    <3>1. Len(s) \in Nat /\ Len(s) > 0
      BY <1>1, <1>5
    <3>. QED BY <3>1, FlattenRec, Zenon
  <2>2. \A i \in 1 .. Len(s) : f[i] = IF i = 1 THEN s[i] ELSE f[i - 1] \o s[i]
    BY <2>1
  <2>. DEFINE T == {n \in Nat : n + 1 <= Len(s) => f[n + 1] \in Seq(X) /\ g[n + 1] = f[n + 1]}
  <2>3. 0 \in T
    BY <1>1, <1>3, <1>5, <2>2
  <2>4. ASSUME NEW n \in T PROVE n + 1 \in T
    <3>1. SUFFICES ASSUME n + 2 <= Len(s)
                   PROVE  f[n + 2] \in Seq(X) /\ g[n + 2] = f[n + 2]
      OBVIOUS
    <3>2. /\ n \in Nat /\ n + 2 \in 1 .. Len(s) /\ n + 2 \in 1 .. Len(t) /\ n + 2 # 1
          /\ (n + 2) - 1 = n + 1
      BY <1>1, <3>1
    <3>3. f[n + 1] \in Seq(X) /\ g[n + 1] = f[n + 1]
      BY <3>1
    <3>4. f[n + 2] = f[n + 1] \o s[n + 2] /\ g[n + 2] = g[n + 1] \o t[n + 2]
      BY <1>3, <2>2, <3>2
    <3>5. t[n + 2] = s[n + 2] /\ s[n + 2] \in Seq(X)
      BY <1>1, <3>2
    <3>. QED BY <3>3, <3>4, <3>5
  <2>5. T = Nat
    <3>. HIDE DEF T
    <3>1. T \in SUBSET Nat
      BY DEF T
    <3>. QED BY <2>3, <2>4, <3>1, Induction
  <2>6. f[Len(s)] \in Seq(X) /\ g[Len(s)] = f[Len(s)]
    <3>1. Len(s) - 1 \in Nat /\ (Len(s) - 1) + 1 = Len(s)
      BY <1>1, <1>5
    <3>2. Len(s) - 1 \in T
      <4>. HIDE DEF T
      <4>. QED BY <2>5, <3>1
    <3>. QED BY <3>1, <3>2
  <2>7. g[Len(t)] = g[Len(s)] \o e
    <3>1. Len(t) \in 1 .. Len(t) /\ Len(t) # 1 /\ Len(t) - 1 = Len(s) /\ t[Len(t)] = e
      BY <1>1, <1>5
    <3>. QED BY <1>3, <3>1
  <2>. QED BY <1>2, <2>1, <2>6, <2>7 DEF t
<1>. QED BY <1>1, <1>4, <1>5

(* \o is associative.                                                     *)
LEMMA Associative ==
    \A X : \A a, b, c \in Seq(X) : (a \o b) \o c = a \o (b \o c)
<1>1. ASSUME NEW X, NEW a \in Seq(X), NEW b \in Seq(X), NEW c \in Seq(X)
      PROVE  (a \o b) \o c = a \o (b \o c)
  OBVIOUS
<1>. QED BY <1>1, Zenon

(* Flattening distributes over concatenation.                            *)
LEMMA FlattenConcat ==
    ASSUME NEW X, NEW s \in Seq(Seq(X)), NEW t \in Seq(Seq(X))
    PROVE  /\ FlattenSeq(s) \in Seq(X)
           /\ FlattenSeq(s \o t) = FlattenSeq(s) \o FlattenSeq(t)
<1>. DEFINE T == {n \in Nat : \A u \in Seq(Seq(X)) :
                     Len(u) = n => FlattenSeq(s \o u) = FlattenSeq(s) \o FlattenSeq(u)}
<1>1. FlattenSeq(s) \in Seq(X)
  <2>. << >> \in Seq(X)
    OBVIOUS
  <2>. QED BY FlattenAppend
<1>2. 0 \in T
  <2>1. ASSUME NEW u \in Seq(Seq(X)), Len(u) = 0
        PROVE  FlattenSeq(s \o u) = FlattenSeq(s) \o FlattenSeq(u)
    <3>1. u = << >> /\ s \o u = s
      BY <2>1
    <3>2. FlattenSeq(u) = << >>
      BY <2>1, <3>1 DEF FlattenSeq
    <3>. QED BY <1>1, <3>1, <3>2
  <2>. QED BY <2>1
<1>3. ASSUME NEW n \in T PROVE n + 1 \in T
  <2>1. ASSUME NEW u \in Seq(Seq(X)), Len(u) = n + 1
        PROVE  FlattenSeq(s \o u) = FlattenSeq(s) \o FlattenSeq(u)
    <3>. DEFINE v == SubSeq(u, 1, n)
                e == u[n + 1]
    <3>0. n \in Nat
      OBVIOUS
    <3>1. v \in Seq(Seq(X)) /\ Len(v) = n /\ e \in Seq(X)
      BY <2>1, <3>0
    <3>2. u = v \o << e >>
      BY <2>1, <3>0
    <3>. HIDE DEF v, e
    <3>3. s \o u = (s \o v) \o << e >> /\ s \o v \in Seq(Seq(X))
      BY <3>1, <3>2
    <3>4. FlattenSeq(s \o v) = FlattenSeq(s) \o FlattenSeq(v)
      BY <3>1
    <3>5. /\ FlattenSeq((s \o v) \o << e >>) = FlattenSeq(s \o v) \o e
          /\ FlattenSeq(v \o << e >>) = FlattenSeq(v) \o e
          /\ FlattenSeq(v) \in Seq(X)
      BY <3>1, <3>3, FlattenAppend
    <3>6. (FlattenSeq(s) \o FlattenSeq(v)) \o e = FlattenSeq(s) \o (FlattenSeq(v) \o e)
      <4>1. FlattenSeq(s) \in Seq(X) /\ FlattenSeq(v) \in Seq(X) /\ e \in Seq(X)
        BY <1>1, <3>1, <3>5
      <4>2. \A a, b, c \in Seq(X) : (a \o b) \o c = a \o (b \o c)
        <5>. HIDE DEF T
        <5>. QED BY Associative, SMTT(30)
      <4>. QED BY <4>1, <4>2, Zenon
    <3>. QED BY <3>2, <3>3, <3>4, <3>5, <3>6
  <2>. QED BY <2>1
<1>4. T = Nat
  <2>. HIDE DEF T
  <2>1. T \in SUBSET Nat
    BY DEF T
  <2>. QED BY <1>2, <1>3, <2>1, Induction
<1>5. Len(t) \in Nat /\ Len(t) \in T
  <2>. HIDE DEF T
  <2>. QED BY <1>4
<1>. QED BY <1>1, <1>5

(* One sequence is left as it is,                                        *)
LEMMA FlattenOne ==
    ASSUME NEW X, NEW e \in Seq(X) PROVE FlattenSeq(<< e >>) = e
<1>1. << >> \in Seq(Seq(X)) /\ << >> \o << e >> = << e >>
  OBVIOUS
<1>2. FlattenSeq(<< >>) = << >>
  BY DEF FlattenSeq
<1>3. FlattenSeq(<< >> \o << e >>) = FlattenSeq(<< >>) \o e
  BY <1>1, FlattenAppend
<1>4. << >> \o e = e
  OBVIOUS
<1>. QED BY <1>1, <1>2, <1>3, <1>4

(* and so is a sequence that was cut into its elements.                  *)
LEMMA FlattenSingles ==
    ASSUME NEW X, NEW e \in Seq(X)
    PROVE  FlattenSeq([i \in 1 .. Len(e) |-> << e[i] >>]) = e
<1>. DEFINE Singles(u) == [i \in 1 .. Len(u) |-> << u[i] >>]
            T == {n \in Nat : \A u \in Seq(X) : Len(u) = n => FlattenSeq(Singles(u)) = u}
<1>1. 0 \in T
  <2>1. ASSUME NEW u \in Seq(X), Len(u) = 0 PROVE FlattenSeq(Singles(u)) = u
    <3>1. u = << >> /\ Singles(u) = << >>
      BY <2>1
    <3>. QED BY <3>1 DEF FlattenSeq
  <2>. QED BY <2>1
<1>2. ASSUME NEW n \in T PROVE n + 1 \in T
  <2>1. ASSUME NEW u \in Seq(X), Len(u) = n + 1 PROVE FlattenSeq(Singles(u)) = u
    <3>. DEFINE v == SubSeq(u, 1, n)
                x == u[n + 1]
    <3>0. n \in Nat
      OBVIOUS
    <3>1. v \in Seq(X) /\ Len(v) = n /\ x \in X
      BY <2>1, <3>0
    <3>2. u = v \o << x >>
      BY <2>1, <3>0
    <3>3. /\ Singles(v) \in Seq(Seq(X)) /\ << x >> \in Seq(X)
          /\ Singles(u) = Singles(v) \o << << x >> >>
      <4>. HIDE DEF v, x
      <4>. QED BY <3>0, <3>1, <3>2, SMTT(30)
    <3>4. FlattenSeq(Singles(v)) = v
      BY <3>1
    <3>. HIDE DEF v, x, Singles
    <3>. QED BY <3>2, <3>3, <3>4, FlattenAppend
  <2>. QED BY <2>1
<1>3. T = Nat
  <2>. HIDE DEF T
  <2>1. T \in SUBSET Nat
    BY DEF T
  <2>. QED BY <1>1, <1>2, <2>1, Induction
<1>. QED BY <1>3

(* Every finite set of natural numbers can be listed in increasing order,*)
LEMMA InOrderExists ==
    ASSUME NEW S \in SUBSET Nat, IsFiniteSet(S)
    PROVE  \E list \in [1 .. Cardinality(S) -> S] :
               \A m, n \in 1 .. Cardinality(S) : m < n => list[m] < list[n]
<1>. DEFINE Increasing(list, n) == \A k, m \in 1 .. n : k < m => list[k] < list[m]
            T == {n \in Nat : \A U \in SUBSET Nat :
                     IsFiniteSet(U) /\ Cardinality(U) = n =>
                         \E list \in [1 .. n -> U] : Increasing(list, n)}
<1>1. 0 \in T
  <2>1. ASSUME NEW U \in SUBSET Nat, IsFiniteSet(U), Cardinality(U) = 0
        PROVE  \E list \in [1 .. 0 -> U] : Increasing(list, 0)
    <3>. DEFINE none == [k \in 1 .. 0 |-> k]
    <3>1. none \in [1 .. 0 -> U] /\ Increasing(none, 0)
      OBVIOUS
    <3>. QED BY <3>1
  <2>. QED BY <2>1
<1>2. ASSUME NEW n \in T PROVE n + 1 \in T
  <2>0. n \in Nat
    OBVIOUS
  <2>1. ASSUME NEW U \in SUBSET Nat, IsFiniteSet(U), Cardinality(U) = n + 1
        PROVE  \E list \in [1 .. n + 1 -> U] : Increasing(list, n + 1)
    <3>1. U # {}
      BY <2>0, <2>1, FS_EmptySet
    <3>2. PICK x \in U : \A y \in U : x <= y
      BY <3>1, LeastElement
    <3>3. IsFiniteSet(U \ {x}) /\ Cardinality(U \ {x}) = n
      <4>1. Cardinality(U \ {x}) = Cardinality(U) - 1 /\ IsFiniteSet(U \ {x})
        BY <2>1, FS_RemoveElement
      <4>. QED BY <2>0, <2>1, <4>1
    <3>4. PICK rest \in [1 .. n -> U \ {x}] : Increasing(rest, n)
      BY <3>3
    <3>. DEFINE list == [k \in 1 .. n + 1 |-> IF k = 1 THEN x ELSE rest[k - 1]]
    <3>5. \A k \in 1 .. n + 1 : k # 1 => k - 1 \in 1 .. n /\ rest[k - 1] \in U \ {x}
      BY <2>0
    <3>6. list \in [1 .. n + 1 -> U]
      BY <3>5
    <3>7. ASSUME NEW k \in 1 .. n + 1, NEW m \in 1 .. n + 1, k < m
          PROVE  list[k] < list[m]
      <4>1. m # 1 /\ m - 1 \in 1 .. n /\ list[m] = rest[m - 1] /\ rest[m - 1] \in U \ {x}
        BY <2>0, <3>5, <3>7
      <4>2. CASE k = 1
        <5>1. list[k] = x
          BY <4>2
        <5>2. rest[m - 1] \in Nat /\ x \in Nat /\ x <= rest[m - 1] /\ x # rest[m - 1]
          BY <3>2, <4>1
        <5>. HIDE DEF list
        <5>. QED BY <4>1, <5>1, <5>2
      <4>3. CASE k # 1
        <5>1. k - 1 \in 1 .. n /\ k - 1 < m - 1 /\ list[k] = rest[k - 1]
          BY <2>0, <3>7, <4>3
        <5>. QED BY <3>4, <4>1, <5>1
      <4>. QED BY <4>2, <4>3
    <3>. HIDE DEF list
    <3>. QED BY <3>6, <3>7
  <2>2. n + 1 \in Nat
    BY <2>0
  <2>. HIDE DEF Increasing
  <2>. QED BY <2>1, <2>2
<1>3. Cardinality(S) \in Nat
  BY FS_CardinalityType
<1>4. T = Nat
  <2>. HIDE DEF T
  <2>1. T \in SUBSET Nat
    BY DEF T
  <2>. QED BY <1>1, <1>2, <2>1, Induction
<1>5. Cardinality(S) \in T
  <2>. HIDE DEF T
  <2>. QED BY <1>3, <1>4
<1>. HIDE DEF Increasing
<1>6. \E list \in [1 .. Cardinality(S) -> S] : Increasing(list, Cardinality(S))
  BY <1>5
<1>. QED BY <1>6 DEF Increasing

(* so InOrder lists it: each element, once.                              *)
LEMMA InOrderEnumerates ==
    ASSUME NEW S \in SUBSET Nat, IsFiniteSet(S)
    PROVE  /\ InOrder(S) \in Seq(S) /\ Len(InOrder(S)) = Cardinality(S)
           /\ Cardinality(S) \in Nat
           /\ \A m, n \in 1 .. Len(InOrder(S)) : InOrder(S)[m] = InOrder(S)[n] => m = n
           /\ \A i \in S : \E n \in 1 .. Len(InOrder(S)) : InOrder(S)[n] = i
<1>. DEFINE list == InOrder(S)
            N == Cardinality(S)
<1>1. N \in Nat
  BY FS_CardinalityType
<1>2. list \in [1 .. N -> S] /\ \A m, n \in 1 .. N : m < n => list[m] < list[n]
  <2>1. \E l \in [1 .. N -> S] : \A m, n \in 1 .. N : m < n => l[m] < l[n]
    BY InOrderExists
  <2>. QED BY <2>1, Zenon DEF InOrder
<1>. HIDE DEF list, N
<1>3. list \in Seq(S) /\ Len(list) = N
  BY <1>1, <1>2
<1>4. ASSUME NEW m \in 1 .. N, NEW n \in 1 .. N, list[m] = list[n] PROVE m = n
  <2>1. list[m] \in Nat /\ list[n] \in Nat /\ m \in Int /\ n \in Int
    <3>1. list[m] \in S /\ list[n] \in S
      BY <1>2
    <3>2. \A x \in S : x \in Nat
      OBVIOUS
    <3>3. m \in Int /\ n \in Int
      BY <1>1
    <3>. QED BY <3>1, <3>2, <3>3, Zenon
  <2>2. ~ (m < n) /\ ~ (n < m)
    BY <1>2, <1>4, <2>1
  <2>. QED BY <2>1, <2>2
<1>5. \A i \in S : \E n \in 1 .. N : list[n] = i
  <2>1. list \in Injection(1 .. N, S)
    BY <1>2, <1>4 DEF Injection, IsInjective
  <2>2. Cardinality(1 .. N) = N
    BY <1>1, FS_Interval
  <2>3. list \in Surjection(1 .. N, S)
    BY <2>1, <2>2, FS_Injection DEF N
  <2>. QED BY <2>3 DEF Surjection
<1>. QED BY <1>1, <1>3, <1>4, <1>5 DEF list, N

-----------------------------------------------------------------------------

(* The text: what the loop has is what the service sent.                   *)
TextInv == said \in Seq(Nat) /\ session_text = said

(* The usage: while the reply is coming nothing is recorded, and the       *)
(* tracker holds the last that was reported of each count; it knows the    *)
(* model once it has seen any.                                             *)
UsageInv ==
    /\ reported \in [input : Nat \cup {None}, output : Nat \cup {None}]
    /\ final \in [input : Nat \cup {None}, output : Nat \cup {None}, model : {None, Model}]
    /\ reply = "coming" =>
          /\ by_model = << >>
          /\ final.input = reported.input /\ final.output = reported.output
          /\ final.model = None => reported.input = None /\ reported.output = None
    /\ UsageAsReported

(* The calls of OpenAI: until they are given out, the buffers hold what    *)
(* was sent of each call, and after that nothing; or else the reply is     *)
(* over, and none is given out.                                            *)
GivenOut ==
    LET opened == InOrder(Opened)
    IN  /\ session_tool_calls \in Seq(WireCall)
        /\ Len(session_tool_calls) = Len(opened)
        /\ \A n \in 1 .. Len(opened) :
              session_tool_calls[n] \in
                  [id : {Given(opened[n]), Made(opened[n])}, name : {Name(opened[n])},
                   arguments : {IF Readable(opened[n]) THEN "sent" ELSE "empty"}]

OpenAIInv ==
    /\ sent \in [Slots -> Int] /\ \A i \in Slots : sent[i] >= -1
    /\ finishes \in Nat
    /\ finishes = 0 =>
          /\ session_tool_calls = << >>
          /\ DOMAIN buffers = Opened
          /\ \A i \in Opened : buffers[i] \in [id : {NoId, Given(i)}, name : {Name(i)},
                                              args : {Pieces(sent[i])}]
    /\ finishes > 0 => IF \E i \in Opened : Unreadable(i)
                       THEN reply # "coming" /\ session_tool_calls = << >>
                       ELSE DOMAIN buffers = {} /\ GivenOut

(* The calls of Gemini: each function called, with its name for an id.     *)
FunctionsAsked == {"name"} \X Nat

GeminiInv ==
    /\ chunks \in Nat
    /\ asked \in Seq(FunctionsAsked)
    /\ session_tool_calls = FunctionCalls(asked)

AdapterInv ==
    /\ adapter \in {"openai", "gemini"} /\ reply \in {"coming", "returned", "drained", "left"}
    /\ TextInv
    /\ UsageInv
    /\ adapter = "openai" => OpenAIInv
    /\ adapter = "gemini" => GeminiInv

(* The invariant holds at first: nothing has been said, captured or asked. *)
LEMMA InitInv == Init => AdapterInv
<1>. SUFFICES ASSUME Init PROVE AdapterInv
  OBVIOUS
<1>. USE DEF Init, ReplyInit, OpenAIInit, GeminiInit, TrackingInit, NothingCaptured, None
<1>1. /\ adapter \in {"openai", "gemini"} /\ reply \in {"coming", "returned", "drained", "left"}
      /\ TextInv
  BY DEF TextInv
<1>2. UsageInv
  BY DEF UsageInv, UsageAsReported
<1>3. ASSUME adapter = "openai" PROVE OpenAIInv
  <2>1. Opened = {}
    BY OpenAIAssumption DEF Opened
  <2>. QED BY <1>3, <2>1, OpenAIAssumption DEF OpenAIInv
<1>4. GeminiInv
  BY DEF GeminiInv, FunctionCalls
<1>. QED BY <1>1, <1>2, <1>3, <1>4 DEF AdapterInv

(* The text: what is said with a chunk that has no calls is gathered, and  *)
(* a chunk with calls comes without text.                                  *)
LEMMA TextStep == AdapterInv /\ [Next]_vars => TextInv'
<1>. SUFFICES ASSUME AdapterInv, [Next]_vars PROVE TextInv'
  OBVIOUS
<1>. USE DEF AdapterInv, TextInv
<1>1. \A text \in NextText : text \in Seq(Nat)
  <2>1. \A n \in Nat : << n + 1 >> \in Seq(Nat)
    OBVIOUS
  <2>2. << >> \in Seq(Nat) /\ Len(said) \in Nat
    OBVIOUS
  <2>. QED BY <2>1, <2>2 DEF NextText
<1>2. ASSUME NEW text \in NextText, NEW carries, PassText(text, carries) PROVE TextInv'
  <2>1. text \in Seq(Nat) /\ said' = said \o text
    BY <1>1, <1>2 DEF PassText, Say
  <2>2. CASE text # << >>
    <3>1. Yield([Plain EXCEPT !.text = text])
      BY <1>2, <2>2 DEF PassText
    <3>2. session_text' = session_text \o text
      BY <3>1 DEF Yield, Plain
    <3>. QED BY <2>1, <3>2
  <2>3. CASE text = << >>
    BY <1>2, <2>1, <2>3 DEF PassText, YieldNothing
  <2>. QED BY <2>2, <2>3
<1>3. ASSUME NEW i \in Slots, Open(i) \/ Piece(i) PROVE TextInv'
  BY <1>2, <1>3 DEF Open, Piece
<1>4. ASSUME Text PROVE TextInv'
  BY <1>2, <1>4 DEF Text
<1>5. ASSUME FinishCalls PROVE TextInv'
  BY <1>5 DEF FinishCalls, EmitCalls, Raise, Yield, YieldNothing, Plain
<1>6. ASSUME UsageChunk PROVE TextInv'
  BY <1>6 DEF UsageChunk, Yield, Plain
<1>7. ASSUME NEW text \in {<< >>, << 1 >>}, NEW calls, NEW usage, NEW counts,
             Respond(text, calls, usage, counts)
      PROVE  TextInv'
  <2>1. << >> \in Seq(Nat) /\ << 1 >> \in Seq(Nat)
    OBVIOUS
  <2>. QED BY <1>7, <2>1 DEF Respond
<1>8. ASSUME OpenAICompletes PROVE TextInv'
  <2>1. CASE \E usage : Raise(usage)
    BY <2>1 DEF Raise
  <2>. QED BY <1>7, <1>8, <2>1 DEF OpenAICompletes
<1>9. ASSUME GeminiChunk PROVE TextInv'
  <2>1. PICK names \in CalledNames, text \in NextText,
             input \in Counts(2), output \in Counts(chunks + 1) :
             IF names # << >>
             THEN /\ Yield([[Plain EXCEPT !.input = input, !.output = output]
                             EXCEPT !.calls = FunctionCalls(names)])
                  /\ UNCHANGED said
             ELSE /\ Yield([[Plain EXCEPT !.input = input, !.output = output]
                             EXCEPT !.text = text])
                  /\ Say(text)
    BY <1>9 DEF GeminiChunk
  <2>2. CASE names # << >>
    BY <2>1, <2>2 DEF Yield, Plain
  <2>3. CASE names = << >>
    <3>1. text \in Seq(Nat) /\ said' = said \o text
      BY <1>1, <2>1, <2>3 DEF Say
    <3>2. session_text' = session_text \o text
      BY <2>1, <2>3 DEF Yield, Plain
    <3>. QED BY <3>1, <3>2
  <2>. QED BY <2>2, <2>3
<1>10. ASSUME GeminiCompletes PROVE TextInv'
  BY <1>7, <1>10 DEF GeminiCompletes
<1>13. ASSUME GeminiRaises PROVE TextInv'
  BY <1>13 DEF GeminiRaises, Raise
<1>11. ASSUME Leave \/ Drain PROVE TextInv'
  BY <1>11 DEF Leave, Drain
<1>12. CASE UNCHANGED vars
  BY <1>12 DEF vars, replyVars
<1>. QED BY <1>3, <1>4, <1>5, <1>6, <1>8, <1>9, <1>10, <1>11, <1>12, <1>13
     DEF Next, OpenAINext, GeminiNext

(* A plain chunk with counts.                                              *)
LEMMA PlainWithCounts ==
    ASSUME NEW input, NEW output
    PROVE  [Plain EXCEPT !.input = input, !.output = output] =
               [text |-> << >>, calls |-> << >>, input |-> input, output |-> output,
                model |-> Model]
<1>1. [Plain EXCEPT !.input = input, !.output = output] =
          [f \in DOMAIN Plain |->
              IF f = "output" THEN output ELSE IF f = "input" THEN input ELSE Plain[f]]
  BY DEF Plain
<1>. QED BY <1>1 DEF Plain

(* What the tracker holds after a chunk.                                   *)
LEMMA CapturedCounts ==
    ASSUME UsageInv, NEW text, NEW calls,
           NEW input \in Nat \cup {None}, NEW output \in Nat \cup {None},
           Yield([text |-> text, calls |-> calls, input |-> input, output |-> output,
                  model |-> Model])
    PROVE  final' = [input  |-> IF input = None THEN final.input ELSE input,
                     output |-> IF output = None THEN final.output ELSE output,
                     model  |-> Model]
<1>1. DOMAIN final = {"input", "output", "model"} /\ Model # None
  BY ReplyAssumption DEF UsageInv, None
<1>. QED BY <1>1 DEF UsageInv, Yield, Captured

(* The usage: a chunk's counts are noted as they are reported, and the end *)
(* of the reply records them, or nothing.                                  *)
LEMMA UsageStep == AdapterInv /\ [Next]_vars => UsageInv'
<1>. SUFFICES ASSUME AdapterInv, [Next]_vars PROVE UsageInv'
  OBVIOUS
<1>0. UsageInv /\ TextInv /\ Model \in Nat /\ Model # None /\ None = -1
  BY ReplyAssumption DEF AdapterInv, None
<1>1. ASSUME NEW text, NEW calls, NEW input \in Nat \cup {None}, NEW output \in Nat \cup {None},
             reply = "coming", UNCHANGED << reply, by_model >>,
             Yield([text |-> text, calls |-> calls, input |-> input, output |-> output,
                    model |-> Model]),
             reported' = [input  |-> IF input = None THEN reported.input ELSE input,
                          output |-> IF output = None THEN reported.output ELSE output]
      PROVE  UsageInv'
  <2>1. final' = [input  |-> IF input = None THEN final.input ELSE input,
                  output |-> IF output = None THEN final.output ELSE output,
                  model  |-> Model]
    BY <1>0, <1>1, CapturedCounts
  <2>. QED BY <1>0, <1>1, <2>1 DEF UsageInv, UsageAsReported
<1>2. ASSUME UNCHANGED << final, by_model, reply, reported >> PROVE UsageInv'
  BY <1>0, <1>2 DEF UsageInv, UsageAsReported
<1>3. ASSUME NEW text, NEW calls, reply = "coming",
             Yield([text |-> text, calls |-> calls, input |-> None, output |-> None,
                    model |-> Model]),
             UNCHANGED << by_model, reply, reported >>
      PROVE  UsageInv'
  BY <1>0, <1>1, <1>3 DEF UsageInv
<1>4. ASSUME NEW text, NEW carries, reply = "coming", PassText(text, carries),
             UNCHANGED << by_model, reply, reported >>
      PROVE  UsageInv'
  <2>1. CASE text # << >>
    BY <1>3, <1>4, <2>1 DEF PassText, Plain
  <2>2. CASE text = << >>
    BY <1>2, <1>4, <2>2 DEF PassText, YieldNothing
  <2>. QED BY <2>1, <2>2
<1>5. ASSUME NEW i \in Slots, Open(i) \/ Piece(i) PROVE UsageInv'
  BY <1>4, <1>5 DEF Open, Piece
<1>6. ASSUME Text PROVE UsageInv'
  BY <1>4, <1>6 DEF Text
<1>16. ASSUME NEW usage \in [input : Nat \cup {None}, output : Nat \cup {None}], Raise(usage)
       PROVE  UsageInv'
  BY <1>0, <1>16 DEF Raise, UsageInv, UsageAsReported
<1>7. ASSUME FinishCalls PROVE UsageInv'
  <2>0. CASE Raise(reported)
    BY <1>0, <1>16, <2>0 DEF UsageInv
  <2>1. CASE EmitCalls /\ UNCHANGED << reply, by_model, reported >> /\ DOMAIN buffers # {}
    BY <1>3, <1>7, <2>1 DEF FinishCalls, EmitCalls, Plain
  <2>2. CASE EmitCalls /\ UNCHANGED << reply, by_model, reported >> /\ DOMAIN buffers = {}
    BY <1>2, <2>2 DEF EmitCalls, YieldNothing
  <2>. QED BY <1>7, <2>0, <2>1, <2>2 DEF FinishCalls
<1>8. ASSUME UsageChunk PROVE UsageInv'
  <2>1. /\ reported' = [input |-> 2, output |-> 1 + Len(said)]
        /\ Yield([text |-> << >>, calls |-> << >>, input |-> 2, output |-> 1 + Len(said),
                  model |-> Model])
        /\ reply = "coming" /\ UNCHANGED << reply, by_model >>
    <3>1. reported' = [input |-> 2, output |-> 1 + Len(said)]
      BY <1>8 DEF UsageChunk
    <3>2. reported'.input = 2 /\ reported'.output = 1 + Len(said)
      BY <3>1
    <3>3. /\ Yield([Plain EXCEPT !.input = reported'.input, !.output = reported'.output])
          /\ reply = "coming" /\ UNCHANGED << reply, by_model >>
      BY <1>8 DEF UsageChunk
    <3>4. [Plain EXCEPT !.input = reported'.input, !.output = reported'.output] =
              [text |-> << >>, calls |-> << >>, input |-> 2, output |-> 1 + Len(said),
               model |-> Model]
      BY <3>2, PlainWithCounts
    <3>. QED BY <3>1, <3>3, <3>4, Zenon
  <2>2. 1 + Len(said) \in Nat /\ 1 + Len(said) # None /\ 2 # None
    BY <1>0 DEF TextInv
  <2>. QED BY <1>1, <2>1, <2>2
<1>9. ASSUME NEW text, NEW calls,
             NEW usage \in [input : Nat \cup {None}, output : Nat \cup {None}],
             Respond(text, calls, usage,
                     [input |-> OrZero(usage.input), output |-> OrZero(usage.output)])
      PROVE  UsageInv'
  <2>1. /\ reply = "coming" /\ reply' = "returned" /\ reported' = usage /\ final' = final
        /\ by_model = << >>
    BY <1>0, <1>9 DEF Respond, UsageInv
  <2>2. by_model' = [m \in {Model} |->
                       [input    |-> OrZero(usage.input), output |-> OrZero(usage.output),
                        requests |-> 1]]
    <3>1. DOMAIN by_model = {}
      BY <2>1
    <3>2. OrZero(usage.input) \in Nat /\ OrZero(usage.output) \in Nat
      BY <1>9 DEF OrZero
    <3>. QED BY <1>9, <3>1, <3>2 DEF Respond, Record, UsageOf
  <2>. QED BY <1>0, <2>1, <2>2 DEF UsageInv, UsageAsReported
<1>10. ASSUME OpenAICompletes PROVE UsageInv'
  <2>. DEFINE usage == [input |-> 2, output |-> 1]
  <2>1. /\ usage \in [input : Nat \cup {None}, output : Nat \cup {None}]
        /\ usage = [input |-> OrZero(usage.input), output |-> OrZero(usage.output)]
    BY <1>0 DEF OrZero
  <2>2. CASE Raise(usage)
    BY <1>16, <2>1, <2>2
  <2>3. ASSUME NEW text, NEW calls, Respond(text, calls, usage, usage) PROVE UsageInv'
    BY <1>9, <2>1, <2>3
  <2>. QED BY <1>10, <2>2, <2>3 DEF OpenAICompletes
<1>11. ASSUME GeminiChunk, GeminiInv PROVE UsageInv'
  <2>1. PICK names \in CalledNames, text \in NextText,
             input \in Counts(2), output \in Counts(chunks + 1) :
             /\ reported' = [input  |-> IF input = None THEN reported.input ELSE input,
                             output |-> IF output = None THEN reported.output ELSE output]
             /\ IF names # << >>
                THEN Yield([[Plain EXCEPT !.input = input, !.output = output]
                            EXCEPT !.calls = FunctionCalls(names)])
                ELSE Yield([[Plain EXCEPT !.input = input, !.output = output]
                            EXCEPT !.text = text])
    BY <1>11 DEF GeminiChunk
  <2>2. input \in Nat \cup {None} /\ output \in Nat \cup {None}
    BY <1>11 DEF GeminiInv, Counts
  <2>3. reply = "coming" /\ UNCHANGED << reply, by_model >>
    BY <1>11 DEF GeminiChunk
  <2>. DEFINE plain == [Plain EXCEPT !.input = input, !.output = output]
  <2>4. plain = [text |-> << >>, calls |-> << >>, input |-> input, output |-> output,
                 model |-> Model]
    BY PlainWithCounts
  <2>. HIDE DEF plain
  <2>5. /\ \A c : [plain EXCEPT !.calls = c] =
                     [text |-> << >>, calls |-> c, input |-> input, output |-> output,
                      model |-> Model]
        /\ \A t : [plain EXCEPT !.text = t] =
                     [text |-> t, calls |-> << >>, input |-> input, output |-> output,
                      model |-> Model]
    BY <2>4
  <2>6. CASE names # << >>
    <3>1. Yield([plain EXCEPT !.calls = FunctionCalls(names)])
      BY <2>1, <2>6, Zenon DEF plain
    <3>2. [plain EXCEPT !.calls = FunctionCalls(names)] =
              [text |-> << >>, calls |-> FunctionCalls(names), input |-> input,
               output |-> output, model |-> Model]
      BY <2>5
    <3>3. Yield([text |-> << >>, calls |-> FunctionCalls(names), input |-> input,
                 output |-> output, model |-> Model])
      BY <3>1, <3>2, Zenon
    <3>. QED BY <1>1, <2>1, <2>2, <2>3, <3>3
  <2>7. CASE names = << >>
    <3>1. Yield([plain EXCEPT !.text = text])
      BY <2>1, <2>7, Zenon DEF plain
    <3>2. [plain EXCEPT !.text = text] =
              [text |-> text, calls |-> << >>, input |-> input, output |-> output,
               model |-> Model]
      BY <2>5
    <3>3. Yield([text |-> text, calls |-> << >>, input |-> input,
                 output |-> output, model |-> Model])
      BY <3>1, <3>2, Zenon
    <3>. QED BY <1>1, <2>1, <2>2, <2>3, <3>3
  <2>. QED BY <2>6, <2>7
<1>12. ASSUME GeminiCompletes PROVE UsageInv'
  <2>1. /\ NoUsage \in [input : Nat \cup {None}, output : Nat \cup {None}]
        /\ ZeroCounts = [input |-> OrZero(NoUsage.input), output |-> OrZero(NoUsage.output)]
    BY DEF NoUsage, ZeroCounts, OrZero
  <2>2. ASSUME NEW usage \in Usages(2, 1)
        PROVE  usage \in [input : Nat \cup {None}, output : Nat \cup {None}]
    BY DEF Usages, Counts
  <2>3. ASSUME NEW usage \in Usages(2, 1), None \notin {usage.input, usage.output}
        PROVE  usage = [input |-> OrZero(usage.input), output |-> OrZero(usage.output)]
    BY <2>3 DEF Usages, Counts, OrZero
  <2>4. ASSUME NEW text, NEW calls, Respond(text, calls, NoUsage, ZeroCounts) PROVE UsageInv'
    BY <1>9, <2>1, <2>4
  <2>5. ASSUME NEW text, NEW calls, NEW usage \in Usages(2, 1),
               None \notin {usage.input, usage.output}, Respond(text, calls, usage, usage)
        PROVE  UsageInv'
    BY <1>9, <2>2, <2>3, <2>5
  <2>. QED BY <1>12, <2>4, <2>5 DEF GeminiCompletes
<1>17. ASSUME GeminiRaises PROVE UsageInv'
  <2>1. Usages(2, 1) \subseteq [input : Nat \cup {None}, output : Nat \cup {None}]
    BY DEF Usages, Counts
  <2>. QED BY <1>16, <1>17, <2>1 DEF GeminiRaises
<1>13. ASSUME Leave PROVE UsageInv'
  BY <1>0, <1>13 DEF Leave, UsageInv, UsageAsReported
<1>14. ASSUME Drain PROVE UsageInv'
  <2>1. /\ reply = "coming" /\ reply' = "drained" /\ UNCHANGED << final, reported >>
        /\ by_model = << >> /\ DOMAIN by_model = {}
        /\ DOMAIN final = {"input", "output", "model"}
        /\ \A count : count # None => OrZero(count) = count
    BY <1>0, <1>14 DEF Drain, UsageInv, OrZero
  <2>2. CASE None \notin {final.input, final.output, final.model}
    <3>1. by_model' = [m \in {Model} |->
                        [input |-> final.input, output |-> final.output, requests |-> 1]]
      <4>1. Record(final)
        BY <1>14, <2>1, <2>2 DEF Drain, RecordFinal
      <4>2. final.model = Model /\ final.input \in Nat /\ final.output \in Nat
        BY <1>0, <2>2 DEF UsageInv
      <4>. QED BY <1>0, <2>1, <4>1, <4>2 DEF Record, UsageOf
    <3>. QED BY <1>0, <2>1, <2>2, <3>1 DEF UsageInv, UsageAsReported
  <2>3. CASE None \in {final.input, final.output, final.model}
    <3>1. by_model' = << >>
      BY <1>14, <2>1, <2>3 DEF Drain, RecordFinal
    <3>. QED BY <1>0, <2>1, <2>3, <3>1 DEF UsageInv, UsageAsReported
  <2>. QED BY <2>2, <2>3
<1>15. CASE UNCHANGED vars
  BY <1>2, <1>15 DEF vars, replyVars
<1>. QED BY <1>5, <1>6, <1>7, <1>8, <1>10, <1>11, <1>12, <1>13, <1>14, <1>15,
        <1>17
     DEF Next, OpenAINext, GeminiNext, AdapterInv

LEMMA PiecesOfText == \A n \in Nat : Pieces(n) # << >> <=> n > 0
<1>1. ASSUME NEW n \in Nat PROVE Pieces(n) # << >> <=> n > 0
  <2>1. Len(Pieces(n)) = n
    BY DEF Pieces
  <2>2. CASE n = 0
    BY <2>2 DEF Pieces
  <2>3. CASE n > 0
    <3>1. Len(<< >>) = 0
      OBVIOUS
    <3>. QED BY <2>1, <2>3, <3>1
  <2>. QED BY <2>2, <2>3
<1>. QED BY <1>1

(* The calls of OpenAI: a delta completes what the buffer of its call      *)
(* holds, and the buffers are turned into calls only when the service has  *)
(* finished with them, or the reply ends without them.                     *)
LEMMA OpenAIStep == AdapterInv /\ adapter = "openai" /\ OpenAINext => OpenAIInv'
<1>. SUFFICES ASSUME OpenAIInv, OpenAINext PROVE OpenAIInv'
  BY DEF AdapterInv
<1>. USE OpenAIAssumption
<1>1. /\ Slots \subseteq Nat /\ Opened \in SUBSET Nat /\ IsFiniteSet(Opened)
      /\ Opened \subseteq Slots
  BY FS_Subset DEF Opened
<1>2. ASSUME NEW i \in Slots, NEW n \in Nat, sent' = [sent EXCEPT ![i] = n],
             NEW delta, Accumulate(i, delta), finishes = 0,
             Merged(Buffer(i), delta) \in [id : {NoId, Given(i)}, name : {Name(i)},
                                          args : {Pieces(n)}],
             UNCHANGED << finishes, session_tool_calls >>
      PROVE  OpenAIInv'
  <2>1. Opened' = Opened \cup {i}
    BY <1>1, <1>2 DEF OpenAIInv, Opened
  <2>2. DOMAIN buffers' = Opened'
    BY <1>2, <2>1 DEF OpenAIInv, Accumulate
  <2>3. ASSUME NEW j \in Opened'
        PROVE  buffers'[j] \in [id : {NoId, Given(j)}, name : {Name(j)},
                               args : {Pieces(sent'[j])}]
    <3>1. CASE j = i
      BY <1>2, <2>1, <3>1 DEF OpenAIInv, Accumulate
    <3>2. CASE j # i
      BY <1>1, <1>2, <2>1, <3>2 DEF OpenAIInv, Accumulate
    <3>. QED BY <3>1, <3>2
  <2>4. sent' \in [Slots -> Int] /\ \A j \in Slots : sent'[j] >= -1
    BY <1>2 DEF OpenAIInv
  <2>. QED BY <1>2, <2>2, <2>3, <2>4 DEF OpenAIInv
<1>3. ASSUME NEW text, NEW carries, PassText(text, carries) PROVE UNCHANGED session_tool_calls
  BY <1>3 DEF PassText, Yield, YieldNothing, Plain
<1>4. ASSUME NEW i \in Slots, Open(i) PROVE OpenAIInv'
  <2>1. PICK id \in {NoId, Given(i)}, n \in 0 .. 1, text \in NextText :
            /\ sent' = [sent EXCEPT ![i] = n]
            /\ Accumulate(i, [id |-> id, name |-> Name(i), args |-> Pieces(n)])
            /\ PassText(text, TRUE)
    BY <1>4 DEF Open
  <2>2. n \in Nat /\ << >> \o Pieces(n) = Pieces(n)
    BY DEF Pieces
  <2>3. i \notin DOMAIN buffers /\ Buffer(i) = Empty
    BY <1>4 DEF Open, OpenAIInv, Opened, Buffer
  <2>4. Merged(Empty, [id |-> id, name |-> Name(i), args |-> Pieces(n)]) \in
            [id : {NoId, Given(i)}, name : {Name(i)}, args : {Pieces(n)}]
    BY <2>2 DEF Merged, Empty, Name, NoName
  <2>. QED BY <1>2, <1>3, <1>4, <2>1, <2>2, <2>3, <2>4 DEF Open
<1>5. ASSUME NEW i \in Slots, Piece(i) PROVE OpenAIInv'
  <2>. DEFINE delta == [id |-> NoId, name |-> NoName, args |-> << sent[i] + 1 >>]
  <2>1. sent' = [sent EXCEPT ![i] = sent[i] + 1] /\ sent[i] \in Nat /\ sent[i] + 1 \in Nat
    BY <1>5 DEF Piece, OpenAIInv
  <2>2. /\ i \in Opened /\ Buffer(i) = buffers[i]
        /\ buffers[i] \in [id : {NoId, Given(i)}, name : {Name(i)},
                           args : {Pieces(sent[i])}]
    BY <1>5 DEF Piece, OpenAIInv, Opened, Buffer
  <2>3. Pieces(sent[i]) \o << sent[i] + 1 >> = Pieces(sent[i] + 1)
    BY <2>1 DEF Pieces
  <2>4. Merged(buffers[i], delta) \in
            [id : {NoId, Given(i)}, name : {Name(i)}, args : {Pieces(sent[i] + 1)}]
    BY <2>2, <2>3 DEF Merged
  <2>5. /\ Accumulate(i, delta) /\ finishes = 0
        /\ UNCHANGED << finishes, session_tool_calls >>
    BY <1>3, <1>5 DEF Piece
  <2>6. Merged(Buffer(i), delta) \in
            [id : {NoId, Given(i)}, name : {Name(i)}, args : {Pieces(sent[i] + 1)}]
    BY <2>2, <2>4
  <2>. HIDE DEF delta
  <2>. QED BY <1>2, <2>1, <2>5, <2>6
<1>6. ASSUME UNCHANGED << openaiVars, reply, session_tool_calls >> PROVE OpenAIInv'
  BY <1>6 DEF openaiVars, OpenAIInv, Opened, Readable, Unreadable, GivenOut
<1>7. ASSUME Text PROVE OpenAIInv'
  BY <1>3, <1>6, <1>7 DEF Text
<1>8. ASSUME UsageChunk PROVE OpenAIInv'
  BY <1>6, <1>8 DEF UsageChunk, Yield, Plain
<1>9. ASSUME sent' \in [Slots -> Int], \A i \in Slots : sent'[i] >= -1,
             finishes' \in Nat, finishes' > 0,
             \/ /\ \E i \in Opened' : Unreadable(i)'
                /\ reply' # "coming" /\ session_tool_calls' = << >>
             \/ /\ ~ \E i \in Opened' : Unreadable(i)'
                /\ DOMAIN buffers' = {} /\ GivenOut'
      PROVE  OpenAIInv'
  BY <1>9 DEF OpenAIInv
<1>. DEFINE slots == InOrder(Opened)
<1>10. /\ slots \in Seq(Opened) /\ Len(slots) = Cardinality(Opened) /\ Len(slots) \in Nat
       /\ \A n \in 1 .. Len(slots) : slots[n] \in Opened
  <2>1. slots \in Seq(Opened) /\ Len(slots) = Cardinality(Opened)
    BY <1>1, InOrderEnumerates
  <2>. HIDE DEF slots
  <2>. QED BY <2>1
<1>11. ASSUME FinishCalls PROVE OpenAIInv'
  <2>1. /\ UNCHANGED << form, sent >> /\ Opened' = Opened /\ slots' = slots
        /\ finishes' = finishes + 1 /\ finishes \in Nat
        /\ Opened # {} /\ reply = "coming"
        /\ sent \in [Slots -> Int] /\ \A i \in Slots : sent[i] >= -1
        /\ \A i : Readable(i)' = Readable(i) /\ Unreadable(i)' = Unreadable(i)
    BY <1>11 DEF FinishCalls, OpenAIInv, Opened, Readable, Unreadable
  <2>. DEFINE invalid == \E i \in DOMAIN buffers : Invalid(i, buffers[i].args)
  <2>2. CASE finishes = 0
    <3>1. DOMAIN buffers = Opened /\ session_tool_calls = << >>
      BY <2>2 DEF OpenAIInv
    <3>2. ASSUME NEW i \in Opened
          PROVE  /\ buffers[i] \in [id : {NoId, Given(i)}, name : {Name(i)},
                                    args : {Pieces(sent[i])}]
                 /\ buffers[i].args = Pieces(sent[i]) /\ sent[i] \in Nat
                 /\ Pieces(sent[i]) # << >> <=> sent[i] > 0
      <4>1. i \in Slots /\ sent[i] \in Nat
        BY <2>1 DEF Opened
      <4>2. buffers[i] \in [id : {NoId, Given(i)}, name : {Name(i)}, args : {Pieces(sent[i])}]
        BY <2>2 DEF OpenAIInv
      <4>3. buffers[i].args = Pieces(sent[i])
        BY <4>2
      <4>. QED BY <4>1, <4>2, <4>3, PiecesOfText
    <3>3. invalid <=> \E i \in Opened : Unreadable(i)
      BY <3>1, <3>2 DEF Invalid, Unreadable
    <3>4. CASE invalid
      <4>1. Raise(reported)
        BY <1>11, <3>4 DEF FinishCalls
      <4>2. reply' = "left" /\ session_tool_calls' = << >>
        BY <3>1, <4>1 DEF Raise
      <4>. QED BY <1>9, <2>1, <3>3, <3>4, <4>2
    <3>5. CASE ~ invalid
      <4>1. EmitCalls
        BY <1>11, <3>5 DEF FinishCalls
      <4>2. Yield([Plain EXCEPT !.calls = BuildToolCalls]) /\ DOMAIN buffers' = {}
        BY <2>1, <3>1, <4>1 DEF EmitCalls
      <4>3. BuildToolCalls = [n \in 1 .. Len(slots) |-> ToolCall(slots[n])]
        BY <3>1 DEF BuildToolCalls
      <4>4. Cardinality(Opened) # 0
        BY <1>1, <2>1, FS_EmptySet
      <4>. HIDE DEF slots, invalid
      <4>5. BuildToolCalls # << >> /\ << >> \o BuildToolCalls = BuildToolCalls
        BY <1>10, <4>3, <4>4
      <4>6. session_tool_calls' = BuildToolCalls
        BY <3>1, <4>2, <4>5 DEF Yield, Plain
      <4>7. ASSUME NEW i \in Opened
            PROVE  ToolCall(i) \in [id : {Given(i), Made(i)}, name : {Name(i)},
                                    arguments : {IF Readable(i) THEN "sent" ELSE "empty"}]
        <5>1. Parsed(i, buffers[i].args, sent[i]) = IF Readable(i) THEN "sent" ELSE "empty"
          BY <3>2 DEF Parsed, Readable
        <5>. QED BY <3>2, <5>1 DEF ToolCall, IdOf
      <4>8. Len(session_tool_calls') = Len(slots)
        BY <1>10, <4>3, <4>6
      <4>9. \A n \in 1 .. Len(slots) : session_tool_calls'[n] = ToolCall(slots[n])
        BY <4>3, <4>6
      <4>10. GivenOut'
        <5>1. \A n \in 1 .. Len(slots) :
                  session_tool_calls'[n] \in
                      [id : {Given(slots[n]), Made(slots[n])}, name : {Name(slots[n])},
                       arguments : {IF Readable(slots[n]) THEN "sent" ELSE "empty"}]
          BY <1>10, <4>7, <4>9
        <5>2. slots' = InOrder(Opened)'
          BY DEF slots
        <5>3. session_tool_calls' \in Seq(WireCall)
          <6>1. \A i \in Opened : ToolCall(i) \in WireCall
            BY <1>1, <4>7 DEF WireCall, CallIds, Given, Made, Name
          <6>2. \A n \in 1 .. Len(slots) : ToolCall(slots[n]) \in WireCall
            BY <1>10, <6>1
          <6>. QED BY <1>10, <4>3, <4>6, <6>2
        <5>. QED BY <2>1, <4>8, <5>1, <5>2, <5>3 DEF GivenOut
      <4>. QED BY <1>9, <2>1, <3>3, <3>5, <4>2, <4>10
    <3>. QED BY <3>4, <3>5
  <2>3. CASE finishes > 0
    <3>1. DOMAIN buffers = {} /\ GivenOut /\ ~ \E i \in Opened : Unreadable(i)
      BY <2>1, <2>3 DEF OpenAIInv
    <3>2. UNCHANGED session_tool_calls /\ DOMAIN buffers' = {}
      BY <1>11, <3>1 DEF FinishCalls, EmitCalls, YieldNothing
    <3>3. GivenOut'
      BY <2>1, <3>1, <3>2 DEF GivenOut
    <3>. QED BY <1>9, <2>1, <3>1, <3>2, <3>3
  <2>. QED BY <2>1, <2>2, <2>3
<1>12. ASSUME OpenAICompletes PROVE OpenAIInv'
  <2>1. PICK made \in [Slots -> -1 .. 1] :
            /\ sent' = made
            /\ IF \E i \in Slots : made[i] >= 0 /\ Invalid(i, Pieces(made[i]))
               THEN Raise([input |-> 2, output |-> 1])
               ELSE \E text, usage : Respond(text, ParseToolCalls(made), usage, usage)
    BY <1>12 DEF OpenAICompletes
  <2>2. /\ UNCHANGED << form, buffers >> /\ finishes' = 1 /\ \A i \in Slots : sent[i] = -1
        /\ sent' \in [Slots -> Int] /\ \A i \in Slots : sent'[i] >= -1
    BY <1>12, <2>1 DEF OpenAICompletes
  <2>3. Opened = {} /\ Opened' = {i \in Slots : made[i] >= 0}
    <3>1. \A i \in Slots : ~ (sent[i] >= 0)
      BY <2>2
    <3>. QED BY <2>1, <3>1 DEF Opened
  <2>4. DOMAIN buffers = {} /\ session_tool_calls = << >>
    <3>1. finishes = 0 \/ (GivenOut /\ DOMAIN buffers = {})
      BY <2>3 DEF OpenAIInv
    <3>2. ASSUME GivenOut PROVE session_tool_calls = << >>
      <4>1. InOrder(Opened) \in Seq(Opened) /\ Len(InOrder(Opened)) = Cardinality(Opened)
        BY <1>10
      <4>2. Len(InOrder(Opened)) = 0
        BY <2>3, <4>1, FS_EmptySet
      <4>. QED BY <3>2, <4>2 DEF GivenOut
    <3>. QED BY <2>3, <3>1, <3>2 DEF OpenAIInv
  <2>5. \A i \in Slots : made[i] >= 0 =>
            (Invalid(i, Pieces(made[i])) <=> Unreadable(i)')
    <3>1. ASSUME NEW i \in Slots, made[i] >= 0 PROVE Pieces(made[i]) # << >> <=> made[i] > 0
      BY <3>1, PiecesOfText
    <3>. QED BY <2>1, <2>2, <3>1 DEF Invalid, Unreadable
  <2>6. CASE \E i \in Slots : made[i] >= 0 /\ Invalid(i, Pieces(made[i]))
    <3>1. reply' = "left" /\ session_tool_calls' = << >>
      BY <2>1, <2>4, <2>6 DEF Raise
    <3>2. \E i \in Opened' : Unreadable(i)'
      BY <2>3, <2>5, <2>6
    <3>. QED BY <1>9, <2>2, <3>1, <3>2
  <2>7. CASE ~ \E i \in Slots : made[i] >= 0 /\ Invalid(i, Pieces(made[i]))
    <3>. DEFINE list == InOrder(Opened')
    <3>1. session_tool_calls' = ParseToolCalls(made)
      BY <2>1, <2>7 DEF Respond
    <3>2. /\ list \in Seq(Opened') /\ Len(list) = Cardinality(Opened') /\ Len(list) \in Nat
      <4>1. Opened' \in SUBSET Nat /\ IsFiniteSet(Opened')
        BY <2>3, FS_Subset
      <4>. QED BY <4>1, InOrderEnumerates
    <3>3. session_tool_calls' =
              [n \in 1 .. Len(list) |->
                  [id        |-> Given(list[n]),
                   name      |-> Name(list[n]),
                   arguments |-> Parsed(list[n], Pieces(made[list[n]]), made[list[n]])]]
      BY <2>3, <3>1 DEF ParseToolCalls
    <3>. HIDE DEF list
    <3>. DEFINE arguments(i) == IF made[i] > 0 /\ form[i] = "object" THEN "sent" ELSE "empty"
    <3>4. ASSUME NEW n \in 1 .. Len(list)
          PROVE  /\ list[n] \in Nat
                 /\ Parsed(list[n], Pieces(made[list[n]]), made[list[n]]) = arguments(list[n])
      <4>1. list[n] \in Opened'
        BY <3>2
      <4>2. list[n] \in Slots /\ made[list[n]] \in Nat
        BY <2>3, <4>1
      <4>3. Pieces(made[list[n]]) # << >> <=> made[list[n]] > 0
        BY <4>2, PiecesOfText
      <4>. QED BY <4>2, <4>3 DEF Parsed
    <3>5. GivenOut'
      <4>1. InOrder(Opened)' = list
        BY DEF list
      <4>2. session_tool_calls' \in Seq(WireCall)
        <5>1. \A i \in Nat, args \in {"sent", "empty"} :
                  [id |-> Given(i), name |-> Name(i), arguments |-> args] \in WireCall
          BY DEF WireCall, CallIds, Given, Name
        <5>2. \A n \in 1 .. Len(list) : session_tool_calls'[n] \in WireCall
          BY <3>3, <3>4, <5>1
        <5>. QED BY <3>2, <3>3, <5>2
      <4>3. \A n \in 1 .. Len(list) :
                session_tool_calls'[n] \in
                    [id : {Given(list[n]), Made(list[n])}, name : {Name(list[n])},
                     arguments : {arguments(list[n])}]
        BY <3>3, <3>4
      <4>4. Len(session_tool_calls') = Len(list)
        BY <3>2, <3>3
      <4>5. sent' = made /\ form' = form
        BY <2>1, <2>2
      <4>. QED BY <4>1, <4>2, <4>3, <4>4, <4>5 DEF GivenOut, Readable
    <3>6. ~ \E i \in Opened' : Unreadable(i)'
      BY <2>3, <2>5, <2>7
    <3>. QED BY <1>9, <2>2, <2>4, <3>5, <3>6
  <2>. QED BY <2>6, <2>7
<1>. QED BY <1>4, <1>5, <1>7, <1>8, <1>11, <1>12 DEF OpenAINext

(* The calls of Gemini: each is appended as it is asked.                   *)
LEMMA GeminiStep == AdapterInv /\ adapter = "gemini" /\ GeminiNext => GeminiInv'
<1>. SUFFICES ASSUME GeminiInv, GeminiNext PROVE GeminiInv'
  BY DEF AdapterInv
<1>1. ASSUME NEW names \in CalledNames
      PROVE  names \in Seq(FunctionsAsked) /\ FunctionCalls(names) \in Seq(WireCall)
  <2>1. PICK s \in BoundedSeq(FunctionNames, MaxCalls) :
            names = [k \in 1 .. Len(s) |-> Name(s[k])]
    BY DEF CalledNames
  <2>2. PICK m \in 0 .. MaxCalls : s \in [1 .. m -> FunctionNames]
    BY DEF BoundedSeq, SeqOf
  <2>3. s \in Seq(Nat)
    <3>1. m \in Nat /\ FunctionNames \subseteq Nat
      BY GeminiAssumption
    <3>2. s \in [1 .. m -> Nat]
      BY <2>2, <3>1
    <3>. QED BY <3>1, <3>2
  <2>4. \A k \in 1 .. Len(s) : Name(s[k]) \in FunctionsAsked
    BY <2>3 DEF Name, FunctionsAsked
  <2>5. names \in Seq(FunctionsAsked)
    BY <2>1, <2>3, <2>4
  <2>6. \A name \in FunctionsAsked : \A k : FunctionCall(name, k) \in WireCall
    BY DEF FunctionCall, FunctionsAsked, WireCall, CallIds
  <2>. QED BY <2>5, <2>6 DEF FunctionCalls
<1>2. ASSUME NEW s \in Seq(FunctionsAsked), NEW t \in Seq(FunctionsAsked)
      PROVE  FunctionCalls(s \o t) = FunctionCalls(s) \o FunctionCalls(t)
  BY DEF FunctionCalls, FunctionCall
<1>3. ASSUME GeminiChunk PROVE GeminiInv'
  <2>1. PICK names, text, plain :
            /\ names \in CalledNames
            /\ asked' = asked \o names
            /\ IF names # << >> THEN Yield([plain EXCEPT !.calls = FunctionCalls(names)])
                               ELSE Yield([plain EXCEPT !.text = text])
            /\ DOMAIN plain = DOMAIN Plain /\ plain.calls = << >>
    <3>1. PICK names \in CalledNames, text \in NextText,
               input \in Counts(2), output \in Counts(chunks + 1) :
              /\ asked' = asked \o names
              /\ IF names # << >>
                 THEN Yield([[Plain EXCEPT !.input = input, !.output = output]
                             EXCEPT !.calls = FunctionCalls(names)])
                 ELSE Yield([[Plain EXCEPT !.input = input, !.output = output]
                             EXCEPT !.text = text])
      BY <1>3 DEF GeminiChunk
    <3>. DEFINE p == [Plain EXCEPT !.input = input, !.output = output]
    <3>2. DOMAIN p = DOMAIN Plain /\ p.calls = << >>
      BY PlainWithCounts DEF Plain
    <3>. QED BY <3>1, <3>2, Zenon
  <2>2. names \in Seq(FunctionsAsked) /\ chunks' \in Nat
    BY <1>1, <1>3, <2>1 DEF GeminiChunk, GeminiInv
  <2>3. session_tool_calls' = session_tool_calls \o FunctionCalls(names)
    <3>1. CASE names # << >>
      <4>1. FunctionCalls(names) # << >>
        BY <2>2, <3>1 DEF FunctionCalls
      <4>2. [plain EXCEPT !.calls = FunctionCalls(names)].calls = FunctionCalls(names)
        BY <2>1 DEF Plain
      <4>. QED BY <2>1, <3>1, <4>1, <4>2 DEF Yield
    <3>2. CASE names = << >>
      <4>1. [plain EXCEPT !.text = text].calls = << >>
        BY <2>1 DEF Plain
      <4>2. UNCHANGED session_tool_calls
        BY <2>1, <3>2, <4>1 DEF Yield
      <4>3. session_tool_calls \o << >> = session_tool_calls
        BY DEF GeminiInv, FunctionCalls
      <4>4. FunctionCalls(names) = << >>
        BY <3>2 DEF FunctionCalls
      <4>. QED BY <4>2, <4>3, <4>4
    <3>. QED BY <3>1, <3>2
  <2>4. asked \in Seq(FunctionsAsked) /\ session_tool_calls = FunctionCalls(asked)
    BY DEF GeminiInv
  <2>5. FunctionCalls(asked \o names) = FunctionCalls(asked) \o FunctionCalls(names)
    BY <1>2, <2>2, <2>4
  <2>6. asked' \in Seq(FunctionsAsked)
    BY <2>1, <2>2, <2>4
  <2>7. session_tool_calls' = FunctionCalls(asked')
    BY <2>1, <2>3, <2>4, <2>5
  <2>. QED BY <2>2, <2>6, <2>7 DEF GeminiInv
<1>4. ASSUME GeminiCompletes PROVE GeminiInv'
  BY <1>1, <1>4, GeminiAssumption DEF GeminiCompletes, Respond, GeminiInv
<1>5. ASSUME GeminiRaises PROVE GeminiInv'
  BY <1>5, GeminiAssumption DEF GeminiRaises, Raise, GeminiInv
<1>. QED BY <1>3, <1>4, <1>5 DEF GeminiNext

(* The invariant is inductive.                                             *)
THEOREM Invariant == Spec => []AdapterInv
<1>1. AdapterInv /\ [Next]_vars => AdapterInv'
  <2>. SUFFICES ASSUME AdapterInv, [Next]_vars PROVE AdapterInv'
    OBVIOUS
  <2>1. TextInv' /\ UsageInv'
    BY TextStep, UsageStep
  <2>2. adapter' = adapter
    BY DEF Next, vars
  <2>3. reply' \in {"coming", "returned", "drained", "left"}
    BY DEF AdapterInv, Next, vars, replyVars, OpenAINext, GeminiNext, Open, Piece, Text,
           FinishCalls, UsageChunk, OpenAICompletes, GeminiChunk, GeminiCompletes, GeminiRaises,
           Respond, Raise, Leave, Drain
  <2>4. ASSUME UNCHANGED << openaiVars, session_tool_calls >>, OpenAIInv,
               reply = "coming" \/ UNCHANGED reply
        PROVE  OpenAIInv'
    BY <2>4 DEF openaiVars, OpenAIInv, Opened, Readable, Unreadable, GivenOut
  <2>5. ASSUME UNCHANGED << geminiVars, session_tool_calls >>, GeminiInv PROVE GeminiInv'
    BY <2>5 DEF geminiVars, GeminiInv
  <2>6. CASE adapter = "openai" /\ OpenAINext
    BY <2>1, <2>2, <2>3, <2>6, OpenAIStep DEF AdapterInv
  <2>7. CASE adapter = "gemini" /\ GeminiNext
    BY <2>1, <2>2, <2>3, <2>7, GeminiStep DEF AdapterInv
  <2>8. CASE (Leave \/ Drain) /\ UNCHANGED << adapter, openaiVars, geminiVars >>
    <3>1. UNCHANGED session_tool_calls /\ reply = "coming"
      BY <2>8 DEF Leave, Drain
    <3>. QED BY <2>1, <2>2, <2>3, <2>4, <2>5, <2>8, <3>1 DEF AdapterInv
  <2>9. CASE UNCHANGED vars
    BY <2>1, <2>2, <2>3, <2>4, <2>5, <2>9 DEF AdapterInv, vars, replyVars
  <2>. QED BY <2>6, <2>7, <2>8, <2>9 DEF Next
<1>. QED BY InitInv, <1>1, PTL DEF Spec

(* TextPreserved: what the service says reaches the consumer, once and in  *)
(* order, at every moment of the reply.                                    *)
THEOREM TextIsPreserved == Spec => []TextPreserved
<1>1. AdapterInv => TextPreserved
  BY DEF AdapterInv, TextInv, TextPreserved
<1>. QED BY Invariant, <1>1, PTL

(* UsageAsReported: a reply that ended is charged what the service         *)
(* reported last, once, and no other is charged.                           *)
THEOREM UsageIsAsReported == Spec => []UsageAsReported
<1>1. AdapterInv => UsageAsReported
  BY DEF AdapterInv, UsageInv
<1>. QED BY Invariant, <1>1, PTL

(* CallsAsMade: the loop runs the calls that the model made, once, in      *)
(* order and whole, in however many pieces and chunks they came.           *)
THEOREM CallsAreAsMade == Spec => []CallsAsMade
<1>1. AdapterInv => CallsAsMade
  <2>. SUFFICES ASSUME AdapterInv PROVE CallsAsMade
    OBVIOUS
  <2>1. CASE adapter = "openai"
    <3>1. OpenAIInv
      BY <2>1 DEF AdapterInv
    <3>. QED BY <2>1, <3>1 DEF CallsAsMade, OpenAICallsAsMade, OpenAIInv, GivenOut
  <2>2. CASE adapter = "gemini"
    BY <2>2 DEF AdapterInv, CallsAsMade, GeminiCallsAsMade, GeminiInv, FunctionCalls,
                FunctionCall
  <2>. QED BY <2>1, <2>2 DEF AdapterInv
<1>. QED BY Invariant, <1>1, PTL

-----------------------------------------------------------------------------

(* The calls that the loop has got, when it goes on.                       *)
LEMMA CallsHaveIds ==
    ASSUME AdapterInv, LoopGoesOn
    PROVE  /\ session_tool_calls \in Seq(WireCall)
           /\ \A k \in 1 .. Len(session_tool_calls) : session_tool_calls[k].id # NoCallId
           /\ adapter = "openai" =>
                \A k, m \in 1 .. Len(session_tool_calls) :
                    session_tool_calls[k].id = session_tool_calls[m].id => k = m
           /\ adapter = "gemini" =>
                \A k \in 1 .. Len(session_tool_calls) :
                    session_tool_calls[k].id = session_tool_calls[k].name
<1>1. CASE adapter = "openai"
  <2>. DEFINE slots == InOrder(Opened)
  <2>1. GivenOut
    BY <1>1 DEF AdapterInv, OpenAIInv, LoopGoesOn
  <2>2. Opened \in SUBSET Nat /\ IsFiniteSet(Opened)
    BY OpenAIAssumption, FS_Subset DEF Opened
  <2>3. /\ slots \in Seq(Opened) /\ Len(slots) \in Nat
        /\ \A m, n \in 1 .. Len(slots) : slots[m] = slots[n] => m = n
    BY <2>2, InOrderEnumerates
  <2>4. /\ Len(session_tool_calls) = Len(slots)
        /\ \A n \in 1 .. Len(slots) :
              session_tool_calls[n] \in
                  [id : {Given(slots[n]), Made(slots[n])}, name : {Name(slots[n])},
                   arguments : {IF Readable(slots[n]) THEN "sent" ELSE "empty"}]
    BY <2>1 DEF GivenOut
  <2>. HIDE DEF slots
  <2>5. \A n \in 1 .. Len(slots) : slots[n] \in Nat
    <3>1. \A i \in Opened : i \in Nat
      BY OpenAIAssumption DEF Opened
    <3>2. \A n \in 1 .. Len(slots) : slots[n] \in Opened
      BY <2>3
    <3>. QED BY <3>1, <3>2
  <2>6. ASSUME NEW n \in 1 .. Len(slots)
        PROVE  /\ session_tool_calls[n] \in WireCall
               /\ session_tool_calls[n].id # NoCallId
    BY <2>4, <2>5 DEF WireCall, CallIds, NoCallId, Given, Made, Name
  <2>7. ASSUME NEW k \in 1 .. Len(slots), NEW m \in 1 .. Len(slots),
               session_tool_calls[k].id = session_tool_calls[m].id
        PROVE  k = m
    <3>1. \A i, j \in Nat : /\ Given(i) = Given(j) => i = j
                            /\ Made(i) = Made(j) => i = j
                            /\ Given(i) # Made(j)
      BY DEF Given, Made
    <3>2. /\ session_tool_calls[k].id \in {Given(slots[k]), Made(slots[k])}
          /\ session_tool_calls[m].id \in {Given(slots[m]), Made(slots[m])}
      BY <2>4
    <3>3. slots[k] = slots[m]
      BY <2>5, <2>7, <3>1, <3>2
    <3>. QED BY <2>3, <3>3
  <2>8. session_tool_calls \in Seq(WireCall)
    BY <2>1 DEF GivenOut
  <2>. QED BY <1>1, <2>4, <2>6, <2>7, <2>8
<1>2. CASE adapter = "gemini"
  <2>1. asked \in Seq(FunctionsAsked) /\ session_tool_calls = FunctionCalls(asked)
    BY <1>2 DEF AdapterInv, GeminiInv
  <2>2. \A k \in 1 .. Len(asked) :
            /\ asked[k] \in CallIds /\ asked[k] # NoCallId
            /\ FunctionCall(asked[k], k) \in WireCall
    BY <2>1, SMTT(30) DEF FunctionsAsked, FunctionCall, WireCall, CallIds, NoCallId
  <2>. QED BY <1>2, <2>1, <2>2 DEF FunctionCalls, FunctionCall
<1>. QED BY <1>1, <1>2 DEF AdapterInv

(* The list that the loop sends: the prompt, the turn of the assistant,    *)
(* and the result of each call.                                            *)
TurnText == IF session_text = << >> THEN NoContent ELSE session_text
Asking   == AskingFor(TurnText, session_tool_calls)

LEMMA FollowUpParts ==
    ASSUME AdapterInv, LoopGoesOn, NEW prompt \in Prompts
    PROVE  /\ prompt \in Seq(WireMessage) /\ << Asking >> \in Seq(WireMessage)
           /\ Results \in Seq(WireMessage) /\ Len(Results) = Len(session_tool_calls)
           /\ FollowUp(prompt) = (prompt \o << Asking >>) \o Results
           /\ Asking = [role |-> "assistant", content |-> TurnText,
                        calls |-> session_tool_calls, id |-> NoCallId]
           /\ \A k \in 1 .. Len(Results) :
                 Results[k] = [role |-> "tool", content |-> << 100 + k >>, calls |-> << >>,
                               id |-> session_tool_calls[k].id]
<1>1. session_tool_calls \in Seq(WireCall)
  BY CallsHaveIds
<1>2. TurnText \in Seq(Nat)
  BY DEF AdapterInv, TextInv, TurnText, NoContent
<1>3. Asking = [role |-> "assistant", content |-> TurnText, calls |-> session_tool_calls,
                id |-> NoCallId]
  BY DEF Asking, AskingFor, Msg
<1>4. Asking \in WireMessage
  BY <1>1, <1>2, <1>3 DEF WireMessage, CallIds
<1>5. \A id, content : ResultOf(id, content) =
          [role |-> "tool", content |-> content, calls |-> << >>, id |-> id]
  BY DEF ResultOf, Msg
<1>6. /\ Len(Results) = Len(session_tool_calls)
      /\ \A k \in 1 .. Len(Results) :
            Results[k] = [role |-> "tool", content |-> << 100 + k >>, calls |-> << >>,
                          id |-> session_tool_calls[k].id]
  BY <1>1, <1>5 DEF Results
<1>7. \A k \in 1 .. Len(session_tool_calls) :
          ResultOf(session_tool_calls[k].id, << 100 + k >>) \in WireMessage
  <2>1. \A k \in 1 .. Len(session_tool_calls) : session_tool_calls[k].id \in CallIds
    <3>1. \A k \in 1 .. Len(session_tool_calls) : session_tool_calls[k] \in WireCall
      BY <1>1
    <3>. QED BY <3>1 DEF WireCall
  <2>2. \A id \in CallIds, n \in Nat :
            [role |-> "tool", content |-> << 100 + n >>, calls |-> << >>, id |-> id] \in WireMessage
    BY DEF WireMessage
  <2>. QED BY <1>1, <1>5, <2>1, <2>2
<1>8. Results \in Seq(WireMessage)
  BY <1>1, <1>7 DEF Results
<1>9. prompt \in Seq(WireMessage)
  BY PromptsAssumption
<1>. QED BY <1>3, <1>4, <1>6, <1>8, <1>9 DEF FollowUp, Asking, TurnText

(* OpenAIWire: the list that the loop sends next is accepted by OpenAI, if *)
(* the one that it prolongs was.                                           *)
THEOREM NextRequestFitsOpenAI == Spec => []OpenAIWire
<1>1. ASSUME AdapterInv, adapter = "openai", LoopGoesOn, NEW prompt \in Prompts,
             OpenAIAccepts(OpenAIMessages(prompt))
      PROVE  OpenAIAccepts(OpenAIMessages(FollowUp(prompt)))
  <2>. DEFINE list == FollowUp(prompt)
              calls == session_tool_calls
              P == Len(prompt)
              wire == OpenAIMessages(list)
  <2>1. /\ prompt \in Seq(WireMessage) /\ calls \in Seq(WireCall) /\ P \in Nat
        /\ Len(calls) \in Nat
    BY <1>1, FollowUpParts, CallsHaveIds
  <2>2. /\ Len(list) = P + 1 + Len(calls)
        /\ \A i \in 1 .. P : list[i] = prompt[i]
        /\ list[P + 1] = Asking
        /\ \A k \in 1 .. Len(calls) : list[P + 1 + k] = Results[k]
    <3>1. /\ << Asking >> \in Seq(WireMessage) /\ Results \in Seq(WireMessage)
          /\ Len(Results) = Len(calls)
          /\ list = (prompt \o << Asking >>) \o Results
      BY <1>1, FollowUpParts
    <3>. DEFINE front == prompt \o << Asking >>
    <3>2. /\ front \in Seq(WireMessage) /\ Len(front) = P + 1 /\ front[P + 1] = Asking
          /\ \A i \in 1 .. P : front[i] = prompt[i]
      BY <2>1, <3>1
    <3>. HIDE DEF front
    <3>3. \A i \in 1 .. P + 1 : (front \o Results)[i] = front[i]
      BY <2>1, <3>1, <3>2
    <3>4. ASSUME NEW k \in 1 .. Len(calls) PROVE (front \o Results)[P + 1 + k] = Results[k]
      <4>1. P + 1 + k \in 1 .. Len(front) + Len(Results) /\ ~ (P + 1 + k <= Len(front))
            /\ (P + 1 + k) - Len(front) = k
        BY <2>1, <3>1, <3>2
      <4>. QED BY <3>1, <3>2, <4>1, ConcatProperties
    <3>5. Len(front \o Results) = P + 1 + Len(calls)
      <4>1. Len(front \o Results) = Len(front) + Len(Results)
        BY <3>1, <3>2, ConcatProperties
      <4>. QED BY <3>1, <3>2, <4>1
    <3>6. list = front \o Results
      BY <3>1 DEF front
    <3>. HIDE DEF list
    <3>. QED BY <2>1, <3>2, <3>3, <3>4, <3>5, <3>6
  <2>3. /\ Asking = [role |-> "assistant", content |-> TurnText, calls |-> calls,
                     id |-> NoCallId]
        /\ \A k \in 1 .. Len(calls) :
              Results[k] = [role |-> "tool", content |-> << 100 + k >>, calls |-> << >>,
                            id |-> calls[k].id]
    BY <1>1, FollowUpParts
  <2>4. /\ \A k \in 1 .. Len(calls) : calls[k].id # NoCallId
        /\ \A k, m \in 1 .. Len(calls) : calls[k].id = calls[m].id => k = m
    BY <1>1, CallsHaveIds
  <2>5. OpenAIAccepts(OpenAIMessages(prompt))
    BY <1>1
  <2>. HIDE DEF list
  <2>6. Len(wire) = P + 1 + Len(calls)
        /\ \A i \in 1 .. Len(wire) : wire[i] = OpenAIMessage(list[i])
    BY <2>1, <2>2 DEF OpenAIMessages
  <2>7. \A i \in 1 .. P : wire[i] = OpenAIMessages(prompt)[i]
    BY <2>1, <2>2, <2>6 DEF OpenAIMessages
  <2>8. Len(OpenAIMessages(prompt)) = P
    BY <2>1 DEF OpenAIMessages
  <2>9. /\ wire[P + 1].role = "assistant"
        /\ wire[P + 1].tool_calls = [k \in 1 .. Len(calls) |-> calls[k].id]
    <3>1. P + 1 \in 1 .. Len(wire) /\ wire[P + 1] = OpenAIMessage(Asking)
      BY <2>1, <2>2, <2>6
    <3>2. IsCall(Asking)
      BY <1>1, <2>3 DEF IsCall, LoopGoesOn
    <3>. QED BY <2>3, <3>1, <3>2 DEF OpenAIMessage
  <2>10. \A k \in 1 .. Len(calls) :
            /\ wire[P + 1 + k].tool_calls = << >>
            /\ wire[P + 1 + k].tool_call_id = calls[k].id
    <3>1. \A k \in 1 .. Len(calls) : P + 1 + k \in 1 .. Len(wire)
      BY <2>1, <2>6
    <3>. HIDE DEF wire
    <3>2. \A k \in 1 .. Len(calls) : wire[P + 1 + k] = OpenAIMessage(Results[k])
      BY <2>2, <2>6, <3>1
    <3>3. ASSUME NEW k \in 1 .. Len(calls)
          PROVE  /\ OpenAIMessage(Results[k]).tool_calls = << >>
                 /\ OpenAIMessage(Results[k]).tool_call_id = calls[k].id
      <4>1. Results[k].role = "tool" /\ Results[k].id = calls[k].id
        <5>1. Results[k] = [role |-> "tool", content |-> << 100 + k >>, calls |-> << >>,
                            id |-> calls[k].id]
          BY <2>3
        <5>. QED BY <5>1
      <4>. QED BY <4>1 DEF OpenAIMessage, IsCall
    <3>. QED BY <3>2, <3>3
  <2>. HIDE DEF wire
  <2>11. ASSUME NEW i \in 1 .. Len(wire)
         PROVE  LET ids == wire[i].tool_calls
                IN  /\ \A k \in 1 .. Len(ids) :
                          /\ ids[k] # NoCallId /\ (\A m \in 1 .. k - 1 : ids[m] # ids[k])
                          /\ i + k <= Len(wire) /\ wire[i + k].tool_call_id = ids[k]
                    /\ wire[i].role = "tool" => wire[i].tool_call_id # NoCallId
    <3>1. CASE i \in 1 .. P
      <4>. DEFINE old == OpenAIMessages(prompt)
      <4>1. LET ids == old[i].tool_calls
            IN  /\ \A k \in 1 .. Len(ids) :
                      /\ ids[k] # NoCallId /\ (\A m \in 1 .. k - 1 : ids[m] # ids[k])
                      /\ i + k <= P /\ old[i + k].tool_call_id = ids[k]
                /\ old[i].role = "tool" => old[i].tool_call_id # NoCallId
        BY <2>5, <2>8, <3>1 DEF OpenAIAccepts
      <4>2. old[i].tool_calls = wire[i].tool_calls /\ Len(old[i].tool_calls) \in Nat
        <5>1. old[i] = wire[i] /\ old[i] = OpenAIMessage(prompt[i]) /\ prompt[i] \in WireMessage
          BY <2>1, <2>7, <3>1 DEF OpenAIMessages
        <5>2. Len(OpenAIMessage(prompt[i]).tool_calls) \in Nat
          BY <5>1 DEF OpenAIMessage, WireMessage
        <5>. QED BY <5>1, <5>2
      <4>3. \A k \in 1 .. Len(old[i].tool_calls) : i + k \in 1 .. P
        BY <2>1, <3>1, <4>1, <4>2
      <4>4. wire[i] = old[i] /\ \A k \in 1 .. Len(old[i].tool_calls) : wire[i + k] = old[i + k]
        BY <2>7, <3>1, <4>3
      <4>5. \A k \in 1 .. Len(old[i].tool_calls) : i + k <= Len(wire)
        BY <2>1, <2>6, <4>3
      <4>. HIDE DEF old
      <4>. QED BY <4>1, <4>4, <4>5
    <3>2. CASE i = P + 1
      <4>1. Len(wire[i].tool_calls) = Len(calls)
        BY <2>1, <2>9, <3>2
      <4>2. \A k \in 1 .. Len(calls) : wire[i].tool_calls[k] = calls[k].id
        BY <2>9, <3>2
      <4>3. \A k \in 1 .. Len(calls) : \A m \in 1 .. k - 1 : calls[m].id # calls[k].id
        BY <2>1, <2>4
      <4>4. \A k \in 1 .. Len(calls) : i + k <= Len(wire) /\ wire[i + k].tool_call_id = calls[k].id
        BY <2>1, <2>6, <2>10, <3>2
      <4>5. \A k \in 1 .. Len(calls) : \A m \in 1 .. k - 1 : m \in 1 .. Len(calls)
        BY <2>1
      <4>. QED BY <2>4, <2>9, <3>2, <4>1, <4>2, <4>3, <4>4, <4>5, SMTT(30)
    <3>3. CASE i \notin 1 .. P /\ i # P + 1
      <4>1. i - (P + 1) \in 1 .. Len(calls) /\ P + 1 + (i - (P + 1)) = i
        BY <2>1, <2>6, <3>3
      <4>2. wire[i].tool_calls = << >> /\ wire[i].tool_call_id # NoCallId
        BY <2>4, <2>10, <4>1
      <4>. QED BY <4>2
    <3>. QED BY <3>1, <3>2, <3>3
  <2>. QED BY <2>11 DEF OpenAIAccepts, wire, list
<1>2. AdapterInv => OpenAIWire
  BY <1>1 DEF OpenAIWire
<1>. QED BY Invariant, <1>2, PTL

-----------------------------------------------------------------------------

(* The contents that come of each message of a list, and what they are.    *)
ContentsOf(list) ==
    [i \in 1 .. Len(list) |-> IF SystemText(list[i]) THEN << >> ELSE GeminiContents(list[i])]

GeminiPart == [kind : {"text", "call", "response"}, name : CallIds, text : Seq(Nat)]
GeminiContent == [role : {"user", "model"}, parts : Seq(GeminiPart)]

LEMMA PartType ==
    ASSUME NEW kind \in {"text", "call", "response"}, NEW name \in CallIds, NEW text \in Seq(Nat)
    PROVE  Part(kind, name, text) \in GeminiPart
BY DEF Part, GeminiPart

LEMMA ModelPartsType ==
    ASSUME NEW msg \in WireMessage PROVE ModelParts(msg) \in Seq(GeminiPart)
<1>. DEFINE calls == [k \in 1 .. Len(msg.calls) |-> Part("call", msg.calls[k].name, << >>)]
<1>1. /\ msg.calls \in Seq(WireCall) /\ msg.content \in Seq(Nat) /\ << >> \in Seq(Nat)
      /\ NoCallId \in CallIds
  BY DEF WireMessage, CallIds
<1>2. \A k \in 1 .. Len(msg.calls) : msg.calls[k] \in WireCall
  BY <1>1
<1>3. \A call \in WireCall : call.name \in CallIds
  BY DEF WireCall
<1>4. \A k \in 1 .. Len(msg.calls) : Part("call", msg.calls[k].name, << >>) \in GeminiPart
  BY <1>1, <1>2, <1>3, PartType
<1>5. calls \in Seq(GeminiPart)
  BY <1>1, <1>4
<1>6. Part("text", NoCallId, msg.content) \in GeminiPart
  BY <1>1, PartType
<1>. HIDE DEF calls
<1>. QED BY <1>5, <1>6 DEF ModelParts, calls

LEMMA ContentsType ==
    ASSUME NEW msg \in WireMessage PROVE GeminiContents(msg) \in Seq(GeminiContent)
<1>1. /\ msg.content \in Seq(Nat) /\ << >> \in Seq(Nat) /\ msg.id \in CallIds
      /\ NoCallId \in CallIds /\ msg.role \in {"system", "user", "assistant", "tool"}
  BY DEF WireMessage, CallIds
<1>2. \A role \in {"user", "model"}, parts \in Seq(GeminiPart) :
          << [role |-> role, parts |-> parts] >> \in Seq(GeminiContent)
  BY DEF GeminiContent
<1>3. \A part \in GeminiPart : << part >> \in Seq(GeminiPart)
  OBVIOUS
<1>4. CASE IsCall(msg)
  <2>1. GeminiContents(msg) = << [role |-> "model", parts |-> ModelParts(msg)] >>
    <3>1. msg.role = "assistant"
      BY <1>4 DEF IsCall
    <3>. QED BY <1>4, <3>1 DEF GeminiContents
  <2>. QED BY <1>2, <2>1, ModelPartsType
<1>5. CASE msg.role = "tool" /\ msg.id # NoCallId
  <2>1. Part("response", msg.id, IF HasText(msg) THEN msg.content ELSE << >>) \in GeminiPart
    BY <1>1, PartType
  <2>2. GeminiContents(msg) =
            << [role  |-> "user",
                parts |-> << Part("response", msg.id,
                                  IF HasText(msg) THEN msg.content ELSE << >>) >>] >>
    BY <1>5 DEF GeminiContents, IsCall
  <2>. QED BY <1>2, <1>3, <2>1, <2>2
<1>6. CASE msg.role \in {"user", "assistant"} /\ ~ IsCall(msg) /\ msg.content # NoContent
  <2>1. Part("text", NoCallId, msg.content) \in GeminiPart
    BY <1>1, PartType
  <2>2. GeminiContents(msg) =
            << [role  |-> IF msg.role = "user" THEN "user" ELSE "model",
                parts |-> << Part("text", NoCallId, msg.content) >>] >>
    BY <1>6 DEF GeminiContents
  <2>. QED BY <1>2, <1>3, <2>1, <2>2
<1>7. ASSUME ~ IsCall(msg), ~ (msg.role = "tool" /\ msg.id # NoCallId),
             ~ (msg.role \in {"user", "assistant"} /\ ~ IsCall(msg) /\ msg.content # NoContent)
      PROVE  GeminiContents(msg) \in Seq(GeminiContent)
  <2>1. GeminiContents(msg) = << >>
    BY <1>7, Zenon DEF GeminiContents
  <2>. QED BY <2>1
<1>. QED BY <1>4, <1>5, <1>6, <1>7

(* The conversation of a list in two parts is that of the one and then     *)
(* that of the other.                                                      *)
LEMMA ConversationConcat ==
    ASSUME NEW a \in Seq(WireMessage), NEW b \in Seq(WireMessage)
    PROVE  /\ GeminiConversation(a) \in Seq(GeminiContent)
           /\ GeminiConversation(b) \in Seq(GeminiContent)
           /\ GeminiConversation(a \o b) = GeminiConversation(a) \o GeminiConversation(b)
<1>1. ASSUME NEW list \in Seq(WireMessage) PROVE ContentsOf(list) \in Seq(Seq(GeminiContent))
  <2>1. \A i \in 1 .. Len(list) : GeminiContents(list[i]) \in Seq(GeminiContent)
    BY ContentsType
  <2>2. << >> \in Seq(GeminiContent)
    OBVIOUS
  <2>. QED BY <2>1, <2>2 DEF ContentsOf
<1>2. ContentsOf(a \o b) = ContentsOf(a) \o ContentsOf(b)
  BY DEF ContentsOf
<1>3. \A list : GeminiConversation(list) = FlattenSeq(ContentsOf(list))
  BY DEF GeminiConversation, ContentsOf
<1>. QED BY <1>1, <1>2, <1>3, FlattenConcat

LEMMA ConversationOne ==
    ASSUME NEW msg \in WireMessage
    PROVE  GeminiConversation(<< msg >>) = IF SystemText(msg) THEN << >> ELSE GeminiContents(msg)
<1>. DEFINE piece == IF SystemText(msg) THEN << >> ELSE GeminiContents(msg)
<1>1. piece \in Seq(GeminiContent)
  BY ContentsType
<1>2. GeminiConversation(<< msg >>) = FlattenSeq(<< piece >>)
  BY DEF GeminiConversation
<1>. QED BY <1>1, <1>2, FlattenOne

(* What follows the prompt's conversation: the turn of the model, and one  *)
(* answer for each call.                                                   *)
AnswerTo(call, k) ==
    [role  |-> "user",
     parts |-> << Part("response", call.id, << 100 + k >>) >>]

LEMMA FollowUpConversation ==
    ASSUME AdapterInv, LoopGoesOn, NEW prompt \in Prompts
    PROVE  \E turn \in GeminiContent, answers \in Seq(GeminiContent) :
             /\ GeminiConversation(FollowUp(prompt)) =
                    (GeminiConversation(prompt) \o << turn >>) \o answers
             /\ turn = [role |-> "model", parts |-> ModelParts(Asking)]
             /\ Len(answers) = Len(session_tool_calls)
             /\ \A k \in 1 .. Len(answers) : answers[k] = AnswerTo(session_tool_calls[k], k)
<1>. DEFINE calls == session_tool_calls
            turn == [role |-> "model", parts |-> ModelParts(Asking)]
            answers == [k \in 1 .. Len(calls) |-> AnswerTo(calls[k], k)]
<1>1. /\ prompt \in Seq(WireMessage) /\ << Asking >> \in Seq(WireMessage)
      /\ Asking \in WireMessage
      /\ Results \in Seq(WireMessage) /\ Len(Results) = Len(calls)
      /\ calls \in Seq(WireCall) /\ Len(calls) \in Nat
      /\ FollowUp(prompt) = (prompt \o << Asking >>) \o Results
  <2>1. << Asking >> \in Seq(WireMessage) => Asking \in WireMessage
    OBVIOUS
  <2>. QED BY <2>1, FollowUpParts, CallsHaveIds
<1>2. GeminiConversation(<< Asking >>) = << turn >> /\ turn \in GeminiContent
  <2>1. Asking.role = "assistant" /\ Asking.calls # << >>
    <3>1. Asking = [role |-> "assistant", content |-> TurnText, calls |-> calls,
                    id |-> NoCallId]
      BY FollowUpParts
    <3>. QED BY <3>1 DEF LoopGoesOn
  <2>2. GeminiContents(Asking) = << turn >>
    BY <2>1 DEF GeminiContents, IsCall
  <2>3. turn \in GeminiContent
    BY <1>1, ModelPartsType DEF GeminiContent
  <2>. QED BY <1>1, <2>1, <2>2, <2>3, ConversationOne DEF SystemText
<1>3. ASSUME NEW k \in 1 .. Len(Results)
      PROVE  /\ ~ SystemText(Results[k]) /\ GeminiContents(Results[k]) = << answers[k] >>
             /\ answers[k] \in GeminiContent
  <2>1. /\ Results[k].role = "tool" /\ Results[k].id = calls[k].id
        /\ Results[k].content = << 100 + k >> /\ Results[k].calls = << >>
    <3>1. Results[k] = [role |-> "tool", content |-> << 100 + k >>, calls |-> << >>,
                        id |-> calls[k].id]
      BY FollowUpParts
    <3>. QED BY <3>1
  <2>2. calls[k].id # NoCallId /\ calls[k] \in WireCall /\ k \in Nat /\ k >= 1
    BY <1>1, CallsHaveIds
  <2>3. HasText(Results[k])
    <3>1. << 100 + k >> # << 0 >> /\ << 100 + k >> # << >>
      BY <2>2
    <3>. QED BY <2>1, <3>1 DEF HasText, NoContent
  <2>4. GeminiContents(Results[k]) = << AnswerTo(calls[k], k) >>
    BY <2>1, <2>2, <2>3 DEF GeminiContents, IsCall, AnswerTo
  <2>5. answers[k] = AnswerTo(calls[k], k)
    BY <1>1
  <2>6. answers[k] \in GeminiContent
    <3>1. calls[k].id \in CallIds /\ << 100 + k >> \in Seq(Nat)
      BY <2>2 DEF WireCall
    <3>2. Part("response", calls[k].id, << 100 + k >>) \in GeminiPart
      BY <3>1, PartType
    <3>3. \A part \in GeminiPart : << part >> \in Seq(GeminiPart)
      OBVIOUS
    <3>4. << Part("response", calls[k].id, << 100 + k >>) >> \in Seq(GeminiPart)
      BY <3>2, <3>3
    <3>5. AnswerTo(calls[k], k) \in GeminiContent
      BY <3>4 DEF AnswerTo, GeminiContent
    <3>. HIDE DEF answers
    <3>. QED BY <2>5, <3>5
  <2>7. ~ SystemText(Results[k])
    BY <2>1 DEF SystemText
  <2>. HIDE DEF answers
  <2>. QED BY <2>4, <2>5, <2>6, <2>7
<1>4. answers \in Seq(GeminiContent) /\ Len(answers) = Len(calls)
  BY <1>1, <1>3
<1>5. GeminiConversation(Results) = answers
  <2>1. ContentsOf(Results) = [k \in 1 .. Len(answers) |-> << answers[k] >>]
    <3>. HIDE DEF answers
    <3>. QED BY <1>1, <1>3, <1>4 DEF ContentsOf
  <2>2. GeminiConversation(Results) = FlattenSeq(ContentsOf(Results))
    BY DEF GeminiConversation, ContentsOf
  <2>. HIDE DEF answers
  <2>. QED BY <1>4, <2>1, <2>2, FlattenSingles
<1>6. GeminiConversation(FollowUp(prompt)) =
          (GeminiConversation(prompt) \o << turn >>) \o answers
  <2>1. prompt \o << Asking >> \in Seq(WireMessage)
    BY <1>1
  <2>2. GeminiConversation((prompt \o << Asking >>) \o Results) =
            GeminiConversation(prompt \o << Asking >>) \o GeminiConversation(Results)
    BY <1>1, <2>1, ConversationConcat
  <2>3. GeminiConversation(prompt \o << Asking >>) =
            GeminiConversation(prompt) \o GeminiConversation(<< Asking >>)
    BY <1>1, ConversationConcat
  <2>. HIDE DEF turn, answers
  <2>. QED BY <1>1, <1>2, <1>5, <2>2, <2>3
<1>7. \A k \in 1 .. Len(answers) : answers[k] = AnswerTo(calls[k], k)
  BY <1>4
<1>. QED BY <1>2, <1>4, <1>6, <1>7, Zenon

(* The calls among the parts of a turn of the model come after its text.   *)
LEMMA CallsAmongParts ==
    ASSUME NEW msg \in WireMessage
    PROVE  \E off \in {0, 1} :
             /\ Len(ModelParts(msg)) = off + Len(msg.calls)
             /\ \A k \in 1 .. off : ModelParts(msg)[k] = Part("text", NoCallId, msg.content)
             /\ \A k \in 1 .. Len(msg.calls) :
                   ModelParts(msg)[off + k] = Part("call", msg.calls[k].name, << >>)
             /\ CallsOf([role |-> "model", parts |-> ModelParts(msg)]) =
                   off + 1 .. off + Len(msg.calls)
             /\ HasText(msg) <=> off = 1
<1>. DEFINE calls == [k \in 1 .. Len(msg.calls) |-> Part("call", msg.calls[k].name, << >>)]
            N == Len(msg.calls)
            off == IF HasText(msg) THEN 1 ELSE 0
<1>1. N \in Nat
  BY DEF WireMessage
<1>2. /\ Len(ModelParts(msg)) = off + N
      /\ \A k \in 1 .. off : ModelParts(msg)[k] = Part("text", NoCallId, msg.content)
      /\ \A k \in 1 .. N :
            ModelParts(msg)[off + k] = Part("call", msg.calls[k].name, << >>)
  <2>1. CASE HasText(msg)
    <3>1. ModelParts(msg) = << Part("text", NoCallId, msg.content) >> \o calls
      BY <2>1 DEF ModelParts
    <3>. QED BY <1>1, <2>1, <3>1
  <2>2. CASE ~ HasText(msg)
    <3>1. ModelParts(msg) = << >> \o calls
      BY <2>2 DEF ModelParts
    <3>. QED BY <1>1, <2>2, <3>1
  <2>. QED BY <2>1, <2>2
<1>3. off \in {0, 1} /\ (HasText(msg) <=> off = 1)
  OBVIOUS
<1>. HIDE DEF off, N
<1>4. \A k \in 1 .. off + N : ModelParts(msg)[k].kind = "call" <=> k \in off + 1 .. off + N
  <2>1. ASSUME NEW k \in 1 .. off + N, k <= off PROVE ModelParts(msg)[k].kind = "text"
    BY <1>2, <1>3, <2>1 DEF Part
  <2>2. ASSUME NEW k \in 1 .. off + N, ~ (k <= off) PROVE ModelParts(msg)[k].kind = "call"
    <3>1. k - off \in 1 .. N /\ off + (k - off) = k
      BY <1>1, <1>3, <2>2
    <3>2. ModelParts(msg)[k] = Part("call", msg.calls[k - off].name, << >>)
      BY <1>2, <3>1
    <3>. QED BY <3>2 DEF Part
  <2>. QED BY <1>1, <1>3, <2>1, <2>2
<1>5. CallsOf([role |-> "model", parts |-> ModelParts(msg)]) = off + 1 .. off + N
  BY <1>1, <1>2, <1>3, <1>4 DEF CallsOf
<1>. QED BY <1>2, <1>3, <1>5 DEF N

(* The parts of the answers, one content each, are the responses in order. *)
Response(call, k) == Part("response", call.id, << 100 + k >>)

LEMMA AnswersInParts ==
    ASSUME NEW calls \in Seq(WireCall), NEW answers \in Seq(GeminiContent),
           Len(answers) = Len(calls),
           \A k \in 1 .. Len(answers) : answers[k] = AnswerTo(calls[k], k)
    PROVE  PartsOf(answers) = [k \in 1 .. Len(calls) |-> Response(calls[k], k)]
<1>. DEFINE parts == [k \in 1 .. Len(calls) |-> Response(calls[k], k)]
<1>1. Len(calls) \in Nat
  OBVIOUS
<1>2. ASSUME NEW k \in 1 .. Len(calls)
      PROVE  answers[k].parts = << Response(calls[k], k) >> /\ Response(calls[k], k) \in GeminiPart
  <2>1. answers[k] = AnswerTo(calls[k], k) /\ calls[k] \in WireCall /\ k \in Nat
    OBVIOUS
  <2>2. calls[k].id \in CallIds /\ << 100 + k >> \in Seq(Nat)
    BY <2>1 DEF WireCall
  <2>3. Response(calls[k], k) \in GeminiPart
    BY <2>2, PartType DEF Response
  <2>4. AnswerTo(calls[k], k).parts = << Response(calls[k], k) >>
    BY DEF AnswerTo, Response
  <2>. QED BY <2>1, <2>3, <2>4
<1>3. parts \in Seq(GeminiPart) /\ Len(parts) = Len(calls)
  BY <1>1, <1>2
<1>4. \A k \in 1 .. Len(calls) : parts[k] = Response(calls[k], k)
  OBVIOUS
<1>. HIDE DEF parts
<1>5. [k \in 1 .. Len(answers) |-> answers[k].parts] = [k \in 1 .. Len(parts) |-> << parts[k] >>]
  BY <1>2, <1>3, <1>4
<1>6. FlattenSeq([k \in 1 .. Len(parts) |-> << parts[k] >>]) = parts
  BY <1>3, FlattenSingles
<1>. QED BY <1>5, <1>6 DEF PartsOf, parts

(* GeminiWire: in the list that the loop sends next, results and calls     *)
(* match by name and place, if they did in the one that it prolongs.       *)
THEOREM NextRequestFitsGemini == Spec => []GeminiWire
<1>1. ASSUME AdapterInv, adapter = "gemini", LoopGoesOn, NEW prompt \in Prompts,
             GeminiMatches(GeminiConversation(prompt))
      PROVE  GeminiMatches(GeminiConversation(FollowUp(prompt)))
  <2>. DEFINE calls == session_tool_calls
              before == GeminiConversation(prompt)
              contents == GeminiConversation(FollowUp(prompt))
              P == Len(before)
              N == Len(calls)
  <2>1. PICK turn \in GeminiContent, answers \in Seq(GeminiContent) :
            /\ contents = (before \o << turn >>) \o answers
            /\ turn = [role |-> "model", parts |-> ModelParts(Asking)]
            /\ Len(answers) = Len(calls)
            /\ \A k \in 1 .. Len(answers) : answers[k] = AnswerTo(calls[k], k)
    BY <1>1, FollowUpConversation
  <2>2. /\ before \in Seq(GeminiContent) /\ P \in Nat
        /\ calls \in Seq(WireCall) /\ N \in Nat
        /\ Asking \in WireMessage /\ Asking.calls = calls
        /\ \A k \in 1 .. N : calls[k].id = calls[k].name
        /\ GeminiMatches(before)
    <3>1. prompt \in Seq(WireMessage) /\ GeminiMatches(before)
      BY <1>1, PromptsAssumption
    <3>2. before \in Seq(GeminiContent)
      BY <3>1, ConversationConcat
    <3>3. << Asking >> \in Seq(WireMessage) => Asking \in WireMessage
      OBVIOUS
    <3>4. << Asking >> \in Seq(WireMessage) /\ Asking.calls = calls
      <4>1. Asking = [role |-> "assistant", content |-> TurnText, calls |-> calls,
                      id |-> NoCallId]
        BY <1>1, FollowUpParts
      <4>. QED BY <1>1, <4>1, FollowUpParts
    <3>5. calls \in Seq(WireCall) /\ \A k \in 1 .. Len(calls) : calls[k].id = calls[k].name
      BY <1>1, CallsHaveIds
    <3>. QED BY <3>1, <3>2, <3>3, <3>4, <3>5
  <2>. HIDE DEF before, contents, calls
  <2>3. /\ contents \in Seq(GeminiContent) /\ Len(contents) = P + 1 + N
        /\ \A i \in 1 .. P : contents[i] = before[i]
        /\ contents[P + 1] = turn
        /\ \A k \in 1 .. N : contents[P + 1 + k] = answers[k]
    <3>. DEFINE front == before \o << turn >>
    <3>1. /\ front \in Seq(GeminiContent) /\ Len(front) = P + 1 /\ front[P + 1] = turn
          /\ \A i \in 1 .. P : front[i] = before[i]
      BY <2>2
    <3>2. contents = front \o answers
      BY <2>1
    <3>. HIDE DEF front
    <3>3. \A i \in 1 .. P + 1 : contents[i] = front[i]
      BY <2>2, <3>1, <3>2
    <3>4. ASSUME NEW k \in 1 .. N PROVE contents[P + 1 + k] = answers[k]
      <4>1. P + 1 + k \in 1 .. Len(front) + Len(answers) /\ ~ (P + 1 + k <= Len(front))
            /\ (P + 1 + k) - Len(front) = k
        BY <2>1, <2>2, <3>1
      <4>. QED BY <3>1, <3>2, <4>1, ConcatProperties
    <3>5. Len(contents) = P + 1 + N
      <4>1. Len(contents) = Len(front) + Len(answers)
        BY <3>1, <3>2, ConcatProperties
      <4>. QED BY <2>1, <3>1, <4>1
    <3>6. P + 1 \in 1 .. P + 1 /\ \A i \in 1 .. P : i \in 1 .. P + 1
      BY <2>2
    <3>7. contents[P + 1] = turn /\ \A i \in 1 .. P : contents[i] = before[i]
      BY <3>1, <3>3, <3>6
    <3>8. contents \in Seq(GeminiContent)
      BY <3>1, <3>2
    <3>. QED BY <3>4, <3>5, <3>7, <3>8
  <2>4. PICK off \in {0, 1} :
            /\ Len(ModelParts(Asking)) = off + N
            /\ \A k \in 1 .. off : ModelParts(Asking)[k] = Part("text", NoCallId, Asking.content)
            /\ \A m \in 1 .. N : ModelParts(Asking)[off + m] = Part("call", calls[m].name, << >>)
            /\ CallsOf(turn) = off + 1 .. off + N
    BY <2>1, <2>2, CallsAmongParts
  <2>5. ~ Responds(turn)
    <3>1. ASSUME NEW k \in 1 .. off + N PROVE ModelParts(Asking)[k].kind # "response"
      <4>1. CASE k <= off
        BY <2>4, <4>1 DEF Part
      <4>2. CASE ~ (k <= off)
        <5>1. k - off \in 1 .. N /\ off + (k - off) = k
          BY <2>2, <4>2
        <5>2. ModelParts(Asking)[k] = Part("call", calls[k - off].name, << >>)
          BY <2>4, <5>1
        <5>. QED BY <5>2 DEF Part
      <4>. QED BY <4>1, <4>2
    <3>. QED BY <2>1, <2>4, <3>1 DEF Responds
  <2>6. ASSUME NEW i \in 1 .. P, CallsOf(contents[i]) # {}
        PROVE  \E j \in i .. Len(contents) :
                  /\ Answers(SubSeq(contents, i + 1, j), contents[i])
                  /\ j < Len(contents) => ~ Responds(contents[j + 1])
    <3>1. contents[i] = before[i]
      BY <2>3
    <3>2. PICK j \in i .. P : /\ Answers(SubSeq(before, i + 1, j), before[i])
                              /\ j < P => ~ Responds(before[j + 1])
      BY <2>2, <2>6, <3>1 DEF GeminiMatches
    <3>3. j \in Nat /\ i \in Nat /\ i <= j /\ j <= P
      BY <2>2
    <3>. HIDE DEF P, N
    <3>4. SubSeq(contents, i + 1, j) = SubSeq(before, i + 1, j)
      <4>1. \A k \in 1 .. j - i : contents[i + k] = before[i + k]
        <5>1. \A k \in 1 .. j - i : i + k \in 1 .. P
          BY <2>2, <3>3
        <5>. QED BY <2>3, <5>1
      <4>2. ASSUME NEW s \in Seq(GeminiContent), j <= Len(s)
            PROVE  SubSeq(s, i + 1, j) = [k \in 1 .. j - i |-> s[i + k]]
        BY <3>3, <4>2
      <4>3. before \in Seq(GeminiContent) /\ j <= Len(before)
            /\ contents \in Seq(GeminiContent) /\ j <= Len(contents)
        <5>1. P + 1 + N \in Nat /\ P <= P + 1 + N
          BY <2>2
        <5>. QED BY <2>2, <2>3, <3>3, <5>1 DEF P
      <4>4. /\ SubSeq(contents, i + 1, j) = [k \in 1 .. j - i |-> contents[i + k]]
            /\ SubSeq(before, i + 1, j) = [k \in 1 .. j - i |-> before[i + k]]
        BY <4>2, <4>3
      <4>. QED BY <4>1, <4>4
    <3>5. ~ Responds(contents[j + 1])
      <4>1. CASE j < P
        <5>1. j + 1 \in 1 .. P
          BY <2>2, <3>3, <4>1
        <5>. QED BY <2>3, <3>2, <4>1, <5>1
      <4>2. CASE j = P
        BY <2>3, <2>5, <4>2
      <4>. QED BY <2>2, <3>3, <4>1, <4>2
    <3>6. j \in i .. Len(contents)
      BY <2>2, <2>3, <3>3
    <3>. QED BY <3>1, <3>2, <3>4, <3>5, <3>6
  <2>7. Answers(SubSeq(contents, P + 2, P + 1 + N), turn)
    <3>1. SubSeq(contents, P + 2, P + 1 + N) = answers
      <4>1. \A k \in 1 .. N : contents[P + 1 + k] = answers[k]
        BY <2>3
      <4>2. answers = [k \in 1 .. N |-> answers[k]]
        BY <2>1, <2>2
      <4>. HIDE DEF P, N
      <4>3. SubSeq(contents, P + 2, P + 1 + N) = [k \in 1 .. N |-> contents[P + 1 + k]]
        <5>1. ASSUME NEW s, s \in Seq(GeminiContent), NEW a \in Int, NEW n \in Nat
              PROVE  SubSeq(s, a + 1, a + n) = [k \in 1 .. n |-> s[a + k]]
          BY <5>1
        <5>2. P + 1 \in Int /\ N \in Nat /\ contents \in Seq(GeminiContent)
          BY <2>2, <2>3
        <5>3. SubSeq(contents, (P + 1) + 1, (P + 1) + N) =
                [k \in 1 .. N |-> contents[(P + 1) + k]]
          BY ONLY <5>1, <5>2
        <5>4. (P + 1) + 1 = P + 2
          BY ONLY <2>2
        <5>. QED BY ONLY <5>3, <5>4
      <4>. QED BY <4>1, <4>2, <4>3
    <3>2. PartsOf(answers) = [k \in 1 .. N |-> Response(calls[k], k)]
      BY <2>1, <2>2, AnswersInParts
    <3>3. \A k \in 1 .. Len(answers) : answers[k].role = "user"
      <4>1. \A call, k : AnswerTo(call, k).role = "user"
        BY DEF AnswerTo
      <4>. QED BY <2>1, <4>1
    <3>4. Cardinality(CallsOf(turn)) = N /\ Len(PartsOf(answers)) = N
      <4>0. off + 1 \in Int /\ off + N \in Int /\ (off + N) - (off + 1) + 1 = N
            /\ (off + 1 > off + N => N = 0)
        BY <2>2, <2>4
      <4>1. Cardinality(off + 1 .. off + N) = N
        BY <4>0, FS_Interval
      <4>. QED BY <2>2, <2>4, <3>2, <4>1
    <3>5. ASSUME NEW k \in CallsOf(turn)
          PROVE  LET part == PartsOf(answers)[Cardinality({m \in CallsOf(turn) : m <= k})]
                 IN  part.kind = "response" /\ part.name = turn.parts[k].name
      <4>. DEFINE nth == Cardinality({m \in CallsOf(turn) : m <= k})
      <4>1. k - off \in 1 .. N /\ off + (k - off) = k /\ k \in Nat
        BY <2>2, <2>4
      <4>2. {m \in CallsOf(turn) : m <= k} = off + 1 .. k
        BY <2>2, <2>4, <4>1
      <4>3. nth = k - off
        <5>1. off + 1 \in Int /\ k \in Int /\ ~ (off + 1 > k) /\ k - (off + 1) + 1 = k - off
          BY <2>2, <2>4, <4>1
        <5>2. Cardinality(off + 1 .. k) = k - off
          BY <5>1, FS_Interval
        <5>. QED BY <4>2, <5>2
      <4>. HIDE DEF nth
      <4>4. PartsOf(answers)[nth] = Response(calls[nth], nth)
        BY <3>2, <4>1, <4>3
      <4>5. turn.parts[k] = Part("call", calls[nth].name, << >>)
        <5>1. turn.parts = ModelParts(Asking)
          BY <2>1
        <5>. QED BY <2>4, <4>1, <4>3, <5>1
      <4>6. calls[nth].id = calls[nth].name
        BY <2>2, <4>1, <4>3
      <4>7. /\ PartsOf(answers)[nth].kind = "response"
            /\ PartsOf(answers)[nth].name = turn.parts[k].name
        BY <4>4, <4>5, <4>6 DEF Response, Part
      <4>. QED BY <4>7 DEF nth
    <3>. QED BY <3>1, <3>3, <3>4, <3>5 DEF Answers
  <2>8. ASSUME NEW i \in 1 .. Len(contents), i \notin 1 .. P, i # P + 1
        PROVE  CallsOf(contents[i]) = {}
    <3>1. i - (P + 1) \in 1 .. N /\ P + 1 + (i - (P + 1)) = i
      <4>1. Len(contents) = P + 1 + N /\ i \in 1 .. P + 1 + N
        BY <2>3
      <4>. HIDE DEF P, N
      <4>. QED BY <2>2, <2>8, <4>1
    <3>2. contents[i] = AnswerTo(calls[i - (P + 1)], i - (P + 1))
      BY <2>1, <2>3, <3>1
    <3>. QED BY <3>2 DEF CallsOf, AnswerTo, Part
  <2>9. ASSUME NEW i \in 1 .. Len(contents), CallsOf(contents[i]) # {}
        PROVE  \E j \in i .. Len(contents) :
                  /\ Answers(SubSeq(contents, i + 1, j), contents[i])
                  /\ j < Len(contents) => ~ Responds(contents[j + 1])
    <3>1. CASE i \in 1 .. P
      BY <2>6, <2>9, <3>1
    <3>2. CASE i = P + 1
      <4>1. /\ i + 1 = P + 2 /\ Len(contents) \in i .. Len(contents)
            /\ ~ (Len(contents) < Len(contents))
        BY <2>2, <2>3, <3>2
      <4>2. Answers(SubSeq(contents, i + 1, Len(contents)), contents[i])
        BY <2>3, <2>7, <3>2, <4>1
      <4>. QED BY <4>1, <4>2
    <3>. QED BY <2>8, <2>9, <3>1, <3>2
  <2>. QED BY <2>9 DEF GeminiMatches, contents
<1>2. AdapterInv => GeminiWire
  BY <1>1 DEF GeminiWire
<1>. QED BY Invariant, <1>2, PTL

-----------------------------------------------------------------------------

(* Empty sequences flatten to the empty sequence.                          *)
LEMMA FlattenEmpties ==
    ASSUME NEW n \in Nat PROVE FlattenSeq([k \in 1 .. n |-> << >>]) = << >>
<1>. DEFINE Empties(m) == [k \in 1 .. m |-> << >>]
            T == {m \in Nat : FlattenSeq(Empties(m)) = << >>}
<1>1. 0 \in T
  <2>1. Empties(0) = << >>
    OBVIOUS
  <2>2. FlattenSeq(<< >>) = << >>
    BY DEF FlattenSeq
  <2>. QED BY <2>1, <2>2
<1>2. ASSUME NEW m \in T PROVE m + 1 \in T
  <2>1. m \in Nat /\ FlattenSeq(Empties(m)) = << >>
    OBVIOUS
  <2>2. Empties(m) \in Seq(Seq(Nat)) /\ Empties(m + 1) = Empties(m) \o << << >> >>
    BY <2>1
  <2>3. << >> \in Seq(Nat) /\ << >> \o << >> = << >>
    OBVIOUS
  <2>. HIDE DEF Empties
  <2>4. FlattenSeq(Empties(m + 1)) = << >>
    <3>1. FlattenSeq(Empties(m) \o << << >> >>) = FlattenSeq(Empties(m)) \o << >>
      BY ONLY <2>2, <2>3, FlattenAppend
    <3>. QED BY ONLY <2>1, <2>2, <2>3, <3>1
  <2>. QED BY <2>1, <2>4
<1>3. T = Nat
  <2>. HIDE DEF T
  <2>1. T \in SUBSET Nat
    BY DEF T
  <2>. QED BY <1>1, <1>2, <2>1, Induction
<1>4. n \in T
  <2>. HIDE DEF T
  <2>. QED BY <1>3
<1>. QED BY <1>4

(* The text of the parts of a content.                                     *)
LEMMA PartsTextType ==
    ASSUME NEW content \in GeminiContent PROVE PartsText(content) \in Seq(Nat)
<1>1. content.parts \in Seq(GeminiPart)
  BY DEF GeminiContent
<1>2. \A k \in 1 .. Len(content.parts) : content.parts[k] \in GeminiPart
  BY <1>1
<1>3. \A part \in GeminiPart : part.text \in Seq(Nat)
  BY DEF GeminiPart
<1>4. [k \in 1 .. Len(content.parts) |-> content.parts[k].text] \in Seq(Seq(Nat))
  BY <1>1, <1>2, <1>3
<1>5. << >> \in Seq(Seq(Nat))
  OBVIOUS
<1>. QED BY <1>4, <1>5, FlattenConcat DEF PartsText

(* What is in a message of text, and of text that is spoken to the model.  *)
OwnSpoken(msg) == IF msg.role = "system" THEN << >> ELSE TextIn(msg)
OwnSystem(msg) == IF SystemText(msg) THEN msg.content ELSE << >>

(* The texts of a list that is extended by a message.                      *)
LEMMA TextsAppended ==
    ASSUME NEW list \in Seq(WireMessage), NEW msg \in WireMessage
    PROVE  /\ TextOf(list) \in Seq(Nat) /\ SpokenText(list) \in Seq(Nat)
           /\ SystemInstruction(list) \in Seq(Nat)
           /\ TextIn(msg) \in Seq(Nat) /\ OwnSpoken(msg) \in Seq(Nat)
           /\ OwnSystem(msg) \in Seq(Nat)
           /\ TextOf(list \o << msg >>) = TextOf(list) \o TextIn(msg)
           /\ SpokenText(list \o << msg >>) = SpokenText(list) \o OwnSpoken(msg)
           /\ SystemInstruction(list \o << msg >>) = SystemInstruction(list) \o OwnSystem(msg)
<1>1. \A m \in WireMessage : /\ TextIn(m) \in Seq(Nat) /\ OwnSpoken(m) \in Seq(Nat)
                             /\ OwnSystem(m) \in Seq(Nat)
  BY DEF WireMessage, TextIn, OwnSpoken, OwnSystem
<1>2. \A i \in 1 .. Len(list) : list[i] \in WireMessage
  OBVIOUS
<1>. DEFINE all == list \o << msg >>
<1>3. /\ Len(all) = Len(list) + 1 /\ Len(list) \in Nat /\ all[Len(list) + 1] = msg
      /\ \A i \in 1 .. Len(list) : all[i] = list[i]
  OBVIOUS
<1>. DEFINE texts(l)  == [i \in 1 .. Len(l) |-> TextIn(l[i])]
            spoken(l) == [i \in 1 .. Len(l) |-> OwnSpoken(l[i])]
            system(l) == [i \in 1 .. Len(l) |-> OwnSystem(l[i])]
<1>4. /\ texts(list) \in Seq(Seq(Nat)) /\ spoken(list) \in Seq(Seq(Nat))
      /\ system(list) \in Seq(Seq(Nat))
  BY <1>1, <1>2, SMTT(30)
<1>5. /\ texts(all) = texts(list) \o << TextIn(msg) >>
      /\ spoken(all) = spoken(list) \o << OwnSpoken(msg) >>
      /\ system(all) = system(list) \o << OwnSystem(msg) >>
  <2>. HIDE DEF all
  <2>1. texts(all) = texts(list) \o << TextIn(msg) >>
    BY <1>3, SMTT(30)
  <2>2. spoken(all) = spoken(list) \o << OwnSpoken(msg) >>
    BY <1>3, SMTT(30)
  <2>3. system(all) = system(list) \o << OwnSystem(msg) >>
    BY <1>3, SMTT(30)
  <2>. QED BY <2>1, <2>2, <2>3
<1>6. \A l : /\ TextOf(l) = FlattenSeq(texts(l)) /\ SpokenText(l) = FlattenSeq(spoken(l))
            /\ SystemInstruction(l) = FlattenSeq(system(l))
  BY DEF TextOf, SpokenText, SystemInstruction, OwnSpoken, OwnSystem
<1>. HIDE DEF texts, spoken, system
<1>. QED BY <1>1, <1>4, <1>5, <1>6, FlattenAppend

LEMMA ContentsTextConcat ==
    ASSUME NEW a \in Seq(GeminiContent), NEW b \in Seq(GeminiContent)
    PROVE  TextOfContents(a \o b) = TextOfContents(a) \o TextOfContents(b)
<1>. DEFINE texts(l) == [i \in 1 .. Len(l) |-> PartsText(l[i])]
<1>1. texts(a) \in Seq(Seq(Nat)) /\ texts(b) \in Seq(Seq(Nat))
  BY PartsTextType
<1>2. texts(a \o b) = texts(a) \o texts(b)
  OBVIOUS
<1>3. \A l : TextOfContents(l) = FlattenSeq(texts(l))
  BY DEF TextOfContents
<1>. HIDE DEF texts
<1>. QED BY <1>1, <1>2, <1>3, FlattenConcat

(* The contents that come of one message hold its text, unless that is a   *)
(* system text.                                                            *)
LEMMA OneContentText ==
    ASSUME NEW content \in GeminiContent
    PROVE  TextOfContents(<< content >>) = PartsText(content)
<1>1. PartsText(content) \in Seq(Nat)
  BY PartsTextType
<1>2. TextOfContents(<< content >>) = FlattenSeq(<< PartsText(content) >>)
  BY DEF TextOfContents
<1>. QED BY <1>1, <1>2, FlattenOne

LEMMA OnePartText ==
    ASSUME NEW role, NEW kind, NEW name, NEW text \in Seq(Nat)
    PROVE  PartsText([role |-> role, parts |-> << Part(kind, name, text) >>]) = text
<1>1. PartsText([role |-> role, parts |-> << Part(kind, name, text) >>]) = FlattenSeq(<< text >>)
  BY DEF PartsText, Part
<1>. QED BY <1>1, FlattenOne

LEMMA ModelPartsText ==
    ASSUME NEW msg \in WireMessage, ~ Orphan(msg), NEW role
    PROVE  PartsText([role |-> role, parts |-> ModelParts(msg)]) = TextIn(msg)
<1>. DEFINE parts == ModelParts(msg)
            texts == [k \in 1 .. Len(parts) |-> parts[k].text]
            none  == [k \in 1 .. Len(msg.calls) |-> << >>]
            N == Len(msg.calls)
<1>1. PICK off \in {0, 1} :
          /\ Len(parts) = off + N
          /\ \A k \in 1 .. off : parts[k] = Part("text", NoCallId, msg.content)
          /\ \A k \in 1 .. N : parts[off + k] = Part("call", msg.calls[k].name, << >>)
          /\ HasText(msg) <=> off = 1
  BY CallsAmongParts
<1>2. N \in Nat /\ msg.content \in Seq(Nat)
  BY DEF WireMessage
<1>3. FlattenSeq(none) = << >> /\ none \in Seq(Seq(Nat))
  BY <1>2, FlattenEmpties
<1>4. PartsText([role |-> role, parts |-> parts]) = FlattenSeq(texts)
  BY DEF PartsText
<1>. HIDE DEF parts
<1>5. CASE off = 1
  <2>1. texts = << msg.content >> \o none
    <3>1. Len(parts) = N + 1 /\ parts[1].text = msg.content
      BY <1>1, <1>2, <1>5 DEF Part
    <3>2. ASSUME NEW k \in 2 .. N + 1 PROVE parts[k].text = << >>
      <4>1. k - 1 \in 1 .. N /\ off + (k - 1) = k
        BY <1>2, <1>5
      <4>2. parts[k] = Part("call", msg.calls[k - 1].name, << >>)
        BY <1>1, <4>1
      <4>. QED BY <4>2 DEF Part
    <3>. QED BY <1>2, <3>1, <3>2
  <2>2. /\ << msg.content >> \in Seq(Seq(Nat)) /\ FlattenSeq(<< msg.content >>) = msg.content
        /\ msg.content \o << >> = msg.content
    BY <1>2, FlattenOne
  <2>. HIDE DEF texts, none
  <2>3. FlattenSeq(texts) = msg.content
    <3>1. FlattenSeq(<< msg.content >> \o none) = FlattenSeq(<< msg.content >>) \o FlattenSeq(none)
      BY <1>3, <2>2, FlattenConcat
    <3>. QED BY <1>3, <2>1, <2>2, <3>1
  <2>4. TextIn(msg) = msg.content
    BY <1>1, <1>5 DEF TextIn
  <2>. QED BY <1>4, <2>3, <2>4, Zenon DEF parts
<1>6. CASE off = 0
  <2>1. texts = none
    <3>1. Len(parts) = N /\ \A k \in 1 .. N : off + k = k
      BY <1>1, <1>2, <1>6
    <3>2. \A k \in 1 .. N : parts[k] = Part("call", msg.calls[k].name, << >>)
      BY <1>1, <3>1
    <3>3. \A k \in 1 .. N : parts[k].text = << >>
      <4>1. \A name : Part("call", name, << >>).text = << >>
        BY DEF Part
      <4>. QED BY <3>2, <4>1
    <3>. QED BY <3>1, <3>3
  <2>. HIDE DEF texts, none
  <2>2. TextIn(msg) = << >>
    BY <1>1, <1>6 DEF TextIn
  <2>. QED BY <1>3, <1>4, <2>1, <2>2, Zenon DEF parts
<1>. QED BY <1>5, <1>6 DEF parts

LEMMA OneMessageKept ==
    ASSUME NEW msg \in WireMessage
    PROVE  /\ TextOfContents(GeminiConversation(<< msg >>)) = OwnSpoken(msg)
           /\ Len(OwnSpoken(msg)) + Len(OwnSystem(msg)) = Len(TextIn(msg))
<1>. DEFINE conv == GeminiConversation(<< msg >>)
<1>1. /\ msg.content \in Seq(Nat) /\ msg.role \in {"system", "user", "assistant", "tool"}
      /\ << >> \in Seq(Nat) /\ Len(msg.content) \in Nat
  BY DEF WireMessage
<1>2. Len(OwnSpoken(msg)) + Len(OwnSystem(msg)) = Len(TextIn(msg))
  <2>1. Len(<< >>) = 0
    OBVIOUS
  <2>2. CASE ~ HasText(msg)
    BY <2>1, <2>2 DEF OwnSpoken, OwnSystem, TextIn, SystemText, Orphan
  <2>3. CASE HasText(msg) /\ msg.role = "system"
    BY <1>1, <2>1, <2>3 DEF OwnSpoken, OwnSystem, TextIn, SystemText, Orphan
  <2>4. CASE HasText(msg) /\ msg.role # "system"
    BY <1>1, <2>1, <2>4 DEF OwnSpoken, OwnSystem, TextIn, SystemText, Orphan
  <2>. QED BY <2>2, <2>3, <2>4
<1>3. conv = IF SystemText(msg) THEN << >> ELSE GeminiContents(msg)
  BY ConversationOne
<1>4. TextOfContents(<< >>) = << >>
  BY DEF TextOfContents, FlattenSeq
<1>5. GeminiContents(msg) \in Seq(GeminiContent)
  BY ContentsType
<1>6. \A content : << content >> \in Seq(GeminiContent) => content \in GeminiContent
  OBVIOUS
<1>7. CASE SystemText(msg)
  BY <1>2, <1>3, <1>4, <1>7 DEF OwnSpoken, SystemText
<1>8. CASE ~ SystemText(msg) /\ IsCall(msg)
  <2>1. GeminiContents(msg) = << [role |-> "model", parts |-> ModelParts(msg)] >>
    BY <1>8 DEF GeminiContents, IsCall
  <2>2. TextOfContents(conv) = PartsText([role |-> "model", parts |-> ModelParts(msg)])
    BY <1>3, <1>5, <1>6, <1>8, <2>1, OneContentText
  <2>3. OwnSpoken(msg) = TextIn(msg)
    BY <1>8 DEF OwnSpoken, IsCall
  <2>4. ~ Orphan(msg)
    BY <1>8 DEF IsCall, Orphan
  <2>. QED BY <1>2, <2>2, <2>3, <2>4, ModelPartsText
<1>12. CASE Orphan(msg)
  <2>1. /\ msg.role = "tool" /\ ~ IsCall(msg) /\ ~ (msg.role = "tool" /\ msg.id # NoCallId)
        /\ ~ (msg.role \in {"user", "assistant"} /\ ~ IsCall(msg) /\ msg.content # NoContent)
    BY <1>12 DEF Orphan, IsCall
  <2>2. GeminiContents(msg) = << >>
    BY <2>1, Zenon DEF GeminiContents
  <2>3. OwnSpoken(msg) = << >>
    BY <1>12, <2>1 DEF OwnSpoken, TextIn
  <2>. QED BY <1>2, <1>3, <1>4, <2>2, <2>3
<1>9. CASE ~ SystemText(msg) /\ msg.role = "tool" /\ ~ Orphan(msg)
  <2>. DEFINE text == IF HasText(msg) THEN msg.content ELSE << >>
  <2>1. GeminiContents(msg) =
            << [role |-> "user", parts |-> << Part("response", msg.id, text) >>] >>
    BY <1>9 DEF GeminiContents, IsCall, Orphan
  <2>2. text \in Seq(Nat) /\ OwnSpoken(msg) = text
    BY <1>1, <1>9 DEF OwnSpoken, TextIn
  <2>. HIDE DEF text
  <2>3. TextOfContents(conv) =
            PartsText([role |-> "user", parts |-> << Part("response", msg.id, text) >>])
    BY <1>3, <1>5, <1>6, <1>9, <2>1, OneContentText
  <2>. QED BY <1>2, <2>2, <2>3, OnePartText
<1>10. CASE msg.role \in {"user", "assistant"} /\ ~ IsCall(msg) /\ msg.content # NoContent
  <2>. DEFINE role == IF msg.role = "user" THEN "user" ELSE "model"
  <2>1. GeminiContents(msg) =
            << [role |-> role, parts |-> << Part("text", NoCallId, msg.content) >>] >>
    BY <1>10 DEF GeminiContents
  <2>2. ~ SystemText(msg) /\ OwnSpoken(msg) = msg.content
    BY <1>10 DEF OwnSpoken, TextIn, HasText, SystemText, Orphan
  <2>. HIDE DEF role
  <2>3. TextOfContents(conv) =
            PartsText([role |-> role, parts |-> << Part("text", NoCallId, msg.content) >>])
    BY <1>3, <1>5, <1>6, <2>1, <2>2, OneContentText
  <2>. QED BY <1>1, <1>2, <2>2, <2>3, OnePartText
<1>11. ASSUME ~ SystemText(msg), ~ IsCall(msg), msg.role # "tool",
              ~ (msg.role \in {"user", "assistant"} /\ ~ IsCall(msg) /\ msg.content # NoContent)
       PROVE  TextOfContents(conv) = OwnSpoken(msg)
  <2>1. GeminiContents(msg) = << >>
    BY <1>11, Zenon DEF GeminiContents
  <2>2. OwnSpoken(msg) = << >>
    BY <1>1, <1>11 DEF OwnSpoken, TextIn, HasText, SystemText
  <2>. QED BY <1>3, <1>4, <1>11, <2>1, <2>2
<1>13. Orphan(msg) => msg.role = "tool"
  BY DEF Orphan
<1>. QED BY <1>2, <1>7, <1>8, <1>9, <1>10, <1>11, <1>12, <1>13

(* A list of any length.                                                   *)
Kept(list) ==
    /\ TextOfContents(GeminiConversation(list)) = SpokenText(list)
    /\ Len(SpokenText(list)) + Len(SystemInstruction(list)) = Len(TextOf(list))

LEMMA ListKept ==
    ASSUME NEW list \in Seq(WireMessage) PROVE Kept(list)
<1>. DEFINE T == {n \in Nat : \A l \in Seq(WireMessage) : Len(l) = n => Kept(l)}
<1>1. 0 \in T
  <2>1. ASSUME NEW l \in Seq(WireMessage), Len(l) = 0 PROVE Kept(l)
    <3>1. l = << >>
      BY <2>1
    <3>2. FlattenSeq(<< >>) = << >> /\ Len(<< >>) = 0
      BY DEF FlattenSeq
    <3>3. /\ GeminiConversation(<< >>) = << >> /\ TextOfContents(<< >>) = << >>
          /\ SpokenText(<< >>) = << >> /\ TextOf(<< >>) = << >>
          /\ SystemInstruction(<< >>) = << >>
      BY <3>2 DEF GeminiConversation, TextOfContents, SpokenText, TextOf, SystemInstruction
    <3>. QED BY <3>1, <3>2, <3>3 DEF Kept
  <2>. QED BY <2>1
<1>2. ASSUME NEW n \in T PROVE n + 1 \in T
  <2>0. n \in Nat
    OBVIOUS
  <2>1. ASSUME NEW l \in Seq(WireMessage), Len(l) = n + 1 PROVE Kept(l)
    <3>. DEFINE front == SubSeq(l, 1, n)
                msg == l[n + 1]
    <3>1. /\ front \in Seq(WireMessage) /\ Len(front) = n /\ msg \in WireMessage
          /\ \A i \in 1 .. n : front[i] = l[i]
      BY <2>0, <2>1
    <3>2. l = front \o << msg >>
      BY <2>0, <2>1
    <3>3. Kept(front)
      BY <3>1
    <3>. HIDE DEF front, msg
    <3>5. /\ TextOfContents(GeminiConversation(<< msg >>)) = OwnSpoken(msg)
          /\ Len(OwnSpoken(msg)) + Len(OwnSystem(msg)) = Len(TextIn(msg))
      BY <3>1, OneMessageKept
    <3>6. /\ TextOf(front) \in Seq(Nat) /\ SpokenText(front) \in Seq(Nat)
          /\ SystemInstruction(front) \in Seq(Nat)
          /\ TextIn(msg) \in Seq(Nat) /\ OwnSpoken(msg) \in Seq(Nat)
          /\ OwnSystem(msg) \in Seq(Nat)
          /\ TextOf(l) = TextOf(front) \o TextIn(msg)
          /\ SpokenText(l) = SpokenText(front) \o OwnSpoken(msg)
          /\ SystemInstruction(l) = SystemInstruction(front) \o OwnSystem(msg)
      BY <3>1, <3>2, TextsAppended
    <3>7. /\ << msg >> \in Seq(WireMessage)
          /\ GeminiConversation(front) \in Seq(GeminiContent)
          /\ GeminiConversation(<< msg >>) \in Seq(GeminiContent)
          /\ GeminiConversation(l) = GeminiConversation(front) \o GeminiConversation(<< msg >>)
      <4>1. << msg >> \in Seq(WireMessage)
        BY <3>1
      <4>. QED BY <3>1, <3>2, <4>1, ConversationConcat
    <3>8. TextOfContents(GeminiConversation(l)) = SpokenText(l)
      BY <3>3, <3>5, <3>6, <3>7, ContentsTextConcat DEF Kept
    <3>9. Len(SpokenText(l)) + Len(SystemInstruction(l)) = Len(TextOf(l))
      <4>1. /\ Len(SpokenText(l)) = Len(SpokenText(front)) + Len(OwnSpoken(msg))
            /\ Len(SystemInstruction(l)) = Len(SystemInstruction(front)) + Len(OwnSystem(msg))
            /\ Len(TextOf(l)) = Len(TextOf(front)) + Len(TextIn(msg))
        BY <3>6, ConcatProperties
      <4>2. /\ Len(SpokenText(front)) \in Nat /\ Len(OwnSpoken(msg)) \in Nat
            /\ Len(SystemInstruction(front)) \in Nat /\ Len(OwnSystem(msg)) \in Nat
            /\ Len(TextOf(front)) \in Nat /\ Len(TextIn(msg)) \in Nat
        BY <3>6
      <4>3. Len(SpokenText(front)) + Len(SystemInstruction(front)) = Len(TextOf(front))
        BY <3>3 DEF Kept
      <4>. DEFINE a == Len(SpokenText(front))
                  b == Len(OwnSpoken(msg))
                  c == Len(SystemInstruction(front))
                  d == Len(OwnSystem(msg))
                  e == Len(TextOf(front))
                  f == Len(TextIn(msg))
      <4>4. a \in Nat /\ b \in Nat /\ c \in Nat /\ d \in Nat /\ a + c = e /\ b + d = f
        BY <3>5, <4>2, <4>3, Zenon
      <4>5. Len(SpokenText(l)) = a + b /\ Len(SystemInstruction(l)) = c + d
            /\ Len(TextOf(l)) = e + f
        BY <4>1, Zenon
      <4>. HIDE DEF a, b, c, d, e, f
      <4>6. (a + b) + (c + d) = (a + c) + (b + d)
        BY <4>4
      <4>. QED BY <4>4, <4>5, <4>6, Zenon
    <3>. QED BY <3>8, <3>9 DEF Kept
  <2>. QED BY <2>0, <2>1
<1>3. T = Nat
  <2>. HIDE DEF T
  <2>1. T \in SUBSET Nat
    BY DEF T
  <2>. QED BY <1>1, <1>2, <2>1, Induction
<1>4. Len(list) \in Nat /\ Len(list) \in T
  <2>. HIDE DEF T
  <2>. QED BY <1>3
<1>. QED BY <1>4

(* ContentKept: what goes to Gemini holds every text of the list, in       *)
(* order: the contents those that were spoken, the instruction the others. *)
THEOREM NothingIsLostOnTheWay == Spec => []ContentKept
<1>1. ASSUME AdapterInv, LoopGoesOn, NEW prompt \in Prompts PROVE Kept(FollowUp(prompt))
  <2>1. /\ prompt \in Seq(WireMessage) /\ << Asking >> \in Seq(WireMessage)
        /\ Results \in Seq(WireMessage) /\ Len(Results) = Len(session_tool_calls)
        /\ FollowUp(prompt) = (prompt \o << Asking >>) \o Results
    BY <1>1, FollowUpParts
  <2>2. FollowUp(prompt) \in Seq(WireMessage)
    BY <2>1
  <2>. QED BY <2>2, ListKept
<1>2. AdapterInv => ContentKept
  BY <1>1 DEF ContentKept, Kept
<1>. QED BY Invariant, <1>2, PTL
=============================================================================
