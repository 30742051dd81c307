------------------------------- MODULE SeqLemmas -------------------------------
(***************************************************************************)
(* Facts about naturals, extrema and subsequences that the proofs of the   *)
(* components share.  The provers take no induction theorem with an        *)
(* operator as parameter, so induction is done over sets: a set that holds *)
(* 0 and is closed under successor holds every natural number, which       *)
(* follows from the well-foundedness of < on Nat.                          *)
(***************************************************************************)
EXTENDS Subsequences, SequencesExt, SequenceTheorems, FiniteSetTheorems, WellFoundedInduction, TLAPS

(* Induction over Nat, with a set for the predicate.                         *)
LEMMA NatSetInduction ==
    ASSUME NEW T, 0 \in T, \A n \in Nat : n \in T => n + 1 \in T
    PROVE  Nat \subseteq T
<1>1. IsWellFoundedOn(OpToRel(<, Nat), Nat)
  BY NatLessThanWellFounded, Zenon
<1>2. CASE Nat \ T # {}
  <2>1. PICK x \in Nat \ T : \A y \in Nat \ T : ~(<<y, x>> \in OpToRel(<, Nat))
    <3>1. Nat \ T \subseteq Nat
      OBVIOUS
    <3> QED
    BY <1>1, <1>2, <3>1, WFMin, Zenon
  <2>2. \A y \in Nat \ T : ~ (y < x)
    BY <2>1 DEF OpToRel
  <2>3. x - 1 \in Nat /\ x-1 \in T
    BY <2>2
  <2> QED BY <2>3
<1> QED BY <1>2

(* The recursive function behind Kept exists: it satisfies its equation.      *)
LEMMA KeptExists ==
    ASSUME NEW S, NEW s \in Seq(S), NEW T
    PROVE  KeptUpTo(s, T) = [i \in 0..Len(s) |->
              IF i = 0 THEN <<>>
              ELSE IF s[i] \in T THEN Append(KeptUpTo(s, T)[i - 1], s[i])
                   ELSE KeptUpTo(s, T)[i - 1]]
<1> DEFINE Eq(f, n) == f = [i \in 0..n |->
              IF i = 0 THEN <<>>
              ELSE IF s[i] \in T THEN Append(f[i - 1], s[i]) ELSE f[i - 1]]
<1> DEFINE Q == {n \in Nat : n <= Len(s) => \E f : Eq(f, n)}
<1>1. 0 \in Q
  <2>1. Eq([i \in 0..0 |-> <<>>], 0)
    OBVIOUS
  <2> QED BY <2>1
<1>2. ASSUME NEW n \in Nat, n \in Q PROVE n + 1 \in Q
  <2>1. SUFFICES ASSUME n + 1 <= Len(s) PROVE \E f : Eq(f, n + 1)
    OBVIOUS
  <2>2. PICK f : Eq(f, n)
    <3> HIDE DEF Eq
    <3>1. n <= Len(s)
      BY <2>1
    <3> QED BY <1>2, <3>1
  <2> DEFINE g == [i \in 0..(n + 1) |-> IF i <= n THEN f[i]
                     ELSE IF s[i] \in T THEN Append(f[i - 1], s[i]) ELSE f[i - 1]]
  <2>3. \A i \in 0..(n+1) : g[i] = IF i = 0 THEN <<>>
              ELSE IF s[i] \in T THEN Append(g[i - 1], s[i]) ELSE g[i - 1]
    <3> SUFFICES ASSUME NEW i \in 0..(n+1) PROVE g[i] = IF i = 0 THEN <<>>
              ELSE IF s[i] \in T THEN Append(g[i - 1], s[i]) ELSE g[i - 1]
      OBVIOUS
    <3>1. CASE i = 0
      BY <2>2, <3>1
    <3>2. CASE i \in 1..n
      <4>1. i \in 0..n /\ i - 1 \in 0..n /\ i # 0 /\ i - 1 \in 0..(n+1)
        BY <3>2
      <4>2. g[i] = f[i] /\ g[i - 1] = f[i - 1]
        BY <4>1
      <4>3. f[i] = IF s[i] \in T THEN Append(f[i - 1], s[i]) ELSE f[i - 1]
        BY <2>2, <4>1
      <4> HIDE DEF g
      <4> QED BY <4>1, <4>2, <4>3
    <3>3. CASE i = n + 1
      BY <3>3
    <3> QED BY <3>1, <3>2, <3>3
  <2>4. Eq(g, n + 1)
    BY <2>3
  <2> QED BY <2>4
<1>3. Len(s) \in Q
  <2> HIDE DEF Q
  <2> QED BY <1>1, <1>2, NatSetInduction
<1>4. \E f : Eq(f, Len(s))
  BY <1>3
<1> QED
  BY <1>4 DEF KeptUpTo
(* e lists, in increasing order, the places of s whose element is in T, and   *)
(* t is s at those places.                                                   *)
Enumerates(e, t, s, T) ==
    /\ e \in [1..Len(t) -> 1..Len(s)]
    /\ \A j, k \in 1..Len(t) : j < k => e[j] < e[k]
    /\ \A k \in 1..Len(t) : t[k] = s[e[k]] /\ s[e[k]] \in T
    /\ \A i \in 1..Len(s) : s[i] \in T => \E k \in 1..Len(t) : e[k] = i

(* Kept(s, T) is s at the places whose element is in T.                       *)
LEMMA KeptFacts ==
    ASSUME NEW S, NEW s \in Seq(S), NEW T
    PROVE  /\ Kept(s, T) \in Seq(S)
           /\ \E e : Enumerates(e, Kept(s, T), s, T)
<1> DEFINE f == KeptUpTo(s, T)
<1> DEFINE Enum(t, n, e) ==
                 /\ \A j, k \in 1..Len(t) : j < k => e[j] < e[k]
                 /\ \A k \in 1..Len(t) : t[k] = s[e[k]] /\ s[e[k]] \in T
                 /\ \A i \in 1..n : s[i] \in T => \E k \in 1..Len(t) : e[k] = i
<1> DEFINE Good(t, n) == t \in Seq(S) /\ \E e \in [1..Len(t) -> 1..n] : Enum(t, n, e)
<1> DEFINE Q == {n \in Nat : n <= Len(s) => Good(f[n], n)}
<1>0. Len(s) \in Nat
  OBVIOUS
<1>a. /\ f[0] = <<>>
      /\ \A i \in 1..Len(s) : f[i] = IF s[i] \in T THEN Append(f[i - 1], s[i]) ELSE f[i - 1]
  <2>1. \A i \in 0..Len(s) : f[i] = IF i = 0 THEN <<>>
              ELSE IF s[i] \in T THEN Append(f[i - 1], s[i]) ELSE f[i - 1]
    <3>1. f = [i \in 0..Len(s) |->
              IF i = 0 THEN <<>>
              ELSE IF s[i] \in T THEN Append(f[i - 1], s[i]) ELSE f[i - 1]]
      BY KeptExists
    <3> HIDE DEF f
    <3> QED BY <3>1
  <2> HIDE DEF f
  <2> QED BY <1>0, <2>1
<1> HIDE DEF f
<1>1. 0 \in Q
  <2>1. f[0] \in Seq(S) /\ Len(f[0]) = 0
    BY <1>a
  <2>2. Enum(f[0], 0, [k \in 1..Len(f[0]) |-> k])
    BY <2>1
  <2>3. [k \in 1..Len(f[0]) |-> k] \in [1..Len(f[0]) -> 1..0]
    BY <2>1
  <2> QED BY <2>1, <2>2, <2>3
<1>2. ASSUME NEW n \in Nat, n \in Q PROVE n + 1 \in Q
  <2> HIDE DEF Good
  <2> SUFFICES ASSUME n + 1 <= Len(s) PROVE Good(f[n + 1], n + 1)
    OBVIOUS
  <2>1. Good(f[n], n)
    BY <1>0, <1>2
  <2> USE DEF Good
  <2>2. PICK e \in [1..Len(f[n]) -> 1..n] : Enum(f[n], n, e)
    BY <2>1
  <2>3. f[n] \in Seq(S) /\ Len(f[n]) \in Nat
    BY <2>1
  <2>4. n + 1 \in 1..Len(s) /\ s[n + 1] \in S
    BY <1>0
  <2>5. f[n + 1] = IF s[n + 1] \in T THEN Append(f[n], s[n + 1]) ELSE f[n]
    BY <1>a, <2>4
  <2>6. CASE s[n + 1] \in T
    <3> DEFINE t == f[n]
    <3> DEFINE u == Append(t, s[n + 1])
    <3> DEFINE g == [k \in 1..(Len(t) + 1) |-> IF k <= Len(t) THEN e[k] ELSE n + 1]
    <3>1. u \in Seq(S) /\ Len(u) = Len(t) + 1
      BY <2>3, <2>4
    <3>2. /\ \A k \in 1..Len(t) : u[k] = t[k]
          /\ u[Len(t) + 1] = s[n + 1]
      BY <2>3, <2>4
    <3>3. g \in [1..(Len(t) + 1) -> 1..(n + 1)]
      BY <2>3
    <3>4. \A k \in 1..Len(t) : g[k] = e[k] /\ e[k] \in 1..n
      <4>1. e \in [1..Len(t) -> 1..n] /\ Len(t) \in Nat
        BY <2>3
      <4> HIDE DEF t
      <4> QED BY <4>1
    <3>5. g[Len(t) + 1] = n + 1
      BY <2>3
    <3> HIDE DEF g, u, t
    <3>6. ASSUME NEW j \in 1..(Len(t) + 1), NEW k \in 1..(Len(t) + 1), j < k
          PROVE  g[j] < g[k]
      <4>1. CASE k <= Len(t)
        <5>1. Len(t) \in Nat /\ (\A x, y \in 1..Len(t) : x < y => e[x] < e[y])
          BY <2>2, <2>3 DEF t
        <5>2. j \in 1..Len(t) /\ k \in 1..Len(t)
          BY <3>6, <4>1, <5>1
        <5> QED BY <3>4, <3>6, <5>1, <5>2
      <4>2. CASE k = Len(t) + 1
        BY <2>3, <3>4, <3>5, <3>6, <4>2 DEF t
      <4> QED BY <2>3, <4>1, <4>2 DEF t
    <3>7. ASSUME NEW k \in 1..(Len(t) + 1)
          PROVE  u[k] = s[g[k]] /\ s[g[k]] \in T
      <4>1. CASE k \in 1..Len(t)
        BY <2>2, <3>2, <3>4, <4>1 DEF t
      <4>2. CASE k = Len(t) + 1
        BY <2>6, <3>2, <3>5, <4>2
      <4> QED BY <2>3, <4>1, <4>2 DEF t
    <3>8. ASSUME NEW i \in 1..(n + 1), s[i] \in T
          PROVE  \E k \in 1..(Len(t) + 1) : g[k] = i
      <4>1. CASE i \in 1..n
        <5>1. PICK k \in 1..Len(t) : e[k] = i
          BY <2>2, <3>8, <4>1 DEF t
        <5> QED BY <2>3, <3>4, <5>1 DEF t
      <4>2. CASE i = n + 1
        BY <2>3, <3>5, <4>2 DEF t
      <4> QED BY <4>1, <4>2
    <3>9. Enum(u, n + 1, g)
      BY <3>1, <3>6, <3>7, <3>8
    <3>10. f[n + 1] = u
      BY <2>5, <2>6 DEF u, t
    <3> HIDE DEF Enum
    <3> QED BY <3>1, <3>3, <3>9, <3>10
  <2>7. CASE s[n + 1] \notin T
    <3>1. f[n + 1] = f[n]
      BY <2>5, <2>7
    <3>2. e \in [1..Len(f[n]) -> 1..(n + 1)]
      BY <2>3
    <3>3. ASSUME NEW i \in 1..(n + 1), s[i] \in T PROVE i \in 1..n
      BY <2>7, <3>3
    <3>4. Enum(f[n], n + 1, e)
      BY <2>2, <3>3
    <3> QED BY <2>3, <3>1, <3>2, <3>4
  <2> QED BY <2>6, <2>7
<1>3. Len(s) \in Q
  <2> HIDE DEF Q
  <2> QED BY <1>0, <1>1, <1>2, NatSetInduction
<1>4. Good(f[Len(s)], Len(s))
  BY <1>0, <1>3
<1> QED
  BY <1>4 DEF Kept, f, Enumerates

(* A nonempty set of integers with an upper bound has a maximum, and Max is it. *)
LEMMA MaxFacts ==
    ASSUME NEW I \in SUBSET Int, NEW n \in Int, \A i \in I : i <= n, I # {}
    PROVE  Max(I) \in I /\ \A i \in I : i <= Max(I)
<1> DEFINE D == {n - i : i \in I}
<1>1. D \subseteq Nat /\ D # {}
  OBVIOUS
<1>2. PICK x \in D : \A y \in D : ~(<<y, x>> \in OpToRel(<, Nat))
  BY <1>1, NatLessThanWellFounded, WFMin, Zenon
<1>3. \A y \in D : ~(y < x)
  BY <1>1, <1>2 DEF OpToRel
<1>4. PICK m \in I : x = n - m
  BY <1>2
<1>5. \A i \in I : i <= m
  <2> SUFFICES ASSUME NEW i \in I PROVE i <= m
    OBVIOUS
  <2>1. ~(n - i < n - m)
    BY <1>3, <1>4
  <2> QED BY <2>1
<1>6. \E k \in I : \A j \in I : k >= j
  BY <1>5
<1> QED
  BY <1>6 DEF Max

(* A nonempty set of integers with a lower bound has a minimum, and Min is it. *)
LEMMA MinFacts ==
    ASSUME NEW I \in SUBSET Int, NEW n \in Int, \A i \in I : n <= i, I # {}
    PROVE  Min(I) \in I /\ \A i \in I : Min(I) <= i
<1> DEFINE D == {i - n : i \in I}
<1>1. D \subseteq Nat /\ D # {}
  <2>1. \A i \in I : i - n \in Nat
    OBVIOUS
  <2> QED
    BY <2>1
<1>2. PICK x \in D : \A y \in D : ~(<<y, x>> \in OpToRel(<, Nat))
  BY <1>1, NatLessThanWellFounded, WFMin, Zenon
<1>3. \A y \in D : ~(y < x)
  BY <1>1, <1>2 DEF OpToRel
<1>4. PICK m \in I : x = m - n
  BY <1>2
<1>5. \A i \in I : m <= i
  <2> SUFFICES ASSUME NEW i \in I PROVE m <= i
    OBVIOUS
  <2>1. ~(i - n < m - n)
    BY <1>3, <1>4
  <2> QED
    BY <2>1
<1>6. \E k \in I : \A j \in I : k =< j
  BY <1>5
<1> QED
  BY <1>6 DEF Min

(* An interval from 1 has as many elements as its bound says.                *)
LEMMA IntervalCardinality ==
    ASSUME NEW n \in Nat
    PROVE  IsFiniteSet(1..n) /\ Cardinality(1..n) = n
<1>1. IsFiniteSet(1..n) /\ Cardinality(1..n) = IF 1 > n THEN 0 ELSE n - 1 + 1
  BY FS_Interval
<1> QED
  BY <1>1

(* An element is kept only if it was there.                                  *)
LEMMA KeptSubset ==
    ASSUME NEW S, NEW q \in Seq(S), NEW T
    PROVE  /\ Kept(q, T) \in Seq(S) /\ Len(Kept(q, T)) <= Len(q)
           /\ ToSet(Kept(q, T)) \subseteq ToSet(q)
<1>0. PICK e : Enumerates(e, Kept(q, T), q, T)
  BY KeptFacts
<1>1. /\ e \in [1..Len(Kept(q, T)) -> 1..Len(q)]
      /\ \A j, k \in 1..Len(Kept(q, T)) : j < k => e[j] < e[k]
      /\ \A k \in 1..Len(Kept(q, T)) : Kept(q, T)[k] = q[e[k]]
  BY <1>0 DEF Enumerates
<1>2. Kept(q, T) \in Seq(S)
  BY KeptFacts
<1>3. DOMAIN q = 1..Len(q) /\ DOMAIN Kept(q, T) = 1..Len(Kept(q, T))
      /\ Len(q) \in Nat /\ Len(Kept(q, T)) \in Nat
  BY <1>2
<1>4. ToSet(Kept(q, T)) \subseteq ToSet(q)
  BY <1>1, <1>3 DEF ToSet
<1>5. e \in Injection(1..Len(Kept(q, T)), 1..Len(q))
  <2>1. \A a, b \in 1..Len(Kept(q, T)) : e[a] = e[b] => a = b
    BY <1>1, <1>3
  <2> QED
    BY <1>1, <2>1 DEF Injection, IsInjective
<1>6. IsFiniteSet(1..Len(q)) /\ Cardinality(1..Len(q)) = Len(q)
      /\ Cardinality(1..Len(Kept(q, T))) = Len(Kept(q, T))
  BY <1>3, IntervalCardinality
<1>7. Len(Kept(q, T)) <= Len(q)
  BY <1>5, <1>6, FS_Injection
<1> QED
  BY <1>2, <1>4, <1>7
(* The sequences of SetToSeqs list every element of the set.                 *)
LEMMA SetToSeqsFacts ==
    ASSUME NEW S, IsFiniteSet(S), NEW f \in SetToSeqs(S)
    PROVE  f \in Seq(S) /\ ToSet(f) = S
<1> DEFINE D == 1..Cardinality(S)
<1>1. Cardinality(S) \in Nat
  BY FS_CardinalityType
<1>2. f \in [D -> S] /\ \A i, j \in D : i # j => f[i] # f[j]
  BY DEF SetToSeqs
<1>3. f \in Injection(D, S)
  BY <1>2 DEF Injection, IsInjective
<1>4. IsFiniteSet(D) /\ Cardinality(D) = Cardinality(S)
  BY <1>1, FS_Interval
<1>5. f \in Surjection(D, S)
  BY <1>3, <1>4, FS_Injection
<1>6. \A x \in S : \E i \in D : f[i] = x
  BY <1>5 DEF Surjection
<1>7. DOMAIN f = D
  BY <1>2
<1> HIDE DEF D
<1>8. ToSet(f) = S
  BY <1>2, <1>6, <1>7 DEF ToSet
<1>9. f \in Seq(S)
  BY <1>1, <1>2 DEF D
<1> QED
  BY <1>8, <1>9

(* What is left of a sequence without its first k elements.                  *)
LEMMA SuffixFacts ==
    ASSUME NEW S, NEW s \in Seq(S), NEW k \in 0..Len(s)
    PROVE  LET t == SubSeq(s, k + 1, Len(s))
           IN  /\ t \in Seq(S) /\ Len(t) = Len(s) - k
               /\ \A i \in 1..Len(t) : t[i] = s[k + i]
               /\ ToSet(t) \subseteq ToSet(s)
<1> DEFINE t == SubSeq(s, k + 1, Len(s))
<1>1. Len(s) \in Nat /\ k \in Nat /\ k <= Len(s) /\ DOMAIN s = 1..Len(s)
  OBVIOUS
<1>2. \A i \in (k + 1)..Len(s) : s[i] \in S
  BY <1>1
<1>3. /\ t \in Seq(S)
      /\ Len(t) = IF k + 1 <= Len(s) THEN Len(s) - (k + 1) + 1 ELSE 0
      /\ \A i \in 1..(Len(s) - (k + 1) + 1) : t[i] = s[(k + 1) + i - 1]
  BY <1>1, <1>2, SubSeqProperties
<1> HIDE DEF t
<1> DEFINE n == Len(s)
<1>a. n \in Nat /\ k \in Nat /\ k <= n
  BY <1>1
<1>b. Len(t) = (IF k + 1 <= n THEN n - (k + 1) + 1 ELSE 0)
      /\ \A i \in 1..(n - (k + 1) + 1) : t[i] = s[(k + 1) + i - 1]
  BY <1>3
<1>c. DOMAIN s = 1..n
  BY <1>1
<1> HIDE DEF n
<1>4. Len(t) = n - k
  BY <1>a, <1>b
<1>5. ASSUME NEW i \in 1..Len(t) PROVE t[i] = s[k + i] /\ k + i \in DOMAIN s
  <2>1. i \in Nat /\ 1 <= i /\ i <= n - k
    BY <1>4
  <2>2. i \in 1..(n - (k + 1) + 1) /\ (k + 1) + i - 1 = k + i /\ k + i \in 1..n
    BY <1>a, <2>1
  <2> QED
    BY <1>b, <1>c, <2>2
<1>6. DOMAIN t = 1..Len(t)
  BY <1>3
<1>7. ToSet(t) \subseteq ToSet(s)
  BY <1>5, <1>6 DEF ToSet
<1> QED
  BY <1>3, <1>4, <1>5, <1>7 DEF t, n

(* Taking the first element of a sequence.                                   *)
LEMMA HeadTailFacts ==
    ASSUME NEW S, NEW s \in Seq(S), s # <<>>
    PROVE  /\ Head(s) \in S /\ Tail(s) \in Seq(S) /\ Len(Tail(s)) = Len(s) - 1
           /\ Len(s) \in Nat \ {0} /\ \A i \in 1..(Len(s) - 1) : Tail(s)[i] = s[i + 1]
           /\ ToSet(s) = {Head(s)} \cup ToSet(Tail(s))
<1>1. /\ Head(s) \in S /\ Tail(s) \in Seq(S) /\ Len(Tail(s)) = Len(s) - 1
      /\ Len(s) \in Nat \ {0} /\ \A i \in 1..(Len(s) - 1) : Tail(s)[i] = s[i + 1]
      /\ Head(s) = s[1]
  OBVIOUS
<1>2. DOMAIN s = 1..Len(s) /\ DOMAIN Tail(s) = 1..(Len(s) - 1)
  BY <1>1
<1>3. ASSUME NEW i \in 1..Len(s) PROVE s[i] \in {Head(s)} \cup ToSet(Tail(s))
  <2>1. CASE i = 1
    BY <1>1, <2>1
  <2>2. CASE i # 1
    <3>1. i - 1 \in 1..(Len(s) - 1) /\ Tail(s)[i - 1] = s[i]
      BY <1>1, <2>2
    <3> QED
      BY <1>2, <3>1 DEF ToSet
  <2> QED
    BY <2>1, <2>2
<1>4. ASSUME NEW i \in 1..(Len(s) - 1) PROVE Tail(s)[i] \in ToSet(s)
  <2>1. i + 1 \in 1..Len(s) /\ Tail(s)[i] = s[i + 1]
    BY <1>1
  <2> QED
    BY <1>2, <2>1 DEF ToSet
<1>5. Head(s) \in ToSet(s)
  <2>1. 1 \in DOMAIN s
    BY <1>1, <1>2
  <2> QED
    BY <1>1, <2>1 DEF ToSet
<1>6. ToSet(s) = {s[i] : i \in 1..Len(s)}
      /\ ToSet(Tail(s)) = {Tail(s)[i] : i \in 1..(Len(s) - 1)}
  BY <1>2 DEF ToSet
<1>7. ToSet(s) \subseteq {Head(s)} \cup ToSet(Tail(s))
  BY <1>3, <1>6
<1>8. ToSet(Tail(s)) \subseteq ToSet(s)
  BY <1>4, <1>6
<1> QED
  BY <1>1, <1>5, <1>7, <1>8

(* Adding an element at the end of a sequence.                               *)
LEMMA AppendFacts ==
    ASSUME NEW S, NEW s \in Seq(S), NEW x \in S
    PROVE  /\ Append(s, x) \in Seq(S) /\ Len(Append(s, x)) = Len(s) + 1 /\ Len(s) \in Nat
           /\ \A i \in 1..Len(s) : Append(s, x)[i] = s[i]
           /\ Append(s, x)[Len(s) + 1] = x
           /\ ToSet(Append(s, x)) = ToSet(s) \cup {x}
<1> DEFINE t == Append(s, x)
<1>1. /\ t \in Seq(S) /\ Len(t) = Len(s) + 1 /\ Len(s) \in Nat
      /\ \A i \in 1..Len(s) : t[i] = s[i]
      /\ t[Len(s) + 1] = x
  OBVIOUS
<1> HIDE DEF t
<1>2. DOMAIN s = 1..Len(s) /\ DOMAIN t = 1..(Len(s) + 1)
  BY <1>1
<1>3. ToSet(s) = {s[i] : i \in 1..Len(s)} /\ ToSet(t) = {t[i] : i \in 1..(Len(s) + 1)}
  BY <1>2 DEF ToSet
<1>4. \A i \in 1..(Len(s) + 1) : t[i] \in ToSet(s) \cup {x}
  <2> TAKE i \in 1..(Len(s) + 1)
  <2>1. CASE i = Len(s) + 1
    BY <1>1, <2>1
  <2>2. CASE i # Len(s) + 1
    <3>1. i \in 1..Len(s)
      BY <1>1, <2>2
    <3> QED
      BY <1>1, <1>3, <3>1
  <2> QED
    BY <2>1, <2>2
<1>5. \A i \in 1..Len(s) : i \in 1..(Len(s) + 1) /\ s[i] = t[i]
  BY <1>1
<1>6. x \in ToSet(t)
  <2>1. Len(s) + 1 \in 1..(Len(s) + 1)
    BY <1>1
  <2> QED
    BY <1>1, <1>3, <2>1
<1>7. ToSet(t) \subseteq ToSet(s) \cup {x}
  BY <1>3, <1>4
<1>8. ToSet(s) \subseteq ToSet(t)
  BY <1>3, <1>5
<1> QED
  BY <1>1, <1>6, <1>7, <1>8 DEF t

(* Two pieces make a sequence.                                               *)
LEMMA ConcatIs ==
    ASSUME NEW S, NEW s \in Seq(S), NEW t \in Seq(S), NEW w \in Seq(S),
           Len(w) = Len(s) + Len(t),
           \A i \in 1..Len(s) : w[i] = s[i],
           \A i \in 1..Len(t) : w[Len(s) + i] = t[i]
    PROVE  s \o t = w
<1>1. /\ s \o t \in Seq(S) /\ Len(s) \in Nat /\ Len(t) \in Nat /\ Len(s \o t) = Len(s) + Len(t)
      /\ \A i \in 1..Len(s) : (s \o t)[i] = s[i]
      /\ \A i \in 1..Len(t) : (s \o t)[Len(s) + i] = t[i]
  OBVIOUS
<1> DEFINE u == s \o t
<1> HIDE DEF u
<1>2. /\ u \in Seq(S) /\ Len(u) = Len(w)
      /\ \A i \in 1..Len(s) : u[i] = w[i]
      /\ \A i \in 1..Len(t) : u[Len(s) + i] = w[Len(s) + i]
  BY <1>1 DEF u
<1>3. ASSUME NEW i \in 1..Len(u) PROVE u[i] = w[i]
  <2>1. i \in 1..Len(s) \/ (i - Len(s) \in 1..Len(t) /\ Len(s) + (i - Len(s)) = i)
    BY <1>1, <1>2
  <2> QED
    BY <1>2, <2>1
<1> QED
  BY <1>2, <1>3 DEF u

(* The elements of two sequences, one after the other.                       *)
LEMMA ConcatRange ==
    ASSUME NEW S, NEW s \in Seq(S), NEW t \in Seq(S)
    PROVE  s \o t \in Seq(S) /\ Range(s \o t) = Range(s) \cup Range(t)
<1> DEFINE u == s \o t
<1>1. /\ u \in Seq(S) /\ Len(s) \in Nat /\ Len(t) \in Nat /\ Len(u) = Len(s) + Len(t)
      /\ \A i \in 1..Len(s) : u[i] = s[i]
      /\ \A i \in 1..Len(t) : u[Len(s) + i] = t[i]
  OBVIOUS
<1> HIDE DEF u
<1>2. DOMAIN s = 1..Len(s) /\ DOMAIN t = 1..Len(t) /\ DOMAIN u = 1..(Len(s) + Len(t))
  BY <1>1
<1>3. \A i \in 1..Len(s) : s[i] \in Range(u)
  <2> TAKE i \in 1..Len(s)
  <2>1. i \in DOMAIN u /\ u[i] = s[i]
    BY <1>1, <1>2
  <2> QED
    BY <2>1 DEF Range
<1>4. \A i \in 1..Len(t) : t[i] \in Range(u)
  <2> TAKE i \in 1..Len(t)
  <2>1. Len(s) + i \in DOMAIN u /\ u[Len(s) + i] = t[i]
    BY <1>1, <1>2
  <2> QED
    BY <2>1 DEF Range
<1>5. \A i \in DOMAIN u : u[i] \in Range(s) \cup Range(t)
  <2> TAKE i \in DOMAIN u
  <2>1. CASE i \in 1..Len(s)
    BY <1>1, <1>2, <2>1 DEF Range
  <2>2. CASE i \notin 1..Len(s)
    <3>1. i - Len(s) \in 1..Len(t) /\ Len(s) + (i - Len(s)) = i
      BY <1>1, <1>2, <2>2
    <3>2. u[i] = t[i - Len(s)]
      BY <1>1, <3>1
    <3> QED
      BY <1>2, <3>1, <3>2 DEF Range
  <2> QED
    BY <2>1, <2>2
<1>6. Range(s) \subseteq Range(u) /\ Range(t) \subseteq Range(u)
  BY <1>2, <1>3, <1>4 DEF Range
<1>7. Range(u) \subseteq Range(s) \cup Range(t)
  BY <1>5 DEF Range
<1> QED
  BY <1>1, <1>6, <1>7 DEF u

(* How many of a set of places remain when the first place is dropped.       *)
LEMMA ShiftCardinality ==
    ASSUME NEW n \in Nat, NEW I \in SUBSET (1..n)
    PROVE  LET J == {i \in 1..(n - 1) : i + 1 \in I}
           IN  /\ IsFiniteSet(I) /\ IsFiniteSet(J) /\ Cardinality(I) \in Nat
               /\ Cardinality(J) = Cardinality(I) - (IF 1 \in I THEN 1 ELSE 0)
<1> DEFINE J == {i \in 1..(n - 1) : i + 1 \in I}
           K == I \ {1}
<1>1. IsFiniteSet(I) /\ Cardinality(I) \in Nat
  BY IntervalCardinality, FS_Subset, FS_CardinalityType
<1>2. IsFiniteSet(K) /\ Cardinality(K) = Cardinality(I) - (IF 1 \in I THEN 1 ELSE 0)
  BY <1>1, FS_RemoveElement
<1> DEFINE f == [k \in K |-> k - 1]
<1>3. f \in Bijection(K, J)
  <2>1. f \in [K -> J]
    OBVIOUS
  <2>2. \A a, b \in K : f[a] = f[b] => a = b
    OBVIOUS
  <2>3. \A j \in J : \E k \in K : f[k] = j
    <3> TAKE j \in J
    <3>1. j + 1 \in K /\ f[j + 1] = j
      OBVIOUS
    <3> QED
      BY <3>1
  <2> QED
    <3> HIDE DEF f, J, K
    <3> QED
      BY <2>1, <2>2, <2>3 DEF Bijection, Injection, Surjection, IsInjective
<1>4. ExistsBijection(K, J)
  BY <1>3 DEF ExistsBijection
<1> HIDE DEF J, K
<1>5. IsFiniteSet(J) /\ Cardinality(J) = Cardinality(K)
  BY <1>2, <1>4, FS_Bijection
<1> QED
  BY <1>1, <1>2, <1>5 DEF J

(* Replacing one element.                                                    *)
LEMMA ReplaceFacts ==
    ASSUME NEW S, NEW s \in Seq(S), NEW i \in 1..Len(s), NEW x \in S
    PROVE  LET t == [s EXCEPT ![i] = x]
           IN  /\ t \in Seq(S) /\ Len(t) = Len(s)
               /\ \A j \in 1..Len(s) : t[j] = IF j = i THEN x ELSE s[j]
  OBVIOUS

-----------------------------------------------------------------------------
(* Arithmetic.                                                               *)

(* Multiplication by a natural number.                                       *)
LEMMA MulFacts ==
    ASSUME NEW x \in Int, NEW y \in Int, NEW c \in Nat
    PROVE  /\ x * c \in Int /\ (x + 1) * c = x * c + c /\ (x + y) * c = x * c + y * c
           /\ (x - 1) * c = x * c - c
           /\ x <= y => x * c <= y * c
           /\ x >= 0 => x * c >= 0
  OBVIOUS

(* Division with a positive divisor.                                         *)
LEMMA DivFacts ==
    ASSUME NEW a \in Int, NEW b \in Nat \ {0}
    PROVE  /\ a \div b \in Int /\ a % b \in 0..(b - 1)
           /\ a = (a \div b) * b + (a % b)
           /\ (a \div b) * b <= a /\ a < (a \div b) * b + b
<1>1. a \div b \in Int /\ a % b \in 0..(b - 1)
  OBVIOUS
<1>2. a = (a \div b) * b + (a % b)
  OBVIOUS
<1> QED
  BY <1>1, <1>2

(* A quotient is at least q when the dividend is at least q times the        *)
(* divisor, and less than q when it is less.                                 *)
LEMMA DivBounds ==
    ASSUME NEW a \in Int, NEW b \in Nat \ {0}, NEW q \in Int
    PROVE  /\ q * b <= a => q <= a \div b
           /\ a < q * b => a \div b < q
<1> DEFINE d == a \div b
<1>1. d \in Int /\ d * b <= a /\ a < d * b + b
  BY DivFacts
<1> HIDE DEF d
<1>2. ASSUME q * b <= a, d < q PROVE FALSE
  <2>1. (d + 1) * b <= q * b
    <3>1. d + 1 <= q /\ d + 1 \in Int /\ b \in Nat
      BY <1>1, <1>2
    <3> QED
      BY <3>1, MulFacts
  <2>2. (d + 1) * b = d * b + b
    BY <1>1, MulFacts
  <2>3. d * b \in Int /\ q * b \in Int
    BY <1>1, MulFacts
  <2> QED
    BY <1>1, <1>2, <2>1, <2>2, <2>3
<1>3. ASSUME a < q * b, q <= d PROVE FALSE
  <2>1. q * b <= d * b
    BY <1>1, <1>3, MulFacts
  <2>3. d * b \in Int /\ q * b \in Int
    BY <1>1, MulFacts
  <2> QED
    BY <1>1, <1>3, <2>1, <2>3
<1> QED
  BY <1>1, <1>2, <1>3 DEF d

(* Division is unique.                                                       *)
LEMMA DivUnique ==
    ASSUME NEW a \in Int, NEW b \in Nat \ {0}, NEW q \in Int, NEW m \in 0..(b - 1), a = q * b + m
    PROVE  a \div b = q /\ a % b = m
<1> DEFINE x == q * b
           y == (q + 1) * b
           d == a \div b
           e == d * b
<1>1. x \in Int /\ y = x + b
  BY MulFacts
<1>2. d \in Int /\ a % b \in 0..(b - 1) /\ a = e + (a % b)
  BY DivFacts
<1>3. d = q
  <2>1. (x <= a => q <= d) /\ (a < y => d < q + 1)
    BY DivBounds
  <2>2. a = x + m
    OBVIOUS
  <2> HIDE DEF x, y, d
  <2>3. x <= a /\ a < y
    BY <1>1, <2>2
  <2> QED
    BY <1>2, <2>1, <2>3
<1>4. e = x /\ a = x + m
  BY <1>3
<1> HIDE DEF x, e
<1>5. a % b = m
  BY <1>1, <1>2, <1>4
<1> QED
  BY <1>3, <1>5

=============================================================================
