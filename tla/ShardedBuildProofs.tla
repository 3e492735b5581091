-------------------------- MODULE ShardedBuildProofs --------------------------
(***************************************************************************)
(* Theorems about ShardedBuild, for any number of points, centroids,       *)
(* threads and chunks, any distances and any shape of the shards.          *)
(***************************************************************************)
EXTENDS ShardedBuild, FiniteSetTheorems, SequenceTheorems, TLAPS

(***************************************************************************)
(* Naturals: every non-empty set has a least element, hence induction.     *)
(***************************************************************************)

\* Every non-empty set of naturals has a least element.
LEMMA LeastNatural == \A T \in SUBSET Nat : T # {} => \E m \in T : \A k \in T : m <= k
PROOF
  <1> SUFFICES ASSUME NEW T \in SUBSET Nat, T # {}
               PROVE  \E m \in T : \A k \in T : m <= k
    OBVIOUS
  <1> DEFINE less == {ss \in Nat \X Nat : ss[1] < ss[2]}
  <1>1. IsWellFoundedOn(less, Nat)
    BY NatLessThanWellFounded DEF OpToRel
  <1>2. \E m \in T : \A k \in T : <<k, m>> \notin less
    <2> HIDE DEF less
    <2>1. QED
      BY <1>1, WFMin
  <1>3. \A k, m \in Nat : <<k, m>> \notin less => m <= k
    OBVIOUS
  <1>4. QED
    <2> HIDE DEF less
    <2>1. QED
      BY <1>2, <1>3

\* A set that holds 0 and is closed under successor up to a bound holds every number below it.
LEMMA Induction ==
  \A bound \in Nat : \A S :
    0 \in S /\ (\A n \in 1 .. bound : n - 1 \in S => n \in S) => 0 .. bound \subseteq S
PROOF
  <1> SUFFICES ASSUME NEW bound \in Nat, NEW S, 0 \in S,
                      \A n \in 1 .. bound : n - 1 \in S => n \in S,
                      NEW x \in 0 .. bound, x \notin S
               PROVE  FALSE
    OBVIOUS
  <1> DEFINE out == (0 .. bound) \ S
  <1>1. out \in SUBSET Nat /\ out # {}
    OBVIOUS
  <1>2. PICK m \in out : \A k \in out : m <= k
    BY <1>1, LeastNatural
  <1>3. m \in 1 .. bound /\ m - 1 \notin S
    BY <1>2
  <1>4. m - 1 \in out /\ m - 1 < m
    BY <1>3
  <1>5. QED
    BY <1>2, <1>4

\* g starts at first and goes on from each value as step says, up to bound.
Recursive(g, first, step, bound) ==
  \A n \in 0 .. bound : g[n] = IF n = 0 THEN first ELSE step[<<n, g[n - 1]>>]

\* A function defined by recursion over 0 .. bound exists.
LEMMA Recursion ==
  ASSUME NEW S, NEW first \in S, NEW bound \in Nat, NEW step \in [(1 .. bound) \X S -> S]
  PROVE  \E g \in [0 .. bound -> S] : Recursive(g, first, step, bound)
PROOF
  <1> DEFINE Follows(g, k) == Recursive(g, first, step, k)
             done == {k \in 0 .. bound : \E g \in [0 .. k -> S] : Follows(g, k)}
  <1>1. 0 \in done
    <2> DEFINE g == [n \in 0 .. 0 |-> first]
    <2>1. g \in [0 .. 0 -> S]
      OBVIOUS
    <2>2. Follows(g, 0)
      BY DEF Recursive
    <2> HIDE DEF g, Follows
    <2>3. QED
      BY <2>1, <2>2
  <1>2. ASSUME NEW n \in 1 .. bound, n - 1 \in done
        PROVE  n \in done
    <2>1. PICK g \in [0 .. n - 1 -> S] : Follows(g, n - 1)
      BY <1>2
    <2> DEFINE h == [m \in 0 .. n |-> IF m = n THEN step[<<n, g[n - 1]>>] ELSE g[m]]
    <2>2. h \in [0 .. n -> S]
      BY <2>1
    <2>h. \A k \in 0 .. n : h[k] = IF k = n THEN step[<<n, g[n - 1]>>] ELSE g[k]
      OBVIOUS
    <2>g. \A k \in 0 .. n - 1 : g[k] = IF k = 0 THEN first ELSE step[<<k, g[k - 1]>>]
      BY <2>1 DEF Recursive
    <2>3. \A m \in 0 .. n : h[m] = IF m = 0 THEN first ELSE step[<<m, h[m - 1]>>]
      <3> SUFFICES ASSUME NEW m \in 0 .. n
                   PROVE  h[m] = IF m = 0 THEN first ELSE step[<<m, h[m - 1]>>]
        OBVIOUS
      <3> HIDE DEF h
      <3>1. CASE m = n
        <4>1. h[m] = step[<<m, g[m - 1]>>] /\ m # 0
          BY <2>h, <3>1
        <4>2. h[m - 1] = g[m - 1]
          BY <2>h, <3>1
        <4>3. QED
          BY <4>1, <4>2
      <3>2. CASE m # n
        <4>1. m \in 0 .. n - 1 /\ h[m] = g[m]
          BY <2>h, <3>2
        <4>2. m # 0 => h[m - 1] = g[m - 1]
          BY <2>h, <3>2
        <4>3. QED
          BY <2>g, <4>1, <4>2
      <3>3. QED
        BY <3>1, <3>2
    <2>4. Follows(h, n)
      BY <2>3 DEF Recursive
    <2> HIDE DEF h, Follows
    <2>5. QED
      BY <2>2, <2>4
  <1> HIDE DEF done
  <1>3. 0 .. bound \subseteq done
    BY <1>1, <1>2, Induction
  <1>4. QED
    BY <1>3 DEF done

-----------------------------------------------------------------------------
(***************************************************************************)
(* Sequences: ascending ones, concatenations, enumerations of sets.        *)
(***************************************************************************)

\* The elements of e grow strictly.
Climbs(e) == \A i, j \in DOMAIN e : i < j => e[i] < e[j]

\* e lists the members of S in ascending order.
Enumerates(e, S) ==
  /\ e \in [1 .. Cardinality(S) -> S]
  /\ \A x \in S : \E i \in 1 .. Cardinality(S) : e[i] = x
  /\ Climbs(e)

\* A set of numbers below a bound is finite.
LEMMA FiniteBelow ==
  \A b \in Nat : \A S \in SUBSET (0 .. b - 1) : IsFiniteSet(S) /\ Cardinality(S) \in Nat
PROOF
  <1> SUFFICES ASSUME NEW b \in Nat, NEW S \in SUBSET (0 .. b - 1)
               PROVE  IsFiniteSet(S) /\ Cardinality(S) \in Nat
    OBVIOUS
  <1>1. 0 \in Int /\ b - 1 \in Int
    OBVIOUS
  <1>2. IsFiniteSet(0 .. b - 1)
    BY <1>1, FS_Interval
  <1>3. IsFiniteSet(S)
    BY <1>2, FS_Subset
  <1>4. QED
    BY <1>3, FS_CardinalityType

\* Numbers that do not fall from one to the next do not fall over any distance.
LEMMA NeverFalls ==
  \A n \in Nat : \A f \in [1 .. n -> Nat] :
    (\A i \in 1 .. n - 1 : f[i] <= f[i + 1]) => \A i, j \in 1 .. n : i <= j => f[i] <= f[j]
PROOF
  <1> SUFFICES ASSUME NEW n \in Nat, NEW f \in [1 .. n -> Nat],
                      \A i \in 1 .. n - 1 : f[i] <= f[i + 1],
                      NEW i \in 1 .. n
               PROVE  \A j \in 1 .. n : i <= j => f[i] <= f[j]
    OBVIOUS
  <1> DEFINE done == {d \in 0 .. n - i : f[i] <= f[i + d]}
  <1>1. 0 \in done
    OBVIOUS
  <1>2. ASSUME NEW d \in 1 .. n - i, d - 1 \in done
        PROVE  d \in done
    <2>1. f[i] <= f[i + (d - 1)] /\ f[i + (d - 1)] <= f[i + (d - 1) + 1]
      BY <1>2
    <2>2. i + (d - 1) + 1 = i + d /\ i + d \in 1 .. n /\ i + (d - 1) \in 1 .. n
      OBVIOUS
    <2>3. QED
      BY <2>1, <2>2
  <1> HIDE DEF done
  <1>3. 0 .. n - i \subseteq done
    <2>1. n - i \in Nat
      OBVIOUS
    <2>2. QED
      BY <2>1, <1>1, <1>2, Induction
  <1>4. QED
    <2> SUFFICES ASSUME NEW j \in 1 .. n, i <= j
                 PROVE  f[i] <= f[j]
      OBVIOUS
    <2>1. j - i \in done
      BY <1>3
    <2>2. QED
      BY <2>1 DEF done

\* Every finite set of naturals can be listed in ascending order.
LEMMA Enumerable == \A b \in Nat : \A S \in SUBSET (0 .. b - 1) : \E e : Enumerates(e, S)
PROOF
  <1> SUFFICES ASSUME NEW b \in Nat
               PROVE  \A S \in SUBSET (0 .. b - 1) : \E e : Enumerates(e, S)
    OBVIOUS
  <1> DEFINE done == {n \in 0 .. b : \A S \in SUBSET (0 .. n - 1) : \E e : Enumerates(e, S)}
  <1>1. 0 \in done
    <2> SUFFICES ASSUME NEW S \in SUBSET (0 .. 0 - 1)
                 PROVE  \E e : Enumerates(e, S)
      OBVIOUS
    <2>0. S = {}
      OBVIOUS
    <2>1. S = {} /\ Cardinality(S) = 0
      BY <2>0, FS_EmptySet
    <2>2. Enumerates(<<>>, S)
      BY <2>1 DEF Enumerates, Climbs
    <2>3. QED
      BY <2>2
  <1>2. ASSUME NEW n \in 1 .. b, n - 1 \in done
        PROVE  n \in done
    <2> SUFFICES ASSUME NEW S \in SUBSET (0 .. n - 1)
                 PROVE  \E e : Enumerates(e, S)
      OBVIOUS
    <2>1. CASE n - 1 \notin S
      <3>1. S \in SUBSET (0 .. (n - 1) - 1)
        BY <2>1
      <3>2. QED
        BY <3>1, <1>2
    <2>2. CASE n - 1 \in S
      <3> DEFINE S0 == S \ {n - 1}
                 k == Cardinality(S0)
      <3>1. S0 \in SUBSET (0 .. (n - 1) - 1)
        OBVIOUS
      <3>2. PICK e0 : Enumerates(e0, S0)
        BY <3>1, <1>2
      <3>3. IsFiniteSet(S) /\ k \in Nat /\ Cardinality(S) = k + 1
        <4>1. n \in Nat
          OBVIOUS
        <4>2. IsFiniteSet(S) /\ Cardinality(S) \in Nat
          BY <4>1, FiniteBelow
        <4>3. IsFiniteSet(S0) /\ k = Cardinality(S) - 1
          BY <4>2, <2>2, FS_RemoveElement
        <4>4. k \in Nat
          BY <4>3, FS_CardinalityType
        <4>5. QED
          BY <4>2, <4>3, <4>4
      <3> DEFINE e == [i \in 1 .. k + 1 |-> IF i = k + 1 THEN n - 1 ELSE e0[i]]
      <3> HIDE DEF k
      <3>4. e0 \in [1 .. k -> S0] /\ Climbs(e0) /\ \A x \in S0 : \E i \in 1 .. k : e0[i] = x
        BY <3>2 DEF Enumerates, k
      <3>5. \A i \in 1 .. k + 1 : e[i] = IF i = k + 1 THEN n - 1 ELSE e0[i]
        OBVIOUS
      <3>6. e \in [1 .. k + 1 -> S]
        BY <3>3, <3>4, <2>2
      <3> HIDE DEF e
      <3>7. \A x \in S : \E i \in 1 .. k + 1 : e[i] = x
        <4> SUFFICES ASSUME NEW x \in S
                     PROVE  \E i \in 1 .. k + 1 : e[i] = x
          OBVIOUS
        <4>1. CASE x = n - 1
          BY <4>1, <3>5, <3>3
        <4>2. CASE x # n - 1
          <5>1. PICK i \in 1 .. k : e0[i] = x
            BY <4>2, <3>4
          <5>2. QED
            BY <5>1, <3>5, <3>3
        <4>3. QED
          BY <4>1, <4>2
      <3>8. \A i, j \in 1 .. k + 1 : i < j => e[i] < e[j]
        <4> SUFFICES ASSUME NEW i \in 1 .. k + 1, NEW j \in 1 .. k + 1, i < j
                     PROVE  e[i] < e[j]
          OBVIOUS
        <4>1. i \in 1 .. k /\ e[i] = e0[i] /\ e0[i] \in S0
          BY <3>3, <3>4, <3>5
        <4>2. CASE j = k + 1
          <5>1. e[j] = n - 1 /\ e0[i] \in 0 .. (n - 1) - 1
            BY <4>1, <4>2, <3>1, <3>3, <3>5
          <5>2. e0[i] < n - 1
            BY <5>1
          <5>3. QED
            BY <5>1, <5>2, <4>1
        <4>3. CASE j # k + 1
          BY <4>1, <4>3, <3>3, <3>4, <3>5 DEF Climbs
        <4>4. QED
          BY <4>2, <4>3
      <3>9. Enumerates(e, S)
        BY <3>3, <3>6, <3>7, <3>8 DEF Enumerates, Climbs
      <3>10. QED
        BY <3>9
    <2>3. QED
      BY <2>1, <2>2
  <1> HIDE DEF done
  <1>3. 0 .. b \subseteq done
    BY <1>1, <1>2, Induction
  <1>4. b \in done
    BY <1>3
  <1>5. QED
    BY <1>4 DEF done

\* Of an enumeration, the n-th member is the one with n - 1 smaller ones.
LEMMA MembersBelow ==
  ASSUME NEW b \in Nat, NEW S \in SUBSET (0 .. b - 1), NEW e, Enumerates(e, S),
         NEW n \in 1 .. Cardinality(S)
  PROVE  Cardinality({y \in S : y < e[n]}) = n - 1
PROOF
  <1> DEFINE below == {y \in S : y < e[n]}
             first == [i \in 1 .. n - 1 |-> e[i]]
  <1>n. \A x \in S : x \in Nat
    OBVIOUS
  <1>0. Cardinality(S) \in Nat
    BY FiniteBelow
  <1>1. \A i \in 1 .. n - 1 : i \in 1 .. Cardinality(S) /\ first[i] = e[i] /\ i < n
    BY <1>0
  <1>2. /\ e \in [1 .. Cardinality(S) -> S] /\ \A x \in S : \E i \in 1 .. Cardinality(S) : e[i] = x
        /\ \A i, j \in 1 .. Cardinality(S) : i < j => e[i] < e[j]
    BY DEF Enumerates, Climbs
  <1>3. first \in [1 .. n - 1 -> below]
    BY <1>1, <1>2
  <1>4. \A i, j \in 1 .. n - 1 : first[i] = first[j] => i = j
    <2> HIDE DEF first
    <2> SUFFICES ASSUME NEW i \in 1 .. n - 1, NEW j \in 1 .. n - 1, i # j
                 PROVE  first[i] # first[j]
      OBVIOUS
    <2>1. e[i] \in S /\ e[j] \in S /\ first[i] = e[i] /\ first[j] = e[j]
      BY <1>1, <1>2
    <2>2. i < j \/ j < i
      OBVIOUS
    <2>3. e[i] < e[j] \/ e[j] < e[i]
      BY <2>2, <1>1, <1>2
    <2>4. e[i] \in Nat /\ e[j] \in Nat
      BY <2>1, <1>n
    <2>5. QED
      BY <2>1, <2>3, <2>4
  <1>5. \A x \in below : \E i \in 1 .. n - 1 : first[i] = x
    <2> SUFFICES ASSUME NEW x \in below
                 PROVE  \E i \in 1 .. n - 1 : first[i] = x
      OBVIOUS
    <2>1. PICK i \in 1 .. Cardinality(S) : e[i] = x
      BY <1>2
    <2>2. ~(n < i) /\ n # i
      <3>1. x < e[n] /\ x \in Nat /\ e[n] \in S
        BY <1>2
      <3>2. e[n] \in Nat
        BY <3>1, <1>n
      <3>3. n < i => e[n] < e[i]
        BY <1>2
      <3>4. QED
        BY <3>1, <3>2, <3>3, <2>1
    <2>3. i \in 1 .. n - 1
      BY <2>2, <1>0
    <2>4. QED
      BY <2>1, <2>3, <1>1
  <1> HIDE DEF first, below
  <1>6. first \in Bijection(1 .. n - 1, below)
    BY <1>3, <1>4, <1>5 DEF Bijection, Injection, Surjection, IsInjective
  <1>7. IsFiniteSet(1 .. n - 1) /\ Cardinality(1 .. n - 1) = n - 1
    <2>1. 1 \in Int /\ n - 1 \in Int /\ n - 1 >= 0
      BY <1>0
    <2>2. QED
      BY <2>1, FS_Interval
  <1>8. ExistsBijection(1 .. n - 1, below)
    BY <1>6 DEF ExistsBijection
  <1>9. Cardinality(below) = n - 1
    BY <1>7, <1>8, FS_Bijection
  <1>10. QED
    BY <1>9 DEF below

\* Ascending is the enumeration it is meant to be.
LEMMA AscendingEnumerates ==
  \A b \in Nat : \A S \in SUBSET (0 .. b - 1) : Enumerates(Ascending(S), S)
PROOF
  <1> SUFFICES ASSUME NEW b \in Nat, NEW S \in SUBSET (0 .. b - 1)
               PROVE  Enumerates(Ascending(S), S)
    OBVIOUS
  <1>1. PICK e : Enumerates(e, S)
    BY Enumerable
  <1>2. /\ e \in [1 .. Cardinality(S) -> S] /\ \A x \in S : \E i \in 1 .. Cardinality(S) : e[i] = x
    BY <1>1 DEF Enumerates
  <1>0. Cardinality(S) \in Nat
    BY FiniteBelow
  <1> DEFINE nth(n) == CHOOSE x \in S : Cardinality({y \in S : y < x}) = n - 1
  <1>3. ASSUME NEW n \in 1 .. Cardinality(S)
        PROVE  nth(n) = e[n]
    <2>1. e[n] \in S /\ Cardinality({y \in S : y < e[n]}) = n - 1
      <3>1. e[n] \in S
        BY <1>2
      <3>2. QED
        BY <3>1, <1>1, MembersBelow
    <2>2. nth(n) \in S /\ Cardinality({y \in S : y < nth(n)}) = n - 1
      BY <2>1
    <2> HIDE DEF nth
    <2>3. PICK m \in 1 .. Cardinality(S) : e[m] = nth(n)
      BY <2>2, <1>2
    <2>4. Cardinality({y \in S : y < e[m]}) = m - 1
      BY <1>1, MembersBelow
    <2>5. m - 1 = n - 1
      BY <2>2, <2>3, <2>4
    <2>6. m = n
      BY <2>5, <1>0
    <2>7. QED
      BY <2>3, <2>6
  <1>4. Ascending(S) = e
    <2>1. Ascending(S) = [n \in 1 .. Cardinality(S) |-> nth(n)]
      BY DEF Ascending
    <2>2. e = [n \in 1 .. Cardinality(S) |-> e[n]]
      BY <1>2
    <2> HIDE DEF nth
    <2>3. QED
      BY <2>1, <2>2, <1>3
  <1>5. QED
    BY <1>1, <1>4

\* The elements of t are those of the sequences 1 .. n of seqs, each as often.
Joins(t, seqs, n, S) ==
  /\ t \in Seq(S)
  /\ \A i \in DOMAIN t : \E j \in 1 .. n : \E k \in DOMAIN seqs[j] : t[i] = seqs[j][k]
  /\ \A j \in 1 .. n : \A k \in DOMAIN seqs[j] : \E i \in DOMAIN t : t[i] = seqs[j][k]

\* No element occurs twice in the sequences 1 .. n of seqs.
Apart(seqs, n) ==
  \A i, j \in 1 .. n : \A k \in DOMAIN seqs[i] : \A l \in DOMAIN seqs[j] :
    seqs[i][k] = seqs[j][l] => i = j /\ k = l

\* t is the concatenation of the sequences 1 .. n of seqs, up to the order.
JoinsAll(t, seqs, n, S) == Joins(t, seqs, n, S) /\ (Apart(seqs, n) => IsInjective(t))

\* One more sequence at the end of a concatenation.
LEMMA JoinOneMore ==
  ASSUME NEW S, NEW n \in Nat, NEW seqs, seqs[n + 1] \in Seq(S), NEW t, JoinsAll(t, seqs, n, S)
  PROVE  JoinsAll(t \o seqs[n + 1], seqs, n + 1, S)
PROOF
  <1> DEFINE last == seqs[n + 1]
             u == t \o last
  <1>1. /\ t \in Seq(S) /\ last \in Seq(S)
        /\ \A i \in 1 .. Len(t) : \E j \in 1 .. n : \E k \in DOMAIN seqs[j] : t[i] = seqs[j][k]
        /\ \A j \in 1 .. n : \A k \in DOMAIN seqs[j] : \E i \in 1 .. Len(t) : t[i] = seqs[j][k]
    <2>1. Joins(t, seqs, n, S)
      BY DEF JoinsAll
    <2>2. t \in Seq(S) /\ DOMAIN t = 1 .. Len(t)
      BY <2>1 DEF Joins
    <2>3. QED
      BY <2>1, <2>2 DEF Joins
  <1>2. /\ Len(t) \in Nat /\ Len(last) \in Nat
        /\ DOMAIN t = 1 .. Len(t) /\ DOMAIN last = 1 .. Len(last)
    BY <1>1
  <1>3. u \in Seq(S) /\ Len(u) = Len(t) + Len(last) /\ DOMAIN u = 1 .. Len(t) + Len(last)
    BY <1>1
  <1>4. \A i \in 1 .. Len(t) : u[i] = t[i]
    BY <1>1
  <1>5. \A i \in 1 .. Len(last) : u[Len(t) + i] = last[i]
    BY <1>1
  <1> HIDE DEF u
  <1>6. \A i \in DOMAIN u : i \in 1 .. Len(t) \/ \E k \in 1 .. Len(last) : i = Len(t) + k
    <2> SUFFICES ASSUME NEW i \in 1 .. Len(t) + Len(last), i \notin 1 .. Len(t)
                 PROVE  \E k \in 1 .. Len(last) : i = Len(t) + k
      BY <1>3
    <2>1. i - Len(t) \in 1 .. Len(last) /\ i = Len(t) + (i - Len(t))
      BY <1>2
    <2>2. QED
      BY <2>1
  <1>7. \A i \in DOMAIN u : \E j \in 1 .. n + 1 : \E k \in DOMAIN seqs[j] : u[i] = seqs[j][k]
    <2> SUFFICES ASSUME NEW i \in DOMAIN u
                 PROVE  \E j \in 1 .. n + 1 : \E k \in DOMAIN seqs[j] : u[i] = seqs[j][k]
      OBVIOUS
    <2>1. CASE i \in 1 .. Len(t)
      <3>1. PICK j \in 1 .. n : \E k \in DOMAIN seqs[j] : t[i] = seqs[j][k]
        BY <1>1, <2>1
      <3>2. j \in 1 .. n + 1
        OBVIOUS
      <3>3. QED
        BY <3>1, <3>2, <2>1, <1>4
    <2>2. CASE \E k \in 1 .. Len(last) : i = Len(t) + k
      <3>1. PICK k \in 1 .. Len(last) : i = Len(t) + k
        BY <2>2
      <3>2. u[i] = seqs[n + 1][k] /\ k \in DOMAIN seqs[n + 1]
        BY <3>1, <1>2, <1>5
      <3>3. n + 1 \in 1 .. n + 1
        OBVIOUS
      <3>4. QED
        BY <3>2, <3>3
    <2>3. QED
      BY <1>6, <2>1, <2>2
  <1>8. \A j \in 1 .. n + 1 : \A k \in DOMAIN seqs[j] : \E i \in DOMAIN u : u[i] = seqs[j][k]
    <2> SUFFICES ASSUME NEW j \in 1 .. n + 1, NEW k \in DOMAIN seqs[j]
                 PROVE  \E i \in DOMAIN u : u[i] = seqs[j][k]
      OBVIOUS
    <2>1. CASE j = n + 1
      <3>1. k \in 1 .. Len(last) /\ u[Len(t) + k] = seqs[j][k]
        BY <2>1, <1>2, <1>5
      <3>2. Len(t) + k \in DOMAIN u
        BY <3>1, <1>2, <1>3
      <3>3. QED
        BY <3>1, <3>2
    <2>2. CASE j # n + 1
      <3>1. PICK i \in 1 .. Len(t) : t[i] = seqs[j][k]
        <4>1. j \in 1 .. n
          BY <2>2
        <4>2. QED
          BY <4>1, <1>1
      <3>2. i \in DOMAIN u /\ u[i] = t[i]
        BY <1>2, <1>3, <1>4
      <3>3. QED
        BY <3>1, <3>2
    <2>3. QED
      BY <2>1, <2>2
  <1>9. ASSUME Apart(seqs, n + 1)
        PROVE  IsInjective(u)
    <2>0. Apart(seqs, n)
      BY <1>9 DEF Apart
    <2>1. \A i, j \in 1 .. Len(t) : t[i] = t[j] => i = j
      BY <2>0, <1>2 DEF JoinsAll, IsInjective
    <2>2. \A k, l \in 1 .. Len(last) : last[k] = last[l] => k = l
      BY <1>9, <1>2 DEF Apart
    <2>3. \A i \in 1 .. Len(t) : \A l \in 1 .. Len(last) : t[i] # last[l]
      <3> SUFFICES ASSUME NEW i \in 1 .. Len(t), NEW l \in 1 .. Len(last), t[i] = last[l]
                   PROVE  FALSE
        OBVIOUS
      <3>1. PICK j \in 1 .. n : \E k \in DOMAIN seqs[j] : t[i] = seqs[j][k]
        BY <1>1
      <3>2. j \in 1 .. n + 1 /\ n + 1 \in 1 .. n + 1 /\ l \in DOMAIN seqs[n + 1]
        BY <1>2
      <3>3. j = n + 1
        BY <3>1, <3>2, <1>9 DEF Apart
      <3>4. QED
        BY <3>3
    <2> SUFFICES ASSUME NEW i \in DOMAIN u, NEW j \in DOMAIN u, u[i] = u[j]
                 PROVE  i = j
      BY DEF IsInjective
    <2>4. CASE i \in 1 .. Len(t) /\ j \in 1 .. Len(t)
      BY <2>1, <2>4, <1>4
    <2>5. CASE i \in 1 .. Len(t) /\ \E l \in 1 .. Len(last) : j = Len(t) + l
      <3>1. PICK l \in 1 .. Len(last) : j = Len(t) + l
        BY <2>5
      <3>2. u[i] = t[i] /\ u[j] = last[l]
        BY <2>5, <3>1, <1>4, <1>5
      <3>3. QED
        BY <2>3, <2>5, <3>2
    <2>6. CASE j \in 1 .. Len(t) /\ \E l \in 1 .. Len(last) : i = Len(t) + l
      <3>1. PICK l \in 1 .. Len(last) : i = Len(t) + l
        BY <2>6
      <3>2. u[j] = t[j] /\ u[i] = last[l]
        BY <2>6, <3>1, <1>4, <1>5
      <3>3. QED
        BY <2>3, <2>6, <3>2
    <2>7. CASE /\ \E k \in 1 .. Len(last) : i = Len(t) + k
               /\ \E l \in 1 .. Len(last) : j = Len(t) + l
      <3>1. PICK k \in 1 .. Len(last) : i = Len(t) + k
        BY <2>7
      <3>2. PICK l \in 1 .. Len(last) : j = Len(t) + l
        BY <2>7
      <3>3. u[i] = last[k] /\ u[j] = last[l]
        BY <3>1, <3>2, <1>5
      <3>4. k = l
        BY <2>2, <3>3
      <3>5. QED
        BY <3>1, <3>2, <3>4
    <2>8. QED
      BY <1>6, <2>4, <2>5, <2>6, <2>7
  <1>10. QED
    BY <1>3, <1>7, <1>8, <1>9 DEF JoinsAll, Joins, u

\* FlattenSeq joins its argument's sequences, and repeats nothing if they do not.
LEMMA FlattenJoins ==
  \A S : \A n \in Nat : \A seqs \in [1 .. n -> Seq(S)] :
    JoinsAll(FlattenSeq(seqs), seqs, n, S)
PROOF
  <1> SUFFICES ASSUME NEW S, NEW n \in Nat, NEW seqs \in [1 .. n -> Seq(S)]
               PROVE  JoinsAll(FlattenSeq(seqs), seqs, n, S)
    OBVIOUS
  <1>1. seqs \in Seq(Seq(S)) /\ Len(seqs) = n
    OBVIOUS
  <1>2. CASE n = 0
    <2>1. FlattenSeq(seqs) = <<>>
      BY <1>1, <1>2 DEF FlattenSeq
    <2>2. QED
      BY <2>1, <1>2 DEF JoinsAll, Joins, IsInjective
  <1>3. CASE n # 0
    <2> DEFINE joined(f) == [i \in 1 .. n |-> IF i = 1 THEN seqs[i] ELSE f[i - 1] \o seqs[i]]
               flatten == CHOOSE f : f = joined(f)
               step == [p \in (1 .. n) \X Seq(S) |-> p[2] \o seqs[p[1]]]
    <2>1. FlattenSeq(seqs) = flatten[n]
      BY <1>1, <1>3 DEF FlattenSeq
    <2>2. \A i \in 1 .. n : \A t \in Seq(S) : step[<<i, t>>] = t \o seqs[i]
      OBVIOUS
    <2>3. step \in [(1 .. n) \X Seq(S) -> Seq(S)]
      <3>1. \A i \in 1 .. n : \A t \in Seq(S) : t \o seqs[i] \in Seq(S)
        OBVIOUS
      <3>2. QED
        BY <3>1
    <2> HIDE DEF step
    <2>4. PICK g \in [0 .. n -> Seq(S)] : Recursive(g, <<>>, step, n)
      <3>1. <<>> \in Seq(S)
        OBVIOUS
      <3>2. QED
        BY <3>1, <2>3, Recursion
    <2>5. g[0] = <<>> /\ \A i \in 1 .. n : g[i] = g[i - 1] \o seqs[i] /\ g[i - 1] \in Seq(S)
      <3>1. g[0] = <<>>
        <4>1. 0 \in 0 .. n
          OBVIOUS
        <4>2. QED
          BY <4>1, <2>4 DEF Recursive
      <3>2. \A i \in 1 .. n : i \in 0 .. n /\ i # 0 /\ i - 1 \in 0 .. n
        OBVIOUS
      <3>3. \A i \in 1 .. n : g[i] = step[<<i, g[i - 1]>>]
        BY <3>2, <2>4 DEF Recursive
      <3>4. QED
        BY <3>1, <3>2, <3>3, <2>2
    <2>6. [i \in 1 .. n |-> g[i]] = joined([i \in 1 .. n |-> g[i]])
      <3> DEFINE f == [i \in 1 .. n |-> g[i]]
      <3>1. \A i \in 1 .. n : f[i] = IF i = 1 THEN seqs[i] ELSE f[i - 1] \o seqs[i]
        <4> SUFFICES ASSUME NEW i \in 1 .. n
                     PROVE  f[i] = IF i = 1 THEN seqs[i] ELSE f[i - 1] \o seqs[i]
          OBVIOUS
        <4>1. CASE i = 1
          <5>0. 1 \in 1 .. n /\ 1 - 1 = 0
            BY <4>1
          <5>1. g[1] = <<>> \o seqs[1] /\ seqs[1] \in Seq(S)
            BY <5>0, <2>5
          <5>2. g[1] = seqs[1]
            BY <5>1
          <5>3. QED
            BY <5>2, <4>1
        <4>2. CASE i # 1
          <5>1. i - 1 \in 1 .. n
            BY <4>2
          <5>2. QED
            BY <5>1, <4>2, <2>5
        <4>3. QED
          BY <4>1, <4>2
      <3>2. QED
        BY <3>1
    <2>7. flatten = joined(flatten)
      BY <2>6
    <2> HIDE DEF flatten
    <2>8. \A i \in 1 .. n : flatten[i] = IF i = 1 THEN seqs[i] ELSE flatten[i - 1] \o seqs[i]
      BY <2>7
    <2> DEFINE done == {i \in 0 .. n : i = 0 \/ JoinsAll(flatten[i], seqs, i, S)}
    <2>9. 0 \in done
      OBVIOUS
    <2>10. ASSUME NEW i \in 1 .. n, i - 1 \in done
           PROVE  i \in done
      <3>1. CASE i = 1
        <4>1. flatten[i] = seqs[1] /\ seqs[1] \in Seq(S)
          BY <3>1, <2>8
        <4>2. JoinsAll(seqs[1], seqs, 1, S)
          BY <4>1 DEF JoinsAll, Joins, Apart, IsInjective
        <4>3. QED
          BY <4>1, <4>2, <3>1
      <3>2. CASE i # 1
        <4> DEFINE m == i - 1
        <4>1. m \in Nat /\ m + 1 = i
          OBVIOUS
        <4>2. flatten[i] = flatten[m] \o seqs[i] /\ seqs[i] \in Seq(S)
          BY <3>2, <2>8
        <4>3. JoinsAll(flatten[m], seqs, m, S)
          BY <2>10, <3>2
        <4> HIDE DEF m
        <4>4. JoinsAll(flatten[m] \o seqs[m + 1], seqs, m + 1, S)
          BY <4>1, <4>2, <4>3, JoinOneMore
        <4>5. JoinsAll(flatten[i], seqs, i, S)
          BY <4>1, <4>2, <4>4
        <4>6. QED
          BY <4>5
      <3>3. QED
        BY <3>1, <3>2
    <2> HIDE DEF done
    <2>11. n \in done
      <3>1. 0 .. n \subseteq done
        BY <2>9, <2>10, Induction
      <3>2. QED
        BY <3>1
    <2>12. QED
      BY <2>1, <2>11, <1>3 DEF done
  <1>4. QED
    BY <1>2, <1>3

-----------------------------------------------------------------------------
(***************************************************************************)
(* The sort of a shard's members, and the two sides of a split.            *)
(***************************************************************************)

\* A reordering has the elements of the sequence it reorders, each as often.
LEMMA ReorderSame ==
  ASSUME NEW S, NEW s \in Seq(S), NEW t \in Reorders(s)
  PROVE  /\ t \in Seq(S) /\ Len(t) = Len(s) /\ ToSet(t) = ToSet(s)
         /\ IsInjective(s) => IsInjective(t)
PROOF
  <1> DEFINE n == Len(s)
  <1>1. n \in Nat /\ DOMAIN s = 1 .. n /\ \A i \in 1 .. n : s[i] \in S
    OBVIOUS
  <1>2. PICK perm \in Bijection(1 .. n, 1 .. n) : t = [i \in 1 .. n |-> s[perm[i]]]
    BY <1>1 DEF Reorders
  <1> HIDE DEF n
  <1>3. /\ perm \in [1 .. n -> 1 .. n] /\ \A j \in 1 .. n : \E i \in 1 .. n : perm[i] = j
        /\ \A i, j \in 1 .. n : perm[i] = perm[j] => i = j
    BY DEF Bijection, Injection, Surjection, IsInjective
  <1>4. t \in [1 .. n -> S] /\ \A i \in 1 .. n : t[i] = s[perm[i]]
    BY <1>1, <1>2, <1>3
  <1>5. t \in Seq(S) /\ Len(t) = n
    BY <1>1, <1>4, LenProperties
  <1>6. ToSet(t) = ToSet(s)
    BY <1>1, <1>3, <1>4 DEF ToSet
  <1>7. IsInjective(s) => IsInjective(t)
    BY <1>1, <1>3, <1>4 DEF IsInjective
  <1>8. QED
    BY <1>5, <1>6, <1>7 DEF n

\* Sorting numbers without repeats makes them climb and keeps them all.
LEMMA SortedClimbs ==
  ASSUME NEW b \in Nat, NEW s \in Seq(0 .. b - 1), IsInjective(s)
  PROVE  /\ Sorted(s) \in Seq(0 .. b - 1) /\ Climbs(Sorted(s))
         /\ ToSet(Sorted(s)) = ToSet(s)
PROOF
  <1> DEFINE n == Len(s)
             S == ToSet(s)
             Rises(t) == \A i \in 1 .. Len(t) - 1 : t[i] <= t[i + 1]
  <1>1. n \in Nat /\ DOMAIN s = 1 .. n /\ s \in [1 .. n -> 0 .. b - 1]
    OBVIOUS
  <1>2. S \in SUBSET (0 .. b - 1) /\ \A i \in 1 .. n : s[i] \in S
    BY <1>1 DEF ToSet
  <1>3. \A x \in S : \E i \in 1 .. n : s[i] = x
    BY <1>1 DEF ToSet
  <1>4. \A i, j \in 1 .. n : s[i] = s[j] => i = j
    BY <1>1 DEF IsInjective
  <1> HIDE DEF n, S
  <1>5. Cardinality(S) = n
    <2>1. s \in Bijection(1 .. n, S)
      BY <1>1, <1>2, <1>3, <1>4 DEF Bijection, Injection, Surjection, IsInjective
    <2>2. ExistsBijection(1 .. n, S)
      BY <2>1 DEF ExistsBijection
    <2>3. IsFiniteSet(1 .. n) /\ Cardinality(1 .. n) = n
      BY <1>1, FS_Interval
    <2>4. QED
      BY <2>2, <2>3, FS_Bijection
  <1>6. \E t \in Reorders(s) : Rises(t)
    <2>1. PICK e : Enumerates(e, S)
      BY <1>2, Enumerable
    <2>2. /\ e \in [1 .. n -> S] /\ \A x \in S : \E i \in 1 .. n : e[i] = x
          /\ \A i, j \in 1 .. n : i < j => e[i] < e[j]
      BY <2>1, <1>5 DEF Enumerates, Climbs
    <2>3. \A i \in 1 .. n : e[i] \in Nat
      <3>1. \A x \in S : x \in Nat
        BY <1>2
      <3>2. QED
        BY <3>1, <2>2
    <2>4. \A i, j \in 1 .. n : e[i] = e[j] => i = j
      <3> SUFFICES ASSUME NEW i \in 1 .. n, NEW j \in 1 .. n, i # j
                   PROVE  e[i] # e[j]
        OBVIOUS
      <3>1. i < j \/ j < i
        OBVIOUS
      <3>2. e[i] < e[j] \/ e[j] < e[i]
        BY <3>1, <2>2
      <3>3. QED
        BY <3>2, <2>3
    <2> DEFINE perm == [i \in 1 .. n |-> CHOOSE j \in 1 .. n : s[j] = e[i]]
    <2>5. \A i \in 1 .. n : perm[i] \in 1 .. n /\ s[perm[i]] = e[i]
      BY <1>3, <2>2
    <2>6. perm \in [1 .. n -> 1 .. n]
      BY <2>5
    <2> HIDE DEF perm
    <2>7. \A i, j \in 1 .. n : perm[i] = perm[j] => i = j
      BY <2>4, <2>5
    <2>8. \A j \in 1 .. n : \E i \in 1 .. n : perm[i] = j
      <3> SUFFICES ASSUME NEW j \in 1 .. n
                   PROVE  \E i \in 1 .. n : perm[i] = j
        OBVIOUS
      <3>1. PICK i \in 1 .. n : e[i] = s[j]
        BY <1>2, <2>2
      <3>2. perm[i] = j
        BY <3>1, <2>5, <1>4
      <3>3. QED
        BY <3>2
    <2>9. perm \in Bijection(1 .. n, 1 .. n)
      BY <2>6, <2>7, <2>8 DEF Bijection, Injection, Surjection, IsInjective
    <2> DEFINE t == [i \in 1 .. n |-> s[perm[i]]]
    <2>10. t \in Reorders(s)
      BY <2>9, <1>1 DEF Reorders
    <2>11. \A i \in 1 .. n : t[i] = e[i]
      BY <2>5
    <2>12. Len(t) = n
      <3>1. t \in [1 .. n -> 0 .. b - 1]
        BY <2>5, <1>1
      <3> HIDE DEF t
      <3>2. QED
        BY <3>1, <1>1, LenProperties
    <2> HIDE DEF t
    <2>13. \A i \in 1 .. n - 1 : i \in 1 .. n /\ i + 1 \in 1 .. n /\ i < i + 1
      BY <1>1
    <2>14. Rises(t)
      BY <2>2, <2>3, <2>11, <2>12, <2>13
    <2>15. QED
      BY <2>10, <2>14
  <1>7. Sorted(s) \in Reorders(s) /\ Rises(Sorted(s))
    BY <1>6 DEF Sorted
  <1>8. /\ Sorted(s) \in Seq(0 .. b - 1) /\ Len(Sorted(s)) = n /\ ToSet(Sorted(s)) = ToSet(s)
        /\ IsInjective(Sorted(s))
    BY <1>7, ReorderSame DEF n
  <1>9. Climbs(Sorted(s))
    <2> DEFINE t == Sorted(s)
    <2>1. t \in [1 .. n -> Nat] /\ DOMAIN t = 1 .. n
      BY <1>8
    <2>2. \A i \in 1 .. n - 1 : t[i] <= t[i + 1]
      BY <1>7, <1>8
    <2> HIDE DEF t
    <2>3. \A i, j \in 1 .. n : i <= j => t[i] <= t[j]
      BY <2>1, <2>2, <1>1, NeverFalls
    <2>4. \A i, j \in 1 .. n : i < j => t[i] # t[j]
      BY <1>8, <2>1 DEF IsInjective, t
    <2>5. \A i, j \in 1 .. n : i < j => t[i] < t[j]
      <3> SUFFICES ASSUME NEW i \in 1 .. n, NEW j \in 1 .. n, i < j
                   PROVE  t[i] < t[j]
        OBVIOUS
      <3>1. t[i] <= t[j] /\ t[i] # t[j] /\ t[i] \in Nat /\ t[j] \in Nat
        BY <2>1, <2>3, <2>4
      <3>2. QED
        BY <3>1
    <2>6. QED
      BY <2>1, <2>5 DEF Climbs, t
  <1>10. QED
    BY <1>8, <1>9

\* The elements of a sequence with one more at the end.
LEMMA AppendSet ==
  \A S : \A s \in Seq(S) : \A x \in S : ToSet(Append(s, x)) = ToSet(s) \cup {x}
PROOF
  <1> SUFFICES ASSUME NEW S, NEW s \in Seq(S), NEW x \in S
               PROVE  ToSet(Append(s, x)) = ToSet(s) \cup {x}
    OBVIOUS
  <1> DEFINE t == Append(s, x)
  <1>1. /\ Len(s) \in Nat /\ DOMAIN s = 1 .. Len(s) /\ DOMAIN t = 1 .. Len(s) + 1
        /\ \A i \in 1 .. Len(s) : t[i] = s[i]
        /\ t[Len(s) + 1] = x
    OBVIOUS
  <1> HIDE DEF t
  <1>2. \A i \in 1 .. Len(s) : i \in 1 .. Len(s) + 1
    BY <1>1
  <1>3. \A i \in 1 .. Len(s) + 1 : i \in 1 .. Len(s) \/ i = Len(s) + 1
    BY <1>1
  <1>4. Len(s) + 1 \in 1 .. Len(s) + 1
    BY <1>1
  <1>5. QED
    <2>1. ToSet(t) = {t[i] : i \in 1 .. Len(s) + 1} /\ ToSet(s) = {s[i] : i \in 1 .. Len(s)}
      BY <1>1 DEF ToSet
    <2>2. ToSet(t) = ToSet(s) \cup {x}
      BY <1>1, <1>2, <1>3, <1>4, <2>1
    <2>3. QED
      BY <2>2 DEF t

\* A side of a split keeps the order and has the members that were sent there.
LEMMA SideClimbs ==
  ASSUME NEW s \in Seq(Points), Climbs(s), NEW side \in [DOMAIN s -> {0, 1}], NEW b \in {0, 1}
  PROVE  /\ Side(s, side, b) \in Seq(Points) /\ Climbs(Side(s, side, b))
         /\ ToSet(Side(s, side, b)) = {s[i] : i \in {j \in DOMAIN s : side[j] = b}}
PROOF
  <1> DEFINE n == Len(s)
             S == {i \in DOMAIN s : side[i] = b}
             e == Ascending(S)
             k == Cardinality(S)
             t == Side(s, side, b)
  <1>1. n \in Nat /\ DOMAIN s = 1 .. n /\ \A i \in 1 .. n : s[i] \in Points
    OBVIOUS
  <1>2. S \in SUBSET (0 .. (n + 1) - 1) /\ n + 1 \in Nat
    BY <1>1
  <1>3. Enumerates(e, S) /\ k \in Nat
    <2> HIDE DEF S, n
    <2>1. QED
      BY <1>2, AscendingEnumerates, FiniteBelow
  <1>4. /\ e \in [1 .. k -> S] /\ DOMAIN e = 1 .. k
        /\ \A x \in S : \E i \in 1 .. k : e[i] = x
        /\ \A i, j \in 1 .. k : i < j => e[i] < e[j]
    BY <1>3 DEF Enumerates, Climbs
  <1>5. t = [i \in 1 .. k |-> s[e[i]]]
    BY <1>4 DEF Side
  <1> HIDE DEF t, e, k
  <1>6. \A i \in 1 .. k : e[i] \in 1 .. n /\ e[i] \in S
    BY <1>1, <1>4
  <1>7. t \in [1 .. k -> Points] /\ \A i \in 1 .. k : t[i] = s[e[i]]
    BY <1>1, <1>5, <1>6
  <1>8. t \in Seq(Points) /\ DOMAIN t = 1 .. k
    BY <1>3, <1>7
  <1>9. \A i, j \in 1 .. k : i < j => t[i] < t[j]
    BY <1>1, <1>4, <1>6, <1>7 DEF Climbs
  <1>10. ToSet(t) = {s[i] : i \in S}
    <2> HIDE DEF S
    <2>1. ToSet(t) \subseteq {s[i] : i \in S}
      BY <1>6, <1>7, <1>8 DEF ToSet
    <2>2. {s[i] : i \in S} \subseteq ToSet(t)
      BY <1>4, <1>7, <1>8 DEF ToSet
    <2>3. QED
      BY <2>1, <2>2
  <1>11. QED
    BY <1>8, <1>9, <1>10 DEF t, Climbs

\* A split of a shard of at least two: two shards, neither empty, that share out its members.
Splits(s, kept, spilled) ==
  /\ kept \in Seq(Points) /\ Climbs(kept) /\ kept # <<>>
  /\ spilled \in Seq(Points) /\ Climbs(spilled) /\ spilled # <<>>
  /\ \A p \in Points : p \in ToSet(s) <=> p \in ToSet(kept) \/ p \in ToSet(spilled)
  /\ \A p \in Points : ~(p \in ToSet(kept) /\ p \in ToSet(spilled))

\* splitShard splits.
LEMMA SplitSound ==
  ASSUME NEW s \in Seq(Points), Climbs(s), Len(s) > 1, NEW side \in [DOMAIN s -> {0, 1}]
  PROVE  Splits(s, Kept(s, side), Spilled(s, side))
PROOF
  <1> DEFINE n == Len(s)
  <1>1. n \in Nat /\ DOMAIN s = 1 .. n /\ n > 1 /\ \A i \in 1 .. n : s[i] \in Points
    OBVIOUS
  <1>2. \A i, j \in 1 .. n : i < j => s[i] < s[j]
    BY <1>1 DEF Climbs
  <1>3. \A i, j \in 1 .. n : s[i] = s[j] => i = j
    <2> SUFFICES ASSUME NEW i \in 1 .. n, NEW j \in 1 .. n, i # j
                 PROVE  s[i] # s[j]
      OBVIOUS
    <2>1. i < j \/ j < i
      OBVIOUS
    <2>2. s[i] < s[j] \/ s[j] < s[i]
      BY <2>1, <1>2
    <2>3. s[i] \in Nat /\ s[j] \in Nat
      BY <1>1 DEF Points
    <2>4. QED
      BY <2>2, <2>3
  <1>4. CASE Separated(s, side)
    <2> DEFINE x == Side(s, side, 0)
               y == Side(s, side, 1)
    <2>1. /\ x \in Seq(Points) /\ Climbs(x)
          /\ ToSet(x) = {s[i] : i \in {j \in DOMAIN s : side[j] = 0}}
      BY SideClimbs
    <2>2. /\ y \in Seq(Points) /\ Climbs(y)
          /\ ToSet(y) = {s[i] : i \in {j \in DOMAIN s : side[j] = 1}}
      BY SideClimbs
    <2>3. x # <<>> /\ y # <<>> /\ Kept(s, side) = x /\ Spilled(s, side) = y
      BY <1>4 DEF Separated, Kept, Spilled
    <2> HIDE DEF x, y
    <2>4. \A p \in Points : p \in ToSet(s) <=> p \in ToSet(x) \/ p \in ToSet(y)
      BY <2>1, <2>2, <1>1 DEF ToSet
    <2>5. \A p \in Points : ~(p \in ToSet(x) /\ p \in ToSet(y))
      BY <2>1, <2>2, <1>1, <1>3
    <2>6. QED
      BY <2>1, <2>2, <2>3, <2>4, <2>5 DEF Splits
  <1>5. CASE ~Separated(s, side)
    <2> DEFINE h == n \div 2
               x == SubSeq(s, 1, h)
               y == SubSeq(s, h + 1, n)
    <2>1. h \in 1 .. n - 1
      BY <1>1
    <2>2. Kept(s, side) = x /\ Spilled(s, side) = y
      BY <1>5 DEF Kept, Spilled
    <2> HIDE DEF h, n
    <2>3. /\ x \in Seq(Points) /\ Len(x) = h /\ DOMAIN x = 1 .. h
          /\ \A i \in 1 .. h : x[i] = s[i]
      <3>1. x = [i \in 1 .. h |-> s[i]]
        BY <1>1, <2>1
      <3>2. [i \in 1 .. h |-> s[i]] \in [1 .. h -> Points]
        BY <1>1, <2>1
      <3>3. QED
        BY <3>1, <3>2, <2>1, LenProperties
    <2>4. /\ y \in Seq(Points) /\ Len(y) = n - h /\ DOMAIN y = 1 .. n - h
          /\ \A i \in 1 .. n - h : y[i] = s[h + i]
      <3>0. n - h \in Nat /\ \A i \in 1 .. n - h : h + i \in 1 .. n
        BY <1>1, <2>1
      <3>1. y = [i \in 1 .. n - h |-> s[h + i]]
        BY <1>1, <2>1
      <3>2. [i \in 1 .. n - h |-> s[h + i]] \in [1 .. n - h -> Points]
        BY <1>1, <3>0
      <3>3. y \in [1 .. n - h -> Points] /\ \A i \in 1 .. n - h : y[i] = s[h + i]
        BY <3>1, <3>2
      <3> HIDE DEF y
      <3>4. y \in Seq(Points) /\ Len(y) = n - h /\ DOMAIN y = 1 .. n - h
        BY <3>0, <3>3, LenProperties
      <3>5. QED
        BY <3>3, <3>4
    <2> HIDE DEF x, y
    <2>5. Climbs(x)
      BY <2>1, <2>3, <1>1, <1>2 DEF Climbs
    <2>6. Climbs(y)
      <3> SUFFICES ASSUME NEW i \in 1 .. n - h, NEW j \in 1 .. n - h, i < j
                   PROVE  y[i] < y[j]
        BY <2>4 DEF Climbs
      <3>1. h + i \in 1 .. n /\ h + j \in 1 .. n /\ h + i < h + j
        BY <2>1, <1>1
      <3>2. QED
        BY <3>1, <2>4, <1>2
    <2>7. x # <<>> /\ y # <<>>
      <3>1. Len(x) > 0 /\ Len(y) > 0
        BY <2>1, <2>3, <2>4, <1>1
      <3>2. QED
        BY <3>1, <2>3, <2>4
    <2>8. \A p \in Points : p \in ToSet(s) <=> p \in ToSet(x) \/ p \in ToSet(y)
      <3>1. ASSUME NEW i \in 1 .. n
            PROVE  s[i] \in ToSet(x) \/ s[i] \in ToSet(y)
        <4>1. CASE i <= h
          BY <4>1, <2>1, <2>3 DEF ToSet
        <4>2. CASE i > h
          <5>1. i - h \in 1 .. n - h /\ h + (i - h) = i
            BY <4>2, <2>1, <1>1
          <5>2. QED
            BY <5>1, <2>4 DEF ToSet
        <4>3. QED
          BY <4>1, <4>2, <2>1
      <3>2. \A i \in 1 .. h : x[i] \in ToSet(s)
        BY <2>1, <2>3, <1>1 DEF ToSet
      <3>3. \A i \in 1 .. n - h : y[i] \in ToSet(s)
        <4>1. \A i \in 1 .. n - h : h + i \in 1 .. n
          BY <2>1, <1>1
        <4>2. QED
          BY <4>1, <2>4, <1>1 DEF ToSet
      <3>4. \A p \in ToSet(s) : p \in ToSet(x) \/ p \in ToSet(y)
        BY <3>1, <1>1 DEF ToSet
      <3>5. \A p \in ToSet(x) : p \in ToSet(s)
        BY <3>2, <2>3 DEF ToSet
      <3>6. \A p \in ToSet(y) : p \in ToSet(s)
        BY <3>3, <2>4 DEF ToSet
      <3>7. QED
        BY <3>4, <3>5, <3>6
    <2>9. \A p \in Points : ~(p \in ToSet(x) /\ p \in ToSet(y))
      <3> SUFFICES ASSUME NEW i \in 1 .. h, NEW j \in 1 .. n - h, x[i] = y[j]
                   PROVE  FALSE
        BY <2>3, <2>4 DEF ToSet
      <3>1. i \in 1 .. n /\ h + j \in 1 .. n /\ i < h + j
        BY <2>1, <1>1
      <3>2. s[i] = s[h + j]
        BY <2>3, <2>4
      <3>3. QED
        BY <3>1, <3>2, <1>3
    <2>10. QED
      BY <2>2, <2>3, <2>4, <2>5, <2>6, <2>7, <2>8, <2>9 DEF Splits
  <1>6. QED
    BY <1>4, <1>5

-----------------------------------------------------------------------------
(***************************************************************************)
(* The centroids of a point, and the walk over its candidates.             *)
(***************************************************************************)

\* The sizes are as the code clamps them.
LEMMA Sizes ==
  /\ N \in Nat /\ N > 0 /\ R \in Nat /\ R > 0 /\ Threads \in Nat /\ Threads > 0
  /\ Chunk \in Nat /\ Chunk > 0 /\ SkewTenths \in Nat /\ MaxEdges \in Nat
  /\ K \in Nat /\ K > 1 /\ Overlap \in 1 .. K
PROOF
  <1>1. QED
    BY SizesAssumption DEF Centroids

\* How many centroids are nearer to p than c.
Rank(p, c) == Cardinality({d \in Reached(p) : Nearer(p, d, c)})

\* The centroids of a point have ranks below Overlap, each another one, and a point that
\* reaches a centroid has one.
LEMMA RanksDiffer ==
  ASSUME row \in [Points -> Rows], NEW p \in Points
  PROVE  /\ Chosen(p) \subseteq Centroids
         /\ \A c \in Chosen(p) : Rank(p, c) \in 0 .. Overlap - 1
         /\ \A c, d \in Chosen(p) : Rank(p, c) = Rank(p, d) => c = d
         /\ Chosen(p) = {} <=> Reached(p) = {}
PROOF
  <1> DEFINE S == Reached(p)
             nearer(c) == {d \in S : Nearer(p, d, c)}
  <1>1. S \subseteq Centroids /\ \A c \in S : row[p][c] \in Nat
    BY RowsAssumption DEF Reached
  <1>2. IsFiniteSet(S) /\ \A c \in S : c \in Nat
    <2>1. IsFiniteSet(1 .. K)
      BY Sizes, FS_Interval
    <2>2. S \in SUBSET (1 .. K)
      BY <1>1 DEF Centroids
    <2> HIDE DEF S
    <2>3. IsFiniteSet(S)
      BY <2>1, <2>2, FS_Subset
    <2>4. QED
      BY <2>2, <2>3
  <1>3. \A c, d \in S : c # d => Nearer(p, c, d) \/ Nearer(p, d, c)
    BY <1>1, <1>2 DEF Nearer
  <1>4. \A c \in S : ~Nearer(p, c, c)
    BY <1>1, <1>2 DEF Nearer
  <1>5. \A c, d, f \in S : Nearer(p, c, d) /\ Nearer(p, d, f) => Nearer(p, c, f)
    BY <1>1, <1>2 DEF Nearer
  <1> HIDE DEF S
  <1>6. \A c \in S : IsFiniteSet(nearer(c)) /\ Cardinality(nearer(c)) \in Nat
    <2> SUFFICES ASSUME NEW c \in S
                 PROVE  IsFiniteSet(nearer(c)) /\ Cardinality(nearer(c)) \in Nat
      OBVIOUS
    <2>1. IsFiniteSet(nearer(c))
      BY <1>2, FS_Subset
    <2>2. QED
      BY <2>1, FS_CardinalityType
  <1>7. \A c, d \in S : Nearer(p, c, d) => Cardinality(nearer(c)) < Cardinality(nearer(d))
    <2> SUFFICES ASSUME NEW c \in S, NEW d \in S, Nearer(p, c, d)
                 PROVE  Cardinality(nearer(c)) < Cardinality(nearer(d))
      OBVIOUS
    <2>1. nearer(c) \subseteq nearer(d)
      BY <1>5
    <2>2. c \in nearer(d) /\ c \notin nearer(c)
      BY <1>4
    <2> HIDE DEF nearer
    <2>3. Cardinality(nearer(c)) <= Cardinality(nearer(d))
      BY <2>1, <1>6, FS_Subset
    <2>4. Cardinality(nearer(c)) # Cardinality(nearer(d))
      BY <2>1, <2>2, <1>6, FS_Subset
    <2>5. QED
      BY <2>3, <2>4, <1>6
  <1>8. \A c : c \in Chosen(p) <=> c \in S /\ Cardinality(nearer(c)) < Overlap
    BY DEF Chosen, S
  <1>9. \A c : Rank(p, c) = Cardinality(nearer(c))
    BY DEF Rank, S
  <1> HIDE DEF nearer
  <1>10. \A c \in Chosen(p) : Rank(p, c) \in 0 .. Overlap - 1
    BY <1>6, <1>8, <1>9, Sizes
  <1>11. \A c, d \in Chosen(p) : Rank(p, c) = Rank(p, d) => c = d
    <2> SUFFICES ASSUME NEW c \in Chosen(p), NEW d \in Chosen(p), c # d
                 PROVE  Rank(p, c) # Rank(p, d)
      OBVIOUS
    <2>1. c \in S /\ d \in S
      BY <1>8
    <2>2. Rank(p, c) < Rank(p, d) \/ Rank(p, d) < Rank(p, c)
      BY <2>1, <1>3, <1>7, <1>9
    <2>3. Rank(p, c) \in Nat /\ Rank(p, d) \in Nat
      BY <2>1, <1>6, <1>9
    <2>4. QED
      BY <2>2, <2>3
  <1>12. ASSUME S # {}
         PROVE  Chosen(p) # {}
    <2> DEFINE ranks == {Rank(p, c) : c \in S}
    <2>1. ranks \in SUBSET Nat /\ ranks # {}
      BY <1>6, <1>9, <1>12
    <2> HIDE DEF ranks
    <2>2. PICK m \in ranks : \A k \in ranks : m <= k
      BY <2>1, LeastNatural
    <2>3. PICK c \in S : Rank(p, c) = m
      BY DEF ranks
    <2>4. nearer(c) = {}
      <3> SUFFICES ASSUME NEW d \in nearer(c)
                   PROVE  FALSE
        OBVIOUS
      <3>1. d \in S /\ Nearer(p, d, c)
        BY DEF nearer
      <3>2. Rank(p, d) < Rank(p, c) /\ Rank(p, d) \in ranks
        BY <3>1, <1>7, <1>9 DEF ranks
      <3>3. Rank(p, d) \in Nat /\ Rank(p, c) \in Nat
        BY <3>1, <1>6, <1>9
      <3>4. QED
        BY <2>2, <2>3, <3>2, <3>3
    <2>5. Cardinality(nearer(c)) = 0
      BY <2>4, FS_EmptySet
    <2>6. QED
      BY <2>5, <1>8, Sizes
  <1>13. Chosen(p) \subseteq Centroids
    BY <1>1, <1>8
  <1>14. Chosen(p) = {} <=> S = {}
    BY <1>8, <1>12
  <1>15. QED
    BY <1>10, <1>11, <1>13, <1>14 DEF S

\* taken is the row of u after the candidates in seen: the R nearest of them, in order.
ExactRow(u, taken, seen) ==
  /\ taken \in Seq(Points)
  /\ Ascends(u, taken) /\ IsInjective(taken)
  /\ ToSet(taken) \subseteq seen \ {u}
  /\ Len(taken) < R => ToSet(taken) = seen \ {u}
  /\ Len(taken) <= R
  /\ \A v \in seen \ ({u} \cup ToSet(taken)), i \in DOMAIN taken :
       Dist[<<u, taken[i]>>] <= Dist[<<u, v>>]

\* One candidate more, no nearer than those before it.
LEMMA TakeOne ==
  ASSUME NEW u \in Points, NEW v \in Points, NEW seen \in SUBSET Points, NEW taken,
         ExactRow(u, taken, seen), \A w \in seen : Dist[<<u, w>>] <= Dist[<<u, v>>]
  PROVE  ExactRow(u, Take(u, taken, v), seen \cup {v})
PROOF
  <1> DEFINE n == Len(taken)
             more == Append(taken, v)
  <1>1. /\ taken \in Seq(Points) /\ n \in Nat /\ DOMAIN taken = 1 .. n
        /\ \A i \in 1 .. n : taken[i] \in Points
    BY DEF ExactRow
  <1>2. ToSet(taken) = {taken[i] : i \in 1 .. n}
    BY <1>1 DEF ToSet
  <1>3. /\ \A i \in 1 .. n - 1 : Dist[<<u, taken[i]>>] <= Dist[<<u, taken[i + 1]>>]
        /\ \A i, j \in 1 .. n : taken[i] = taken[j] => i = j
        /\ ToSet(taken) \subseteq seen \ {u}
        /\ n < R => ToSet(taken) = seen \ {u}
        /\ n <= R
        /\ \A w \in seen \ ({u} \cup ToSet(taken)), i \in 1 .. n :
             Dist[<<u, taken[i]>>] <= Dist[<<u, w>>]
    BY <1>1 DEF ExactRow, Ascends, IsInjective
  <1>4. \A i \in 1 .. n : taken[i] \in seen /\ Dist[<<u, taken[i]>>] <= Dist[<<u, v>>]
    BY <1>2, <1>3
  <1>5. CASE v = u \/ v \in ToSet(taken) \/ n >= R
    <2>1. Take(u, taken, v) = taken
      BY <1>5 DEF Take
    <2>2. ToSet(taken) \subseteq (seen \cup {v}) \ {u}
      BY <1>3
    <2>3. n < R => ToSet(taken) = (seen \cup {v}) \ {u}
      BY <1>1, <1>3, <1>5, Sizes
    <2>4. \A w \in (seen \cup {v}) \ ({u} \cup ToSet(taken)), i \in 1 .. n :
            Dist[<<u, taken[i]>>] <= Dist[<<u, w>>]
      BY <1>3, <1>4
    <2>5. QED
      BY <1>1, <2>1, <2>2, <2>3, <2>4 DEF ExactRow
  <1>6. CASE v # u /\ v \notin ToSet(taken) /\ n < R
    <2>1. Take(u, taken, v) = more
      <3>1. ~(n >= R)
        BY <1>1, <1>6, Sizes
      <3>2. QED
        BY <3>1, <1>6 DEF Take
    <2>2. /\ more \in Seq(Points) /\ Len(more) = n + 1 /\ DOMAIN more = 1 .. n + 1
          /\ \A i \in 1 .. n : more[i] = taken[i]
          /\ more[n + 1] = v
      BY <1>1
    <2> HIDE DEF more, n
    <2>3. ToSet(more) = ToSet(taken) \cup {v}
      <3>1. \A i \in 1 .. n : i \in 1 .. n + 1
        BY <1>1
      <3>2. \A i \in 1 .. n + 1 : i \in 1 .. n \/ i = n + 1
        BY <1>1
      <3>3. n + 1 \in 1 .. n + 1
        BY <1>1
      <3>4. ToSet(more) = {more[i] : i \in 1 .. n + 1}
        BY <2>2 DEF ToSet
      <3>5. QED
        BY <3>1, <3>2, <3>3, <3>4, <2>2, <1>2
    <2>4. ToSet(more) = (seen \cup {v}) \ {u}
      BY <2>3, <1>3, <1>6
    <2>5. Ascends(u, more)
      <3> SUFFICES ASSUME NEW i \in 1 .. n
                   PROVE  Dist[<<u, more[i]>>] <= Dist[<<u, more[i + 1]>>]
        BY <2>2, <1>1 DEF Ascends
      <3>1. CASE i = n
        BY <3>1, <2>2, <1>4
      <3>2. CASE i # n
        <4>1. i \in 1 .. n - 1 /\ i + 1 \in 1 .. n
          BY <3>2, <1>1
        <4>2. QED
          BY <4>1, <2>2, <1>3
      <3>3. QED
        BY <3>1, <3>2
    <2>6. IsInjective(more)
      <3> SUFFICES ASSUME NEW i \in 1 .. n + 1, NEW j \in 1 .. n + 1, more[i] = more[j]
                   PROVE  i = j
        BY <2>2 DEF IsInjective
      <3>1. \A k \in 1 .. n : more[k] # v
        BY <2>2, <1>2, <1>6
      <3>2. \A k \in 1 .. n + 1 : k \in 1 .. n \/ k = n + 1
        BY <1>1
      <3>3. QED
        BY <3>1, <3>2, <2>2, <1>3
    <2>7. n + 1 <= R
      BY <1>1, <1>6, Sizes
    <2>8. QED
      BY <2>1, <2>2, <2>4, <2>5, <2>6, <2>7 DEF ExactRow
  <1>7. QED
    BY <1>1, <1>5, <1>6, Sizes

\* The walk over sorted candidates takes the R nearest.
LEMMA TakenExact ==
  ASSUME NEW u \in Points, NEW sorted \in Seq(Points), Ascends(u, sorted)
  PROVE  ExactRow(u, Taken(u, sorted), ToSet(sorted))
PROOF
  <1> DEFINE n == Len(sorted)
             walk(f) == [i \in 0 .. n |-> IF i = 0 THEN <<>> ELSE Take(u, f[i - 1], sorted[i])]
             taken == CHOOSE f : f = walk(f)
             step == [p \in (1 .. n) \X Seq(Points) |-> Take(u, p[2], sorted[p[1]])]
  <1>1. n \in Nat /\ DOMAIN sorted = 1 .. n /\ \A i \in 1 .. n : sorted[i] \in Points
    OBVIOUS
  <1>2. Taken(u, sorted) = taken[n]
    BY DEF Taken
  <1> HIDE DEF n
  <1>3. \A i \in 1 .. n : \A t \in Seq(Points) : step[<<i, t>>] = Take(u, t, sorted[i])
    OBVIOUS
  <1>4. step \in [(1 .. n) \X Seq(Points) -> Seq(Points)]
    <2>1. \A i \in 1 .. n : \A t \in Seq(Points) : Take(u, t, sorted[i]) \in Seq(Points)
      BY <1>1 DEF Take
    <2>2. QED
      BY <2>1
  <1> HIDE DEF step
  <1>5. PICK g \in [0 .. n -> Seq(Points)] : Recursive(g, <<>>, step, n)
    <2>1. <<>> \in Seq(Points)
      OBVIOUS
    <2>2. QED
      BY <1>1, <2>1, <1>4, Recursion
  <1>6. \A i \in 0 .. n : g[i] = IF i = 0 THEN <<>> ELSE Take(u, g[i - 1], sorted[i])
    <2> SUFFICES ASSUME NEW i \in 0 .. n
                 PROVE  g[i] = IF i = 0 THEN <<>> ELSE Take(u, g[i - 1], sorted[i])
      OBVIOUS
    <2>1. CASE i = 0
      BY <2>1, <1>5 DEF Recursive
    <2>2. CASE i # 0
      <3>1. i \in 1 .. n /\ i - 1 \in 0 .. n
        BY <2>2, <1>1
      <3>2. g[i] = step[<<i, g[i - 1]>>]
        BY <2>2, <1>5 DEF Recursive
      <3>3. QED
        BY <3>1, <3>2, <2>2, <1>3
    <2>3. QED
      BY <2>1, <2>2
  <1>7. g = walk(g)
    <2>1. g = [i \in 0 .. n |-> g[i]]
      OBVIOUS
    <2>2. QED
      BY <2>1, <1>6
  <1>8. taken = walk(taken)
    BY <1>7
  <1> HIDE DEF taken
  <1>9. \A i \in 0 .. n : taken[i] = IF i = 0 THEN <<>> ELSE Take(u, taken[i - 1], sorted[i])
    BY <1>8
  <1> DEFINE seen(i) == {sorted[j] : j \in 1 .. i}
             done == {i \in 0 .. n : ExactRow(u, taken[i], seen(i))}
  <1>10. \A i, j \in 1 .. n : i <= j => Dist[<<u, sorted[i]>>] <= Dist[<<u, sorted[j]>>]
    <2> DEFINE d == [i \in 1 .. n |-> Dist[<<u, sorted[i]>>]]
    <2>1. d \in [1 .. n -> Nat]
      BY <1>1, DistAssumption
    <2>2. \A i \in 1 .. n - 1 : i \in 1 .. n /\ i + 1 \in 1 .. n
      BY <1>1
    <2>3. \A i \in 1 .. n - 1 : d[i] <= d[i + 1]
      BY <2>2 DEF Ascends, n
    <2>4. \A i \in 1 .. n : d[i] = Dist[<<u, sorted[i]>>]
      OBVIOUS
    <2> HIDE DEF d
    <2>5. \A i, j \in 1 .. n : i <= j => d[i] <= d[j]
      BY <2>1, <2>3, <1>1, NeverFalls
    <2>6. QED
      BY <2>4, <2>5
  <1>11. 0 \in done
    <2>1. taken[0] = <<>> /\ seen(0) = {}
      BY <1>1, <1>9
    <2>2. ExactRow(u, <<>>, {})
      BY Sizes DEF ExactRow, Ascends, IsInjective, ToSet
    <2>3. 0 \in 0 .. n
      BY <1>1
    <2> HIDE DEF seen
    <2>4. QED
      BY <2>1, <2>2, <2>3
  <1>12. ASSUME NEW i \in 1 .. n, i - 1 \in done
         PROVE  i \in done
    <2>1. ExactRow(u, taken[i - 1], seen(i - 1))
      BY <1>12
    <2>2. sorted[i] \in Points /\ seen(i - 1) \in SUBSET Points
      <3>1. \A j \in 1 .. i - 1 : j \in 1 .. n
        BY <1>1
      <3>2. QED
        BY <3>1, <1>1
    <2>3. \A w \in seen(i - 1) : Dist[<<u, w>>] <= Dist[<<u, sorted[i]>>]
      <3>1. \A j \in 1 .. i - 1 : j \in 1 .. n /\ j <= i
        BY <1>1
      <3>2. QED
        BY <3>1, <1>10
    <2>4. seen(i) = seen(i - 1) \cup {sorted[i]}
      <3>1. \A j \in 1 .. i : j \in 1 .. i - 1 \/ j = i
        BY <1>1
      <3>2. \A j \in 1 .. i - 1 : j \in 1 .. i
        BY <1>1
      <3>3. i \in 1 .. i
        BY <1>1
      <3>4. QED
        BY <3>1, <3>2, <3>3
    <2>5. taken[i] = Take(u, taken[i - 1], sorted[i])
      BY <1>9, <1>1
    <2> HIDE DEF seen
    <2>6. ExactRow(u, Take(u, taken[i - 1], sorted[i]), seen(i - 1) \cup {sorted[i]})
      BY <2>1, <2>2, <2>3, TakeOne
    <2>7. i \in 0 .. n
      BY <1>1
    <2>8. QED
      BY <2>4, <2>5, <2>6, <2>7
  <1> HIDE DEF done, seen
  <1>13. n \in done
    <2>1. 0 .. n \subseteq done
      BY <1>1, <1>11, <1>12, Induction
    <2>2. QED
      BY <2>1, <1>1
  <1>14. ToSet(sorted) = seen(n)
    BY <1>1 DEF ToSet, seen
  <1>15. QED
    BY <1>2, <1>13, <1>14 DEF done

-----------------------------------------------------------------------------
(***************************************************************************)
(* The inductive invariant.                                                *)
(***************************************************************************)

\* The phases before the readers are opened.
Before == {"assign", "split", "build"}

\* The phases in which the merge is under way, or ended by itself.
Merging == {"merge", "missing", "trailing", "done"}

\* The types of the variables.
TypeInv ==
  /\ row \in [Points -> Rows]
  /\ phase \in Before \cup {"merge"} \cup Final
  /\ cursor \in 0 .. N + Chunk - 1
  /\ todo \in [Workers -> Seq(Points)]
  /\ tid \in [Workers -> -1 .. Threads - 1] /\ tcounter \in Nat
  /\ bucket \in [0 .. Threads - 1 -> [Centroids -> Seq(Points)]]
  /\ shard \in Seq(Seq(Points)) /\ at \in Nat \ {0}
  /\ files \in Seq(Seq([gid : Points, list : Seq(Points)]))
  /\ expect \in 0 .. N
  /\ offsets \in Seq(Nat) /\ neighbors \in Seq(Points)

\* A reader stands at a record of its file, or past the last one, and is good only at a record.
ReadersInv ==
  /\ phase \in Before => DOMAIN pos = {}
  /\ phase \in Merging => DOMAIN pos = DOMAIN files
  /\ DOMAIN ok = DOMAIN pos /\ DOMAIN pos \subseteq DOMAIN files
  /\ \A f \in DOMAIN pos :
       /\ pos[f] \in 1 .. Len(files[f]) + 1 /\ ok[f] \in BOOLEAN
       /\ ok[f] => pos[f] <= Len(files[f])

\* tcounter counts the workers that drew a thread id, and is past every id drawn.
AssignInv ==
  /\ tcounter = Cardinality({w \in Workers : tid[w] # -1})
  /\ \A w \in Workers : tid[w] < tcounter
  /\ BucketsPrivate

\* A point not yet claimed, or claimed and not yet placed.
Awaits(p) == cursor <= p \/ \E w \in Workers : p \in ToSet(todo[w])

\* Every point waits once, or is in one bucket of each centroid it chose.
PlaceInv ==
  phase = "assign" =>
    /\ \A v, w \in Workers : \A i \in DOMAIN todo[v] : \A j \in DOMAIN todo[w] :
         todo[v][i] = todo[w][j] => v = w /\ i = j
    /\ \A w \in Workers : \A i \in DOMAIN todo[w] : todo[w][i] < cursor
    /\ \A c \in Centroids : \A s, t \in 0 .. Threads - 1 :
         \A i \in DOMAIN bucket[s][c] : \A j \in DOMAIN bucket[t][c] :
           bucket[s][c][i] = bucket[t][c][j] => s = t /\ i = j
    /\ \A c \in Centroids : \A t \in 0 .. Threads - 1 : \A i \in DOMAIN bucket[t][c] :
         c \in Chosen(bucket[t][c][i]) /\ ~Awaits(bucket[t][c][i])
    /\ \A p \in Points : \A c \in Chosen(p) :
         Awaits(p) \/ \E t \in 0 .. Threads - 1 : p \in ToSet(bucket[t][c])

\* The shards that stem from a centroid share out the points that chose it.
Sharding(origin) ==
  /\ origin \in [DOMAIN shard -> Centroids] /\ K <= Len(shard)
  /\ \A s \in DOMAIN shard : Climbs(shard[s])
  /\ \A s \in DOMAIN shard : \A p \in ToSet(shard[s]) : origin[s] \in Chosen(p)
  /\ \A p \in Points : \A c \in Chosen(p) :
       \E s \in DOMAIN shard : origin[s] = c /\ p \in ToSet(shard[s])
  /\ \A s, t \in DOMAIN shard : \A p \in ToSet(shard[s]) :
       p \in ToSet(shard[t]) /\ origin[s] = origin[t] => s = t
  /\ \A s \in K + 1 .. Len(shard) : shard[s] # <<>>

\* There are shards from the gathering to the merge, and those behind the loop are small enough.
ShardInv ==
  /\ phase \in {"assign", "merge"} => shard = <<>>
  /\ phase \in {"split", "build"} => shard # <<>> /\ at <= Len(shard) + 1
  /\ shard # <<>> => \E origin \in [DOMAIN shard -> Centroids] : Sharding(origin)
  /\ phase = "split" => \A s \in DOMAIN shard : s < at => Len(shard[s]) <= Cap
  /\ phase = "build" => \A s \in DOMAIN shard : Len(shard[s]) <= Cap

\* Some file has a record of p.
InFile(p) == \E f \in DOMAIN files : \E i \in DOMAIN files[f] : files[f][i].gid = p

\* The records of a file climb, and the files hold the points of the shards built so far.
FileInv ==
  /\ phase \in {"assign", "split"} => files = <<>>
  /\ \A f \in DOMAIN files :
       /\ files[f] # <<>>
       /\ \A i, j \in DOMAIN files[f] : i < j => files[f][i].gid < files[f][j].gid
  /\ phase = "build" =>
       \A p \in Points : InFile(p) <=> \E s \in DOMAIN shard : s < at /\ p \in ToSet(shard[s])
  /\ phase \in Merging => \A p \in Points : InFile(p) <=> Reached(p) # {}

\* The offsets climb to the end of the neighbors, one for each point merged.
CsrInv ==
  /\ phase \in Before => expect = 0 /\ neighbors = <<>>
  /\ Len(offsets) = expect + 1 /\ offsets[1] = 0 /\ offsets[expect + 1] = Len(neighbors)
  /\ \A i \in 1 .. expect : offsets[i] <= offsets[i + 1]

\* The inductive invariant, whatever faults strike.
IInv ==
  /\ TypeInv /\ ReadersInv /\ AssignInv /\ PlaceInv
  /\ ShardInv /\ FileInv /\ CsrInv

\* What holds besides when no header is lost: every reader has passed exactly the records below
\* expect, so no id was skipped, and the rows merged are exact.
MergeInv ==
  /\ phase \in Merging =>
       /\ \A f \in DOMAIN files : ok[f] <=> pos[f] <= Len(files[f])
       /\ \A f \in DOMAIN files : \A i \in DOMAIN files[f] : i < pos[f] <=> files[f][i].gid < expect
       /\ \A u \in 0 .. expect - 1 : Reached(u) # {} /\ ExactRow(u, RowOf(u), Offered(u))
  /\ phase = "missing" => expect < N /\ ~InFile(expect)
  /\ phase # "trailing"
  /\ phase = "done" => expect = N /\ \A f \in DOMAIN files : ~ok[f]

\* There are no more workers than threads, and at least one.
LEMMA WorkersFew ==
  /\ IsFiniteSet(Workers) /\ Cardinality(Workers) \in Nat /\ Cardinality(Workers) <= Threads
PROOF
  <1>1. IsFiniteSet({1}) /\ Cardinality({1}) = 1
    BY FS_Singleton
  <1>2. IsFiniteSet(1 .. Threads) /\ Cardinality(1 .. Threads) = Threads
    BY Sizes, FS_Interval
  <1>3. QED
    BY <1>1, <1>2, Sizes DEF Workers

\* Before the first claim every point waits.
LEMMA InitInv == Init => IInv /\ MergeInv
PROOF
  <1> SUFFICES ASSUME Init
               PROVE  IInv /\ MergeInv
    OBVIOUS
  <1>1. /\ row \in [Points -> Rows] /\ phase = "assign"
        /\ cursor = 0 /\ tcounter = 0
        /\ todo = [w \in Workers |-> <<>>] /\ tid = [w \in Workers |-> -1]
        /\ bucket = [t \in 0 .. Threads - 1 |-> [k \in Centroids |-> <<>>]]
        /\ shard = <<>> /\ at = 1 /\ files = <<>>
        /\ pos = <<>> /\ ok = <<>> /\ expect = 0
        /\ offsets = <<0>> /\ neighbors = <<>>
    BY DEF Init, NoWorkers
  <1>2. TypeInv
    <2>1. \A S : <<>> \in Seq(S)
      OBVIOUS
    <2>2. <<0>> \in Seq(Nat)
      OBVIOUS
    <2>3. todo \in [Workers -> Seq(Points)] /\ tid \in [Workers -> -1 .. Threads - 1]
      BY <1>1, <2>1, Sizes
    <2>4. bucket \in [0 .. Threads - 1 -> [Centroids -> Seq(Points)]]
      BY <1>1, <2>1
    <2>5. cursor \in 0 .. N + Chunk - 1 /\ expect \in 0 .. N
      BY <1>1, Sizes
    <2>6. QED
      BY <1>1, <2>1, <2>2, <2>3, <2>4, <2>5 DEF TypeInv, Before
  <1>3. ReadersInv
    BY <1>1 DEF ReadersInv, Before, Merging
  <1>4. AssignInv
    <2>1. {w \in Workers : tid[w] # -1} = {}
      BY <1>1
    <2>2. Cardinality({w \in Workers : tid[w] # -1}) = 0
      BY <2>1, FS_EmptySet
    <2>3. QED
      BY <1>1, <2>2 DEF AssignInv, BucketsPrivate
  <1>5. PlaceInv
    <2>1. \A w \in Workers : DOMAIN todo[w] = {} /\ todo[w] = <<>>
      BY <1>1
    <2>2. \A t \in 0 .. Threads - 1, c \in Centroids : DOMAIN bucket[t][c] = {}
      BY <1>1
    <2>3. \A p \in Points : Awaits(p)
      BY <1>1 DEF Awaits, Points
    <2>4. QED
      BY <2>1, <2>2, <2>3 DEF PlaceInv
  <1>6. ShardInv
    BY <1>1 DEF ShardInv
  <1>7. FileInv
    BY <1>1 DEF FileInv, Merging
  <1>8. CsrInv
    BY <1>1 DEF CsrInv, Before
  <1>9. MergeInv
    BY <1>1 DEF MergeInv, Merging
  <1>10. QED
    BY <1>2, <1>3, <1>4, <1>5, <1>6, <1>7, <1>8, <1>9 DEF IInv

\* Claim: the points of a chunk wait in a worker's hands instead of beyond the cursor.
LEMMA ClaimStep ==
  ASSUME IInv, NEW w \in Workers, Claim(w)
  PROVE  IInv'
PROOF
  <1>1. /\ phase = "assign" /\ todo[w] = <<>> /\ cursor < N
        /\ todo' = [todo EXCEPT ![w] = ChunkFrom(cursor)]
        /\ cursor' = cursor + Chunk
        /\ UNCHANGED <<row, phase, tid, tcounter, bucket, shard, at, files, pos, ok, expect,
                       offsets, neighbors>>
    BY DEF Claim, inputVars, mergeVars
  <1>2. /\ cursor \in Nat /\ todo \in [Workers -> Seq(Points)]
        /\ bucket \in [0 .. Threads - 1 -> [Centroids -> Seq(Points)]]
    BY Sizes DEF IInv, TypeInv
  <1> DEFINE m == IF cursor + Chunk < N THEN Chunk ELSE N - cursor
             chunk == ChunkFrom(cursor)
  <1>3. /\ m \in Nat /\ m <= Chunk /\ cursor + m <= N
        /\ cursor + m = cursor + Chunk \/ cursor + m = N
    BY <1>1, <1>2, Sizes
  <1>4. /\ chunk \in Seq(Points) /\ DOMAIN chunk = 1 .. m
        /\ \A i \in 1 .. m : chunk[i] = cursor + i - 1
    <2>1. chunk = [i \in 1 .. m |-> cursor + i - 1]
      BY DEF ChunkFrom
    <2> HIDE DEF m
    <2>2. \A i \in 1 .. m : cursor + i - 1 \in Points
      BY <1>2, <1>3, Sizes DEF Points
    <2>3. chunk \in [1 .. m -> Points]
      BY <2>1, <2>2
    <2>4. QED
      BY <1>3, <2>1, <2>3
  <1> HIDE DEF m, chunk
  <1>5. /\ todo' \in [Workers -> Seq(Points)]
        /\ todo'[w] = chunk /\ \A v \in Workers \ {w} : todo'[v] = todo[v]
    BY <1>1, <1>2, <1>4 DEF chunk
  <1>6. TypeInv'
    <2>1. cursor' \in 0 .. N + Chunk - 1
      BY <1>1, <1>2, Sizes
    <2>2. QED
      BY <1>1, <1>5, <2>1 DEF IInv, TypeInv
  <1>7. ReadersInv' /\ AssignInv' /\ FileInv' /\ CsrInv'
    BY <1>1 DEF IInv, ReadersInv, AssignInv, BucketsPrivate, FileInv, CsrInv, InFile, Reached
  <1>8. ShardInv'
    BY <1>1 DEF IInv, ShardInv
  <1>9. PlaceInv'
    <2>1. /\ \A v, x \in Workers : \A i \in DOMAIN todo[v] : \A j \in DOMAIN todo[x] :
               todo[v][i] = todo[x][j] => v = x /\ i = j
          /\ \A v \in Workers : \A i \in DOMAIN todo[v] : todo[v][i] < cursor
          /\ \A c \in Centroids : \A s, t \in 0 .. Threads - 1 :
               \A i \in DOMAIN bucket[s][c] : \A j \in DOMAIN bucket[t][c] :
                 bucket[s][c][i] = bucket[t][c][j] => s = t /\ i = j
          /\ \A c \in Centroids : \A t \in 0 .. Threads - 1 : \A i \in DOMAIN bucket[t][c] :
               c \in Chosen(bucket[t][c][i]) /\ ~Awaits(bucket[t][c][i])
          /\ \A p \in Points : \A c \in Chosen(p) :
               Awaits(p) \/ \E t \in 0 .. Threads - 1 : p \in ToSet(bucket[t][c])
      BY <1>1 DEF IInv, PlaceInv
    <2>2. \A v \in Workers : \A i \in DOMAIN todo'[v] : todo'[v][i] \in Nat
      <3>1. \A x \in Points : x \in Nat
        BY DEF Points
      <3>2. QED
        BY <1>5, <3>1
    <2>3. \A i \in DOMAIN chunk : chunk[i] \in Nat /\ cursor <= chunk[i] /\ chunk[i] < cursor'
      BY <1>1, <1>2, <1>3, <1>4, Sizes
    <2>4. \A v \in Workers : \A i \in DOMAIN todo'[v] : todo'[v][i] < cursor'
      BY <1>1, <1>2, <1>5, <2>1, <2>2, <2>3, Sizes
    <2>5. \A v, x \in Workers : \A i \in DOMAIN todo'[v] : \A j \in DOMAIN todo'[x] :
            todo'[v][i] = todo'[x][j] => v = x /\ i = j
      <3> SUFFICES ASSUME NEW v \in Workers, NEW x \in Workers, NEW i \in DOMAIN todo'[v],
                          NEW j \in DOMAIN todo'[x], todo'[v][i] = todo'[x][j]
                   PROVE  v = x /\ i = j
        OBVIOUS
      <3>1. CASE v = w /\ x = w
        BY <3>1, <1>2, <1>4, <1>5
      <3>2. CASE v = w /\ x # w
        BY <3>2, <1>2, <1>5, <2>1, <2>2, <2>3
      <3>3. CASE v # w /\ x = w
        BY <3>3, <1>2, <1>5, <2>1, <2>2, <2>3
      <3>4. CASE v # w /\ x # w
        BY <3>4, <1>5, <2>1
      <3>5. QED
        BY <3>1, <3>2, <3>3, <3>4
    <2>6. \A p \in Points : Awaits(p)' <=> Awaits(p)
      <3> SUFFICES ASSUME NEW p \in Points
                   PROVE  Awaits(p)' <=> Awaits(p)
        OBVIOUS
      <3>0. p \in Nat /\ p < N
        BY Sizes DEF Points
      <3>1. p \in ToSet(chunk) <=> cursor <= p /\ ~(cursor' <= p)
        <4>1. p \in ToSet(chunk) => cursor <= p /\ ~(cursor' <= p)
          BY <2>3, <1>1, <1>2, Sizes DEF ToSet
        <4>2. ASSUME cursor <= p, ~(cursor' <= p)
              PROVE  p \in ToSet(chunk)
          <5>1. p - cursor + 1 \in 1 .. m /\ cursor + (p - cursor + 1) - 1 = p
            BY <4>2, <3>0, <1>1, <1>2, <1>3, Sizes
          <5>2. QED
            BY <5>1, <1>4 DEF ToSet
        <4>3. QED
          BY <4>1, <4>2
      <3>2. ToSet(todo[w]) = {}
        BY <1>1 DEF ToSet
      <3>3. cursor' <= p => cursor <= p
        BY <3>0, <1>1, <1>2, Sizes
      <3>4. QED
        BY <1>5, <3>1, <3>2, <3>3 DEF Awaits
    <2>7. \A p : Chosen(p)' = Chosen(p)
      BY <1>1 DEF Chosen, Reached, Nearer
    <2>8. \A c \in Centroids : \A t \in 0 .. Threads - 1 : \A i \in DOMAIN bucket[t][c] :
            bucket[t][c][i] \in Points
      BY <1>2
    <2>9. QED
      BY <1>1, <2>1, <2>4, <2>5, <2>6, <2>7, <2>8 DEF PlaceInv
  <1>10. QED
    BY <1>6, <1>7, <1>8, <1>9 DEF IInv

\* Place: the first point in a worker's hands goes to the buckets of the centroids it chose.
LEMMA PlaceStep ==
  ASSUME IInv, NEW w \in Workers, Place(w)
  PROVE  IInv'
PROOF
  <1>p. PICK p : p = Head(todo[w])
    OBVIOUS
  <1>t. PICK t : t = TidOf(w)
    OBVIOUS
  <1>1. /\ phase = "assign" /\ todo[w] # <<>>
        /\ tid' = [tid EXCEPT ![w] = t]
        /\ tcounter' = IF tid[w] < 0 THEN tcounter + 1 ELSE tcounter
        /\ bucket' = [bucket EXCEPT ![t] =
             [c \in Centroids |->
                IF c \in Chosen(p) THEN Append(bucket[t][c], p) ELSE bucket[t][c]]]
        /\ todo' = [todo EXCEPT ![w] = Tail(todo[w])]
        /\ UNCHANGED <<row, phase, cursor, shard, at, files, pos, ok, expect, offsets, neighbors>>
    BY <1>p, <1>t DEF Place, inputVars, mergeVars
  <1>2. /\ cursor \in Nat /\ todo \in [Workers -> Seq(Points)]
        /\ tid \in [Workers -> -1 .. Threads - 1] /\ tcounter \in Nat
        /\ bucket \in [0 .. Threads - 1 -> [Centroids -> Seq(Points)]]
        /\ row \in [Points -> Rows]
    BY Sizes DEF IInv, TypeInv
  <1>3. t \in 0 .. Threads - 1
    <2>1. tcounter % Threads \in 0 .. Threads - 1
      BY <1>2, Sizes
    <2>2. tid[w] \in -1 .. Threads - 1
      BY <1>2
    <2>3. ~(tid[w] < 0) => tid[w] \in 0 .. Threads - 1
      BY <2>2, Sizes
    <2>4. QED
      BY <2>1, <2>3, <1>t DEF TidOf
  <1>n. PICK n : n = Len(todo[w])
    OBVIOUS
  <1>4. /\ n \in Nat /\ n > 0 /\ DOMAIN todo[w] = 1 .. n /\ todo[w] \in Seq(Points)
        /\ p \in Points /\ p = todo[w][1]
    BY <1>1, <1>2, <1>p, <1>n
  <1>5. /\ Tail(todo[w]) \in Seq(Points) /\ DOMAIN Tail(todo[w]) = 1 .. n - 1
        /\ \A i \in 1 .. n - 1 : Tail(todo[w])[i] = todo[w][i + 1]
    BY <1>1, <1>4, <1>n
  <1>6. /\ todo' \in [Workers -> Seq(Points)] /\ todo'[w] = Tail(todo[w])
        /\ \A v \in Workers \ {w} : todo'[v] = todo[v]
    BY <1>1, <1>2, <1>5
  <1>7. /\ tid' \in [Workers -> -1 .. Threads - 1] /\ tid'[w] = t
        /\ \A v \in Workers \ {w} : tid'[v] = tid[v]
    BY <1>1, <1>2, <1>3
  <1>8. \A s \in 0 .. Threads - 1, c \in Centroids :
          bucket'[s][c] = IF s = t /\ c \in Chosen(p) THEN Append(bucket[s][c], p) ELSE bucket[s][c]
    BY <1>1, <1>2, <1>3
  <1>9. bucket' \in [0 .. Threads - 1 -> [Centroids -> Seq(Points)]]
    <2>1. \A c \in Centroids :
            Append(bucket[t][c], p) \in Seq(Points) /\ bucket[t][c] \in Seq(Points)
      BY <1>2, <1>3, <1>4
    <2>2. [c \in Centroids |-> IF c \in Chosen(p) THEN Append(bucket[t][c], p) ELSE bucket[t][c]]
            \in [Centroids -> Seq(Points)]
      BY <2>1
    <2>3. QED
      BY <1>1, <1>2, <2>2
  <1>10. TypeInv'
    BY <1>1, <1>2, <1>6, <1>7, <1>9 DEF IInv, TypeInv
  <1>11. ReadersInv' /\ FileInv' /\ CsrInv'
    BY <1>1 DEF IInv, ReadersInv, FileInv, CsrInv, InFile, Reached
  <1>12. ShardInv'
    BY <1>1 DEF IInv, ShardInv
  <1>13. AssignInv'
    <2> DEFINE drawn == {v \in Workers : tid[v] # -1}
    <2>1. /\ tcounter = Cardinality(drawn) /\ \A v \in Workers : tid[v] < tcounter
          /\ \A v, x \in Workers : tid[v] = tid[x] /\ tid[v] # -1 => v = x
      BY DEF IInv, AssignInv, BucketsPrivate
    <2>2. CASE tid[w] < 0
      <3>1. tid[w] = -1
        BY <2>2, <1>2
      <3>2. w \notin drawn /\ drawn \subseteq Workers
        BY <3>1
      <3>3. IsFiniteSet(drawn) /\ IsFiniteSet(drawn \cup {w})
        BY <3>2, WorkersFew, FS_Subset, FS_AddElement
      <3>4. Cardinality(drawn \cup {w}) = tcounter + 1
        BY <3>2, <3>3, <2>1, FS_AddElement
      <3>5. Cardinality(drawn \cup {w}) <= Cardinality(Workers)
        BY <3>2, WorkersFew, FS_Subset
      <3>6. tcounter < Threads
        BY <3>4, <3>5, WorkersFew, <1>2, Sizes
      <3>7. t = tcounter
        <4>1. tcounter % Threads = tcounter
          <5>1. tcounter \in 0 .. Threads - 1 /\ Threads \in Nat /\ Threads > 0
            BY <3>6, <1>2, Sizes
          <5>2. QED
            BY <5>1
        <4>2. QED
          BY <4>1, <2>2, <1>t DEF TidOf
      <3>8. {v \in Workers : tid'[v] # -1} = drawn \cup {w}
        BY <1>2, <1>7, <3>7
      <3> HIDE DEF drawn
      <3>9. \A v \in Workers : tid'[v] < tcounter'
        BY <1>1, <1>2, <1>7, <2>1, <2>2, <3>7
      <3>10. \A v, x \in Workers : tid'[v] = tid'[x] /\ tid'[v] # -1 => v = x
        <4>1. \A v \in Workers \ {w} : tid'[v] # tid'[w]
          <5>1. \A v \in Workers : tid[v] \in Int /\ tid[v] < tcounter
            BY <1>2, <2>1
          <5>2. QED
            BY <5>1, <1>2, <1>7, <3>7
        <4>2. QED
          BY <4>1, <1>7, <2>1
      <3>11. tcounter' = tcounter + 1
        BY <1>1, <2>2
      <3>12. QED
        BY <3>4, <3>8, <3>9, <3>10, <3>11 DEF AssignInv, BucketsPrivate
    <2>3. CASE ~(tid[w] < 0)
      <3>1. t = tid[w]
        BY <2>3, <1>t DEF TidOf
      <3>2. tid' = tid /\ tcounter' = tcounter
        BY <1>1, <1>2, <2>3, <3>1
      <3>3. QED
        BY <3>2 DEF IInv, AssignInv, BucketsPrivate
    <2>4. QED
      BY <2>2, <2>3
  <1>14. PlaceInv'
    <2>1. /\ \A v, x \in Workers : \A i \in DOMAIN todo[v] : \A j \in DOMAIN todo[x] :
               todo[v][i] = todo[x][j] => v = x /\ i = j
          /\ \A v \in Workers : \A i \in DOMAIN todo[v] : todo[v][i] < cursor
          /\ \A c \in Centroids : \A r, s \in 0 .. Threads - 1 :
               \A i \in DOMAIN bucket[r][c] : \A j \in DOMAIN bucket[s][c] :
                 bucket[r][c][i] = bucket[s][c][j] => r = s /\ i = j
          /\ \A c \in Centroids : \A s \in 0 .. Threads - 1 : \A i \in DOMAIN bucket[s][c] :
               c \in Chosen(bucket[s][c][i]) /\ ~Awaits(bucket[s][c][i])
          /\ \A q \in Points : \A c \in Chosen(q) :
               Awaits(q) \/ \E s \in 0 .. Threads - 1 : q \in ToSet(bucket[s][c])
      BY <1>1 DEF IInv, PlaceInv
    <2>2. \A i \in DOMAIN todo'[w] :
            /\ i \in 1 .. n - 1 /\ i + 1 \in DOMAIN todo[w] /\ todo'[w][i] = todo[w][i + 1]
      BY <1>4, <1>5, <1>6
    <2>3. \A v \in Workers : \A i \in DOMAIN todo'[v] : todo'[v][i] < cursor'
      BY <1>1, <1>6, <2>1, <2>2
    <2>4. \A v, x \in Workers : \A i \in DOMAIN todo'[v] : \A j \in DOMAIN todo'[x] :
            todo'[v][i] = todo'[x][j] => v = x /\ i = j
      <3> SUFFICES ASSUME NEW v \in Workers, NEW x \in Workers, NEW i \in DOMAIN todo'[v],
                          NEW j \in DOMAIN todo'[x], todo'[v][i] = todo'[x][j]
                   PROVE  v = x /\ i = j
        OBVIOUS
      <3>1. CASE v = w /\ x = w
        <4>1. i + 1 = j + 1
          BY <3>1, <2>1, <2>2
        <4>2. i \in Nat /\ j \in Nat
          BY <3>1, <2>2, <1>4
        <4>3. QED
          BY <3>1, <4>1, <4>2
      <3>2. CASE v = w /\ x # w
        BY <3>2, <1>6, <2>1, <2>2
      <3>3. CASE v # w /\ x = w
        BY <3>3, <1>6, <2>1, <2>2
      <3>4. CASE v # w /\ x # w
        BY <3>4, <1>6, <2>1
      <3>5. QED
        BY <3>1, <3>2, <3>3, <3>4
    <2>5. ToSet(todo[w]) = ToSet(todo'[w]) \cup {p} /\ p \notin ToSet(todo'[w])
      <3>1. 1 \in DOMAIN todo[w] /\ \A i \in 1 .. n - 1 : i + 1 # 1
        BY <1>4
      <3>2. p \notin ToSet(todo'[w])
        <4> SUFFICES ASSUME NEW i \in DOMAIN todo'[w], todo'[w][i] = p
                     PROVE  FALSE
          BY DEF ToSet
        <4>1. todo[w][i + 1] = todo[w][1] /\ i + 1 \in DOMAIN todo[w]
          BY <2>2, <1>4
        <4>2. QED
          BY <4>1, <2>1, <2>2, <3>1
      <3>3. ToSet(todo'[w]) \subseteq ToSet(todo[w])
        BY <2>2 DEF ToSet
      <3>4. p \in ToSet(todo[w])
        BY <3>1, <1>4 DEF ToSet
      <3>5. \A q \in ToSet(todo[w]) : q = p \/ q \in ToSet(todo'[w])
        <4> SUFFICES ASSUME NEW i \in DOMAIN todo[w]
                     PROVE  todo[w][i] = p \/ todo[w][i] \in ToSet(todo'[w])
          BY DEF ToSet
        <4>1. CASE i = 1
          BY <4>1, <1>4
        <4>2. CASE i # 1
          <5>1. i - 1 \in 1 .. n - 1 /\ (i - 1) + 1 = i
            BY <4>2, <1>4
          <5>2. i - 1 \in DOMAIN todo'[w] /\ todo'[w][i - 1] = todo[w][i]
            BY <5>1, <1>5, <1>6
          <5>3. QED
            BY <5>2 DEF ToSet
        <4>3. QED
          BY <4>1, <4>2
      <3>6. QED
        BY <3>2, <3>3, <3>4, <3>5
    <2>6. Awaits(p) /\ ~Awaits(p)'
      <3>1. p \in ToSet(todo[w])
        BY <2>5
      <3>2. p < cursor /\ p \in Nat
        <4>1. 1 \in DOMAIN todo[w]
          BY <1>4
        <4>2. QED
          BY <4>1, <2>1, <1>4 DEF Points
      <3>3. \A v \in Workers \ {w} : p \notin ToSet(todo[v])
        <4>1. 1 \in DOMAIN todo[w]
          BY <1>4
        <4>2. QED
          BY <4>1, <2>1, <1>4 DEF ToSet
      <3>4. QED
        BY <3>1, <3>2, <3>3, <2>5, <1>1, <1>2, <1>6 DEF Awaits
    <2>7. \A q \in Points : Awaits(q)' <=> Awaits(q) /\ q # p
      <3> SUFFICES ASSUME NEW q \in Points, q # p
                   PROVE  Awaits(q)' <=> Awaits(q)
        BY <2>6, <1>4
      <3>1. \A v \in Workers : q \in ToSet(todo'[v]) <=> q \in ToSet(todo[v])
        BY <2>5, <1>6
      <3>2. QED
        BY <3>1, <1>1 DEF Awaits
    <2>8. \A q : Chosen(q)' = Chosen(q)
      BY <1>1 DEF Chosen, Reached, Nearer
    <2> DEFINE put(s, c) == s = t /\ c \in Chosen(p)
    <2>9. \A s \in 0 .. Threads - 1, c \in Centroids : \A i \in DOMAIN bucket'[s][c] :
            \/ i \in DOMAIN bucket[s][c] /\ bucket'[s][c][i] = bucket[s][c][i]
            \/ i = Len(bucket[s][c]) + 1 /\ bucket'[s][c][i] = p /\ put(s, c)
      <3> SUFFICES ASSUME NEW s \in 0 .. Threads - 1, NEW c \in Centroids, put(s, c)
                   PROVE  \A i \in DOMAIN bucket'[s][c] :
                            \/ i \in DOMAIN bucket[s][c] /\ bucket'[s][c][i] = bucket[s][c][i]
                            \/ i = Len(bucket[s][c]) + 1 /\ bucket'[s][c][i] = p
        BY <1>8
      <3>1. bucket[s][c] \in Seq(Points) /\ bucket'[s][c] = Append(bucket[s][c], p)
        BY <1>2, <1>8
      <3>2. QED
        BY <3>1
    <2>10. \A s \in 0 .. Threads - 1, c \in Centroids :
             ToSet(bucket'[s][c]) = ToSet(bucket[s][c]) \cup (IF put(s, c) THEN {p} ELSE {})
      <3> SUFFICES ASSUME NEW s \in 0 .. Threads - 1, NEW c \in Centroids, put(s, c)
                   PROVE  ToSet(bucket'[s][c]) = ToSet(bucket[s][c]) \cup {p}
        BY <1>8
      <3>1. bucket[s][c] \in Seq(Points) /\ bucket'[s][c] = Append(bucket[s][c], p)
        BY <1>2, <1>8
      <3>2. \A x \in Seq(Points) : ToSet(Append(x, p)) = ToSet(x) \cup {p}
        BY <1>4, AppendSet
      <3>3. QED
        BY <3>1, <3>2
    <2> HIDE DEF put
    <2>11. \A c \in Centroids : \A s \in 0 .. Threads - 1 : \A i \in DOMAIN bucket[s][c] :
             bucket[s][c][i] \in Points /\ bucket[s][c][i] # p
      <3>1. \A c \in Centroids : \A s \in 0 .. Threads - 1 : \A i \in DOMAIN bucket[s][c] :
              bucket[s][c][i] \in Points
        <4>1. \A x \in Seq(Points) : \A i \in DOMAIN x : x[i] \in Points
          OBVIOUS
        <4>2. \A c \in Centroids : \A s \in 0 .. Threads - 1 : bucket[s][c] \in Seq(Points)
          BY <1>2
        <4>3. QED
          BY <4>1, <4>2
      <3>2. \A c \in Centroids : \A s \in 0 .. Threads - 1 : \A i \in DOMAIN bucket[s][c] :
              ~Awaits(bucket[s][c][i])
        BY <2>1
      <3>3. QED
        BY <3>1, <3>2, <2>6
    <2>12. \A c \in Centroids : \A r, s \in 0 .. Threads - 1 :
             \A i \in DOMAIN bucket'[r][c] : \A j \in DOMAIN bucket'[s][c] :
               bucket'[r][c][i] = bucket'[s][c][j] => r = s /\ i = j
      <3> SUFFICES ASSUME NEW c \in Centroids, NEW r \in 0 .. Threads - 1,
                          NEW s \in 0 .. Threads - 1, NEW i \in DOMAIN bucket'[r][c],
                          NEW j \in DOMAIN bucket'[s][c], bucket'[r][c][i] = bucket'[s][c][j]
                   PROVE  r = s /\ i = j
        OBVIOUS
      <3>1. CASE bucket'[r][c][i] = p
        <4>1. i = Len(bucket[r][c]) + 1 /\ put(r, c)
          BY <3>1, <2>9, <2>11
        <4>2. j = Len(bucket[s][c]) + 1 /\ put(s, c)
          <5>1. bucket'[s][c][j] = p
            BY <3>1
          <5>2. QED
            BY <5>1, <2>9, <2>11
        <4>3. QED
          BY <4>1, <4>2 DEF put
      <3>2. CASE bucket'[r][c][i] # p
        <4>1. i \in DOMAIN bucket[r][c] /\ bucket'[r][c][i] = bucket[r][c][i]
          BY <3>2, <2>9
        <4>2. j \in DOMAIN bucket[s][c] /\ bucket'[s][c][j] = bucket[s][c][j]
          BY <3>2, <2>9
        <4>3. bucket[r][c][i] = bucket[s][c][j]
          BY <4>1, <4>2
        <4>4. QED
          BY <4>1, <4>2, <4>3, <2>1
      <3>3. QED
        BY <3>1, <3>2
    <2>13. \A c \in Centroids : \A s \in 0 .. Threads - 1 : \A i \in DOMAIN bucket'[s][c] :
             (c \in Chosen(bucket[s][c][i]) /\ ~Awaits(bucket[s][c][i]))'
      <3> SUFFICES ASSUME NEW c \in Centroids, NEW s \in 0 .. Threads - 1,
                          NEW i \in DOMAIN bucket'[s][c]
                   PROVE  (c \in Chosen(bucket[s][c][i]) /\ ~Awaits(bucket[s][c][i]))'
        OBVIOUS
      <3>0. PICK q : q = bucket'[s][c][i]
        OBVIOUS
      <3>1. c \in Chosen(q) /\ ~Awaits(q)'
        <4>1. CASE bucket'[s][c][i] = p /\ put(s, c)
          BY <3>0, <4>1, <2>6 DEF put
        <4>2. CASE i \in DOMAIN bucket[s][c] /\ bucket'[s][c][i] = bucket[s][c][i]
          BY <3>0, <4>2, <2>1, <2>7, <2>11
        <4>3. QED
          BY <4>1, <4>2, <2>9
      <3>2. QED
        BY <3>0, <3>1, <2>8
    <2>14. \A q \in Points : \A c \in Chosen(q) :
             Awaits(q)' \/ \E s \in 0 .. Threads - 1 : q \in ToSet(bucket'[s][c])
      <3> SUFFICES ASSUME NEW q \in Points, NEW c \in Chosen(q), ~Awaits(q)'
                   PROVE  \E s \in 0 .. Threads - 1 : q \in ToSet(bucket'[s][c])
        OBVIOUS
      <3>0. c \in Centroids
        BY <1>2, RanksDiffer
      <3>1. CASE q = p
        BY <3>0, <3>1, <2>10, <1>3 DEF put
      <3>2. CASE q # p
        BY <3>0, <3>2, <2>1, <2>7, <2>10
      <3>3. QED
        BY <3>1, <3>2
    <2>15. QED
      BY <1>1, <2>3, <2>4, <2>8, <2>12, <2>13, <2>14 DEF PlaceInv
  <1>15. QED
    BY <1>10, <1>11, <1>12, <1>13, <1>14 DEF IInv

\* When no point waits, the sorted bucket of a centroid holds the points that chose it.
LEMMA GatheredSound ==
  ASSUME IInv, phase = "assign", cursor >= N, \A w \in Workers : todo[w] = <<>>,
         NEW c \in Centroids
  PROVE  /\ Gathered(c) \in Seq(Points) /\ Climbs(Gathered(c))
         /\ \A p \in Points : p \in ToSet(Gathered(c)) <=> c \in Chosen(p)
PROOF
  <1> DEFINE seqs == [t \in 1 .. Threads |-> bucket[t - 1][c]]
             flat == FlattenSeq(seqs)
  <1>1. /\ bucket \in [0 .. Threads - 1 -> [Centroids -> Seq(Points)]] /\ cursor \in Nat
        /\ row \in [Points -> Rows]
    BY Sizes DEF IInv, TypeInv
  <1>2. \A t \in 1 .. Threads : t - 1 \in 0 .. Threads - 1
    BY Sizes
  <1>3. seqs \in [1 .. Threads -> Seq(Points)] /\ \A t \in 1 .. Threads : seqs[t] = bucket[t - 1][c]
    BY <1>1, <1>2
  <1> HIDE DEF seqs
  <1>4. JoinsAll(flat, seqs, Threads, Points)
    BY <1>3, Sizes, FlattenJoins
  <1>5. \A p \in Points : ~Awaits(p)
    <2>1. \A p \in Points : ~(cursor <= p)
      BY <1>1, Sizes DEF Points
    <2>2. \A w \in Workers : ToSet(todo[w]) = {}
      BY DEF ToSet
    <2>3. QED
      BY <2>1, <2>2 DEF Awaits
  <1>6. Apart(seqs, Threads)
    <2>1. \A s, t \in 0 .. Threads - 1 :
             \A i \in DOMAIN bucket[s][c] : \A j \in DOMAIN bucket[t][c] :
               bucket[s][c][i] = bucket[t][c][j] => s = t /\ i = j
      BY DEF IInv, PlaceInv
    <2> SUFFICES ASSUME NEW s \in 1 .. Threads, NEW t \in 1 .. Threads,
                        NEW i \in DOMAIN seqs[s], NEW j \in DOMAIN seqs[t], seqs[s][i] = seqs[t][j]
                 PROVE  s = t /\ i = j
      BY DEF Apart
    <2>2. s - 1 = t - 1 /\ i = j
      BY <1>2, <1>3, <2>1
    <2>3. QED
      BY <2>2
  <1>7. flat \in Seq(Points) /\ IsInjective(flat)
    BY <1>4, <1>6 DEF JoinsAll, Joins
  <1>8. \A p \in Points : p \in ToSet(flat) <=> c \in Chosen(p)
    <2> SUFFICES ASSUME NEW p \in Points
                 PROVE  p \in ToSet(flat) <=> c \in Chosen(p)
      OBVIOUS
    <2> HIDE DEF flat
    <2>1. ASSUME p \in ToSet(flat)
          PROVE  c \in Chosen(p)
      <3>1. PICK i \in DOMAIN flat : flat[i] = p
        BY <2>1 DEF ToSet
      <3>2. PICK t \in 1 .. Threads : \E k \in DOMAIN seqs[t] : flat[i] = seqs[t][k]
        BY <1>4 DEF JoinsAll, Joins
      <3>3. PICK k \in DOMAIN seqs[t] : p = seqs[t][k]
        BY <3>1, <3>2
      <3>4. t - 1 \in 0 .. Threads - 1 /\ k \in DOMAIN bucket[t - 1][c] /\ p = bucket[t - 1][c][k]
        BY <1>2, <1>3, <3>3
      <3>5. QED
        BY <3>4 DEF IInv, PlaceInv
    <2>2. ASSUME c \in Chosen(p)
          PROVE  p \in ToSet(flat)
      <3>1. PICK s \in 0 .. Threads - 1 : p \in ToSet(bucket[s][c])
        BY <2>2, <1>5 DEF IInv, PlaceInv
      <3>2. s + 1 \in 1 .. Threads /\ (s + 1) - 1 = s
        BY Sizes
      <3>3. p \in ToSet(seqs[s + 1])
        BY <3>1, <3>2, <1>3
      <3>4. PICK k \in DOMAIN seqs[s + 1] : seqs[s + 1][k] = p
        BY <3>3 DEF ToSet
      <3>5. \E i \in DOMAIN flat : flat[i] = p
        BY <3>2, <3>4, <1>4 DEF JoinsAll, Joins
      <3>6. QED
        BY <3>5 DEF ToSet
    <2>3. QED
      BY <2>1, <2>2
  <1>9. /\ Sorted(flat) \in Seq(Points) /\ Climbs(Sorted(flat))
        /\ ToSet(Sorted(flat)) = ToSet(flat)
    <2> HIDE DEF flat
    <2>1. N \in Nat /\ flat \in Seq(0 .. N - 1)
      BY <1>7, Sizes DEF Points
    <2>2. QED
      BY <2>1, <1>7, SortedClimbs DEF Points
  <1>10. Gathered(c) = Sorted(flat)
    BY DEF Gathered, seqs
  <1>11. QED
    BY <1>8, <1>9, <1>10

\* Gather: each centroid's points become its shard.
LEMMA GatherStep ==
  ASSUME IInv, Gather
  PROVE  IInv'
PROOF
  <1>1. /\ phase = "assign" /\ cursor >= N /\ \A w \in Workers : todo[w] = <<>>
        /\ shard' = [c \in Centroids |-> Gathered(c)]
        /\ phase' = "split" /\ at' = 1
        /\ cursor' = 0 /\ tcounter' = 0
        /\ todo' = [w \in Workers |-> <<>>]
        /\ tid' = [w \in Workers |-> -1]
        /\ bucket' = [t \in 0 .. Threads - 1 |-> [k \in Centroids |-> <<>>]]
        /\ UNCHANGED <<row, files, pos, ok, expect, offsets, neighbors>>
    BY DEF Gather, NoWorkers, inputVars, mergeVars
  <1>2. \A c \in Centroids :
          /\ Gathered(c) \in Seq(Points) /\ Climbs(Gathered(c))
          /\ \A p \in Points : p \in ToSet(Gathered(c)) <=> c \in Chosen(p)
    BY <1>1, GatheredSound
  <1>3. /\ shard' \in Seq(Seq(Points)) /\ Len(shard') = K /\ DOMAIN shard' = Centroids
        /\ \A c \in Centroids : shard'[c] = Gathered(c)
    <2>1. shard' \in [1 .. K -> Seq(Points)] /\ \A c \in Centroids : shard'[c] = Gathered(c)
      BY <1>1, <1>2 DEF Centroids
    <2>2. QED
      BY <2>1, Sizes, LenProperties DEF Centroids
  <1>4. TypeInv'
    <2>1. \A S : <<>> \in Seq(S)
      OBVIOUS
    <2>2. todo' \in [Workers -> Seq(Points)] /\ tid' \in [Workers -> -1 .. Threads - 1]
      BY <1>1, <2>1, Sizes
    <2>3. bucket' \in [0 .. Threads - 1 -> [Centroids -> Seq(Points)]]
      BY <1>1, <2>1
    <2>4. cursor' \in 0 .. N + Chunk - 1 /\ tcounter' \in Nat /\ at' \in Nat \ {0}
      BY <1>1, Sizes
    <2>5. phase' \in Before
      BY <1>1 DEF Before
    <2>6. QED
      BY <1>1, <1>3, <2>2, <2>3, <2>4, <2>5 DEF IInv, TypeInv
  <1>5. ReadersInv' /\ FileInv' /\ CsrInv'
    BY <1>1 DEF IInv, ReadersInv, FileInv, CsrInv, Before, Merging
  <1>6. AssignInv'
    <2>1. {w \in Workers : tid'[w] # -1} = {}
      BY <1>1
    <2>2. Cardinality({w \in Workers : tid'[w] # -1}) = 0
      BY <2>1, FS_EmptySet
    <2>3. QED
      BY <1>1, <2>2 DEF AssignInv, BucketsPrivate
  <1>7. PlaceInv'
    BY <1>1 DEF PlaceInv
  <1>8. ShardInv'
    <2>1. PICK o : o = [c \in Centroids |-> c]
      OBVIOUS
    <2>2. o \in [DOMAIN shard' -> Centroids] /\ \A c \in Centroids : o[c] = c
      BY <2>1, <1>3
    <2>3. K <= Len(shard') /\ K + 1 .. Len(shard') = {} /\ shard' # <<>>
      BY <1>3, Sizes
    <2>4. \A p : Chosen(p)' = Chosen(p)
      BY <1>1 DEF Chosen, Reached, Nearer
    <2>5. \A c \in Centroids : \A p \in Points : p \in ToSet(shard'[c]) <=> c \in Chosen(p)
      BY <1>2, <1>3
    <2>6. \A c \in Centroids : ToSet(shard'[c]) \subseteq Points
      BY <1>2, <1>3 DEF ToSet
    <2>7. \A p \in Points : Chosen(p) \subseteq Centroids
      BY RanksDiffer DEF IInv, TypeInv
    <2>8. \A c \in Centroids : Climbs(shard'[c])
      BY <1>2, <1>3
    <2>9. /\ \A s \in DOMAIN shard' : \A p \in ToSet(shard'[s]) : o[s] \in Chosen(p)
          /\ \A p \in Points : \A c \in Chosen(p) :
               \E s \in DOMAIN shard' : o[s] = c /\ p \in ToSet(shard'[s])
          /\ \A s, t \in DOMAIN shard' : o[s] = o[t] => s = t
      BY <1>3, <2>2, <2>5, <2>6, <2>7
    <2>10. Sharding(o)'
      BY <1>3, <2>2, <2>3, <2>4, <2>8, <2>9 DEF Sharding
    <2>11. \A s \in DOMAIN shard' : ~(s < 1)
      BY <1>3 DEF Centroids
    <2>12. QED
      BY <1>1, <1>3, <2>2, <2>3, <2>10, <2>11, Sizes DEF ShardInv
  <1>9. QED
    BY <1>4, <1>5, <1>6, <1>7, <1>8 DEF IInv

\* The limit of a shard is at least one.
LEMMA CapPositive == Cap \in Nat /\ Cap > 0
PROOF
  <1> DEFINE x == SkewTenths * N * Overlap
             y == 10 * K
  <1>1. x \in Nat
    <2>1. \A a, b \in Nat : a * b \in Nat
      OBVIOUS
    <2>2. Overlap \in Nat
      BY Sizes
    <2>3. SkewTenths * N \in Nat
      BY <2>1, Sizes
    <2>4. QED
      BY <2>1, <2>2, <2>3
  <1>2. y \in Nat /\ y > 0
    BY Sizes
  <1>3. Cap = x \div y + 1
    BY DEF Cap
  <1> HIDE DEF x, y
  <1>4. x \div y \in Nat
    BY <1>1, <1>2
  <1>5. QED
    BY <1>3, <1>4

\* Split: both halves stem from the centroid of the shard that was split.
LEMMA SplitStep ==
  ASSUME IInv, Split
  PROVE  IInv'
PROOF
  <1>1. /\ phase = "split" /\ at <= Len(shard) /\ Len(shard[at]) > Cap
        /\ UNCHANGED <<row, phase, cursor, todo, tid, tcounter, bucket, at, files, pos, ok, expect,
                       offsets, neighbors>>
    BY DEF Split, Oversized, inputVars, assignVars, mergeVars
  <1>2. PICK side \in [DOMAIN shard[at] -> {0, 1}] :
          shard' = Append([shard EXCEPT ![at] = Kept(shard[at], side)], Spilled(shard[at], side))
    BY DEF Split
  <1>3. PICK whole, kept, spilled, n :
          /\ whole = shard[at] /\ kept = Kept(shard[at], side) /\ spilled = Spilled(shard[at], side)
          /\ n = Len(shard)
    OBVIOUS
  <1>4. /\ shard \in Seq(Seq(Points)) /\ n \in Nat /\ at \in 1 .. n /\ DOMAIN shard = 1 .. n
        /\ whole \in Seq(Points) /\ \A s \in 1 .. n : shard[s] \in Seq(Points)
    <2>1. shard \in Seq(Seq(Points)) /\ at \in Nat \ {0}
      BY DEF IInv, TypeInv
    <2>2. QED
      BY <2>1, <1>1, <1>3
  <1>5. shard # <<>>
    BY <1>1 DEF IInv, ShardInv
  <1>o. PICK o \in [DOMAIN shard -> Centroids] : Sharding(o)
    BY <1>5 DEF IInv, ShardInv
  <1>6. /\ o \in [1 .. n -> Centroids] /\ K <= n
        /\ \A s \in 1 .. n : Climbs(shard[s])
        /\ \A s \in 1 .. n : \A p \in ToSet(shard[s]) : o[s] \in Chosen(p)
        /\ \A p \in Points : \A c \in Chosen(p) :
             \E s \in 1 .. n : o[s] = c /\ p \in ToSet(shard[s])
        /\ \A s, t \in 1 .. n : \A p \in ToSet(shard[s]) :
             p \in ToSet(shard[t]) /\ o[s] = o[t] => s = t
        /\ \A s \in K + 1 .. n : shard[s] # <<>>
    BY <1>o, <1>3, <1>4 DEF Sharding
  <1>7. Splits(whole, kept, spilled)
    <2>1. Climbs(whole) /\ Len(whole) > 1
      BY <1>1, <1>3, <1>4, <1>6, CapPositive
    <2>2. QED
      BY <2>1, <1>3, <1>4, SplitSound
  <1>8. /\ shard' \in Seq(Seq(Points)) /\ Len(shard') = n + 1 /\ DOMAIN shard' = 1 .. n + 1
        /\ shard'[at] = kept /\ shard'[n + 1] = spilled
        /\ \A s \in (1 .. n) \ {at} : shard'[s] = shard[s]
    <2> DEFINE x == [shard EXCEPT ![at] = kept]
    <2>1. /\ x \in [1 .. n -> Seq(Points)]
          /\ x[at] = kept /\ \A s \in (1 .. n) \ {at} : x[s] = shard[s]
      BY <1>4, <1>7 DEF Splits
    <2>2. shard' = Append(x, spilled)
      BY <1>2, <1>3
    <2> HIDE DEF x
    <2>3. x \in Seq(Seq(Points)) /\ Len(x) = n
      BY <2>1, <1>4, LenProperties
    <2>4. spilled \in Seq(Points)
      BY <1>7 DEF Splits
    <2>5. QED
      BY <2>1, <2>2, <2>3, <2>4, <1>4
  <1>9. TypeInv'
    BY <1>1, <1>8 DEF IInv, TypeInv
  <1>10. ReadersInv' /\ AssignInv' /\ PlaceInv' /\ CsrInv'
    BY <1>1 DEF IInv, ReadersInv, AssignInv, BucketsPrivate, PlaceInv, CsrInv
  <1>11. FileInv'
    BY <1>1 DEF IInv, FileInv, Merging
  <1>12. ShardInv'
    <2>1. PICK q : q = [s \in 1 .. n + 1 |-> IF s = n + 1 THEN o[at] ELSE o[s]]
      OBVIOUS
    <2>2. /\ q \in [1 .. n + 1 -> Centroids] /\ q[n + 1] = o[at]
          /\ \A s \in 1 .. n : q[s] = o[s]
      BY <2>1, <1>4
    <2>3. \A s \in 1 .. n + 1 : s = n + 1 \/ s = at \/ s \in (1 .. n) \ {at}
      BY <1>4
    <2>4. n + 1 \in 1 .. n + 1 /\ \A s \in 1 .. n : s \in 1 .. n + 1 /\ s # n + 1
      BY <1>4
    <2>5. \A s \in 1 .. n + 1 : Climbs(shard'[s])
      BY <2>3, <1>6, <1>7, <1>8 DEF Splits
    <2>6. /\ \A p \in ToSet(whole) : p \in ToSet(kept) \/ p \in ToSet(spilled)
          /\ \A p \in ToSet(kept) : p \in ToSet(whole) /\ p \notin ToSet(spilled)
          /\ \A p \in ToSet(spilled) : p \in ToSet(whole) /\ p \notin ToSet(kept)
      <3>1. /\ ToSet(whole) \subseteq Points
            /\ ToSet(kept) \subseteq Points /\ ToSet(spilled) \subseteq Points
        <4>1. \A x \in Seq(Points) : ToSet(x) \subseteq Points
          BY DEF ToSet
        <4>2. QED
          BY <4>1, <1>4, <1>7 DEF Splits
      <3>2. QED
        BY <3>1, <1>7 DEF Splits
    <2> DEFINE from(s) == IF s = n + 1 THEN at ELSE s
    <2>7. \A s \in 1 .. n + 1 :
            /\ from(s) \in 1 .. n /\ q[s] = o[from(s)]
            /\ \A p \in ToSet(shard'[s]) : p \in ToSet(shard[from(s)])
      <3> SUFFICES ASSUME NEW s \in 1 .. n + 1
                   PROVE  /\ from(s) \in 1 .. n /\ q[s] = o[from(s)]
                          /\ \A p \in ToSet(shard'[s]) : p \in ToSet(shard[from(s)])
        OBVIOUS
      <3>1. CASE s = n + 1
        BY <3>1, <2>2, <2>6, <1>3, <1>4, <1>8
      <3>2. CASE s = at
        BY <3>2, <2>2, <2>4, <2>6, <1>3, <1>4, <1>8
      <3>3. CASE s \in (1 .. n) \ {at}
        BY <3>3, <2>2, <2>4, <1>8
      <3>4. QED
        BY <3>1, <3>2, <3>3, <2>3
    <2> HIDE DEF from
    <2>8. \A s \in 1 .. n + 1 : \A p \in ToSet(shard'[s]) : q[s] \in Chosen(p)
      BY <2>7, <1>6
    <2>9. \A p \in Points : \A c \in Chosen(p) :
            \E s \in 1 .. n + 1 : q[s] = c /\ p \in ToSet(shard'[s])
      <3> SUFFICES ASSUME NEW p \in Points, NEW c \in Chosen(p)
                   PROVE  \E s \in 1 .. n + 1 : q[s] = c /\ p \in ToSet(shard'[s])
        OBVIOUS
      <3>1. PICK s \in 1 .. n : o[s] = c /\ p \in ToSet(shard[s])
        BY <1>6
      <3>2. CASE s = at /\ p \in ToSet(kept)
        BY <3>1, <3>2, <2>2, <2>4, <1>8
      <3>3. CASE s = at /\ p \in ToSet(spilled)
        BY <3>1, <3>3, <2>2, <2>4, <1>8
      <3>4. CASE s # at
        BY <3>1, <3>4, <2>2, <2>4, <1>8
      <3>5. QED
        BY <3>1, <3>2, <3>3, <3>4, <2>6, <1>3
    <2>10. \A s, t \in 1 .. n + 1 : \A p \in ToSet(shard'[s]) :
             p \in ToSet(shard'[t]) /\ q[s] = q[t] => s = t
      <3> SUFFICES ASSUME NEW s \in 1 .. n + 1, NEW t \in 1 .. n + 1, NEW p \in ToSet(shard'[s]),
                          p \in ToSet(shard'[t]), q[s] = q[t]
                   PROVE  s = t
        OBVIOUS
      <3>1. from(s) = from(t)
        <4>1. from(s) \in 1 .. n /\ from(t) \in 1 .. n /\ o[from(s)] = o[from(t)]
          BY <2>7
        <4>2. p \in ToSet(shard[from(s)]) /\ p \in ToSet(shard[from(t)])
          BY <2>7
        <4>3. QED
          BY <4>1, <4>2, <1>6
      <3>2. ~(s = n + 1 /\ t = at) /\ ~(s = at /\ t = n + 1)
        BY <2>6, <1>8
      <3>3. QED
        BY <3>1, <3>2 DEF from
    <2>11. \A s \in K + 1 .. n + 1 : shard'[s] # <<>>
      <3> SUFFICES ASSUME NEW s \in K + 1 .. n + 1
                   PROVE  shard'[s] # <<>>
        OBVIOUS
      <3>1. s \in 1 .. n + 1 /\ (s # n + 1 => s \in K + 1 .. n)
        BY Sizes, <1>4
      <3>2. QED
        BY <3>1, <2>3, <1>6, <1>7, <1>8 DEF Splits
    <2>12. \A p : Chosen(p)' = Chosen(p)
      BY <1>1 DEF Chosen, Reached, Nearer
    <2>13. K <= n + 1
      BY <1>4, <1>6, Sizes
    <2>14. Sharding(q)'
      BY <1>8, <2>2, <2>5, <2>8, <2>9, <2>10, <2>11, <2>12, <2>13 DEF Sharding
    <2>15. \A s \in 1 .. n + 1 : s < at => Len(shard'[s]) <= Cap
      <3> SUFFICES ASSUME NEW s \in 1 .. n + 1, s < at
                   PROVE  Len(shard'[s]) <= Cap
        OBVIOUS
      <3>1. s \in (1 .. n) \ {at}
        BY <1>4
      <3>2. Len(shard[s]) <= Cap
        BY <3>1, <1>1, <1>4 DEF IInv, ShardInv
      <3>3. QED
        BY <3>1, <3>2, <1>8
    <2>16. shard' # <<>> /\ at' <= Len(shard') + 1
      BY <1>1, <1>4, <1>8
    <2>17. QED
      BY <1>1, <1>8, <2>2, <2>14, <2>15, <2>16 DEF ShardInv
  <1>13. QED
    BY <1>9, <1>10, <1>11, <1>12 DEF IInv

\* NextShard: the shard the loop leaves is within the limit.
LEMMA NextShardStep ==
  ASSUME IInv, NextShard
  PROVE  IInv'
PROOF
  <1>1. /\ phase = "split" /\ (at <= Len(shard) => ~(Len(shard[at]) > Cap))
        /\ IF at <= Len(shard) THEN at' = at + 1 /\ phase' = phase ELSE at' = 1 /\ phase' = "build"
        /\ UNCHANGED <<row, cursor, todo, tid, tcounter, bucket, shard, files, pos, ok, expect,
                       offsets, neighbors>>
    BY DEF NextShard, Oversized, inputVars, assignVars, mergeVars
  <1>2. /\ shard \in Seq(Seq(Points)) /\ at \in Nat \ {0} /\ files = <<>>
        /\ shard # <<>> /\ at <= Len(shard) + 1
        /\ \A s \in DOMAIN shard : s < at => Len(shard[s]) <= Cap
        /\ \E origin \in [DOMAIN shard -> Centroids] : Sharding(origin)
    BY <1>1 DEF IInv, TypeInv, ShardInv, FileInv
  <1>3. /\ Len(shard) \in Nat /\ DOMAIN shard = 1 .. Len(shard) /\ Len(shard) > 0
        /\ \A s \in DOMAIN shard : Len(shard[s]) \in Nat
    <2>1. \A s \in DOMAIN shard : shard[s] \in Seq(Points)
      BY <1>2
    <2>2. QED
      BY <1>2, <2>1
  <1>4. TypeInv'
    BY <1>1, <1>2 DEF IInv, TypeInv, Before
  <1>5. ReadersInv' /\ AssignInv' /\ PlaceInv' /\ CsrInv'
    BY <1>1 DEF IInv, ReadersInv, AssignInv, BucketsPrivate, PlaceInv, CsrInv, Before, Merging
  <1>6. FileInv'
    <2>1. \A p : ~InFile(p)'
      BY <1>1, <1>2 DEF InFile
    <2>2. phase' = "build" => \A s \in DOMAIN shard' : ~(s < at')
      BY <1>1, <1>3
    <2>3. QED
      BY <1>1, <1>2, <2>1, <2>2 DEF FileInv, Merging, InFile
  <1>7. ShardInv'
    <2>1. \A o : Sharding(o)' <=> Sharding(o)
      BY <1>1 DEF Sharding, Chosen, Reached, Nearer
    <2>2. CASE at <= Len(shard)
      <3>1. \A s \in DOMAIN shard : s < at + 1 => Len(shard[s]) <= Cap
        <4> SUFFICES ASSUME NEW s \in DOMAIN shard, s < at + 1
                     PROVE  Len(shard[s]) <= Cap
          OBVIOUS
        <4>1. s < at \/ s = at
          BY <1>2, <1>3
        <4>2. QED
          BY <4>1, <1>1, <1>2, <1>3, <2>2, CapPositive
      <3>2. QED
        BY <3>1, <1>1, <1>2, <1>3, <2>1, <2>2 DEF ShardInv
    <2>3. CASE ~(at <= Len(shard))
      <3>1. \A s \in DOMAIN shard : s < at
        BY <1>2, <1>3, <2>3
      <3>2. QED
        BY <3>1, <1>1, <1>2, <1>3, <2>1, <2>3 DEF ShardInv
    <2>4. QED
      BY <2>2, <2>3
  <1>8. QED
    BY <1>4, <1>5, <1>6, <1>7 DEF IInv

-----------------------------------------------------------------------------
(***************************************************************************)
(* The spilled files.                                                      *)
(***************************************************************************)

\* What the builder returns for a member are sequences of points.
LEMMA ListsOfPoints ==
  ASSUME NEW u, NEW members \in SUBSET Points
  PROVE  Lists(u, members) \subseteq Seq(Points)
PROOF
  <1> DEFINE others == members \ {u}
             n == Cardinality(others)
             most == IF n < R THEN n ELSE R
  <1>1. n \in Nat
    <2>1. others \in SUBSET (0 .. N - 1) /\ N \in Nat
      BY Sizes DEF Points
    <2> HIDE DEF others
    <2>2. QED
      BY <2>1, FiniteBelow
  <1>2. others \subseteq Points
    OBVIOUS
  <1> HIDE DEF n, others
  <1>3. \A k \in IF Full THEN {most} ELSE 0 .. most : k \in Nat
    BY <1>1, Sizes
  <1>4. \A k \in Nat : [1 .. k -> others] \subseteq Seq(Points)
    BY <1>2
  <1>5. \A list \in Lists(u, members) :
          \E k \in IF Full THEN {most} ELSE 0 .. most : list \in [1 .. k -> others]
    BY DEF Lists, others, n
  <1> HIDE DEF most
  <1>6. QED
    BY <1>3, <1>4, <1>5

\* A file has a record for each member of its shard, in their order.
LEMMA SpillSound ==
  ASSUME NEW s \in Seq(Points), NEW file \in Spills(s)
  PROVE  /\ file \in Seq([gid : Points, list : Seq(Points)]) /\ DOMAIN file = DOMAIN s
         /\ \A i \in DOMAIN s : file[i].gid = s[i]
PROOF
  <1> DEFINE n == Len(s)
             mayGet == [i \in DOMAIN s |-> Lists(s[i], ToSet(s))]
             record == [gid : Points, list : Seq(Points)]
  <1>1. n \in Nat /\ DOMAIN s = 1 .. n /\ \A i \in 1 .. n : s[i] \in Points
    OBVIOUS
  <1>2. ToSet(s) \subseteq Points
    BY <1>1 DEF ToSet
  <1>3. PICK got : /\ \A i \in DOMAIN s : got[i] \in mayGet[i]
                   /\ file = [i \in DOMAIN s |-> [gid |-> s[i], list |-> got[i]]]
    BY DEF Spills
  <1> HIDE DEF n
  <1>4. \A i \in 1 .. n : got[i] \in Seq(Points)
    <2>1. \A i \in 1 .. n : got[i] \in Lists(s[i], ToSet(s))
      BY <1>1, <1>3
    <2>2. QED
      BY <1>2, <2>1, ListsOfPoints
  <1>5. \A i \in 1 .. n : [gid |-> s[i], list |-> got[i]] \in record
    BY <1>1, <1>4
  <1>6. \A i \in 1 .. n : file[i] = [gid |-> s[i], list |-> got[i]]
    BY <1>1, <1>3
  <1>7. file \in [1 .. n -> record]
    BY <1>1, <1>3, <1>5
  <1> HIDE DEF record
  <1>8. file \in Seq(record) /\ DOMAIN file = 1 .. n
    BY <1>1, <1>7
  <1>9. QED
    BY <1>1, <1>6, <1>8 DEF record

\* BuildShard: one more file, with the points of one more shard.
LEMMA BuildStep ==
  ASSUME IInv, BuildShard
  PROVE  IInv'
PROOF
  <1> DEFINE record == [gid : Points, list : Seq(Points)]
  <1>1. /\ phase = "build" /\ at <= Len(shard)
        /\ at' = at + 1
        /\ IF shard[at] = <<>> THEN files' = files
           ELSE \E file \in Spills(shard[at]) : files' = Append(files, file)
        /\ UNCHANGED <<row, phase, cursor, todo, tid, tcounter, bucket, shard, pos, ok, expect,
                       offsets, neighbors>>
    BY DEF BuildShard, inputVars, assignVars, mergeVars
  <1>2. /\ shard \in Seq(Seq(Points)) /\ at \in Nat \ {0} /\ files \in Seq(Seq(record))
    BY DEF IInv, TypeInv
  <1>3. /\ at \in DOMAIN shard /\ shard[at] \in Seq(Points) /\ Climbs(shard[at])
    <2>1. at \in DOMAIN shard /\ shard[at] \in Seq(Points)
      BY <1>1, <1>2
    <2>2. \A s \in DOMAIN shard : Climbs(shard[s])
      BY <1>1 DEF IInv, ShardInv, Sharding
    <2>3. QED
      BY <2>1, <2>2
  <1>4. /\ \A f \in DOMAIN files : files[f] # <<>> /\
             \A i, j \in DOMAIN files[f] : i < j => files[f][i].gid < files[f][j].gid
        /\ \A p \in Points : InFile(p) <=> \E s \in DOMAIN shard : s < at /\ p \in ToSet(shard[s])
    BY <1>1 DEF IInv, FileInv
  <1>5. ShardInv'
    <2>1. \A o : Sharding(o)' <=> Sharding(o)
      BY <1>1 DEF Sharding, Chosen, Reached, Nearer
    <2>2. at' <= Len(shard) + 1
      BY <1>1, <1>2
    <2>3. QED
      BY <1>1, <2>1, <2>2 DEF IInv, ShardInv
  <1>6. AssignInv' /\ PlaceInv' /\ CsrInv'
    BY <1>1 DEF IInv, AssignInv, BucketsPrivate, PlaceInv, CsrInv
  <1>7. ReadersInv'
    <2>1. DOMAIN pos = {} /\ DOMAIN ok = {}
      BY <1>1 DEF IInv, ReadersInv, Before
    <2>2. QED
      BY <1>1, <2>1 DEF ReadersInv, Merging
  <1>8. \A p \in Points : (\E s \in DOMAIN shard : s < at' /\ p \in ToSet(shard[s])) <=>
          (\E s \in DOMAIN shard : s < at /\ p \in ToSet(shard[s])) \/ p \in ToSet(shard[at])
    <2>1. \A s \in DOMAIN shard : s < at' <=> s < at \/ s = at
      BY <1>1, <1>2
    <2>2. QED
      BY <2>1, <1>3
  <1>9. TypeInv' /\ FileInv'
    <2>1. CASE shard[at] = <<>>
      <3>1. files' = files /\ ToSet(shard[at]) = {}
        BY <1>1, <2>1 DEF ToSet
      <3>2. \A p : InFile(p)' <=> InFile(p)
        BY <3>1 DEF InFile
      <3>3. \A p \in Points :
              InFile(p)' <=> \E s \in DOMAIN shard' : s < at' /\ p \in ToSet(shard'[s])
        BY <1>1, <1>4, <1>8, <3>1, <3>2
      <3>4. QED
        BY <1>1, <1>2, <1>4, <3>1, <3>3 DEF IInv, TypeInv, FileInv, Merging
    <2>2. CASE shard[at] # <<>>
      <3>1. PICK file \in Spills(shard[at]) : files' = Append(files, file)
        BY <1>1, <2>2
      <3>2. /\ file \in Seq(record) /\ DOMAIN file = DOMAIN shard[at]
            /\ \A i \in DOMAIN file : file[i].gid = shard[at][i]
        BY <1>3, SpillSound
      <3>3. file # <<>>
        BY <1>3, <2>2, <3>2
      <3>4. \A i, j \in DOMAIN file : i < j => file[i].gid < file[j].gid
        BY <1>3, <3>2 DEF Climbs
      <3>5. \A p : p \in ToSet(shard[at]) <=> \E i \in DOMAIN file : file[i].gid = p
        BY <3>2 DEF ToSet
      <3> DEFINE n == Len(files)
      <3> HIDE DEF record
      <3>6. /\ files' \in Seq(Seq(record)) /\ DOMAIN files = 1 .. n /\ DOMAIN files' = 1 .. n + 1
            /\ n \in Nat
            /\ \A f \in 1 .. n : files'[f] = files[f]
            /\ files'[n + 1] = file
        BY <1>2, <3>1, <3>2
      <3> HIDE DEF n
      <3>7. \A f \in 1 .. n + 1 : f \in 1 .. n \/ f = n + 1
        BY <3>6
      <3>8. n + 1 \in 1 .. n + 1 /\ \A f \in 1 .. n : f \in 1 .. n + 1
        BY <3>6
      <3>9. \A p : InFile(p)' <=> InFile(p) \/ p \in ToSet(shard[at])
        <4> SUFFICES ASSUME NEW p
                     PROVE  InFile(p)' <=> InFile(p) \/ p \in ToSet(shard[at])
          OBVIOUS
        <4>1. InFile(p) <=> \E f \in 1 .. n : \E i \in DOMAIN files[f] : files[f][i].gid = p
          BY <3>6 DEF InFile
        <4>2. InFile(p)' <=>
                \E f \in 1 .. n + 1 : \E i \in DOMAIN files'[f] : files'[f][i].gid = p
          BY <3>6 DEF InFile
        <4>3. p \in ToSet(shard[at]) <=>
                \E i \in DOMAIN files'[n + 1] : files'[n + 1][i].gid = p
          BY <3>5, <3>6
        <4>4. QED
          BY <4>1, <4>2, <4>3, <3>6, <3>7, <3>8
      <3>10. \A p \in Points :
               InFile(p)' <=> \E s \in DOMAIN shard' : s < at' /\ p \in ToSet(shard'[s])
        BY <1>1, <1>4, <1>8, <3>9
      <3>11. \A f \in DOMAIN files' : files'[f] # <<>> /\
               \A i, j \in DOMAIN files'[f] : i < j => files'[f][i].gid < files'[f][j].gid
        BY <1>4, <3>3, <3>4, <3>6, <3>7
      <3>12. TypeInv'
        BY <1>1, <1>2, <3>6 DEF IInv, TypeInv, record
      <3>13. QED
        BY <1>1, <3>10, <3>11, <3>12 DEF FileInv, Merging
    <2>3. QED
      BY <2>1, <2>2
  <1>10. QED
    BY <1>5, <1>6, <1>7, <1>9 DEF IInv

\* The build ends in any way: what the files and the shards hold stays as it is.
LEMMA FailStep ==
  ASSUME IInv, NEW how \in Final, Fail(how),
         how \in {"missing", "trailing", "done"} => phase = "merge"
  PROVE  IInv'
PROOF
  <1>1. /\ phase' = how /\ how \notin Before /\ how # "merge"
        /\ how \in Merging => phase \in Merging
        /\ UNCHANGED <<row, cursor, todo, tid, tcounter, bucket, shard, at, files, pos, ok, expect,
                       offsets, neighbors>>
    BY DEF Fail, inputVars, assignVars, mergeVars, Before, Final, Merging
  <1>2. \A o : Sharding(o)' <=> Sharding(o)
    BY <1>1 DEF Sharding, Chosen, Reached, Nearer
  <1>3. \A p : (InFile(p)' <=> InFile(p)) /\ (Reached(p)' = Reached(p))
    BY <1>1 DEF InFile, Reached
  <1>4. TypeInv'
    BY <1>1 DEF IInv, TypeInv
  <1>5. ReadersInv'
    BY <1>1 DEF IInv, ReadersInv
  <1>6. AssignInv'
    BY <1>1 DEF IInv, AssignInv, BucketsPrivate
  <1>7. PlaceInv' /\ CsrInv'
    BY <1>1 DEF IInv, PlaceInv, CsrInv, Before
  <1>8. ShardInv'
    BY <1>1, <1>2 DEF IInv, ShardInv, Before
  <1>9. FileInv'
    BY <1>1, <1>3 DEF IInv, FileInv, Before
  <1>10. QED
    BY <1>4, <1>5, <1>6, <1>7, <1>8, <1>9 DEF IInv

\* Once all shards are built, the files hold exactly the points that reach a centroid.
LEMMA FilesCover ==
  ASSUME IInv, phase = "build", at > Len(shard)
  PROVE  \A p \in Points : InFile(p) <=> Reached(p) # {}
PROOF
  <1> SUFFICES ASSUME NEW p \in Points
               PROVE  InFile(p) <=> Reached(p) # {}
    OBVIOUS
  <1>1. shard \in Seq(Seq(Points)) /\ row \in [Points -> Rows] /\ at \in Nat
    BY DEF IInv, TypeInv
  <1>2. \A s \in DOMAIN shard : s < at
    BY <1>1
  <1>3. InFile(p) <=> \E s \in DOMAIN shard : p \in ToSet(shard[s])
    BY <1>2 DEF IInv, FileInv
  <1>4. /\ \A s \in DOMAIN shard : p \in ToSet(shard[s]) => Chosen(p) # {}
        /\ \A c \in Chosen(p) : \E s \in DOMAIN shard : p \in ToSet(shard[s])
    BY DEF IInv, ShardInv, Sharding
  <1>5. Chosen(p) = {} <=> Reached(p) = {}
    BY <1>1, RanksDiffer
  <1>6. QED
    BY <1>3, <1>4, <1>5

\* OpenReaders: every reader stands at the first record of its file.
LEMMA OpenStep ==
  ASSUME IInv, OpenReaders
  PROVE  IInv'
PROOF
  <1>1. /\ phase = "build" /\ at > Len(shard)
        /\ phase' = "merge" /\ expect' = 0 /\ shard' = <<>>
        /\ pos' = [f \in DOMAIN files |-> 1]
        /\ \E H \in Stopping(DOMAIN files) : ok' = [f \in DOMAIN files |-> f \notin H]
        /\ UNCHANGED <<row, cursor, todo, tid, tcounter, bucket, at, files, offsets, neighbors>>
    BY DEF OpenReaders, inputVars, assignVars
  <1>2. \A p \in Points : InFile(p)' <=> Reached(p)' # {}
    <2>1. \A p : (InFile(p)' <=> InFile(p)) /\ (Reached(p)' = Reached(p))
      BY <1>1 DEF InFile, Reached
    <2>2. QED
      BY <1>1, <2>1, FilesCover
  <1>3. files \in Seq(Seq([gid : Points, list : Seq(Points)]))
    BY DEF IInv, TypeInv
  <1>4. \A f \in DOMAIN files : Len(files[f]) \in Nat /\ Len(files[f]) > 0
    <2> DEFINE record == [gid : Points, list : Seq(Points)]
    <2>1. \A f \in DOMAIN files : files[f] \in Seq(record) /\ files[f] # <<>>
      BY <1>3 DEF IInv, FileInv
    <2> HIDE DEF record
    <2>2. QED
      BY <2>1
  <1>5. ReadersInv'
    <2>1. DOMAIN pos' = DOMAIN files /\ DOMAIN ok' = DOMAIN files
      BY <1>1
    <2>2. \A f \in DOMAIN files : pos'[f] = 1 /\ ok'[f] \in BOOLEAN
      BY <1>1
    <2>3. \A f \in DOMAIN files : 1 \in 1 .. Len(files[f]) + 1 /\ 1 <= Len(files[f])
      BY <1>4
    <2>4. QED
      BY <1>1, <2>1, <2>2, <2>3 DEF ReadersInv, Before
  <1>6. TypeInv'
    <2>1. <<>> \in Seq(Seq(Points)) /\ 0 \in 0 .. N
      BY Sizes
    <2>2. QED
      BY <1>1, <2>1 DEF IInv, TypeInv
  <1>7. AssignInv' /\ PlaceInv' /\ CsrInv'
    BY <1>1 DEF IInv, AssignInv, BucketsPrivate, PlaceInv, CsrInv, Before
  <1>8. ShardInv'
    BY <1>1 DEF ShardInv
  <1>9. FileInv'
    BY <1>1, <1>2 DEF IInv, FileInv
  <1>10. QED
    BY <1>5, <1>6, <1>7, <1>8, <1>9 DEF IInv

-----------------------------------------------------------------------------
(***************************************************************************)
(* The merge.                                                              *)
(***************************************************************************)

\* The candidates of u are the neighbors in the records of u that readers stand at.
LEMMA CandidatesJoin ==
  ASSUME IInv, phase = "merge", NEW u
  PROVE  /\ Candidates(u) \in Seq(Points)
         /\ \A v : v \in ToSet(Candidates(u)) <=>
              \E f \in Holding(u) : v \in ToSet(files[f][pos[f]].list)
PROOF
  <1> DEFINE record == [gid : Points, list : Seq(Points)]
             n == Len(files)
             seqs == [f \in DOMAIN files |->
                        IF f \in Holding(u) THEN files[f][pos[f]].list ELSE <<>>]
  <1>1. files \in Seq(Seq(record)) /\ Holding(u) \subseteq DOMAIN files
    BY DEF IInv, TypeInv, Holding
  <1>2. \A f \in Holding(u) : pos[f] \in 1 .. Len(files[f])
    <2> HIDE DEF record
    <2>1. \A f \in DOMAIN files : Len(files[f]) \in Nat
      BY <1>1
    <2>2. QED
      BY <2>1 DEF IInv, ReadersInv, Merging, Holding
  <1>3. \A f \in Holding(u) : files[f][pos[f]].list \in Seq(Points)
    <2>1. \A f \in Holding(u) : files[f] \in Seq(record)
      BY <1>1
    <2>2. \A f \in Holding(u) : files[f][pos[f]] \in record
      <3> HIDE DEF record
      <3>1. QED
        BY <2>1, <1>2
    <2>3. QED
      BY <2>2
  <1> HIDE DEF record
  <1>4. n \in Nat /\ DOMAIN files = 1 .. n
    BY <1>1
  <1> HIDE DEF n
  <1>5. \A f \in 1 .. n : seqs[f] = IF f \in Holding(u) THEN files[f][pos[f]].list ELSE <<>>
    BY <1>4
  <1>6. DOMAIN seqs = 1 .. n /\ seqs = [f \in 1 .. n |-> seqs[f]]
    BY <1>4
  <1> HIDE DEF seqs
  <1>7. seqs \in [1 .. n -> Seq(Points)]
    <2>1. <<>> \in Seq(Points)
      OBVIOUS
    <2>2. \A f \in 1 .. n : seqs[f] \in Seq(Points)
      BY <1>3, <1>5, <2>1
    <2>3. QED
      BY <1>6, <2>2
  <1> DEFINE cand == FlattenSeq(seqs)
  <1>8. Candidates(u) = cand
    BY DEF Candidates, seqs
  <1>9. JoinsAll(cand, seqs, n, Points)
    BY <1>4, <1>7, FlattenJoins
  <1> HIDE DEF cand
  <1>10. /\ cand \in Seq(Points)
         /\ \A i \in DOMAIN cand : \E j \in 1 .. n : \E k \in DOMAIN seqs[j] : cand[i] = seqs[j][k]
         /\ \A j \in 1 .. n : \A k \in DOMAIN seqs[j] : \E i \in DOMAIN cand : cand[i] = seqs[j][k]
    BY <1>9 DEF JoinsAll, Joins
  <1>11. ASSUME NEW v
         PROVE  v \in ToSet(cand) <=> \E f \in Holding(u) : v \in ToSet(files[f][pos[f]].list)
    <2>1. v \in ToSet(cand) <=> \E j \in 1 .. n : \E k \in DOMAIN seqs[j] : v = seqs[j][k]
      BY <1>10 DEF ToSet
    <2>2. ASSUME NEW f \in 1 .. n
          PROVE  (\E k \in DOMAIN seqs[f] : v = seqs[f][k]) <=>
                   f \in Holding(u) /\ v \in ToSet(files[f][pos[f]].list)
      <3>1. CASE f \in Holding(u)
        BY <3>1, <1>5 DEF ToSet
      <3>2. CASE f \notin Holding(u)
        <4>1. DOMAIN seqs[f] = {}
          BY <3>2, <1>5
        <4>2. QED
          BY <3>2, <4>1
      <3>3. QED
        BY <3>1, <3>2
    <2>3. QED
      BY <2>1, <2>2, <1>1, <1>4
  <1>12. QED
    BY <1>8, <1>10, <1>11

\* t is the new row, and the readers that held the id move on but for those in H.
Merges(t, H) ==
  /\ ExactRow(expect, t, ToSet(Candidates(expect)))
  /\ neighbors' = neighbors \o t
  /\ offsets' = Append(offsets, Len(neighbors'))
  /\ DOMAIN pos' = DOMAIN files /\ DOMAIN ok' = DOMAIN files
  /\ \A f \in DOMAIN files :
       /\ pos'[f] = IF f \in Holding(expect) THEN pos[f] + 1 ELSE pos[f]
       /\ ok'[f] = IF f \in Holding(expect) THEN pos'[f] <= Len(files[f]) /\ f \notin H ELSE ok[f]

\* MergeOne: one exact row more, and the readers that held the id move on.
LEMMA Merged ==
  ASSUME IInv, MergeOne
  PROVE  \E H \in Stopping(Holding(expect)) : \E t : Merges(t, H)
PROOF
  <1>1. phase = "merge" /\ expect \in Points
    BY Sizes DEF MergeOne, IInv, TypeInv, Points
  <1>2. PICK sorted \in Orders(expect, Candidates(expect)) :
          neighbors' = neighbors \o Taken(expect, sorted)
    BY DEF MergeOne
  <1> DEFINE cand == Candidates(expect)
             t == Taken(expect, sorted)
  <1>3. cand \in Seq(Points)
    BY <1>1, CandidatesJoin
  <1>4. sorted \in Reorders(cand) /\ Ascends(expect, sorted)
    BY <1>2 DEF Orders
  <1> HIDE DEF cand
  <1>5. sorted \in Seq(Points) /\ ToSet(sorted) = ToSet(cand)
    BY <1>3, <1>4, ReorderSame
  <1>6. ExactRow(expect, t, ToSet(cand))
    BY <1>1, <1>4, <1>5, TakenExact
  <1>7. PICK H \in Stopping(Holding(expect)) :
          ok' = [f \in DOMAIN ok |->
                   IF f \in Holding(expect) THEN More(f, pos'[f]) /\ f \notin H ELSE ok[f]]
    BY DEF MergeOne
  <1>8. DOMAIN pos = DOMAIN files /\ DOMAIN ok = DOMAIN files
    BY <1>1 DEF IInv, ReadersInv, Merging
  <1>9. pos' = [f \in DOMAIN pos |-> IF f \in Holding(expect) THEN pos[f] + 1 ELSE pos[f]]
    BY DEF MergeOne, Advanced
  <1>10. offsets' = Append(offsets, Len(neighbors'))
    BY DEF MergeOne
  <1> HIDE DEF t
  <1>11. Merges(t, H)
    BY <1>2, <1>6, <1>7, <1>8, <1>9, <1>10 DEF Merges, More, cand, t
  <1>12. QED
    BY <1>11

\* MergeOne keeps the readers and the CSR arrays in order.
LEMMA MergeStep ==
  ASSUME IInv, MergeOne
  PROVE  IInv'
PROOF
  <1>1. PICK H \in Stopping(Holding(expect)) : \E s : Merges(s, H)
    BY Merged
  <1>2. PICK t : Merges(t, H)
    BY <1>1
  <1>3. /\ phase = "merge" /\ expect' = expect + 1 /\ expect < N
        /\ UNCHANGED <<row, phase, cursor, todo, tid, tcounter, bucket, shard, at, files>>
    BY DEF MergeOne, inputVars, assignVars
  <1> DEFINE n == Len(neighbors)
             m == Len(neighbors')
  <1>4. /\ neighbors \in Seq(Points) /\ offsets \in Seq(Nat) /\ expect \in 0 .. N
        /\ files \in Seq(Seq([gid : Points, list : Seq(Points)]))
        /\ t \in Seq(Points) /\ N \in Nat
    BY <1>2, Sizes DEF IInv, TypeInv, Merges, ExactRow
  <1>5. neighbors' \in Seq(Points) /\ n \in Nat /\ m \in Nat /\ n <= m
    BY <1>2, <1>4 DEF Merges
  <1>6. offsets' = Append(offsets, m)
    BY <1>2 DEF Merges
  <1> HIDE DEF m
  <1>7. /\ Len(offsets) = expect + 1 /\ offsets[1] = 0 /\ offsets[expect + 1] = n
        /\ \A i \in 1 .. expect : offsets[i] <= offsets[i + 1]
    BY DEF IInv, CsrInv
  <1> HIDE DEF n
  <1>8. TypeInv'
    <2>1. offsets' \in Seq(Nat)
      BY <1>4, <1>5, <1>6
    <2>2. expect' \in 0 .. N
      BY <1>3, <1>4
    <2>3. QED
      BY <1>3, <1>5, <2>1, <2>2 DEF IInv, TypeInv
  <1>9. CsrInv'
    <2>1. /\ Len(offsets') = expect + 2 /\ offsets'[expect + 2] = m
          /\ \A i \in 1 .. expect + 1 : offsets'[i] = offsets[i]
      BY <1>4, <1>5, <1>6, <1>7
    <2>2. \A i \in 1 .. expect + 1 : offsets'[i] <= offsets'[i + 1]
      <3> SUFFICES ASSUME NEW i \in 1 .. expect + 1
                   PROVE  offsets'[i] <= offsets'[i + 1]
        OBVIOUS
      <3>1. CASE i = expect + 1
        <4>1. offsets'[i] = n /\ offsets'[i + 1] = m
          BY <3>1, <1>4, <1>7, <2>1
        <4>2. QED
          BY <4>1, <1>5
      <3>2. CASE i # expect + 1
        <4>1. i \in 1 .. expect /\ i + 1 \in 1 .. expect + 1
          BY <3>2, <1>4
        <4>2. QED
          BY <4>1, <1>7, <2>1
      <3>3. QED
        BY <3>1, <3>2
    <2>3. offsets'[1] = 0 /\ Len(neighbors') = m
      BY <1>4, <1>7, <2>1 DEF m
    <2>4. expect' + 1 = expect + 2
      BY <1>3, <1>4
    <2>5. QED
      BY <1>3, <2>1, <2>2, <2>3, <2>4 DEF CsrInv, Before
  <1>10. ReadersInv'
    <2> DEFINE record == [gid : Points, list : Seq(Points)]
    <2>1. \A f \in DOMAIN files : files[f] \in Seq(record)
      BY <1>4
    <2> HIDE DEF record
    <2>2. \A f \in DOMAIN files : Len(files[f]) \in Nat
      BY <2>1
    <2>3. \A f \in DOMAIN files :
            /\ pos[f] \in 1 .. Len(files[f]) + 1 /\ ok[f] \in BOOLEAN
            /\ ok[f] => pos[f] <= Len(files[f])
            /\ f \in Holding(expect) => ok[f]
      BY <1>3 DEF IInv, ReadersInv, Merging, Holding
    <2>4. DOMAIN pos' = DOMAIN files /\ DOMAIN ok' = DOMAIN files
      BY <1>2 DEF Merges
    <2>5. ASSUME NEW f \in DOMAIN files
          PROVE  /\ pos'[f] \in 1 .. Len(files[f]) + 1 /\ ok'[f] \in BOOLEAN
                 /\ ok'[f] => pos'[f] <= Len(files[f])
      <3>1. /\ pos'[f] = IF f \in Holding(expect) THEN pos[f] + 1 ELSE pos[f]
            /\ ok'[f] = IF f \in Holding(expect) THEN pos'[f] <= Len(files[f]) /\ f \notin H
                        ELSE ok[f]
        BY <1>2 DEF Merges
      <3>2. CASE f \in Holding(expect)
        <4>1. pos'[f] = pos[f] + 1 /\ pos[f] <= Len(files[f])
          BY <3>1, <3>2, <2>3
        <4>2. pos'[f] \in 1 .. Len(files[f]) + 1
          BY <4>1, <2>2, <2>3
        <4>3. QED
          BY <3>1, <3>2, <4>2
      <3>3. CASE f \notin Holding(expect)
        BY <3>1, <3>3, <2>3
      <3>4. QED
        BY <3>2, <3>3
    <2>6. QED
      BY <1>3, <2>4, <2>5 DEF ReadersInv, Before
  <1>11. AssignInv' /\ PlaceInv'
    BY <1>3 DEF IInv, AssignInv, BucketsPrivate, PlaceInv
  <1>12. ShardInv'
    BY <1>3 DEF IInv, ShardInv
  <1>13. FileInv'
    <2>1. \A p : (InFile(p)' <=> InFile(p)) /\ (Reached(p)' = Reached(p))
      BY <1>3 DEF InFile, Reached
    <2>2. QED
      BY <1>3, <2>1 DEF IInv, FileInv
  <1>14. QED
    BY <1>8, <1>9, <1>10, <1>11, <1>12, <1>13 DEF IInv

\* Every step keeps the invariant.
LEMMA NextStep ==
  ASSUME IInv, [Next]_vars
  PROVE  IInv'
PROOF
  <1>1. ASSUME NEW w \in Workers, Claim(w)
        PROVE  IInv'
    BY <1>1, ClaimStep
  <1>2. ASSUME NEW w \in Workers, Place(w)
        PROVE  IInv'
    BY <1>2, PlaceStep
  <1>3. CASE TooLarge
    <2>1. "too large" \in Final /\ Fail("too large")
      BY <1>3 DEF TooLarge, Final
    <2>2. QED
      BY <2>1, FailStep
  <1>4. CASE WriteFault
    <2>1. "io" \in Final /\ Fail("io")
      BY <1>4 DEF WriteFault, Final
    <2>2. QED
      BY <2>1, FailStep
  <1>5. CASE BodyFault
    <2>1. "io" \in Final /\ Fail("io")
      BY <1>5 DEF BodyFault, Final
    <2>2. QED
      BY <2>1, FailStep
  <1>6. CASE GiveUp
    <2>1. PICK how \in {"missing", "trailing"} : Fail(how)
      BY <1>6 DEF GiveUp
    <2>2. how \in Final /\ phase = "merge"
      BY <1>6 DEF GiveUp, Final
    <2>3. QED
      BY <2>1, <2>2, FailStep
  <1>7. CASE Finish
    <2>1. "done" \in Final /\ Fail("done") /\ phase = "merge"
      BY <1>7 DEF Finish, Final
    <2>2. QED
      BY <2>1, FailStep
  <1>8. CASE UNCHANGED vars
    <2>1. UNCHANGED <<row, phase, cursor, todo, tid, tcounter, bucket, shard, at, files, pos, ok,
                      expect, offsets, neighbors>>
      BY <1>8 DEF vars, inputVars, assignVars, mergeVars
    <2>2. \A o : Sharding(o)' <=> Sharding(o)
      BY <2>1 DEF Sharding, Chosen, Reached, Nearer
    <2>3. \A p : (InFile(p)' <=> InFile(p)) /\ Reached(p)' = Reached(p) /\ Chosen(p)' = Chosen(p)
      BY <2>1 DEF InFile, Reached, Chosen, Nearer
    <2>4. TypeInv' /\ ReadersInv' /\ CsrInv'
      BY <2>1 DEF IInv, TypeInv, ReadersInv, CsrInv
    <2>5. AssignInv'
      BY <2>1 DEF IInv, AssignInv, BucketsPrivate
    <2>6. PlaceInv'
      <3>1. \A p : Awaits(p)' <=> Awaits(p)
        BY <2>1 DEF Awaits
      <3>2. QED
        BY <2>1, <2>3, <3>1 DEF IInv, PlaceInv
    <2>7. ShardInv' /\ FileInv'
      BY <2>1, <2>2, <2>3 DEF IInv, ShardInv, FileInv
    <2>8. QED
      BY <2>4, <2>5, <2>6, <2>7 DEF IInv
  <1>9. QED
    BY <1>1, <1>2, <1>3, <1>4, <1>5, <1>6, <1>7, <1>8, GatherStep, SplitStep, NextShardStep,
       BuildStep, OpenStep, MergeStep
       DEF Next, Ended

\* The invariant holds whatever faults strike.
THEOREM Invariance == Spec => []IInv
PROOF
  <1>1. Init => IInv
    BY InitInv
  <1>2. IInv /\ [Next]_vars => IInv'
    BY NextStep
  <1>3. QED
    BY <1>1, <1>2, PTL DEF Spec

-----------------------------------------------------------------------------
(***************************************************************************)
(* The merge when no header of a record is lost.                           *)
(***************************************************************************)

\* A slice of a sequence stays what it is when the sequence grows at its end, where the slice
\* added is what was appended.
LEMMA SlicesKept ==
  \A S : \A s, t \in Seq(S) :
    /\ \A a \in 0 .. Len(s) : \A b \in a .. Len(s) : SubSeq(s \o t, a + 1, b) = SubSeq(s, a + 1, b)
    /\ SubSeq(s \o t, Len(s) + 1, Len(s \o t)) = t
PROOF
  <1> SUFFICES ASSUME NEW S, NEW s \in Seq(S), NEW t \in Seq(S)
               PROVE  /\ \A a \in 0 .. Len(s) : \A b \in a .. Len(s) :
                           SubSeq(s \o t, a + 1, b) = SubSeq(s, a + 1, b)
                      /\ SubSeq(s \o t, Len(s) + 1, Len(s \o t)) = t
    OBVIOUS
  <1>1. Len(s) \in Nat /\ Len(t) \in Nat /\ Len(s \o t) = Len(s) + Len(t)
    OBVIOUS
  <1>2. ASSUME NEW a \in 0 .. Len(s), NEW b \in a .. Len(s)
        PROVE  SubSeq(s \o t, a + 1, b) = SubSeq(s, a + 1, b)
    <2>0. a \in Int /\ b \in Int /\ a + 1 \in Int
      OBVIOUS
    <2>1. CASE a = b
      <3>1. b < a + 1
        BY <2>0, <2>1
      <3>2. QED
        BY <2>0, <3>1, SubSeqEmpty
    <2>2. CASE a # b
      <3>1. a + 1 \in 1 .. Len(s) /\ b \in 1 .. Len(s)
        BY <1>1, <2>2
      <3>2. QED
        BY <3>1, SubSeqOfConcat1
    <2>3. QED
      BY <2>1, <2>2
  <1>3. SubSeq(s \o t, Len(s) + 1, Len(s \o t)) = t
    <2> DEFINE n == Len(s)
               m == Len(t)
    <2>1. n \in Nat /\ m \in Nat
      OBVIOUS
    <2>2. CASE m = 0
      <3>1. t = <<>> /\ s \o t = s
        BY <2>2
      <3>2. SubSeq(s \o t, n + 1, n) = <<>>
        <4> HIDE DEF n
        <4>1. n \in Int /\ n + 1 \in Int /\ n < n + 1
          BY <2>1
        <4>2. QED
          BY <4>1, SubSeqEmpty
      <3>3. QED
        BY <3>1, <3>2
    <2>3. CASE m # 0
      <3>1. n + 1 \in n + 1 .. n + m /\ n + m \in n + 1 .. n + m
        BY <2>1, <2>3
      <3>2. SubSeq(s \o t, n + 1, n + m) = SubSeq(t, n + 1 - n, n + m - n)
        BY <3>1, SubSeqOfConcat2
      <3>3. n + 1 - n = 1 /\ n + m - n = m
        BY <2>1
      <3>4. SubSeq(t, 1, m) = t
        BY SubSeqFull
      <3>5. QED
        BY <1>1, <3>2, <3>3, <3>4
    <2>4. QED
      BY <2>2, <2>3
  <1>4. QED
    BY <1>2, <1>3

\* The record of the id the merge is at, in whatever file, is the one its reader stands at.
LEMMA Standing ==
  ASSUME IInv, MergeInv, phase = "merge",
         NEW f \in DOMAIN files, NEW i \in DOMAIN files[f], files[f][i].gid = expect
  PROVE  i = pos[f] /\ f \in Holding(expect)
PROOF
  <1> DEFINE record == [gid : Points, list : Seq(Points)]
  <1>1. files[f] \in Seq(record) /\ expect \in Nat
    BY Sizes DEF IInv, TypeInv
  <1>2. \A j \in DOMAIN files[f] : files[f][j].gid \in Nat
    <2>1. \A j \in DOMAIN files[f] : files[f][j] \in record
      <3> HIDE DEF record
      <3>1. QED
        BY <1>1
    <2>2. \A x \in Points : x \in Nat
      BY DEF Points
    <2>3. QED
      BY <2>1, <2>2
  <1> HIDE DEF record
  <1>3. Len(files[f]) \in Nat /\ DOMAIN files[f] = 1 .. Len(files[f])
    BY <1>1
  <1>4. /\ pos[f] \in 1 .. Len(files[f]) + 1 /\ (ok[f] <=> pos[f] <= Len(files[f]))
        /\ \A j \in DOMAIN files[f] : j < pos[f] <=> files[f][j].gid < expect
        /\ \A j, k \in DOMAIN files[f] : j < k => files[f][j].gid < files[f][k].gid
    BY DEF IInv, ReadersInv, FileInv, MergeInv, Merging
  <1>5. ~(i < pos[f])
    BY <1>1, <1>4
  <1>6. pos[f] \in DOMAIN files[f] /\ ok[f]
    BY <1>3, <1>4, <1>5
  <1>7. ~(pos[f] < i)
    <2>1. ~(files[f][pos[f]].gid < expect)
      BY <1>3, <1>4, <1>6
    <2>2. QED
      BY <2>1, <1>4, <1>6
  <1>8. i = pos[f]
    BY <1>3, <1>4, <1>5, <1>7
  <1>9. QED
    BY <1>6, <1>8 DEF Holding

\* What the merge is offered for an id is what the readers that stand at it hold.
LEMMA OfferedHeld ==
  ASSUME IInv, MergeInv, phase = "merge"
  PROVE  Offered(expect) = ToSet(Candidates(expect))
PROOF
  <1>1. \A v : v \in ToSet(Candidates(expect)) <=>
          \E f \in Holding(expect) : v \in ToSet(files[f][pos[f]].list)
    BY CandidatesJoin
  <1>2. \A v : v \in Offered(expect) <=>
          \E f \in DOMAIN files : \E i \in DOMAIN files[f] :
            files[f][i].gid = expect /\ v \in ToSet(files[f][i].list)
    BY DEF Offered, ToSet
  <1>3. \A f \in Holding(expect) :
          f \in DOMAIN files /\ pos[f] \in DOMAIN files[f] /\ files[f][pos[f]].gid = expect
    <2> DEFINE record == [gid : Points, list : Seq(Points)]
    <2>1. \A f \in DOMAIN files : files[f] \in Seq(record)
      BY DEF IInv, TypeInv
    <2> HIDE DEF record
    <2>2. \A f \in DOMAIN files : Len(files[f]) \in Nat /\ DOMAIN files[f] = 1 .. Len(files[f])
      BY <2>1
    <2>3. QED
      BY <2>2 DEF IInv, ReadersInv, Merging, Holding
  <1>4. ASSUME NEW v
        PROVE  v \in Offered(expect) <=> v \in ToSet(Candidates(expect))
    <2>1. ASSUME v \in Offered(expect)
          PROVE  v \in ToSet(Candidates(expect))
      <3>1. PICK f \in DOMAIN files : \E i \in DOMAIN files[f] :
              files[f][i].gid = expect /\ v \in ToSet(files[f][i].list)
        BY <1>2, <2>1
      <3>2. PICK i \in DOMAIN files[f] : files[f][i].gid = expect /\ v \in ToSet(files[f][i].list)
        BY <3>1
      <3>3. i = pos[f] /\ f \in Holding(expect)
        BY <3>2, Standing
      <3>4. QED
        BY <1>1, <3>2, <3>3
    <2>2. QED
      BY <1>1, <1>2, <1>3, <2>1
  <1>5. QED
    BY <1>4

\* Before the merge, and when it ends by an exception, there is nothing to hold.
LEMMA NoMergeYet ==
  ASSUME phase' \notin Merging
  PROVE  MergeInv'
PROOF
  BY DEF MergeInv, Merging

\* OpenReaders: no reader has passed a record, and every one stands at one.
LEMMA OpenExact ==
  ASSUME "header" \notin Faults, IInv, OpenReaders
  PROVE  MergeInv'
PROOF
  <1> DEFINE record == [gid : Points, list : Seq(Points)]
  <1>1. /\ phase' = "merge" /\ expect' = 0 /\ files' = files
        /\ pos' = [f \in DOMAIN files |-> 1]
    BY DEF OpenReaders
  <1>2. \A f \in DOMAIN files : ok'[f] = TRUE
    BY DEF OpenReaders, Stopping
  <1>3. \A f \in DOMAIN files : files[f] \in Seq(record) /\ files[f] # <<>>
    BY DEF IInv, TypeInv, FileInv
  <1>4. \A f \in DOMAIN files : \A i \in DOMAIN files[f] : files[f][i] \in record
    <2> HIDE DEF record
    <2>1. QED
      BY <1>3
  <1>5. \A f \in DOMAIN files : \A i \in DOMAIN files[f] : ~(files[f][i].gid < 0)
    <2>1. \A x \in Points : ~(x < 0)
      BY DEF Points
    <2>2. QED
      BY <1>4, <2>1
  <1> HIDE DEF record
  <1>6. \A f \in DOMAIN files : 1 <= Len(files[f]) /\ DOMAIN files[f] = 1 .. Len(files[f])
    BY <1>3
  <1>7. \A f \in DOMAIN files : ok'[f] <=> pos'[f] <= Len(files[f])
    BY <1>1, <1>2, <1>6
  <1>8. \A f \in DOMAIN files : \A i \in DOMAIN files[f] : ~(i < pos'[f])
    BY <1>1, <1>6
  <1>9. 0 .. expect' - 1 = {}
    BY <1>1
  <1>10. QED
    BY <1>1, <1>5, <1>7, <1>8, <1>9 DEF MergeInv, Merging

\* MergeOne: no reader that should have moved stays behind, and the new row is exact.
LEMMA MergeExact ==
  ASSUME "header" \notin Faults, IInv, MergeInv, MergeOne
  PROVE  MergeInv'
PROOF
  <1> DEFINE record == [gid : Points, list : Seq(Points)]
  <1>1. /\ phase = "merge" /\ expect' = expect + 1 /\ expect < N
        /\ phase' = phase /\ files' = files /\ row' = row
        /\ Holding(expect) # {}
    BY DEF MergeOne, inputVars
  <1>2. PICK H \in Stopping(Holding(expect)) : \E s : Merges(s, H)
    BY Merged
  <1>3. PICK t : Merges(t, H)
    BY <1>2
  <1>4. H = {}
    BY <1>2 DEF Stopping
  <1>5. /\ expect \in 0 .. N /\ N \in Nat /\ expect \in Points
        /\ files \in Seq(Seq(record))
        /\ neighbors \in Seq(Points) /\ offsets \in Seq(Nat) /\ t \in Seq(Points)
    BY <1>1, <1>3, Sizes DEF IInv, TypeInv, Merges, ExactRow, Points
  <1>6. \A f \in DOMAIN files : \A i \in DOMAIN files[f] : files[f][i].gid \in Nat
    <2>1. \A f \in DOMAIN files : \A i \in DOMAIN files[f] : files[f][i] \in record
      <3> HIDE DEF record
      <3>1. \A f \in DOMAIN files : files[f] \in Seq(record)
        BY <1>5
      <3>2. QED
        BY <3>1
    <2>2. \A x \in Points : x \in Nat
      BY DEF Points
    <2>3. QED
      BY <2>1, <2>2
  <1> HIDE DEF record
  <1>7. \A f \in DOMAIN files : DOMAIN files[f] = 1 .. Len(files[f]) /\ Len(files[f]) \in Nat
    <2>1. \A f \in DOMAIN files : files[f] \in Seq(record)
      BY <1>5
    <2>2. QED
      BY <2>1
  <1>8. \A f \in DOMAIN files :
          /\ pos'[f] = IF f \in Holding(expect) THEN pos[f] + 1 ELSE pos[f]
          /\ ok'[f] = IF f \in Holding(expect) THEN pos'[f] <= Len(files[f]) ELSE ok[f]
    BY <1>3, <1>4 DEF Merges
  <1>9. \A f \in DOMAIN files :
          /\ pos[f] \in Nat /\ (ok[f] <=> pos[f] <= Len(files[f]))
          /\ f \in Holding(expect) =>
               pos[f] \in DOMAIN files[f] /\ files[f][pos[f]].gid = expect
          /\ \A i \in DOMAIN files[f] : i < pos[f] <=> files[f][i].gid < expect
    BY <1>1, <1>7 DEF IInv, ReadersInv, MergeInv, Merging, Holding
  <1>10. \A f \in DOMAIN files : ok'[f] <=> pos'[f] <= Len(files[f])
    BY <1>8, <1>9
  <1>11. \A f \in DOMAIN files : \A i \in DOMAIN files[f] :
           i < pos'[f] <=> files[f][i].gid < expect + 1
    <2> SUFFICES ASSUME NEW f \in DOMAIN files, NEW i \in DOMAIN files[f]
                 PROVE  i < pos'[f] <=> files[f][i].gid < expect + 1
      OBVIOUS
    <2> DEFINE gid == files[f][i].gid
    <2>1. gid \in Nat /\ i \in Nat /\ pos[f] \in Nat /\ expect \in Nat
      BY <1>5, <1>6, <1>7, <1>9
    <2>2. gid = expect => i = pos[f] /\ f \in Holding(expect)
      BY <1>1, Standing
    <2>3. i < pos[f] <=> gid < expect
      BY <1>9
    <2>4. f \in Holding(expect) /\ i = pos[f] => gid = expect
      BY <1>9
    <2>5. pos'[f] = IF f \in Holding(expect) THEN pos[f] + 1 ELSE pos[f]
      BY <1>8
    <2> HIDE DEF gid
    <2>6. i < pos'[f] <=> gid < expect + 1
      BY <2>1, <2>2, <2>3, <2>4, <2>5
    <2>7. QED
      BY <2>6 DEF gid
  <1>12. \A u : Offered(u)' = Offered(u) /\ Reached(u)' = Reached(u)
    BY <1>1 DEF Offered, Reached
  <1>13. /\ Len(offsets) = expect + 1 /\ offsets[expect + 1] = Len(neighbors)
         /\ \A i \in 1 .. expect : offsets[i] <= offsets[i + 1]
         /\ neighbors' = neighbors \o t /\ offsets' = Append(offsets, Len(neighbors'))
    BY <1>3 DEF IInv, CsrInv, Merges
  <1>14. /\ offsets'[expect + 2] = Len(neighbors \o t)
         /\ \A i \in 1 .. expect + 1 : offsets'[i] = offsets[i] /\ offsets[i] \in Nat
    <2>1. Len(neighbors') \in Nat
      BY <1>5, <1>13
    <2>2. QED
      BY <1>5, <1>13, <2>1
  <1>15. ASSUME NEW u \in 0 .. expect - 1
         PROVE  RowOf(u)' = RowOf(u)
    <2> DEFINE a == offsets[u + 1]
               b == offsets[u + 2]
    <2>1. u + 1 \in 1 .. expect /\ u + 2 \in 1 .. expect + 1 /\ (u + 1) + 1 = u + 2
      BY <1>5
    <2>2. /\ a \in Nat /\ b \in Nat /\ a <= b
          /\ offsets'[u + 1] = a /\ offsets'[u + 2] = b
      <3>1. u + 1 \in 1 .. expect + 1
        BY <2>1, <1>5
      <3>2. QED
        BY <3>1, <2>1, <1>13, <1>14
    <2>3. b <= Len(neighbors)
      <3> DEFINE n == expect + 1
      <3>1. n \in Nat /\ offsets \in [1 .. n -> Nat] /\ n - 1 = expect /\ n \in 1 .. n
        <4>1. offsets \in [1 .. Len(offsets) -> Nat]
          BY <1>5, LenProperties
        <4>2. QED
          BY <4>1, <1>5, <1>13
      <3>2. \A i, j \in 1 .. n : i <= j => offsets[i] <= offsets[j]
        <4> HIDE DEF n
        <4>1. \A i \in 1 .. n - 1 : offsets[i] <= offsets[i + 1]
          BY <3>1, <1>13
        <4>2. QED
          BY <3>1, <4>1, NeverFalls
      <3>3. u + 2 \in 1 .. n /\ u + 2 <= n
        BY <2>1
      <3>4. QED
        BY <3>1, <3>2, <3>3, <1>13
    <2>4. Len(neighbors) \in Nat
      BY <1>5
    <2> HIDE DEF a, b
    <2>5. a \in 0 .. Len(neighbors) /\ b \in a .. Len(neighbors)
      BY <2>2, <2>3, <2>4
    <2>6. SubSeq(neighbors \o t, a + 1, b) = SubSeq(neighbors, a + 1, b)
      BY <2>5, <1>5, SlicesKept
    <2>7. QED
      BY <2>2, <2>6, <1>13 DEF RowOf, a, b
  <1>16. ASSUME NEW u, u = expect
         PROVE  RowOf(u)' = t
    <2>1. /\ offsets'[u + 1] = Len(neighbors)
          /\ offsets'[u + 2] = Len(neighbors \o t)
      BY <1>5, <1>13, <1>14, <1>16
    <2>2. SubSeq(neighbors \o t, Len(neighbors) + 1, Len(neighbors \o t)) = t
      BY <1>5, SlicesKept
    <2>3. QED
      BY <2>1, <2>2, <1>13 DEF RowOf
  <1>17. ASSUME NEW u \in 0 .. expect' - 1
         PROVE  Reached(u)' # {} /\ ExactRow(u, RowOf(u)', Offered(u)')
    <2>1. CASE u = expect
      <3>1. ExactRow(u, t, Offered(u))
        <4>1. ExactRow(expect, t, ToSet(Candidates(expect)))
          BY <1>3 DEF Merges
        <4>2. QED
          BY <4>1, <1>1, <2>1, OfferedHeld
      <3>2. Reached(u) # {}
        <4>1. PICK f \in DOMAIN files : f \in Holding(expect)
          BY <1>1 DEF Holding
        <4>2. InFile(u)
          BY <4>1, <1>9, <2>1 DEF InFile
        <4>3. QED
          BY <4>2, <1>1, <1>5, <2>1 DEF IInv, FileInv, Merging
      <3>3. QED
        BY <3>1, <3>2, <2>1, <1>12, <1>16
    <2>2. CASE u # expect
      <3>1. u \in 0 .. expect - 1
        BY <2>2, <1>1, <1>5
      <3>2. Reached(u) # {} /\ ExactRow(u, RowOf(u), Offered(u))
        BY <3>1, <1>1 DEF MergeInv, Merging
      <3>3. QED
        BY <3>1, <3>2, <1>12, <1>15
    <2>3. QED
      BY <2>1, <2>2
  <1>18. QED
    BY <1>1, <1>10, <1>11, <1>17 DEF MergeInv

\* GiveUp and Finish: an id is missing only where no file has it, and no record is left over.
LEMMA EndExact ==
  ASSUME IInv, MergeInv, GiveUp \/ Finish
  PROVE  MergeInv'
PROOF
  <1>1. /\ phase = "merge" /\ expect \in 0 .. N /\ N \in Nat
        /\ UNCHANGED <<row, files, pos, ok, expect, offsets, neighbors>>
    BY Sizes DEF GiveUp, Finish, Fail, inputVars, mergeVars, IInv, TypeInv
  <1>2. /\ \A u : Reached(u)' = Reached(u) /\ Offered(u)' = Offered(u) /\ RowOf(u)' = RowOf(u)
        /\ \A u : InFile(u)' <=> InFile(u)
    BY <1>1 DEF Reached, Offered, RowOf, InFile
  <1>3. DOMAIN ok = DOMAIN files
    BY <1>1 DEF IInv, ReadersInv, Merging
  <1>4. GiveUp => phase' = "missing" /\ expect < N /\ Holding(expect) = {}
    <2>1. ASSUME expect = N, NEW f \in DOMAIN files
          PROVE  ~ok[f]
      <3> DEFINE record == [gid : Points, list : Seq(Points)]
      <3>1. files[f] \in Seq(record)
        BY DEF IInv, TypeInv
      <3>2. \A i \in DOMAIN files[f] : files[f][i].gid < N
        <4>1. \A i \in DOMAIN files[f] : files[f][i] \in record
          <5> HIDE DEF record
          <5>1. QED
            BY <3>1
        <4>2. \A x \in Points : x < N
          BY Sizes DEF Points
        <4>3. QED
          BY <4>1, <4>2
      <3> HIDE DEF record
      <3>3. Len(files[f]) \in Nat /\ DOMAIN files[f] = 1 .. Len(files[f])
        BY <3>1
      <3>4. /\ pos[f] \in 1 .. Len(files[f]) + 1
            /\ ok[f] => pos[f] <= Len(files[f])
            /\ \A i \in DOMAIN files[f] : i < pos[f] <=> files[f][i].gid < expect
        BY <1>1 DEF IInv, ReadersInv, MergeInv, Merging
      <3>5. QED
        BY <2>1, <3>2, <3>3, <3>4
    <2>2. QED
      BY <1>1, <1>3, <2>1 DEF GiveUp, Fail
  <1>5. Finish => phase' = "done" /\ expect = N /\ \A f \in DOMAIN files : ~ok[f]
    BY <1>3 DEF Finish, Fail
  <1>6. Holding(expect) = {} => ~InFile(expect)
    <2> SUFFICES ASSUME NEW f \in DOMAIN files, NEW i \in DOMAIN files[f],
                        files[f][i].gid = expect
                 PROVE  Holding(expect) # {}
      BY DEF InFile
    <2>1. f \in Holding(expect)
      BY <1>1, Standing
    <2>2. QED
      BY <2>1
  <1>7. /\ \A f \in DOMAIN files : ok[f] <=> pos[f] <= Len(files[f])
        /\ \A f \in DOMAIN files : \A i \in DOMAIN files[f] :
             i < pos[f] <=> files[f][i].gid < expect
        /\ \A u \in 0 .. expect - 1 : Reached(u) # {} /\ ExactRow(u, RowOf(u), Offered(u))
    BY <1>1 DEF MergeInv, Merging
  <1>8. PICK e : e = expect
    OBVIOUS
  <1>9. phase' = "missing" => ~InFile(expect)'
    <2>1. Finish => phase' # "missing"
      BY <1>5
    <2>2. phase' = "missing" => ~InFile(e)
      BY <2>1, <1>4, <1>6, <1>8
    <2>3. expect' = e
      BY <1>1, <1>8
    <2>4. InFile(expect)' <=> InFile(e)'
      BY <2>3 DEF InFile
    <2>5. QED
      BY <2>2, <2>4, <1>2
  <1>10. QED
    BY <1>1, <1>2, <1>4, <1>5, <1>7, <1>9 DEF MergeInv

\* Every step keeps the merge exact.
LEMMA ExactStep ==
  ASSUME "header" \notin Faults, IInv, MergeInv, [Next]_vars
  PROVE  MergeInv'
PROOF
  <1>1. ASSUME NEW w \in Workers, Claim(w) \/ Place(w)
        PROVE  MergeInv'
    BY <1>1, NoMergeYet DEF Claim, Place, Merging
  <1>2. CASE Gather \/ Split \/ NextShard \/ BuildShard
    BY <1>2, NoMergeYet DEF Gather, Split, NextShard, BuildShard, Oversized, Merging
  <1>3. CASE TooLarge \/ WriteFault \/ BodyFault
    BY <1>3, NoMergeYet DEF TooLarge, WriteFault, BodyFault, Fail, Merging
  <1>4. CASE UNCHANGED vars
    <2>1. UNCHANGED <<row, phase, files, pos, ok, expect, offsets, neighbors>>
      BY <1>4 DEF vars, inputVars, mergeVars
    <2>2. \A u : Reached(u)' = Reached(u) /\ Offered(u)' = Offered(u) /\ RowOf(u)' = RowOf(u)
      BY <2>1 DEF Reached, Offered, RowOf
    <2>3. InFile(expect)' <=> InFile(expect)
      BY <2>1 DEF InFile
    <2>4. QED
      BY <2>1, <2>2, <2>3 DEF MergeInv
  <1>5. QED
    BY <1>1, <1>2, <1>3, <1>4, OpenExact, MergeExact, EndExact DEF Next, Ended

\* When no header is lost, the merge is exact throughout.
THEOREM MergeInvariance ==
  ASSUME "header" \notin Faults
  PROVE  Spec => [](IInv /\ MergeInv)
PROOF
  <1>1. Init => IInv /\ MergeInv
    BY InitInv
  <1>2. IInv /\ MergeInv /\ [Next]_vars => IInv' /\ MergeInv'
    BY NextStep, ExactStep
  <1>3. QED
    BY <1>1, <1>2, PTL DEF Spec

-----------------------------------------------------------------------------
(***************************************************************************)
(* The properties.                                                         *)
(***************************************************************************)

\* The values the invariant admits are those of TypeOK.
LEMMA TypeCorrect == IInv => TypeOK
PROOF
  <1> SUFFICES ASSUME IInv
               PROVE  TypeOK
    OBVIOUS
  <1>1. TypeInv /\ ReadersInv
    BY DEF IInv
  <1>2. cursor \in 0 .. N + Chunk * Threads
    <2> DEFINE m == Chunk * Threads
    <2>1. m \in Nat /\ m >= Chunk
      BY Sizes
    <2> HIDE DEF m
    <2>2. cursor \in 0 .. N + m
      BY <1>1, <2>1, Sizes DEF TypeInv
    <2>3. QED
      BY <2>2 DEF m
  <1>3. \A x \in Seq(Points) : ToSet(x) \subseteq Points
    BY DEF ToSet
  <1>4. \A x \in Seq(Nat) : ToSet(x) \subseteq Nat
    BY DEF ToSet
  <1>5. phase \in {"assign", "split", "build", "merge"} \cup Final
    BY <1>1 DEF TypeInv, Before
  <1>6. \A w \in Workers : ToSet(todo[w]) \subseteq Points /\ tid[w] \in -1 .. Threads - 1
    BY <1>1, <1>3 DEF TypeInv
  <1>7. \A t \in 0 .. Threads - 1, c \in Centroids : ToSet(bucket[t][c]) \subseteq Points
    BY <1>1, <1>3 DEF TypeInv
  <1>8. \A s \in DOMAIN shard : ToSet(shard[s]) \subseteq Points
    <2>1. \A s \in DOMAIN shard : shard[s] \in Seq(Points)
      BY <1>1 DEF TypeInv
    <2>2. QED
      BY <2>1, <1>3
  <1>9. \A f \in DOMAIN pos : pos[f] \in 1 .. Len(files[f]) + 1 /\ ok[f] \in BOOLEAN
    BY <1>1 DEF ReadersInv
  <1>10. ToSet(offsets) \subseteq Nat /\ ToSet(neighbors) \subseteq Points
    BY <1>1, <1>3, <1>4 DEF TypeInv
  <1>11. QED
    BY <1>1, <1>2, <1>5, <1>6, <1>7, <1>8, <1>9, <1>10 DEF TypeOK, TypeInv

\* No two workers ever push into the buckets of one thread id, however the chunks fall to them:
\* the counter that hands the ids out never passes the number of threads.
THEOREM WorkersApart == Spec => []AssignmentSound
PROOF
  <1>1. IInv => AssignmentSound
    BY TypeCorrect DEF IInv, AssignInv, AssignmentSound
  <1>2. QED
    BY <1>1, Invariance, PTL

\* There are as many shards with a point as there are centroids it chose.
LEMMA TimesChosen ==
  ASSUME IInv, NEW origin, Sharding(origin), NEW p \in Points
  PROVE  Times(p) = Cardinality(Chosen(p))
PROOF
  <1> DEFINE S == {s \in DOMAIN shard : p \in ToSet(shard[s])}
             T == Chosen(p)
             from == [s \in S |-> origin[s]]
  <1>1. /\ origin \in [DOMAIN shard -> Centroids]
        /\ \A s \in DOMAIN shard : p \in ToSet(shard[s]) => origin[s] \in T
        /\ \A c \in T : \E s \in DOMAIN shard : origin[s] = c /\ p \in ToSet(shard[s])
        /\ \A s, t \in DOMAIN shard :
             p \in ToSet(shard[s]) /\ p \in ToSet(shard[t]) /\ origin[s] = origin[t] => s = t
    BY DEF Sharding
  <1> HIDE DEF T
  <1>2. from \in [S -> T] /\ \A s \in S : from[s] = origin[s]
    BY <1>1
  <1>3. \A s, t \in S : from[s] = from[t] => s = t
    BY <1>1, <1>2
  <1>4. \A c \in T : \E s \in S : from[s] = c
    BY <1>1, <1>2
  <1>5. IsFiniteSet(S)
    <2>1. Len(shard) \in Nat /\ DOMAIN shard = 1 .. Len(shard)
      BY DEF IInv, TypeInv
    <2>2. IsFiniteSet(1 .. Len(shard))
      BY <2>1, FS_Interval
    <2>3. S \subseteq 1 .. Len(shard)
      BY <2>1
    <2> HIDE DEF S
    <2>4. QED
      BY <2>2, <2>3, FS_Subset
  <1> HIDE DEF S, from
  <1>6. from \in Bijection(S, T)
    BY <1>2, <1>3, <1>4 DEF Bijection, Injection, Surjection, IsInjective
  <1>7. ExistsBijection(S, T)
    BY <1>6 DEF ExistsBijection
  <1>8. Cardinality(T) = Cardinality(S)
    BY <1>5, <1>7, FS_Bijection
  <1>9. QED
    BY <1>8 DEF Times, S, T

\* Gathering, sorting and splitting lose no assignment and make none twice, whichever workers
\* placed the points and wherever the splits cut.
THEOREM ShardsAlwaysCover == Spec => []ShardsCover
PROOF
  <1>1. IInv => ShardsCover
    <2> SUFFICES ASSUME IInv, phase \in {"split", "build"}
                 PROVE  /\ \A s \in DOMAIN shard : \A i \in 1 .. Len(shard[s]) - 1 :
                             shard[s][i] < shard[s][i + 1]
                        /\ \A p \in Points : Times(p) = Cardinality(Chosen(p))
      BY DEF ShardsCover
    <2>1. PICK origin \in [DOMAIN shard -> Centroids] : Sharding(origin)
      BY DEF IInv, ShardInv
    <2>2. \A p \in Points : Times(p) = Cardinality(Chosen(p))
      BY <2>1, TimesChosen
    <2>3. ASSUME NEW s \in DOMAIN shard, NEW i \in 1 .. Len(shard[s]) - 1
          PROVE  shard[s][i] < shard[s][i + 1]
      <3>1. shard[s] \in Seq(Points) /\ Climbs(shard[s])
        <4>1. shard \in Seq(Seq(Points))
          BY DEF IInv, TypeInv
        <4>2. QED
          BY <4>1, <2>1 DEF Sharding
      <3>2. i \in DOMAIN shard[s] /\ i + 1 \in DOMAIN shard[s] /\ i < i + 1
        BY <3>1
      <3>3. QED
        BY <3>1, <3>2 DEF Climbs
    <2>4. QED
      BY <2>2, <2>3
  <1>2. QED
    BY <1>1, Invariance, PTL

\* Each shard beyond the first K is charged to the assignment of its first member.
LEMMA ShardsFew ==
  ASSUME IInv, NEW origin, Sharding(origin)
  PROVE  Len(shard) <= K + N * Overlap
PROOF
  <1> DEFINE n == Len(shard)
             S == K + 1 .. n
             T == Points \X (0 .. Overlap - 1)
             first(s) == shard[s][1]
             charge == [s \in S |-> <<first(s), Rank(first(s), origin[s])>>]
  <1>1. shard \in Seq(Seq(Points)) /\ row \in [Points -> Rows]
    BY DEF IInv, TypeInv
  <1>2. n \in Nat /\ DOMAIN shard = 1 .. n
    BY <1>1
  <1>3. /\ origin \in [1 .. n -> Centroids] /\ K <= n
        /\ \A s \in 1 .. n : \A p \in ToSet(shard[s]) : origin[s] \in Chosen(p)
        /\ \A s, t \in 1 .. n : \A p \in ToSet(shard[s]) :
             p \in ToSet(shard[t]) /\ origin[s] = origin[t] => s = t
        /\ \A s \in S : shard[s] # <<>>
    BY <1>2 DEF Sharding
  <1> HIDE DEF n
  <1>4. \A s \in S : s \in 1 .. n
    BY Sizes, <1>2
  <1>5. ASSUME NEW s \in S
        PROVE  first(s) \in Points /\ first(s) \in ToSet(shard[s])
    <2>1. shard[s] \in Seq(Points) /\ shard[s] # <<>>
      BY <1>1, <1>2, <1>3, <1>4
    <2>2. 1 \in DOMAIN shard[s] /\ shard[s][1] \in Points
      BY <2>1
    <2>3. QED
      BY <2>2 DEF ToSet
  <1> HIDE DEF first
  <1>6. \A s \in S : Rank(first(s), origin[s]) \in 0 .. Overlap - 1
    BY <1>1, <1>3, <1>4, <1>5, RanksDiffer
  <1>7. charge \in [S -> T]
    BY <1>5, <1>6
  <1>8. \A s \in S : charge[s] = <<first(s), Rank(first(s), origin[s])>>
    OBVIOUS
  <1> HIDE DEF charge
  <1>9. ASSUME NEW s \in S, NEW t \in S, charge[s] = charge[t]
        PROVE  s = t
    <2>1. first(s) = first(t) /\ Rank(first(s), origin[s]) = Rank(first(s), origin[t])
      BY <1>8, <1>9
    <2>2. origin[s] \in Chosen(first(s)) /\ origin[t] \in Chosen(first(s))
      BY <2>1, <1>3, <1>4, <1>5
    <2>3. origin[s] = origin[t]
      BY <2>1, <2>2, <1>1, <1>5, RanksDiffer
    <2>4. QED
      BY <2>1, <2>3, <1>3, <1>4, <1>5
  <1>10. IsFiniteSet(T) /\ Cardinality(T) = N * Overlap
    <2>1. IsFiniteSet(Points) /\ Cardinality(Points) = N
      <3>1. 0 \in Int /\ N - 1 \in Int /\ N \in Nat /\ N > 0
        BY Sizes
      <3>2. QED
        BY <3>1, FS_Interval DEF Points
    <2>2. IsFiniteSet(0 .. Overlap - 1) /\ Cardinality(0 .. Overlap - 1) = Overlap
      <3>1. 0 \in Int /\ Overlap - 1 \in Int /\ Overlap \in Nat /\ Overlap > 0
        BY Sizes
      <3>2. QED
        BY <3>1, FS_Interval
    <2>3. QED
      BY <2>1, <2>2, FS_Product
  <1>11. Cardinality(S) = n - K
    <2>1. K + 1 \in Int /\ n \in Int
      BY <1>2, Sizes
    <2>2. Cardinality(S) = IF K + 1 > n THEN 0 ELSE n - (K + 1) + 1
      BY <2>1, FS_Interval
    <2>3. QED
      BY <2>2, <1>2, <1>3, Sizes
  <1> HIDE DEF S, T
  <1>12. Cardinality(S) <= Cardinality(T)
    <2>1. charge \in Injection(S, T)
      BY <1>7, <1>9 DEF Injection, IsInjective
    <2>2. QED
      BY <2>1, <1>10, FS_Injection
  <1>13. QED
    <2>1. n - K <= N * Overlap
      BY <1>10, <1>11, <1>12
    <2>2. N * Overlap \in Nat
      BY Sizes
    <2>3. QED
      BY <2>1, <2>2, <1>2, Sizes DEF n

\* The loop that splits leaves no shard over the limit, and cannot go on for ever: there are
\* never more shards than the first K and one for each assignment of a point to a centroid.
THEOREM SplitsBounded == Spec => []SplitBounded
PROOF
  <1>1. IInv => SplitBounded
    <2> SUFFICES ASSUME IInv
                 PROVE  /\ Len(shard) <= K + N * Overlap
                        /\ \A s \in K + 1 .. Len(shard) : shard[s] # <<>>
      BY DEF SplitBounded, IInv, ShardInv
    <2>1. CASE shard = <<>>
      <3>1. Len(shard) = 0 /\ N * Overlap \in Nat
        BY <2>1, Sizes
      <3>2. QED
        BY <3>1, Sizes
    <2>2. CASE shard # <<>>
      <3>1. PICK origin \in [DOMAIN shard -> Centroids] : Sharding(origin)
        BY <2>2 DEF IInv, ShardInv
      <3>2. QED
        BY <3>1, ShardsFew DEF Sharding
    <2>3. QED
      BY <2>1, <2>2
  <1>2. QED
    BY <1>1, Invariance, PTL

\* When no header is lost, the merge gives up only on a point no centroid took, never stops at
\* records left over, and ends well only with a row for every point.
THEOREM MergeCovers ==
  ASSUME "header" \notin Faults
  PROVE  Spec => []GivesUpOnlyUncovered
PROOF
  <1>1. IInv /\ MergeInv => GivesUpOnlyUncovered
    <2> SUFFICES ASSUME IInv, MergeInv
                 PROVE  GivesUpOnlyUncovered
      OBVIOUS
    <2>1. expect \in 0 .. N /\ N \in Nat /\ Len(offsets) = expect + 1
      BY Sizes DEF IInv, TypeInv, CsrInv
    <2>2. phase = "missing" => \E p \in Points : Reached(p) = {}
      <3> SUFFICES ASSUME phase = "missing"
                   PROVE  \E p \in Points : Reached(p) = {}
        OBVIOUS
      <3>1. expect \in Points /\ ~InFile(expect)
        BY <2>1 DEF MergeInv, Points
      <3>2. QED
        BY <3>1 DEF IInv, FileInv, Merging
    <2>3. phase = "done" => Len(offsets) = N + 1 /\ \A p \in Points : Reached(p) # {}
      BY <2>1 DEF MergeInv, Merging, Points
    <2>4. QED
      BY <2>2, <2>3 DEF GivesUpOnlyUncovered, MergeInv
  <1>2. QED
    BY <1>1, MergeInvariance, PTL

\* When no header is lost, each merged row is the R nearest of what the shards recorded.
THEOREM RowsAlwaysExact ==
  ASSUME "header" \notin Faults
  PROVE  Spec => []RowsExact
PROOF
  <1>1. IInv /\ MergeInv => RowsExact
    <2> SUFFICES ASSUME MergeInv, phase \in {"merge", "done"}, NEW u \in 0 .. expect - 1
                 PROVE  /\ Ascends(u, RowOf(u)) /\ IsInjective(RowOf(u))
                        /\ ToSet(RowOf(u)) \subseteq Offered(u) \ {u}
                        /\ Len(RowOf(u)) < R => ToSet(RowOf(u)) = Offered(u) \ {u}
                        /\ Len(RowOf(u)) <= R
                        /\ \A v \in Offered(u) \ ({u} \cup ToSet(RowOf(u))), i \in DOMAIN RowOf(u) :
                             Dist[<<u, RowOf(u)[i]>>] <= Dist[<<u, v>>]
      BY DEF RowsExact
    <2>1. ExactRow(u, RowOf(u), Offered(u))
      BY DEF MergeInv, Merging
    <2>2. QED
      BY <2>1 DEF ExactRow
  <1>2. QED
    BY <1>1, MergeInvariance, PTL

\* Short and failed writes and torn bodies all end the build by an exception: only a header that
\* cannot be read lets a build end well without all its records.
THEOREM FaultsOfHeadersOnly ==
  ASSUME "header" \notin Faults
  PROVE  Spec => []FaultsThrow
PROOF
  <1>1. IInv /\ MergeInv => FaultsThrow
    <2> SUFFICES ASSUME IInv, MergeInv, phase = "done", NEW f \in DOMAIN files
                 PROVE  pos[f] = Len(files[f]) + 1
      BY DEF FaultsThrow
    <2>1. ~(pos[f] <= Len(files[f])) /\ pos[f] \in 1 .. Len(files[f]) + 1
      BY DEF MergeInv, Merging, IInv, ReadersInv
    <2>2. Len(files[f]) \in Nat
      <3> DEFINE record == [gid : Points, list : Seq(Points)]
      <3>1. files[f] \in Seq(record)
        BY DEF IInv, TypeInv
      <3> HIDE DEF record
      <3>2. QED
        BY <3>1
    <2>3. QED
      BY <2>1, <2>2
  <1>2. QED
    BY <1>1, MergeInvariance, PTL
=============================================================================
