---------------------------- MODULE ResultsProofs ----------------------------
(***************************************************************************)
(* Theorems about Results, for any systems, experiments, commands and      *)
(* measures and any schedule of drivers, commands and kills.               *)
(*                                                                         *)
(* RawInv says what the drivers can have written: where in its leg each    *)
(* driver is, which files are there, that their epochs follow each other   *)
(* and that their measures are multiples of the grain.  MergesTile,        *)
(* FootprintFiled and ReportsAgree follow from it; OneRun needs OlderInv,  *)
(* what is there while the rows are older than the memory.  WorkInv adds   *)
(* the command in progress: the table read so far is in the order of the   *)
(* registry, and says what the files say as long as none of them changed.  *)
(* CurvesForward and FiguresCurrent are inductive together with WorkInv.   *)
(***************************************************************************)
EXTENDS Results, FiniteSetTheorems, SequenceTheorems, WellFoundedInduction, TLAPS

-----------------------------------------------------------------------------
(***************************************************************************)
(* Naturals: every non-empty set has a least element, hence induction.     *)
(***************************************************************************)

\* Every non-empty set of naturals has a least element.
LEMMA LeastNatural == \A T \in SUBSET Nat : T # {} => \E m \in T : \A k \in T : m <= k
PROOF
  <1> SUFFICES ASSUME NEW T \in SUBSET Nat, T # {}
               PROVE  \E m \in T : \A k \in T : m <= k
    OBVIOUS
  <1> DEFINE less == {ss \in Nat \X Nat : ss[1] < ss[2]}
  <1>1. IsWellFoundedOn(less, Nat)
    BY NatLessThanWellFounded DEF OpToRel
  <1>2. \E m \in T : \A k \in T : <<k, m>> \notin less
    <2> HIDE DEF less
    <2>1. QED
      BY <1>1, WFMin
  <1>3. \A k, m \in Nat : <<k, m>> \notin less => m <= k
    OBVIOUS
  <1>4. QED
    <2> HIDE DEF less
    <2>1. QED
      BY <1>2, <1>3

\* A set that holds 0 and is closed under successor up to a bound holds every number below it.
LEMMA Induction ==
  \A bound \in Nat : \A S :
    0 \in S /\ (\A n \in 1 .. bound : n - 1 \in S => n \in S) => 0 .. bound \subseteq S
PROOF
  <1> SUFFICES ASSUME NEW bound \in Nat, NEW S, 0 \in S,
                      \A n \in 1 .. bound : n - 1 \in S => n \in S,
                      NEW x \in 0 .. bound, x \notin S
               PROVE  FALSE
    OBVIOUS
  <1> DEFINE out == (0 .. bound) \ S
  <1>1. out \in SUBSET Nat /\ out # {}
    OBVIOUS
  <1>2. PICK m \in out : \A k \in out : m <= k
    BY <1>1, LeastNatural
  <1>3. m \in 1 .. bound /\ m - 1 \notin S
    BY <1>2
  <1>4. m - 1 \in out /\ m - 1 < m
    BY <1>3
  <1>5. QED
    BY <1>2, <1>4

\* g starts at first and goes on from each value as step says, up to bound.
Recursive(g, first, step, bound) ==
  \A n \in 0 .. bound : g[n] = IF n = 0 THEN first ELSE step[<<n, g[n - 1]>>]

\* A function defined by recursion over 0 .. bound exists.
LEMMA Recursion ==
  ASSUME NEW S, NEW first \in S, NEW bound \in Nat, NEW step \in [(1 .. bound) \X S -> S]
  PROVE  \E g \in [0 .. bound -> S] : Recursive(g, first, step, bound)
PROOF
  <1> DEFINE Follows(g, k) == Recursive(g, first, step, k)
             done == {k \in 0 .. bound : \E g \in [0 .. k -> S] : Follows(g, k)}
  <1>1. 0 \in done
    <2> DEFINE g == [n \in 0 .. 0 |-> first]
    <2>1. g \in [0 .. 0 -> S]
      OBVIOUS
    <2>2. Follows(g, 0)
      BY DEF Recursive
    <2> HIDE DEF g, Follows
    <2>3. QED
      BY <2>1, <2>2
  <1>2. ASSUME NEW n \in 1 .. bound, n - 1 \in done
        PROVE  n \in done
    <2>1. PICK g \in [0 .. n - 1 -> S] : Follows(g, n - 1)
      BY <1>2
    <2> DEFINE h == [m \in 0 .. n |-> IF m = n THEN step[<<n, g[n - 1]>>] ELSE g[m]]
    <2>2. h \in [0 .. n -> S]
      BY <2>1
    <2>h. \A k \in 0 .. n : h[k] = IF k = n THEN step[<<n, g[n - 1]>>] ELSE g[k]
      OBVIOUS
    <2>g. \A k \in 0 .. n - 1 : g[k] = IF k = 0 THEN first ELSE step[<<k, g[k - 1]>>]
      BY <2>1 DEF Recursive
    <2>3. \A m \in 0 .. n : h[m] = IF m = 0 THEN first ELSE step[<<m, h[m - 1]>>]
      <3> SUFFICES ASSUME NEW m \in 0 .. n
                   PROVE  h[m] = IF m = 0 THEN first ELSE step[<<m, h[m - 1]>>]
        OBVIOUS
      <3> HIDE DEF h
      <3>1. CASE m = n
        <4>1. h[m] = step[<<m, g[m - 1]>>] /\ m # 0
          BY <2>h, <3>1
        <4>2. h[m - 1] = g[m - 1]
          BY <2>h, <3>1
        <4>3. QED
          BY <4>1, <4>2
      <3>2. CASE m # n
        <4>1. m \in 0 .. n - 1 /\ h[m] = g[m]
          BY <2>h, <3>2
        <4>2. m # 0 => h[m - 1] = g[m - 1]
          BY <2>h, <3>2
        <4>3. QED
          BY <2>g, <4>1, <4>2
      <3>3. QED
        BY <3>1, <3>2
    <2>4. Follows(h, n)
      BY <2>3 DEF Recursive
    <2> HIDE DEF h, Follows
    <2>5. QED
      BY <2>2, <2>4
  <1> HIDE DEF done
  <1>3. 0 .. bound \subseteq done
    BY <1>1, <1>2, Induction
  <1>4. QED
    BY <1>3 DEF done

-----------------------------------------------------------------------------
(***************************************************************************)
(* Elements kept from a sequence.                                          *)
(***************************************************************************)

\* g counts the places P upwards: place g[i] is the i-th of n.
Enumerates(g, n, P) ==
  /\ g \in [1 .. n -> P]
  /\ \A i, j \in 1 .. n : i < j => g[i] < g[j]
  /\ \A p \in P : \E i \in 1 .. n : g[i] = p

\* ks is made of the elements of xs at the places P, in their order.
Lists(ks, xs, P) ==
  \E g : Enumerates(g, Len(ks), P) /\ \A i \in 1 .. Len(ks) : ks[i] = xs[g[i]]

\* One more place, beyond the others, adds its element at the end.
LEMMA ListsAppend ==
  ASSUME NEW T, NEW xs \in Seq(T), NEW ks \in Seq(T), NEW P \in SUBSET Nat, NEW p \in Nat,
         p \in 1 .. Len(xs), \A q \in P : q < p, Lists(ks, xs, P)
  PROVE  Lists(Append(ks, xs[p]), xs, P \cup {p})
PROOF
  <1>1. PICK g : Enumerates(g, Len(ks), P) /\ \A i \in 1 .. Len(ks) : ks[i] = xs[g[i]]
    BY DEF Lists
  <1>2. PICK n \in Nat : n = Len(ks)
    OBVIOUS
  <1> DEFINE h == [i \in 1 .. n + 1 |-> IF i = n + 1 THEN p ELSE g[i]]
             ls == Append(ks, xs[p])
  <1>3. /\ Len(ls) = n + 1 /\ ls[n + 1] = xs[p]
        /\ \A i \in 1 .. n : ls[i] = ks[i]
    BY <1>2
  <1>4. /\ g \in [1 .. n -> P]
        /\ \A i, j \in 1 .. n : i < j => g[i] < g[j]
        /\ \A q \in P : \E i \in 1 .. n : g[i] = q
    BY <1>1, <1>2 DEF Enumerates
  <1>5. \A i \in 1 .. n + 1 : h[i] = IF i = n + 1 THEN p ELSE g[i]
    OBVIOUS
  <1>6. h \in [1 .. n + 1 -> P \cup {p}]
    BY <1>4
  <1> HIDE DEF h, ls
  <1>7. \A i, j \in 1 .. n + 1 : i < j => h[i] < h[j]
    <2> SUFFICES ASSUME NEW i \in 1 .. n + 1, NEW j \in 1 .. n + 1, i < j
                 PROVE  h[i] < h[j]
      OBVIOUS
    <2>1. i \in 1 .. n /\ h[i] = g[i] /\ g[i] \in P
      BY <1>2, <1>4, <1>5
    <2>2. CASE j = n + 1
      BY <1>5, <2>1, <2>2
    <2>3. CASE j # n + 1
      BY <1>4, <1>5, <2>1, <2>3
    <2>4. QED
      BY <2>2, <2>3
  <1>8. \A q \in P \cup {p} : \E i \in 1 .. n + 1 : h[i] = q
    <2> SUFFICES ASSUME NEW q \in P \cup {p}
                 PROVE  \E i \in 1 .. n + 1 : h[i] = q
      OBVIOUS
    <2>1. CASE q = p
      <3>1. n + 1 \in 1 .. n + 1 /\ h[n + 1] = q
        BY <1>2, <1>5, <2>1
      <3>2. QED
        BY <3>1
    <2>2. CASE q # p
      <3>1. PICK i \in 1 .. n : g[i] = q
        BY <1>4, <2>2
      <3>2. i \in 1 .. n + 1 /\ h[i] = q
        BY <1>2, <1>5, <3>1
      <3>3. QED
        BY <3>2
    <2>3. QED
      BY <2>1, <2>2
  <1>9. Enumerates(h, n + 1, P \cup {p})
    BY <1>6, <1>7, <1>8 DEF Enumerates
  <1>10. \A i \in 1 .. n + 1 : ls[i] = xs[h[i]]
    BY <1>1, <1>2, <1>3, <1>5
  <1>11. Lists(ls, xs, P \cup {p})
    BY <1>3, <1>9, <1>10 DEF Lists
  <1>12. QED
    BY <1>11 DEF ls

\* h keeps the elements of xs at the places S, one place after the other.
KeepsUp(h, xs, S) ==
  /\ h[0] = <<>>
  /\ \A n \in 1 .. Len(xs) : n \in S => h[n] = Append(h[n - 1], xs[n])
  /\ \A n \in 1 .. Len(xs) : n \notin S => h[n] = h[n - 1]

\* What is kept in the end is the last of what is kept on the way.
LEMMA KeptSteps ==
  ASSUME NEW T, NEW xs \in Seq(T), NEW S \in SUBSET (1 .. Len(xs))
  PROVE  \E h : KeepsUp(h, xs, S) /\ Kept(xs, S) = h[Len(xs)]
PROOF
  <1>1. PICK bound \in Nat : bound = Len(xs)
    OBVIOUS
  <1> DEFINE step == [a \in (1 .. bound) \X Seq(T) |->
                        IF a[1] \in S THEN Append(a[2], xs[a[1]]) ELSE a[2]]
  <1>2. step \in [(1 .. bound) \X Seq(T) -> Seq(T)]
    BY <1>1
  <1>3. \A n \in 1 .. bound, ks \in Seq(T) :
           step[<<n, ks>>] = IF n \in S THEN Append(ks, xs[n]) ELSE ks
    OBVIOUS
  <1>4. <<>> \in Seq(T)
    OBVIOUS
  <1> HIDE DEF step
  <1>5. PICK g \in [0 .. bound -> Seq(T)] : Recursive(g, <<>>, step, bound)
    BY <1>2, <1>4, Recursion
  <1>6. \A n \in 0 .. bound :
           g[n] = IF n = 0 THEN <<>> ELSE IF n \in S THEN Append(g[n - 1], xs[n]) ELSE g[n - 1]
    <2> SUFFICES ASSUME NEW n \in 0 .. bound
                 PROVE  g[n] = IF n = 0 THEN <<>>
                               ELSE IF n \in S THEN Append(g[n - 1], xs[n]) ELSE g[n - 1]
      OBVIOUS
    <2>1. g[n] = IF n = 0 THEN <<>> ELSE step[<<n, g[n - 1]>>]
      BY <1>5 DEF Recursive
    <2>2. n # 0 => n \in 1 .. bound /\ g[n - 1] \in Seq(T)
      BY <1>5
    <2>3. QED
      BY <1>3, <2>1, <2>2
  <1>7. g = [n \in 0 .. bound |->
               IF n = 0 THEN <<>> ELSE IF n \in S THEN Append(g[n - 1], xs[n]) ELSE g[n - 1]]
    BY <1>6
  <1>8. PICK h : /\ h = [n \in 0 .. Len(xs) |->
                           IF n = 0 THEN <<>> ELSE IF n \in S THEN Append(h[n - 1], xs[n]) ELSE h[n - 1]]
                 /\ Kept(xs, S) = h[Len(xs)]
    BY <1>1, <1>7, Zenon DEF Kept
  <1>9. \A n \in 0 .. bound :
           h[n] = IF n = 0 THEN <<>> ELSE IF n \in S THEN Append(h[n - 1], xs[n]) ELSE h[n - 1]
    BY <1>1, <1>8, Zenon
  <1>a. h[0] = <<>>
    BY <1>9
  <1>b. \A n \in 1 .. bound : n \in 0 .. bound /\ n # 0
    OBVIOUS
  <1>c. \A n \in 1 .. bound : n \in S => h[n] = Append(h[n - 1], xs[n])
    BY <1>9, <1>b, Zenon
  <1>d. \A n \in 1 .. bound : n \notin S => h[n] = h[n - 1]
    BY <1>9, <1>b, Zenon
  <1>10. QED
    BY <1>1, <1>8, <1>a, <1>c, <1>d DEF KeepsUp

\* Kept(xs, S) takes exactly the elements at the places S, in their order.
LEMMA KeptLists ==
  ASSUME NEW T, NEW xs \in Seq(T), NEW S \in SUBSET (1 .. Len(xs))
  PROVE  Kept(xs, S) \in Seq(T) /\ Lists(Kept(xs, S), xs, S)
PROOF
  <1>1. PICK bound \in Nat : bound = Len(xs)
    OBVIOUS
  <1>4. <<>> \in Seq(T)
    OBVIOUS
  <1>8. PICK h : KeepsUp(h, xs, S) /\ Kept(xs, S) = h[Len(xs)]
    BY KeptSteps
  <1>a. h[0] = <<>>
    BY <1>8 DEF KeepsUp
  <1>c. \A n \in 1 .. bound : n \in S => h[n] = Append(h[n - 1], xs[n])
    BY <1>1, <1>8, Zenon DEF KeepsUp
  <1>d. \A n \in 1 .. bound : n \notin S => h[n] = h[n - 1]
    BY <1>1, <1>8, Zenon DEF KeepsUp
  <1> DEFINE done == {n \in 0 .. bound : h[n] \in Seq(T) /\ Lists(h[n], xs, S \cap 1 .. n)}
  <1>e. \A n \in 1 .. bound : h[n] \in Seq(T) /\ Lists(h[n], xs, S \cap 1 .. n) => n \in done
    OBVIOUS
  <1>10. 0 \in done
    <2>1. h[0] = <<>> /\ 0 \in 0 .. bound
      BY <1>a
    <2>2. Enumerates(<<>>, Len(<<>>), S \cap 1 .. 0)
      BY DEF Enumerates
    <2>3. \A i \in 1 .. Len(<<>>) : <<>>[i] = xs[<<>>[i]]
      OBVIOUS
    <2>4. Lists(<<>>, xs, S \cap 1 .. 0)
      BY <2>2, <2>3 DEF Lists
    <2>5. QED
      BY <1>4, <2>1, <2>4
  <1>11. ASSUME NEW n \in 1 .. bound, n - 1 \in done
         PROVE  n \in done
    <2>1. /\ h[n - 1] \in Seq(T) /\ Lists(h[n - 1], xs, S \cap 1 .. n - 1)
      BY <1>11
    <2>2. CASE n \in S
      <3>1. h[n] = Append(h[n - 1], xs[n]) /\ xs[n] \in T
        BY <1>1, <1>c, <2>2
      <3>2. (S \cap 1 .. n - 1) \cup {n} = S \cap 1 .. n
        BY <2>2
      <3>3. PICK P \in SUBSET Nat : P = S \cap 1 .. n - 1
        <4>1. S \cap 1 .. n - 1 \in SUBSET Nat
          OBVIOUS
        <4>2. QED
          BY <4>1, Zenon
      <3>4. Lists(Append(h[n - 1], xs[n]), xs, P \cup {n})
        <4>1. n \in Nat /\ n \in 1 .. Len(xs) /\ \A q \in P : q < n
          BY <1>1, <3>3
        <4>2. QED
          BY <2>1, <3>3, <4>1, ListsAppend
      <3>5. Lists(h[n], xs, S \cap 1 .. n)
        BY <3>1, <3>2, <3>3, <3>4, Zenon
      <3>6. h[n] \in Seq(T)
        BY <2>1, <3>1
      <3>7. QED
        BY <3>5, <3>6, <1>e, Zenon
    <2>3. CASE n \notin S
      <3>1. h[n] = h[n - 1]
        BY <1>d, <2>3
      <3>2. S \cap 1 .. n - 1 = S \cap 1 .. n
        BY <2>3
      <3>3. Lists(h[n], xs, S \cap 1 .. n)
        BY <2>1, <3>1, <3>2, Zenon
      <3>4. QED
        BY <2>1, <3>1, <3>3, <1>e, Zenon
    <2>4. QED
      BY <2>2, <2>3
  <1>f. \A n \in done : h[n] \in Seq(T) /\ Lists(h[n], xs, S \cap 1 .. n)
    OBVIOUS
  <1> HIDE DEF done
  <1>12. bound \in done
    <2>1. 0 .. bound \subseteq done
      BY <1>10, <1>11, Induction
    <2>2. QED
      BY <2>1
  <1>13. S \cap 1 .. bound = S
    BY <1>1
  <1>14. QED
    BY <1>1, <1>8, <1>12, <1>13, <1>f

\* There is one way to count places upwards.
LEMMA EnumeratesOnce ==
  ASSUME NEW P \in SUBSET Nat, NEW m \in Nat, NEW n \in Nat, NEW g, NEW h,
         Enumerates(g, m, P), Enumerates(h, n, P)
  PROVE  m = n /\ \A i \in 1 .. m : g[i] = h[i]
PROOF
  <1>1. /\ g \in [1 .. m -> P]
        /\ \A i, j \in 1 .. m : i < j => g[i] < g[j]
        /\ \A p \in P : \E i \in 1 .. m : g[i] = p
    BY DEF Enumerates
  <1>2. /\ h \in [1 .. n -> P]
        /\ \A i, j \in 1 .. n : i < j => h[i] < h[j]
        /\ \A p \in P : \E i \in 1 .. n : h[i] = p
    BY DEF Enumerates
  <1> DEFINE same == {k \in Nat : \A i \in 1 .. k : i \in 1 .. m => i \in 1 .. n /\ g[i] = h[i]}
  <1>3. 0 \in same
    OBVIOUS
  <1>4. ASSUME NEW k \in 1 .. m, k - 1 \in same
        PROVE  k \in same
    <2>1. \A i \in 1 .. k - 1 : i \in 1 .. n /\ g[i] = h[i]
      BY <1>4
    <2>2. PICK a \in 1 .. n : h[a] = g[k]
      BY <1>1, <1>2
    <2>3. \A i \in 1 .. k - 1 : g[i] < g[k]
      BY <1>1
    <2>4. ~(a \in 1 .. k - 1)
      <3>1. SUFFICES ASSUME a \in 1 .. k - 1 PROVE FALSE
        OBVIOUS
      <3>2. g[a] = h[a] /\ g[a] < g[k] /\ g[k] \in Nat
        BY <1>1, <2>1, <2>3, <3>1
      <3>3. QED
        BY <2>2, <3>2
    <2>5. k \in 1 .. n
      BY <2>4
    <2>6. CASE a = k
      <3>1. \A i \in 1 .. k : i \in 1 .. n /\ g[i] = h[i]
        BY <2>1, <2>2, <2>6
      <3>2. QED
        BY <3>1
    <2>7. CASE a # k
      <3>1. h[k] < g[k] /\ h[k] \in P
        BY <1>2, <2>2, <2>4, <2>5, <2>7
      <3>2. PICK b \in 1 .. m : g[b] = h[k]
        BY <1>1, <3>1
      <3>3. b \in 1 .. k - 1
        <4>1. ~(k < b) /\ b # k
          <5>1. k < b => g[k] < g[b]
            BY <1>1
          <5>2. h[k] \in Nat /\ g[k] \in Nat
            BY <1>1, <3>1
          <5>3. QED
            BY <3>1, <3>2, <5>1, <5>2
        <4>2. QED
          BY <4>1
      <3>4. h[b] = h[k] /\ b \in 1 .. n /\ b < k
        BY <2>1, <3>2, <3>3
      <3>5. h[b] < h[k] /\ h[b] \in Nat
        BY <1>2, <2>5, <3>4
      <3>6. QED
        BY <3>4, <3>5
    <2>8. QED
      BY <2>6, <2>7
  <1> HIDE DEF same
  <1>5. m \in same
    <2>1. 0 .. m \subseteq same
      BY <1>3, <1>4, Induction
    <2>2. QED
      BY <2>1
  <1>6. \A i \in 1 .. m : i \in 1 .. n /\ g[i] = h[i]
    BY <1>5 DEF same
  <1>7. ~(m < n)
    <2>1. SUFFICES ASSUME m < n PROVE FALSE
      OBVIOUS
    <2>2. m + 1 \in 1 .. n
      BY <2>1
    <2>3. PICK a \in 1 .. m : g[a] = h[m + 1]
      BY <1>1, <1>2, <2>2
    <2>4. h[a] = h[m + 1] /\ a \in 1 .. n /\ a < m + 1
      BY <1>6, <2>3
    <2>5. h[a] < h[m + 1] /\ h[a] \in Nat
      BY <1>2, <2>2, <2>4
    <2>6. QED
      BY <2>4, <2>5
  <1>8. ~(n < m)
    <2>1. n < m => m \in 1 .. n
      BY <1>6
    <2>2. QED
      BY <2>1
  <1>9. QED
    BY <1>6, <1>7, <1>8

\* Places and the sequence they are places of determine what is listed.
LEMMA ListsOnce ==
  ASSUME NEW T, NEW ks \in Seq(T), NEW ls \in Seq(T), NEW xs, NEW P \in SUBSET Nat,
         Lists(ks, xs, P), Lists(ls, xs, P)
  PROVE  ks = ls
PROOF
  <1>1. PICK g : Enumerates(g, Len(ks), P) /\ \A i \in 1 .. Len(ks) : ks[i] = xs[g[i]]
    BY DEF Lists
  <1>2. PICK h : Enumerates(h, Len(ls), P) /\ \A i \in 1 .. Len(ls) : ls[i] = xs[h[i]]
    BY DEF Lists
  <1>3. Len(ks) \in Nat /\ Len(ls) \in Nat
    OBVIOUS
  <1>4. Len(ks) = Len(ls) /\ \A i \in 1 .. Len(ks) : g[i] = h[i]
    BY <1>1, <1>2, <1>3, EnumeratesOnce
  <1>5. \A i \in 1 .. Len(ks) : ks[i] = ls[i]
    BY <1>1, <1>2, <1>4
  <1>6. QED
    BY <1>4, <1>5, SeqEqual

\* What is kept of a sequence: the elements at the places S and no other, later ones later.
LEMMA KeptFacts ==
  ASSUME NEW T, NEW xs \in Seq(T), NEW S \in SUBSET (1 .. Len(xs))
  PROVE  /\ Kept(xs, S) \in Seq(T)
         /\ \A i \in 1 .. Len(Kept(xs, S)) : \E p \in S : Kept(xs, S)[i] = xs[p]
         /\ \A p \in S : \E i \in 1 .. Len(Kept(xs, S)) : Kept(xs, S)[i] = xs[p]
         /\ \A i, j \in 1 .. Len(Kept(xs, S)) : i < j =>
              \E p, q \in S : p < q /\ Kept(xs, S)[i] = xs[p] /\ Kept(xs, S)[j] = xs[q]
         /\ Kept(xs, S) = <<>> <=> S = {}
PROOF
  <1>1. PICK ks \in Seq(T) : ks = Kept(xs, S)
    BY KeptLists
  <1>2. Lists(ks, xs, S)
    BY <1>1, KeptLists
  <1>3. PICK g : Enumerates(g, Len(ks), S) /\ \A i \in 1 .. Len(ks) : ks[i] = xs[g[i]]
    BY <1>2 DEF Lists
  <1>4. /\ g \in [1 .. Len(ks) -> S]
        /\ \A i, j \in 1 .. Len(ks) : i < j => g[i] < g[j]
        /\ \A p \in S : \E i \in 1 .. Len(ks) : g[i] = p
    BY <1>3 DEF Enumerates
  <1>5. \A i \in 1 .. Len(ks) : \E p \in S : ks[i] = xs[p]
    BY <1>3, <1>4
  <1>6. \A p \in S : \E i \in 1 .. Len(ks) : ks[i] = xs[p]
    BY <1>3, <1>4
  <1>7. \A i, j \in 1 .. Len(ks) : i < j => \E p, q \in S : p < q /\ ks[i] = xs[p] /\ ks[j] = xs[q]
    <2> SUFFICES ASSUME NEW i \in 1 .. Len(ks), NEW j \in 1 .. Len(ks), i < j
                 PROVE  \E p, q \in S : p < q /\ ks[i] = xs[p] /\ ks[j] = xs[q]
      OBVIOUS
    <2>1. g[i] \in S /\ g[j] \in S /\ g[i] < g[j] /\ ks[i] = xs[g[i]] /\ ks[j] = xs[g[j]]
      BY <1>3, <1>4
    <2>2. QED
      BY <2>1, Zenon
  <1>8. ks = <<>> <=> S = {}
    <2>1. ks = <<>> => S = {}
      BY <1>4
    <2>2. S = {} => ks = <<>>
      <3>1. S = {} => ~(1 \in 1 .. Len(ks))
        BY <1>4
      <3>2. Len(ks) \in Nat
        OBVIOUS
      <3>3. S = {} => Len(ks) = 0
        BY <3>1, <3>2
      <3>4. QED
        BY <3>3
    <2>3. QED
      BY <2>1, <2>2
  <1>9. QED
    BY <1>1, <1>5, <1>6, <1>7, <1>8

\* Keeping everything changes nothing.
LEMMA KeptAll ==
  ASSUME NEW T, NEW xs \in Seq(T)
  PROVE  Kept(xs, 1 .. Len(xs)) = xs
PROOF
  <1>1. PICK n \in Nat : n = Len(xs)
    OBVIOUS
  <1> DEFINE g == [i \in 1 .. n |-> i]
  <1>2. \A i \in 1 .. n : g[i] = i
    OBVIOUS
  <1>3. Enumerates(g, n, 1 .. n)
    BY DEF Enumerates
  <1> HIDE DEF g
  <1>4. Lists(xs, xs, 1 .. n)
    BY <1>1, <1>2, <1>3 DEF Lists
  <1>5. Kept(xs, 1 .. n) \in Seq(T) /\ Lists(Kept(xs, 1 .. n), xs, 1 .. n)
    BY <1>1, KeptLists
  <1>6. 1 .. n \in SUBSET Nat
    OBVIOUS
  <1>7. QED
    BY <1>1, <1>4, <1>5, <1>6, ListsOnce

\* Taking a field of what is kept is keeping the same places of the fields.
LEMMA KeptColumn ==
  ASSUME NEW T, NEW xs \in Seq(T), NEW U, NEW ys \in Seq(U), Len(ys) = Len(xs),
         NEW k, \A i \in 1 .. Len(xs) : ys[i] = xs[i][k], NEW S \in SUBSET (1 .. Len(xs))
  PROVE  /\ Len(Kept(ys, S)) = Len(Kept(xs, S))
         /\ \A i \in 1 .. Len(Kept(xs, S)) : Kept(ys, S)[i] = Kept(xs, S)[i][k]
PROOF
  <1>1. PICK ks \in Seq(T) : ks = Kept(xs, S)
    BY KeptLists
  <1>2. Lists(ks, xs, S)
    BY <1>1, KeptLists
  <1>3. PICK n \in Nat : n = Len(ks)
    OBVIOUS
  <1>4. PICK g : Enumerates(g, n, S) /\ \A i \in 1 .. n : ks[i] = xs[g[i]]
    BY <1>2, <1>3 DEF Lists
  <1> DEFINE ls == [i \in 1 .. n |-> ks[i][k]]
  <1>5. \A i \in 1 .. n : ls[i] = ks[i][k] /\ g[i] \in 1 .. Len(xs)
    BY <1>4 DEF Enumerates
  <1>6. \A i \in 1 .. n : ls[i] = ys[g[i]] /\ ys[g[i]] \in U
    BY <1>4, <1>5
  <1>7. ls \in Seq(U) /\ Len(ls) = n
    <2>1. \A i \in 1 .. n : ks[i][k] \in U
      BY <1>5, <1>6
    <2>2. QED
      BY <2>1
  <1> HIDE DEF ls
  <1>8. Lists(ls, ys, S)
    BY <1>4, <1>6, <1>7 DEF Lists
  <1>9. Kept(ys, S) \in Seq(U) /\ Lists(Kept(ys, S), ys, S)
    BY KeptLists
  <1>10. S \in SUBSET Nat
    OBVIOUS
  <1>11. ls = Kept(ys, S)
    BY <1>7, <1>8, <1>9, <1>10, ListsOnce
  <1>12. QED
    BY <1>1, <1>3, <1>5, <1>7, <1>11

-----------------------------------------------------------------------------
(***************************************************************************)
(* Totals.                                                                 *)
(***************************************************************************)

\* g adds up v from the front.
AddsUp(g, v) ==
  /\ g \in [0 .. Len(v) -> Int] /\ g[0] = 0
  /\ \A n \in 1 .. Len(v) : g[n] = g[n - 1] + v[n]

\* A total is the last of the sums that add up the sequence.
LEMMA TotalSum ==
  ASSUME NEW v \in Seq(Int)
  PROVE  \E g : AddsUp(g, v) /\ Total(v) = g[Len(v)]
PROOF
  <1>1. PICK bound \in Nat : bound = Len(v)
    OBVIOUS
  <1> DEFINE step == [a \in (1 .. bound) \X Int |-> a[2] + v[a[1]]]
  <1>2. step \in [(1 .. bound) \X Int -> Int]
    BY <1>1
  <1>3. \A n \in 1 .. bound, t \in Int : step[<<n, t>>] = t + v[n]
    OBVIOUS
  <1> HIDE DEF step
  <1>z. 0 \in Int
    OBVIOUS
  <1>4. PICK g \in [0 .. bound -> Int] : Recursive(g, 0, step, bound)
    BY <1>2, <1>z, Recursion
  <1>5. \A n \in 0 .. bound : g[n] = IF n = 0 THEN 0 ELSE g[n - 1] + v[n]
    <2> SUFFICES ASSUME NEW n \in 0 .. bound
                 PROVE  g[n] = IF n = 0 THEN 0 ELSE g[n - 1] + v[n]
      OBVIOUS
    <2>1. g[n] = IF n = 0 THEN 0 ELSE step[<<n, g[n - 1]>>]
      BY <1>4 DEF Recursive
    <2>2. n # 0 => n \in 1 .. bound /\ g[n - 1] \in Int
      BY <1>4
    <2>3. QED
      BY <1>3, <2>1, <2>2
  <1>6. g = [n \in 0 .. bound |-> IF n = 0 THEN 0 ELSE g[n - 1] + v[n]]
    BY <1>5
  <1>7. PICK h : /\ h = [n \in 0 .. Len(v) |-> IF n = 0 THEN 0 ELSE h[n - 1] + v[n]]
                 /\ Total(v) = h[Len(v)]
    BY <1>1, <1>6, Zenon DEF Total
  <1>8. \A n \in 0 .. bound : h[n] = IF n = 0 THEN 0 ELSE h[n - 1] + v[n]
    BY <1>1, <1>7, Zenon
  <1>9. h[0] = 0 /\ \A n \in 1 .. bound : h[n] = h[n - 1] + v[n]
    BY <1>8
  <1> DEFINE done == {n \in 0 .. bound : h[n] \in Int}
  <1>10. 0 \in done
    BY <1>9
  <1>11. \A n \in 1 .. bound : n - 1 \in done => n \in done
    <2> SUFFICES ASSUME NEW n \in 1 .. bound, n - 1 \in done
                 PROVE  n \in done
      OBVIOUS
    <2>1. h[n] = h[n - 1] + v[n] /\ h[n - 1] \in Int /\ v[n] \in Int
      BY <1>1, <1>9
    <2>2. QED
      BY <2>1
  <1>12. \A n \in done : h[n] \in Int
    OBVIOUS
  <1> HIDE DEF done
  <1>13. 0 .. bound \subseteq done
    BY <1>10, <1>11, Induction
  <1>14. h \in [0 .. bound -> Int]
    <2>1. \A n \in 0 .. bound : h[n] \in Int
      BY <1>12, <1>13
    <2>2. DOMAIN h = 0 .. bound /\ h = [n \in 0 .. bound |-> h[n]]
      BY <1>1, <1>7
    <2>3. QED
      BY <2>1, <2>2
  <1>15. AddsUp(h, v)
    BY <1>1, <1>9, <1>14 DEF AddsUp
  <1>16. QED
    BY <1>7, <1>15

\* Nothing adds up to 0, and whole numbers to a whole number.
LEMMA TotalEmpty == Total(<<>>) = 0
PROOF
  <1>1. <<>> \in Seq(Int) /\ Len(<<>>) = 0
    OBVIOUS
  <1>2. PICK g : AddsUp(g, <<>>) /\ Total(<<>>) = g[0]
    BY <1>1, TotalSum
  <1>3. QED
    BY <1>2 DEF AddsUp

\* A total of whole numbers is one.
LEMMA TotalInt ==
  ASSUME NEW v \in Seq(Int)
  PROVE  Total(v) \in Int
PROOF
  <1>1. PICK g : AddsUp(g, v) /\ Total(v) = g[Len(v)]
    BY TotalSum
  <1>2. Len(v) \in 0 .. Len(v)
    OBVIOUS
  <1>3. QED
    BY <1>1, <1>2 DEF AddsUp

\* Multiples of k add up to a multiple of k.
Multiples(k) == {q * k : q \in Nat}
\* Sums of multiples of the grain are multiples of it.
LEMMA MultiplesAdd ==
  ASSUME NEW k \in Nat, NEW a \in Multiples(k), NEW b \in Multiples(k)
  PROVE  a + b \in Multiples(k) /\ a \in Nat
PROOF
  <1>1. PICK p \in Nat, q \in Nat : a = p * k /\ b = q * k
    BY DEF Multiples
  <1>2. a + b = (p + q) * k /\ p + q \in Nat
    BY <1>1
  <1>3. QED
    BY <1>1, <1>2 DEF Multiples

\* A total of multiples of the grain is one.
LEMMA TotalMultiple ==
  ASSUME NEW k \in Nat, NEW v \in Seq(Nat), \A i \in 1 .. Len(v) : v[i] \in Multiples(k)
  PROVE  Total(v) \in Multiples(k)
PROOF
  <1>1. v \in Seq(Int)
    OBVIOUS
  <1>2. PICK g : AddsUp(g, v) /\ Total(v) = g[Len(v)]
    BY <1>1, TotalSum
  <1>3. PICK bound \in Nat : bound = Len(v)
    OBVIOUS
  <1> DEFINE done == {n \in 0 .. bound : g[n] \in Multiples(k)}
  <1>4. 0 \in done
    <2>1. g[0] = 0 /\ 0 \in 0 .. bound
      BY <1>2 DEF AddsUp
    <2>2. \E q \in Nat : 0 = q * k
      <3>1. 0 = 0 * k /\ 0 \in Nat
        OBVIOUS
      <3>2. QED
        BY <3>1
    <2>3. g[0] \in Multiples(k)
      BY <2>1, <2>2 DEF Multiples
    <2>4. QED
      BY <2>1, <2>3
  <1>5. \A n \in 1 .. bound : n - 1 \in done => n \in done
    <2> SUFFICES ASSUME NEW n \in 1 .. bound, n - 1 \in done
                 PROVE  n \in done
      OBVIOUS
    <2>1. g[n] = g[n - 1] + v[n] /\ v[n] \in Multiples(k)
      BY <1>2, <1>3 DEF AddsUp
    <2>2. g[n - 1] \in Multiples(k)
      OBVIOUS
    <2>3. g[n] \in Multiples(k)
      BY <2>1, <2>2, MultiplesAdd
    <2>4. QED
      BY <2>3
  <1>6. \A n \in done : g[n] \in Multiples(k)
    OBVIOUS
  <1> HIDE DEF done
  <1>7. 0 .. bound \subseteq done
    BY <1>4, <1>5, Induction
  <1>8. QED
    BY <1>2, <1>3, <1>6, <1>7

\* The total of sums is the sum of the totals.
LEMMA TotalPlus ==
  ASSUME NEW u \in Seq(Int), NEW v \in Seq(Int), NEW w \in Seq(Int),
         Len(u) = Len(w), Len(v) = Len(w), \A i \in 1 .. Len(w) : w[i] = u[i] + v[i]
  PROVE  Total(w) = Total(u) + Total(v)
PROOF
  <1>1. PICK f1 : AddsUp(f1, u) /\ Total(u) = f1[Len(u)]
    BY TotalSum
  <1>2. PICK f2 : AddsUp(f2, v) /\ Total(v) = f2[Len(v)]
    BY TotalSum
  <1>3. PICK f3 : AddsUp(f3, w) /\ Total(w) = f3[Len(w)]
    BY TotalSum
  <1>4. PICK bound \in Nat : bound = Len(w)
    OBVIOUS
  <1> DEFINE done == {n \in 0 .. bound : f3[n] = f1[n] + f2[n]}
  <1>5. 0 \in done
    BY <1>1, <1>2, <1>3 DEF AddsUp
  <1>6. \A n \in 1 .. bound : n - 1 \in done => n \in done
    <2> SUFFICES ASSUME NEW n \in 1 .. bound, n - 1 \in done
                 PROVE  n \in done
      OBVIOUS
    <2>1. f1[n] = f1[n - 1] + u[n] /\ f2[n] = f2[n - 1] + v[n] /\ f3[n] = f3[n - 1] + w[n]
      BY <1>1, <1>2, <1>3, <1>4 DEF AddsUp
    <2>2. f1[n - 1] \in Int /\ f2[n - 1] \in Int
      <3>1. n - 1 \in 0 .. bound
        OBVIOUS
      <3>2. f1 \in [0 .. bound -> Int] /\ f2 \in [0 .. bound -> Int]
        BY <1>1, <1>2, <1>4 DEF AddsUp
      <3>3. QED
        BY <3>1, <3>2
    <2>a. u[n] \in Int /\ v[n] \in Int /\ w[n] = u[n] + v[n]
      BY <1>4
    <2>3. f3[n - 1] = f1[n - 1] + f2[n - 1]
      OBVIOUS
    <2>4. f3[n] = f1[n] + f2[n]
      <3>1. PICK a \in Int, b \in Int, c \in Int, d \in Int :
              a = f1[n - 1] /\ b = f2[n - 1] /\ c = u[n] /\ d = v[n]
        BY <2>2, <2>a
      <3>2. f3[n] = (a + b) + (c + d) /\ f1[n] = a + c /\ f2[n] = b + d
        BY <2>1, <2>a, <2>3, <3>1, Zenon
      <3>3. QED
        BY <3>2
    <2>5. QED
      BY <2>4
  <1>7. \A n \in done : f3[n] = f1[n] + f2[n]
    OBVIOUS
  <1> HIDE DEF done
  <1>8. 0 .. bound \subseteq done
    BY <1>5, <1>6, Induction
  <1>9. QED
    BY <1>1, <1>2, <1>3, <1>4, <1>7, <1>8

-----------------------------------------------------------------------------
(***************************************************************************)
(* The raw files.                                                          *)
(***************************************************************************)

Measured(x) ==
  /\ x["lat_mean_ms"] \in Nat /\ x["qps"] \in Nat
  /\ x["lat_p99_ms"] \in Nat /\ x["rss_mb"] \in Nat /\ x["ins_ops_s"] \in Nat
  /\ x["lat_mean_ms"] = 0 <=> x["lat_p99_ms"] = 0
  /\ x["lat_p99_ms"] \in Multiples(Grain) /\ x["ins_ops_s"] \in Multiples(Grain)
  /\ x["rss_anon_mb"] # None => x["rss_anon_mb"] \in Multiples(Grain)

\* One row for each epoch from the first on.
RowsOK(r) ==
  /\ r \in Seq(Row) /\ Len(r) <= NEpochs
  /\ \A i \in 1 .. Len(r) : r[i]["epoch"] = i - 1 /\ Measured(r[i])

\* Samples in the order of their times, whose tags never go back.
MemOK(m) ==
  /\ m \in Seq(MemSample)
  /\ \A i \in 1 .. Len(m) : m[i].t = i - 1 /\ m[i].anon \in Multiples(Grain)
  /\ \A i, j \in 1 .. Len(m) : i <= j => m[i].epoch <= m[j].epoch

CacheOK(c, m) ==
  /\ c \in Seq(CachePoint)
  /\ \A i \in 1 .. Len(c) :
       /\ c[i].cached \in Multiples(Grain)
       /\ c[i].t \in c[i].after - 1 - Skew .. c[i].after + Skew /\ c[i].after <= Len(m)

\* Lines of one system that are there now, each of which was counted in written.
Lines(r, m, c) == Len(Found(r)) + Len(Found(m)) + Len(Found(c))

FilesOK(r, m, c, l, e, w) ==
  /\ r \in {Absent} \cup Seq(Row)
  /\ m \in {Absent} \cup Seq(MemSample)
  /\ c \in {Absent} \cup Seq(CachePoint)
  /\ RowsOK(Found(r)) /\ MemOK(Found(m)) /\ CacheOK(Found(c), Found(m))
  /\ l \in {"off", "build", "stream"} /\ e \in Tags /\ w \in 0 .. Records
  /\ l # "off" => m # Absent /\ c # Absent /\ \A i \in 1 .. Len(m) : m[i].epoch <= e
  /\ l = "stream" => r # Absent
  /\ l # "stream" => e = -1
  /\ Lines(r, m, c) > 0 \/ l # "off" => Lines(r, m, c) + 1 <= w

RawInv ==
  /\ DOMAIN rows = Systems /\ DOMAIN mem = Systems /\ DOMAIN cache = Systems
  /\ DOMAIN leg = Systems /\ DOMAIN epoch = Systems /\ written \in 0 .. Records
  /\ \A s \in Systems : FilesOK(rows[s], mem[s], cache[s], leg[s], epoch[s], written)

\* What is in a file is found, and nothing where there is none.
LEMMA FoundFacts ==
  /\ \A r \in Seq(Row) : r # Absent /\ Found(r) = r
  /\ \A m \in Seq(MemSample) : m # Absent /\ Found(m) = m
  /\ \A c \in Seq(CachePoint) : c # Absent /\ Found(c) = c
  /\ Found(Absent) = <<>>
PROOF
  BY AbsentAssumption DEF Found

\* The types of the files, and which of them are there in each phase of a leg.
LEMMA FilesType ==
  ASSUME NEW r, NEW m, NEW c, NEW l, NEW e, NEW w, FilesOK(r, m, c, l, e, w)
  PROVE  /\ Found(r) \in Seq(Row) /\ Found(m) \in Seq(MemSample) /\ Found(c) \in Seq(CachePoint)
         /\ l # "off" => Found(m) = m /\ Found(c) = c /\ m \in Seq(MemSample) /\ c \in Seq(CachePoint)
         /\ l = "stream" => Found(r) = r /\ r \in Seq(Row)
         /\ Lines(r, m, c) \in Nat
PROOF
  <1>1. Found(r) \in Seq(Row) /\ Found(m) \in Seq(MemSample) /\ Found(c) \in Seq(CachePoint)
    BY FoundFacts DEF FilesOK, RowsOK, MemOK, CacheOK
  <1>2. /\ l # "off" => Found(m) = m /\ Found(c) = c /\ m \in Seq(MemSample) /\ c \in Seq(CachePoint)
        /\ l = "stream" => Found(r) = r /\ r \in Seq(Row)
    BY FoundFacts DEF FilesOK
  <1>3. Lines(r, m, c) \in Nat
    <2>1. Len(Found(r)) \in Nat /\ Len(Found(m)) \in Nat /\ Len(Found(c)) \in Nat
      BY <1>1
    <2>2. QED
      BY <2>1 DEF Lines
  <1>4. QED
    BY <1>1, <1>2, <1>3

\* More may be written elsewhere.
LEMMA FilesLater ==
  ASSUME NEW r, NEW m, NEW c, NEW l, NEW e, NEW w, FilesOK(r, m, c, l, e, w),
         NEW later \in 0 .. Records, w <= later
  PROVE  FilesOK(r, m, c, l, e, later)
PROOF
  <1>1. Lines(r, m, c) \in Nat /\ w \in Nat
    <2>1. Lines(r, m, c) \in Nat
      BY FilesType
    <2>2. w \in 0 .. Records
      BY DEF FilesOK
    <2>3. QED
      BY <2>1, <2>2
  <1>2. Lines(r, m, c) + 1 <= w => Lines(r, m, c) + 1 <= later
    BY <1>1
  <1>3. QED
    BY <1>2 DEF FilesOK

\* A file that a driver has just truncated.
LEMMA EmptyOK ==
  /\ RowsOK(<<>>) /\ MemOK(<<>>) /\ \A m : CacheOK(<<>>, m)
  /\ <<>> \in Seq(Row) /\ <<>> \in Seq(MemSample) /\ <<>> \in Seq(CachePoint)
PROOF
  BY BoundsAssumption DEF RowsOK, MemOK, CacheOK

\* A driver starts its leg: its files are truncated, those of others stay.
LEMMA FilesStart ==
  ASSUME NEW r, NEW m, NEW c, NEW e, NEW w, FilesOK(r, m, c, "off", e, w), w < Records
  PROVE  FilesOK(r, <<>>, <<>>, "build", e, w + 1)
PROOF
  <1>1. Found(<<>>) = <<>> /\ <<>> # Absent
    BY FoundFacts, EmptyOK
  <1>2. Found(r) \in Seq(Row) /\ Found(m) \in Seq(MemSample) /\ Found(c) \in Seq(CachePoint)
    BY FilesType
  <1>3. PICK a \in Nat, b \in Nat, d \in Nat :
          a = Len(Found(r)) /\ b = Len(Found(m)) /\ d = Len(Found(c))
    BY <1>2
  <1>4. Lines(r, m, c) = a + b + d /\ Lines(r, <<>>, <<>>) = a + 0 + 0
    BY <1>1, <1>3 DEF Lines
  <1>5. w \in Nat /\ w + 1 \in 0 .. Records
    BY BoundsAssumption DEF FilesOK
  <1>6. Lines(r, <<>>, <<>>) + 1 <= w + 1
    <2>1. a + b + d > 0 => a + b + d + 1 <= w
      BY <1>4 DEF FilesOK
    <2>2. QED
      BY <1>3, <1>4, <1>5, <2>1
  <1>7. r \in {Absent} \cup Seq(Row) /\ RowsOK(Found(r)) /\ e = -1 /\ e \in Tags
    BY DEF FilesOK
  <1>8. MemOK(Found(<<>>)) /\ CacheOK(Found(<<>>), Found(<<>>))
    BY <1>1, EmptyOK
  <1>9. \A i \in 1 .. Len(<<>>) : <<>>[i].epoch <= e
    OBVIOUS
  <1>10. QED
    BY <1>1, <1>5, <1>6, <1>7, <1>8, <1>9, EmptyOK DEF FilesOK

\* A driver begins to stream.
LEMMA FilesStream ==
  ASSUME NEW r, NEW m, NEW c, NEW e, NEW w, FilesOK(r, m, c, "build", e, w)
  PROVE  FilesOK(<<>>, m, c, "stream", e, w)
PROOF
  <1>1. Found(<<>>) = <<>> /\ <<>> # Absent
    BY FoundFacts, EmptyOK
  <1>2. Found(r) \in Seq(Row) /\ Found(m) \in Seq(MemSample) /\ Found(c) \in Seq(CachePoint)
    BY FilesType
  <1>3. PICK a \in Nat, b \in Nat, d \in Nat :
          a = Len(Found(r)) /\ b = Len(Found(m)) /\ d = Len(Found(c))
    BY <1>2
  <1>4. Lines(r, m, c) = a + b + d /\ Lines(<<>>, m, c) = 0 + b + d
    BY <1>1, <1>3 DEF Lines
  <1>5. Lines(r, m, c) + 1 <= w /\ w \in Nat
    BY BoundsAssumption DEF FilesOK
  <1>6. Lines(<<>>, m, c) + 1 <= w
    BY <1>3, <1>4, <1>5
  <1>7. QED
    BY <1>1, <1>6, EmptyOK DEF FilesOK

\* A driver writes the next epoch to the epoch file.
LEMMA FilesAnnounce ==
  ASSUME NEW r, NEW m, NEW c, NEW e, NEW w, FilesOK(r, m, c, "stream", e, w), e + 1 < NEpochs
  PROVE  FilesOK(r, m, c, "stream", e + 1, w)
PROOF
  <1>1. e \in Int /\ e + 1 \in Tags
    BY BoundsAssumption DEF FilesOK, Tags
  <1>2. \A i \in 1 .. Len(m) : m[i].epoch <= e + 1
    <2> SUFFICES ASSUME NEW i \in 1 .. Len(m)
                 PROVE  m[i].epoch <= e + 1
      OBVIOUS
    <2>1. m \in Seq(MemSample)
      BY FilesType
    <2>a. m[i] \in MemSample /\ m[i].epoch <= e
      BY <2>1 DEF FilesOK
    <2>2. m[i].epoch \in Int /\ m[i].epoch <= e
      BY <2>a, BoundsAssumption DEF MemSample, Tags
    <2>3. QED
      BY <1>1, <2>2
  <1>3. QED
    BY <1>1, <1>2 DEF FilesOK

\* A driver stops, or is stopped.
LEMMA FilesStop ==
  ASSUME NEW r, NEW m, NEW c, NEW l, NEW e, NEW w, FilesOK(r, m, c, l, e, w), l # "off"
  PROVE  FilesOK(r, m, c, "off", -1, w)
PROOF
  <1>1. -1 \in Tags
    BY BoundsAssumption DEF Tags
  <1>2. QED
    BY <1>1 DEF FilesOK

\* Sequences of n elements that are n + 1 long with one more.
LEMMA AppendFacts ==
  ASSUME NEW T, NEW xs \in Seq(T), NEW x \in T
  PROVE  /\ Append(xs, x) \in Seq(T) /\ Append(xs, x) # <<>>
         /\ Len(Append(xs, x)) = Len(xs) + 1
         /\ \A i \in 1 .. Len(xs) : Append(xs, x)[i] = xs[i]
         /\ Append(xs, x)[Len(xs) + 1] = x
PROOF
  OBVIOUS

\* A row of the epoch that was announced.
LEMMA FilesRow ==
  ASSUME NEW r, NEW m, NEW c, NEW e, NEW w, FilesOK(r, m, c, "stream", e, w), w < Records,
         e = Len(r), NEW x \in Measures
  PROVE  FilesOK(Append(r, [x EXCEPT !.epoch = e]), m, c, "stream", e, w + 1)
PROOF
  <1>1. /\ Found(r) = r /\ r \in Seq(Row)
        /\ Found(m) \in Seq(MemSample) /\ Found(c) \in Seq(CachePoint)
    BY FilesType
  <1>2. PICK n \in Nat : n = Len(r) /\ e = n /\ n + 1 <= NEpochs
    <2>1. e \in Tags
      BY DEF FilesOK
    <2>2. Len(r) \in Nat
      BY <1>1
    <2>3. Len(r) \in -1 .. NEpochs - 1
      BY <2>1 DEF Tags
    <2>4. Len(r) + 1 <= NEpochs
      BY <2>2, <2>3, BoundsAssumption
    <2> DEFINE k == Len(r)
    <2>5. k \in Nat /\ k = Len(r) /\ e = k /\ k + 1 <= NEpochs
      BY <2>2, <2>4
    <2>6. QED
      BY <2>5
  <1>3. PICK y : y = [x EXCEPT !.epoch = e]
    OBVIOUS
  <1>4. x \in Row
    BY MeasuresAssumption
  <1>5. y \in Row /\ y["epoch"] = n /\ \A k \in Fields : k # "epoch" => y[k] = x[k]
    BY <1>2, <1>3, <1>4 DEF Row, Fields
  <1>6. Measured(y)
    <2>1. /\ x["lat_mean_ms"] \in Nat /\ x["qps"] \in Nat
          /\ x["lat_p99_ms"] \in Nat /\ x["rss_mb"] \in Nat /\ x["ins_ops_s"] \in Nat
          /\ x["lat_mean_ms"] = 0 <=> x["lat_p99_ms"] = 0
      BY MeasuresAssumption
    <2>2. \A k \in {"rss_anon_mb", "ins_ops_s", "lat_p99_ms"} : x[k] # None => x[k] \in Multiples(Grain)
      <3>1. SUFFICES ASSUME NEW k \in {"rss_anon_mb", "ins_ops_s", "lat_p99_ms"}, x[k] # None
                     PROVE  x[k] \in Multiples(Grain)
        OBVIOUS
      <3>2. PICK q \in 0 .. x[k] : x[k] = q * Grain
        BY <3>1, GrainAssumption
      <3>3. q \in Nat
        OBVIOUS
      <3>4. QED
        BY <3>2, <3>3 DEF Multiples
    <2>a. x["lat_p99_ms"] \in Multiples(Grain) /\ x["ins_ops_s"] \in Multiples(Grain)
      <3>1. x["lat_p99_ms"] # None /\ x["ins_ops_s"] # None
        BY <2>1, MeasuresAssumption
      <3>2. QED
        BY <2>2, <3>1
    <2>3. \A k \in {"lat_mean_ms", "qps", "lat_p99_ms", "rss_mb", "ins_ops_s", "rss_anon_mb"} : y[k] = x[k]
      BY <1>5 DEF Fields
    <2>4. QED
      BY <2>1, <2>2, <2>3, <2>a DEF Measured
  <1>7. PICK s \in Seq(Row) : s = Append(r, y)
    BY <1>1, <1>5, AppendFacts
  <1>8. Len(s) = n + 1 /\ s[n + 1] = y /\ \A i \in 1 .. n : s[i] = r[i]
    BY <1>1, <1>2, <1>5, <1>7
  <1>9. RowsOK(s)
    <2>1. RowsOK(r)
      BY <1>1 DEF FilesOK
    <2>2. \A i \in 1 .. n + 1 : s[i]["epoch"] = i - 1 /\ Measured(s[i])
      <3> SUFFICES ASSUME NEW i \in 1 .. n + 1
                   PROVE  s[i]["epoch"] = i - 1 /\ Measured(s[i])
        OBVIOUS
      <3>1. CASE i = n + 1
        BY <1>5, <1>6, <1>8, <3>1
      <3>2. CASE i # n + 1
        <4>1. i \in 1 .. n
          BY <3>2
        <4>2. QED
          BY <1>2, <1>8, <2>1, <4>1 DEF RowsOK
      <3>3. QED
        BY <3>1, <3>2
    <2>3. QED
      BY <1>2, <1>7, <1>8, <2>2 DEF RowsOK
  <1>10. s # Absent /\ Found(s) = s
    BY <1>7, FoundFacts
  <1>11. w \in Nat /\ w + 1 \in 0 .. Records
    BY BoundsAssumption DEF FilesOK
  <1>12. Lines(s, m, c) + 1 <= w + 1
    <2>1. PICK b \in Nat, d \in Nat : b = Len(Found(m)) /\ d = Len(Found(c))
      BY <1>1
    <2>2. Lines(r, m, c) = n + b + d /\ Lines(s, m, c) = n + 1 + b + d
      BY <1>1, <1>2, <1>8, <1>10, <2>1 DEF Lines
    <2>3. n + b + d + 1 <= w
      BY <2>2 DEF FilesOK
    <2>4. QED
      BY <1>11, <2>1, <2>2, <2>3
  <1>13. FilesOK(s, m, c, "stream", e, w + 1)
    BY <1>7, <1>9, <1>10, <1>11, <1>12 DEF FilesOK
  <1>14. QED
    BY <1>3, <1>7, <1>13

\* A sample at the running driver's clock, with the announced tag.
LEMMA FilesSample ==
  ASSUME NEW r, NEW m, NEW c, NEW l, NEW e, NEW w, FilesOK(r, m, c, l, e, w), l # "off", w < Records,
         NEW size \in Sizes
  PROVE  FilesOK(r, Append(m, [t |-> Len(m), epoch |-> e, rss |-> size, anon |-> size \div 2]),
                 c, l, e, w + 1)
PROOF
  <1>1. /\ Found(m) = m /\ m \in Seq(MemSample) /\ Found(c) = c
        /\ Found(r) \in Seq(Row) /\ c \in Seq(CachePoint)
    BY FilesType
  <1>2. PICK n \in Nat : n = Len(m)
    BY <1>1
  <1>3. PICK y : y = [t |-> n, epoch |-> e, rss |-> size, anon |-> size \div 2]
    OBVIOUS
  <1>4. size \div 2 \in Multiples(Grain) /\ size \div 2 \in Nat
    <2>1. PICK q \in 0 .. size : size = 2 * (q * Grain)
      BY GrainAssumption
    <2>2. q \in Nat /\ q * Grain \in Nat
      BY GrainAssumption
    <2>3. PICK h \in Nat : h = q * Grain
      BY <2>2
    <2>4. size \div 2 = h
      BY <2>1, <2>3
    <2>5. QED
      BY <2>2, <2>3, <2>4 DEF Multiples
  <1>5. e \in Tags /\ y \in MemSample /\ y.t = n /\ y.epoch = e /\ y.anon \in Multiples(Grain)
    <2>1. e \in Tags
      BY DEF FilesOK
    <2>2. QED
      BY <1>3, <1>4, <2>1 DEF MemSample
  <1>6. PICK s \in Seq(MemSample) : s = Append(m, y)
    BY <1>1, <1>5, AppendFacts
  <1>7. Len(s) = n + 1 /\ s[n + 1] = y /\ \A i \in 1 .. n : s[i] = m[i]
    BY <1>1, <1>2, <1>5, <1>6
  <1>8. MemOK(m) /\ \A i \in 1 .. n : m[i].epoch <= e
    BY <1>1, <1>2 DEF FilesOK
  <1>9. \A i \in 1 .. n + 1 : s[i].t = i - 1 /\ s[i].anon \in Multiples(Grain) /\ s[i].epoch <= e
    <2> SUFFICES ASSUME NEW i \in 1 .. n + 1
                 PROVE  s[i].t = i - 1 /\ s[i].anon \in Multiples(Grain) /\ s[i].epoch <= e
      OBVIOUS
    <2>1. CASE i = n + 1
      BY <1>5, <1>7, <2>1, BoundsAssumption DEF Tags
    <2>2. CASE i # n + 1
      <3>1. i \in 1 .. n
        BY <2>2
      <3>2. QED
        BY <1>2, <1>7, <1>8, <3>1 DEF MemOK
    <2>3. QED
      BY <2>1, <2>2
  <1>10. \A i, j \in 1 .. n + 1 : i <= j => s[i].epoch <= s[j].epoch
    <2> SUFFICES ASSUME NEW i \in 1 .. n + 1, NEW j \in 1 .. n + 1, i <= j
                 PROVE  s[i].epoch <= s[j].epoch
      OBVIOUS
    <2>1. CASE j = n + 1
      BY <1>5, <1>7, <1>9, <2>1
    <2>2. CASE j # n + 1
      <3>1. i \in 1 .. n /\ j \in 1 .. n
        BY <2>2
      <3>2. QED
        BY <1>2, <1>7, <1>8, <3>1 DEF MemOK
    <2>3. QED
      BY <2>1, <2>2
  <1>11. MemOK(s)
    BY <1>6, <1>7, <1>9, <1>10 DEF MemOK
  <1>12. CacheOK(c, s)
    <2>1. CacheOK(c, m)
      BY <1>1 DEF FilesOK
    <2>2. \A i \in 1 .. Len(c) : c[i].after <= n => c[i].after <= n + 1
      <3> SUFFICES ASSUME NEW i \in 1 .. Len(c), c[i].after <= n
                   PROVE  c[i].after <= n + 1
        OBVIOUS
      <3>1. c[i] \in CachePoint
        BY <1>1
      <3>2. c[i].after \in Nat
        BY <3>1 DEF CachePoint
      <3>3. QED
        BY <3>2
    <2>3. QED
      BY <1>2, <1>7, <2>1, <2>2 DEF CacheOK
  <1>13. s # Absent /\ Found(s) = s
    BY <1>6, FoundFacts
  <1>14. w \in Nat /\ w + 1 \in 0 .. Records
    BY BoundsAssumption DEF FilesOK
  <1>15. Lines(r, s, c) + 1 <= w + 1
    <2>1. PICK b \in Nat, d \in Nat : b = Len(Found(r)) /\ d = Len(Found(c))
      BY <1>1
    <2>2. Lines(r, m, c) = b + n + d /\ Lines(r, s, c) = b + (n + 1) + d
      BY <1>1, <1>2, <1>7, <1>13, <2>1 DEF Lines
    <2>3. b + n + d + 1 <= w
      BY <2>2 DEF FilesOK
    <2>4. QED
      BY <1>14, <2>1, <2>2, <2>3
  <1>16. FilesOK(r, s, c, l, e, w + 1)
    BY <1>1, <1>6, <1>7, <1>9, <1>11, <1>12, <1>13, <1>14, <1>15 DEF FilesOK
  <1>17. QED
    BY <1>2, <1>3, <1>6, <1>16

\* A sample of the page cache, near the last sample of the memory.
LEMMA FilesCacheSample ==
  ASSUME NEW r, NEW m, NEW c, NEW l, NEW e, NEW w, FilesOK(r, m, c, l, e, w), l # "off", w < Records,
         NEW t \in Nat, t \in Len(m) - 1 - Skew .. Len(m) + Skew, NEW tag \in Tags
  PROVE  FilesOK(r, m, Append(c, [t |-> t, cached |-> Grain * (t + 1), after |-> Len(m), epoch |-> tag]),
                 l, e, w + 1)
PROOF
  <1>1. /\ Found(m) = m /\ m \in Seq(MemSample) /\ Found(c) = c
        /\ Found(r) \in Seq(Row) /\ c \in Seq(CachePoint)
    BY FilesType
  <1>2. PICK n \in Nat, k \in Nat : n = Len(m) /\ k = Len(c)
    BY <1>1
  <1>3. PICK y : y = [t |-> t, cached |-> Grain * (t + 1), after |-> n, epoch |-> tag]
    OBVIOUS
  <1>4. PICK g \in Nat : g = Grain * (t + 1)
    BY GrainAssumption
  <1>5. g \in Multiples(Grain)
    <2>1. g = (t + 1) * Grain /\ t + 1 \in Nat
      BY <1>4, GrainAssumption
    <2>2. QED
      BY <2>1 DEF Multiples
  <1>6. y \in CachePoint /\ y.cached \in Multiples(Grain) /\ y.t = t /\ y.after = n
    BY <1>3, <1>4, <1>5 DEF CachePoint
  <1>7. PICK s \in Seq(CachePoint) : s = Append(c, y)
    BY <1>1, <1>6, AppendFacts
  <1>8. Len(s) = k + 1 /\ s[k + 1] = y /\ \A i \in 1 .. k : s[i] = c[i]
    BY <1>1, <1>2, <1>6, <1>7
  <1>9. CacheOK(s, m)
    <2>1. CacheOK(c, m)
      BY <1>1 DEF FilesOK
    <2>2. \A i \in 1 .. k + 1 : /\ s[i].cached \in Multiples(Grain)
                                /\ s[i].t \in s[i].after - 1 - Skew .. s[i].after + Skew /\ s[i].after <= Len(m)
      <3> SUFFICES ASSUME NEW i \in 1 .. k + 1
                   PROVE  /\ s[i].cached \in Multiples(Grain)
                          /\ s[i].t \in s[i].after - 1 - Skew .. s[i].after + Skew /\ s[i].after <= Len(m)
        OBVIOUS
      <3>1. CASE i = k + 1
        BY <1>2, <1>6, <1>8, <3>1
      <3>2. CASE i # k + 1
        <4>1. i \in 1 .. k
          BY <3>2
        <4>2. QED
          BY <1>2, <1>8, <2>1, <4>1 DEF CacheOK
      <3>3. QED
        BY <3>1, <3>2
    <2>3. QED
      BY <1>7, <1>8, <2>2 DEF CacheOK
  <1>10. s # Absent /\ Found(s) = s
    BY <1>7, FoundFacts
  <1>11. w \in Nat /\ w + 1 \in 0 .. Records
    BY BoundsAssumption DEF FilesOK
  <1>12. Lines(r, m, s) + 1 <= w + 1
    <2>1. PICK b \in Nat : b = Len(Found(r))
      BY <1>1
    <2>2. Lines(r, m, c) = b + n + k /\ Lines(r, m, s) = b + n + (k + 1)
      BY <1>1, <1>2, <1>8, <1>10, <2>1 DEF Lines
    <2>3. b + n + k + 1 <= w
      BY <2>2 DEF FilesOK
    <2>4. QED
      BY <1>2, <1>11, <2>1, <2>2, <2>3
  <1>13. FilesOK(r, m, s, l, e, w + 1)
    BY <1>1, <1>7, <1>9, <1>10, <1>11, <1>12 DEF FilesOK
  <1>14. QED
    BY <1>2, <1>3, <1>7, <1>13


\* The lines of s alone changed, and no other count of lines grew beyond what is written.
LEMMA FilesOthers ==
  ASSUME RawInv, NEW w \in 0 .. Records, written <= w
  PROVE  \A q \in Systems : FilesOK(rows[q], mem[q], cache[q], leg[q], epoch[q], w)
PROOF
  <1> SUFFICES ASSUME NEW q \in Systems
               PROVE  FilesOK(rows[q], mem[q], cache[q], leg[q], epoch[q], w)
    OBVIOUS
  <1>1. FilesOK(rows[q], mem[q], cache[q], leg[q], epoch[q], written)
    BY DEF RawInv
  <1>2. QED
    BY <1>1, FilesLater

\* Before any driver ran no file is there.
LEMMA RawStart ==
  InitRaw => RawInv
PROOF
  <1> SUFFICES ASSUME InitRaw PROVE RawInv
    OBVIOUS
  <1>1. /\ DOMAIN rows = Systems /\ DOMAIN mem = Systems /\ DOMAIN cache = Systems
        /\ DOMAIN leg = Systems /\ DOMAIN epoch = Systems /\ written \in 0 .. Records
    BY BoundsAssumption DEF InitRaw
  <1>2. FilesOK(Absent, Absent, Absent, "off", -1, 0)
    <2>1. Found(Absent) = <<>>
      BY FoundFacts
    <2>2. Lines(Absent, Absent, Absent) = 0
      BY <2>1 DEF Lines
    <2>3. -1 \in Tags /\ 0 \in 0 .. Records
      BY BoundsAssumption DEF Tags
    <2>4. QED
      BY <2>1, <2>2, <2>3, EmptyOK DEF FilesOK
  <1>3. QED
    BY <1>1, <1>2 DEF InitRaw, RawInv

\* A function of the systems got a value at s, and is otherwise what it was.
Got(old, new, s, value) ==
  DOMAIN new = Systems /\ new[s] = value /\ \A q \in Systems : q # s => new[q] = old[q]
\* A file that a step leaves alone.
LEMMA GotFacts ==
  ASSUME NEW s \in Systems, NEW old, DOMAIN old = Systems
  PROVE  Got(old, old, s, old[s]) /\ \A v : Got(old, [old EXCEPT ![s] = v], s, v)
PROOF
  BY DEF Got

\* What a step makes of the files of s, and of no other's.
LEMMA RawChange ==
  ASSUME RawInv, NEW s \in Systems, NEW w \in 0 .. Records, written <= w,
         NEW r, NEW m, NEW c, NEW l, NEW e, FilesOK(r, m, c, l, e, w),
         Got(rows, rows', s, r), Got(mem, mem', s, m), Got(cache, cache', s, c),
         Got(leg, leg', s, l), Got(epoch, epoch', s, e), written' = w
  PROVE  RawInv'
PROOF
  <1>1. \A q \in Systems : FilesOK(rows[q], mem[q], cache[q], leg[q], epoch[q], w)
    BY FilesOthers
  <1>2. \A q \in Systems : FilesOK(rows'[q], mem'[q], cache'[q], leg'[q], epoch'[q], w)
    <2> SUFFICES ASSUME NEW q \in Systems
                 PROVE  FilesOK(rows'[q], mem'[q], cache'[q], leg'[q], epoch'[q], w)
      OBVIOUS
    <2>1. CASE q = s
      <3>1. rows'[q] = r /\ mem'[q] = m /\ cache'[q] = c /\ leg'[q] = l /\ epoch'[q] = e
        BY <2>1 DEF Got
      <3>2. QED
        BY <3>1
    <2>2. CASE q # s
      <3>1. /\ rows'[q] = rows[q] /\ mem'[q] = mem[q] /\ cache'[q] = cache[q]
            /\ leg'[q] = leg[q] /\ epoch'[q] = epoch[q]
        BY <2>2 DEF Got
      <3>2. QED
        BY <1>1, <3>1
    <2>3. QED
      BY <2>1, <2>2
  <1>3. /\ DOMAIN rows' = Systems /\ DOMAIN mem' = Systems /\ DOMAIN cache' = Systems
        /\ DOMAIN leg' = Systems /\ DOMAIN epoch' = Systems
    BY DEF Got
  <1>4. QED
    BY <1>2, <1>3 DEF RawInv

\* No step of a driver or of a sampler breaks the invariant of the raw files.
LEMMA RawSteps ==
  RawInv /\ NextRaw => RawInv'
PROOF
  <1> SUFFICES ASSUME RawInv, NEW s \in Systems,
                      \/ StartLeg(s) \/ StartStream(s) \/ Announce(s) \/ StopLeg(s)
                      \/ WriteRow(s) \/ Sample(s) \/ CacheSample(s)
               PROVE  RawInv'
    BY DEF NextRaw
  <1>1. /\ DOMAIN rows = Systems /\ DOMAIN mem = Systems /\ DOMAIN cache = Systems
        /\ DOMAIN leg = Systems /\ DOMAIN epoch = Systems /\ written \in 0 .. Records
        /\ FilesOK(rows[s], mem[s], cache[s], leg[s], epoch[s], written)
    BY DEF RawInv
  <1>2. PICK r, m, c, l, e, w : /\ r = rows[s] /\ m = mem[s] /\ c = cache[s] /\ l = leg[s]
                                /\ e = epoch[s] /\ w = written
    OBVIOUS
  <1>3. FilesOK(r, m, c, l, e, w)
    BY <1>1, <1>2
  <1>4. w \in 0 .. Records /\ w <= w /\ w <= w + 1 /\ (w < Records => w + 1 \in 0 .. Records)
    BY <1>1, <1>2, BoundsAssumption
  <1>5. /\ rows' = rows => Got(rows, rows', s, r)
        /\ mem' = mem => Got(mem, mem', s, m)
        /\ cache' = cache => Got(cache, cache', s, c)
        /\ leg' = leg => Got(leg, leg', s, l)
        /\ epoch' = epoch => Got(epoch, epoch', s, e)
    BY <1>1, <1>2, GotFacts
  <1>6. CASE StartLeg(s)
    <2>1. l = "off" /\ w < Records
      BY <1>2, <1>6 DEF StartLeg
    <2>2. FilesOK(r, <<>>, <<>>, "build", e, w + 1)
      BY <1>3, <2>1, FilesStart
    <2>3. /\ Got(rows, rows', s, r)
          /\ Got(mem, mem', s, <<>>)
          /\ Got(cache, cache', s, <<>>)
          /\ Got(leg, leg', s, "build")
          /\ Got(epoch, epoch', s, e)
          /\ written' = w + 1
      BY <1>1, <1>2, <1>5, <1>6, GotFacts DEF StartLeg, fileVars
    <2>4. QED
      BY <1>2, <1>4, <2>1, <2>2, <2>3, RawChange
  <1>7. CASE StartStream(s)
    <2>1. l = "build"
      BY <1>2, <1>7 DEF StartStream
    <2>2. FilesOK(<<>>, m, c, "stream", e, w)
      BY <1>3, <2>1, FilesStream
    <2>3. /\ Got(rows, rows', s, <<>>)
          /\ Got(mem, mem', s, m)
          /\ Got(cache, cache', s, c)
          /\ Got(leg, leg', s, "stream")
          /\ Got(epoch, epoch', s, e)
          /\ written' = w
      BY <1>1, <1>2, <1>5, <1>7, GotFacts DEF StartStream, fileVars
    <2>4. QED
      BY <1>2, <1>4, <2>1, <2>2, <2>3, RawChange
  <1>8. CASE Announce(s)
    <2>1. l = "stream" /\ e + 1 < NEpochs
      BY <1>2, <1>8 DEF Announce
    <2>2. FilesOK(r, m, c, l, e + 1, w)
      BY <1>3, <2>1, FilesAnnounce
    <2>3. /\ Got(rows, rows', s, r)
          /\ Got(mem, mem', s, m)
          /\ Got(cache, cache', s, c)
          /\ Got(leg, leg', s, l)
          /\ Got(epoch, epoch', s, e + 1)
          /\ written' = w
      BY <1>1, <1>2, <1>5, <1>8, GotFacts DEF Announce, fileVars
    <2>4. QED
      BY <1>2, <1>4, <2>1, <2>2, <2>3, RawChange
  <1>9. CASE StopLeg(s)
    <2>1. l # "off"
      BY <1>2, <1>9 DEF StopLeg
    <2>2. FilesOK(r, m, c, "off", -1, w)
      BY <1>3, <2>1, FilesStop
    <2>3. /\ Got(rows, rows', s, r)
          /\ Got(mem, mem', s, m)
          /\ Got(cache, cache', s, c)
          /\ Got(leg, leg', s, "off")
          /\ Got(epoch, epoch', s, -1)
          /\ written' = w
      BY <1>1, <1>2, <1>5, <1>9, GotFacts DEF StopLeg, fileVars
    <2>4. QED
      BY <1>2, <1>4, <2>1, <2>2, <2>3, RawChange
  <1>10. CASE WriteRow(s)
    <2>1. l = "stream" /\ w < Records /\ e = Len(r)
      BY <1>2, <1>10 DEF WriteRow
    <2>2. PICK x \in Measures : rows' = [rows EXCEPT ![s] = Append(rows[s], [x EXCEPT !.epoch = epoch[s]])]
      BY <1>10 DEF WriteRow
    <2>3. PICK y : y = Append(r, [x EXCEPT !.epoch = e])
      OBVIOUS
    <2>4. FilesOK(y, m, c, l, e, w + 1)
      BY <1>3, <2>1, <2>3, FilesRow
    <2>5. rows' = [rows EXCEPT ![s] = y]
      BY <1>2, <2>2, <2>3
    <2>6. Got(rows, rows', s, y)
      BY <1>1, <2>5, GotFacts
    <2>7. /\ Got(mem, mem', s, m) /\ Got(cache, cache', s, c) /\ Got(leg, leg', s, l)
          /\ Got(epoch, epoch', s, e) /\ written' = w + 1
      BY <1>2, <1>5, <1>10 DEF WriteRow
    <2>8. QED
      BY <1>2, <1>4, <2>1, <2>4, <2>6, <2>7, RawChange
  <1>11. CASE Sample(s)
    <2>1. l # "off" /\ w < Records
      BY <1>2, <1>11 DEF Sample
    <2>2. PICK size \in Sizes :
            mem' = [mem EXCEPT ![s] = Append(mem[s],
                      [t |-> Clock(s), epoch |-> epoch[s], rss |-> size, anon |-> size \div 2])]
      BY <1>11 DEF Sample
    <2>3. PICK y : y = Append(m, [t |-> Len(m), epoch |-> e, rss |-> size, anon |-> size \div 2])
      OBVIOUS
    <2>4. FilesOK(r, y, c, l, e, w + 1)
      BY <1>3, <2>1, <2>3, FilesSample
    <2>5. mem' = [mem EXCEPT ![s] = y]
      BY <1>2, <2>2, <2>3 DEF Clock
    <2>6. Got(mem, mem', s, y)
      BY <1>1, <2>5, GotFacts
    <2>7. /\ Got(rows, rows', s, r) /\ Got(cache, cache', s, c) /\ Got(leg, leg', s, l)
          /\ Got(epoch, epoch', s, e) /\ written' = w + 1
      BY <1>2, <1>5, <1>11 DEF Sample
    <2>8. QED
      BY <1>2, <1>4, <2>1, <2>4, <2>6, <2>7, RawChange
  <1>12. CASE CacheSample(s)
    <2>1. l # "off" /\ w < Records
      BY <1>2, <1>12 DEF CacheSample
    <2>2. PICK t \in (Clock(s) - 1 - Skew .. Clock(s) + Skew) \cap Nat :
            cache' = [cache EXCEPT ![s] = Append(cache[s],
                        [t |-> t, cached |-> Grain * (t + 1), after |-> Len(mem[s]),
                         epoch |-> IF s \in Tagged THEN epoch[s] ELSE -1])]
      BY <1>12 DEF CacheSample
    <2>3. PICK tag : tag = IF s \in Tagged THEN e ELSE -1
      OBVIOUS
    <2>a. tag \in Tags
      BY <1>3, <2>3, BoundsAssumption DEF Tags, FilesOK
    <2>b. t \in Nat /\ t \in Len(m) - 1 - Skew .. Len(m) + Skew
      BY <1>2, <2>2 DEF Clock
    <2>c. PICK y : y = Append(c, [t |-> t, cached |-> Grain * (t + 1), after |-> Len(m), epoch |-> tag])
      OBVIOUS
    <2>4. FilesOK(r, m, y, l, e, w + 1)
      BY <1>3, <2>1, <2>a, <2>b, <2>c, FilesCacheSample
    <2>5. cache' = [cache EXCEPT ![s] = y]
      BY <1>2, <2>2, <2>3, <2>c
    <2>6. Got(cache, cache', s, y)
      BY <1>1, <2>5, GotFacts
    <2>7. /\ Got(rows, rows', s, r) /\ Got(mem, mem', s, m) /\ Got(leg, leg', s, l)
          /\ Got(epoch, epoch', s, e) /\ written' = w + 1
      BY <1>2, <1>5, <1>12 DEF CacheSample
    <2>8. QED
      BY <1>2, <1>4, <2>1, <2>4, <2>6, <2>7, RawChange
  <1>13. QED
    BY <1>6, <1>7, <1>8, <1>9, <1>10, <1>11, <1>12

\* A command that is given counts as two records, and writes none.
LEMMA BeginRaw ==
  RawInv /\ Begin => RawInv'
PROOF
  <1> SUFFICES ASSUME RawInv, Begin PROVE RawInv'
    OBVIOUS
  <1>1. /\ rows' = rows /\ mem' = mem /\ cache' = cache /\ leg' = leg /\ epoch' = epoch
        /\ written' = written + 2 /\ written + 2 <= Records
    BY DEF Begin, fileVars
  <1>2. written \in 0 .. Records
    BY DEF RawInv
  <1>3. written' \in 0 .. Records /\ written <= written'
    BY <1>1, <1>2, BoundsAssumption
  <1>4. PICK w \in 0 .. Records : w = written' /\ written <= w
    BY <1>3
  <1>5. \A q \in Systems : FilesOK(rows[q], mem[q], cache[q], leg[q], epoch[q], w)
    BY <1>4, FilesOthers
  <1>6. QED
    BY <1>1, <1>3, <1>4, <1>5 DEF RawInv

\* The raw files are what the drivers can write, in every behaviour: rows without gaps, samples in the
\* order of their times and epochs, and no more of them than were counted.
THEOREM FilesSound == Spec => []RawInv
PROOF
  <1>1. Init => RawInv
    BY RawStart DEF Init
  <1>2. RawInv /\ [Next \/ Ended]_vars => RawInv'
    <2> SUFFICES ASSUME RawInv, [Next \/ Ended]_vars PROVE RawInv'
      OBVIOUS
    <2>1. CASE Raw
      BY <2>1, RawSteps DEF Raw
    <2>2. CASE Begin
      BY <2>2, BeginRaw
    <2>3. CASE UNCHANGED rawVars
      BY <2>3 DEF RawInv, rawVars
    <2>4. QED
      BY <2>1, <2>2, <2>3 DEF Next, Ended, vars
  <1>3. QED
    BY <1>1, <1>2, PTL DEF Spec
-----------------------------------------------------------------------------
(***************************************************************************)
(* The rows of an earlier run.                                             *)
(***************************************************************************)

\* Rows are older than the memory only as long as that run has not begun to stream.
OlderInv ==
  /\ DOMAIN older = Systems
  /\ \A s \in Systems : older[s] =>
       leg[s] # "stream" /\ \A i \in 1 .. Len(Found(mem[s])) : Found(mem[s])[i].epoch = -1

\* A step of one system keeps what is known of its rows and of those of the others.
LEMMA OlderChange ==
  ASSUME OlderInv, NEW s \in Systems, NEW m, NEW l, NEW o,
         Got(mem, mem', s, m), Got(leg, leg', s, l), Got(older, older', s, o),
         o => l # "stream" /\ \A i \in 1 .. Len(Found(m)) : Found(m)[i].epoch = -1
  PROVE  OlderInv'
PROOF
  <1>1. DOMAIN older' = Systems
    BY DEF Got
  <1>2. ASSUME NEW q \in Systems, older'[q]
        PROVE  leg'[q] # "stream" /\ \A i \in 1 .. Len(Found(mem'[q])) : Found(mem'[q])[i].epoch = -1
    <2>1. CASE q = s
      <3>1. mem'[q] = m /\ leg'[q] = l /\ older'[q] = o
        BY <2>1 DEF Got
      <3>2. QED
        BY <1>2, <3>1
    <2>2. CASE q # s
      <3>1. mem'[q] = mem[q] /\ leg'[q] = leg[q] /\ older'[q] = older[q]
        BY <2>2 DEF Got
      <3>2. QED
        BY <1>2, <3>1 DEF OlderInv
    <2>3. QED
      BY <2>1, <2>2
  <1>3. QED
    BY <1>1, <1>2, Zenon DEF OlderInv, Found

\* Every step of a driver or a sampler keeps it: a build tags its samples with -1.
LEMMA OlderSteps ==
  RawInv /\ OlderInv /\ NextRaw => OlderInv'
PROOF
  <1> SUFFICES ASSUME RawInv, OlderInv, NEW s \in Systems,
                      \/ StartLeg(s) \/ StartStream(s) \/ Announce(s) \/ StopLeg(s)
                      \/ WriteRow(s) \/ Sample(s) \/ CacheSample(s)
               PROVE  OlderInv'
    BY DEF NextRaw
  <1>1. /\ DOMAIN mem = Systems /\ DOMAIN leg = Systems /\ DOMAIN older = Systems
        /\ FilesOK(rows[s], mem[s], cache[s], leg[s], epoch[s], written)
    BY DEF RawInv, OlderInv
  <1>2. PICK m, l, o : m = mem[s] /\ l = leg[s] /\ o = older[s]
    OBVIOUS
  <1>3. /\ mem' = mem => Got(mem, mem', s, m)
        /\ leg' = leg => Got(leg, leg', s, l)
        /\ older' = older => Got(older, older', s, o)
    BY <1>1, <1>2, GotFacts
  <1>4. o => l # "stream" /\ \A i \in 1 .. Len(Found(m)) : Found(m)[i].epoch = -1
    BY <1>2 DEF OlderInv
  <1>5. CASE StartLeg(s)
    <2>1. /\ Got(mem, mem', s, <<>>)
          /\ Got(leg, leg', s, "build")
          /\ Got(older, older', s, rows[s] # Absent)
      BY <1>1, <1>5, GotFacts DEF StartLeg
    <2>2. Found(<<>>) = <<>>
      BY FoundFacts, EmptyOK
    <2>3. "build" # "stream" /\ \A i \in 1 .. Len(Found(<<>>)) : Found(<<>>)[i].epoch = -1
      BY <2>2
    <2>4. QED
      BY <2>1, <2>3, OlderChange
  <1>6. CASE StartStream(s)
    <2>1. Got(mem, mem', s, m) /\ Got(leg, leg', s, "stream") /\ Got(older, older', s, FALSE)
      BY <1>1, <1>3, <1>6, GotFacts DEF StartStream
    <2>2. QED
      BY <2>1, OlderChange
  <1>7. CASE Announce(s) \/ WriteRow(s) \/ CacheSample(s)
    <2>1. Got(mem, mem', s, m) /\ Got(leg, leg', s, l) /\ Got(older, older', s, o)
      BY <1>3, <1>7 DEF Announce, WriteRow, CacheSample, fileVars
    <2>2. QED
      BY <1>4, <2>1, OlderChange
  <1>8. CASE StopLeg(s)
    <2>1. Got(mem, mem', s, m) /\ Got(leg, leg', s, "off") /\ Got(older, older', s, o)
      BY <1>1, <1>3, <1>8, GotFacts DEF StopLeg, fileVars
    <2>2. o => "off" # "stream" /\ \A i \in 1 .. Len(Found(m)) : Found(m)[i].epoch = -1
      BY <1>4
    <2>3. QED
      BY <2>1, <2>2, OlderChange
  <1>9. CASE Sample(s)
    <2>1. PICK size \in Sizes :
            mem' = [mem EXCEPT ![s] = Append(mem[s],
                      [t |-> Clock(s), epoch |-> epoch[s], rss |-> size, anon |-> size \div 2])]
      BY <1>9 DEF Sample
    <2>2. PICK x : x = [t |-> Clock(s), epoch |-> epoch[s], rss |-> size, anon |-> size \div 2]
      OBVIOUS
    <2>3. l # "off" /\ Found(m) = m /\ m \in Seq(MemSample)
      BY <1>1, <1>2, <1>9, FilesType DEF Sample
    <2>4. x \in MemSample
      <3>1. Clock(s) \in Nat
        BY <1>2, <2>3 DEF Clock
      <3>2. size \div 2 \in Nat
        BY GrainAssumption
      <3>3. epoch[s] \in Tags
        BY <1>1 DEF FilesOK
      <3>4. QED
        BY <2>2, <3>1, <3>2, <3>3 DEF MemSample
    <2>5. PICK y \in Seq(MemSample) : y = Append(m, x)
      BY <2>3, <2>4, AppendFacts
    <2>6. Len(y) = Len(m) + 1 /\ y[Len(m) + 1] = x /\ \A i \in 1 .. Len(m) : y[i] = m[i]
      BY <2>3, <2>4, <2>5
    <2>7. Found(y) = y
      BY FoundFacts
    <2>8. ASSUME o PROVE l # "stream" /\ \A i \in 1 .. Len(Found(y)) : Found(y)[i].epoch = -1
      <3>1. l # "stream" /\ \A i \in 1 .. Len(m) : m[i].epoch = -1
        BY <1>4, <2>3, <2>8
      <3>2. epoch[s] = -1
        BY <1>1, <1>2, <3>1 DEF FilesOK
      <3>3. x.epoch = -1
        BY <2>2, <3>2
      <3>4. ASSUME NEW i \in 1 .. Len(y) PROVE y[i].epoch = -1
        <4>1. Len(m) \in Nat
          BY <2>3
        <4>2. i = Len(m) + 1 \/ i \in 1 .. Len(m)
          BY <2>6, <4>1
        <4>3. QED
          BY <2>6, <3>1, <3>3, <4>2
      <3>5. QED
        BY <2>7, <3>1, <3>4
    <2>9. mem' = [mem EXCEPT ![s] = y]
      BY <1>2, <2>1, <2>2, <2>5
    <2>10. Got(mem, mem', s, y) /\ Got(leg, leg', s, l) /\ Got(older, older', s, o)
      BY <1>1, <1>3, <1>9, <2>9, GotFacts DEF Sample
    <2>11. QED
      BY <2>8, <2>10, OlderChange
  <1>10. QED
    BY <1>5, <1>6, <1>7, <1>8, <1>9

-----------------------------------------------------------------------------
(***************************************************************************)
(* The merges.                                                             *)
(***************************************************************************)

LEMMA MinFacts ==
  ASSUME NEW T \in SUBSET Nat, T # {}
  PROVE  Min(T) \in T /\ \A k \in T : Min(T) <= k
PROOF
  <1>1. \E m \in T : \A k \in T : m <= k
    BY LeastNatural
  <1>2. QED
    BY <1>1, Zenon DEF Min

\* The largest member of a set.
LEMMA MaxIs ==
  ASSUME NEW T \in SUBSET Int, NEW m \in T, \A k \in T : k <= m
  PROVE  Max(T) = m
PROOF
  <1>1. \A k \in T : m >= k
    OBVIOUS
  <1>2. Max(T) \in T /\ \A k \in T : Max(T) >= k
    BY <1>1, Zenon DEF Max
  <1>3. Max(T) \in Int /\ m \in Int /\ m >= Max(T) /\ Max(T) >= m
    BY <1>1, <1>2
  <1>4. QED
    BY <1>3

\* The elements kept, as a set.
LEMMA KeptSet ==
  ASSUME NEW T, NEW xs \in Seq(T), NEW S \in SUBSET (1 .. Len(xs))
  PROVE  ToSet(Kept(xs, S)) = {xs[p] : p \in S}
PROOF
  <1>1. /\ Kept(xs, S) \in Seq(T)
        /\ \A i \in 1 .. Len(Kept(xs, S)) : \E p \in S : Kept(xs, S)[i] = xs[p]
        /\ \A p \in S : \E i \in 1 .. Len(Kept(xs, S)) : Kept(xs, S)[i] = xs[p]
    BY KeptFacts
  <1>2. PICK ks : ks = Kept(xs, S)
    OBVIOUS
  <1>3. /\ ks \in Seq(T)
        /\ \A i \in 1 .. Len(ks) : \E p \in S : ks[i] = xs[p]
        /\ \A p \in S : \E i \in 1 .. Len(ks) : ks[i] = xs[p]
    BY <1>1, <1>2, Zenon
  <1>4. DOMAIN ks = 1 .. Len(ks)
    BY <1>3
  <1>5. ToSet(ks) = {ks[i] : i \in 1 .. Len(ks)}
    BY <1>4 DEF ToSet
  <1>6. \A x : x \in ToSet(ks) <=> x \in {xs[p] : p \in S}
    <2>1. ASSUME NEW x \in ToSet(ks) PROVE x \in {xs[p] : p \in S}
      <3>1. PICK i \in 1 .. Len(ks) : x = ks[i]
        BY <1>5, <2>1
      <3>2. QED
        BY <1>3, <3>1
    <2>2. ASSUME NEW p \in S PROVE xs[p] \in ToSet(ks)
      BY <1>3, <1>5
    <2>3. QED
      BY <2>1, <2>2
  <1>7. QED
    BY <1>2, <1>6

\* What all the elements kept have, those of the result have.
LEMMA KeptKeeps ==
  ASSUME NEW T, NEW xs \in Seq(T), NEW S \in SUBSET (1 .. Len(xs)), NEW U, \A p \in S : xs[p] \in U
  PROVE  Kept(xs, S) \in Seq(U)
PROOF
  <1>1. /\ Kept(xs, S) \in Seq(T)
        /\ \A i \in 1 .. Len(Kept(xs, S)) : \E p \in S : Kept(xs, S)[i] = xs[p]
    BY KeptFacts
  <1>2. PICK ks : ks = Kept(xs, S)
    OBVIOUS
  <1>3. ks \in Seq(T) /\ \A i \in 1 .. Len(ks) : \E p \in S : ks[i] = xs[p]
    BY <1>1, <1>2, Zenon
  <1>4. \A i \in 1 .. Len(ks) : ks[i] \in U
    BY <1>3
  <1>5. ks \in Seq(U)
    BY <1>3, <1>4
  <1>6. QED
    BY <1>2, <1>5

\* The samples of the stream, by their places.
ServedAt(m) == {i \in 1 .. Len(m) : m[i].epoch >= 0}
\* The samples of the stream are those that the build did not take.
LEMMA ServedKept ==
  ASSUME NEW m \in Seq(MemSample)
  PROVE  /\ Served(m) = Kept(m, ServedAt(m)) /\ Served(m) \in Seq(MemSample)
         /\ ServedAt(m) \in SUBSET (1 .. Len(m))
         /\ ToSet(Served(m)) = {m[p] : p \in ServedAt(m)}
PROOF
  <1>1. ServedAt(m) = {i \in DOMAIN m : m[i].epoch >= 0} /\ ServedAt(m) \in SUBSET (1 .. Len(m))
    BY DEF ServedAt
  <1>2. Served(m) = Kept(m, {i \in DOMAIN m : m[i].epoch >= 0})
    BY DEF Served, Keep
  <1>3. Served(m) = Kept(m, ServedAt(m))
    BY <1>1, <1>2
  <1>4. /\ Kept(m, ServedAt(m)) \in Seq(MemSample)
        /\ ToSet(Kept(m, ServedAt(m))) = {m[p] : p \in ServedAt(m)}
    <2>1. PICK S \in SUBSET (1 .. Len(m)) : S = ServedAt(m)
      BY <1>1
    <2>2. Kept(m, S) \in Seq(MemSample)
      BY KeptFacts
    <2>3. ToSet(Kept(m, S)) = {m[p] : p \in S}
      BY KeptSet
    <2>4. QED
      BY <2>1, <2>2, <2>3
  <1>5. QED
    BY <1>1, <1>3, <1>4

\* The fields of one sample.
LEMMA SampleFacts ==
  ASSUME NEW m \in Seq(MemSample), NEW i \in 1 .. Len(m)
  PROVE  /\ m[i] \in MemSample /\ m[i].epoch \in Int /\ m[i].epoch >= -1 /\ m[i].epoch < NEpochs
         /\ m[i].rss \in Nat /\ m[i].t \in Nat /\ m[i].anon \in Nat
PROOF
  <1>1. m[i] \in MemSample
    OBVIOUS
  <1>2. m[i].t \in Nat /\ m[i].epoch \in Tags /\ m[i].rss \in Sizes /\ m[i].anon \in Nat
    BY <1>1 DEF MemSample
  <1>3. m[i].rss \in Nat
    BY <1>2, GrainAssumption
  <1>4. m[i].epoch \in Int /\ m[i].epoch >= -1 /\ m[i].epoch < NEpochs
    BY <1>2, BoundsAssumption DEF Tags
  <1>5. QED
    BY <1>1, <1>2, <1>3, <1>4

\* The first sample of an epoch that has one, and what comes after it.
LEMMA FirstSample ==
  ASSUME NEW m \in Seq(MemSample), MemOK(m), NEW e \in Sampled(m)
  PROVE  /\ e \in Nat /\ first_t(m, e) \in 0 .. Len(m) - 1 /\ Len(m) \in Nat \ {0}
         /\ m[first_t(m, e) + 1].epoch = e
         /\ \A j \in 1 .. Len(m) : m[j].epoch = e => first_t(m, e) <= j - 1
PROOF
  <1>1. PICK p \in ServedAt(m) : e = m[p].epoch
    BY ServedKept DEF Sampled
  <1>2. p \in 1 .. Len(m) /\ m[p].epoch >= 0
    BY <1>1 DEF ServedAt
  <1>3. e \in Nat
    BY <1>1, <1>2, SampleFacts
  <1>4. ToSet(m) = {m[i] : i \in 1 .. Len(m)}
    BY DEF ToSet
  <1> DEFINE times == {x.t : x \in {x \in ToSet(m) : x.epoch = e}}
  <1>5. \A i \in 1 .. Len(m) : m[i].t = i - 1
    BY DEF MemOK
  <1>6. times = {i - 1 : i \in {i \in 1 .. Len(m) : m[i].epoch = e}}
    BY <1>4, <1>5
  <1>7. p - 1 \in times
    BY <1>1, <1>2, <1>6
  <1>8. times \in SUBSET Nat
    BY <1>6
  <1>9. first_t(m, e) = Min(times)
    BY DEF first_t
  <1> HIDE DEF times
  <1>10. Min(times) \in times /\ \A k \in times : Min(times) <= k
    BY <1>7, <1>8, MinFacts
  <1>11. PICK i \in 1 .. Len(m) : Min(times) = i - 1 /\ m[i].epoch = e
    BY <1>6, <1>10
  <1>12. i - 1 \in 0 .. Len(m) - 1 /\ (i - 1) + 1 = i
    OBVIOUS
  <1>13. \A j \in 1 .. Len(m) : m[j].epoch = e => i - 1 <= j - 1
    BY <1>6, <1>10, <1>11
  <1>14. Len(m) \in Nat \ {0}
    BY <1>2
  <1>15. QED
    BY <1>3, <1>9, <1>11, <1>12, <1>13, <1>14

\* An epoch lasts from its first sample to the next epoch's, or to the last one.
LEMMA Walls ==
  ASSUME NEW m \in Seq(MemSample), MemOK(m), NEW L \in Nat \ {0}, Sampled(m) = 0 .. L - 1,
         NEW e \in 0 .. L - 1
  PROVE  /\ wall(m, e) \in Nat /\ Last(m).t \in Nat
         /\ e < L - 1 => first_t(m, e + 1) \in Nat /\ wall(m, e) = first_t(m, e + 1) - first_t(m, e)
         /\ e = L - 1 => wall(m, e) = Last(m).t - first_t(m, e)
PROOF
  <1>1. /\ first_t(m, e) \in 0 .. Len(m) - 1 /\ Len(m) \in Nat \ {0}
        /\ m[first_t(m, e) + 1].epoch = e
        /\ \A j \in 1 .. Len(m) : m[j].epoch = e => first_t(m, e) <= j - 1
    BY FirstSample
  <1>2. PICK a \in 0 .. Len(m) - 1 : a = first_t(m, e)
    BY <1>1
  <1>3. Last(m).t = Len(m) - 1
    BY <1>1 DEF Last, MemOK
  <1>4. CASE e < L - 1
    <2>1. e + 1 \in Sampled(m)
      BY <1>4
    <2>2. /\ first_t(m, e + 1) \in 0 .. Len(m) - 1 /\ m[first_t(m, e + 1) + 1].epoch = e + 1
      BY <2>1, FirstSample
    <2>3. PICK b \in 0 .. Len(m) - 1 : b = first_t(m, e + 1)
      BY <2>2
    <2>4. a <= b
      <3>1. SUFFICES ASSUME b < a PROVE FALSE
        OBVIOUS
      <3>2. a + 1 \in 1 .. Len(m) /\ b + 1 \in 1 .. Len(m) /\ b + 1 <= a + 1
        BY <1>1, <3>1
      <3>3. m[b + 1].epoch <= m[a + 1].epoch
        BY <3>2 DEF MemOK
      <3>4. e + 1 <= e
        BY <1>1, <1>2, <2>2, <2>3, <3>3
      <3>5. QED
        BY <3>4
    <2>5. wall(m, e) = b - a
      BY <1>2, <2>1, <2>3 DEF wall
    <2>6. wall(m, e) \in Nat /\ Last(m).t \in Nat
      BY <1>1, <1>3, <2>4, <2>5
    <2>7. first_t(m, e + 1) \in Nat /\ wall(m, e) = first_t(m, e + 1) - first_t(m, e)
      BY <1>2, <2>3, <2>5
    <2>8. QED
      BY <1>4, <2>6, <2>7
  <1>5. CASE e = L - 1
    <2>1. e + 1 \notin Sampled(m)
      BY <1>5
    <2>2. wall(m, e) = Last(m).t - a
      BY <1>2, <2>1 DEF wall
    <2>3. QED
      BY <1>1, <1>2, <1>3, <1>5, <2>2
  <1>6. QED
    BY <1>4, <1>5

\* The times of the epochs add up to the time of the stream.
LEMMA WallsTile ==
  ASSUME NEW m \in Seq(MemSample), MemOK(m), NEW L \in Nat \ {0}, Sampled(m) = 0 .. L - 1
  PROVE  Total([n \in 1 .. L |-> wall(m, n - 1)]) = Last(m).t - first_t(m, 0)
PROOF
  <1>1. PICK v : v = [n \in 1 .. L |-> wall(m, n - 1)]
    OBVIOUS
  <1>2. \A n \in 1 .. L : n - 1 \in 0 .. L - 1 /\ v[n] = wall(m, n - 1)
    BY <1>1
  <1>3. \A n \in 1 .. L : v[n] \in Nat
    BY <1>2, Walls
  <1>4. v \in Seq(Int) /\ Len(v) = L
    <2>1. v \in [1 .. L -> Int]
      BY <1>1, <1>3
    <2>2. QED
      BY <2>1
  <1>5. PICK g : AddsUp(g, v) /\ Total(v) = g[Len(v)]
    BY <1>4, TotalSum
  <1>6. g[0] = 0 /\ \A n \in 1 .. L : g[n] = g[n - 1] + v[n]
    BY <1>4, <1>5 DEF AddsUp
  <1>7. PICK F, end : /\ end = Last(m).t
                      /\ F = [e \in 0 .. L - 1 |-> first_t(m, e)]
    OBVIOUS
  <1>8. \A e \in 0 .. L - 1 : F[e] = first_t(m, e) /\ F[e] \in Nat
    BY <1>7, FirstSample
  <1>9. end \in Nat
    BY <1>7, Walls
  <1>10. /\ \A n \in 1 .. L - 1 : v[n] = F[n] - F[n - 1]
         /\ v[L] = end - F[L - 1]
    <2>1. ASSUME NEW n \in 1 .. L - 1 PROVE v[n] = F[n] - F[n - 1]
      <3>1. n - 1 \in 0 .. L - 1 /\ n - 1 < L - 1 /\ (n - 1) + 1 = n /\ n \in 0 .. L - 1
        OBVIOUS
      <3>2. wall(m, n - 1) = first_t(m, (n - 1) + 1) - first_t(m, n - 1)
        BY <3>1, Walls
      <3>3. QED
        BY <1>2, <1>8, <3>1, <3>2
    <2>2. wall(m, L - 1) = Last(m).t - first_t(m, L - 1)
      BY Walls
    <2>3. v[L] = end - F[L - 1]
      BY <1>2, <1>7, <1>8, <2>2
    <2>4. QED
      BY <2>1, <2>3
  <1> DEFINE done == {n \in 0 .. L - 1 : g[n] = F[n] - F[0]}
  <1>11. 0 \in done
    BY <1>6, <1>8
  <1>12. ASSUME NEW n \in 1 .. L - 1, n - 1 \in done
         PROVE  n \in done
    <2>1. g[n - 1] = F[n - 1] - F[0] /\ g[n] = g[n - 1] + v[n] /\ v[n] = F[n] - F[n - 1]
      BY <1>6, <1>10, <1>12
    <2>2. F[n] \in Nat /\ F[n - 1] \in Nat /\ F[0] \in Nat
      BY <1>8
    <2>3. g[n] = F[n] - F[0]
      BY <2>1, <2>2
    <2>4. QED
      BY <2>3
  <1>13. \A n \in done : g[n] = F[n] - F[0]
    OBVIOUS
  <1> HIDE DEF done
  <1>14. 0 .. L - 1 \subseteq done
    BY <1>11, <1>12, Induction
  <1>15. g[L - 1] = F[L - 1] - F[0]
    BY <1>13, <1>14
  <1>16. g[L] = g[L - 1] + v[L]
    BY <1>6
  <1>17. F[L - 1] \in Nat /\ F[0] \in Nat /\ F[0] = first_t(m, 0)
    BY <1>8
  <1>18. g[L] = end - F[0]
    BY <1>9, <1>10, <1>15, <1>16, <1>17
  <1>19. QED
    BY <1>1, <1>4, <1>5, <1>7, <1>17, <1>18

\* The epochs begin in their order, and none after the last sample.
LEMMA FirstOrder ==
  ASSUME NEW m \in Seq(MemSample), MemOK(m), NEW d \in Sampled(m), NEW e \in Sampled(m), d <= e
  PROVE  /\ first_t(m, d) \in Nat /\ first_t(m, e) \in Nat /\ Last(m).t \in Nat
         /\ first_t(m, d) <= first_t(m, e) /\ first_t(m, e) <= Last(m).t
PROOF
  <1>1. /\ d \in Nat /\ first_t(m, d) \in 0 .. Len(m) - 1 /\ m[first_t(m, d) + 1].epoch = d
        /\ \A j \in 1 .. Len(m) : m[j].epoch = d => first_t(m, d) <= j - 1
    BY FirstSample
  <1>2. /\ e \in Nat /\ first_t(m, e) \in 0 .. Len(m) - 1 /\ m[first_t(m, e) + 1].epoch = e
        /\ Len(m) \in Nat \ {0}
    BY FirstSample
  <1>3. PICK n \in Nat \ {0}, a \in Nat, b \in Nat :
          n = Len(m) /\ a = first_t(m, d) /\ b = first_t(m, e) /\ a <= n - 1 /\ b <= n - 1
    BY <1>1, <1>2
  <1>4. Last(m).t = n - 1
    BY <1>3 DEF Last, MemOK
  <1>5. a <= b
    <2>1. SUFFICES ASSUME b < a PROVE FALSE
      OBVIOUS
    <2>2. a + 1 \in 1 .. Len(m) /\ b + 1 \in 1 .. Len(m) /\ b + 1 <= a + 1
      BY <1>3, <2>1
    <2>3. m[b + 1].epoch <= m[a + 1].epoch
      BY <2>2 DEF MemOK
    <2>4. m[a + 1].epoch = d /\ m[b + 1].epoch = e
      BY <1>1, <1>2, <1>3
    <2>5. d = e
      BY <1>1, <1>2, <2>3, <2>4
    <2>6. QED
      BY <1>3, <2>1, <2>5
  <1>6. QED
    BY <1>3, <1>4, <1>5

\* An epoch ends where the next one begins, or with the samples.
LEMMA WallEnds ==
  ASSUME NEW m \in Seq(MemSample), MemOK(m), NEW e \in Sampled(m)
  PROVE  /\ wall(m, e) \in Nat
         /\ first_t(m, e) + wall(m, e) = IF e + 1 \in Sampled(m) THEN first_t(m, e + 1) ELSE Last(m).t
PROOF
  <1>1. e \in Nat
    BY FirstSample
  <1>2. PICK a \in Nat, z \in Nat : a = first_t(m, e) /\ z = Last(m).t /\ a <= z
    <2>1. e <= e
      BY <1>1
    <2>2. QED
      BY <2>1, FirstOrder
  <1>3. CASE e + 1 \in Sampled(m)
    <2>1. e <= e + 1
      BY <1>1
    <2>2. PICK b \in Nat : b = first_t(m, e + 1) /\ a <= b
      BY <1>2, <1>3, <2>1, FirstOrder
    <2>3. wall(m, e) = b - a
      BY <1>2, <1>3, <2>2 DEF wall
    <2>4. QED
      BY <1>2, <1>3, <2>2, <2>3
  <1>4. CASE e + 1 \notin Sampled(m)
    <2>1. wall(m, e) = z - a
      BY <1>2, <1>4 DEF wall
    <2>2. QED
      BY <1>2, <1>4, <2>1
  <1>5. QED
    BY <1>3, <1>4

\* Two epochs do not overlap, or the later one lies within the earlier one.
LEMMA WallsApart ==
  ASSUME NEW m \in Seq(MemSample), MemOK(m), NEW d \in Sampled(m), NEW e \in Sampled(m), d < e
  PROVE  IF d + 1 \in Sampled(m) THEN first_t(m, d) + wall(m, d) <= first_t(m, e)
         ELSE first_t(m, e) + wall(m, e) <= first_t(m, d) + wall(m, d)
PROOF
  <1>1. d \in Nat /\ e \in Nat /\ d + 1 <= e
    BY FirstSample
  <1>2. CASE d + 1 \in Sampled(m)
    <2>1. first_t(m, d) + wall(m, d) = first_t(m, d + 1)
      BY <1>2, WallEnds
    <2>2. first_t(m, d + 1) <= first_t(m, e)
      BY <1>1, <1>2, FirstOrder
    <2>3. QED
      BY <1>2, <2>1, <2>2
  <1>3. CASE d + 1 \notin Sampled(m)
    <2>1. first_t(m, d) + wall(m, d) = Last(m).t
      BY <1>3, WallEnds
    <2>2. first_t(m, e) + wall(m, e) = IF e + 1 \in Sampled(m) THEN first_t(m, e + 1) ELSE Last(m).t
      BY WallEnds
    <2>3. PICK z \in Nat : z = Last(m).t /\ (e + 1 \in Sampled(m) => first_t(m, e + 1) <= z)
      <3>1. Last(m).t \in Nat
        BY <1>1, FirstOrder
      <3>2. ASSUME e + 1 \in Sampled(m) PROVE first_t(m, e + 1) <= Last(m).t
        <4>1. e + 1 <= e + 1
          BY <1>1
        <4>2. QED
          BY <3>2, <4>1, FirstOrder
      <3>3. QED
        BY <3>1, <3>2
    <2>4. first_t(m, e) + wall(m, e) <= z
      BY <2>2, <2>3
    <2>5. QED
      BY <1>3, <2>1, <2>3, <2>4
  <1>4. QED
    BY <1>2, <1>3

\* What is left of an epoch for its merge.
LEMMA MergeFits ==
  ASSUME NEW x \in Row, Measured(x), NEW m, NEW e, wall(m, e) \in Nat
  PROVE  merge_s(x, m, e) \in 0 .. wall(m, e)
PROOF
  <1>1. PICK w \in Nat : w = wall(m, e)
    OBVIOUS
  <1>2. CASE 0 \in {x["ins_ops_s"], x["qps"]}
    BY <1>1, <1>2 DEF merge_s
  <1>3. CASE 0 \notin {x["ins_ops_s"], x["qps"]}
    <2>1. PICK q \in Nat, n \in Nat : q = x["qps"] /\ n = x["ins_ops_s"] /\ q > 0 /\ n > 0
      BY <1>3 DEF Measured
    <2>2. Queries \in Nat /\ Inserted \in Nat
      BY ReportsAssumption
    <2>3. PICK a \in Nat, b \in Nat : a = Queries \div q /\ b = Inserted \div n
      BY <2>1, <2>2
    <2>4. merge_s(x, m, e) = Larger(0, w - a - b)
      BY <1>1, <1>3, <2>1, <2>3 DEF merge_s, delta_s
    <2>5. Larger(0, w - a - b) \in 0 .. w
      BY <1>1, <2>3 DEF Larger
    <2>6. QED
      BY <1>1, <2>4, <2>5
  <1>4. QED
    BY <1>2, <1>3

\* The epochs of one system.
LEMMA MergesHold ==
  RawInv => MergesTile
PROOF
  <1> SUFFICES ASSUME RawInv, NEW s \in Systems, NEW r, NEW m, r = Found(rows[s]), m = Found(mem[s])
               PROVE  /\ \A d \in Refined(r, m) : \A e \in {e \in Refined(r, m) : d < e} :
                           IF d + 1 \in Sampled(m) THEN first_t(m, d) + wall(m, d) <= first_t(m, e)
                           ELSE first_t(m, e) + wall(m, e) <= first_t(m, d) + wall(m, d)
                      /\ r # <<>> /\ Refined(r, m) = 0 .. Len(r) - 1 /\ Sampled(m) = Refined(r, m) =>
                           Total([n \in 1 .. Len(r) |-> wall(m, n - 1)]) = Last(m).t - first_t(m, 0)
                      /\ \A e \in Refined(r, m) :
                           /\ merge_s(r[e + 1], m, e) \in 0 .. wall(m, e)
                           /\ is_merge(r[e + 1], m, e) => wall(m, e) > Floor
    BY Zenon DEF MergesTile
  <1>1. FilesOK(rows[s], mem[s], cache[s], leg[s], epoch[s], written)
    BY DEF RawInv
  <1>2. r \in Seq(Row) /\ m \in Seq(MemSample) /\ RowsOK(r) /\ MemOK(m)
    BY <1>1, FilesType DEF FilesOK
  <1>3. \A e \in Refined(r, m) : e \in Sampled(m) /\ e \in 0 .. Len(r) - 1
    BY DEF Refined
  <1>4. ASSUME NEW d \in Refined(r, m), NEW e \in Refined(r, m), d < e
        PROVE  IF d + 1 \in Sampled(m) THEN first_t(m, d) + wall(m, d) <= first_t(m, e)
               ELSE first_t(m, e) + wall(m, e) <= first_t(m, d) + wall(m, d)
    BY <1>2, <1>3, <1>4, WallsApart
  <1>5. ASSUME r # <<>>, Refined(r, m) = 0 .. Len(r) - 1, Sampled(m) = Refined(r, m)
        PROVE  Total([n \in 1 .. Len(r) |-> wall(m, n - 1)]) = Last(m).t - first_t(m, 0)
    <2>1. PICK L \in Nat \ {0} : L = Len(r) /\ Sampled(m) = 0 .. L - 1
      BY <1>2, <1>5
    <2>2. QED
      BY <1>2, <2>1, WallsTile
  <1>6. ASSUME NEW e \in Refined(r, m)
        PROVE  /\ merge_s(r[e + 1], m, e) \in 0 .. wall(m, e)
               /\ is_merge(r[e + 1], m, e) => wall(m, e) > Floor
    <2>1. wall(m, e) \in Nat
      BY <1>2, <1>3, WallEnds
    <2>2. r[e + 1] \in Row /\ Measured(r[e + 1])
      <3>1. e + 1 \in 1 .. Len(r)
        BY <1>2, <1>3
      <3>2. QED
        BY <1>2, <3>1 DEF RowsOK
    <2>3. merge_s(r[e + 1], m, e) \in 0 .. wall(m, e)
      BY <2>1, <2>2, MergeFits
    <2>4. Floor \in Nat
      BY ReportsAssumption
    <2>5. is_merge(r[e + 1], m, e) => wall(m, e) > Floor
      BY <2>1, <2>3, <2>4 DEF is_merge
    <2>6. QED
      BY <2>3, <2>5
  <1>7. QED
    BY <1>4, <1>5, <1>6, Zenon

\* The times that refine_diskann_insert_latency.py reconstructs count no second twice, but for an epoch
\* that is followed by one without samples, and no merge is longer than its epoch.
THEOREM EpochTimesBounded == Spec => []MergesTile
PROOF
  BY FilesSound, MergesHold, PTL

-----------------------------------------------------------------------------
(***************************************************************************)
(* Rows and memory of two runs.                                            *)
(***************************************************************************)

\* Memory whose samples are all of a build serves nothing.
LEMMA NothingServed ==
  ASSUME NEW m \in Seq(MemSample), \A i \in 1 .. Len(m) : m[i].epoch = -1
  PROVE  Served(m) = <<>>
PROOF
  <1>1. ServedAt(m) = {}
    BY DEF ServedAt
  <1>2. PICK ks \in Seq(MemSample) : ks = Served(m) /\ ToSet(ks) = {}
    BY <1>1, ServedKept
  <1>3. Len(ks) = 0
    <2>1. SUFFICES ASSUME Len(ks) # 0 PROVE FALSE
      OBVIOUS
    <2>2. 1 \in DOMAIN ks
      BY <2>1
    <2>3. ks[1] \in ToSet(ks)
      BY <2>2 DEF ToSet
    <2>4. QED
      BY <1>2, <2>3
  <1>4. QED
    BY <1>2, <1>3

\* Peaks and memory curves are never of another run than the rows beside them: while a build is
\* repeated, or when it was killed, only its time is (bench.py reads the two files one by one).
THEOREM RunsApart == Spec => []OneRun
PROOF
  <1>1. Init => OlderInv
    BY DEF Init, InitRaw, OlderInv
  <1>2. RawInv /\ OlderInv /\ [Next \/ Ended]_vars => OlderInv'
    <2> SUFFICES ASSUME RawInv, OlderInv, [Next \/ Ended]_vars PROVE OlderInv'
      OBVIOUS
    <2>1. CASE Raw
      BY <2>1, OlderSteps DEF Raw
    <2>2. CASE UNCHANGED <<mem, leg, older>>
      BY <2>2, Zenon DEF OlderInv, Found
    <2>3. CASE Begin
      BY <2>2, <2>3 DEF Begin, fileVars
    <2>4. CASE UNCHANGED rawVars
      BY <2>2, <2>4 DEF rawVars
    <2>5. QED
      BY <2>1, <2>3, <2>4 DEF Next, Ended, vars
  <1>3. RawInv /\ OlderInv => OneRun
    <2> SUFFICES ASSUME RawInv, OlderInv, NEW s \in Systems, older[s]
                 PROVE  Served(Found(mem[s])) = <<>>
      BY DEF OneRun
    <2>1. PICK m : m = Found(mem[s])
      OBVIOUS
    <2>2. m \in Seq(MemSample)
      BY <2>1, FilesType DEF RawInv
    <2>3. \A i \in 1 .. Len(m) : m[i].epoch = -1
      BY <2>1 DEF OlderInv
    <2>4. QED
      BY <2>1, <2>2, <2>3, NothingServed
  <1>4. QED
    BY <1>1, <1>2, <1>3, FilesSound, PTL DEF Spec

-----------------------------------------------------------------------------
(***************************************************************************)
(* The footprints.                                                         *)
(***************************************************************************)

\* No more elements are kept than there are.
LEMMA KeptLen ==
  ASSUME NEW T, NEW xs \in Seq(T), NEW S \in SUBSET (1 .. Len(xs))
  PROVE  Len(Kept(xs, S)) \in 0 .. Len(xs)
PROOF
  <1>1. PICK ks \in Seq(T) : ks = Kept(xs, S)
    BY KeptLists
  <1>2. Lists(ks, xs, S)
    BY <1>1, KeptLists
  <1>3. PICK n \in Nat : n = Len(ks)
    BY <1>1
  <1>4. PICK g : Enumerates(g, n, S)
    BY <1>2, <1>3 DEF Lists
  <1>5. g \in [1 .. n -> S] /\ \A i, j \in 1 .. n : i < j => g[i] < g[j]
    BY <1>4 DEF Enumerates
  <1>6. \A i \in 1 .. n : g[i] \in 1 .. Len(xs)
    BY <1>5
  <1> DEFINE done == {i \in 0 .. n : i = 0 \/ g[i] >= i}
  <1>7. 0 \in done
    OBVIOUS
  <1>8. ASSUME NEW i \in 1 .. n, i - 1 \in done
        PROVE  i \in done
    <2>1. CASE i = 1
      BY <1>6, <2>1
    <2>2. CASE i # 1
      <3>1. i - 1 \in 1 .. n /\ i - 1 < i /\ g[i - 1] >= i - 1
        BY <1>8, <2>2
      <3>2. g[i - 1] < g[i] /\ g[i - 1] \in Int /\ g[i] \in Int
        BY <1>5, <1>6, <3>1
      <3>3. QED
        BY <3>1, <3>2
    <2>3. QED
      BY <2>1, <2>2
  <1>9. \A i \in done : i = 0 \/ g[i] >= i
    OBVIOUS
  <1> HIDE DEF done
  <1>10. 0 .. n \subseteq done
    BY <1>7, <1>8, Induction
  <1>11. n = 0 \/ g[n] >= n
    BY <1>9, <1>10
  <1>12. n = 0 \/ n <= Len(xs)
    BY <1>6, <1>11
  <1>13. Len(xs) \in Nat
    OBVIOUS
  <1>14. QED
    BY <1>1, <1>3, <1>12, <1>13

\* The values of a column, by their places.
There(ys) == {i \in 1 .. Len(ys) : ys[i] # None}
\* A column holds the values that are not null.
LEMMA ColumnKept ==
  ASSUME NEW U, NEW ys \in Seq(U), NEW xs, Len(xs) = Len(ys), DOMAIN xs = 1 .. Len(ys),
         NEW k, \A i \in 1 .. Len(ys) : ys[i] = xs[i][k]
  PROVE  /\ Column(xs, k) = Kept(ys, There(ys)) /\ There(ys) \in SUBSET (1 .. Len(ys))
         /\ None \notin U => Column(xs, k) = ys
PROOF
  <1>1. ys = [i \in DOMAIN xs |-> xs[i][k]]
    OBVIOUS
  <1>2. Column(xs, k) = Keep(ys, LAMBDA v : v # None)
    BY <1>1 DEF Column
  <1>3. Keep(ys, LAMBDA v : v # None) = Kept(ys, {i \in DOMAIN ys : ys[i] # None})
    BY DEF Keep
  <1>4. There(ys) = {i \in DOMAIN ys : ys[i] # None} /\ There(ys) \in SUBSET (1 .. Len(ys))
    BY DEF There
  <1>5. Column(xs, k) = Kept(ys, There(ys))
    BY <1>2, <1>3, <1>4
  <1>6. ASSUME None \notin U PROVE Kept(ys, There(ys)) = ys
    <2>1. There(ys) = 1 .. Len(ys)
      BY <1>6 DEF There
    <2>2. QED
      BY <2>1, KeptAll
  <1>7. QED
    BY <1>4, <1>5, <1>6

\* A page-cache sample without a tag falls to a memory sample that is near it.
LEMMA FiledAt ==
  ASSUME NEW m \in Seq(MemSample), MemOK(m), m # <<>>, NEW c \in CachePoint, c.after <= Len(m),
         c.t \in c.after - 1 - Skew .. c.after + Skew
  PROVE  filed(m, c) \in (c.after - Skew .. c.after + 1 + Skew) \cap DOMAIN m
PROOF
  <1>1. PICK L \in Nat : L = Len(m) /\ L >= 1
    OBVIOUS
  <1>2. PICK t \in Nat, a \in Nat, k \in Nat :
          t = c.t /\ a = c.after /\ k = Skew /\ a <= L /\ a - 1 - k <= t /\ t <= a + k
    BY <1>1, BoundsAssumption DEF CachePoint
  <1>u. PICK u \in 0 .. L : u = IF t <= L THEN t ELSE L
    BY <1>1, <1>2
  <1>3. {i \in DOMAIN m : m[i].t < t} = 1 .. u
    <2>1. \A i \in 1 .. L : m[i].t = i - 1
      BY <1>1 DEF MemOK
    <2>2. DOMAIN m = 1 .. L
      BY <1>1
    <2>3. (t <= L /\ u = t) \/ (t > L /\ u = L)
      BY <1>u
    <2>4. \A i \in 1 .. L : i - 1 < t <=> i \in 1 .. u
      BY <2>3
    <2>5. 1 .. u \subseteq 1 .. L
      BY <2>3
    <2>6. \A j : j \in {i \in DOMAIN m : m[i].t < t} <=> j \in 1 .. L /\ j - 1 < t
      BY <2>1, <2>2
    <2>7. QED
      BY <2>4, <2>5, <2>6
  <1>4. Cardinality(1 .. u) = u
    <2>1. 1 \in Int /\ u \in Int
      BY <1>u
    <2>2. Cardinality(1 .. u) = IF 1 > u THEN 0 ELSE u - 1 + 1
      BY <2>1, FS_Interval
    <2>3. QED
      BY <1>u, <2>2
  <1>5. bisect_left(m, c.t) = 1 + u
    BY <1>2, <1>3, <1>4 DEF bisect_left
  <1>6. filed(m, c) = Min({1 + u, L})
    BY <1>1, <1>5 DEF filed
  <1>7. Min({1 + u, L}) \in {1 + u, L} /\ Min({1 + u, L}) <= 1 + u /\ Min({1 + u, L}) <= L
    <2>1. {1 + u, L} \in SUBSET Nat /\ {1 + u, L} # {}
      OBVIOUS
    <2>2. Min({1 + u, L}) \in {1 + u, L} /\ \A j \in {1 + u, L} : Min({1 + u, L}) <= j
      BY <2>1, MinFacts
    <2>3. QED
      BY <2>2
  <1>8. PICK p \in Nat : p = filed(m, c) /\ p \in {1 + u, L} /\ p <= 1 + u /\ p <= L
    BY <1>6, <1>7
  <1>9. p \in a - k .. a + 1 + k /\ p \in 1 .. L
    <2>1. a <= L /\ a - 1 - k <= t /\ t <= a + k /\ L >= 1
      BY <1>1, <1>2
    <2>2. (t <= L /\ u = t) \/ (t > L /\ u = L)
      BY <1>u
    <2>3. (p = 1 + u \/ p = L) /\ p <= 1 + u /\ p <= L
      BY <1>8
    <2>4. a - k <= p /\ p <= a + 1 + k /\ 1 <= p
      BY <2>1, <2>2, <2>3
    <2>5. QED
      BY <2>3, <2>4
  <1>10. QED
    BY <1>1, <1>2, <1>8, <1>9

\* What is averaged over an epoch: values with the epoch they belong to.
Epochs == 0 .. NEpochs - 1
Pair == [epoch : Epochs, value : Nat]
PairsOK(ps, n) ==
  /\ ps \in Seq(Pair) /\ Len(ps) <= n
  /\ \A i \in 1 .. Len(ps) : ps[i].value \in Multiples(Grain)
\* A mean for every one of some epochs, each of which can be divided by the number of any.
Divisible(by) ==
  /\ DOMAIN by \in SUBSET Epochs
  /\ \A e \in DOMAIN by, k \in 1 .. NEpochs : by[e] \in Multiples(k)

\* A mean of multiples of the grain over some samples divides by the epochs again.
LEMMA MultipleOfEach ==
  ASSUME NEW total \in Multiples(Grain), NEW n \in 1 .. Records - 2, NEW k \in 1 .. NEpochs
  PROVE  total \div n \in Multiples(k)
PROOF
  <1>1. n \in Nat \ {0} /\ k \in Nat \ {0} /\ Grain \in Nat
    BY BoundsAssumption, GrainAssumption
  <1>2. PICK x \in Nat : total = x * Grain
    BY DEF Multiples
  <1>3. PICK q \in 1 .. Grain : Grain = q * (n * k)
    BY GrainAssumption
  <1>4. q \in Nat
    BY <1>1
  <1>5. total = (x * q * k) * n /\ x * q \in Nat /\ x * q * k \in Nat
    BY <1>1, <1>2, <1>3, <1>4
  <1>6. PICK y \in Nat : y = x * q * k
    BY <1>5
  <1>7. total \div n = y
    BY <1>1, <1>5, <1>6
  <1>8. y \in Multiples(k)
    BY <1>5, <1>6 DEF Multiples
  <1>9. QED
    BY <1>7, <1>8

\* The values that ByEpoch makes of such pairs can be averaged over the epochs without a rest.
LEMMA MeansDivide ==
  ASSUME NEW ps, PairsOK(ps, Records - 2)
  PROVE  Divisible(ByEpoch(ps))
PROOF
  <1>1. /\ ps \in Seq(Pair) /\ Len(ps) <= Records - 2
        /\ \A i \in 1 .. Len(ps) : ps[i].value \in Multiples(Grain)
    BY DEF PairsOK
  <1>2. {p.epoch : p \in ToSet(ps)} = {ps[i].epoch : i \in 1 .. Len(ps)}
    BY <1>1 DEF ToSet
  <1>3. DOMAIN ByEpoch(ps) = {ps[i].epoch : i \in 1 .. Len(ps)}
    BY <1>2 DEF ByEpoch
  <1>4. DOMAIN ByEpoch(ps) \in SUBSET Epochs
    <2>1. \A i \in 1 .. Len(ps) : ps[i] \in Pair
      BY <1>1
    <2>2. \A i \in 1 .. Len(ps) : ps[i].epoch \in Epochs
      BY <2>1 DEF Pair
    <2>3. QED
      BY <1>3, <2>2
  <1>5. ASSUME NEW e \in DOMAIN ByEpoch(ps), NEW k \in 1 .. NEpochs
        PROVE  ByEpoch(ps)[e] \in Multiples(k)
    <2>1. PICK S \in SUBSET (1 .. Len(ps)) : S = {i \in DOMAIN ps : ps[i].epoch = e} /\ S # {}
      <3>1. PICK i \in 1 .. Len(ps) : ps[i].epoch = e
        BY <1>3, <1>5
      <3>2. DOMAIN ps = 1 .. Len(ps)
        BY <1>1
      <3> DEFINE S == {j \in DOMAIN ps : ps[j].epoch = e}
      <3>3. S \in SUBSET (1 .. Len(ps)) /\ i \in S
        BY <3>1, <3>2
      <3>4. QED
        BY <3>3
    <2>2. Keep(ps, LAMBDA p : p.epoch = e) = Kept(ps, S)
      BY <2>1 DEF Keep
    <2> DEFINE Good == {p \in Pair : p.value \in Multiples(Grain)}
    <2>3. \A p \in S : ps[p] \in Good
      BY <1>1
    <2> HIDE DEF Good
    <2>4. PICK ks \in Seq(Good) : ks = Kept(ps, S)
      BY <1>1, <2>3, KeptKeeps
    <2>5. ks # <<>>
      BY <1>1, <2>1, <2>4, KeptFacts
    <2>6. Len(ks) \in 1 .. Records - 2
      <3>1. Len(ks) \in 0 .. Len(ps)
        BY <1>1, <2>4, KeptLen
      <3>2. Len(ks) # 0
        BY <2>4, <2>5
      <3>3. Len(ps) \in Nat
        BY <1>1
      <3>4. QED
        BY <1>1, <3>1, <3>2, <3>3, BoundsAssumption
    <2>7. PICK vs : vs = [i \in 1 .. Len(ks) |-> ks[i]["value"]]
      OBVIOUS
    <2>8. vs \in Seq(Nat) /\ Len(vs) = Len(ks) /\ \A i \in 1 .. Len(vs) : vs[i] \in Multiples(Grain)
      <3>1. \A i \in 1 .. Len(ks) : ks[i] \in Good
        BY <2>4
      <3>2. \A i \in 1 .. Len(ks) : ks[i].value \in Nat /\ ks[i].value \in Multiples(Grain)
        BY <3>1 DEF Pair, Good
      <3>3. vs \in [1 .. Len(ks) -> Nat] /\ Len(ks) \in Nat
        BY <2>4, <2>7, <3>2
      <3>4. QED
        BY <2>7, <3>2, <3>3
    <2>9. Column(ks, "value") = vs
      <3>1. None \notin Nat
        BY MeasuresAssumption
      <3>2. DOMAIN ks = 1 .. Len(vs) /\ Len(ks) = Len(vs) /\ \A i \in 1 .. Len(vs) : vs[i] = ks[i]["value"]
        BY <2>4, <2>7, <2>8
      <3>3. QED
        BY <2>8, <3>1, <3>2, ColumnKept
    <2>10. Total(vs) \in Multiples(Grain)
      BY <2>8, TotalMultiple, GrainAssumption
    <2>11. ByEpoch(ps)[e] = mean(vs)
      <3>1. ByEpoch(ps)[e] = mean(Column(Keep(ps, LAMBDA p : p.epoch = e), "value"))
        BY <1>5 DEF ByEpoch
      <3>2. QED
        BY <2>2, <2>4, <2>9, <3>1
    <2>12. vs # <<>>
      BY <2>5, <2>8
    <2>13. ByEpoch(ps)[e] = Total(vs) \div Len(ks)
      BY <2>8, <2>11, <2>12 DEF mean
    <2>14. QED
      BY <2>6, <2>10, <2>13, MultipleOfEach
  <1>6. QED
    BY <1>4, <1>5 DEF Divisible

\* A non-empty bounded set of naturals has a largest element.
LEMMA MaxFacts ==
  ASSUME NEW bound \in Nat, NEW T \in SUBSET (0 .. bound), T # {}
  PROVE  Max(T) \in T /\ \A k \in T : k <= Max(T)
PROOF
  <1> DEFINE below == {bound - k : k \in T}
  <1>1. below \in SUBSET Nat /\ below # {}
    <2>1. \A k \in T : bound - k \in Nat
      OBVIOUS
    <2>2. \E k \in T : bound - k \in below
      OBVIOUS
    <2>3. QED
      BY <2>1, <2>2
  <1>2. PICK j \in below : \A k \in below : j <= k
    BY <1>1, LeastNatural
  <1>3. PICK m \in T : j = bound - m
    BY <1>2
  <1>4. \A k \in T : k <= m
    <2> SUFFICES ASSUME NEW k \in T PROVE k <= m
      OBVIOUS
    <2>1. j <= bound - k
      BY <1>2
    <2>2. k \in Nat /\ m \in Nat
      OBVIOUS
    <2>3. QED
      BY <1>3, <2>1, <2>2
  <1>5. T \in SUBSET Int
    OBVIOUS
  <1>6. Max(T) = m
    BY <1>4, <1>5, MaxIs
  <1>7. QED
    BY <1>4, <1>6

\* What MeanOver adds up.
Spread(by) ==
  [n \in 1 .. Max(DOMAIN by) + 1 |-> IF n - 1 \in DOMAIN by THEN by[n - 1] ELSE 0]
\* Means by epoch, as a list over the epochs.
LEMMA SpreadFacts ==
  ASSUME NEW by, Divisible(by), NEW top \in Nat, top = Max(DOMAIN by), NEW k \in 1 .. NEpochs
  PROVE  /\ Spread(by) \in Seq(Nat) /\ Len(Spread(by)) = top + 1
         /\ \A n \in 1 .. top + 1 :
              /\ n - 1 \in DOMAIN by => Spread(by)[n] = by[n - 1]
              /\ n - 1 \notin DOMAIN by => Spread(by)[n] = 0
         /\ Total(Spread(by)) \in Multiples(k)
PROOF
  <1>1. k \in Nat
    OBVIOUS
  <1>2. PICK v : v = Spread(by)
    OBVIOUS
  <1>3. v = [n \in 1 .. top + 1 |-> IF n - 1 \in DOMAIN by THEN by[n - 1] ELSE 0]
    BY <1>2 DEF Spread
  <1>4. \A n \in 1 .. top + 1 : /\ n - 1 \in DOMAIN by => v[n] = by[n - 1]
                                /\ n - 1 \notin DOMAIN by => v[n] = 0
    BY <1>3
  <1>5. 0 \in Multiples(k)
    <2>1. 0 = 0 * k
      BY <1>1
    <2>2. QED
      BY <2>1 DEF Multiples
  <1>6. \A n \in 1 .. top + 1 : v[n] \in Multiples(k)
    BY <1>4, <1>5 DEF Divisible
  <1>7. \A x \in Multiples(k) : x \in Nat
    BY <1>1 DEF Multiples
  <1>8. v \in [1 .. top + 1 -> Nat]
    BY <1>3, <1>6, <1>7
  <1>9. v \in Seq(Nat) /\ Len(v) = top + 1
    BY <1>8
  <1>10. Total(v) \in Multiples(k)
    BY <1>1, <1>6, <1>9, TotalMultiple
  <1>11. QED
    BY <1>2, <1>4, <1>9, <1>10

\* The mean of sums is the sum of the means.
LEMMA MeanOfSums ==
  ASSUME NEW a, Divisible(a), NEW b, Divisible(b), DOMAIN a = DOMAIN b, NEW c,
         DOMAIN c = DOMAIN a, \A e \in DOMAIN a : c[e] = a[e] + b[e]
  PROVE  MeanOver(c) = Plus(MeanOver(a), MeanOver(b))
PROOF
  <1>1. CASE DOMAIN a = {}
    BY <1>1 DEF MeanOver, Plus
  <1>2. CASE DOMAIN a # {}
    <2>1. NEpochs \in Nat \ {0} /\ DOMAIN a \in SUBSET (0 .. NEpochs - 1)
      BY <1>2, BoundsAssumption DEF Divisible, Epochs
    <2>2. PICK top : top = Max(DOMAIN a)
      OBVIOUS
    <2>3. top \in Nat
      <3>1. NEpochs - 1 \in Nat
        BY <2>1
      <3>2. Max(DOMAIN a) \in DOMAIN a
        BY <1>2, <2>1, <3>1, MaxFacts
      <3>3. QED
        BY <2>1, <2>2, <3>2
    <2>4. PICK k \in 1 .. NEpochs : k = Cardinality(DOMAIN a)
      <3>1. IsFiniteSet(0 .. NEpochs - 1) /\ Cardinality(0 .. NEpochs - 1) = NEpochs
        <4>1. 0 \in Int /\ NEpochs - 1 \in Int /\ ~(0 > NEpochs - 1)
          BY <2>1
        <4>2. /\ IsFiniteSet(0 .. NEpochs - 1)
              /\ Cardinality(0 .. NEpochs - 1) = IF 0 > NEpochs - 1 THEN 0 ELSE NEpochs - 1 - 0 + 1
          BY <4>1, FS_Interval
        <4>3. QED
          BY <2>1, <4>1, <4>2
      <3>2. IsFiniteSet(DOMAIN a) /\ Cardinality(DOMAIN a) <= NEpochs
        BY <2>1, <3>1, FS_Subset
      <3>3. Cardinality(DOMAIN a) \in Nat /\ Cardinality(DOMAIN a) # 0
        BY <1>2, <3>2, FS_CardinalityType, FS_EmptySet
      <3>4. QED
        BY <3>2, <3>3
    <2>5. Divisible(c)
      <3>1. \A e \in DOMAIN a, j \in 1 .. NEpochs : c[e] \in Multiples(j)
        <4> SUFFICES ASSUME NEW e \in DOMAIN a, NEW j \in 1 .. NEpochs PROVE c[e] \in Multiples(j)
          OBVIOUS
        <4>1. a[e] \in Multiples(j) /\ b[e] \in Multiples(j) /\ j \in Nat
          BY DEF Divisible
        <4>2. QED
          BY <4>1, MultiplesAdd
      <3>2. QED
        BY <3>1 DEF Divisible
    <2>6. PICK u, v, w : u = Spread(a) /\ v = Spread(b) /\ w = Spread(c)
      OBVIOUS
    <2>7. /\ u \in Seq(Nat) /\ Len(u) = top + 1 /\ Total(u) \in Multiples(k)
          /\ \A n \in 1 .. top + 1 : /\ n - 1 \in DOMAIN a => u[n] = a[n - 1]
                                     /\ n - 1 \notin DOMAIN a => u[n] = 0
      BY <2>2, <2>3, <2>6, SpreadFacts
    <2>8. /\ v \in Seq(Nat) /\ Len(v) = top + 1 /\ Total(v) \in Multiples(k)
          /\ \A n \in 1 .. top + 1 : /\ n - 1 \in DOMAIN a => v[n] = b[n - 1]
                                     /\ n - 1 \notin DOMAIN a => v[n] = 0
      BY <2>2, <2>3, <2>6, SpreadFacts
    <2>9. /\ w \in Seq(Nat) /\ Len(w) = top + 1
          /\ \A n \in 1 .. top + 1 : /\ n - 1 \in DOMAIN a => w[n] = c[n - 1]
                                     /\ n - 1 \notin DOMAIN a => w[n] = 0
      BY <2>2, <2>3, <2>5, <2>6, SpreadFacts
    <2>10. \A n \in 1 .. Len(w) : w[n] = u[n] + v[n]
      <3> SUFFICES ASSUME NEW n \in 1 .. top + 1 PROVE w[n] = u[n] + v[n]
        BY <2>9
      <3>1. CASE n - 1 \in DOMAIN a
        BY <2>7, <2>8, <2>9, <3>1
      <3>2. CASE n - 1 \notin DOMAIN a
        BY <2>7, <2>8, <2>9, <3>2
      <3>3. QED
        BY <3>1, <3>2
    <2>11. Total(w) = Total(u) + Total(v)
      <3>1. u \in Seq(Int) /\ v \in Seq(Int) /\ w \in Seq(Int) /\ Len(u) = Len(w) /\ Len(v) = Len(w)
        BY <2>7, <2>8, <2>9
      <3>2. QED
        BY <2>10, <3>1, TotalPlus
    <2>12. PICK x \in Nat, y \in Nat : Total(u) = x * k /\ Total(v) = y * k
      BY <2>7, <2>8 DEF Multiples
    <2>13. (x * k) \div k = x /\ (y * k) \div k = y /\ (x * k + y * k) \div k = x + y
      <3>1. (x * k) \div k = x /\ (y * k) \div k = y
        OBVIOUS
      <3>2. PICK z \in Nat : z = x + y
        OBVIOUS
      <3>3. x * k + y * k = z * k
        BY <3>2
      <3>4. (z * k) \div k = z
        OBVIOUS
      <3>5. QED
        BY <3>1, <3>2, <3>3, <3>4
    <2>14. /\ MeanOver(a) = Total(u) \div k /\ MeanOver(b) = Total(v) \div k
           /\ MeanOver(c) = Total(w) \div k
      BY <1>2, <2>4, <2>6 DEF MeanOver, Spread
    <2>15. MeanOver(a) = x /\ MeanOver(b) = y /\ MeanOver(c) = x + y
      BY <2>11, <2>12, <2>13, <2>14
    <2>16. x # None /\ y # None
      BY MeasuresAssumption
    <2>17. QED
      BY <2>15, <2>16 DEF Plus
  <1>3. QED
    BY <1>1, <1>2

\* Every row has a latency.
LEMMA RowsAll ==
  ASSUME NEW r \in Seq(Row), RowsOK(r)
  PROVE  Rows(r, "lat_mean_ms") = r
PROOF
  <1>1. DOMAIN r = 1 .. Len(r)
    OBVIOUS
  <1>2. \A i \in 1 .. Len(r) : r[i]["lat_mean_ms"] # None
    BY MeasuresAssumption DEF RowsOK, Measured
  <1>3. {i \in DOMAIN r : r[i]["lat_mean_ms"] # None} = 1 .. Len(r)
    BY <1>1, <1>2
  <1>4. Rows(r, "lat_mean_ms") = Kept(r, {i \in DOMAIN r : r[i]["lat_mean_ms"] # None})
    BY DEF Rows, Keep
  <1>5. QED
    BY <1>3, <1>4, KeptAll

\* The anonymous memory by epoch is a mean of pairs whose values the grain divides.
LEMMA AnonPairs ==
  ASSUME NEW r \in Seq(Row), RowsOK(r), NEW m \in Seq(MemSample), MemOK(m), NEW n \in Nat,
         Len(r) <= n, Len(m) <= n
  PROVE  \E ps : PairsOK(ps, n) /\ per_epoch_anon(r, m) = ByEpoch(ps)
PROOF
  <1>1. CASE \E i \in DOMAIN r : Get(r[i], "rss_anon_mb", 0) # 0
    <2>1. PICK S \in SUBSET (1 .. Len(r)) : S = {i \in DOMAIN r : r[i]["rss_anon_mb"] # None}
      <3>1. DOMAIN r = 1 .. Len(r)
        OBVIOUS
      <3> DEFINE S == {i \in DOMAIN r : r[i]["rss_anon_mb"] # None}
      <3>2. S \in SUBSET (1 .. Len(r))
        BY <3>1
      <3>3. QED
        BY <3>2
    <2>2. Rows(r, "rss_anon_mb") = Kept(r, S)
      BY <2>1 DEF Rows, Keep
    <2> DEFINE Good == {x \in Row : x["epoch"] \in Epochs /\ x["rss_anon_mb"] \in Multiples(Grain)}
    <2>3. \A p \in S : r[p] \in Good
      <3> SUFFICES ASSUME NEW p \in S PROVE r[p] \in Good
        OBVIOUS
      <3>1. p \in 1 .. Len(r) /\ r[p] \in Row
        OBVIOUS
      <3>2. r[p]["rss_anon_mb"] # None
        BY <2>1
      <3>3. r[p]["epoch"] = p - 1 /\ r[p]["rss_anon_mb"] \in Multiples(Grain) /\ Len(r) <= NEpochs
        BY <3>1, <3>2 DEF RowsOK, Measured
      <3>4. p - 1 \in Epochs
        BY <3>1, <3>3, BoundsAssumption DEF Epochs
      <3>5. QED
        BY <3>1, <3>3, <3>4
    <2> HIDE DEF Good
    <2>4. PICK ks \in Seq(Good) : ks = Kept(r, S)
      BY <2>3, KeptKeeps
    <2>5. Len(ks) \in Nat /\ Len(ks) <= n
      <3>1. Len(ks) \in 0 .. Len(r)
        BY <2>4, KeptLen
      <3>2. Len(r) \in Nat
        OBVIOUS
      <3>3. QED
        BY <3>1, <3>2
    <2>6. PICK ps : ps = [i \in DOMAIN ks |-> [epoch |-> ks[i].epoch, value |-> ks[i]["rss_anon_mb"]]]
      OBVIOUS
    <2>7. \A i \in 1 .. Len(ks) : /\ ks[i].epoch \in Epochs
                                  /\ ks[i]["rss_anon_mb"] \in Multiples(Grain) /\ ks[i]["rss_anon_mb"] \in Nat
      <3>1. \A i \in 1 .. Len(ks) : ks[i] \in Good
        BY <2>4
      <3>2. \A x \in Multiples(Grain) : x \in Nat
        BY GrainAssumption DEF Multiples
      <3>3. QED
        BY <3>1, <3>2 DEF Good
    <2>8. DOMAIN ks = 1 .. Len(ks)
      BY <2>4
    <2>9. ps \in [1 .. Len(ks) -> Pair] /\ \A i \in 1 .. Len(ks) : ps[i].value \in Multiples(Grain)
      BY <2>6, <2>7, <2>8 DEF Pair
    <2>10. ps \in Seq(Pair) /\ Len(ps) = Len(ks)
      BY <2>5, <2>9
    <2>11. PairsOK(ps, n)
      BY <2>5, <2>9, <2>10 DEF PairsOK
    <2>12. per_epoch_anon(r, m) = ByEpoch(ps)
      BY <1>1, <2>2, <2>4, <2>6, Zenon DEF per_epoch_anon
    <2>13. QED
      BY <2>11, <2>12
  <1>2. CASE ~ \E i \in DOMAIN r : Get(r[i], "rss_anon_mb", 0) # 0
    <2> DEFINE Good == {x \in MemSample : x.epoch >= 0 /\ x.anon \in Multiples(Grain)}
    <2>1. \A p \in ServedAt(m) : m[p] \in Good
      <3>1. \A p \in ServedAt(m) : p \in 1 .. Len(m) /\ m[p] \in MemSample /\ m[p].epoch >= 0
        BY DEF ServedAt
      <3>2. \A p \in 1 .. Len(m) : m[p].anon \in Multiples(Grain)
        BY DEF MemOK
      <3>3. QED
        BY <3>1, <3>2
    <2> HIDE DEF Good
    <2>2. PICK ks \in Seq(Good) : ks = Served(m)
      <3>1. PICK S \in SUBSET (1 .. Len(m)) : S = ServedAt(m)
        BY ServedKept
      <3>2. Kept(m, S) \in Seq(Good)
        BY <2>1, <3>1, KeptKeeps
      <3>3. QED
        BY <3>1, <3>2, ServedKept
    <2>3. Len(ks) \in Nat /\ Len(ks) <= n
      <3>1. PICK S \in SUBSET (1 .. Len(m)) : S = ServedAt(m)
        BY ServedKept
      <3>2. Len(Kept(m, S)) \in 0 .. Len(m)
        BY KeptLen
      <3>3. Len(m) \in Nat
        OBVIOUS
      <3>4. QED
        BY <2>2, <3>1, <3>2, <3>3, ServedKept
    <2>4. PICK ps : ps = [i \in DOMAIN ks |-> [epoch |-> ks[i].epoch, value |-> ks[i].anon]]
      OBVIOUS
    <2>5. \A i \in 1 .. Len(ks) : /\ ks[i].epoch \in Epochs
                                  /\ ks[i].anon \in Multiples(Grain) /\ ks[i].anon \in Nat
      <3>1. \A i \in 1 .. Len(ks) : ks[i] \in Good
        BY <2>2
      <3>2. \A x \in Good : x.anon \in Multiples(Grain) /\ x.anon \in Nat /\ x.epoch \in Tags /\ x.epoch >= 0
        BY DEF Good, MemSample
      <3>3. \A e \in Tags : e >= 0 => e \in Epochs
        BY BoundsAssumption DEF Tags, Epochs
      <3>4. QED
        BY <3>1, <3>2, <3>3
    <2>6. DOMAIN ks = 1 .. Len(ks)
      BY <2>2
    <2>7. ps \in [1 .. Len(ks) -> Pair] /\ \A i \in 1 .. Len(ks) : ps[i].value \in Multiples(Grain)
      BY <2>4, <2>5, <2>6 DEF Pair
    <2>8. ps \in Seq(Pair) /\ Len(ps) = Len(ks)
      BY <2>3, <2>7
    <2>9. PairsOK(ps, n)
      BY <2>3, <2>7, <2>8 DEF PairsOK
    <2>10. per_epoch_anon(r, m) = ByEpoch(ps)
      BY <1>2, <2>2, <2>4, Zenon DEF per_epoch_anon
    <2>11. QED
      BY <2>9, <2>10
  <1>3. QED
    BY <1>1, <1>2

\* The page cache by epoch is a mean of pairs whose values the grain divides, or nothing.
LEMMA DiskPairs ==
  ASSUME NEW m \in Seq(MemSample), MemOK(m), NEW c \in Seq(CachePoint), CacheOK(c, m), NEW n \in Nat,
         Len(c) <= n
  PROVE  \/ per_epoch_cache(c, m) = <<>>
         \/ \E ps : PairsOK(ps, n) /\ per_epoch_cache(c, m) = ByEpoch(ps)
PROOF
  <1>1. PICK S \in SUBSET (1 .. Len(c)) : S = {i \in DOMAIN c : c[i].epoch >= 0}
    <2>1. DOMAIN c = 1 .. Len(c)
      OBVIOUS
    <2> DEFINE S == {i \in DOMAIN c : c[i].epoch >= 0}
    <2>2. S \in SUBSET (1 .. Len(c))
      BY <2>1
    <2>3. QED
      BY <2>2
  <1>2. Keep(c, LAMBDA x : x.epoch >= 0) = Kept(c, S)
    BY <1>1 DEF Keep
  <1>3. PICK tagged : tagged = Keep(c, LAMBDA x : x.epoch >= 0)
    OBVIOUS
  <1>4. \A e \in Tags : e >= 0 => e \in Epochs
    BY BoundsAssumption DEF Tags, Epochs
  <1>5. \A i \in 1 .. Len(c) : c[i] \in CachePoint /\ c[i].cached \in Multiples(Grain)
    BY DEF CacheOK
  <1>6. CASE tagged # <<>>
    <2> DEFINE Good == {x \in CachePoint : x.epoch >= 0 /\ x.cached \in Multiples(Grain)}
    <2>1. \A p \in S : c[p] \in Good
      BY <1>1, <1>5
    <2> HIDE DEF Good
    <2>2. tagged \in Seq(Good)
      BY <1>2, <1>3, <2>1, KeptKeeps
    <2>3. Len(tagged) \in Nat /\ Len(tagged) <= n
      <3>1. Len(tagged) \in 0 .. Len(c)
        BY <1>2, <1>3, KeptLen
      <3>2. Len(c) \in Nat
        OBVIOUS
      <3>3. QED
        BY <3>1, <3>2
    <2>4. PICK ps : ps = [i \in DOMAIN tagged |-> [epoch |-> tagged[i].epoch, value |-> tagged[i].cached]]
      OBVIOUS
    <2>5. \A i \in 1 .. Len(tagged) : /\ tagged[i].epoch \in Epochs
                                      /\ tagged[i].cached \in Multiples(Grain) /\ tagged[i].cached \in Nat
      <3>1. \A i \in 1 .. Len(tagged) : tagged[i] \in Good
        BY <2>2
      <3>2. \A x \in Good : /\ x.cached \in Multiples(Grain) /\ x.cached \in Nat
                            /\ x.epoch \in Tags /\ x.epoch >= 0
        BY DEF Good, CachePoint
      <3>3. QED
        BY <1>4, <3>1, <3>2
    <2>6. DOMAIN tagged = 1 .. Len(tagged)
      BY <2>2
    <2>7. ps \in [1 .. Len(tagged) -> Pair] /\ \A i \in 1 .. Len(tagged) : ps[i].value \in Multiples(Grain)
      BY <2>4, <2>5, <2>6 DEF Pair
    <2>8. ps \in Seq(Pair) /\ Len(ps) = Len(tagged)
      BY <2>3, <2>7
    <2>9. PairsOK(ps, n)
      BY <2>3, <2>7, <2>8 DEF PairsOK
    <2>10. per_epoch_cache(c, m) = ByEpoch(ps)
      BY <1>3, <1>6, <2>4, Zenon DEF per_epoch_cache
    <2>11. QED
      BY <2>9, <2>10
  <1>7. CASE tagged = <<>> /\ m = <<>>
    BY <1>3, <1>7, Zenon DEF per_epoch_cache
  <1>8. CASE tagged = <<>> /\ m # <<>>
    <2>1. PICK laid : laid = [i \in DOMAIN c |->
                                [epoch |-> m[filed(m, c[i])].epoch, value |-> c[i].cached]]
      OBVIOUS
    <2> DEFINE Laid == {x \in [epoch : Tags, value : Nat] : x.value \in Multiples(Grain)}
               Good == {x \in Pair : x.value \in Multiples(Grain)}
    <2>2. \A i \in 1 .. Len(c) : [epoch |-> m[filed(m, c[i])].epoch, value |-> c[i].cached] \in Laid
      <3> SUFFICES ASSUME NEW i \in 1 .. Len(c)
                   PROVE  [epoch |-> m[filed(m, c[i])].epoch, value |-> c[i].cached] \in Laid
        OBVIOUS
      <3>1. c[i] \in CachePoint /\ c[i].cached \in Nat /\ c[i].cached \in Multiples(Grain)
        BY <1>5 DEF CachePoint
      <3>2. c[i].after <= Len(m) /\ c[i].t \in c[i].after - 1 - Skew .. c[i].after + Skew
        BY DEF CacheOK
      <3>3. filed(m, c[i]) \in DOMAIN m
        BY <1>8, <3>1, <3>2, FiledAt
      <3>4. m[filed(m, c[i])] \in MemSample
        BY <3>3
      <3>5. m[filed(m, c[i])].epoch \in Tags
        BY <3>4 DEF MemSample
      <3>6. QED
        BY <3>1, <3>5
    <2> HIDE DEF Laid
    <2>3. laid \in [1 .. Len(c) -> Laid]
      <3>1. DOMAIN c = 1 .. Len(c)
        OBVIOUS
      <3>2. QED
        BY <2>1, <2>2, <3>1
    <2>4. laid \in Seq(Laid) /\ Len(laid) = Len(c)
      <3>1. Len(c) \in Nat
        OBVIOUS
      <3>2. QED
        BY <2>3, <3>1
    <2>5. PICK P \in SUBSET (1 .. Len(laid)) : P = {i \in DOMAIN laid : laid[i].epoch >= 0}
      <3>1. DOMAIN laid = 1 .. Len(laid)
        BY <2>4
      <3> DEFINE P == {i \in DOMAIN laid : laid[i].epoch >= 0}
      <3>2. P \in SUBSET (1 .. Len(laid))
        BY <3>1
      <3>3. QED
        BY <3>2
    <2>6. Keep(laid, LAMBDA p : p.epoch >= 0) = Kept(laid, P)
      BY <2>5 DEF Keep
    <2>7. \A p \in P : laid[p] \in Good
      <3> SUFFICES ASSUME NEW p \in P PROVE laid[p] \in Good
        OBVIOUS
      <3>1. laid[p] \in Laid
        BY <2>4
      <3>2. laid[p].epoch >= 0
        BY <2>5
      <3>3. laid[p] \in Pair
        <4>1. laid[p] \in [epoch : Tags, value : Nat]
          BY <3>1 DEF Laid
        <4>2. laid[p].epoch \in Epochs
          BY <1>4, <3>2, <4>1
        <4>3. QED
          BY <4>1, <4>2 DEF Pair
      <3>4. QED
        BY <3>1, <3>3 DEF Laid
    <2> HIDE DEF Good
    <2>8. PICK ps \in Seq(Good) : ps = Kept(laid, P)
      BY <2>4, <2>7, KeptKeeps
    <2>9. Len(ps) \in Nat /\ Len(ps) <= n
      <3>1. Len(ps) \in 0 .. Len(laid)
        BY <2>4, <2>8, KeptLen
      <3>2. Len(c) \in Nat
        OBVIOUS
      <3>3. QED
        BY <2>4, <3>1, <3>2
    <2>10. PairsOK(ps, n)
      <3>1. \A i \in 1 .. Len(ps) : ps[i] \in Good
        BY <2>8
      <3>2. \A i \in 1 .. Len(ps) : ps[i] \in Pair /\ ps[i].value \in Multiples(Grain)
        BY <3>1 DEF Good
      <3>3. ps \in Seq(Pair)
        BY <2>8, <3>2
      <3>4. QED
        BY <2>9, <3>2, <3>3 DEF PairsOK
    <2>11. per_epoch_cache(c, m) = ByEpoch(Keep(laid, LAMBDA p : p.epoch >= 0))
      BY <1>3, <1>8, <2>1, Zenon DEF per_epoch_cache
    <2>12. QED
      BY <2>6, <2>8, <2>10, <2>11
  <1>9. QED
    BY <1>6, <1>7, <1>8

\* The two totals of a leg's files, of which there are few enough lines.
LEMMA TotalsAgree ==
  ASSUME NEW r \in Seq(Row), RowsOK(r), NEW m \in Seq(MemSample), MemOK(m),
         NEW c \in Seq(CachePoint), CacheOK(c, m), r # <<>>,
         Len(r) + Len(m) + Len(c) > 0 => Len(r) + Len(m) + Len(c) + 1 <= Records,
         DOMAIN per_epoch_cache(c, m) = DOMAIN per_epoch_anon(r, m)
  PROVE  /\ summarize(r, m, c).total[1] = footprint_leg(r, m, c).total
         /\ phase_c_stats(r, m, c).total = footprint_leg(r, m, c).total
PROOF
  <1>1. PICK anon, disk : anon = per_epoch_anon(r, m) /\ disk = per_epoch_cache(c, m)
    OBVIOUS
  <1>2. DOMAIN anon = DOMAIN disk
    BY <1>1
  <1>3. Rows(r, "lat_mean_ms") = r
    BY RowsAll
  <1>4. footprint_leg(r, m, c).total = Plus(MeanOver(anon), MeanOver(disk))
    BY <1>1 DEF footprint_leg
  <1>5. phase_c_stats(r, m, c).total = Plus(MeanOver(anon), MeanOver(disk))
    BY <1>1, <1>3 DEF phase_c_stats
  <1>6. PICK tot : tot = [e \in DOMAIN anon \cap DOMAIN disk |-> anon[e] + disk[e]]
    OBVIOUS
  <1>7. summarize(r, m, c).total[1] = MeanOver(tot)
    BY <1>1, <1>3, <1>6 DEF summarize
  <1>8. DOMAIN tot = DOMAIN anon /\ \A e \in DOMAIN anon : tot[e] = anon[e] + disk[e]
    BY <1>2, <1>6
  <1>9. MeanOver(tot) = Plus(MeanOver(anon), MeanOver(disk))
    <2>1. PICK x \in Nat, y \in Nat, z \in Nat : x = Len(r) /\ y = Len(m) /\ z = Len(c)
      OBVIOUS
    <2>2. x >= 1 /\ x + y + z + 1 <= Records
      <3>1. x # 0
        BY <2>1
      <3>2. QED
        BY <2>1, <3>1
    <2>3. CASE c = <<>>
      <3>1. z = 0
        BY <2>1, <2>3
      <3>2. disk = <<>> \/ \E ps : PairsOK(ps, 0) /\ disk = ByEpoch(ps)
        <4>1. 0 \in Nat /\ Len(c) <= 0
          BY <2>1, <3>1
        <4>2. \/ per_epoch_cache(c, m) = <<>>
              \/ \E ps : PairsOK(ps, 0) /\ per_epoch_cache(c, m) = ByEpoch(ps)
          BY <4>1, DiskPairs
        <4>3. QED
          BY <1>1, <4>2
      <3>3. ASSUME NEW ps, PairsOK(ps, 0) PROVE DOMAIN ByEpoch(ps) = {}
        <4>1. ps = <<>>
          <5>1. ps \in Seq(Pair) /\ Len(ps) <= 0
            BY <3>3 DEF PairsOK
          <5>2. QED
            BY <5>1
        <4>2. ToSet(ps) = {}
          BY <4>1 DEF ToSet
        <4>3. {q.epoch : q \in ToSet(ps)} = {}
          BY <4>2
        <4>4. QED
          BY <4>3 DEF ByEpoch
      <3>4. DOMAIN disk = {}
        BY <3>2, <3>3
      <3>5. QED
        BY <1>2, <1>8, <3>4 DEF MeanOver, Plus
    <2>4. CASE c # <<>>
      <3>1. z # 0
        BY <2>1, <2>4
      <3>2. PICK n \in Nat : n = Records - 2 /\ x <= n /\ y <= n /\ z <= n
        <4>1. x <= Records - 2 /\ y <= Records - 2 /\ z <= Records - 2 /\ Records - 2 \in Nat
          BY <2>2, <3>1, BoundsAssumption
        <4>2. QED
          BY <4>1
      <3>3. Divisible(anon)
        <4>1. \E ps : PairsOK(ps, n) /\ anon = ByEpoch(ps)
          BY <1>1, <2>1, <3>2, AnonPairs
        <4>2. QED
          BY <3>2, <4>1, MeansDivide
      <3>4. Divisible(disk)
        <4>1. disk = <<>> \/ \E ps : PairsOK(ps, n) /\ disk = ByEpoch(ps)
          BY <1>1, <2>1, <3>2, DiskPairs
        <4>2. Divisible(<<>>)
          BY DEF Divisible
        <4>3. QED
          BY <3>2, <4>1, <4>2, MeansDivide
      <3>5. QED
        BY <1>2, <1>8, <3>3, <3>4, MeanOfSums
    <2>5. QED
      BY <2>3, <2>4
  <1>10. QED
    BY <1>4, <1>5, <1>7, <1>9

\* The invariant of the raw files puts every page-cache sample next to its memory sample, and makes
\* the totals of the scripts agree.
LEMMA FootprintsHold ==
  RawInv => FootprintFiled
PROOF
  <1> SUFFICES ASSUME RawInv, NEW s \in Systems, NEW r, NEW m, NEW c,
                      r = Found(rows[s]), m = Found(mem[s]), c = Found(cache[s])
               PROVE  /\ m # <<>> => \A i \in DOMAIN c :
                           filed(m, c[i]) \in (c[i].after - Skew .. c[i].after + 1 + Skew) \cap DOMAIN m
                      /\ r # <<>> /\ DOMAIN per_epoch_cache(c, m) = DOMAIN per_epoch_anon(r, m) =>
                           /\ summarize(r, m, c).total[1] = footprint_leg(r, m, c).total
                           /\ end_recall10(r) # None =>
                                phase_c_stats(r, m, c).total = footprint_leg(r, m, c).total
    BY Zenon DEF FootprintFiled
  <1>1. FilesOK(rows[s], mem[s], cache[s], leg[s], epoch[s], written)
    BY DEF RawInv
  <1>2. /\ r \in Seq(Row) /\ m \in Seq(MemSample) /\ c \in Seq(CachePoint)
        /\ RowsOK(r) /\ MemOK(m) /\ CacheOK(c, m)
    BY <1>1, FilesType DEF FilesOK
  <1>3. PICK a \in Nat, b \in Nat, d \in Nat : a = Len(r) /\ b = Len(m) /\ d = Len(c)
    BY <1>2
  <1>4. Lines(rows[s], mem[s], cache[s]) = a + b + d
    BY <1>3 DEF Lines
  <1>5. a + b + d > 0 => a + b + d + 1 <= written /\ written \in 0 .. Records
    BY <1>1, <1>4 DEF FilesOK
  <1>6. Len(r) + Len(m) + Len(c) > 0 => Len(r) + Len(m) + Len(c) + 1 <= Records
    BY <1>3, <1>5, BoundsAssumption
  <1>7. ASSUME m # <<>>, NEW i \in DOMAIN c
        PROVE  filed(m, c[i]) \in (c[i].after - Skew .. c[i].after + 1 + Skew) \cap DOMAIN m
    <2>1. i \in 1 .. Len(c) /\ c[i] \in CachePoint
      BY <1>2, <1>7
    <2>2. c[i].t \in c[i].after - 1 - Skew .. c[i].after + Skew /\ c[i].after <= Len(m)
      BY <1>2, <2>1 DEF CacheOK
    <2>3. QED
      BY <1>2, <1>7, <2>1, <2>2, FiledAt
  <1>8. ASSUME r # <<>>, DOMAIN per_epoch_cache(c, m) = DOMAIN per_epoch_anon(r, m)
        PROVE  /\ summarize(r, m, c).total[1] = footprint_leg(r, m, c).total
               /\ phase_c_stats(r, m, c).total = footprint_leg(r, m, c).total
    BY <1>2, <1>6, <1>8, TotalsAgree
  <1>9. QED
    BY <1>7, <1>8

\* Page-cache samples are filed next to where they were taken, and the ways of analyze_byte_step1.py,
\* analyze_footprint.py and analyze_phase_c.py to take the total agree where every epoch has both parts.
THEOREM FootprintsAgree == Spec => []FootprintFiled
PROOF
  BY FilesSound, FootprintsHold, PTL

-----------------------------------------------------------------------------
(***************************************************************************)
(* The reports.                                                            *)
(***************************************************************************)

\* Some element of a sequence of naturals is the largest.
LEMMA MaxSeq ==
  ASSUME NEW v \in Seq(Nat), v # <<>>
  PROVE  Max(ToSet(v)) \in Nat /\ Max(ToSet(v)) \in ToSet(v) /\ \A k \in ToSet(v) : k <= Max(ToSet(v))
PROOF
  <1>1. PICK n \in Nat : n = Len(v) /\ n >= 1
    OBVIOUS
  <1>2. \A i \in 1 .. n : v[i] \in Nat
    BY <1>1
  <1> DEFINE done == {k \in 0 .. n : k = 0 \/ \E i \in 1 .. k : \A j \in 1 .. k : v[j] <= v[i]}
  <1>3. 0 \in done
    OBVIOUS
  <1>4. ASSUME NEW k \in 1 .. n, k - 1 \in done
        PROVE  k \in done
    <2>1. CASE k = 1
      <3>1. \A j \in 1 .. k : v[j] <= v[1]
        BY <1>2, <2>1
      <3>2. 1 \in 1 .. k
        BY <2>1
      <3>3. QED
        BY <3>1, <3>2
    <2>2. CASE k # 1
      <3>1. PICK i \in 1 .. k - 1 : \A j \in 1 .. k - 1 : v[j] <= v[i]
        BY <1>4, <2>2
      <3>2. v[k] \in Nat /\ v[i] \in Nat
        BY <1>2
      <3>3. CASE v[k] <= v[i]
        <4>1. \A j \in 1 .. k : v[j] <= v[i]
          BY <3>1, <3>3
        <4>2. i \in 1 .. k
          OBVIOUS
        <4>3. QED
          BY <4>1, <4>2
      <3>4. CASE ~(v[k] <= v[i])
        <4>1. \A j \in 1 .. k : v[j] <= v[k]
          <5> SUFFICES ASSUME NEW j \in 1 .. k PROVE v[j] <= v[k]
            OBVIOUS
          <5>1. v[j] \in Nat
            BY <1>2
          <5>2. j = k \/ v[j] <= v[i]
            BY <3>1
          <5>3. QED
            BY <3>2, <3>4, <5>1, <5>2
        <4>2. k \in 1 .. k
          OBVIOUS
        <4>3. QED
          BY <4>1, <4>2
      <3>5. QED
        BY <3>3, <3>4
    <2>3. QED
      BY <2>1, <2>2
  <1>5. \A k \in done : k = 0 \/ \E i \in 1 .. k : \A j \in 1 .. k : v[j] <= v[i]
    OBVIOUS
  <1> HIDE DEF done
  <1>6. 0 .. n \subseteq done
    BY <1>3, <1>4, Induction
  <1>7. PICK i \in 1 .. n : \A j \in 1 .. n : v[j] <= v[i]
    <2>1. n \in done /\ n # 0
      BY <1>1, <1>6
    <2>2. QED
      BY <1>5, <2>1
  <1>8. ToSet(v) = {v[j] : j \in 1 .. n}
    BY <1>1 DEF ToSet
  <1>9. ToSet(v) \in SUBSET Int /\ v[i] \in ToSet(v) /\ \A k \in ToSet(v) : k <= v[i]
    BY <1>2, <1>7, <1>8
  <1>10. Max(ToSet(v)) = v[i]
    BY <1>9, MaxIs
  <1>11. QED
    BY <1>2, <1>9, <1>10

\* What is identified and what is left of it: the larger of two numbers.
LEMMA LargerSum ==
  ASSUME NEW a \in Int, NEW b \in Int
  PROVE  b + Larger(0, a - b) = Larger(a, b)
PROOF
  BY DEF Larger

\* The column of a measure that every row has.
LEMMA RowColumn ==
  ASSUME NEW r \in Seq(Row), NEW k, \A i \in 1 .. Len(r) : r[i][k] \in Nat
  PROVE  /\ Column(r, k) \in Seq(Nat) /\ Len(Column(r, k)) = Len(r)
         /\ \A i \in 1 .. Len(r) : Column(r, k)[i] = r[i][k]
PROOF
  <1>1. PICK ys : ys = [i \in 1 .. Len(r) |-> r[i][k]]
    OBVIOUS
  <1>2. Len(r) \in Nat /\ DOMAIN r = 1 .. Len(r)
    OBVIOUS
  <1>3. ys \in [1 .. Len(r) -> Nat]
    BY <1>1
  <1>4. ys \in Seq(Nat) /\ Len(ys) = Len(r)
    BY <1>2, <1>3
  <1>5. \A i \in 1 .. Len(ys) : ys[i] = r[i][k]
    BY <1>1, <1>4
  <1>6. None \notin Nat
    BY MeasuresAssumption
  <1>7. Column(r, k) = ys
    BY <1>2, <1>4, <1>5, <1>6, ColumnKept
  <1>8. QED
    BY <1>4, <1>5, <1>7

\* A mean of naturals is one.
LEMMA MeanNat ==
  ASSUME NEW v \in Seq(Nat), v # <<>>
  PROVE  mean(v) = Total(v) \div Len(v) /\ mean(v) \in Nat /\ mean(v) # None
PROOF
  <1>1. \A i \in 1 .. Len(v) : v[i] \in Multiples(1)
    <2> SUFFICES ASSUME NEW i \in 1 .. Len(v) PROVE v[i] \in Multiples(1)
      OBVIOUS
    <2>1. v[i] \in Nat /\ v[i] = v[i] * 1
      OBVIOUS
    <2>2. QED
      BY <2>1, Zenon DEF Multiples
  <1>2. Total(v) \in Multiples(1)
    BY <1>1, TotalMultiple
  <1>3. Total(v) \in Nat
    BY <1>2 DEF Multiples
  <1>4. Len(v) \in Nat \ {0}
    OBVIOUS
  <1>5. Total(v) \div Len(v) \in Nat
    BY <1>3, <1>4
  <1>6. QED
    BY <1>5, MeasuresAssumption DEF mean

\* One more number at the end adds to the total.
LEMMA TotalAppend ==
  ASSUME NEW v \in Seq(Nat), NEW x \in Nat
  PROVE  Append(v, x) \in Seq(Nat) /\ Total(Append(v, x)) = Total(v) + x
PROOF
  <1>1. PICK n \in Nat, w \in Seq(Nat) :
          n = Len(v) /\ w = Append(v, x) /\ Len(w) = n + 1 /\ w[n + 1] = x /\ \A i \in 1 .. n : w[i] = v[i]
    <2>1. PICK w : w = Append(v, x)
      OBVIOUS
    <2>2. w \in Seq(Nat) /\ Len(w) = Len(v) + 1
      BY <2>1
    <2>3. w[Len(v) + 1] = x /\ \A i \in 1 .. Len(v) : w[i] = v[i]
      BY <2>1
    <2>4. Len(v) \in Nat
      OBVIOUS
    <2>5. QED
      BY <2>1, <2>2, <2>3, <2>4
  <1>2. v \in Seq(Int) /\ w \in Seq(Int)
    OBVIOUS
  <1>3. PICK g : AddsUp(g, v) /\ Total(v) = g[Len(v)]
    BY <1>2, TotalSum
  <1>4. PICK h : AddsUp(h, w) /\ Total(w) = h[Len(w)]
    BY <1>2, TotalSum
  <1>5. /\ g[0] = 0 /\ h[0] = 0 /\ h[n + 1] = h[n] + w[n + 1]
        /\ \A i \in 1 .. n : g[i] = g[i - 1] + v[i] /\ h[i] = h[i - 1] + w[i]
    <2>1. \A i \in 1 .. n : i \in 1 .. n + 1
      OBVIOUS
    <2>2. n + 1 \in 1 .. n + 1 /\ (n + 1) - 1 = n
      OBVIOUS
    <2>3. QED
      BY <1>1, <1>3, <1>4, <2>1, <2>2 DEF AddsUp
  <1> DEFINE done == {i \in 0 .. n : h[i] = g[i]}
  <1>6. 0 \in done
    BY <1>5
  <1>7. \A i \in 1 .. n : i - 1 \in done => i \in done
    BY <1>1, <1>5
  <1>8. \A i \in done : h[i] = g[i]
    OBVIOUS
  <1> HIDE DEF done
  <1>9. 0 .. n \subseteq done
    BY <1>6, <1>7, Induction
  <1>10. h[n] = g[n]
    BY <1>8, <1>9
  <1>11. QED
    BY <1>1, <1>3, <1>4, <1>5, <1>10

\* Zeros add nothing: the total of what is kept is that of all, if the others are zero.
LEMMA KeptTotal ==
  ASSUME NEW ys \in Seq(Nat), NEW S \in SUBSET (1 .. Len(ys)), \A i \in 1 .. Len(ys) : i \notin S => ys[i] = 0
  PROVE  Total(Kept(ys, S)) = Total(ys) /\ Len(Kept(ys, S)) = Cardinality(S)
PROOF
  <1>1. PICK n \in Nat : n = Len(ys)
    OBVIOUS
  <1>2. PICK h : KeepsUp(h, ys, S) /\ Kept(ys, S) = h[n]
    BY <1>1, KeptSteps
  <1>3. PICK g : AddsUp(g, ys) /\ Total(ys) = g[n]
    <2>1. ys \in Seq(Int)
      OBVIOUS
    <2>2. QED
      BY <1>1, <2>1, TotalSum
  <1>4. /\ g[0] = 0 /\ h[0] = <<>>
        /\ \A i \in 1 .. n : /\ ys[i] \in Nat /\ g[i] = g[i - 1] + ys[i]
                             /\ i \in S => h[i] = Append(h[i - 1], ys[i])
                             /\ i \notin S => h[i] = h[i - 1] /\ ys[i] = 0
    <2>1. g[0] = 0 /\ \A i \in 1 .. n : g[i] = g[i - 1] + ys[i]
      BY <1>1, <1>3 DEF AddsUp
    <2>2. /\ h[0] = <<>>
          /\ \A i \in 1 .. n : (i \in S => h[i] = Append(h[i - 1], ys[i])) /\ (i \notin S => h[i] = h[i - 1])
      BY <1>1, <1>2 DEF KeepsUp
    <2>3. \A i \in 1 .. n : ys[i] \in Nat /\ (i \notin S => ys[i] = 0)
      BY <1>1
    <2>4. QED
      BY <2>1, <2>2, <2>3
  <1> DEFINE upTo(i) == S \cap (1 .. i)
             good(i) == h[i] \in Seq(Nat) /\ Total(h[i]) = g[i] /\ Len(h[i]) = Cardinality(upTo(i))
             done == {i \in 0 .. n : good(i)}
  <1>5. \A i \in Nat : IsFiniteSet(upTo(i))
    <2> SUFFICES ASSUME NEW i \in Nat PROVE IsFiniteSet(upTo(i))
      OBVIOUS
    <2>1. IsFiniteSet(1 .. i)
      BY FS_Interval
    <2>2. upTo(i) \subseteq 1 .. i
      OBVIOUS
    <2>3. QED
      BY <2>1, <2>2, FS_Subset
  <1>6. 0 \in done
    <2>1. upTo(0) = {}
      OBVIOUS
    <2>2. Cardinality({}) = 0
      BY FS_EmptySet
    <2>3. <<>> \in Seq(Nat) /\ Len(<<>>) = 0 /\ Total(<<>>) = 0
      BY TotalEmpty
    <2>4. good(0)
      BY <1>4, <2>1, <2>2, <2>3
    <2>5. QED
      BY <2>4
  <1>7. ASSUME NEW i \in 1 .. n, i - 1 \in done PROVE i \in done
    <2>1. h[i - 1] \in Seq(Nat) /\ Total(h[i - 1]) = g[i - 1] /\ Len(h[i - 1]) = Cardinality(upTo(i - 1))
      BY <1>7
    <2>2. /\ ys[i] \in Nat /\ g[i] = g[i - 1] + ys[i]
          /\ i \in S => h[i] = Append(h[i - 1], ys[i])
          /\ i \notin S => h[i] = h[i - 1] /\ ys[i] = 0
      BY <1>4
    <2>3. CASE i \in S
      <3>1. upTo(i) = upTo(i - 1) \cup {i} /\ i \notin upTo(i - 1)
        BY <2>3
      <3>2. i - 1 \in Nat
        OBVIOUS
      <3>3. Cardinality(upTo(i)) = Cardinality(upTo(i - 1)) + 1
        BY <1>5, <3>1, <3>2, FS_AddElement
      <3>4. h[i] \in Seq(Nat) /\ Total(h[i]) = Total(h[i - 1]) + ys[i]
        BY <2>1, <2>2, <2>3, TotalAppend
      <3>5. Len(h[i]) = Len(h[i - 1]) + 1
        <4>1. PICK v \in Seq(Nat) : v = h[i - 1]
          BY <2>1
        <4>2. h[i] = Append(v, ys[i])
          BY <2>2, <2>3, <4>1
        <4>3. QED
          BY <2>2, <4>1, <4>2
      <3>6. good(i)
        BY <2>1, <2>2, <3>3, <3>4, <3>5
      <3>7. QED
        BY <3>6
    <2>4. CASE i \notin S
      <3>1. upTo(i) = upTo(i - 1)
        BY <2>4
      <3>2. g[i - 1] \in Int
        <4>1. i - 1 \in 0 .. Len(ys)
          BY <1>1
        <4>2. QED
          BY <1>3, <4>1 DEF AddsUp
      <3>3. g[i] = g[i - 1] /\ h[i] = h[i - 1]
        BY <2>2, <2>4, <3>2
      <3>4. good(i)
        BY <2>1, <3>1, <3>3
      <3>5. QED
        BY <3>4
    <2>5. QED
      BY <2>3, <2>4
  <1>8. \A i \in done : good(i)
    OBVIOUS
  <1> HIDE DEF done
  <1>9. n \in done
    <2>1. 0 .. n \subseteq done
      BY <1>6, <1>7, Induction
    <2>2. QED
      BY <2>1
  <1>10. upTo(n) = S
    BY <1>1
  <1>11. QED
    BY <1>2, <1>3, <1>8, <1>9, <1>10

\* The mean over no more epochs than there are is exact.
LEMMA MeanExact ==
  ASSUME NEW v \in Seq(Nat), Len(v) \in 1 .. NEpochs, \A i \in 1 .. Len(v) : v[i] \in Multiples(Grain)
  PROVE  mean(v) \in Nat /\ mean(v) # None /\ mean(v) * Len(v) = Total(v)
PROOF
  <1>1. PICK k \in Nat \ {0} : k = Len(v) /\ k \in 1 .. NEpochs
    <2>1. NEpochs \in Nat
      BY BoundsAssumption
    <2>2. QED
      BY <2>1
  <1>2. PICK q \in Nat : Grain = q * k
    <2>1. \E q \in 1 .. Grain : Grain = q * k
      BY <1>1, GrainAssumption
    <2>2. QED
      BY <2>1
  <1>3. PICK x \in Nat : Total(v) = x * Grain
    BY TotalMultiple, GrainAssumption DEF Multiples
  <1>4. PICK y \in Nat : y = x * q
    OBVIOUS
  <1>5. Total(v) = y * k
    BY <1>2, <1>3, <1>4
  <1>6. v # <<>>
    BY <1>1
  <1>7. mean(v) = Total(v) \div k /\ mean(v) \in Nat /\ mean(v) # None
    BY <1>1, <1>6, MeanNat
  <1>8. (y * k) \div k = y
    OBVIOUS
  <1>9. QED
    BY <1>1, <1>5, <1>7, <1>8

\* The mean over all epochs is that over those that are not zero, diluted.
LEMMA MeansDiluted ==
  ASSUME NEW ys \in Seq(Nat), Len(ys) \in 1 .. NEpochs, \A i \in 1 .. Len(ys) : ys[i] \in Multiples(Grain),
         NEW S \in SUBSET (1 .. Len(ys)), S = {i \in 1 .. Len(ys) : ys[i] # 0},
         NEW some, some = IF mean(Kept(ys, S)) = None THEN 0 ELSE mean(Kept(ys, S))
  PROVE  mean(ys) * Len(ys) = some * Cardinality(S)
PROOF
  <1>1. mean(ys) * Len(ys) = Total(ys)
    BY MeanExact
  <1>2. Total(Kept(ys, S)) = Total(ys) /\ Len(Kept(ys, S)) = Cardinality(S)
    BY KeptTotal
  <1> DEFINE Good == {x \in Nat : x \in Multiples(Grain)}
  <1>3. \A p \in S : ys[p] \in Good
    OBVIOUS
  <1> HIDE DEF Good
  <1>4. PICK vs \in Seq(Good) : vs = Kept(ys, S)
    BY <1>3, KeptKeeps
  <1>5. Len(vs) \in 0 .. Len(ys)
    BY <1>4, KeptLen
  <1>6. CASE vs = <<>>
    <2>1. mean(vs) = None /\ Total(vs) = 0 /\ Len(vs) = 0
      BY <1>6, TotalEmpty DEF mean
    <2>2. some = 0 /\ Cardinality(S) = 0
      BY <1>2, <1>4, <2>1
    <2>3. QED
      BY <1>1, <1>2, <1>4, <2>1, <2>2
  <1>7. CASE vs # <<>>
    <2>1. \A i \in 1 .. Len(vs) : vs[i] \in Nat /\ vs[i] \in Multiples(Grain)
      BY DEF Good
    <2>2. vs \in Seq(Nat) /\ Len(vs) \in 1 .. NEpochs
      <3>1. vs \in Seq(Nat)
        BY <2>1, Good \subseteq Nat DEF Good
      <3>2. Len(vs) # 0
        BY <1>7
      <3>3. QED
        BY <1>5, <3>1, <3>2, BoundsAssumption
    <2>3. mean(vs) # None /\ mean(vs) * Len(vs) = Total(vs)
      BY <2>1, <2>2, MeanExact
    <2>4. some = mean(vs)
      BY <1>4, <2>3
    <2>5. QED
      BY <1>1, <1>2, <1>4, <2>3, <2>4
  <1>8. QED
    BY <1>6, <1>7

\* The peak of the stream: three scripts take it.
LEMMA PeaksAgree ==
  ASSUME NEW m \in Seq(MemSample), NEW peak,
         peak = Get([rss |-> peak_rss_mb(m)], "rss", 0)
  PROVE  peak \in Nat /\ peak_rss(m) = peak /\ Max({0} \cup {q.rss : q \in ToSet(rss_series(m))}) = peak
PROOF
  <1>0. peak = IF peak_rss_mb(m) = None THEN 0 ELSE peak_rss_mb(m)
    BY DEF Get
  <1>1. PICK ks \in Seq(MemSample) : ks = Served(m)
    BY ServedKept
  <1>2. PICK ys : ys = [i \in 1 .. Len(ks) |-> ks[i].rss]
    OBVIOUS
  <1>3. \A i \in 1 .. Len(ks) : ks[i].rss \in Nat
    BY <1>1, SampleFacts
  <1>4. ys \in Seq(Nat) /\ Len(ys) = Len(ks)
    <2>1. ys \in [1 .. Len(ks) -> Nat] /\ Len(ks) \in Nat
      BY <1>1, <1>2, <1>3
    <2>2. QED
      BY <2>1
  <1>5. Column(ks, "rss") = ys
    <2>1. DOMAIN ks = 1 .. Len(ys) /\ \A i \in 1 .. Len(ys) : ys[i] = ks[i]["rss"]
      BY <1>1, <1>2, <1>4
    <2>2. None \notin Nat
      BY MeasuresAssumption
    <2>3. QED
      BY <1>4, <2>1, <2>2, ColumnKept
  <1>6. peak_rss_mb(m) = MaxOf(ys) /\ peak_rss(m) = IF ys = <<>> THEN 0 ELSE MaxOf(ys)
    BY <1>1, <1>5 DEF peak_rss_mb, peak_rss
  <1>7. {q.rss : q \in ToSet(rss_series(m))} = ToSet(ys)
    <2>1. PICK out : out = rss_series(m)
      OBVIOUS
    <2>2. out = [i \in DOMAIN ks |-> [t |-> ks[i].t - ks[1].t, rss |-> ks[i].rss]]
      BY <1>1, <2>1, Zenon DEF rss_series
    <2>3. DOMAIN ks = 1 .. Len(ks)
      BY <1>1
    <2>4. DOMAIN out = 1 .. Len(ks) /\ \A i \in 1 .. Len(ks) : out[i].rss = ks[i].rss
      BY <2>2, <2>3
    <2>5. ToSet(out) = {out[i] : i \in 1 .. Len(ks)}
      BY <2>4 DEF ToSet
    <2>6. {q.rss : q \in ToSet(out)} = {ks[i].rss : i \in 1 .. Len(ks)}
      BY <2>4, <2>5
    <2>7. ToSet(ys) = {ks[i].rss : i \in 1 .. Len(ks)}
      BY <1>2 DEF ToSet
    <2>8. QED
      BY <2>1, <2>6, <2>7
  <1>a. Max({0} \cup {q.rss : q \in ToSet(rss_series(m))}) = Max({0} \cup ToSet(ys))
    BY <1>7, Zenon
  <1>8. CASE ys = <<>>
    <2>1. peak = 0 /\ peak_rss(m) = 0
      BY <1>0, <1>6, <1>8, MeasuresAssumption DEF MaxOf
    <2>2. ToSet(ys) = {}
      BY <1>8 DEF ToSet
    <2>3. {0} \cup ToSet(ys) \in SUBSET Int /\ 0 \in {0} \cup ToSet(ys) /\ \A k \in {0} \cup ToSet(ys) : k <= 0
      BY <2>2
    <2>4. Max({0} \cup ToSet(ys)) = 0
      BY <2>3, MaxIs
    <2>5. QED
      BY <1>a, <2>1, <2>4
  <1>9. CASE ys # <<>>
    <2>1. PICK top \in Nat : top = Max(ToSet(ys)) /\ top \in ToSet(ys) /\ \A k \in ToSet(ys) : k <= top
      BY <1>4, <1>9, MaxSeq
    <2>2. MaxOf(ys) = top /\ top # None
      BY <1>9, <2>1, MeasuresAssumption DEF MaxOf
    <2>3. peak = top /\ peak_rss(m) = top
      BY <1>0, <1>6, <1>9, <2>2
    <2>4. ToSet(ys) \in SUBSET Nat
      BY <1>4 DEF ToSet
    <2>5. {0} \cup ToSet(ys) \in SUBSET Int /\ top \in {0} \cup ToSet(ys) /\ \A k \in {0} \cup ToSet(ys) : k <= top
      BY <2>1, <2>4
    <2>6. Max({0} \cup ToSet(ys)) = top
      BY <2>5, MaxIs
    <2>7. QED
      BY <1>a, <2>1, <2>3, <2>6
  <1>10. QED
    BY <1>8, <1>9

\* The components that a row identifies add up to a whole number.
LEMMA IdentifiedInt ==
  ASSUME NEW row \in Row
  PROVE  Identified(row) \in Int
PROOF
  <1>1. PICK v : v = [i \in DOMAIN MEM_COMPS |-> Get(row, MEM_COMPS[i], 0)]
    OBVIOUS
  <1>2. DOMAIN MEM_COMPS = 1 .. 5 /\ \A i \in 1 .. 5 : MEM_COMPS[i] \in Fields
    BY DEF MEM_COMPS, Fields
  <1>3. \A k \in Fields : Get(row, k, 0) \in Int
    BY DEF Row, Get
  <1>4. v \in [1 .. 5 -> Int]
    BY <1>1, <1>2, <1>3
  <1>5. v \in Seq(Int)
    <2>1. \A n \in Nat : [1 .. n -> Int] \subseteq Seq(Int)
      OBVIOUS
    <2>2. QED
      BY <1>4, <2>1
  <1>6. Total(v) \in Int
    BY <1>5, TotalInt
  <1>7. QED
    BY <1>1, <1>6 DEF Identified

\* A column of some of the rows is the same choice from the column of all.
LEMMA PickedColumn ==
  ASSUME NEW r \in Seq(Row), NEW k, NEW ys \in Seq(Nat), Len(ys) = Len(r), NEW S \in SUBSET (1 .. Len(r)),
         \A i \in 1 .. Len(r) : ys[i] = r[i][k]
  PROVE  Column(Kept(r, S), k) = Kept(ys, S)
PROOF
  <1>1. PICK ks \in Seq(Row) : ks = Kept(r, S)
    BY KeptFacts
  <1>2. PICK vs \in Seq(Nat) : vs = Kept(ys, S)
    BY KeptFacts
  <1>3. /\ Len(Kept(ys, S)) = Len(Kept(r, S))
        /\ \A i \in 1 .. Len(Kept(r, S)) : Kept(ys, S)[i] = Kept(r, S)[i][k]
    BY KeptColumn
  <1>4. Len(vs) = Len(ks) /\ \A i \in 1 .. Len(ks) : vs[i] = ks[i][k]
    BY <1>1, <1>2, <1>3
  <1>5. Len(vs) = Len(ks) /\ DOMAIN ks = 1 .. Len(vs) /\ \A i \in 1 .. Len(vs) : vs[i] = ks[i][k]
    <2>1. Len(ks) \in Nat /\ DOMAIN ks = 1 .. Len(ks)
      BY <1>1
    <2>2. QED
      BY <1>4, <2>1
  <1>6. None \notin Nat
    BY MeasuresAssumption
  <1>7. Column(ks, k) = vs
    BY <1>5, <1>6, ColumnKept
  <1>8. QED
    BY <1>1, <1>2, <1>7

\* The rate of the inserts: what is positive of a column, or the column of what is positive; the
\* scripts that average all epochs report it diluted.
LEMMA RatesAgree ==
  ASSUME NEW r \in Seq(Row), RowsOK(r), r # <<>>, NEW m, NEW rate,
         rate = Get([ins |-> mean_ins_ops_s(r)], "ins", 0)
  PROVE  /\ msweep(r).ins = rate /\ param_last(r).ins = rate
         /\ Get([ins |-> e4_update(r)], "ins", 0) = rate
         /\ footprint_leg(r, m, <<>>).ins = summarize(r, m, <<>>).ins
         /\ phase_c_stats(r, m, <<>>).ins = summarize(r, m, <<>>).ins
         /\ Diluted(summarize(r, m, <<>>).ins, rate, r, "ins_ops_s")
PROOF
  <1>1. \A i \in 1 .. Len(r) : r[i]["ins_ops_s"] \in Nat
    BY DEF RowsOK, Measured
  <1>2. PICK ys \in Seq(Nat) : /\ ys = Column(r, "ins_ops_s") /\ Len(ys) = Len(r)
                               /\ \A i \in 1 .. Len(r) : ys[i] = r[i]["ins_ops_s"]
    BY <1>1, RowColumn
  <1>3. DOMAIN r = 1 .. Len(r) /\ DOMAIN ys = 1 .. Len(r)
    BY <1>2
  <1>4. PICK S \in SUBSET (1 .. Len(r)) : S = {i \in 1 .. Len(r) : ys[i] > 0}
    OBVIOUS
  <1>5. Positive(ys) = Kept(ys, S)
    <2>1. {i \in DOMAIN ys : ys[i] > 0} = S
      BY <1>3, <1>4
    <2>2. Positive(ys) = Kept(ys, {i \in DOMAIN ys : ys[i] > 0})
      BY DEF Positive, Keep
    <2>3. QED
      BY <2>1, <2>2
  <1>6. PICK vs \in Seq(Nat) : vs = Kept(ys, S)
    BY <1>2, KeptFacts
  <1>7. mean_ins_ops_s(r) = mean(vs)
    BY <1>2, <1>5, <1>6 DEF mean_ins_ops_s
  <1>8. e4_update(r) = mean(vs)
    <2>1. \A i \in 1 .. Len(r) : Get(r[i], "ins_ops_s", 0) = ys[i]
      BY <1>1, <1>2, MeasuresAssumption DEF Get
    <2>2. {i \in DOMAIN r : Get(r[i], "ins_ops_s", 0) > 0} = S
      BY <1>3, <1>4, <2>1
    <2>3. Keep(r, LAMBDA x : Get(x, "ins_ops_s", 0) > 0) = Kept(r, {i \in DOMAIN r : Get(r[i], "ins_ops_s", 0) > 0})
      BY DEF Keep
    <2>4. PICK k : k = "ins_ops_s"
      OBVIOUS
    <2>5. Column(Kept(r, S), k) = vs
      BY <1>2, <1>6, <2>4, PickedColumn
    <2>6. QED
      BY <2>2, <2>3, <2>4, <2>5 DEF e4_update
  <1>9. /\ param_last(r).ins = Total(vs) \div Larger(1, Len(vs))
        /\ msweep(r).ins = IF vs = <<>> THEN 0 ELSE mean(vs)
    BY <1>2, <1>5, <1>6 DEF param_last, msweep
  <1>10. /\ Get([ins |-> e4_update(r)], "ins", 0) = IF mean(vs) = None THEN 0 ELSE mean(vs)
         /\ rate = IF mean(vs) = None THEN 0 ELSE mean(vs)
    BY <1>7, <1>8 DEF Get
  <1>11. msweep(r).ins = rate /\ param_last(r).ins = rate
    <2>1. CASE vs = <<>>
      <3>1. mean(vs) = None
        BY <2>1 DEF mean
      <3>2. Total(vs) = 0 /\ Larger(1, Len(vs)) = 1
        BY <2>1, TotalEmpty DEF Larger
      <3>3. QED
        BY <1>9, <1>10, <2>1, <3>1, <3>2
    <2>2. CASE vs # <<>>
      <3>1. mean(vs) = Total(vs) \div Len(vs) /\ mean(vs) # None
        BY <2>2, MeanNat
      <3>2. Larger(1, Len(vs)) = Len(vs)
        <4>1. PICK n \in Nat : n = Len(vs) /\ n >= 1
          BY <2>2
        <4>2. QED
          BY <4>1 DEF Larger
      <3>3. QED
        BY <1>9, <1>10, <2>2, <3>1, <3>2
    <2>3. QED
      BY <2>1, <2>2
  <1>12. /\ footprint_leg(r, m, <<>>).ins = mean(ys) /\ summarize(r, m, <<>>).ins = mean(ys)
         /\ phase_c_stats(r, m, <<>>).ins = mean(ys)
    <2>1. Rows(r, "lat_mean_ms") = r
      BY RowsAll
    <2>2. ys # <<>>
      BY <1>2
    <2>3. MeanOr0(r, "ins_ops_s") = mean(ys)
      BY <1>2, <2>2 DEF MeanOr0, mean
    <2>4. summarize(r, m, <<>>).ins = mean(Column(r, "ins_ops_s"))
      BY <2>1 DEF summarize
    <2>5. phase_c_stats(r, m, <<>>).ins = mean(Column(r, "ins_ops_s"))
      BY <2>1 DEF phase_c_stats
    <2>6. footprint_leg(r, m, <<>>).ins = MeanOr0(r, "ins_ops_s")
      BY DEF footprint_leg
    <2>7. QED
      BY <1>2, <2>3, <2>4, <2>5, <2>6
  <1>13. mean(ys) * Len(r) = rate * Cardinality({i \in DOMAIN r : r[i]["ins_ops_s"] # 0})
    <2>1. S = {i \in 1 .. Len(ys) : ys[i] # 0} /\ S = {i \in DOMAIN r : r[i]["ins_ops_s"] # 0}
      <3>1. \A i \in 1 .. Len(ys) : ys[i] > 0 <=> ys[i] # 0
        BY <1>2
      <3>2. QED
        BY <1>2, <1>3, <1>4, <3>1
    <2>2. Len(ys) \in 1 .. NEpochs
      <3>1. Len(r) \in Nat /\ Len(r) # 0 /\ Len(r) <= NEpochs /\ NEpochs \in Nat
        BY BoundsAssumption DEF RowsOK
      <3>2. QED
        BY <1>2, <3>1
    <2>3. \A i \in 1 .. Len(ys) : ys[i] \in Multiples(Grain)
      BY <1>2 DEF RowsOK, Measured
    <2>4. mean(ys) * Len(ys) = rate * Cardinality(S)
      BY <1>2, <1>6, <1>10, <2>1, <2>2, <2>3, MeansDiluted
    <2>5. QED
      BY <1>2, <2>1, <2>4
  <1>14. Diluted(summarize(r, m, <<>>).ins, rate, r, "ins_ops_s")
    BY <1>12, <1>13 DEF Diluted
  <1>15. QED
    BY <1>8, <1>10, <1>11, <1>12, <1>14

\* The tail latency: the mean over all the rows, but for the script that leaves out those of epochs
\* without queries, which the others report diluted.
LEMMA LatenciesAgree ==
  ASSUME NEW r \in Seq(Row), RowsOK(r), r # <<>>, NEW m, NEW p99, p99 = MeanOr0(r, "lat_p99_ms")
  PROVE  /\ param_last(r).p99 = p99 /\ msweep(r).p99 = p99 /\ cache_variant(r).p99 = p99
         /\ ablation_load(r)["lat_p99_ms"] = p99 /\ summarize(r, m, <<>>).p99 = p99
         /\ footprint_leg(r, m, <<>>).p99 = p99 /\ phase_c_stats(r, m, <<>>).p99 = p99
         /\ Diluted(p99, Get([p99 |-> e4_query(r)], "p99", 0), r, "lat_mean_ms")
PROOF
  <1>1. \A i \in 1 .. Len(r) : r[i]["lat_p99_ms"] \in Nat
    BY DEF RowsOK, Measured
  <1>2. PICK ys \in Seq(Nat) : /\ ys = Column(r, "lat_p99_ms") /\ Len(ys) = Len(r)
                               /\ \A i \in 1 .. Len(r) : ys[i] = r[i]["lat_p99_ms"]
    BY <1>1, RowColumn
  <1>3. ys # <<>>
    BY <1>2
  <1>4. mean(ys) = p99
    BY <1>2, <1>3 DEF MeanOr0, mean
  <1>5. Rows(r, "lat_mean_ms") = r
    BY RowsAll
  <1>6. PICK S \in SUBSET (1 .. Len(r)) : S = {i \in 1 .. Len(r) : ys[i] # 0}
    OBVIOUS
  <1>7. \A i \in 1 .. Len(r) : r[i]["lat_mean_ms"] \in Nat /\ (r[i]["lat_mean_ms"] = 0 <=> ys[i] = 0)
    BY <1>2 DEF RowsOK, Measured
  <1>8. e4_query(r) = mean(Kept(ys, S))
    <2>1. \A i \in 1 .. Len(r) : Get(r[i], "lat_mean_ms", 0) > 0 <=> ys[i] # 0
      <3> SUFFICES ASSUME NEW i \in 1 .. Len(r) PROVE Get(r[i], "lat_mean_ms", 0) > 0 <=> ys[i] # 0
        OBVIOUS
      <3>1. PICK x \in Nat : x = r[i]["lat_mean_ms"] /\ (x = 0 <=> ys[i] = 0)
        BY <1>7
      <3>2. Get(r[i], "lat_mean_ms", 0) = x
        BY <3>1, MeasuresAssumption DEF Get
      <3>3. QED
        BY <3>1, <3>2
    <2>2. {i \in DOMAIN r : Get(r[i], "lat_mean_ms", 0) > 0} = S
      BY <1>6, <2>1
    <2>3. Keep(r, LAMBDA x : Get(x, "lat_mean_ms", 0) > 0) = Kept(r, {i \in DOMAIN r : Get(r[i], "lat_mean_ms", 0) > 0})
      BY DEF Keep
    <2>4. PICK k : k = "lat_p99_ms"
      OBVIOUS
    <2>5. Column(Kept(r, S), k) = Kept(ys, S)
      BY <1>2, <2>4, PickedColumn
    <2>6. QED
      BY <2>2, <2>3, <2>4, <2>5 DEF e4_query
  <1>9. PICK some : some = Get([p99 |-> e4_query(r)], "p99", 0)
    OBVIOUS
  <1>10. p99 * Len(r) = some * Cardinality({i \in DOMAIN r : r[i]["lat_mean_ms"] # 0})
    <2>1. S = {i \in 1 .. Len(ys) : ys[i] # 0} /\ S = {i \in DOMAIN r : r[i]["lat_mean_ms"] # 0}
      BY <1>2, <1>6, <1>7
    <2>2. Len(ys) \in 1 .. NEpochs
      <3>1. Len(r) \in Nat /\ Len(r) # 0 /\ Len(r) <= NEpochs /\ NEpochs \in Nat
        BY BoundsAssumption DEF RowsOK
      <3>2. QED
        BY <1>2, <3>1
    <2>3. \A i \in 1 .. Len(ys) : ys[i] \in Multiples(Grain)
      BY <1>2 DEF RowsOK, Measured
    <2>4. some = IF mean(Kept(ys, S)) = None THEN 0 ELSE mean(Kept(ys, S))
      BY <1>8, <1>9 DEF Get
    <2>5. mean(ys) * Len(ys) = some * Cardinality(S)
      BY <1>2, <2>1, <2>2, <2>3, <2>4, MeansDiluted
    <2>6. QED
      BY <1>2, <1>4, <2>1, <2>5
  <1>11. Diluted(p99, some, r, "lat_mean_ms")
    BY <1>10 DEF Diluted
  <1>12. /\ param_last(r).p99 = p99 /\ msweep(r).p99 = p99 /\ cache_variant(r).p99 = p99
         /\ footprint_leg(r, m, <<>>).p99 = p99
    BY DEF param_last, msweep, cache_variant, footprint_leg
  <1>13. ablation_load(r)["lat_p99_ms"] = mean(Column(r, "lat_p99_ms"))
    BY DEF ablation_load
  <1>14. summarize(r, m, <<>>).p99 = mean(Column(r, "lat_p99_ms"))
    BY <1>5 DEF summarize
  <1>15. phase_c_stats(r, m, <<>>).p99 = mean(Column(r, "lat_p99_ms"))
    BY <1>5 DEF phase_c_stats
  <1>16. QED
    BY <1>2, <1>4, <1>9, <1>11, <1>12, <1>13, <1>14, <1>15

\* The recall at the end: the last row that has one.
LEMMA RecallsAgree ==
  ASSUME NEW r \in Seq(Row), RowsOK(r), NEW m, NEW end, end = end_recall10(r)
  PROVE  /\ param_last(r).recall = end /\ ablation_load(r)["recall10"] = end
         /\ adjratio_row(r, m).recall = end /\ cache_variant(r).recall = end
         /\ summarize(r, m, <<>>).recall[2] = end
         /\ end # None => msweep(r).recall = end /\ phase_c_stats(r, m, <<>>).r49 = end
PROOF
  <1>1. PICK v : v = Column(r, "recall10")
    OBVIOUS
  <1>2. end = LastOf(v)
    BY <1>1 DEF end_recall10
  <1>3. Rows(r, "lat_mean_ms") = r
    BY RowsAll
  <1>4. param_last(r).recall = end /\ adjratio_row(r, m).recall = end /\ cache_variant(r).recall = end
    BY <1>1, <1>2 DEF param_last, LastRecall, adjratio_row, cache_variant
  <1>5. ablation_load(r)["recall10"] = end
    BY <1>1, <1>2 DEF ablation_load
  <1>6. summarize(r, m, <<>>).recall[2] = end
    BY <1>1, <1>2, <1>3 DEF summarize
  <1>7. msweep(r).recall = Last(v) /\ phase_c_stats(r, m, <<>>).r49 = Last(v)
    BY <1>1, <1>3 DEF msweep, phase_c_stats
  <1>8. end # None => end = Last(v)
    BY <1>2 DEF LastOf
  <1>9. QED
    BY <1>4, <1>5, <1>6, <1>7, <1>8

\* What one system's scripts report.
Agrees(r, m, peak, end, rate) ==
  /\ \A x \in {peak_rss(m)} \cup {Max({0} \cup {q.rss : q \in ToSet(rss_series(m))})} : x = peak
  /\ r # <<>> =>
       /\ adjratio_row(r, m).rss = peak
       /\ stacked_mem(r, m) = Larger(peak, Identified(Last(r)))
       /\ \A i \in DOMAIN r : residual(r)[i] + Identified(r[i]) = Larger(r[i]["rss_mb"], Identified(r[i]))
       /\ \A x \in {param_last(r).recall, ablation_load(r)["recall10"], adjratio_row(r, m).recall,
                    cache_variant(r).recall, summarize(r, m, <<>>).recall[2]} : x = end
       /\ param_last(r).ins = rate
       /\ Get([ins |-> e4_update(r)], "ins", 0) = rate
       /\ footprint_leg(r, m, <<>>).ins = summarize(r, m, <<>>).ins
       /\ Diluted(summarize(r, m, <<>>).ins, rate, r, "ins_ops_s")
       /\ \A x \in {cache_variant(r).p99, ablation_load(r)["lat_p99_ms"], summarize(r, m, <<>>).p99,
                    footprint_leg(r, m, <<>>).p99} : x = param_last(r).p99
       /\ Diluted(summarize(r, m, <<>>).p99, Get([p99 |-> e4_query(r)], "p99", 0), r, "lat_mean_ms")
       /\ end # None =>
            /\ msweep(r).recall = end /\ phase_c_stats(r, m, <<>>).r49 = end
            /\ msweep(r).ins = rate /\ phase_c_stats(r, m, <<>>).ins = summarize(r, m, <<>>).ins
            /\ msweep(r).p99 = summarize(r, m, <<>>).p99
            /\ phase_c_stats(r, m, <<>>).p99 = summarize(r, m, <<>>).p99

\* The reports of one system agree.
LEMMA SystemAgrees ==
  ASSUME NEW r \in Seq(Row), RowsOK(r), NEW m \in Seq(MemSample), NEW peak, NEW end, NEW rate,
         peak = Get([rss |-> peak_rss_mb(m)], "rss", 0), end = end_recall10(r),
         rate = Get([ins |-> mean_ins_ops_s(r)], "ins", 0)
  PROVE  Agrees(r, m, peak, end, rate)
PROOF
  <1>1. peak \in Nat /\ peak_rss(m) = peak /\ Max({0} \cup {q.rss : q \in ToSet(rss_series(m))}) = peak
    BY PeaksAgree
  <1>2. \A x \in {peak_rss(m)} \cup {Max({0} \cup {q.rss : q \in ToSet(rss_series(m))})} : x = peak
    BY <1>1, Zenon
  <1>3. adjratio_row(r, m).rss = peak
    BY <1>1 DEF adjratio_row, peak_rss
  <1>4. r # <<>> => stacked_mem(r, m) = Larger(peak, Identified(Last(r)))
    <2> SUFFICES ASSUME r # <<>> PROVE stacked_mem(r, m) = Larger(peak, Identified(Last(r)))
      OBVIOUS
    <2>1. Last(r) \in Row
      BY DEF Last
    <2>2. PICK b \in Int : b = Identified(Last(r))
      BY <2>1, IdentifiedInt
    <2>3. stacked_mem(r, m) = b + Larger(0, peak - b)
      BY <1>1, <2>2 DEF stacked_mem, other_mb
    <2>4. b + Larger(0, peak - b) = Larger(peak, b)
      BY <1>1, LargerSum
    <2>5. QED
      BY <2>2, <2>3, <2>4
  <1>5. ASSUME NEW i \in DOMAIN r
        PROVE  residual(r)[i] + Identified(r[i]) = Larger(r[i]["rss_mb"], Identified(r[i]))
    <2>1. i \in 1 .. Len(r) /\ r[i] \in Row
      OBVIOUS
    <2>2. PICK b \in Int : b = Identified(r[i])
      BY <2>1, IdentifiedInt
    <2>3. PICK a \in Int : a = r[i]["rss_mb"]
      BY <2>1 DEF RowsOK, Measured
    <2>4. residual(r)[i] = Larger(0, a - b) /\ Larger(0, a - b) \in Int
      BY <2>2, <2>3 DEF residual, Larger
    <2>5. b + Larger(0, a - b) = Larger(a, b)
      BY LargerSum
    <2>6. QED
      BY <2>2, <2>3, <2>4, <2>5
  <1>6. /\ param_last(r).recall = end /\ ablation_load(r)["recall10"] = end
        /\ adjratio_row(r, m).recall = end /\ cache_variant(r).recall = end
        /\ summarize(r, m, <<>>).recall[2] = end
        /\ end # None => msweep(r).recall = end /\ phase_c_stats(r, m, <<>>).r49 = end
    BY RecallsAgree
  <1>7. r # <<>> =>
          /\ msweep(r).ins = rate /\ param_last(r).ins = rate
          /\ Get([ins |-> e4_update(r)], "ins", 0) = rate
          /\ footprint_leg(r, m, <<>>).ins = summarize(r, m, <<>>).ins
          /\ phase_c_stats(r, m, <<>>).ins = summarize(r, m, <<>>).ins
          /\ Diluted(summarize(r, m, <<>>).ins, rate, r, "ins_ops_s")
    BY RatesAgree
  <1>8. PICK p99 : p99 = MeanOr0(r, "lat_p99_ms")
    OBVIOUS
  <1>9. r # <<>> =>
          /\ param_last(r).p99 = p99 /\ msweep(r).p99 = p99 /\ cache_variant(r).p99 = p99
          /\ ablation_load(r)["lat_p99_ms"] = p99 /\ summarize(r, m, <<>>).p99 = p99
          /\ footprint_leg(r, m, <<>>).p99 = p99 /\ phase_c_stats(r, m, <<>>).p99 = p99
          /\ Diluted(p99, Get([p99 |-> e4_query(r)], "p99", 0), r, "lat_mean_ms")
    BY <1>8, LatenciesAgree
  <1>10. QED
    BY <1>2, <1>3, <1>4, <1>5, <1>6, <1>7, <1>9, Zenon DEF Agrees

\* The invariant of the raw files makes the reports agree.
LEMMA ReportsHold ==
  RawInv => ReportsAgree
PROOF
  <1> SUFFICES ASSUME RawInv, NEW s \in Systems
               PROVE  LET r == Found(rows[s])
                          m == Found(mem[s])
                      IN Agrees(r, m, Get([rss |-> peak_rss_mb(m)], "rss", 0), end_recall10(r),
                                Get([ins |-> mean_ins_ops_s(r)], "ins", 0))
    BY Zenon DEF ReportsAgree, Agrees
  <1>1. FilesOK(rows[s], mem[s], cache[s], leg[s], epoch[s], written)
    BY DEF RawInv
  <1>2. PICK r, m : r = Found(rows[s]) /\ m = Found(mem[s])
    OBVIOUS
  <1>3. r \in Seq(Row) /\ m \in Seq(MemSample) /\ RowsOK(r)
    BY <1>1, <1>2, FilesType DEF FilesOK
  <1>4. PICK peak, end, rate :
          /\ peak = Get([rss |-> peak_rss_mb(m)], "rss", 0)
          /\ end = end_recall10(r)
          /\ rate = Get([ins |-> mean_ins_ops_s(r)], "ins", 0)
    OBVIOUS
  <1>5. Agrees(r, m, peak, end, rate)
    BY <1>3, <1>4, SystemAgrees
  <1>6. QED
    BY <1>2, <1>4, <1>5, Zenon

\* Where two scripts report the same quantity they report the same number, for every number of epochs
\* and whatever they measured: the peak, the recall at the end, the tail latency and each of the two
\* means of the rate of the inserts.  The mean over all epochs is that over the epochs with inserts
\* (and, for the latency, with queries) times their share.
THEOREM ScriptsAgree == Spec => []ReportsAgree
PROOF
  BY FilesSound, ReportsHold, PTL

-----------------------------------------------------------------------------
(***************************************************************************)
(* The tables.                                                             *)
(***************************************************************************)

Cells == Nat \cup {None}
Cols(x) == ToSet(Columns(FAMILIES[x].source))
TableRow(x) ==
  {r \in [Cols(x) -> Cells \cup Systems] :
     r["system"] \in Systems /\ \A c \in Cols(x) : c # "system" => r[c] \in Cells}

\* The axis the rows of a system go forward on.
Axis(x) == IF FAMILIES[x].source = "mem" THEN "epoch_frac" ELSE "epoch"
Ascending(x, T) ==
  FAMILIES[x].source # "summary" =>
    \A i, j \in 1 .. Len(T) :
      i < j /\ T[i]["system"] = T[j]["system"] =>
        T[i][Axis(x)] \in Nat /\ T[j][Axis(x)] \in Nat /\ T[i][Axis(x)] < T[j][Axis(x)]

\* A table of the first n systems.
TableOK(x, T, n) ==
  /\ T \in Seq(TableRow(x)) /\ Ascending(x, T)
  /\ \A i \in 1 .. Len(T) : \E k \in 1 .. n : T[i]["system"] = Order[k]

\* The rows of a system whose raw files are r and m, and all those of the first n systems.
SummaryRow(s, r, m) ==
  [system |-> s, build_time_s |-> build_time_s(Found(m)), peak_rss_mb |-> peak_rss_mb(Found(m)),
   mean_ins_ops_s |-> mean_ins_ops_s(r), end_recall10 |-> end_recall10(r)]
Section(x, s, r, m) ==
  IF FAMILIES[x].source = "epoch" THEN aggregate_epoch(s, Found(r))
  ELSE IF FAMILIES[x].source = "mem" THEN aggregate_mem(s, Served(Found(m)))
  ELSE IF r = Absent THEN <<>> ELSE <<SummaryRow(s, r, m)>>
Part(x, k, rs, ms) == ToSet(Section(x, Order[k], rs[Order[k]], ms[Order[k]]))
Current(x, R, n, rs, ms) == R = UNION {Part(x, k, rs, ms) : k \in 1 .. n}

Reading(x, T, n, stable, rs, ms) ==
  /\ n \in 0 .. Len(Order) /\ TableOK(x, T, n)
  /\ stable => Current(x, ToSet(T), n, rs, ms)
\* The last row lacks the columns of blank.
Filling(x, T, n, stable, blank, rs, ms) ==
  /\ n \in 1 .. Len(Order) /\ T # <<>> /\ TableOK(x, T, n) /\ FAMILIES[x].source = "summary"
  /\ T[Len(T)]["system"] = Order[n]
  /\ stable =>
       /\ Current(x, {T[i] : i \in 1 .. Len(T) - 1}, n - 1, rs, ms) /\ rs[Order[n]] # Absent
       /\ \A c \in Cols(x) :
            T[Len(T)][c] = IF c \in blank THEN None
                           ELSE SummaryRow(Order[n], rs[Order[n]], ms[Order[n]])[c]

-----------------------------------------------------------------------------
(***************************************************************************)
(* The command in progress.                                                *)
(***************************************************************************)

File(x, T) == write_dat(Columns(FAMILIES[x].source), T)
Picture(x, T) == Draw(x, read_dat(File(x, T)))
Steps == {"next", "read", "build", "peak", "write", "dat", "pdf", "svg"}

\* Of a command c that is at its step st of the first of q: whether it draws what it has aggregated.
Draws(c, st) == st \in {"pdf", "svg"} /\ c \in Aggregates

\* What was read so far, and what was made of it, by a command c with the names q still to do, at its
\* step st, the system a and with the table T; d are the tables, g the figures, fr is what is fresh.
WorkOK(c, q, st, a, T, stable, d, g, fr, rs, ms) ==
  /\ c \in {"none", "run", "plot", "clean"} /\ q \in Seq(Experiments) /\ st \in Steps
  /\ a \in Nat \ {0} /\ stable \in BOOLEAN
  /\ st # "next" => q # <<>> /\ Head(q) \notin fr
  /\ st \in {"read", "build", "peak", "write"} => c \in Aggregates
  /\ st = "dat" => c = "clean"
  /\ st = "read" => Reading(Head(q), T, a - 1, stable, rs, ms)
  /\ st = "build" => Filling(Head(q), T, a, stable, {"build_time_s", "peak_rss_mb"}, rs, ms)
  /\ st = "peak" => Filling(Head(q), T, a, stable, {"peak_rss_mb"}, rs, ms)
  /\ st = "write" \/ Draws(c, st) => Reading(Head(q), T, Len(Order), stable, rs, ms)
  /\ Draws(c, st) => d[Head(q)] = File(Head(q), T)
  /\ Draws(c, st) /\ st = "svg" => g[Head(q)]["pdf"] = Picture(Head(q), T)

JobForm(j) ==
  j = [cmd |-> j.cmd, todo |-> j.todo, step |-> j.step, at |-> j.at, table |-> j.table, stable |-> j.stable]
JobOK ==
  /\ JobForm(job)
  /\ WorkOK(job.cmd, job.todo, job.step, job.at, job.table, job.stable, dat, fig, fresh, rows, mem)

TablesType ==
  /\ DOMAIN dat = Experiments /\ DOMAIN fig = Experiments
  /\ \A x \in Experiments : fig[x] = [pdf |-> fig[x]["pdf"], svg |-> fig[x]["svg"]]
  /\ fresh \subseteq Experiments

WorkInv == RawInv /\ JobOK /\ TablesType

-----------------------------------------------------------------------------
(***************************************************************************)
(* The families of figures.                                                *)
(***************************************************************************)

LEMMA FamilyFacts ==
  /\ FAMILIES["recall_epoch"] = Family("epoch", "series", "epoch", "recall10", "")
  /\ FAMILIES["latency_epoch"] = Family("epoch", "dual", "epoch", "lat_p99_ms", "lat_p50_ms")
  /\ FAMILIES["insert_tput_epoch"] = Family("epoch", "series", "epoch", "ins_ops_s", "")
  /\ FAMILIES["mem_time"] = Family("mem", "series", "epoch_frac", "rss_mb", "")
  /\ FAMILIES["recall_latency_pareto"] = Family("epoch", "pareto", "lat_mean_ms", "recall10", "")
  /\ FAMILIES["build_time"] = Family("summary", "bar", "system", "build_time_s", "")
  /\ FAMILIES["insert_tput"] = Family("summary", "bar", "system", "mean_ins_ops_s", "")
PROOF
  <1>1. FAMILIES["recall_epoch"] = Family("epoch", "series", "epoch", "recall10", "")
    BY Zenon DEF FAMILIES, Names
  <1>2. FAMILIES["latency_epoch"] = Family("epoch", "dual", "epoch", "lat_p99_ms", "lat_p50_ms")
    BY Zenon DEF FAMILIES, Names
  <1>3. FAMILIES["insert_tput_epoch"] = Family("epoch", "series", "epoch", "ins_ops_s", "")
    BY Zenon DEF FAMILIES, Names
  <1>4. FAMILIES["mem_time"] = Family("mem", "series", "epoch_frac", "rss_mb", "")
    BY Zenon DEF FAMILIES, Names
  <1>5. FAMILIES["recall_latency_pareto"] = Family("epoch", "pareto", "lat_mean_ms", "recall10", "")
    BY Zenon DEF FAMILIES, Names
  <1>6. FAMILIES["build_time"] = Family("summary", "bar", "system", "build_time_s", "")
    BY Zenon DEF FAMILIES, Names
  <1>7. FAMILIES["insert_tput"] = Family("summary", "bar", "system", "mean_ins_ops_s", "")
    BY Zenon DEF FAMILIES, Names
  <1>8. QED
    BY <1>1, <1>2, <1>3, <1>4, <1>5, <1>6, <1>7, Zenon

\* The columns of each kind of table.
LEMMA ColumnFacts ==
  /\ ToSet(EPOCH_COLS) = {"epoch", "system", "recall10", "lat_mean_ms", "lat_p50_ms", "lat_p99_ms", "ins_ops_s"}
  /\ ToSet(MEM_COLS) = {"epoch_frac", "system", "rss_mb", "t_sec", "epoch"}
  /\ ToSet(SUMMARY_COLS) = {"system", "build_time_s", "mean_ins_ops_s", "peak_rss_mb", "end_recall10"}
  /\ \A cols \in {EPOCH_COLS, MEM_COLS, SUMMARY_COLS} :
       /\ DOMAIN cols = 1 .. Len(cols) /\ Len(cols) \in Nat
       /\ \A i, j \in DOMAIN cols : cols[i] = cols[j] => i = j
PROOF
  <1>1. ToSet(EPOCH_COLS) = {"epoch", "system", "recall10", "lat_mean_ms", "lat_p50_ms", "lat_p99_ms", "ins_ops_s"}
    BY DEF ToSet, EPOCH_COLS
  <1>2. ToSet(MEM_COLS) = {"epoch_frac", "system", "rss_mb", "t_sec", "epoch"}
    BY DEF ToSet, MEM_COLS
  <1>3. ToSet(SUMMARY_COLS) = {"system", "build_time_s", "mean_ins_ops_s", "peak_rss_mb", "end_recall10"}
    BY DEF ToSet, SUMMARY_COLS
  <1>4. /\ DOMAIN EPOCH_COLS = 1 .. Len(EPOCH_COLS) /\ Len(EPOCH_COLS) \in Nat
        /\ \A i, j \in DOMAIN EPOCH_COLS : EPOCH_COLS[i] = EPOCH_COLS[j] => i = j
    <2>1. DOMAIN EPOCH_COLS = 1 .. 7 /\ Len(EPOCH_COLS) = 7
      BY DEF EPOCH_COLS
    <2>2. \A i, j \in 1 .. 7 : EPOCH_COLS[i] = EPOCH_COLS[j] => i = j
      BY DEF EPOCH_COLS
    <2>3. QED
      BY <2>1, <2>2
  <1>5. /\ DOMAIN MEM_COLS = 1 .. Len(MEM_COLS) /\ Len(MEM_COLS) \in Nat
        /\ \A i, j \in DOMAIN MEM_COLS : MEM_COLS[i] = MEM_COLS[j] => i = j
    <2>1. DOMAIN MEM_COLS = 1 .. 5 /\ Len(MEM_COLS) = 5
      BY DEF MEM_COLS
    <2>2. \A i, j \in 1 .. 5 : MEM_COLS[i] = MEM_COLS[j] => i = j
      BY DEF MEM_COLS
    <2>3. QED
      BY <2>1, <2>2
  <1>6. /\ DOMAIN SUMMARY_COLS = 1 .. Len(SUMMARY_COLS) /\ Len(SUMMARY_COLS) \in Nat
        /\ \A i, j \in DOMAIN SUMMARY_COLS : SUMMARY_COLS[i] = SUMMARY_COLS[j] => i = j
    <2>1. DOMAIN SUMMARY_COLS = 1 .. 5 /\ Len(SUMMARY_COLS) = 5
      BY DEF SUMMARY_COLS
    <2>2. \A i, j \in 1 .. 5 : SUMMARY_COLS[i] = SUMMARY_COLS[j] => i = j
      BY DEF SUMMARY_COLS
    <2>3. QED
      BY <2>1, <2>2
  <1>7. QED
    BY <1>1, <1>2, <1>3, <1>4, <1>5, <1>6

-----------------------------------------------------------------------------
(***************************************************************************)
(* The file of a table.                                                    *)
(***************************************************************************)

\* A function of 1 .. n is a sequence.
LEMMA FunSeq ==
  ASSUME NEW n \in Nat, NEW U, NEW g \in [1 .. n -> U]
  PROVE  g \in Seq(U) /\ Len(g) = n
PROOF
  OBVIOUS

ColumnLists == {EPOCH_COLS, MEM_COLS, SUMMARY_COLS}

\* A table that was written is read back whole, cell by cell.
LEMMA ReadBack ==
  ASSUME NEW cols \in ColumnLists, NEW R, NEW T \in Seq(R), NEW back, back = read_dat(write_dat(cols, T))
  PROVE  /\ back \in Seq({back[i] : i \in 1 .. Len(T)}) /\ Len(back) = Len(T)
         /\ \A i \in 1 .. Len(T), c \in ToSet(cols) : back[i][c] = cell(T[i][c])
PROOF
  <1>1. PICK n \in Nat, k \in Nat : n = Len(T) /\ k = Len(cols)
    BY ColumnFacts DEF ColumnLists
  <1>2. DOMAIN cols = 1 .. k /\ DOMAIN T = 1 .. n /\ \A i, j \in 1 .. k : cols[i] = cols[j] => i = j
    BY <1>1, ColumnFacts DEF ColumnLists
  <1>3. PICK file : file = write_dat(cols, T)
    OBVIOUS
  <1>4. /\ file.columns = cols
        /\ file.lines = [i \in 1 .. n |-> [j \in 1 .. k |-> cell(T[i][cols[j]])]]
    BY <1>2, <1>3 DEF write_dat
  <1>5. PICK ls : ls = file.lines
    OBVIOUS
  <1>6. /\ DOMAIN ls = 1 .. n
        /\ \A i \in 1 .. n : ls[i] = [j \in 1 .. k |-> cell(T[i][cols[j]])]
    BY <1>4, <1>5
  <1>7. \A i \in 1 .. n : DOMAIN ls[i] = 1 .. k /\ Len(ls[i]) = k /\ \A j \in 1 .. k : ls[i][j] = cell(T[i][cols[j]])
    <2> SUFFICES ASSUME NEW i \in 1 .. n
                 PROVE  DOMAIN ls[i] = 1 .. k /\ Len(ls[i]) = k /\ \A j \in 1 .. k : ls[i][j] = cell(T[i][cols[j]])
      OBVIOUS
    <2>1. PICK l : l = ls[i]
      OBVIOUS
    <2>2. l = [j \in 1 .. k |-> cell(T[i][cols[j]])]
      BY <1>6, <2>1
    <2>3. DOMAIN l = 1 .. k /\ \A j \in 1 .. k : l[j] = cell(T[i][cols[j]])
      BY <2>2
    <2>4. l \in Seq({l[j] : j \in 1 .. k}) /\ Len(l) = k
      <3>1. l \in [1 .. k -> {l[j] : j \in 1 .. k}]
        BY <2>2
      <3>2. QED
        BY <3>1, FunSeq
    <2>5. QED
      BY <2>1, <2>3, <2>4
  <1>8. ls \in Seq({ls[i] : i \in 1 .. n}) /\ Len(ls) = n
    <2>1. ls \in [1 .. n -> {ls[i] : i \in 1 .. n}]
      BY <1>4, <1>5
    <2>2. QED
      BY <2>1, FunSeq
  <1>9. whole(file) = ls
    <2>1. whole(file) = Kept(ls, {i \in DOMAIN ls : Len(ls[i]) = Len(file.columns)})
      BY <1>5 DEF whole, Keep
    <2>2. {i \in DOMAIN ls : Len(ls[i]) = Len(file.columns)} = 1 .. Len(ls)
      BY <1>1, <1>4, <1>6, <1>7, <1>8
    <2>3. QED
      BY <1>8, <2>1, <2>2, KeptAll
  <1>10. back = [i \in DOMAIN ls |-> [c \in ToSet(cols) |-> cellOf(file, ls[i], c)]]
    BY <1>3, <1>4, <1>9 DEF read_dat
  <1>11. \A i \in 1 .. n, c \in ToSet(cols) : back[i][c] = cell(T[i][c])
    <2> SUFFICES ASSUME NEW i \in 1 .. n, NEW c \in ToSet(cols) PROVE back[i][c] = cell(T[i][c])
      OBVIOUS
    <2>1. PICK p \in 1 .. k : cols[p] = c
      BY <1>2 DEF ToSet
    <2>2. (CHOOSE j \in DOMAIN ls[i] : cols[j] = c) = p
      <3>1. \A j \in DOMAIN ls[i] : cols[j] = c <=> j = p
        BY <1>2, <1>7, <2>1
      <3>2. p \in DOMAIN ls[i]
        BY <1>7
      <3>3. QED
        BY <3>1, <3>2
    <2>3. back[i][c] = ls[i][CHOOSE j \in DOMAIN ls[i] : cols[j] = c]
      BY <1>4, <1>6, <1>10 DEF cellOf
    <2>4. QED
      BY <1>7, <2>1, <2>2, <2>3
  <1>12. back \in Seq({back[i] : i \in 1 .. n}) /\ Len(back) = n
    <2>1. back \in [1 .. n -> {back[i] : i \in 1 .. n}]
      BY <1>6, <1>10
    <2>2. QED
      BY <2>1, FunSeq
  <1>13. QED
    BY <1>1, <1>11, <1>12

\* A cell gives back the number, or none, that was put into it.
LEMMA CellBack ==
  \A v \in Cells : fnan(cell(v)) = v
PROOF
  BY NamesAssumption DEF Cells, fnan, cell

\* The name of a system is its own cell.
LEMMA SystemCell ==
  \A s \in Systems : cell(s) = s
PROOF
  BY NamesAssumption DEF cell

-----------------------------------------------------------------------------
(***************************************************************************)
(* The curves.                                                             *)
(***************************************************************************)

LEMMA ListsFacts ==
  ASSUME NEW T, NEW ks \in Seq(T), NEW xs, NEW P \in SUBSET Nat, Lists(ks, xs, P)
  PROVE  /\ \A i \in 1 .. Len(ks) : \E p \in P : ks[i] = xs[p]
         /\ \A p \in P : \E i \in 1 .. Len(ks) : ks[i] = xs[p]
         /\ \A i, j \in 1 .. Len(ks) : i < j =>
              \E p, q \in P : p < q /\ ks[i] = xs[p] /\ ks[j] = xs[q]
         /\ ks = <<>> <=> P = {}
PROOF
  <1>1. PICK g : Enumerates(g, Len(ks), P) /\ \A i \in 1 .. Len(ks) : ks[i] = xs[g[i]]
    BY DEF Lists
  <1>2. /\ g \in [1 .. Len(ks) -> P]
        /\ \A i, j \in 1 .. Len(ks) : i < j => g[i] < g[j]
        /\ \A p \in P : \E i \in 1 .. Len(ks) : g[i] = p
    BY <1>1 DEF Enumerates
  <1>3. \A i \in 1 .. Len(ks) : \E p \in P : ks[i] = xs[p]
    BY <1>1, <1>2
  <1>4. \A p \in P : \E i \in 1 .. Len(ks) : ks[i] = xs[p]
    BY <1>1, <1>2
  <1>5. \A i, j \in 1 .. Len(ks) : i < j => \E p, q \in P : p < q /\ ks[i] = xs[p] /\ ks[j] = xs[q]
    <2> SUFFICES ASSUME NEW i \in 1 .. Len(ks), NEW j \in 1 .. Len(ks), i < j
                 PROVE  \E p, q \in P : p < q /\ ks[i] = xs[p] /\ ks[j] = xs[q]
      OBVIOUS
    <2>1. g[i] \in P /\ g[j] \in P /\ g[i] < g[j] /\ ks[i] = xs[g[i]] /\ ks[j] = xs[g[j]]
      BY <1>1, <1>2
    <2>2. QED
      BY <2>1, Zenon
  <1>6. ks = <<>> <=> P = {}
    <2>1. ks = <<>> => P = {}
      BY <1>2
    <2>2. P = {} => ~(1 \in 1 .. Len(ks))
      BY <1>2
    <2>3. Len(ks) \in Nat
      OBVIOUS
    <2>4. P = {} => Len(ks) = 0
      BY <2>2, <2>3
    <2>5. QED
      BY <2>1, <2>4
  <1>7. QED
    BY <1>3, <1>4, <1>5, <1>6

\* Counting some of the places that are counted.
LEMMA EnumeratesSome ==
  ASSUME NEW n \in Nat, NEW P \in SUBSET Nat, NEW g, Enumerates(g, n, P),
         NEW Q \in SUBSET (1 .. n), NEW k \in Nat, NEW h, Enumerates(h, k, Q)
  PROVE  Enumerates([a \in 1 .. k |-> g[h[a]]], k, {g[i] : i \in Q})
PROOF
  <1>1. g \in [1 .. n -> P] /\ \A i, j \in 1 .. n : i < j => g[i] < g[j]
    BY DEF Enumerates
  <1>2. /\ h \in [1 .. k -> Q] /\ \A i, j \in 1 .. k : i < j => h[i] < h[j]
        /\ \A p \in Q : \E i \in 1 .. k : h[i] = p
    BY DEF Enumerates
  <1> DEFINE c == [a \in 1 .. k |-> g[h[a]]]
             R == {g[i] : i \in Q}
  <1>3. \A a \in 1 .. k : h[a] \in Q /\ h[a] \in 1 .. n /\ c[a] = g[h[a]]
    BY <1>2
  <1>4. c \in [1 .. k -> R]
    BY <1>3
  <1>5. \A i, j \in 1 .. k : i < j => c[i] < c[j]
    BY <1>1, <1>2, <1>3
  <1>6. \A p \in R : \E i \in 1 .. k : c[i] = p
    BY <1>2, <1>3
  <1>7. QED
    BY <1>4, <1>5, <1>6 DEF Enumerates

Point(row, xc, yc) == [x |-> fnan(row[xc]), y |-> fnan(row[yc])]
Whole(p) == p.x # None /\ p.y # None

\* The curve of a system: its whole points, in the order of the table.
LEMMA SeriesLists ==
  ASSUME NEW V, NEW b \in Seq(V), NEW P \in SUBSET (1 .. Len(b)), NEW xc, NEW yc,
         NEW pts, \A i \in 1 .. Len(b) : pts[i] = Point(b[i], xc, yc),
         NEW C, C = series(Kept(b, P), xc, yc)
  PROVE  \E U, S : /\ C \in Seq(U) /\ Lists(C, pts, S)
                   /\ \A i : i \in S <=> i \in P /\ Whole(pts[i])
PROOF
  <1>1. PICK ks \in Seq(V) : ks = Kept(b, P)
    BY KeptLists
  <1>2. Lists(ks, b, P)
    BY <1>1, KeptLists
  <1>3. PICK n \in Nat : n = Len(ks)
    BY <1>1
  <1>4. PICK g : Enumerates(g, n, P) /\ \A i \in 1 .. n : ks[i] = b[g[i]]
    BY <1>2, <1>3 DEF Lists
  <1>5. g \in [1 .. n -> P] /\ \A p \in P : \E i \in 1 .. n : g[i] = p
    BY <1>4 DEF Enumerates
  <1>6. PICK ps : ps = [i \in 1 .. n |-> Point(ks[i], xc, yc)]
    OBVIOUS
  <1>7. \A i \in 1 .. n : ps[i] = pts[g[i]] /\ g[i] \in P
    BY <1>4, <1>5, <1>6
  <1> DEFINE U == {pts[i] : i \in P}
  <1>8. ps \in Seq(U) /\ Len(ps) = n
    <2>1. ps \in [1 .. n -> U]
      BY <1>6, <1>7
    <2> HIDE DEF U
    <2>2. QED
      BY <2>1, FunSeq
  <1>9. PICK Q \in SUBSET (1 .. n) : Q = {i \in 1 .. n : Whole(ps[i])}
    OBVIOUS
  <1>10. C = Kept(ps, Q)
    <2>1. DOMAIN ks = 1 .. n /\ DOMAIN ps = 1 .. n
      BY <1>1, <1>3, <1>6
    <2>2. ps = [i \in DOMAIN ks |-> [x |-> fnan(ks[i][xc]), y |-> fnan(ks[i][yc])]]
      BY <1>6, <2>1 DEF Point
    <2>3. C = Kept(ps, {i \in DOMAIN ps : ps[i].x # None /\ ps[i].y # None})
      BY <1>1, <2>2 DEF series, Keep
    <2>4. {i \in DOMAIN ps : ps[i].x # None /\ ps[i].y # None} = Q
      BY <1>9, <2>1 DEF Whole
    <2>5. QED
      BY <2>3, <2>4
  <1> HIDE DEF U
  <1>11. C \in Seq(U) /\ Lists(C, ps, Q)
    BY <1>8, <1>9, <1>10, KeptLists
  <1>12. PICK k \in Nat : k = Len(C)
    BY <1>11
  <1>13. PICK h : Enumerates(h, k, Q) /\ \A i \in 1 .. k : C[i] = ps[h[i]]
    BY <1>11, <1>12 DEF Lists
  <1>14. PICK c : c = [a \in 1 .. k |-> g[h[a]]]
    OBVIOUS
  <1>15. Enumerates(c, k, {g[i] : i \in Q})
    <2>1. P \in SUBSET Nat
      OBVIOUS
    <2>2. QED
      <3>1. Enumerates(g, n, P) /\ Enumerates(h, k, Q)
        BY <1>4, <1>13
      <3>2. Enumerates([a \in 1 .. k |-> g[h[a]]], k, {g[i] : i \in Q})
        BY <2>1, <3>1, EnumeratesSome
      <3>3. QED
        BY <1>14, <3>2
  <1>16. {g[i] : i \in Q} = {i \in P : Whole(pts[i])}
    <2>1. ASSUME NEW i \in Q PROVE g[i] \in {p \in P : Whole(pts[p])}
      <3>1. i \in 1 .. n /\ Whole(ps[i])
        BY <1>9
      <3>2. ps[i] = pts[g[i]] /\ g[i] \in P
        BY <1>7, <3>1
      <3>3. QED
        BY <3>1, <3>2
    <2>2. ASSUME NEW p \in P, Whole(pts[p]) PROVE \E i \in Q : g[i] = p
      <3>1. PICK i \in 1 .. n : g[i] = p
        BY <1>5
      <3>2. Whole(ps[i])
        BY <1>7, <2>2, <3>1
      <3>3. QED
        BY <1>9, <3>1, <3>2
    <2>3. QED
      BY <2>1, <2>2
  <1>17. \A a \in 1 .. k : C[a] = pts[c[a]]
    <2> SUFFICES ASSUME NEW a \in 1 .. k PROVE C[a] = pts[c[a]]
      OBVIOUS
    <2>1. h[a] \in Q
      BY <1>13 DEF Enumerates
    <2>2. h[a] \in 1 .. n /\ c[a] = g[h[a]]
      BY <1>9, <1>14, <2>1
    <2>3. QED
      BY <1>7, <1>13, <2>2
  <1>18. PICK S : S = {i \in P : Whole(pts[i])}
    OBVIOUS
  <1>19. Lists(C, pts, S)
    <2>1. Enumerates(c, k, S)
      BY <1>15, <1>16, <1>18, Zenon
    <2>2. QED
      BY <1>12, <1>17, <2>1 DEF Lists
  <1>20. \A i : i \in S <=> i \in P /\ Whole(pts[i])
    BY <1>18, Zenon
  <1>21. QED
    BY <1>11, <1>19, <1>20, Zenon

\* The places of a table where a system has a whole point.
Spots(T, s, xc, yc) ==
  {i \in 1 .. Len(T) : T[i]["system"] = s /\ T[i][xc] # None /\ T[i][yc] # None}
\* A curve that shows these points and no others, in the order of the table.
CurveOK(C, T, s, xc, yc) ==
  /\ Len(C) \in Nat \ {0} /\ DOMAIN C = 1 .. Len(C)
  /\ ToSet(C) = {[x |-> T[i][xc], y |-> T[i][yc]] : i \in Spots(T, s, xc, yc)}
  /\ \A a, b \in 1 .. Len(C) : a < b =>
       \E i, j \in Spots(T, s, xc, yc) : i < j /\ C[a].x = T[i][xc] /\ C[b].x = T[j][xc]
  /\ \E i \in Spots(T, s, xc, yc) :
       Last(C) = [x |-> T[i][xc], y |-> T[i][yc]] /\ \A j \in Spots(T, s, xc, yc) : j <= i

\* The last of what is listed is what stands at the last place.
LEMMA ListsLast ==
  ASSUME NEW V, NEW C \in Seq(V), C # <<>>, NEW pts, NEW S \in SUBSET Nat, Lists(C, pts, S)
  PROVE  \E i \in S : Last(C) = pts[i] /\ \A j \in S : j <= i
PROOF
  <1>1. PICK n \in Nat \ {0} : n = Len(C)
    OBVIOUS
  <1>2. PICK g : Enumerates(g, n, S) /\ \A i \in 1 .. n : C[i] = pts[g[i]]
    BY <1>1 DEF Lists
  <1>3. n \in 1 .. n /\ Last(C) = C[n]
    BY <1>1 DEF Last
  <1>4. g[n] \in S /\ Last(C) = pts[g[n]]
    BY <1>2, <1>3 DEF Enumerates
  <1>5. ASSUME NEW j \in S PROVE j <= g[n]
    <2>1. PICK a \in 1 .. n : g[a] = j
      BY <1>2 DEF Enumerates
    <2>2. a = n \/ g[a] < g[n]
      BY <1>2, <1>3 DEF Enumerates
    <2>3. j \in Nat /\ g[n] \in Nat
      BY <1>4
    <2>4. QED
      BY <2>1, <2>2, <2>3
  <1>6. QED
    BY <1>4, <1>5

\* The columns of an experiment are those of its kind of table.
LEMMA ColsFacts ==
  ASSUME NEW x \in Names
  PROVE  /\ "system" \in Cols(x) /\ Columns(FAMILIES[x].source) \in ColumnLists
         /\ FAMILIES[x].source = "epoch" => Cols(x) = ToSet(EPOCH_COLS)
         /\ FAMILIES[x].source = "mem" => Cols(x) = ToSet(MEM_COLS)
         /\ FAMILIES[x].source = "summary" => Cols(x) = ToSet(SUMMARY_COLS)
PROOF
  <1>1. Columns(FAMILIES[x].source) \in ColumnLists
    BY DEF Columns, ColumnLists
  <1>2. \A cols \in ColumnLists : "system" \in ToSet(cols)
    BY ColumnFacts DEF ColumnLists
  <1>3. QED
    BY <1>1, <1>2 DEF Cols, Columns

\* A table that was read back, with the systems and the values of the one that was written.
LEMMA TableBack ==
  ASSUME NEW x \in Names, NEW T \in Seq(TableRow(x)), NEW b, b = read_dat(File(x, T))
  PROVE  /\ (\E V : b \in Seq(V)) /\ Len(b) = Len(T)
         /\ \A i \in 1 .. Len(T) : b[i]["system"] = T[i]["system"] /\ T[i]["system"] \in Systems
         /\ \A i \in 1 .. Len(T), c \in Cols(x) : c # "system" => fnan(b[i][c]) = T[i][c] /\ T[i][c] \in Cells
PROOF
  <1>1. PICK cols \in ColumnLists : cols = Columns(FAMILIES[x].source)
    BY ColsFacts
  <1>2. Cols(x) = ToSet(cols) /\ "system" \in ToSet(cols)
    BY <1>1, ColsFacts DEF Cols
  <1>3. b = read_dat(write_dat(cols, T))
    BY <1>1 DEF File
  <1>4. /\ b \in Seq({b[i] : i \in 1 .. Len(T)}) /\ Len(b) = Len(T)
        /\ \A i \in 1 .. Len(T), c \in ToSet(cols) : b[i][c] = cell(T[i][c])
    BY <1>3, ReadBack
  <1>5. \A i \in 1 .. Len(T) : T[i] \in TableRow(x)
    OBVIOUS
  <1>6. \A i \in 1 .. Len(T) : /\ T[i]["system"] \in Systems
                               /\ \A c \in Cols(x) : c # "system" => T[i][c] \in Cells
    BY <1>5 DEF TableRow
  <1>7. \A i \in 1 .. Len(T) : b[i]["system"] = T[i]["system"]
    BY <1>2, <1>4, <1>6, SystemCell
  <1>8. ASSUME NEW i \in 1 .. Len(T), NEW c \in Cols(x), c # "system"
        PROVE  fnan(b[i][c]) = T[i][c]
    <2>1. T[i][c] \in Cells /\ b[i][c] = cell(T[i][c])
      BY <1>2, <1>4, <1>6, <1>8
    <2>2. QED
      BY <2>1, CellBack
  <1>9. (\E V : b \in Seq(V)) /\ Len(b) = Len(T)
    BY <1>4, Zenon
  <1>10. QED
    BY <1>6, <1>7, <1>8, <1>9

\* The rows of a table, by system.
LEMMA BySystem ==
  ASSUME NEW V, NEW b \in Seq(V), NEW by, by = rows_by_system(b)
  PROVE  /\ \A s : s \in DOMAIN by <=> \E i \in 1 .. Len(b) : b[i]["system"] = s
         /\ \A s \in DOMAIN by : \E A \in SUBSET (1 .. Len(b)) :
              by[s] = Kept(b, A) /\ \A i \in 1 .. Len(b) : i \in A <=> b[i]["system"] = s
PROOF
  <1>1. DOMAIN b = 1 .. Len(b)
    OBVIOUS
  <1>2. by = [s \in {b[i]["system"] : i \in DOMAIN b} |-> Kept(b, {i \in DOMAIN b : b[i]["system"] = s})]
    BY DEF rows_by_system, Keep
  <1>3. \A s : s \in DOMAIN by <=> \E i \in 1 .. Len(b) : b[i]["system"] = s
    BY <1>1, <1>2
  <1>4. ASSUME NEW s \in DOMAIN by
        PROVE  \E A \in SUBSET (1 .. Len(b)) :
                 by[s] = Kept(b, A) /\ \A i \in 1 .. Len(b) : i \in A <=> b[i]["system"] = s
    <2>1. PICK A \in SUBSET (1 .. Len(b)) : A = {i \in 1 .. Len(b) : b[i]["system"] = s}
      OBVIOUS
    <2>2. by[s] = Kept(b, {i \in DOMAIN b : b[i]["system"] = s})
      BY <1>2
    <2>3. by[s] = Kept(b, A)
      BY <1>1, <2>1, <2>2, Zenon
    <2>4. \A i \in 1 .. Len(b) : i \in A <=> b[i]["system"] = s
      BY <2>1, Zenon
    <2>5. QED
      BY <2>3, <2>4
  <1>5. QED
    BY <1>3, <1>4

\* Every system with a whole point has a curve.
LEMMA PlotSeries ==
  ASSUME NEW x \in Names, NEW T \in Seq(TableRow(x)), NEW xc \in Cols(x), xc # "system",
         NEW yc \in Cols(x), yc # "system", NEW P, P = plot_series(read_dat(File(x, T)), xc, yc)
  PROVE  /\ \A s : s \in DOMAIN P <=> s \in Systems /\ Spots(T, s, xc, yc) # {}
         /\ \A s \in DOMAIN P : CurveOK(P[s], T, s, xc, yc)
PROOF
  <1>1. PICK b : b = read_dat(File(x, T))
    OBVIOUS
  <1>2. /\ (\E V : b \in Seq(V)) /\ Len(b) = Len(T)
        /\ \A i \in 1 .. Len(T) : b[i]["system"] = T[i]["system"] /\ T[i]["system"] \in Systems
        /\ \A i \in 1 .. Len(T), c \in Cols(x) : c # "system" => fnan(b[i][c]) = T[i][c] /\ T[i][c] \in Cells
    BY <1>1, TableBack
  <1>3. PICK V : b \in Seq(V)
    BY <1>2
  <1>5. Len(b) = Len(T) /\ Len(b) \in Nat
    BY <1>2, <1>3
  <1>6. \A i \in 1 .. Len(T) : fnan(b[i][xc]) = T[i][xc] /\ fnan(b[i][yc]) = T[i][yc]
    BY <1>2
  <1>7. PICK by : by = rows_by_system(b)
    OBVIOUS
  <1>8. /\ \A s : s \in DOMAIN by <=> \E i \in 1 .. Len(b) : b[i]["system"] = s
        /\ \A s \in DOMAIN by : \E A \in SUBSET (1 .. Len(b)) :
              by[s] = Kept(b, A) /\ \A i \in 1 .. Len(b) : i \in A <=> b[i]["system"] = s
    BY <1>3, <1>7, BySystem
  <1>9. /\ \A s \in DOMAIN by : \E i \in 1 .. Len(T) : T[i]["system"] = s
        /\ \A i \in 1 .. Len(T) : T[i]["system"] \in DOMAIN by
    BY <1>2, <1>5, <1>8
  <1>10. PICK cs : cs = [s \in DOMAIN by |-> series(by[s], xc, yc)]
    OBVIOUS
  <1>11. P = [s \in {s \in DOMAIN by : cs[s] # <<>>} |-> cs[s]]
    <2>1. P = Drawn([s \in DOMAIN by |-> series(by[s], xc, yc)])
      BY <1>1, <1>7, Zenon DEF plot_series
    <2>2. P = Drawn(cs)
      BY <1>10, <2>1, Zenon
    <2>3. DOMAIN cs = DOMAIN by
      BY <1>10
    <2>4. P = [s \in {s \in DOMAIN cs : cs[s] # <<>>} |-> cs[s]]
      BY <2>2, Zenon DEF Drawn
    <2>5. QED
      BY <2>3, <2>4, Zenon
  <1>12. PICK pts : \A i \in 1 .. Len(b) : pts[i] = Point(b[i], xc, yc)
    <2>1. \A i \in 1 .. Len(b) : [k \in 1 .. Len(b) |-> Point(b[k], xc, yc)][i] = Point(b[i], xc, yc)
      OBVIOUS
    <2>2. QED
      BY <2>1, Zenon
  <1>13. \A i \in 1 .. Len(T) : pts[i] = [x |-> T[i][xc], y |-> T[i][yc]]
    BY <1>5, <1>6, <1>12 DEF Point
  <1>18. ASSUME NEW i \in 1 .. Len(T) PROVE pts[i].x = T[i][xc] /\ pts[i].y = T[i][yc]
    <2>1. PICK u, v : u = T[i][xc] /\ v = T[i][yc]
      OBVIOUS
    <2>2. pts[i] = [x |-> u, y |-> v]
      BY <1>13, <2>1, Zenon
    <2>3. pts[i].x = u /\ pts[i].y = v
      BY <2>2
    <2>4. QED
      BY <2>1, <2>3, Zenon
  <1>14. ASSUME NEW s \in DOMAIN by
         PROVE  /\ cs[s] # <<>> => CurveOK(cs[s], T, s, xc, yc)
                /\ cs[s] # <<>> <=> Spots(T, s, xc, yc) # {}
    <2>1. PICK A \in SUBSET (1 .. Len(b)) :
            by[s] = Kept(b, A) /\ \A i \in 1 .. Len(b) : i \in A <=> b[i]["system"] = s
      BY <1>8
    <2>2. PICK C : C = cs[s]
      OBVIOUS
    <2>3. C = series(Kept(b, A), xc, yc)
      <3>1. cs[s] = series(by[s], xc, yc)
        BY <1>10
      <3>2. QED
        BY <2>1, <2>2, <3>1, Zenon
    <2>4. \E U, S : /\ C \in Seq(U) /\ Lists(C, pts, S)
                    /\ \A i : i \in S <=> i \in A /\ Whole(pts[i])
      BY <1>3, <1>12, <2>3, SeriesLists
    <2>5. PICK U, W : /\ C \in Seq(U) /\ Lists(C, pts, W)
                      /\ \A i : i \in W <=> i \in A /\ Whole(pts[i])
      BY <2>4
    <2>7. PICK S : S = Spots(T, s, xc, yc)
      OBVIOUS
    <2>8. \A i : i \in S <=> i \in 1 .. Len(T) /\ T[i]["system"] = s /\ T[i][xc] # None /\ T[i][yc] # None
      BY <2>7 DEF Spots
    <2>9. \A i : i \in A <=> i \in 1 .. Len(T) /\ T[i]["system"] = s
      BY <1>2, <1>5, <2>1
    <2>10. \A i \in 1 .. Len(T) : Whole(pts[i]) <=> T[i][xc] # None /\ T[i][yc] # None
      BY <1>18, Zenon DEF Whole
    <2>11. W = S
      BY <2>5, <2>8, <2>9, <2>10, Zenon
    <2>12. S \in SUBSET Nat /\ S \in SUBSET (1 .. Len(T))
      BY <2>8
    <2>13. Lists(C, pts, S)
      BY <2>5, <2>11, Zenon
    <2>14. /\ \A i, j \in 1 .. Len(C) : i < j => \E p, q \in S : p < q /\ C[i] = pts[p] /\ C[j] = pts[q]
           /\ C = <<>> <=> S = {}
           /\ \A i \in 1 .. Len(C) : \E p \in S : C[i] = pts[p]
           /\ \A p \in S : \E i \in 1 .. Len(C) : C[i] = pts[p]
      BY <2>5, <2>12, <2>13, ListsFacts
    <2>15. ToSet(C) = {[x |-> T[i][xc], y |-> T[i][yc]] : i \in S}
      <3>1. \A i \in S : pts[i] = [x |-> T[i][xc], y |-> T[i][yc]]
        BY <1>13, <2>12
      <3>2. ToSet(C) = {C[i] : i \in 1 .. Len(C)}
        BY <2>5 DEF ToSet
      <3>3. \A y : y \in {C[i] : i \in 1 .. Len(C)} <=> y \in {[x |-> T[i][xc], y |-> T[i][yc]] : i \in S}
        <4>1. PICK Y : Y = {[x |-> T[i][xc], y |-> T[i][yc]] : i \in S}
          OBVIOUS
        <4>2. \A i \in S : pts[i] \in Y
          BY <3>1, <4>1, Zenon
        <4>3. ASSUME NEW y \in Y PROVE \E i \in S : y = pts[i]
          BY <3>1, <4>1, Zenon
        <4>4. \A i \in 1 .. Len(C) : C[i] \in Y
          BY <2>14, <4>2, Zenon
        <4>5. ASSUME NEW y \in Y PROVE \E i \in 1 .. Len(C) : y = C[i]
          <5>1. PICK p \in S : y = pts[p]
            BY <4>3
          <5>2. PICK i \in 1 .. Len(C) : C[i] = pts[p]
            BY <2>14
          <5>3. QED
            BY <5>1, <5>2
        <4>6. QED
          BY <4>1, <4>4, <4>5, Zenon
      <3>4. QED
        BY <3>2, <3>3, Zenon
    <2>16. \A a, c \in 1 .. Len(C) : a < c => \E i, j \in S : i < j /\ C[a].x = T[i][xc] /\ C[c].x = T[j][xc]
      <3> SUFFICES ASSUME NEW a \in 1 .. Len(C), NEW c \in 1 .. Len(C), a < c
                   PROVE  \E i, j \in S : i < j /\ C[a].x = T[i][xc] /\ C[c].x = T[j][xc]
        OBVIOUS
      <3>1. PICK i \in S, j \in S : i < j /\ C[a] = pts[i] /\ C[c] = pts[j]
        BY <2>14
      <3>2. i \in 1 .. Len(T) /\ j \in 1 .. Len(T)
        BY <2>12
      <3>3. C[a].x = T[i][xc] /\ C[c].x = T[j][xc]
        BY <1>18, <3>1, <3>2, Zenon
      <3>4. QED
        BY <3>1, <3>3
    <2>17. C # <<>> => Len(C) \in Nat \ {0} /\ DOMAIN C = 1 .. Len(C)
      BY <2>5
    <2>20. ASSUME C # <<>>
           PROVE  \E i \in S : Last(C) = [x |-> T[i][xc], y |-> T[i][yc]] /\ \A j \in S : j <= i
      <3>1. PICK i \in S : Last(C) = pts[i] /\ \A j \in S : j <= i
        BY <2>5, <2>12, <2>13, <2>20, ListsLast
      <3>2. pts[i] = [x |-> T[i][xc], y |-> T[i][yc]]
        BY <1>13, <2>12
      <3>3. QED
        BY <3>1, <3>2, Zenon
    <2>18. C # <<>> => CurveOK(C, T, s, xc, yc)
      BY <2>7, <2>15, <2>16, <2>17, <2>20, Zenon DEF CurveOK
    <2>19. QED
      BY <2>2, <2>7, <2>14, <2>18, Zenon
  <1>15. DOMAIN P = {s \in Systems : Spots(T, s, xc, yc) # {}}
    <2>1. DOMAIN P = {s \in DOMAIN by : cs[s] # <<>>}
      BY <1>11
    <2>2. \A s \in DOMAIN by : s \in Systems
      BY <1>2, <1>9
    <2>3. \A s : Spots(T, s, xc, yc) # {} => s \in DOMAIN by
      BY <1>9 DEF Spots
    <2>4. QED
      BY <1>14, <2>1, <2>2, <2>3, Zenon
  <1>16. \A s \in DOMAIN P : CurveOK(P[s], T, s, xc, yc)
    <2>1. \A s \in DOMAIN P : s \in DOMAIN by /\ cs[s] # <<>> /\ P[s] = cs[s]
      BY <1>11
    <2>2. QED
      BY <1>14, <2>1, Zenon
  <1>17. \A s : s \in DOMAIN P <=> s \in Systems /\ Spots(T, s, xc, yc) # {}
    BY <1>15
  <1>19. QED
    BY <1>16, <1>17

\* A family, field by field.
LEMMA FamilyFields ==
  ASSUME NEW source, NEW plot, NEW x, NEW y, NEW below, NEW p, p = Family(source, plot, x, y, below)
  PROVE  p.source = source /\ p.plot = plot /\ p.x = x /\ p.y = y /\ p.below = below
PROOF
  BY DEF Family

\* What the families that draw curves have in common.
LEMMA CurveFamilies ==
  ASSUME NEW x \in Names
  PROVE  LET p == FAMILIES[x]
         IN /\ p.source \in {"epoch", "mem", "summary"} /\ p.plot \in {"series", "dual", "pareto", "bar"}
            /\ p.plot = "bar" <=> p.source = "summary"
            /\ p.plot # "bar" => /\ p.x \in Cols(x) /\ p.x # "system" /\ p.y \in Cols(x) /\ p.y # "system"
                                 /\ Axis(x) \in Cols(x) /\ Axis(x) # "system"
            /\ p.plot \in {"series", "dual"} => p.x = Axis(x)
            /\ p.plot = "dual" => p.below \in Cols(x) /\ p.below # "system" /\ p.source = "epoch"
            /\ p.plot = "pareto" => p.source = "epoch"
            /\ p.source = "mem" => p.plot = "series" /\ p.y = "rss_mb"
            /\ p.plot = "bar" => p.y \in {"build_time_s", "mean_ins_ops_s"}
            /\ p.plot # "bar" => p.y # "build_time_s"
PROOF
  <1> DEFINE G(p) ==
            /\ p.source \in {"epoch", "mem", "summary"} /\ p.plot \in {"series", "dual", "pareto", "bar"}
            /\ p.plot = "bar" <=> p.source = "summary"
            /\ p.plot # "bar" => /\ p.x \in Cols(x) /\ p.x # "system" /\ p.y \in Cols(x) /\ p.y # "system"
                                 /\ Axis(x) \in Cols(x) /\ Axis(x) # "system"
            /\ p.plot \in {"series", "dual"} => p.x = Axis(x)
            /\ p.plot = "dual" => p.below \in Cols(x) /\ p.below # "system" /\ p.source = "epoch"
            /\ p.plot = "pareto" => p.source = "epoch"
            /\ p.source = "mem" => p.plot = "series" /\ p.y = "rss_mb"
            /\ p.plot = "bar" => p.y \in {"build_time_s", "mean_ins_ops_s"}
            /\ p.plot # "bar" => p.y # "build_time_s"
  <1>1. PICK p : p = FAMILIES[x]
    OBVIOUS
  <1>2. /\ p.source = "mem" => Axis(x) = "epoch_frac"
        /\ p.source = "epoch" => Axis(x) = "epoch"
    BY <1>1 DEF Axis
  <1>3. /\ p.source = "epoch" => Cols(x) =
             {"epoch", "system", "recall10", "lat_mean_ms", "lat_p50_ms", "lat_p99_ms", "ins_ops_s"}
        /\ p.source = "mem" => Cols(x) = {"epoch_frac", "system", "rss_mb", "t_sec", "epoch"}
    BY <1>1, ColsFacts, ColumnFacts
  <1>4. G(p)
    <2>1. CASE x = "recall_epoch"
      <3>1. PICK z : p = Family("epoch", "series", "epoch", "recall10", z)
        BY <1>1, <2>1, FamilyFacts, Zenon
      <3>2. p.source = "epoch" /\ p.plot = "series" /\ p.x = "epoch" /\ p.y = "recall10"
        BY <3>1, FamilyFields
      <3>3. QED
        BY <1>2, <1>3, <3>2
    <2>2. CASE x = "latency_epoch"
      <3>1. p = Family("epoch", "dual", "epoch", "lat_p99_ms", "lat_p50_ms")
        BY <1>1, <2>2, FamilyFacts, Zenon
      <3>2. p.source = "epoch" /\ p.plot = "dual" /\ p.x = "epoch" /\ p.y = "lat_p99_ms" /\ p.below = "lat_p50_ms"
        BY <3>1, FamilyFields
      <3>3. QED
        BY <1>2, <1>3, <3>2
    <2>3. CASE x = "insert_tput_epoch"
      <3>1. PICK z : p = Family("epoch", "series", "epoch", "ins_ops_s", z)
        BY <1>1, <2>3, FamilyFacts, Zenon
      <3>2. p.source = "epoch" /\ p.plot = "series" /\ p.x = "epoch" /\ p.y = "ins_ops_s"
        BY <3>1, FamilyFields
      <3>3. QED
        BY <1>2, <1>3, <3>2
    <2>4. CASE x = "mem_time"
      <3>1. PICK z : p = Family("mem", "series", "epoch_frac", "rss_mb", z)
        BY <1>1, <2>4, FamilyFacts, Zenon
      <3>2. p.source = "mem" /\ p.plot = "series" /\ p.x = "epoch_frac" /\ p.y = "rss_mb"
        BY <3>1, FamilyFields
      <3>3. QED
        BY <1>2, <1>3, <3>2
    <2>5. CASE x = "recall_latency_pareto"
      <3>1. PICK z : p = Family("epoch", "pareto", "lat_mean_ms", "recall10", z)
        BY <1>1, <2>5, FamilyFacts, Zenon
      <3>2. p.source = "epoch" /\ p.plot = "pareto" /\ p.x = "lat_mean_ms" /\ p.y = "recall10"
        BY <3>1, FamilyFields
      <3>3. QED
        BY <1>2, <1>3, <3>2
    <2>6. CASE x = "build_time"
      <3>1. PICK z : p = Family("summary", "bar", "system", "build_time_s", z)
        BY <1>1, <2>6, FamilyFacts, Zenon
      <3>2. p.source = "summary" /\ p.plot = "bar" /\ p.x = "system" /\ p.y = "build_time_s"
        BY <3>1, FamilyFields
      <3>3. QED
        BY <1>2, <1>3, <3>2
    <2>7. CASE x = "insert_tput"
      <3>1. PICK z : p = Family("summary", "bar", "system", "mean_ins_ops_s", z)
        BY <1>1, <2>7, FamilyFacts, Zenon
      <3>2. p.source = "summary" /\ p.plot = "bar" /\ p.x = "system" /\ p.y = "mean_ins_ops_s"
        BY <3>1, FamilyFields
      <3>3. QED
        BY <1>2, <1>3, <3>2
    <2>8. QED
      BY <2>1, <2>2, <2>3, <2>4, <2>5, <2>6, <2>7 DEF Names
  <1>5. QED
    BY <1>1, <1>4, Zenon

\* A curve over the axis of its family goes forward.
LEMMA SeriesForward ==
  ASSUME NEW x \in Names, NEW T \in Seq(TableRow(x)), Ascending(x, T), FAMILIES[x].source # "summary",
         NEW yc \in Cols(x), yc # "system", NEW P, P = plot_series(read_dat(File(x, T)), Axis(x), yc)
  PROVE  Forward(P)
PROOF
  <1>1. PICK xc \in Cols(x) : xc = Axis(x) /\ xc # "system"
    BY CurveFamilies
  <1>2. \A s \in DOMAIN P : CurveOK(P[s], T, s, xc, yc)
    BY <1>1, PlotSeries
  <1>3. \A i, j \in 1 .. Len(T) :
          i < j /\ T[i]["system"] = T[j]["system"] =>
            T[i][xc] \in Nat /\ T[j][xc] \in Nat /\ T[i][xc] < T[j][xc]
    BY <1>1 DEF Ascending
  <1>4. ASSUME NEW s \in DOMAIN P, NEW k \in 1 .. Len(P[s]) - 1 PROVE P[s][k].x < P[s][k + 1].x
    <2>1. PICK C : C = P[s]
      OBVIOUS
    <2>2. /\ Len(C) \in Nat
          /\ \A a, b \in 1 .. Len(C) : a < b =>
               \E i, j \in Spots(T, s, xc, yc) : i < j /\ C[a].x = T[i][xc] /\ C[b].x = T[j][xc]
      BY <1>2, <2>1 DEF CurveOK
    <2>3. k \in 1 .. Len(C) /\ k + 1 \in 1 .. Len(C) /\ k < k + 1
      BY <1>4, <2>1, <2>2
    <2>4. PICK i, j \in Spots(T, s, xc, yc) : i < j /\ C[k].x = T[i][xc] /\ C[k + 1].x = T[j][xc]
      BY <2>2, <2>3
    <2>5. i \in 1 .. Len(T) /\ j \in 1 .. Len(T) /\ T[i]["system"] = T[j]["system"]
      BY DEF Spots
    <2>6. T[i][xc] < T[j][xc]
      BY <1>3, <2>4, <2>5
    <2>7. QED
      BY <2>1, <2>4, <2>6
  <1>5. QED
    BY <1>4 DEF Forward

\* What is drawn of a table, by the kind of its figure.
LEMMA SeriesDrawn ==
  ASSUME NEW x, NEW T, FAMILIES[x].plot = "series"
  PROVE  Picture(x, T) = plot_series(read_dat(File(x, T)), FAMILIES[x].x, FAMILIES[x].y)
PROOF
  BY Zenon DEF Picture, Draw

\* Two panels are two series over one axis.
LEMMA DualDrawn ==
  ASSUME NEW x, NEW T, FAMILIES[x].plot = "dual"
  PROVE  Picture(x, T) = <<plot_series(read_dat(File(x, T)), FAMILIES[x].x, FAMILIES[x].y),
                           plot_series(read_dat(File(x, T)), FAMILIES[x].x, FAMILIES[x].below)>>
PROOF
  BY Zenon DEF Picture, Draw, plot_dual

\* A pareto figure has the last point of each series.
LEMMA ParetoDrawn ==
  ASSUME NEW x, NEW T, FAMILIES[x].plot = "pareto"
  PROVE  Picture(x, T) = plot_pareto(read_dat(File(x, T)), FAMILIES[x].x, FAMILIES[x].y)
PROOF
  BY Zenon DEF Picture, Draw

\* A bar figure has one bar for each system.
LEMMA BarDrawn ==
  ASSUME NEW x, NEW T, FAMILIES[x].plot = "bar"
  PROVE  Picture(x, T) = plot_bar(read_dat(File(x, T)), FAMILIES[x].y)
PROOF
  BY Zenon DEF Picture, Draw

Onward(x, pic) ==
  /\ FAMILIES[x].plot = "series" => Forward(pic)
  /\ FAMILIES[x].plot = "dual" => Forward(pic[1]) /\ Forward(pic[2])

\* Whatever table a figure is drawn from, its curves go forward.
LEMMA PictureForward ==
  ASSUME NEW x \in Names, NEW T \in Seq(TableRow(x)), Ascending(x, T)
  PROVE  Onward(x, Picture(x, T))
PROOF
  <1>1. PICK p, b, xc : p = FAMILIES[x] /\ b = read_dat(File(x, T)) /\ xc = p.x
    OBVIOUS
  <1>2. ASSUME p.plot = "series" PROVE Forward(Picture(x, T))
    <2>1. p.source # "summary" /\ xc = Axis(x) /\ p.y \in Cols(x) /\ p.y # "system"
      BY <1>1, <1>2, CurveFamilies
    <2>2. PICK C : C = plot_series(b, xc, p.y)
      OBVIOUS
    <2>3. Picture(x, T) = C
      BY <1>1, <1>2, <2>2, SeriesDrawn
    <2>4. Forward(C)
      BY <1>1, <2>1, <2>2, SeriesForward
    <2>5. QED
      BY <2>3, <2>4
  <1>3. ASSUME p.plot = "dual" PROVE Forward(Picture(x, T)[1]) /\ Forward(Picture(x, T)[2])
    <2>1. /\ p.source # "summary" /\ xc = Axis(x) /\ p.y \in Cols(x) /\ p.y # "system"
          /\ p.below \in Cols(x) /\ p.below # "system"
      BY <1>1, <1>3, CurveFamilies
    <2>2. PICK C, D : C = plot_series(b, xc, p.y) /\ D = plot_series(b, xc, p.below)
      OBVIOUS
    <2>3. Picture(x, T) = <<C, D>>
      BY <1>1, <1>3, <2>2, DualDrawn
    <2>4. Forward(C) /\ Forward(D)
      BY <1>1, <2>1, <2>2, SeriesForward
    <2>5. QED
      BY <2>3, <2>4
  <1>4. QED
    BY <1>1, <1>2, <1>3 DEF Onward

-----------------------------------------------------------------------------
(***************************************************************************)
(* The axis of the memory curves.                                          *)
(***************************************************************************)

\* Rounding down.
LEMMA Quotient ==
  ASSUME NEW X \in Nat, NEW n \in Nat \ {0}
  PROVE  /\ X \div n \in Nat /\ n * (X \div n) <= X /\ X < n * (X \div n) + n
PROOF
  OBVIOUS

\* A dividend that is larger by the divisor has a larger quotient.
LEMMA QuotientGrows ==
  ASSUME NEW y \in Nat, NEW z \in Nat, NEW n \in Nat \ {0}, y + n <= z
  PROVE  y \div n < z \div n
PROOF
  <1>3. PICK p, q \in Nat : p = y \div n /\ q = z \div n
    BY Quotient
  <1>4. n * p <= y /\ z < n * q + n
    BY <1>3, Quotient
  <1>5. n * p < n * q
    <2>1. n * p \in Nat /\ n * q \in Nat
      OBVIOUS
    <2>2. QED
      BY <1>4, <2>1
  <1>6. p < q
    <2>1. SUFFICES ASSUME q <= p PROVE FALSE
      OBVIOUS
    <2>2. n * q <= n * p
      <3>1. p - q \in Nat /\ p = q + (p - q)
        BY <2>1
      <3>2. PICK d \in Nat : p = q + d
        BY <3>1
      <3>3. n * p = n * q + n * d /\ n * d \in Nat
        BY <3>2
      <3>4. QED
        BY <3>3
    <2>3. QED
      BY <1>5, <2>2
  <1>7. QED
    BY <1>3, <1>6

\* A quotient is smaller than what the divisor times which is larger than the dividend.
LEMMA QuotientFits ==
  ASSUME NEW y \in Nat, NEW n \in Nat \ {0}, NEW U \in Nat, y < n * U
  PROVE  y \div n \in 0 .. U - 1
PROOF
  <1>2. PICK p \in Nat : p = y \div n
    BY Quotient
  <1>3. n * p <= y
    BY <1>2, Quotient
  <1>4. p < U
    <2>1. SUFFICES ASSUME U <= p PROVE FALSE
      OBVIOUS
    <2>2. PICK d \in Nat : p = U + d
      <3>1. p - U \in Nat /\ p = U + (p - U)
        BY <2>1
      <3>2. QED
        BY <3>1
    <2>3. n * p = n * U + n * d /\ n * d \in Nat /\ n * U \in Nat
      BY <2>2
    <2>4. QED
      BY <1>3, <2>3
  <1>5. QED
    BY <1>2, <1>4

\* The place of a sample, rounded, stays inside its epoch.
LEMMA NearestFits ==
  ASSUME NEW U \in Nat, NEW a \in Nat, NEW n \in Nat, a < n, n <= U
  PROVE  Nearest(U * a, n) \in 0 .. U - 1
PROOF
  <1>1. PICK c \in Nat : n = a + 1 + c
    <2>1. n - a - 1 \in Nat /\ n = a + 1 + (n - a - 1)
      OBVIOUS
    <2>2. QED
      BY <2>1
  <1>2. PICK x, w \in Nat : x = U * a /\ w = U * c
    OBVIOUS
  <1>3. U * n = x + U + w
    BY <1>1, <1>2
  <1>4. (2 * n) * U = 2 * (U * n)
    OBVIOUS
  <1>5. 2 * x + n < (2 * n) * U
    BY <1>3, <1>4
  <1>6. (2 * x + n) \div (2 * n) \in 0 .. U - 1
    <2>1. 2 * n \in Nat \ {0} /\ 2 * x + n \in Nat
      OBVIOUS
    <2>2. QED
      BY <1>5, <2>1, QuotientFits
  <1>7. QED
    BY <1>2, <1>6, Zenon DEF Nearest

\* The place of a later sample of an epoch is further along the axis, also when both are rounded.
LEMMA NearestGrows ==
  ASSUME NEW U \in Nat, NEW a \in Nat, NEW b \in Nat, a < b, NEW n \in Nat \ {0}, n <= U
  PROVE  Nearest(U * a, n) < Nearest(U * b, n)
PROOF
  <1>1. PICK d \in Nat : b = a + 1 + d
    <2>1. b - a - 1 \in Nat /\ b = a + 1 + (b - a - 1)
      OBVIOUS
    <2>2. QED
      BY <2>1
  <1>2. PICK x, w \in Nat : x = U * a /\ w = U * d
    OBVIOUS
  <1>3. PICK z \in Nat : z = U * b /\ z = x + U + w
    <2>1. U * b = x + U + w
      BY <1>1, <1>2
    <2>2. QED
      BY <2>1
  <1>4. (2 * x + n) + 2 * n <= 2 * z + n
    BY <1>3
  <1>5. (2 * x + n) \div (2 * n) < (2 * z + n) \div (2 * n)
    <2>1. 2 * n \in Nat \ {0} /\ 2 * x + n \in Nat /\ 2 * z + n \in Nat
      OBVIOUS
    <2>2. QED
      BY <1>4, <2>1, QuotientGrows
  <1>6. QED
    BY <1>2, <1>3, <1>5, Zenon DEF Nearest

\* Samples of the stream whose epochs never go back, few enough for the axis.
Streaming(k) ==
  /\ k \in Seq(MemSample) /\ Len(k) <= Unit
  /\ \A i \in 1 .. Len(k) : k[i].epoch \in Nat
  /\ \A i, j \in 1 .. Len(k) : i <= j => k[i].epoch <= k[j].epoch

\* The samples of an epoch lie between its first and its last.
LEMMA Runs ==
  ASSUME NEW k, Streaming(k), NEW i \in 1 .. Len(k)
  PROVE  \E lo, hi \in 1 .. Len(k) :
           /\ lo <= i /\ i <= hi
           /\ \A j \in 1 .. Len(k) : k[j].epoch = k[i].epoch <=> lo <= j /\ j <= hi
PROOF
  <1>1. PICK n \in Nat : n = Len(k)
    BY DEF Streaming
  <1>2. PICK e \in Nat : e = k[i].epoch
    BY DEF Streaming
  <1>3. PICK L \in SUBSET Nat : L = {j \in 1 .. n : k[j].epoch = e}
    <2>1. PICK L : L = {j \in 1 .. n : k[j].epoch = e}
      OBVIOUS
    <2>2. L \in SUBSET Nat
      BY <2>1
    <2>3. QED
      BY <2>1, <2>2, Zenon
  <1>4. PICK H \in SUBSET Nat : H = {d \in 0 .. n - 1 : k[n - d].epoch = e}
    <2>1. PICK H : H = {d \in 0 .. n - 1 : k[n - d].epoch = e}
      OBVIOUS
    <2>2. H \in SUBSET Nat
      BY <2>1
    <2>3. QED
      BY <2>1, <2>2, Zenon
  <1>5. i \in L /\ n - i \in H
    <2>1. i \in L
      BY <1>1, <1>2, <1>3
    <2>2. n - i \in 0 .. n - 1 /\ n - (n - i) = i
      BY <1>1
    <2>3. QED
      BY <1>2, <1>4, <2>1, <2>2
  <1>6. PICK lo \in L : \A j \in L : lo <= j
    BY <1>5, LeastNatural
  <1>7. PICK d \in H : \A c \in H : d <= c
    BY <1>5, LeastNatural
  <1>8. PICK hi \in 1 .. n : hi = n - d
    BY <1>4, <1>7
  <1>9. lo \in 1 .. n /\ k[lo].epoch = e /\ k[hi].epoch = e /\ lo <= i
    BY <1>3, <1>4, <1>5, <1>6, <1>7, <1>8
  <1>10. \A j \in 1 .. n : k[j].epoch = e => j <= hi
    <2> SUFFICES ASSUME NEW j \in 1 .. n, k[j].epoch = e PROVE j <= hi
      OBVIOUS
    <2>1. n - j \in 0 .. n - 1 /\ n - (n - j) = j
      OBVIOUS
    <2>2. n - j \in H
      BY <1>4, <2>1
    <2>3. d <= n - j
      BY <1>7, <2>2
    <2>4. QED
      BY <1>4, <1>8, <2>3
  <1>11. \A j \in 1 .. n : k[j].epoch = e <=> lo <= j /\ j <= hi
    <2>1. ASSUME NEW j \in 1 .. n, lo <= j, j <= hi PROVE k[j].epoch = e
      <3>1. k[lo].epoch <= k[j].epoch /\ k[j].epoch <= k[hi].epoch /\ k[j].epoch \in Nat
        BY <1>1, <1>9, <2>1 DEF Streaming
      <3>2. QED
        BY <1>9, <3>1
    <2>2. ASSUME NEW j \in 1 .. n, k[j].epoch = e PROVE lo <= j
      BY <1>3, <1>6, <2>2
    <2>3. QED
      BY <1>10, <2>1, <2>2
  <1>12. i <= hi
    BY <1>1, <1>2, <1>10
  <1>13. QED
    BY <1>1, <1>2, <1>9, <1>11, <1>12

\* The samples of an epoch are as many as there are places from the first to the last.
LEMMA RunFacts ==
  ASSUME NEW k, Streaming(k), NEW i \in 1 .. Len(k), NEW lo \in 1 .. Len(k), NEW hi \in 1 .. Len(k),
         lo <= i, i <= hi, \A j \in 1 .. Len(k) : k[j].epoch = k[i].epoch <=> lo <= j /\ j <= hi,
         NEW A, A = {j \in 1 .. Len(k) : k[j].epoch = k[i].epoch}
  PROVE  Cardinality(A) = hi - lo + 1 /\ Min(A) = lo
PROOF
  <1>1. PICK n \in Nat : n = Len(k)
    BY DEF Streaming
  <1>2. A = {j \in 1 .. n : k[j].epoch = k[i].epoch}
    BY <1>1
  <1>3. A = lo .. hi
    BY <1>1, <1>2
  <1>6. Cardinality(A) = hi - lo + 1
    <2>1. lo \in Int /\ hi \in Int /\ ~(lo > hi)
      BY <1>1
    <2>2. Cardinality(lo .. hi) = IF lo > hi THEN 0 ELSE hi - lo + 1
      BY <2>1, FS_Interval
    <2>3. QED
      BY <1>3, <2>1, <2>2
  <1>8. Min(A) = lo
    <2>1. lo \in A /\ (\A j \in A : lo <= j) /\ A \in SUBSET Nat
      BY <1>1, <1>3
    <2>2. Min(A) \in A /\ \A j \in A : Min(A) <= j
      BY <2>1, MinFacts
    <2>3. PICK z \in A : z = Min(A)
      BY <2>2
    <2>4. z <= lo /\ lo <= z /\ z \in Nat /\ lo \in Nat
      BY <2>1, <2>2, <2>3
    <2>5. QED
      BY <2>3, <2>4
  <1>9. QED
    BY <1>6, <1>8

\* How far into its epoch a sample lies: by how many come before it there, of how many.
LEMMA Placed ==
  ASSUME NEW k, Streaming(k), NEW i \in 1 .. Len(k), NEW lo \in 1 .. Len(k), NEW hi \in 1 .. Len(k),
         lo <= i, i <= hi, \A j \in 1 .. Len(k) : k[j].epoch = k[i].epoch <=> lo <= j /\ j <= hi,
         NEW A, A = {j \in 1 .. Len(k) : k[j].epoch = k[i].epoch}
  PROVE  epoch_frac(k, i) = k[i].epoch * Unit + Nearest(Unit * (i - lo), hi - lo + 1)
PROOF
  <1>1. PICK n \in Nat : n = Len(k)
    BY DEF Streaming
  <1>2. A = {j \in 1 .. n : k[j].epoch = k[i].epoch}
    BY <1>1
  <1>3. A = lo .. hi
    BY <1>1, <1>2
  <1>4. PICK B : B = {j \in 1 .. i - 1 : k[j].epoch = k[i].epoch}
    OBVIOUS
  <1>5. B = lo .. i - 1
    <2>1. \A j : j \in 1 .. i - 1 => j \in 1 .. n /\ j <= hi
      BY <1>1
    <2>2. QED
      BY <1>1, <1>4, <2>1
  <1>6. Cardinality(A) = hi - lo + 1
    <2>1. lo \in Int /\ hi \in Int /\ ~(lo > hi)
      BY <1>1
    <2>2. Cardinality(lo .. hi) = IF lo > hi THEN 0 ELSE hi - lo + 1
      BY <2>1, FS_Interval
    <2>3. QED
      BY <1>3, <2>1, <2>2
  <1>7. Cardinality(B) = i - lo
    <2>1. PICK z \in Nat : z = i - 1 /\ lo \in Int
      BY <1>1
    <2>2. Cardinality(lo .. z) = IF lo > z THEN 0 ELSE z - lo + 1
      BY <2>1, FS_Interval
    <2>3. (IF lo > z THEN 0 ELSE z - lo + 1) = i - lo
      BY <1>1, <2>1
    <2>4. QED
      BY <1>5, <2>1, <2>2, <2>3
  <1>9. Place(k, i) = Nearest(Unit * Cardinality(B), Cardinality(A))
    BY <1>1, <1>2, <1>4 DEF Place
  <1>10. QED
    BY <1>6, <1>7, <1>9 DEF epoch_frac

\* On the axis every sample has a place of its own, after those before it.
LEMMA FracGrows ==
  ASSUME NEW k, Streaming(k), NEW i \in 1 .. Len(k), NEW j \in 1 .. Len(k), i < j
  PROVE  epoch_frac(k, i) \in Nat /\ epoch_frac(k, j) \in Nat /\ epoch_frac(k, i) < epoch_frac(k, j)
PROOF
  <1>1. PICK n \in Nat \ {0} : n = Len(k) /\ n <= Unit
    BY DEF Streaming
  <1>2. PICK U \in Nat \ {0} : U = Unit
    BY <1>1, UnitAssumption
  <1>3. PICK d, e \in Nat : d = k[i].epoch /\ e = k[j].epoch /\ d <= e
    BY DEF Streaming
  <1>4. PICK lo, hi \in 1 .. Len(k) :
          /\ lo <= i /\ i <= hi
          /\ \A q \in 1 .. Len(k) : k[q].epoch = k[i].epoch <=> lo <= q /\ q <= hi
    BY Runs
  <1>5. PICK from, to \in 1 .. Len(k) :
          /\ from <= j /\ j <= to
          /\ \A q \in 1 .. Len(k) : k[q].epoch = k[j].epoch <=> from <= q /\ q <= to
    BY Runs
  <1>6. PICK a, m, b, p \in Nat : /\ a = i - lo /\ m = hi - lo + 1 /\ b = j - from /\ p = to - from + 1
                                  /\ a < m /\ b < p /\ m <= n /\ p <= n
    <2>1. /\ i - lo \in Nat /\ hi - lo + 1 \in Nat /\ j - from \in Nat /\ to - from + 1 \in Nat
          /\ i - lo < hi - lo + 1 /\ j - from < to - from + 1 /\ hi - lo + 1 <= n
          /\ to - from + 1 <= n
      BY <1>1, <1>4, <1>5
    <2>2. QED
      BY <2>1
  <1>7. epoch_frac(k, i) = d * U + Nearest(U * a, m)
    <2>0. PICK A : A = {q \in 1 .. Len(k) : k[q].epoch = k[i].epoch}
      OBVIOUS
    <2>1. epoch_frac(k, i) = k[i].epoch * Unit + Nearest(Unit * (i - lo), hi - lo + 1)
      BY <1>4, <2>0, Placed
    <2>2. QED
      BY <1>2, <1>3, <1>6, <2>1, Zenon
  <1>8. epoch_frac(k, j) = e * U + Nearest(U * b, p)
    <2>0. PICK A : A = {q \in 1 .. Len(k) : k[q].epoch = k[j].epoch}
      OBVIOUS
    <2>1. epoch_frac(k, j) = k[j].epoch * Unit + Nearest(Unit * (j - from), to - from + 1)
      BY <1>5, <2>0, Placed
    <2>2. QED
      BY <1>2, <1>3, <1>6, <2>1, Zenon
  <1>9. PICK y, z \in 0 .. U - 1 : y = Nearest(U * a, m) /\ z = Nearest(U * b, p)
    <2>1. U \in Nat /\ m <= U /\ p <= U
      BY <1>1, <1>2, <1>6
    <2>2. Nearest(U * a, m) \in 0 .. U - 1 /\ Nearest(U * b, p) \in 0 .. U - 1
      BY <1>6, <2>1, NearestFits
    <2>3. QED
      BY <2>2
  <1>10. d * U \in Nat /\ e * U \in Nat
    OBVIOUS
  <1>11. d * U + y < e * U + z
    <2>1. CASE d = e
      <3>1. from = lo /\ to = hi
        <4>1. \A q \in 1 .. Len(k) : lo <= q /\ q <= hi <=> from <= q /\ q <= to
          BY <1>3, <1>4, <1>5, <2>1
        <4>2. lo <= lo /\ lo <= hi /\ from <= to /\ hi <= hi /\ from <= from /\ to <= to
          BY <1>4, <1>5
        <4>3. from <= lo /\ lo <= from /\ hi <= to /\ to <= hi
          BY <4>1, <4>2
        <4>4. QED
          BY <4>3
      <3>2. a < b /\ m = p /\ m <= U /\ m \in Nat \ {0}
        BY <1>1, <1>2, <1>6, <3>1
      <3>3. y < z
        BY <1>9, <3>2, NearestGrows
      <3>4. QED
        BY <1>10, <2>1, <3>3
    <2>2. CASE d # e
      <3>1. PICK c \in Nat : e = d + 1 + c
        <4>1. d <= e
          BY <1>3
        <4>2. e - d - 1 \in Nat /\ e = d + 1 + (e - d - 1)
          BY <2>2, <4>1
        <4>3. QED
          BY <4>2
      <3>2. e * U = d * U + U + c * U /\ c * U \in Nat
        BY <3>1
      <3>3. PICK D, E, W \in Nat : D = d * U /\ E = e * U /\ W = c * U
        BY <1>10, <3>2
      <3>4. y < U /\ U \in Nat /\ y \in Nat /\ z \in Nat
        BY <1>9
      <3>5. D + y < E + z
        BY <3>2, <3>3, <3>4
      <3>6. QED
        BY <3>3, <3>5
    <2>3. QED
      BY <2>1, <2>2
  <1>12. PICK D, E \in Nat : D = d * U + y /\ E = e * U + z
    <2>1. y \in Nat /\ z \in Nat
      BY <1>9
    <2>2. PICK G, H \in Nat : G = d * U /\ H = e * U
      BY <1>10
    <2>3. G + y \in Nat /\ H + z \in Nat
      BY <2>1, <2>2
    <2>4. d * U + y \in Nat /\ e * U + z \in Nat
      BY <2>2, <2>3, Zenon
    <2>5. QED
      BY <2>4, Zenon
  <1>13. epoch_frac(k, i) = D /\ epoch_frac(k, j) = E
    BY <1>7, <1>8, <1>9, <1>12, Zenon
  <1>14. QED
    BY <1>11, <1>12, <1>13

\* What is served of the samples of a system.
LEMMA ServedStreaming ==
  ASSUME NEW r, NEW m, NEW c, NEW l, NEW e, NEW w, FilesOK(r, m, c, l, e, w)
  PROVE  Streaming(Served(Found(m)))
PROOF
  <1>1. PICK f_m \in Seq(MemSample) : f_m = Found(m) /\ MemOK(f_m)
    BY FilesType DEF FilesOK
  <1>2. PICK A \in SUBSET (1 .. Len(f_m)) : A = ServedAt(f_m)
    BY ServedKept
  <1>3. PICK k \in Seq(MemSample) : k = Served(f_m) /\ k = Kept(f_m, A)
    BY <1>2, ServedKept
  <1>4. /\ \A i \in 1 .. Len(k) : \E p \in A : k[i] = f_m[p]
        /\ \A i, j \in 1 .. Len(k) : i < j => \E p, q \in A : p < q /\ k[i] = f_m[p] /\ k[j] = f_m[q]
    <2>2. /\ \A i \in 1 .. Len(Kept(f_m, A)) : \E p \in A : Kept(f_m, A)[i] = f_m[p]
          /\ \A i, j \in 1 .. Len(Kept(f_m, A)) : i < j =>
               \E p, q \in A : p < q /\ Kept(f_m, A)[i] = f_m[p] /\ Kept(f_m, A)[j] = f_m[q]
      BY KeptFacts
    <2>3. k = Kept(f_m, A)
      BY <1>3
    <2>4. \A i \in 1 .. Len(k) : \E p \in A : k[i] = f_m[p]
      BY <2>2, <2>3, Zenon
    <2>5. ASSUME NEW i \in 1 .. Len(k), NEW j \in 1 .. Len(k), i < j
          PROVE  \E p, q \in A : p < q /\ k[i] = f_m[p] /\ k[j] = f_m[q]
      <3>1. i \in 1 .. Len(Kept(f_m, A)) /\ j \in 1 .. Len(Kept(f_m, A))
        BY <2>3
      <3>2. PICK p \in A, q \in A : p < q /\ Kept(f_m, A)[i] = f_m[p] /\ Kept(f_m, A)[j] = f_m[q]
        BY <2>2, <2>5, <3>1, Zenon
      <3>3. QED
        BY <2>3, <3>2, Zenon
    <2>6. QED
      BY <2>4, <2>5
  <1>5. \A p \in A : p \in 1 .. Len(f_m) /\ f_m[p].epoch \in Nat
    BY <1>2, SampleFacts DEF ServedAt
  <1>6. \A i \in 1 .. Len(k) : k[i].epoch \in Nat
    BY <1>4, <1>5
  <1>7. \A i, j \in 1 .. Len(k) : i <= j => k[i].epoch <= k[j].epoch
    <2> SUFFICES ASSUME NEW i \in 1 .. Len(k), NEW j \in 1 .. Len(k), i <= j
                 PROVE  k[i].epoch <= k[j].epoch
      OBVIOUS
    <2>1. CASE i = j
      BY <1>6, <2>1
    <2>2. CASE i # j
      <3>1. i < j
        BY <2>2
      <3>2. PICK p \in A, q \in A : p < q /\ k[i] = f_m[p] /\ k[j] = f_m[q]
        BY <1>4, <3>1
      <3>3. p \in 1 .. Len(f_m) /\ q \in 1 .. Len(f_m) /\ p <= q
        BY <1>5, <3>2
      <3>4. f_m[p].epoch <= f_m[q].epoch
        BY <1>1, <3>3 DEF MemOK
      <3>5. QED
        BY <3>2, <3>4
    <2>3. QED
      BY <2>1, <2>2
  <1>8. Len(k) <= Unit
    <2>1. Len(k) \in 0 .. Len(f_m)
      BY <1>3, KeptLen
    <2>2. Len(Found(r)) \in Nat /\ Len(f_m) \in Nat /\ Len(Found(c)) \in Nat
      BY <1>1, FilesType
    <2>3. Lines(r, m, c) = Len(Found(r)) + Len(f_m) + Len(Found(c))
      BY <1>1 DEF Lines
    <2>4. Lines(r, m, c) > 0 => Lines(r, m, c) + 1 <= w
      BY DEF FilesOK
    <2>5. w \in 0 .. Records
      BY DEF FilesOK
    <2>6. Len(f_m) <= Unit
      BY <2>2, <2>3, <2>4, <2>5, UnitAssumption, BoundsAssumption
    <2>7. QED
      BY <2>1, <2>2, <2>6, UnitAssumption
  <1>9. QED
    BY <1>1, <1>3, <1>6, <1>7, <1>8 DEF Streaming

-----------------------------------------------------------------------------
(***************************************************************************)
(* The rows of one system.                                                 *)
(***************************************************************************)

SectionOK(x, Z, s) ==
  Z \in Seq(TableRow(x)) /\ Ascending(x, Z) /\ \A i \in 1 .. Len(Z) : Z[i]["system"] = s

\* The rows that one system has in a table of epochs.
LEMMA EpochSection ==
  ASSUME NEW x \in Names, FAMILIES[x].source = "epoch", NEW s \in Systems, NEW r, RowsOK(r)
  PROVE  SectionOK(x, aggregate_epoch(s, r), s)
PROOF
  <1>1. PICK Z : Z = aggregate_epoch(s, r)
    OBVIOUS
  <1>2. r \in Seq(Row)
    BY DEF RowsOK
  <1>3. PICK n \in Nat : n = Len(r) /\ DOMAIN r = 1 .. n
    BY <1>2
  <1>4. PICK C : C = Cols(x)
    OBVIOUS
  <1>5. /\ C = {"epoch", "system", "recall10", "lat_mean_ms", "lat_p50_ms", "lat_p99_ms", "ins_ops_s"}
        /\ C = ToSet(EPOCH_COLS)
    BY <1>4, ColsFacts, ColumnFacts
  <1>6. Z = [i \in 1 .. n |-> [c \in C |-> IF c = "system" THEN s ELSE r[i][c]]]
    BY <1>1, <1>3, <1>5 DEF aggregate_epoch
  <1>7. \A i \in 1 .. n, c \in C : c # "system" => r[i][c] \in Cells
    <2> SUFFICES ASSUME NEW i \in 1 .. n, NEW c \in C, c # "system" PROVE r[i][c] \in Cells
      OBVIOUS
    <2>1. r[i] \in [Fields -> Nat \cup {None}]
      BY <1>2, <1>3 DEF Row
    <2>2. c \in Fields
      BY <1>5 DEF Fields
    <2>3. QED
      BY <2>1, <2>2 DEF Cells
  <1>8. ASSUME NEW i \in 1 .. n
        PROVE  Z[i] \in TableRow(x) /\ Z[i]["system"] = s /\ Z[i]["epoch"] = r[i]["epoch"]
    <2>1. PICK z : z = Z[i]
      OBVIOUS
    <2>2. z = [c \in C |-> IF c = "system" THEN s ELSE r[i][c]]
      BY <1>6, <2>1
    <2>3. "system" \in C /\ "epoch" \in C
      BY <1>5
    <2>4. z["system"] = s /\ z["epoch"] = r[i]["epoch"]
      BY <2>2, <2>3
    <2>5. \A c \in C : c # "system" => z[c] \in Cells
      BY <1>7, <2>2
    <2>6. z \in [C -> Cells \cup Systems]
      BY <1>7, <2>2
    <2>7. QED
      BY <1>4, <2>1, <2>4, <2>5, <2>6 DEF TableRow
  <1>9. Z \in Seq(TableRow(x)) /\ Len(Z) = n
    <2>1. PICK R : R = TableRow(x)
      OBVIOUS
    <2>2. Z \in [1 .. n -> R]
      BY <1>6, <1>8, <2>1
    <2>3. Z \in Seq(R) /\ Len(Z) = n
      BY <2>2, FunSeq
    <2>4. QED
      BY <2>1, <2>3
  <1>10. Ascending(x, Z)
    <2>1. Axis(x) = "epoch"
      BY DEF Axis
    <2>2. \A i, j \in 1 .. n : i < j =>
            Z[i]["epoch"] \in Nat /\ Z[j]["epoch"] \in Nat /\ Z[i]["epoch"] < Z[j]["epoch"]
      <3> SUFFICES ASSUME NEW i \in 1 .. n, NEW j \in 1 .. n, i < j
                   PROVE  Z[i]["epoch"] \in Nat /\ Z[j]["epoch"] \in Nat /\ Z[i]["epoch"] < Z[j]["epoch"]
        OBVIOUS
      <3>1. r[i]["epoch"] = i - 1 /\ r[j]["epoch"] = j - 1
        BY <1>3 DEF RowsOK
      <3>2. Z[i]["epoch"] = i - 1 /\ Z[j]["epoch"] = j - 1
        BY <1>8, <3>1
      <3>3. QED
        BY <3>2
    <2>3. QED
      BY <1>9, <2>1, <2>2 DEF Ascending
  <1>11. \A i \in 1 .. Len(Z) : Z[i]["system"] = s
    BY <1>8, <1>9
  <1>12. QED
    BY <1>1, <1>9, <1>10, <1>11 DEF SectionOK

\* Its place is a number.
LEMMA FracNat ==
  ASSUME NEW k, Streaming(k), NEW i \in 1 .. Len(k)
  PROVE  epoch_frac(k, i) \in Nat
PROOF
  <1>1. PICK lo, hi \in 1 .. Len(k) :
          /\ lo <= i /\ i <= hi
          /\ \A j \in 1 .. Len(k) : k[j].epoch = k[i].epoch <=> lo <= j /\ j <= hi
    BY Runs
  <1>2. PICK A : A = {j \in 1 .. Len(k) : k[j].epoch = k[i].epoch}
    OBVIOUS
  <1>3. epoch_frac(k, i) = k[i].epoch * Unit + Nearest(Unit * (i - lo), hi - lo + 1)
    BY <1>1, <1>2, Placed
  <1>4. PICK e, y, d \in Nat : e = k[i].epoch /\ y = Unit * (i - lo) /\ d = hi - lo + 1 /\ d > 0
    <2>1. k[i].epoch \in Nat
      BY DEF Streaming
    <2>2. i - lo \in Nat /\ hi - lo + 1 \in Nat /\ hi - lo + 1 > 0
      BY <1>1
    <2>3. Unit * (i - lo) \in Nat
      BY <2>2, UnitAssumption
    <2>4. QED
      BY <2>1, <2>2, <2>3
  <1>5. Nearest(y, d) \in Nat
    <2>0. d > 0
      BY <1>4
    <2>1. 2 * y + d \in Nat /\ 2 * d \in Nat \ {0}
      BY <2>0
    <2>2. (2 * y + d) \div (2 * d) \in Nat
      BY <2>1, Quotient
    <2>3. QED
      BY <2>2 DEF Nearest
  <1>6. e * Unit \in Nat
    BY UnitAssumption
  <1>7. PICK a, b \in Nat : a = e * Unit /\ b = Nearest(y, d)
    BY <1>5, <1>6
  <1>8. epoch_frac(k, i) = a + b
    BY <1>3, <1>4, <1>7, Zenon
  <1>9. a + b \in Nat
    OBVIOUS
  <1>10. QED
    BY <1>8, <1>9, Zenon

\* The rows that one system has in a table of memory samples.
LEMMA MemSection ==
  ASSUME NEW x \in Names, FAMILIES[x].source = "mem", NEW s \in Systems, NEW k, Streaming(k)
  PROVE  SectionOK(x, aggregate_mem(s, k), s)
PROOF
  <1>1. PICK Z : Z = aggregate_mem(s, k)
    OBVIOUS
  <1>2. k \in Seq(MemSample)
    BY DEF Streaming
  <1>3. PICK n \in Nat : n = Len(k) /\ DOMAIN k = 1 .. n
    BY <1>2
  <1>4. PICK C : C = Cols(x)
    OBVIOUS
  <1>5. C = {"epoch_frac", "system", "rss_mb", "t_sec", "epoch"}
    BY <1>4, ColsFacts, ColumnFacts
  <1>6. Z = [i \in 1 .. n |->
               [epoch_frac |-> epoch_frac(k, i), system |-> s, rss_mb |-> k[i].rss,
                t_sec |-> k[i].t, epoch |-> k[i].epoch]]
    BY <1>1, <1>3 DEF aggregate_mem
  <1>7. ASSUME NEW i \in 1 .. n PROVE epoch_frac(k, i) \in Nat
    BY <1>3, FracNat
  <1>8. ASSUME NEW i \in 1 .. n
        PROVE  Z[i] \in TableRow(x) /\ Z[i]["system"] = s /\ Z[i]["epoch_frac"] = epoch_frac(k, i)
    <2>1. PICK a, b, c, d \in Nat : a = epoch_frac(k, i) /\ b = k[i].rss /\ c = k[i].t /\ d = k[i].epoch
      <3>1. k[i].epoch \in Nat
        BY <1>3 DEF Streaming
      <3>2. k[i].rss \in Nat /\ k[i].t \in Nat
        BY <1>2, <1>3, SampleFacts
      <3>3. QED
        BY <1>7, <3>1, <3>2
    <2>2. PICK z : z = Z[i]
      OBVIOUS
    <2>3. z = [epoch_frac |-> a, system |-> s, rss_mb |-> b, t_sec |-> c, epoch |-> d]
      BY <1>6, <2>1, <2>2
    <2>4. z["system"] = s /\ z["epoch_frac"] = a
      BY <2>3
    <2>5. DOMAIN z = C /\ z["rss_mb"] = b /\ z["t_sec"] = c /\ z["epoch"] = d
      BY <1>5, <2>3
    <2>6. \A col \in C : col # "system" => z[col] \in Nat
      BY <1>5, <2>4, <2>5
    <2>7. z = [col \in C |-> z[col]]
      BY <1>5, <2>3
    <2>8. z \in [C -> Cells \cup Systems]
      BY <2>4, <2>6, <2>7 DEF Cells
    <2>9. QED
      BY <1>4, <2>1, <2>2, <2>4, <2>6, <2>8 DEF TableRow, Cells
  <1>9. Z \in Seq(TableRow(x)) /\ Len(Z) = n
    <2>1. PICK R : R = TableRow(x)
      OBVIOUS
    <2>2. Z \in [1 .. n -> R]
      BY <1>6, <1>8, <2>1
    <2>3. Z \in Seq(R) /\ Len(Z) = n
      BY <2>2, FunSeq
    <2>4. QED
      BY <2>1, <2>3
  <1>10. Ascending(x, Z)
    <2>1. Axis(x) = "epoch_frac"
      BY DEF Axis
    <2>2. \A i, j \in 1 .. n : i < j =>
            epoch_frac(k, i) \in Nat /\ epoch_frac(k, j) \in Nat /\ epoch_frac(k, i) < epoch_frac(k, j)
      BY <1>3, FracGrows
    <2>3. \A i, j \in 1 .. n : i < j =>
            Z[i]["epoch_frac"] \in Nat /\ Z[j]["epoch_frac"] \in Nat /\ Z[i]["epoch_frac"] < Z[j]["epoch_frac"]
      BY <1>8, <2>2, Zenon
    <2>4. QED
      BY <1>9, <2>1, <2>3 DEF Ascending
  <1>11. \A i \in 1 .. Len(Z) : Z[i]["system"] = s
    BY <1>8, <1>9
  <1>12. QED
    BY <1>1, <1>9, <1>10, <1>11 DEF SectionOK

\* The rows of one more system come after those of the others.
LEMMA Join ==
  ASSUME NEW x \in Names, NEW n \in 1 .. Len(Order), NEW T, TableOK(x, T, n - 1),
         NEW Z, SectionOK(x, Z, Order[n])
  PROVE  TableOK(x, T \o Z, n)
PROOF
  <1>1. PICK R : R = TableRow(x)
    OBVIOUS
  <1>2. T \in Seq(R) /\ Z \in Seq(R)
    BY <1>1 DEF TableOK, SectionOK
  <1>3. PICK a, b \in Nat : a = Len(T) /\ b = Len(Z)
    BY <1>2
  <1>4. PICK J : J = T \o Z
    OBVIOUS
  <1>5. /\ J \in Seq(R) /\ Len(J) = a + b
        /\ \A i \in 1 .. a : J[i] = T[i]
        /\ \A i \in 1 .. b : J[a + i] = Z[i]
    BY <1>2, <1>3, <1>4
  <1>6. \A i \in 1 .. a : \E q \in 1 .. n - 1 : J[i]["system"] = Order[q]
    BY <1>3, <1>5 DEF TableOK
  <1>7. \A i \in 1 .. a + b : i \notin 1 .. a => i - a \in 1 .. b /\ J[i] = Z[i - a]
    <2> SUFFICES ASSUME NEW i \in 1 .. a + b, i \notin 1 .. a
                 PROVE  i - a \in 1 .. b /\ J[i] = Z[i - a]
      OBVIOUS
    <2>1. i - a \in 1 .. b /\ a + (i - a) = i
      OBVIOUS
    <2>2. J[a + (i - a)] = Z[i - a]
      BY <1>5, <2>1
    <2>3. QED
      BY <2>1, <2>2
  <1>8. \A i \in 1 .. a + b : i \notin 1 .. a => J[i]["system"] = Order[n]
    BY <1>3, <1>7 DEF SectionOK
  <1>9. \A i \in 1 .. a : J[i]["system"] # Order[n]
    <2> SUFFICES ASSUME NEW i \in 1 .. a, J[i]["system"] = Order[n] PROVE FALSE
      OBVIOUS
    <2>1. PICK q \in 1 .. n - 1 : J[i]["system"] = Order[q]
      BY <1>6
    <2>2. DOMAIN Order = 1 .. Len(Order) /\ Len(Order) \in Nat
      BY OrderAssumption
    <2>3. q \in DOMAIN Order /\ n \in DOMAIN Order /\ q # n
      BY <2>2
    <2>4. QED
      BY <2>1, <2>3, OrderAssumption
  <1>10. Ascending(x, J)
    <2> SUFFICES ASSUME FAMILIES[x].source # "summary", NEW i \in 1 .. a + b, NEW j \in 1 .. a + b, i < j,
                        J[i]["system"] = J[j]["system"]
                 PROVE  J[i][Axis(x)] \in Nat /\ J[j][Axis(x)] \in Nat /\ J[i][Axis(x)] < J[j][Axis(x)]
      BY <1>5 DEF Ascending
    <2>1. CASE j \in 1 .. a
      <3>1. i \in 1 .. a
        BY <2>1
      <3>2. T[i]["system"] = T[j]["system"] /\ J[i] = T[i] /\ J[j] = T[j]
        BY <1>5, <2>1, <3>1
      <3>3. T[i][Axis(x)] \in Nat /\ T[j][Axis(x)] \in Nat /\ T[i][Axis(x)] < T[j][Axis(x)]
        BY <1>3, <2>1, <3>1, <3>2 DEF TableOK, Ascending
      <3>4. QED
        BY <3>2, <3>3
    <2>2. CASE j \notin 1 .. a
      <3>1. J[j]["system"] = Order[n]
        BY <1>8, <2>2
      <3>2. i \notin 1 .. a
        BY <1>9, <3>1
      <3>3. /\ i - a \in 1 .. b /\ J[i] = Z[i - a] /\ j - a \in 1 .. b /\ J[j] = Z[j - a] /\ i - a < j - a
            /\ Z[i - a]["system"] = Z[j - a]["system"]
        BY <1>7, <2>2, <3>2
      <3>4. PICK y, z \in 1 .. b : y = i - a /\ z = j - a /\ y < z
        BY <3>3
      <3>5. Z[y][Axis(x)] \in Nat /\ Z[z][Axis(x)] \in Nat /\ Z[y][Axis(x)] < Z[z][Axis(x)]
        BY <1>3, <3>3, <3>4 DEF SectionOK, Ascending
      <3>6. QED
        BY <3>3, <3>4, <3>5
    <2>3. QED
      BY <2>1, <2>2
  <1>11. \A i \in 1 .. Len(J) : \E q \in 1 .. n : J[i]["system"] = Order[q]
    <2>1. n \in 1 .. n /\ \A q \in 1 .. n - 1 : q \in 1 .. n
      OBVIOUS
    <2>2. QED
      BY <1>5, <1>6, <1>8, <2>1
  <1>12. QED
    BY <1>1, <1>4, <1>5, <1>10, <1>11 DEF TableOK

\* The scalars of a system are numbers, or none; and which of them there are.
LEMMA Scalars ==
  ASSUME NEW r, RowsOK(r), NEW m, MemOK(m)
  PROVE  /\ mean_ins_ops_s(r) \in Cells /\ end_recall10(r) \in Cells
         /\ build_time_s(m) \in Cells /\ peak_rss_mb(m) \in Cells
         /\ mean_ins_ops_s(r) # None <=> \E i \in 1 .. Len(r) : r[i]["ins_ops_s"] # 0
         /\ build_time_s(m) # None <=> \E i \in 1 .. Len(m) : m[i].epoch = -1
         /\ build_time_s(m) # None => build_time_s(m) = Max({z.t : z \in Building(m)})
PROOF
  <1>1. r \in Seq(Row) /\ m \in Seq(MemSample)
    BY DEF RowsOK, MemOK
  <1>2. mean_ins_ops_s(r) \in Cells /\ (mean_ins_ops_s(r) # None <=> \E i \in 1 .. Len(r) : r[i]["ins_ops_s"] # 0)
    <2>1. \A i \in 1 .. Len(r) : r[i]["ins_ops_s"] \in Nat
      BY DEF RowsOK, Measured
    <2>2. PICK ys \in Seq(Nat) : /\ ys = Column(r, "ins_ops_s") /\ Len(ys) = Len(r)
                                 /\ \A i \in 1 .. Len(r) : ys[i] = r[i]["ins_ops_s"]
      BY <1>1, <2>1, RowColumn
    <2>3. DOMAIN ys = 1 .. Len(r)
      BY <2>2
    <2>4. PICK S \in SUBSET (1 .. Len(ys)) : S = {i \in 1 .. Len(r) : ys[i] > 0}
      BY <2>2
    <2>5. Positive(ys) = Kept(ys, S)
      <3>1. {i \in DOMAIN ys : ys[i] > 0} = S
        BY <2>3, <2>4
      <3>2. Positive(ys) = Kept(ys, {i \in DOMAIN ys : ys[i] > 0})
        BY DEF Positive, Keep
      <3>3. QED
        BY <3>1, <3>2
    <2>6. PICK vs \in Seq(Nat) : vs = Kept(ys, S) /\ (vs = <<>> <=> S = {})
      <3>1. ys \in Seq(Nat)
        BY <2>2
      <3>2. Kept(ys, S) \in Seq(Nat) /\ (Kept(ys, S) = <<>> <=> S = {})
        BY <3>1, KeptFacts
      <3>3. QED
        BY <3>2, Zenon
    <2>7. mean_ins_ops_s(r) = mean(vs)
      BY <2>2, <2>5, <2>6 DEF mean_ins_ops_s
    <2>8. vs = <<>> => mean(vs) = None
      BY DEF mean
    <2>9. vs # <<>> => mean(vs) \in Nat /\ mean(vs) # None
      BY MeanNat
    <2>10. S # {} <=> \E i \in 1 .. Len(r) : r[i]["ins_ops_s"] # 0
      <3>1. \A i \in 1 .. Len(r) : ys[i] > 0 <=> r[i]["ins_ops_s"] # 0
        BY <2>1, <2>2
      <3>2. QED
        BY <2>4, <3>1
    <2>11. QED
      BY <2>6, <2>7, <2>8, <2>9, <2>10 DEF Cells
  <1>3. end_recall10(r) \in Cells
    <2>1. PICK ys : ys = [i \in 1 .. Len(r) |-> r[i]["recall10"]]
      OBVIOUS
    <2>2. Len(r) \in Nat /\ DOMAIN r = 1 .. Len(r)
      BY <1>1
    <2>3. \A i \in 1 .. Len(r) : r[i]["recall10"] \in Cells
      <3>1. "recall10" \in Fields
        BY DEF Fields
      <3>2. \A i \in 1 .. Len(r) : r[i] \in Row
        BY <1>1
      <3>3. QED
        BY <3>1, <3>2 DEF Row, Cells
    <2>4. ys \in Seq(Cells) /\ Len(ys) = Len(r)
      <3>1. ys \in [1 .. Len(r) -> Cells]
        BY <2>1, <2>3
      <3>2. QED
        BY <2>2, <3>1, FunSeq
    <2>5. Column(r, "recall10") = Kept(ys, There(ys)) /\ There(ys) \in SUBSET (1 .. Len(ys))
      <3>1. \A i \in 1 .. Len(ys) : ys[i] = r[i]["recall10"]
        BY <2>1, <2>4
      <3>2. QED
        BY <2>2, <2>4, <3>1, ColumnKept
    <2>6. PICK S \in SUBSET (1 .. Len(ys)) : S = There(ys)
      BY <2>5
    <2>7. PICK ks \in Seq(Cells) : ks = Kept(ys, S)
      <3>1. Kept(ys, S) \in Seq(Cells)
        BY <2>4, KeptFacts
      <3>2. QED
        BY <3>1, Zenon
    <2>8. end_recall10(r) = LastOf(ks)
      BY <2>5, <2>6, <2>7 DEF end_recall10
    <2>9. ks # <<>> => Last(ks) \in Cells
      BY DEF Last
    <2>10. QED
      BY <2>8, <2>9 DEF LastOf, Cells
  <1>4. peak_rss_mb(m) \in Cells
    <2>1. PICK peak : peak = Get([rss |-> peak_rss_mb(m)], "rss", 0)
      OBVIOUS
    <2>2. peak \in Nat
      BY <1>1, <2>1, PeaksAgree
    <2>3. QED
      BY <2>1, <2>2 DEF Cells, Get
  <1>5. /\ build_time_s(m) \in Cells
        /\ build_time_s(m) # None <=> \E i \in 1 .. Len(m) : m[i].epoch = -1
        /\ build_time_s(m) # None => build_time_s(m) = Max({z.t : z \in Building(m)})
    <2>1. PICK B : B = Building(m)
      OBVIOUS
    <2>2. \A z : z \in B <=> \E i \in 1 .. Len(m) : z = m[i] /\ m[i].epoch = -1
      <3>1. \A z : z \in ToSet(m) <=> \E i \in 1 .. Len(m) : z = m[i]
        BY <1>1 DEF ToSet
      <3>2. QED
        BY <2>1, <3>1 DEF Building
    <2>3. B # {} <=> \E i \in 1 .. Len(m) : m[i].epoch = -1
      BY <2>2
    <2>4. PICK n \in Nat : n = Len(m)
      BY <1>1
    <2>5. PICK times : times = {z.t : z \in B}
      OBVIOUS
    <2>6. times \in SUBSET (0 .. n)
      <3>1. ASSUME NEW z \in B PROVE z.t \in 0 .. n
        <4>1. PICK i \in 1 .. Len(m) : z = m[i]
          BY <2>2
        <4>2. m[i].t = i - 1
          BY DEF MemOK
        <4>3. QED
          BY <2>4, <4>1, <4>2
      <3>2. QED
        BY <2>5, <3>1
    <2>7. B # {} => Max(times) \in Nat
      <3>1. B # {} => times # {}
        BY <2>5
      <3>2. B # {} => Max(times) \in times
        BY <2>4, <2>6, <3>1, MaxFacts
      <3>3. \A z \in times : z \in Nat
        BY <2>4, <2>6
      <3>4. QED
        BY <3>2, <3>3, Zenon
    <2>8. build_time_s(m) = IF B = {} THEN None ELSE Max(times)
      BY <2>1, <2>5 DEF build_time_s
    <2>9. Max(times) \in Nat => Max(times) # None
      BY MeasuresAssumption
    <2>10. B # {} => build_time_s(m) = Max({z.t : z \in Building(m)})
      BY <2>1, <2>5, <2>8, Zenon
    <2>11. B = {} => build_time_s(m) = None
      BY <2>8
    <2>12. build_time_s(m) # None <=> B # {}
      BY <2>7, <2>8, <2>9
    <2>13. build_time_s(m) \in Cells
      BY <2>7, <2>8 DEF Cells
    <2>14. QED
      BY <2>3, <2>10, <2>12, <2>13, Zenon
  <1>6. QED
    BY <1>2, <1>3, <1>4, <1>5, Zenon

\* One row that has its columns is the part of a summary.
LEMMA SummarySection ==
  ASSUME NEW x \in Names, FAMILIES[x].source = "summary", NEW s \in Systems,
         NEW b \in Cells, NEW p \in Cells, NEW a \in Cells, NEW e \in Cells, NEW row,
         row = [system |-> s, build_time_s |-> b, peak_rss_mb |-> p, mean_ins_ops_s |-> a, end_recall10 |-> e]
  PROVE  SectionOK(x, <<row>>, s) /\ row \in TableRow(x)
PROOF
  <1>1. PICK C : C = Cols(x)
    OBVIOUS
  <1>2. C = {"system", "build_time_s", "mean_ins_ops_s", "peak_rss_mb", "end_recall10"}
    BY <1>1, ColsFacts, ColumnFacts
  <1>3. /\ DOMAIN row = C /\ row["system"] = s /\ row["build_time_s"] = b /\ row["peak_rss_mb"] = p
        /\ row["mean_ins_ops_s"] = a /\ row["end_recall10"] = e
    BY <1>2
  <1>4. \A c \in C : c # "system" => row[c] \in Cells
    BY <1>2, <1>3
  <1>5. row = [c \in C |-> row[c]]
    BY <1>2
  <1>6. row \in [C -> Cells \cup Systems]
    BY <1>3, <1>4, <1>5
  <1>7. row \in TableRow(x)
    BY <1>1, <1>3, <1>4, <1>6 DEF TableRow
  <1>8. PICK R : R = TableRow(x)
    OBVIOUS
  <1>9. PICK Z : Z = <<row>>
    OBVIOUS
  <1>10. Z \in Seq(R) /\ Len(Z) = 1 /\ Z[1] = row
    BY <1>7, <1>8, <1>9
  <1>11. Ascending(x, Z)
    BY DEF Ascending
  <1>12. \A i \in 1 .. Len(Z) : Z[i]["system"] = s
    BY <1>3, <1>10
  <1>13. QED
    BY <1>7, <1>8, <1>9, <1>10, <1>11, <1>12 DEF SectionOK

\* What a command reads of one system is fit for the table.
LEMMA SectionHolds ==
  ASSUME NEW x \in Names, NEW s \in Systems,
         NEW r, NEW m, NEW c, NEW l, NEW e, NEW w, FilesOK(r, m, c, l, e, w)
  PROVE  /\ FAMILIES[x].source # "summary" \/ r = Absent => SectionOK(x, Section(x, s, r, m), s)
         /\ RowsOK(Found(r)) /\ MemOK(Found(m)) /\ (r # Absent => Found(r) = r)
PROOF
  <1>1. RowsOK(Found(r)) /\ MemOK(Found(m)) /\ (r # Absent => Found(r) = r)
    BY DEF FilesOK, Found
  <1>2. FAMILIES[x].source \in {"epoch", "mem", "summary"}
    BY CurveFamilies
  <1>3. PICK Z : Z = Section(x, s, r, m)
    OBVIOUS
  <1>4. CASE FAMILIES[x].source = "epoch"
    <2>1. Z = aggregate_epoch(s, Found(r))
      BY <1>3, <1>4 DEF Section
    <2>2. QED
      BY <1>1, <1>3, <1>4, <2>1, EpochSection
  <1>5. CASE FAMILIES[x].source = "mem"
    <2>1. Z = aggregate_mem(s, Served(Found(m)))
      BY <1>3, <1>5 DEF Section
    <2>2. Streaming(Served(Found(m)))
      BY ServedStreaming
    <2>3. QED
      BY <1>1, <1>3, <1>5, <2>1, <2>2, MemSection
  <1>6. CASE FAMILIES[x].source = "summary" /\ r = Absent
    <2>1. Z = <<>>
      BY <1>3, <1>6 DEF Section
    <2>2. PICK R : R = TableRow(x)
      OBVIOUS
    <2>3. Z \in Seq(R) /\ Len(Z) = 0
      BY <2>1
    <2>4. QED
      BY <1>1, <1>3, <1>6, <2>2, <2>3 DEF SectionOK, Ascending
  <1>7. QED
    BY <1>1, <1>2, <1>4, <1>5, <1>6

\* One more system is read: the table holds what the files say of one more.
LEMMA CurrentMore ==
  ASSUME NEW x, NEW rs, NEW ms, NEW n \in Nat \ {0}, NEW R, Current(x, R, n - 1, rs, ms)
  PROVE  Current(x, R \cup Part(x, n, rs, ms), n, rs, ms)
PROOF
  <1>1. R = UNION {Part(x, k, rs, ms) : k \in 1 .. n - 1}
    BY DEF Current
  <1>2. \A k : k \in 1 .. n <=> k \in 1 .. n - 1 \/ k = n
    OBVIOUS
  <1>3. R \cup Part(x, n, rs, ms) = UNION {Part(x, k, rs, ms) : k \in 1 .. n}
    BY <1>1, <1>2
  <1>4. QED
    BY <1>3 DEF Current

\* A table and the elements that are added to it, as sets.
LEMMA JoinSet ==
  ASSUME NEW R, NEW T \in Seq(R), NEW Z \in Seq(R)
  PROVE  ToSet(T \o Z) = ToSet(T) \cup ToSet(Z)
PROOF
  <1>1. PICK a, b \in Nat : a = Len(T) /\ b = Len(Z)
    OBVIOUS
  <1>2. PICK J : J = T \o Z
    OBVIOUS
  <1>3. /\ J \in Seq(R) /\ Len(J) = a + b
        /\ \A i \in 1 .. a : J[i] = T[i]
        /\ \A i \in 1 .. b : J[a + i] = Z[i]
    BY <1>1, <1>2
  <1>4. \A y : y \in ToSet(J) <=> \E i \in 1 .. a + b : y = J[i]
    BY <1>3 DEF ToSet
  <1>5. \A y : y \in ToSet(T) <=> \E i \in 1 .. a : y = T[i]
    BY <1>1 DEF ToSet
  <1>6. \A y : y \in ToSet(Z) <=> \E i \in 1 .. b : y = Z[i]
    BY <1>1 DEF ToSet
  <1>7. ASSUME NEW i \in 1 .. a + b PROVE J[i] \in ToSet(T) \cup ToSet(Z)
    <2>1. CASE i \in 1 .. a
      BY <1>3, <1>5, <2>1
    <2>2. CASE i \notin 1 .. a
      <3>1. i - a \in 1 .. b /\ a + (i - a) = i
        BY <2>2
      <3>2. J[i] = Z[i - a]
        BY <1>3, <3>1
      <3>3. QED
        BY <1>6, <3>1, <3>2
    <2>3. QED
      BY <2>1, <2>2
  <1>8. ASSUME NEW i \in 1 .. a PROVE T[i] \in ToSet(J)
    <2>1. i \in 1 .. a + b
      OBVIOUS
    <2>2. QED
      BY <1>3, <1>4, <2>1
  <1>9. ASSUME NEW i \in 1 .. b PROVE Z[i] \in ToSet(J)
    <2>1. a + i \in 1 .. a + b
      OBVIOUS
    <2>2. QED
      BY <1>3, <1>4, <2>1
  <1>10. \A y : y \in ToSet(J) <=> y \in ToSet(T) \/ y \in ToSet(Z)
    BY <1>4, <1>5, <1>6, <1>7, <1>8, <1>9
  <1>11. QED
    BY <1>2, <1>10

\* The files of a system are added in one step.
LEMMA ReadMore ==
  ASSUME NEW x \in Names, NEW rs, NEW ms, NEW n \in 1 .. Len(Order), NEW T, NEW stable,
         Reading(x, T, n - 1, stable, rs, ms), NEW Z, SectionOK(x, Z, Order[n]),
         Z = Section(x, Order[n], rs[Order[n]], ms[Order[n]])
  PROVE  Reading(x, T \o Z, n, stable, rs, ms)
PROOF
  <1>1. TableOK(x, T, n - 1) /\ (stable => Current(x, ToSet(T), n - 1, rs, ms))
    BY DEF Reading
  <1>2. TableOK(x, T \o Z, n)
    BY <1>1, Join
  <1>3. PICK R : R = TableRow(x)
    OBVIOUS
  <1>4. T \in Seq(R) /\ Z \in Seq(R)
    BY <1>1, <1>3 DEF TableOK, SectionOK
  <1>5. ToSet(T \o Z) = ToSet(T) \cup ToSet(Z)
    BY <1>4, JoinSet
  <1>6. ToSet(Z) = Part(x, n, rs, ms)
    BY DEF Part
  <1>7. n \in Nat \ {0} /\ n \in 0 .. Len(Order)
    BY OrderAssumption
  <1>8. PICK A, P : A = ToSet(T) /\ P = Part(x, n, rs, ms)
    OBVIOUS
  <1>9. ASSUME stable PROVE Current(x, ToSet(T \o Z), n, rs, ms)
    <2>1. Current(x, A, n - 1, rs, ms)
      BY <1>1, <1>8, <1>9
    <2>2. Current(x, A \cup P, n, rs, ms)
      BY <1>7, <1>8, <2>1, CurrentMore
    <2>3. QED
      BY <1>5, <1>6, <1>8, <2>2
  <1>10. QED
    BY <1>2, <1>7, <1>9 DEF Reading

\* The row of a summary is begun with what the epochs give.
LEMMA BeginRow ==
  ASSUME NEW x \in Names, FAMILIES[x].source = "summary", NEW rs, NEW ms, NEW n \in 1 .. Len(Order),
         NEW T, NEW stable, Reading(x, T, n - 1, stable, rs, ms), rs[Order[n]] # Absent,
         NEW a \in Cells, NEW e \in Cells, a = mean_ins_ops_s(rs[Order[n]]), e = end_recall10(rs[Order[n]]),
         NEW row, row = [system |-> Order[n], build_time_s |-> None, peak_rss_mb |-> None,
                         mean_ins_ops_s |-> a, end_recall10 |-> e]
  PROVE  Filling(x, Append(T, row), n, stable, {"build_time_s", "peak_rss_mb"}, rs, ms)
PROOF
  <1>1. TableOK(x, T, n - 1) /\ (stable => Current(x, ToSet(T), n - 1, rs, ms))
    BY DEF Reading
  <1>2. Order[n] \in Systems /\ None \in Cells
    BY OrderAssumption DEF Cells
  <1>3. SectionOK(x, <<row>>, Order[n]) /\ row \in TableRow(x)
    BY <1>2, SummarySection
  <1>4. PICK R : R = TableRow(x)
    OBVIOUS
  <1>5. PICK k \in Nat : k = Len(T)
    BY <1>1 DEF TableOK
  <1>6. PICK U : U = Append(T, row)
    OBVIOUS
  <1>7. T \in Seq(R) /\ row \in R
    BY <1>1, <1>3, <1>4 DEF TableOK
  <1>8. /\ U = T \o <<row>> /\ Len(U) = k + 1 /\ U[k + 1] = row /\ U # <<>>
        /\ \A i \in 1 .. k : U[i] = T[i]
    BY <1>5, <1>6, <1>7
  <1>9. TableOK(x, U, n)
    BY <1>1, <1>3, <1>8, Join
  <1>10. U[Len(U)]["system"] = Order[n]
    BY <1>8
  <1>11. {U[i] : i \in 1 .. Len(U) - 1} = ToSet(T)
    <2>1. Len(U) - 1 = k /\ DOMAIN T = 1 .. k
      BY <1>5, <1>7, <1>8
    <2>2. {U[i] : i \in 1 .. k} = {T[i] : i \in 1 .. k}
      BY <1>8
    <2>3. QED
      BY <2>1, <2>2 DEF ToSet
  <1>12. PICK full : full = SummaryRow(Order[n], rs[Order[n]], ms[Order[n]])
    OBVIOUS
  <1>13. \A c \in Cols(x) : row[c] = IF c \in {"build_time_s", "peak_rss_mb"} THEN None ELSE full[c]
    <2>1. Cols(x) = {"system", "build_time_s", "mean_ins_ops_s", "peak_rss_mb", "end_recall10"}
      BY ColsFacts, ColumnFacts
    <2>2. /\ row["system"] = Order[n] /\ row["build_time_s"] = None /\ row["peak_rss_mb"] = None
          /\ row["mean_ins_ops_s"] = a /\ row["end_recall10"] = e
      OBVIOUS
    <2>3. full["system"] = Order[n] /\ full["mean_ins_ops_s"] = a /\ full["end_recall10"] = e
      BY <1>12 DEF SummaryRow
    <2>4. QED
      BY <2>1, <2>2, <2>3
  <1>14. QED
    <2>1. n \in 1 .. Len(Order) /\ U # <<>> /\ TableOK(x, U, n) /\ FAMILIES[x].source = "summary"
      BY <1>8, <1>9
    <2>2. stable => Current(x, {U[i] : i \in 1 .. Len(U) - 1}, n - 1, rs, ms)
      BY <1>1, <1>11, Zenon
    <2>3. \A c \in Cols(x) : U[Len(U)][c] = IF c \in {"build_time_s", "peak_rss_mb"} THEN None ELSE full[c]
      BY <1>8, <1>13
    <2>4. QED
      BY <1>6, <1>10, <1>12, <2>1, <2>2, <2>3, Zenon DEF Filling

\* A value is filled into the last row.
WithCell(T, c, v) == [T EXCEPT ![Len(T)][c] = v]
\* One cell of the last row of a summary is filled in.
LEMMA FillRow ==
  ASSUME NEW x \in Names, FAMILIES[x].source = "summary", NEW n \in 1 .. Len(Order),
         NEW T, T # <<>>, TableOK(x, T, n), NEW c \in Cols(x), c # "system", NEW v \in Cells,
         NEW U, U = WithCell(T, c, v)
  PROVE  /\ TableOK(x, U, n) /\ Len(U) = Len(T) /\ U # <<>>
         /\ \A i \in 1 .. Len(T) - 1 : U[i] = T[i]
         /\ U[Len(T)][c] = v
         /\ \A d \in Cols(x) : d # c => U[Len(T)][d] = T[Len(T)][d]
PROOF
  <1>1. PICK R : R = TableRow(x)
    OBVIOUS
  <1>2. T \in Seq(R)
    BY <1>1 DEF TableOK
  <1>3. PICK k \in Nat \ {0} : k = Len(T) /\ DOMAIN T = 1 .. k
    BY <1>2
  <1>6. T[k] \in R
    BY <1>2, <1>3
  <1>7. PICK y : y = T[k] /\ y \in R
    BY <1>6
  <1>9. PICK z : z = [y EXCEPT ![c] = v]
    OBVIOUS
  <1>5. U = [T EXCEPT ![k] = z]
    BY <1>3, <1>7, <1>9 DEF WithCell
  <1>8. /\ y \in [Cols(x) -> Cells \cup Systems] /\ y["system"] \in Systems
        /\ \A d \in Cols(x) : d # "system" => y[d] \in Cells
    BY <1>1, <1>7 DEF TableRow
  <1>10. /\ z \in [Cols(x) -> Cells \cup Systems] /\ z[c] = v
         /\ \A d \in Cols(x) : d # c => z[d] = y[d]
    BY <1>8, <1>9
  <1>11. "system" \in Cols(x)
    BY ColsFacts
  <1>12. z["system"] = y["system"] /\ \A d \in Cols(x) : d # "system" => z[d] \in Cells
    BY <1>8, <1>10, <1>11
  <1>13. z \in R
    BY <1>1, <1>8, <1>10, <1>12 DEF TableRow
  <1>14. /\ U \in Seq(R) /\ Len(U) = k /\ U[k] = z
         /\ \A i \in 1 .. k : i # k => U[i] = T[i]
    BY <1>2, <1>3, <1>5, <1>13
  <1>15. \A i \in 1 .. k : U[i]["system"] = T[i]["system"]
    BY <1>7, <1>12, <1>14
  <1>16. \A i \in 1 .. k : \E q \in 1 .. n : U[i]["system"] = Order[q]
    BY <1>3, <1>15 DEF TableOK
  <1>17. Ascending(x, U)
    BY DEF Ascending
  <1>18. TableOK(x, U, n)
    BY <1>1, <1>14, <1>16, <1>17 DEF TableOK
  <1>19. U # <<>>
    BY <1>14
  <1>20. \A i \in 1 .. k - 1 : U[i] = T[i]
    BY <1>14
  <1>21. QED
    BY <1>3, <1>7, <1>10, <1>14, <1>18, <1>19, <1>20

\* The build time of the last row is filled in: only its peak is missing.
LEMMA FillBuild ==
  ASSUME NEW x \in Names, NEW rs, NEW ms, NEW n, NEW T, NEW stable,
         Filling(x, T, n, stable, {"build_time_s", "peak_rss_mb"}, rs, ms),
         NEW v \in Cells, v = build_time_s(Found(ms[Order[n]])),
         NEW U, U = WithCell(T, "build_time_s", v)
  PROVE  Filling(x, U, n, stable, {"peak_rss_mb"}, rs, ms)
PROOF
  <1>1. /\ n \in 1 .. Len(Order) /\ T # <<>> /\ TableOK(x, T, n) /\ FAMILIES[x].source = "summary"
        /\ T[Len(T)]["system"] = Order[n]
    BY DEF Filling
  <1>2. PICK C : C = Cols(x)
    OBVIOUS
  <1>3. C = {"system", "build_time_s", "mean_ins_ops_s", "peak_rss_mb", "end_recall10"}
    BY <1>1, <1>2, ColsFacts, ColumnFacts
  <1>4. "build_time_s" \in Cols(x) /\ "build_time_s" # "system" /\ "system" \in Cols(x)
    BY <1>2, <1>3
  <1>5. /\ TableOK(x, U, n) /\ Len(U) = Len(T) /\ U # <<>>
        /\ \A i \in 1 .. Len(T) - 1 : U[i] = T[i]
        /\ U[Len(T)]["build_time_s"] = v
        /\ \A d \in Cols(x) : d # "build_time_s" => U[Len(T)][d] = T[Len(T)][d]
    <2>1. PICK c \in Cols(x) : c = "build_time_s" /\ c # "system"
      BY <1>4
    <2>2. U = WithCell(T, c, v)
      BY <2>1
    <2>3. /\ TableOK(x, U, n) /\ Len(U) = Len(T) /\ U # <<>>
          /\ \A i \in 1 .. Len(T) - 1 : U[i] = T[i]
          /\ U[Len(T)][c] = v
          /\ \A d \in Cols(x) : d # c => U[Len(T)][d] = T[Len(T)][d]
      BY <1>1, <2>1, <2>2, FillRow
    <2>4. QED
      BY <2>1, <2>3
  <1>6. U[Len(U)]["system"] = Order[n]
    BY <1>1, <1>4, <1>5
  <1>7. PICK full : full = SummaryRow(Order[n], rs[Order[n]], ms[Order[n]])
    OBVIOUS
  <1>8. full["build_time_s"] = v
    BY <1>7 DEF SummaryRow
  <1>9. ASSUME stable
        PROVE  /\ Current(x, {U[i] : i \in 1 .. Len(U) - 1}, n - 1, rs, ms) /\ rs[Order[n]] # Absent
               /\ \A c \in Cols(x) : U[Len(U)][c] = IF c \in {"peak_rss_mb"} THEN None ELSE full[c]
    <2>1. /\ Current(x, {T[i] : i \in 1 .. Len(T) - 1}, n - 1, rs, ms) /\ rs[Order[n]] # Absent
          /\ \A c \in Cols(x) : T[Len(T)][c] = IF c \in {"build_time_s", "peak_rss_mb"} THEN None ELSE full[c]
      BY <1>7, <1>9, Zenon DEF Filling
    <2>2. {U[i] : i \in 1 .. Len(U) - 1} = {T[i] : i \in 1 .. Len(T) - 1}
      BY <1>5
    <2>3. \A c \in Cols(x) : U[Len(U)][c] = IF c \in {"peak_rss_mb"} THEN None ELSE full[c]
      <3> SUFFICES ASSUME NEW c \in Cols(x)
                   PROVE  U[Len(U)][c] = IF c \in {"peak_rss_mb"} THEN None ELSE full[c]
        OBVIOUS
      <3>1. CASE c = "build_time_s"
        BY <1>5, <1>8, <3>1
      <3>2. CASE c # "build_time_s"
        BY <1>5, <2>1, <3>2
      <3>3. QED
        BY <3>1, <3>2
    <2>4. QED
      BY <2>1, <2>2, <2>3, Zenon
  <1>10. QED
    BY <1>1, <1>5, <1>6, <1>7, <1>9, Zenon DEF Filling

\* With the last value the row is the summary of its system.
LEMMA FillPeak ==
  ASSUME NEW x \in Names, NEW rs, NEW ms, NEW n, NEW T, NEW stable,
         Filling(x, T, n, stable, {"peak_rss_mb"}, rs, ms),
         NEW v \in Cells, v = peak_rss_mb(Found(ms[Order[n]])),
         NEW U, U = WithCell(T, "peak_rss_mb", v)
  PROVE  Reading(x, U, n, stable, rs, ms)
PROOF
  <1>1. /\ n \in 1 .. Len(Order) /\ T # <<>> /\ TableOK(x, T, n) /\ FAMILIES[x].source = "summary"
        /\ T[Len(T)]["system"] = Order[n]
    BY DEF Filling
  <1>2. PICK C : C = Cols(x)
    OBVIOUS
  <1>3. C = {"system", "build_time_s", "mean_ins_ops_s", "peak_rss_mb", "end_recall10"}
    BY <1>1, <1>2, ColsFacts, ColumnFacts
  <1>4. "peak_rss_mb" \in Cols(x) /\ "peak_rss_mb" # "system" /\ "system" \in Cols(x)
    BY <1>2, <1>3
  <1>5. /\ TableOK(x, U, n) /\ Len(U) = Len(T) /\ U # <<>>
        /\ \A i \in 1 .. Len(T) - 1 : U[i] = T[i]
        /\ U[Len(T)]["peak_rss_mb"] = v
        /\ \A d \in Cols(x) : d # "peak_rss_mb" => U[Len(T)][d] = T[Len(T)][d]
    <2>1. PICK c \in Cols(x) : c = "peak_rss_mb" /\ c # "system"
      BY <1>4
    <2>2. U = WithCell(T, c, v)
      BY <2>1
    <2>3. /\ TableOK(x, U, n) /\ Len(U) = Len(T) /\ U # <<>>
          /\ \A i \in 1 .. Len(T) - 1 : U[i] = T[i]
          /\ U[Len(T)][c] = v
          /\ \A d \in Cols(x) : d # c => U[Len(T)][d] = T[Len(T)][d]
      BY <1>1, <2>1, <2>2, FillRow
    <2>4. QED
      BY <2>1, <2>3
  <1>6. PICK full : full = SummaryRow(Order[n], rs[Order[n]], ms[Order[n]])
    OBVIOUS
  <1>7. full["peak_rss_mb"] = v /\ full = [c \in C |-> full[c]]
    BY <1>3, <1>6 DEF SummaryRow
  <1>8. ASSUME stable PROVE Current(x, ToSet(U), n, rs, ms)
    <2>1. /\ Current(x, {T[i] : i \in 1 .. Len(T) - 1}, n - 1, rs, ms) /\ rs[Order[n]] # Absent
          /\ \A c \in Cols(x) : T[Len(T)][c] = IF c \in {"peak_rss_mb"} THEN None ELSE full[c]
      BY <1>6, <1>8, Zenon DEF Filling
    <2>2. PICK A : A = {T[i] : i \in 1 .. Len(T) - 1}
      OBVIOUS
    <2>3. PICK k \in Nat \ {0} : k = Len(U) /\ DOMAIN U = 1 .. k /\ U \in Seq(TableRow(x))
      BY <1>5 DEF TableOK
    <2>4. PICK last : last = U[k]
      OBVIOUS
    <2>5. \A c \in C : last[c] = full[c]
      <3> SUFFICES ASSUME NEW c \in C PROVE last[c] = full[c]
        OBVIOUS
      <3>1. CASE c = "peak_rss_mb"
        BY <1>5, <1>7, <2>3, <2>4, <3>1
      <3>2. CASE c # "peak_rss_mb"
        BY <1>2, <1>5, <2>1, <2>3, <2>4, <3>2
      <3>3. QED
        BY <3>1, <3>2
    <2>6. last = full
      <3>1. last \in TableRow(x)
        BY <2>3, <2>4
      <3>2. last = [c \in C |-> last[c]]
        BY <1>2, <3>1 DEF TableRow
      <3>3. QED
        BY <1>7, <2>5, <3>2
    <2>7. Part(x, n, rs, ms) = {full}
      <3>1. Section(x, Order[n], rs[Order[n]], ms[Order[n]]) = <<full>>
        BY <1>1, <1>6, <2>1 DEF Section
      <3>2. ToSet(<<full>>) = {full}
        BY DEF ToSet
      <3>3. QED
        BY <3>1, <3>2 DEF Part
    <2>8. ToSet(U) = A \cup {full}
      <3>1. \A y : y \in ToSet(U) <=> \E i \in 1 .. k : y = U[i]
        BY <2>3 DEF ToSet
      <3>2. \A y : y \in A <=> \E i \in 1 .. k - 1 : y = U[i]
        <4>1. \A i \in 1 .. k - 1 : U[i] = T[i]
          BY <1>5, <2>3
        <4>2. A = {T[i] : i \in 1 .. k - 1}
          BY <1>5, <2>2, <2>3
        <4>3. QED
          BY <4>1, <4>2
      <3>3. \A i : i \in 1 .. k <=> i \in 1 .. k - 1 \/ i = k
        OBVIOUS
      <3>4. \A y : y \in ToSet(U) <=> y \in A \/ y = full
        BY <2>4, <2>6, <3>1, <3>2, <3>3
      <3>5. QED
        BY <3>4
    <2>9. Current(x, A, n - 1, rs, ms) /\ n \in Nat \ {0}
      BY <1>1, <2>1, <2>2, OrderAssumption
    <2>10. Current(x, A \cup Part(x, n, rs, ms), n, rs, ms)
      BY <2>9, CurrentMore
    <2>11. QED
      BY <2>7, <2>8, <2>10
  <1>9. n \in 0 .. Len(Order)
    BY <1>1, OrderAssumption
  <1>10. QED
    BY <1>5, <1>8, <1>9 DEF Reading

-----------------------------------------------------------------------------
(***************************************************************************)
(* The steps of the commands.                                              *)
(***************************************************************************)

\* The experiment that a command is at.
LEMMA AtWork ==
  ASSUME WorkInv, job.step # "next"
  PROVE  /\ f \in Experiments /\ f \in Names /\ f = Head(job.todo) /\ f \notin fresh
         /\ job.todo \in Seq(Experiments) /\ Tail(job.todo) \in Seq(Experiments)
PROOF
  <1>1. job.todo \in Seq(Experiments) /\ job.todo # <<>> /\ Head(job.todo) \notin fresh
    BY DEF WorkInv, JobOK, WorkOK
  <1>2. PICK q \in Seq(Experiments) : q = job.todo /\ q # <<>>
    BY <1>1
  <1>3. Head(q) \in Experiments /\ Tail(q) \in Seq(Experiments)
    BY <1>2
  <1>4. Experiments \subseteq Names
    BY RegisteredAssumption DEF Experiments, ToSet
  <1>5. QED
    BY <1>1, <1>2, <1>3, <1>4 DEF f

\* After a step of reading.
LEMMA ReadDoneOK ==
  ASSUME NEW c, NEW q, NEW st, NEW a, NEW T, NEW b, NEW d, NEW g, NEW fr, NEW rs, NEW ms,
         WorkOK(c, q, st, a, T, b, d, g, fr, rs, ms), st \in {"read", "build", "peak"},
         NEW U, NEW su \in {"read", "build", "peak"}, NEW au, au = IF su = "read" THEN a + 1 ELSE a,
         su = "read" => Reading(Head(q), U, a, b, rs, ms),
         su = "build" => Filling(Head(q), U, a, b, {"build_time_s", "peak_rss_mb"}, rs, ms),
         su = "peak" => Filling(Head(q), U, a, b, {"peak_rss_mb"}, rs, ms)
  PROVE  WorkOK(c, q, su, au, U, b, d, g, fr, rs, ms)
PROOF
  <1>1. /\ c \in {"none", "run", "plot", "clean"} /\ q \in Seq(Experiments) /\ st \in Steps
        /\ a \in Nat \ {0} /\ b \in BOOLEAN /\ q # <<>> /\ Head(q) \notin fr /\ c \in Aggregates
    BY DEF WorkOK
  <1>2. su \in Steps /\ au \in Nat \ {0} /\ (su = "read" => au - 1 = a) /\ (su # "read" => au = a)
    BY <1>1 DEF Steps
  <1>3. ~Draws(c, su) /\ su # "write"
    BY DEF Draws
  <1>4. su = "read" => Reading(Head(q), U, au - 1, b, rs, ms)
    BY <1>2
  <1>5. /\ su = "build" => Filling(Head(q), U, au, b, {"build_time_s", "peak_rss_mb"}, rs, ms)
        /\ su = "peak" => Filling(Head(q), U, au, b, {"peak_rss_mb"}, rs, ms)
    BY <1>2
  <1>6. QED
    BY <1>1, <1>2, <1>3, <1>4, <1>5, Zenon DEF WorkOK

\* The invariant after a step, from what the step leaves.
LEMMA WorkNext ==
  ASSUME RawInv', TablesType', NEW k, k = job', JobForm(k), NEW d, NEW g, NEW fr, NEW rs, NEW ms,
         d = dat', g = fig', fr = fresh', rs = rows', ms = mem',
         WorkOK(k.cmd, k.todo, k.step, k.at, k.table, k.stable, d, g, fr, rs, ms)
  PROVE  WorkInv'
PROOF
  BY DEF WorkInv, JobOK

\* What every step of a command finds and leaves.
LEMMA SameFiles ==
  WorkInv /\ UNCHANGED rawVars => RawInv' /\ rows' = rows /\ mem' = mem
PROOF
  BY DEF WorkInv, RawInv, rawVars, fileVars

\* A step that leaves tables and figures alone leaves their types.
LEMMA SameTables ==
  TablesType /\ UNCHANGED <<dat, fig, fresh>> => TablesType'
PROOF
  BY DEF TablesType

\* Reading a file keeps the invariant.
LEMMA ReadDoneStep ==
  ASSUME WorkInv, UNCHANGED rawVars, NEW U, NEW su \in {"read", "build", "peak"}, ReadDone(U, su),
         job.step \in {"read", "build", "peak"},
         NEW q, q = Head(job.todo), NEW a, a = job.at, NEW b, b = job.stable,
         NEW rs, NEW ms, rs = rows, ms = mem,
         su = "read" => Reading(q, U, a, b, rs, ms),
         su = "build" => Filling(q, U, a, b, {"build_time_s", "peak_rss_mb"}, rs, ms),
         su = "peak" => Filling(q, U, a, b, {"peak_rss_mb"}, rs, ms)
  PROVE  WorkInv'
PROOF
  <1>1. PICK j, k, d, g, fr : j = job /\ k = job' /\ d = dat /\ g = fig /\ fr = fresh
    OBVIOUS
  <1>2. d = dat' /\ g = fig' /\ fr = fresh'
    BY <1>1 DEF ReadDone
  <1>3. RawInv' /\ rs = rows' /\ ms = mem'
    BY SameFiles
  <1>4. TablesType'
    BY SameTables DEF ReadDone, WorkInv
  <1>5. JobForm(j) /\ WorkOK(j.cmd, j.todo, j.step, j.at, j.table, j.stable, d, g, fr, rs, ms)
    BY <1>1 DEF WorkInv, JobOK
  <1>6. PICK au : au = IF su = "read" THEN a + 1 ELSE a
    OBVIOUS
  <1>7. k = [j EXCEPT !.table = U, !.step = su, !.at = au]
    BY <1>1, <1>6 DEF ReadDone
  <1>8. /\ JobForm(k) /\ k.cmd = j.cmd /\ k.todo = j.todo /\ k.stable = j.stable
        /\ k.table = U /\ k.step = su /\ k.at = au
    BY <1>5, <1>7 DEF JobForm
  <1>9. WorkOK(j.cmd, j.todo, su, au, U, j.stable, d, g, fr, rs, ms)
    <2>1. q = Head(j.todo) /\ a = j.at /\ b = j.stable /\ j.step \in {"read", "build", "peak"}
      BY <1>1
    <2>2. WorkOK(j.cmd, j.todo, j.step, a, j.table, b, d, g, fr, rs, ms)
      BY <1>5, <2>1
    <2>3. /\ su = "read" => Reading(Head(j.todo), U, a, b, rs, ms)
          /\ su = "build" => Filling(Head(j.todo), U, a, b, {"build_time_s", "peak_rss_mb"}, rs, ms)
          /\ su = "peak" => Filling(Head(j.todo), U, a, b, {"peak_rss_mb"}, rs, ms)
      BY <2>1
    <2>4. QED
      BY <1>6, <2>1, <2>2, <2>3, ReadDoneOK
  <1>10. WorkOK(k.cmd, k.todo, k.step, k.at, k.table, k.stable, d, g, fr, rs, ms)
    BY <1>8, <1>9
  <1>11. QED
    BY <1>1, <1>2, <1>3, <1>4, <1>8, <1>10, WorkNext

\* Reading the files of one system.
LEMMA ReadSystemStep ==
  WorkInv /\ UNCHANGED rawVars /\ ReadSystem => WorkInv'
PROOF
  <1> SUFFICES ASSUME WorkInv, UNCHANGED rawVars, ReadSystem PROVE WorkInv'
    OBVIOUS
  <1>1. job.step = "read" /\ job.step # "next" /\ job.at <= Len(Order)
    BY DEF ReadSystem, At
  <1>2. PICK x \in Names : x = f /\ x = Head(job.todo)
    BY <1>1, AtWork
  <1>3. PICK n, T, b, rs, ms : n = job.at /\ T = job.table /\ b = job.stable /\ rs = rows /\ ms = mem
    OBVIOUS
  <1>4. n \in 1 .. Len(Order) /\ Reading(x, T, n - 1, b, rs, ms)
    <2>1. n \in Nat \ {0} /\ Reading(x, T, n - 1, b, rs, ms)
      BY <1>1, <1>2, <1>3 DEF WorkInv, JobOK, WorkOK
    <2>2. Len(Order) \in Nat
      BY OrderAssumption
    <2>3. QED
      BY <1>1, <1>3, <2>1, <2>2
  <1>5. PICK s \in Systems : s = Order[n]
    BY <1>4, OrderAssumption
  <1>6. PICK r, m : r = rs[s] /\ m = ms[s]
    OBVIOUS
  <1>7. /\ FAMILIES[x].source # "summary" \/ r = Absent => SectionOK(x, Section(x, s, r, m), s)
        /\ RowsOK(Found(r)) /\ MemOK(Found(m)) /\ (r # Absent => Found(r) = r)
    <2>1. FilesOK(rows[s], mem[s], cache[s], leg[s], epoch[s], written)
      BY DEF WorkInv, RawInv
    <2>2. PICK cc, l, e, w : cc = cache[s] /\ l = leg[s] /\ e = epoch[s] /\ w = written
      OBVIOUS
    <2>3. FilesOK(r, m, cc, l, e, w)
      BY <1>3, <1>6, <2>1, <2>2
    <2>4. QED
      BY <2>3, SectionHolds
  <1>8. PICK Z : Z = Section(x, s, r, m)
    OBVIOUS
  <1>9. ASSUME NEW U, ReadDone(U, "read"), U = T \o Z, SectionOK(x, Z, s)
        PROVE  WorkInv'
    <2>1. Reading(x, T \o Z, n, b, rs, ms)
      BY <1>4, <1>5, <1>6, <1>8, <1>9, ReadMore
    <2>2. Reading(x, U, n, b, rs, ms)
      BY <1>9, <2>1
    <2>3. QED
      BY <1>1, <1>2, <1>3, <1>9, <2>2, ReadDoneStep
  <1>10. CASE Source = "epoch" /\ ReadDone(job.table \o aggregate_epoch(s, Found(rows[s])), "read")
    <2>1. PICK U : U = T \o Z
      OBVIOUS
    <2>2. FAMILIES[x].source = "epoch"
      BY <1>2, <1>10 DEF Source
    <2>3. Z = aggregate_epoch(s, Found(r)) /\ SectionOK(x, Z, s)
      BY <1>7, <1>8, <2>2 DEF Section
    <2>4. U = job.table \o aggregate_epoch(s, Found(rows[s]))
      BY <1>3, <1>6, <2>1, <2>3
    <2>5. ReadDone(U, "read")
      BY <1>10, <2>4
    <2>6. QED
      BY <1>9, <2>1, <2>3, <2>5
  <1>11. CASE Source = "mem" /\ ReadDone(job.table \o aggregate_mem(s, Served(Found(mem[s]))), "read")
    <2>1. PICK U : U = T \o Z
      OBVIOUS
    <2>2. FAMILIES[x].source = "mem"
      BY <1>2, <1>11 DEF Source
    <2>3. Z = aggregate_mem(s, Served(Found(m))) /\ SectionOK(x, Z, s)
      BY <1>7, <1>8, <2>2 DEF Section
    <2>4. U = job.table \o aggregate_mem(s, Served(Found(mem[s])))
      BY <1>3, <1>6, <2>1, <2>3
    <2>5. ReadDone(U, "read")
      BY <1>11, <2>4
    <2>6. QED
      BY <1>9, <2>1, <2>3, <2>5
  <1>12. CASE Source = "summary" /\ rows[s] = Absent /\ ReadDone(job.table, "read")
    <2>1. FAMILIES[x].source = "summary" /\ r = Absent
      BY <1>2, <1>3, <1>6, <1>12 DEF Source
    <2>2. Z = <<>> /\ SectionOK(x, Z, s)
      BY <1>7, <1>8, <2>1 DEF Section
    <2>3. T = T \o Z
      <3>1. PICK R : R = TableRow(x)
        OBVIOUS
      <3>2. T \in Seq(R)
        BY <1>4, <3>1 DEF Reading, TableOK
      <3>3. QED
        BY <2>2, <3>2
    <2>4. ReadDone(T, "read")
      BY <1>3, <1>12
    <2>5. QED
      BY <1>9, <2>2, <2>3, <2>4
  <1>13. CASE Source = "summary" /\ rows[s] # Absent
              /\ ReadDone(Append(job.table,
                            [system |-> s, build_time_s |-> None, peak_rss_mb |-> None,
                             mean_ins_ops_s |-> mean_ins_ops_s(rows[s]),
                             end_recall10 |-> end_recall10(rows[s])]), "build")
    <2>1. FAMILIES[x].source = "summary" /\ r # Absent /\ r = Found(r)
      BY <1>2, <1>3, <1>6, <1>7, <1>13 DEF Source
    <2>2. PICK y, z \in Cells : y = mean_ins_ops_s(r) /\ z = end_recall10(r)
      BY <1>7, <2>1, Scalars
    <2>3. PICK row : row = [system |-> s, build_time_s |-> None, peak_rss_mb |-> None,
                            mean_ins_ops_s |-> y, end_recall10 |-> z]
      OBVIOUS
    <2>4. PICK U : U = Append(T, row)
      OBVIOUS
    <2>5. Filling(x, U, n, b, {"build_time_s", "peak_rss_mb"}, rs, ms)
      <3>1. Filling(x, Append(T, row), n, b, {"build_time_s", "peak_rss_mb"}, rs, ms)
        BY <1>4, <1>5, <1>6, <2>1, <2>2, <2>3, BeginRow
      <3>2. QED
        BY <2>4, <3>1
    <2>6. ReadDone(U, "build")
      BY <1>3, <1>6, <1>13, <2>2, <2>3, <2>4
    <2>7. QED
      BY <1>1, <1>2, <1>3, <2>5, <2>6, ReadDoneStep
  <1>14. QED
    BY <1>3, <1>5, <1>10, <1>11, <1>12, <1>13 DEF ReadSystem

\* The build time of a summary row is read.
LEMMA ReadBuildStep ==
  WorkInv /\ UNCHANGED rawVars /\ ReadBuild => WorkInv'
PROOF
  <1> SUFFICES ASSUME WorkInv, UNCHANGED rawVars, ReadBuild PROVE WorkInv'
    OBVIOUS
  <1>1. job.step = "build" /\ job.step # "next"
    BY DEF ReadBuild, At
  <1>2. PICK x \in Names : x = f /\ x = Head(job.todo)
    BY <1>1, AtWork
  <1>3. PICK n, T, b, rs, ms : n = job.at /\ T = job.table /\ b = job.stable /\ rs = rows /\ ms = mem
    OBVIOUS
  <1>4. Filling(x, T, n, b, {"build_time_s", "peak_rss_mb"}, rs, ms)
    BY <1>1, <1>2, <1>3 DEF WorkInv, JobOK, WorkOK
  <1>5. n \in 1 .. Len(Order)
    BY <1>4 DEF Filling
  <1>6. PICK s \in Systems : s = Order[n]
    BY <1>5, OrderAssumption
  <1>7. PICK v \in Cells : v = build_time_s(Found(ms[s]))
    <2>1. FilesOK(rows[s], mem[s], cache[s], leg[s], epoch[s], written)
      BY DEF WorkInv, RawInv
    <2>2. RowsOK(Found(rows[s])) /\ MemOK(Found(mem[s]))
      BY <2>1 DEF FilesOK
    <2>3. PICK r, m : r = Found(rows[s]) /\ m = Found(mem[s])
      OBVIOUS
    <2>4. build_time_s(m) \in Cells
      BY <2>2, <2>3, Scalars
    <2>5. QED
      BY <1>3, <2>3, <2>4
  <1>8. PICK U : U = WithCell(T, "build_time_s", v)
    OBVIOUS
  <1>9. Filling(x, U, n, b, {"peak_rss_mb"}, rs, ms)
    BY <1>4, <1>6, <1>7, <1>8, FillBuild
  <1>10. ReadDone(U, "peak")
    BY <1>3, <1>6, <1>7, <1>8 DEF ReadBuild, Filled, WithCell
  <1>11. QED
    BY <1>1, <1>2, <1>3, <1>9, <1>10, ReadDoneStep

\* The peak of a summary row is read.
LEMMA ReadPeakStep ==
  WorkInv /\ UNCHANGED rawVars /\ ReadPeak => WorkInv'
PROOF
  <1> SUFFICES ASSUME WorkInv, UNCHANGED rawVars, ReadPeak PROVE WorkInv'
    OBVIOUS
  <1>1. job.step = "peak" /\ job.step # "next"
    BY DEF ReadPeak, At
  <1>2. PICK x \in Names : x = f /\ x = Head(job.todo)
    BY <1>1, AtWork
  <1>3. PICK n, T, b, rs, ms : n = job.at /\ T = job.table /\ b = job.stable /\ rs = rows /\ ms = mem
    OBVIOUS
  <1>4. Filling(x, T, n, b, {"peak_rss_mb"}, rs, ms)
    BY <1>1, <1>2, <1>3 DEF WorkInv, JobOK, WorkOK
  <1>5. n \in 1 .. Len(Order)
    BY <1>4 DEF Filling
  <1>6. PICK s \in Systems : s = Order[n]
    BY <1>5, OrderAssumption
  <1>7. PICK v \in Cells : v = peak_rss_mb(Found(ms[s]))
    <2>1. FilesOK(rows[s], mem[s], cache[s], leg[s], epoch[s], written)
      BY DEF WorkInv, RawInv
    <2>2. RowsOK(Found(rows[s])) /\ MemOK(Found(mem[s]))
      BY <2>1 DEF FilesOK
    <2>3. PICK r, m : r = Found(rows[s]) /\ m = Found(mem[s])
      OBVIOUS
    <2>4. peak_rss_mb(m) \in Cells
      BY <2>2, <2>3, Scalars
    <2>5. QED
      BY <1>3, <2>3, <2>4
  <1>8. PICK U : U = WithCell(T, "peak_rss_mb", v)
    OBVIOUS
  <1>9. Reading(x, U, n, b, rs, ms)
    BY <1>4, <1>6, <1>7, <1>8, FillPeak
  <1>10. ReadDone(U, "read")
    BY <1>3, <1>6, <1>7, <1>8 DEF ReadPeak, Filled, WithCell
  <1>11. QED
    BY <1>1, <1>2, <1>3, <1>9, <1>10, ReadDoneStep

\* A command between two experiments.
LEMMA NextOK ==
  ASSUME NEW c \in {"none", "run", "plot", "clean"}, NEW q \in Seq(Experiments), NEW a \in Nat \ {0},
         NEW b \in BOOLEAN, NEW T, NEW d, NEW g, NEW fr, NEW rs, NEW ms
  PROVE  WorkOK(c, q, "next", a, T, b, d, g, fr, rs, ms)
PROOF
  BY DEF WorkOK, Steps, Draws

\* A step that leaves the raw files alone; k is the command after it.
LEMMA JobStep ==
  ASSUME WorkInv, UNCHANGED rawVars, TablesType', NEW k, k = job', JobForm(k),
         NEW d, NEW g, NEW fr, NEW rs, NEW ms,
         d = dat', g = fig', fr = fresh', rs = rows, ms = mem,
         WorkOK(k.cmd, k.todo, k.step, k.at, k.table, k.stable, d, g, fr, rs, ms)
  PROVE  WorkInv'
PROOF
  <1>1. RawInv' /\ rs = rows' /\ ms = mem'
    BY SameFiles
  <1>2. QED
    BY <1>1, WorkNext

\* A step from one experiment to the next.
LEMMA FollowingStep ==
  ASSUME WorkInv, UNCHANGED rawVars, TablesType', job.step # "next", job' = Following
  PROVE  WorkInv'
PROOF
  <1>1. PICK j, k, d, g, fr, rs, ms : /\ j = job /\ k = job' /\ d = dat' /\ g = fig' /\ fr = fresh'
                                      /\ rs = rows /\ ms = mem
    OBVIOUS
  <1>2. JobForm(j) /\ j.cmd \in {"none", "run", "plot", "clean"} /\ j.at \in Nat \ {0} /\ j.stable \in BOOLEAN
    BY <1>1 DEF WorkInv, JobOK, WorkOK
  <1>3. PICK q \in Seq(Experiments) : q = Tail(j.todo)
    BY <1>1, AtWork
  <1>4. k = [j EXCEPT !.todo = q, !.step = "next"]
    BY <1>1, <1>3 DEF Following
  <1>5. /\ JobForm(k) /\ k.cmd = j.cmd /\ k.todo = q /\ k.stable = j.stable
        /\ k.step = "next" /\ k.at = j.at
    BY <1>2, <1>4 DEF JobForm
  <1>6. WorkOK(k.cmd, k.todo, k.step, k.at, k.table, k.stable, d, g, fr, rs, ms)
    BY <1>2, <1>5, NextOK
  <1>7. QED
    BY <1>1, <1>5, <1>6, JobStep

\* Before the first row.
LEMMA NothingRead ==
  ASSUME NEW x, NEW rs, NEW ms
  PROVE  Reading(x, <<>>, 0, TRUE, rs, ms)
PROOF
  <1>1. TableOK(x, <<>>, 0)
    <2>1. Len(<<>>) = 0 /\ 1 .. 0 = {}
      OBVIOUS
    <2>2. PICK R : R = TableRow(x)
      OBVIOUS
    <2>3. <<>> \in Seq(R)
      OBVIOUS
    <2>4. QED
      BY <2>1, <2>2, <2>3 DEF TableOK, Ascending
  <1>2. Current(x, ToSet(<<>>), 0, rs, ms)
    <2>1. ToSet(<<>>) = {}
      BY DEF ToSet
    <2>2. UNION {Part(x, k, rs, ms) : k \in 1 .. 0} = {}
      OBVIOUS
    <2>3. QED
      BY <2>1, <2>2 DEF Current
  <1>3. QED
    BY <1>1, <1>2, OrderAssumption DEF Reading

\* An experiment is taken up: it is no longer fresh.
LEMMA TakeUpStep ==
  WorkInv /\ UNCHANGED rawVars /\ TakeUp => WorkInv'
PROOF
  <1> SUFFICES ASSUME WorkInv, UNCHANGED rawVars, TakeUp PROVE WorkInv'
    OBVIOUS
  <1>1. PICK j, k, d, g, fr, rs, ms : /\ j = job /\ k = job' /\ d = dat' /\ g = fig' /\ fr = fresh'
                                      /\ rs = rows /\ ms = mem
    OBVIOUS
  <1>2. JobForm(j) /\ j.cmd \in {"none", "run", "plot", "clean"} /\ j.todo \in Seq(Experiments) /\ j.todo # <<>>
    BY <1>1 DEF WorkInv, JobOK, WorkOK, TakeUp, At
  <1>3. PICK st : st = IF j.cmd \in Aggregates THEN "read" ELSE IF j.cmd = "clean" THEN "dat" ELSE "pdf"
    OBVIOUS
  <1>4. j.cmd # "none"
    BY <1>1 DEF TakeUp, At
  <1>5. st \in Steps /\ st # "next" /\ (st = "read" => j.cmd \in Aggregates) /\ st \in {"read", "dat", "pdf"}
        /\ ~Draws(j.cmd, st) /\ (st = "dat" => j.cmd = "clean")
    BY <1>3 DEF Steps, Draws
  <1>6. k = [j EXCEPT !.step = st, !.at = 1, !.table = <<>>, !.stable = TRUE]
    BY <1>1, <1>3 DEF TakeUp
  <1>7. /\ JobForm(k) /\ k.cmd = j.cmd /\ k.todo = j.todo /\ k.stable = TRUE
        /\ k.step = st /\ k.at = 1 /\ k.table = <<>>
    BY <1>2, <1>6 DEF JobForm
  <1>8. Head(j.todo) \notin fr
    BY <1>1 DEF TakeUp, f
  <1>9. WorkOK(j.cmd, j.todo, st, 1, <<>>, TRUE, d, g, fr, rs, ms)
    <2>1. Reading(Head(j.todo), <<>>, 1 - 1, TRUE, rs, ms)
      <3>1. 1 - 1 = 0
        OBVIOUS
      <3>2. Reading(Head(j.todo), <<>>, 0, TRUE, rs, ms)
        BY NothingRead
      <3>3. QED
        BY <3>1, <3>2
    <2>2. 1 \in Nat \ {0} /\ TRUE \in BOOLEAN
      OBVIOUS
    <2>3. QED
      BY <1>2, <1>5, <1>8, <2>1, <2>2, Zenon DEF WorkOK
  <1>10. WorkOK(k.cmd, k.todo, k.step, k.at, k.table, k.stable, d, g, fr, rs, ms)
    BY <1>7, <1>9
  <1>11. TablesType'
    BY DEF TakeUp, WorkInv, TablesType
  <1>12. QED
    BY <1>1, <1>7, <1>10, <1>11, JobStep

\* An experiment without rows is passed over.
LEMMA SkipStep ==
  WorkInv /\ UNCHANGED rawVars /\ Skip => WorkInv'
PROOF
  <1> SUFFICES ASSUME WorkInv, UNCHANGED rawVars, Skip PROVE WorkInv'
    OBVIOUS
  <1>1. job.step # "next" /\ job' = Following
    BY DEF Skip, Aggregated, At
  <1>2. TablesType'
    BY SameTables DEF Skip, WorkInv
  <1>3. QED
    BY <1>1, <1>2, FollowingStep

\* The table is opened and written.
LEMMA OpenDatStep ==
  WorkInv /\ UNCHANGED rawVars /\ OpenDat => WorkInv'
PROOF
  <1> SUFFICES ASSUME WorkInv, UNCHANGED rawVars, OpenDat PROVE WorkInv'
    OBVIOUS
  <1>1. PICK j, k, d, g, fr, rs, ms : /\ j = job /\ k = job' /\ d = dat' /\ g = fig' /\ fr = fresh'
                                      /\ rs = rows /\ ms = mem
    OBVIOUS
  <1>2. j.step = "read" /\ j.at > Len(Order)
    BY <1>1 DEF OpenDat, Aggregated, At
  <1>3. /\ JobForm(j) /\ WorkOK(j.cmd, j.todo, "read", j.at, j.table, j.stable, dat, fig, fr, rs, ms)
    BY <1>1, <1>2 DEF WorkInv, JobOK, OpenDat
  <1>4. /\ j.cmd \in {"none", "run", "plot", "clean"} /\ j.todo \in Seq(Experiments) /\ j.todo # <<>>
        /\ j.at \in Nat \ {0} /\ j.stable \in BOOLEAN /\ Head(j.todo) \notin fr /\ j.cmd \in Aggregates
        /\ Reading(Head(j.todo), j.table, j.at - 1, j.stable, rs, ms)
    BY <1>3 DEF WorkOK
  <1>5. j.at - 1 = Len(Order)
    <2>1. j.at - 1 \in 0 .. Len(Order)
      BY <1>4 DEF Reading
    <2>2. Len(Order) \in Nat
      BY OrderAssumption
    <2>3. QED
      BY <1>2, <1>4, <2>1, <2>2
  <1>6. k = [j EXCEPT !.step = "write"]
    BY <1>1 DEF OpenDat
  <1>7. /\ JobForm(k) /\ k.cmd = j.cmd /\ k.todo = j.todo /\ k.stable = j.stable
        /\ k.step = "write" /\ k.at = j.at /\ k.table = j.table
    BY <1>3, <1>6 DEF JobForm
  <1>8. WorkOK(j.cmd, j.todo, "write", j.at, j.table, j.stable, d, g, fr, rs, ms)
    <2>1. ~Draws(j.cmd, "write") /\ "write" \in Steps
      BY DEF Draws, Steps
    <2>2. Reading(Head(j.todo), j.table, Len(Order), j.stable, rs, ms)
      BY <1>4, <1>5
    <2>3. QED
      BY <1>4, <2>1, <2>2, Zenon DEF WorkOK
  <1>9. WorkOK(k.cmd, k.todo, k.step, k.at, k.table, k.stable, d, g, fr, rs, ms)
    BY <1>7, <1>8
  <1>10. TablesType'
    BY DEF OpenDat, WorkInv, TablesType
  <1>11. QED
    BY <1>1, <1>7, <1>9, <1>10, JobStep

\* The table reaches its file as it was aggregated.
LEMMA WriteDatStep ==
  WorkInv /\ UNCHANGED rawVars /\ WriteDat => WorkInv'
PROOF
  <1> SUFFICES ASSUME WorkInv, UNCHANGED rawVars, WriteDat PROVE WorkInv'
    OBVIOUS
  <1>1. PICK j, k, d, g, fr, rs, ms : /\ j = job /\ k = job' /\ d = dat' /\ g = fig' /\ fr = fresh'
                                      /\ rs = rows /\ ms = mem
    OBVIOUS
  <1>2. j.step = "write" /\ job.step # "next"
    BY <1>1 DEF WriteDat, At
  <1>3. /\ JobForm(j) /\ WorkOK(j.cmd, j.todo, "write", j.at, j.table, j.stable, dat, fig, fr, rs, ms)
    BY <1>1, <1>2 DEF WorkInv, JobOK, WriteDat
  <1>4. /\ j.cmd \in {"none", "run", "plot", "clean"} /\ j.todo \in Seq(Experiments) /\ j.todo # <<>>
        /\ j.at \in Nat \ {0} /\ j.stable \in BOOLEAN /\ Head(j.todo) \notin fr /\ j.cmd \in Aggregates
        /\ Reading(Head(j.todo), j.table, Len(Order), j.stable, rs, ms)
    BY <1>3 DEF WorkOK
  <1>5. PICK x \in Experiments : x = f /\ x = Head(j.todo)
    BY <1>1, <1>2, AtWork
  <1>6. d[x] = File(x, j.table)
    <2>1. DOMAIN dat = Experiments
      BY DEF WorkInv, TablesType
    <2>2. dat' = [dat EXCEPT ![x] = File(x, j.table)]
      BY <1>1, <1>5 DEF WriteDat, File, Source
    <2>3. QED
      BY <1>1, <2>1, <2>2
  <1>7. k = [j EXCEPT !.step = "pdf"]
    BY <1>1 DEF WriteDat
  <1>8. /\ JobForm(k) /\ k.cmd = j.cmd /\ k.todo = j.todo /\ k.stable = j.stable
        /\ k.step = "pdf" /\ k.at = j.at /\ k.table = j.table
    BY <1>3, <1>7 DEF JobForm
  <1>9. WorkOK(j.cmd, j.todo, "pdf", j.at, j.table, j.stable, d, g, fr, rs, ms)
    <2>1. "pdf" \in Steps
      BY DEF Steps
    <2>2. QED
      BY <1>4, <1>5, <1>6, <2>1, Zenon DEF WorkOK
  <1>10. WorkOK(k.cmd, k.todo, k.step, k.at, k.table, k.stable, d, g, fr, rs, ms)
    BY <1>8, <1>9
  <1>11. TablesType'
    BY DEF WriteDat, WorkInv, TablesType
  <1>12. QED
    BY <1>1, <1>8, <1>10, <1>11, JobStep

\* One format of one figure is replaced.
Put(g, x, format, v) == [g EXCEPT ![x][format] = v]
\* What is replaced is one format of one figure.
LEMMA FigureStep ==
  ASSUME TablesType, NEW x \in Experiments, NEW format \in {"pdf", "svg"}, NEW v,
         fig' = Put(fig, x, format, v)
  PROVE  /\ DOMAIN fig' = Experiments /\ fig'[x][format] = v
         /\ \A other \in {"pdf", "svg"} : other # format => fig'[x][other] = fig[x][other]
         /\ \A y \in Experiments : y # x => fig'[y] = fig[y]
         /\ \A y \in Experiments : fig'[y] = [pdf |-> fig'[y]["pdf"], svg |-> fig'[y]["svg"]]
PROOF
  <1>1. PICK g : g = fig[x]
    OBVIOUS
  <1>2. g = [pdf |-> g["pdf"], svg |-> g["svg"]]
    BY <1>1 DEF TablesType
  <1>3. PICK h : h = [g EXCEPT ![format] = v]
    OBVIOUS
  <1>4. /\ h = [pdf |-> h["pdf"], svg |-> h["svg"]] /\ h[format] = v
        /\ \A other \in {"pdf", "svg"} : other # format => h[other] = g[other]
    BY <1>2, <1>3
  <1>5. DOMAIN fig = Experiments
    BY DEF TablesType
  <1>6. fig' = [fig EXCEPT ![x] = h]
    BY <1>1, <1>3 DEF Put
  <1>7. DOMAIN fig' = Experiments /\ fig'[x] = h /\ \A y \in Experiments : y # x => fig'[y] = fig[y]
    BY <1>5, <1>6
  <1>8. \A y \in Experiments : fig'[y] = [pdf |-> fig'[y]["pdf"], svg |-> fig'[y]["svg"]]
    <2> SUFFICES ASSUME NEW y \in Experiments
                 PROVE  fig'[y] = [pdf |-> fig'[y]["pdf"], svg |-> fig'[y]["svg"]]
      OBVIOUS
    <2>1. CASE y = x
      BY <1>4, <1>7, <2>1
    <2>2. CASE y # x
      <3>1. fig'[y] = fig[y]
        BY <1>7, <2>2
      <3>2. fig[y] = [pdf |-> fig[y]["pdf"], svg |-> fig[y]["svg"]]
        BY DEF TablesType
      <3>3. QED
        BY <3>1, <3>2
    <2>3. QED
      BY <2>1, <2>2
  <1>9. QED
    BY <1>1, <1>4, <1>7, <1>8

\* The first format is saved.
LEMMA SavePdfStep ==
  WorkInv /\ UNCHANGED rawVars /\ SavePdf => WorkInv'
PROOF
  <1> SUFFICES ASSUME WorkInv, UNCHANGED rawVars, SavePdf PROVE WorkInv'
    OBVIOUS
  <1>1. PICK j, k, d, g, fr, rs, ms : /\ j = job /\ k = job' /\ d = dat' /\ g = fig' /\ fr = fresh'
                                      /\ rs = rows /\ ms = mem
    OBVIOUS
  <1>2. j.step = "pdf" /\ job.step # "next" /\ j.cmd # "clean"
    BY <1>1 DEF SavePdf, At
  <1>3. /\ JobForm(j) /\ WorkOK(j.cmd, j.todo, "pdf", j.at, j.table, j.stable, d, fig, fr, rs, ms)
    BY <1>1, <1>2 DEF WorkInv, JobOK, SavePdf
  <1>4. /\ j.cmd \in {"none", "run", "plot", "clean"} /\ j.todo \in Seq(Experiments) /\ j.todo # <<>>
        /\ j.at \in Nat \ {0} /\ j.stable \in BOOLEAN /\ Head(j.todo) \notin fr
        /\ Draws(j.cmd, "pdf") => /\ Reading(Head(j.todo), j.table, Len(Order), j.stable, rs, ms)
                                  /\ d[Head(j.todo)] = File(Head(j.todo), j.table)
    BY <1>3 DEF WorkOK
  <1>5. PICK x \in Experiments : x = f /\ x = Head(j.todo)
    BY <1>1, <1>2, AtWork
  <1>6. PICK v : v = Draw(x, read_dat(d[x]))
    OBVIOUS
  <1>7. fig' = Put(fig, x, "pdf", v)
    BY <1>1, <1>5, <1>6 DEF SavePdf, Saved, Put
  <1>8. /\ DOMAIN fig' = Experiments /\ g[x]["pdf"] = v
        /\ \A y \in Experiments : fig'[y] = [pdf |-> fig'[y]["pdf"], svg |-> fig'[y]["svg"]]
    BY <1>1, <1>7, FigureStep DEF WorkInv
  <1>9. Draws(j.cmd, "svg") => Draws(j.cmd, "pdf")
    BY DEF Draws
  <1>10. Draws(j.cmd, "svg") => g[x]["pdf"] = Picture(x, j.table)
    BY <1>4, <1>5, <1>6, <1>8, <1>9 DEF Picture
  <1>11. k = [j EXCEPT !.step = "svg"]
    BY <1>1 DEF SavePdf
  <1>12. /\ JobForm(k) /\ k.cmd = j.cmd /\ k.todo = j.todo /\ k.stable = j.stable
         /\ k.step = "svg" /\ k.at = j.at /\ k.table = j.table
    BY <1>3, <1>11 DEF JobForm
  <1>13. WorkOK(j.cmd, j.todo, "svg", j.at, j.table, j.stable, d, g, fr, rs, ms)
    <2>1. "svg" \in Steps
      BY DEF Steps
    <2>2. QED
      BY <1>4, <1>5, <1>9, <1>10, <2>1, Zenon DEF WorkOK
  <1>14. WorkOK(k.cmd, k.todo, k.step, k.at, k.table, k.stable, d, g, fr, rs, ms)
    BY <1>12, <1>13
  <1>15. TablesType'
    BY <1>8 DEF SavePdf, WorkInv, TablesType
  <1>16. QED
    BY <1>1, <1>12, <1>14, <1>15, JobStep

\* The second format is saved, and the command turns to the next experiment.
LEMMA SaveSvgStep ==
  WorkInv /\ UNCHANGED rawVars /\ SaveSvg => WorkInv'
PROOF
  <1> SUFFICES ASSUME WorkInv, UNCHANGED rawVars, SaveSvg PROVE WorkInv'
    OBVIOUS
  <1>1. job.step # "next" /\ job' = Following
    BY DEF SaveSvg, At
  <1>2. PICK x \in Experiments : x = f
    BY <1>1, AtWork
  <1>3. PICK v : v = Draw(x, read_dat(dat[x]))
    OBVIOUS
  <1>4. fig' = Put(fig, x, "svg", v)
    BY <1>2, <1>3 DEF SaveSvg, Saved, Put
  <1>5. /\ DOMAIN fig' = Experiments
        /\ \A y \in Experiments : fig'[y] = [pdf |-> fig'[y]["pdf"], svg |-> fig'[y]["svg"]]
    BY <1>4, FigureStep DEF WorkInv
  <1>6. fresh' \subseteq Experiments /\ dat' = dat
    BY <1>2 DEF SaveSvg, WorkInv, TablesType
  <1>7. TablesType'
    BY <1>5, <1>6 DEF WorkInv, TablesType
  <1>8. QED
    BY <1>1, <1>7, FollowingStep

\* A clean removes the table and then the figures.
LEMMA RemoveDatStep ==
  WorkInv /\ UNCHANGED rawVars /\ RemoveDat => WorkInv'
PROOF
  <1> SUFFICES ASSUME WorkInv, UNCHANGED rawVars, RemoveDat PROVE WorkInv'
    OBVIOUS
  <1>1. PICK j, k, d, g, fr, rs, ms : /\ j = job /\ k = job' /\ d = dat' /\ g = fig' /\ fr = fresh'
                                      /\ rs = rows /\ ms = mem
    OBVIOUS
  <1>2. j.step = "dat"
    BY <1>1 DEF RemoveDat, At
  <1>3. JobForm(j) /\ WorkOK(j.cmd, j.todo, "dat", j.at, j.table, j.stable, dat, fig, fr, rs, ms)
    BY <1>1, <1>2 DEF WorkInv, JobOK, RemoveDat
  <1>4. /\ j.cmd = "clean" /\ j.todo \in Seq(Experiments) /\ j.todo # <<>>
        /\ j.at \in Nat \ {0} /\ j.stable \in BOOLEAN /\ Head(j.todo) \notin fr
    BY <1>3 DEF WorkOK
  <1>5. k = [j EXCEPT !.step = "pdf"]
    BY <1>1 DEF RemoveDat
  <1>6. /\ JobForm(k) /\ k.cmd = j.cmd /\ k.todo = j.todo /\ k.stable = j.stable
        /\ k.step = "pdf" /\ k.at = j.at /\ k.table = j.table
    BY <1>3, <1>5 DEF JobForm
  <1>7. WorkOK(j.cmd, j.todo, "pdf", j.at, j.table, j.stable, d, g, fr, rs, ms)
    <2>1. "pdf" \in Steps /\ ~Draws(j.cmd, "pdf")
      BY <1>4 DEF Steps, Draws, Aggregates
    <2>2. QED
      BY <1>4, <2>1, Zenon DEF WorkOK
  <1>8. WorkOK(k.cmd, k.todo, k.step, k.at, k.table, k.stable, d, g, fr, rs, ms)
    BY <1>6, <1>7
  <1>9. TablesType'
    BY DEF RemoveDat, WorkInv, TablesType
  <1>10. QED
    BY <1>1, <1>6, <1>8, <1>9, JobStep

\* A clean removes one format.
LEMMA RemoveFigStep ==
  ASSUME WorkInv, UNCHANGED rawVars, NEW format \in {"pdf", "svg"}, NEW step \in {"svg", "next"},
         RemoveFig(format, step)
  PROVE  WorkInv'
PROOF
  <1>1. PICK j, k, d, g, fr, rs, ms : /\ j = job /\ k = job' /\ d = dat' /\ g = fig' /\ fr = fresh'
                                      /\ rs = rows /\ ms = mem
    OBVIOUS
  <1>2. job.step = format /\ job.step # "next" /\ j.cmd = "clean"
    BY <1>1 DEF RemoveFig, At
  <1>3. PICK x \in Experiments : x = f
    BY <1>2, AtWork
  <1>4. fig' = Put(fig, x, format, Absent)
    BY <1>3 DEF RemoveFig, Put
  <1>5. /\ DOMAIN fig' = Experiments
        /\ \A y \in Experiments : fig'[y] = [pdf |-> fig'[y]["pdf"], svg |-> fig'[y]["svg"]]
    BY <1>4, FigureStep DEF WorkInv
  <1>6. TablesType'
    BY <1>5 DEF RemoveFig, WorkInv, TablesType
  <1>7. CASE step = "next"
    <2>1. job' = Following
      BY <1>7 DEF RemoveFig
    <2>2. QED
      BY <1>2, <1>6, <2>1, FollowingStep
  <1>8. CASE step = "svg"
    <2>1. JobForm(j) /\ WorkOK(j.cmd, j.todo, j.step, j.at, j.table, j.stable, dat, fig, fr, rs, ms)
      BY <1>1 DEF WorkInv, JobOK, RemoveFig
    <2>2. /\ j.cmd = "clean" /\ j.todo \in Seq(Experiments) /\ j.todo # <<>>
          /\ j.at \in Nat \ {0} /\ j.stable \in BOOLEAN /\ Head(j.todo) \notin fr
      BY <1>1, <1>2, <2>1 DEF WorkOK
    <2>3. k = [j EXCEPT !.step = "svg"]
      BY <1>1, <1>8 DEF RemoveFig
    <2>4. /\ JobForm(k) /\ k.cmd = j.cmd /\ k.todo = j.todo /\ k.stable = j.stable
          /\ k.step = "svg" /\ k.at = j.at /\ k.table = j.table
      BY <2>1, <2>3 DEF JobForm
    <2>5. WorkOK(j.cmd, j.todo, "svg", j.at, j.table, j.stable, d, g, fr, rs, ms)
      <3>1. "svg" \in Steps /\ ~Draws(j.cmd, "svg")
        BY <2>2 DEF Steps, Draws, Aggregates
      <3>2. QED
        BY <2>2, <3>1, Zenon DEF WorkOK
    <2>6. WorkOK(k.cmd, k.todo, k.step, k.at, k.table, k.stable, d, g, fr, rs, ms)
      BY <2>4, <2>5
    <2>7. QED
      BY <1>1, <1>6, <2>4, <2>6, JobStep
  <1>9. QED
    BY <1>7, <1>8

\* A command ends or is killed.
LEMMA EndStep ==
  WorkInv /\ UNCHANGED rawVars /\ End => WorkInv'
PROOF
  <1> SUFFICES ASSUME WorkInv, UNCHANGED rawVars, End PROVE WorkInv'
    OBVIOUS
  <1>1. PICK k, d, g, fr, rs, ms : /\ k = job' /\ d = dat' /\ g = fig' /\ fr = fresh'
                                   /\ rs = rows /\ ms = mem
    OBVIOUS
  <1>2. k = [cmd |-> "none", todo |-> <<>>, step |-> "next", at |-> 1, table |-> <<>>, stable |-> FALSE]
    BY <1>1 DEF End, Idle
  <1>3. /\ JobForm(k) /\ k.cmd = "none" /\ k.todo = <<>> /\ k.stable = FALSE /\ k.step = "next" /\ k.at = 1
    BY <1>2 DEF JobForm
  <1>4. WorkOK(k.cmd, k.todo, k.step, k.at, k.table, k.stable, d, g, fr, rs, ms)
    <2>1. <<>> \in Seq(Experiments) /\ FALSE \in BOOLEAN /\ 1 \in Nat \ {0}
      OBVIOUS
    <2>2. QED
      BY <1>3, <2>1, NextOK
  <1>5. TablesType'
    BY SameTables DEF End, WorkInv
  <1>6. QED
    BY <1>1, <1>3, <1>4, <1>5, JobStep

\* A command is given.
LEMMA BeginStep ==
  WorkInv /\ Begin => WorkInv'
PROOF
  <1> SUFFICES ASSUME WorkInv, Begin PROVE WorkInv'
    OBVIOUS
  <1>1. PICK c \in Given : job' = [Idle EXCEPT !.cmd = c.cmd, !.todo = Resolved(c.names)]
    BY Zenon DEF Begin
  <1>2. PICK k, d, g, fr, rs, ms : /\ k = job' /\ d = dat' /\ g = fig' /\ fr = fresh'
                                   /\ rs = rows' /\ ms = mem'
    OBVIOUS
  <1>3. Resolved(c.names) \in Seq(Experiments)
    <2>1. PICK names \in Seq(STRING) : names = c.names
      BY GivenAssumption
    <2>2. Registered \in Seq(Experiments)
      <3>1. Registered \in Seq(Names) /\ Experiments = {Registered[i] : i \in DOMAIN Registered}
        BY RegisteredAssumption DEF Experiments, ToSet
      <3>2. QED
        BY <3>1
    <2>3. ~Unknown(names) => names \in Seq(Experiments)
      BY DEF Unknown
    <2>4. CASE names = <<"all">>
      BY <2>1, <2>2, <2>4 DEF Resolved
    <2>5. CASE names # <<"all">> /\ Unknown(names)
      BY <2>1, <2>5 DEF Resolved
    <2>6. CASE names # <<"all">> /\ ~Unknown(names)
      BY <2>1, <2>3, <2>6 DEF Resolved
    <2>7. QED
      BY <2>4, <2>5, <2>6
  <1>4. PICK q \in Seq(Experiments) : q = Resolved(c.names)
    BY <1>3
  <1>5. k = [cmd |-> c.cmd, todo |-> q, step |-> "next", at |-> 1, table |-> <<>>, stable |-> FALSE]
    BY <1>1, <1>2, <1>4 DEF Idle
  <1>6. /\ JobForm(k) /\ k.cmd = c.cmd /\ k.todo = q /\ k.stable = FALSE /\ k.step = "next" /\ k.at = 1
    BY <1>5 DEF JobForm
  <1>7. WorkOK(k.cmd, k.todo, k.step, k.at, k.table, k.stable, d, g, fr, rs, ms)
    <2>1. FALSE \in BOOLEAN /\ 1 \in Nat \ {0}
      OBVIOUS
    <2>2. c.cmd \in {"none", "run", "plot", "clean"}
      BY GivenAssumption
    <2>3. QED
      BY <1>6, <2>1, <2>2, NextOK
  <1>8. RawInv'
    BY BeginRaw DEF WorkInv
  <1>9. TablesType'
    BY SameTables DEF Begin, WorkInv
  <1>10. QED
    BY <1>2, <1>6, <1>7, <1>8, <1>9, WorkNext

\* What was read while a driver writes need not be current.
LEMMA UnstableOK ==
  ASSUME NEW c, NEW q, NEW st, NEW a, NEW T, NEW b, NEW d, NEW g, NEW fr, NEW rs, NEW ms,
         WorkOK(c, q, st, a, T, b, d, g, fr, rs, ms), NEW later, NEW laterM
  PROVE  WorkOK(c, q, st, a, T, FALSE, d, g, {}, later, laterM)
PROOF
  <1>1. /\ c \in {"none", "run", "plot", "clean"} /\ q \in Seq(Experiments) /\ st \in Steps
        /\ a \in Nat \ {0} /\ FALSE \in BOOLEAN
        /\ (st # "next" => q # <<>>)
        /\ (st \in {"read", "build", "peak", "write"} => c \in Aggregates)
        /\ (st = "dat" => c = "clean")
    BY DEF WorkOK
  <1>2. ASSUME NEW x, NEW n, Reading(x, T, n, b, rs, ms)
        PROVE  Reading(x, T, n, FALSE, later, laterM)
    BY <1>2 DEF Reading
  <1>3. ASSUME NEW x, NEW blank, Filling(x, T, a, b, blank, rs, ms)
        PROVE  Filling(x, T, a, FALSE, blank, later, laterM)
    BY <1>3, Zenon DEF Filling
  <1>4. /\ st = "read" => Reading(Head(q), T, a - 1, FALSE, later, laterM)
        /\ st = "write" \/ Draws(c, st) => Reading(Head(q), T, Len(Order), FALSE, later, laterM)
    BY <1>2 DEF WorkOK
  <1>5. /\ st = "build" => Filling(Head(q), T, a, FALSE, {"build_time_s", "peak_rss_mb"}, later, laterM)
        /\ st = "peak" => Filling(Head(q), T, a, FALSE, {"peak_rss_mb"}, later, laterM)
    BY <1>3 DEF WorkOK
  <1>6. /\ Draws(c, st) => d[Head(q)] = File(Head(q), T)
        /\ Draws(c, st) /\ st = "svg" => g[Head(q)]["pdf"] = Picture(Head(q), T)
    BY DEF WorkOK
  <1>7. QED
    BY <1>1, <1>4, <1>5, <1>6, Zenon DEF WorkOK

\* A driver writes, or does something else.
LEMMA RawStep ==
  WorkInv /\ Raw => WorkInv'
PROOF
  <1> SUFFICES ASSUME WorkInv, Raw PROVE WorkInv'
    OBVIOUS
  <1>1. PICK j, k, d, g, fr, rs, ms : /\ j = job /\ k = job' /\ d = dat' /\ g = fig' /\ fr = fresh'
                                      /\ rs = rows' /\ ms = mem'
    OBVIOUS
  <1>2. RawInv' /\ d = dat /\ g = fig
    BY <1>1, RawSteps DEF WorkInv, Raw
  <1>3. JobForm(j) /\ WorkOK(j.cmd, j.todo, j.step, j.at, j.table, j.stable, d, g, fresh, rows, mem)
    BY <1>1, <1>2 DEF WorkInv, JobOK
  <1>4. CASE <<rows', mem'>> = <<rows, mem>>
    <2>1. rs = rows /\ ms = mem /\ k = j /\ fr = fresh
      BY <1>1, <1>4 DEF Raw
    <2>2. TablesType'
      BY <1>1, <1>2, <2>1, SameTables DEF WorkInv
    <2>3. WorkOK(k.cmd, k.todo, k.step, k.at, k.table, k.stable, d, g, fr, rs, ms)
      BY <1>3, <2>1
    <2>4. QED
      BY <1>1, <1>2, <1>3, <2>1, <2>2, <2>3, WorkNext
  <1>5. CASE <<rows', mem'>> # <<rows, mem>>
    <2>1. job' = [job EXCEPT !.stable = FALSE] /\ fresh' = {}
      BY <1>5, Zenon DEF Raw
    <2>2. k = [j EXCEPT !.stable = FALSE] /\ fr = {}
      BY <1>1, <2>1
    <2>3. /\ JobForm(k) /\ k.cmd = j.cmd /\ k.todo = j.todo /\ k.stable = FALSE
          /\ k.step = j.step /\ k.at = j.at /\ k.table = j.table
      BY <1>3, <2>2 DEF JobForm
    <2>4. WorkOK(j.cmd, j.todo, j.step, j.at, j.table, FALSE, d, g, {}, rs, ms)
      BY <1>3, UnstableOK
    <2>5. WorkOK(k.cmd, k.todo, k.step, k.at, k.table, k.stable, d, g, fr, rs, ms)
      BY <2>2, <2>3, <2>4
    <2>6. TablesType'
      BY <1>1, <1>2, <2>1 DEF WorkInv, TablesType
    <2>7. QED
      BY <1>1, <1>2, <2>3, <2>5, <2>6, WorkNext
  <1>6. QED
    BY <1>4, <1>5

\* Nothing is at work at the start.
LEMMA WorkStart ==
  Init => WorkInv
PROOF
  <1> SUFFICES ASSUME Init PROVE WorkInv
    OBVIOUS
  <1>1. RawInv
    BY RawStart DEF Init
  <1>2. TablesType
    <2>1. DOMAIN dat = Experiments /\ DOMAIN fig = Experiments /\ fresh = {}
      BY DEF Init
    <2>2. ASSUME NEW x \in Experiments
          PROVE  fig[x] = [pdf |-> fig[x]["pdf"], svg |-> fig[x]["svg"]]
      <3>1. fig[x] = [pdf |-> Absent, svg |-> Absent]
        BY DEF Init
      <3>2. QED
        BY <3>1
    <2>3. QED
      BY <2>1, <2>2 DEF TablesType
  <1>3. JobOK
    <2>1. PICK k : k = job
      OBVIOUS
    <2>2. k = [cmd |-> "none", todo |-> <<>>, step |-> "next", at |-> 1, table |-> <<>>, stable |-> FALSE]
      BY <2>1 DEF Init, Idle
    <2>3. /\ JobForm(k) /\ k.cmd = "none" /\ k.todo = <<>> /\ k.stable = FALSE /\ k.step = "next" /\ k.at = 1
      BY <2>2 DEF JobForm
    <2>4. <<>> \in Seq(Experiments) /\ FALSE \in BOOLEAN /\ 1 \in Nat \ {0}
      OBVIOUS
    <2>5. WorkOK(k.cmd, k.todo, k.step, k.at, k.table, k.stable, dat, fig, fresh, rows, mem)
      BY <2>3, <2>4, NextOK
    <2>6. QED
      BY <2>1, <2>3, <2>5 DEF JobOK
  <1>4. QED
    BY <1>1, <1>2, <1>3 DEF WorkInv

\* No step of a command, of a driver or of a sampler breaks the invariant.
LEMMA WorkSteps ==
  WorkInv /\ [Next \/ Ended]_vars => WorkInv'
PROOF
  <1> SUFFICES ASSUME WorkInv, [Next \/ Ended]_vars PROVE WorkInv'
    OBVIOUS
  <1>1. CASE Raw
    BY <1>1, RawStep
  <1>2. CASE Begin
    BY <1>2, BeginStep
  <1>3. CASE Command /\ UNCHANGED rawVars
    BY <1>3, TakeUpStep, ReadSystemStep, ReadBuildStep, ReadPeakStep, SkipStep, OpenDatStep, WriteDatStep,
       SavePdfStep, SaveSvgStep, RemoveDatStep, RemoveFigStep, EndStep DEF Command
  <1>4. CASE UNCHANGED vars
    BY <1>4, SameFiles, SameTables DEF vars, resultVars, WorkInv, JobOK
  <1>5. QED
    BY <1>1, <1>2, <1>3, <1>4 DEF Next, Ended

\* What a figure is drawn from.
LEMMA Drawing ==
  ASSUME WorkInv, NEW st \in {"pdf", "svg"}, At(st), job.cmd # "clean"
  PROVE  \E x \in Experiments : \E T :
           /\ x = f /\ Draw(f, read_dat(dat[f])) = Picture(x, T) /\ x \notin fresh
           /\ Reading(x, T, Len(Order), job.stable, rows, mem)
           /\ st = "svg" => fig[x]["pdf"] = Picture(x, T)
PROOF
  <1>1. job.step = st /\ job.step # "next" /\ job.cmd \notin {"none", "clean"}
    BY DEF At
  <1>2. PICK x \in Experiments : x = f /\ x = Head(job.todo) /\ x \notin fresh
    BY <1>1, AtWork
  <1>3. PICK T : T = job.table
    OBVIOUS
  <1>4. WorkOK(job.cmd, job.todo, job.step, job.at, job.table, job.stable, dat, fig, fresh, rows, mem)
    BY DEF WorkInv, JobOK
  <1>5. Draws(job.cmd, job.step)
    <2>1. job.cmd \in {"none", "run", "plot", "clean"}
      BY <1>4 DEF WorkOK
    <2>2. QED
      BY <1>1, <2>1 DEF Draws, Aggregates
  <1>6. /\ Reading(x, T, Len(Order), job.stable, rows, mem) /\ dat[x] = File(x, T)
        /\ job.step = "svg" => fig[x]["pdf"] = Picture(x, T)
    BY <1>2, <1>3, <1>4, <1>5 DEF WorkOK
  <1>7. Draw(f, read_dat(dat[f])) = Picture(x, T)
    BY <1>2, <1>6 DEF Picture
  <1>8. QED
    BY <1>1, <1>2, <1>6, <1>7

\* What a step does to the figures: one format of one of them is drawn or removed.
LEMMA FigureChanges ==
  ASSUME WorkInv, [Next \/ Ended]_vars
  PROVE  \/ fig' = fig
         \/ \E x \in Experiments, format \in {"pdf", "svg"} : \E v :
              /\ fig' = Put(fig, x, format, v)
              /\ v = Absent \/ \E T : TableOK(x, T, Len(Order)) /\ v = Picture(x, T)
PROOF
  <1>1. CASE fig' = fig
    BY <1>1
  <1>2. ASSUME NEW st \in {"pdf", "svg"}, At(st), job.cmd # "clean", fig' = Saved(st)
        PROVE  \E x \in Experiments, format \in {"pdf", "svg"} : \E v :
                 /\ fig' = Put(fig, x, format, v)
                 /\ v = Absent \/ \E T : TableOK(x, T, Len(Order)) /\ v = Picture(x, T)
    <2>1. PICK x \in Experiments : \E T : /\ x = f /\ Draw(f, read_dat(dat[f])) = Picture(x, T)
                                          /\ Reading(x, T, Len(Order), job.stable, rows, mem)
      BY <1>2, Drawing
    <2>6. PICK T : /\ x = f /\ Draw(f, read_dat(dat[f])) = Picture(x, T)
                   /\ Reading(x, T, Len(Order), job.stable, rows, mem)
      BY <2>1
    <2>2. PICK v : v = Picture(x, T)
      OBVIOUS
    <2>3. fig' = Put(fig, x, st, v)
      BY <1>2, <2>6, <2>2, Zenon DEF Saved, Put
    <2>4. TableOK(x, T, Len(Order))
      BY <2>6 DEF Reading
    <2>5. QED
      BY <2>2, <2>3, <2>4
  <1>3. CASE SavePdf
    BY <1>2, <1>3 DEF SavePdf
  <1>4. CASE SaveSvg
    BY <1>2, <1>4 DEF SaveSvg
  <1>5. ASSUME NEW format \in {"pdf", "svg"}, NEW step, RemoveFig(format, step)
        PROVE  \E x \in Experiments, kind \in {"pdf", "svg"} : \E v :
                 /\ fig' = Put(fig, x, kind, v)
                 /\ v = Absent \/ \E T : TableOK(x, T, Len(Order)) /\ v = Picture(x, T)
    <2>1. job.step # "next"
      BY <1>5 DEF RemoveFig, At
    <2>2. PICK x \in Experiments : x = f
      BY <2>1, AtWork
    <2>3. fig' = Put(fig, x, format, Absent)
      BY <1>5, <2>2 DEF RemoveFig, Put
    <2>4. QED
      BY <2>3
  <1>6. CASE Raw
    BY <1>1, <1>6 DEF Raw
  <1>7. CASE Begin
    BY <1>1, <1>7 DEF Begin
  <1>8. CASE TakeUp \/ ReadSystem \/ ReadBuild \/ ReadPeak \/ Skip \/ OpenDat \/ WriteDat \/ RemoveDat \/ End
    BY <1>1, <1>8 DEF TakeUp, ReadSystem, ReadBuild, ReadPeak, ReadDone, Skip, OpenDat, WriteDat, RemoveDat, End
  <1>9. CASE UNCHANGED vars
    BY <1>1, <1>9 DEF vars, resultVars
  <1>10. CASE Command
    BY <1>3, <1>4, <1>5, <1>8, <1>10 DEF Command
  <1>11. QED
    BY <1>6, <1>7, <1>9, <1>10 DEF Next, Ended

\* No figure is there at the start.
LEMMA ForwardStart ==
  Init => CurvesForward
PROOF
  <1> SUFFICES ASSUME Init PROVE CurvesForward
    OBVIOUS
  <1>1. ASSUME NEW x \in Experiments, NEW format \in {"pdf", "svg"} PROVE fig[x][format] = Absent
    <2>1. fig[x] = [pdf |-> Absent, svg |-> Absent]
      BY DEF Init
    <2>2. QED
      BY <2>1
  <1>2. QED
    BY <1>1 DEF CurvesForward

\* A step draws only curves that go forward.
LEMMA ForwardStep ==
  WorkInv /\ CurvesForward /\ [Next \/ Ended]_vars => CurvesForward'
PROOF
  <1> SUFFICES ASSUME WorkInv, CurvesForward, [Next \/ Ended]_vars PROVE CurvesForward'
    OBVIOUS
  <1>1. \A y \in Experiments, kind \in {"pdf", "svg"} : fig[y][kind] # Absent => Onward(y, fig[y][kind])
    BY Zenon DEF CurvesForward, Onward
  <1>2. \A y \in Experiments, kind \in {"pdf", "svg"} : fig'[y][kind] # Absent => Onward(y, fig'[y][kind])
    <2>1. CASE fig' = fig
      BY <1>1, <2>1
    <2>2. CASE \E x \in Experiments, format \in {"pdf", "svg"} : \E v :
                 /\ fig' = Put(fig, x, format, v)
                 /\ v = Absent \/ \E T : TableOK(x, T, Len(Order)) /\ v = Picture(x, T)
      <3>a. PICK x \in Experiments, format \in {"pdf", "svg"} : \E v :
              /\ fig' = Put(fig, x, format, v)
              /\ v = Absent \/ \E T : TableOK(x, T, Len(Order)) /\ v = Picture(x, T)
        BY <2>2, Zenon
      <3>1. PICK v : /\ fig' = Put(fig, x, format, v)
                     /\ v = Absent \/ \E T : TableOK(x, T, Len(Order)) /\ v = Picture(x, T)
        BY <3>a, Zenon
      <3>b. fig' = Put(fig, x, format, v)
        BY <3>1, Zenon
      <3>c. TablesType
        BY DEF WorkInv
      <3>g. PICK g : g = fig'
        OBVIOUS
      <3>d. g[x][format] = v
        BY <3>b, <3>c, <3>g, FigureStep
      <3>e. \A other \in {"pdf", "svg"} : other # format => fig'[x][other] = fig[x][other]
        BY <3>b, <3>c, FigureStep
      <3>f. \A y \in Experiments : y # x => fig'[y] = fig[y]
        BY <3>b, <3>c, FigureStep
      <3>2. /\ fig'[x][format] = v
            /\ \A other \in {"pdf", "svg"} : other # format => fig'[x][other] = fig[x][other]
            /\ \A y \in Experiments : y # x => fig'[y] = fig[y]
        BY <3>d, <3>e, <3>f, <3>g
      <3>3. v # Absent => Onward(x, v)
        <4>1. x \in Names
          BY RegisteredAssumption DEF Experiments, ToSet
        <4>2. ASSUME NEW T, TableOK(x, T, Len(Order)), v = Picture(x, T) PROVE Onward(x, v)
          BY <4>1, <4>2, PictureForward DEF TableOK
        <4>3. QED
          BY <3>1, <4>2
      <3>4. ASSUME NEW y \in Experiments, NEW kind \in {"pdf", "svg"}, fig'[y][kind] # Absent
            PROVE  Onward(y, fig'[y][kind])
        <4>1. CASE y = x /\ kind = format
          BY <3>2, <3>3, <3>4, <4>1
        <4>2. CASE ~(y = x /\ kind = format)
          <5>1. fig'[y][kind] = fig[y][kind]
            BY <3>2, <4>2
          <5>2. QED
            BY <1>1, <3>4, <5>1
        <4>3. QED
          BY <4>1, <4>2
      <3>5. QED
        BY <3>4
    <2>3. QED
      BY <2>1, <2>2, FigureChanges
  <1>3. QED
    BY <1>2, Zenon DEF CurvesForward, Onward

\* In every figure, also in one drawn while drivers write or by a command that is killed later, each
\* curve goes forward: bench.py gives every sample of an epoch its own place on the axis.
THEOREM FiguresForward == Spec => []CurvesForward
PROOF
  <1>1. Init => WorkInv /\ CurvesForward
    BY WorkStart, ForwardStart
  <1>2. WorkInv /\ CurvesForward /\ [Next \/ Ended]_vars => WorkInv' /\ CurvesForward'
    BY WorkSteps, ForwardStep
  <1>3. QED
    BY <1>1, <1>2, PTL DEF Spec

-----------------------------------------------------------------------------
(***************************************************************************)
(* The bars.                                                               *)
(***************************************************************************)

BarColumn(ks, y) == Keep([i \in DOMAIN ks |-> fnan(ks[i][y])], LAMBDA v : v # None)

\* The places of a table where a system has a value.
Bars(T, s, yc) == {i \in 1 .. Len(T) : T[i]["system"] = s /\ T[i][yc] # None}

\* The values of the rows of a system, and the largest of them.
LEMMA BarValues ==
  ASSUME NEW V, NEW b \in Seq(V), NEW A \in SUBSET (1 .. Len(b)), NEW y, NEW T,
         \A i \in 1 .. Len(b) : fnan(b[i][y]) = T[i][y] /\ T[i][y] \in Cells,
         NEW vs, vs = BarColumn(Kept(b, A), y)
  PROVE  /\ vs # <<>> <=> \E i \in A : T[i][y] # None
         /\ vs # <<>> => \E i \in A : T[i][y] # None /\ MaxOf(vs) = T[i][y]
PROOF
  <1>1. PICK ks \in Seq(V) : ks = Kept(b, A)
    BY KeptFacts
  <1>2. /\ \A i \in 1 .. Len(ks) : \E p \in A : ks[i] = b[p]
        /\ \A p \in A : \E i \in 1 .. Len(ks) : ks[i] = b[p]
    <2>1. /\ \A i \in 1 .. Len(Kept(b, A)) : \E p \in A : Kept(b, A)[i] = b[p]
          /\ \A p \in A : \E i \in 1 .. Len(Kept(b, A)) : Kept(b, A)[i] = b[p]
      BY KeptFacts
    <2>2. \A i \in 1 .. Len(ks) : \E p \in A : ks[i] = b[p]
      BY <1>1, <2>1, Zenon
    <2>3. \A p \in A : \E i \in 1 .. Len(ks) : ks[i] = b[p]
      BY <1>1, <2>1, Zenon
    <2>4. QED
      BY <2>2, <2>3
  <1>3. Len(ks) \in Nat /\ DOMAIN ks = 1 .. Len(ks)
    BY <1>1
  <1>4. PICK us : us = [i \in 1 .. Len(ks) |-> fnan(ks[i][y])]
    OBVIOUS
  <1>5. \A i \in 1 .. Len(ks) : us[i] = fnan(ks[i][y])
    BY <1>4
  <1>6. \A i \in 1 .. Len(ks) : \E p \in A : us[i] = T[p][y] /\ us[i] \in Cells
    <2> SUFFICES ASSUME NEW i \in 1 .. Len(ks) PROVE \E p \in A : us[i] = T[p][y] /\ us[i] \in Cells
      OBVIOUS
    <2>1. PICK p \in A : ks[i] = b[p]
      BY <1>2
    <2>2. us[i] = T[p][y] /\ T[p][y] \in Cells
      BY <1>5, <2>1
    <2>3. QED
      BY <2>2
  <1>7. \A p \in A : \E i \in 1 .. Len(ks) : us[i] = T[p][y]
    <2> SUFFICES ASSUME NEW p \in A PROVE \E i \in 1 .. Len(ks) : us[i] = T[p][y]
      OBVIOUS
    <2>1. PICK i \in 1 .. Len(ks) : ks[i] = b[p]
      BY <1>2
    <2>2. us[i] = T[p][y]
      BY <1>5, <2>1
    <2>3. QED
      BY <2>2
  <1>8. us \in Seq(Cells) /\ Len(us) = Len(ks) /\ DOMAIN us = 1 .. Len(ks)
    <2>1. us \in [1 .. Len(ks) -> Cells]
      BY <1>4, <1>5, <1>6
    <2>2. QED
      BY <1>3, <2>1, FunSeq
  <1>9. PICK S \in SUBSET (1 .. Len(us)) : S = {i \in 1 .. Len(us) : us[i] # None}
    OBVIOUS
  <1>10. vs = Kept(us, S)
    <2>1. vs = Kept([i \in DOMAIN ks |-> fnan(ks[i][y])],
                    {i \in DOMAIN [i \in DOMAIN ks |-> fnan(ks[i][y])] :
                       [k \in DOMAIN ks |-> fnan(ks[k][y])][i] # None})
      BY <1>1, Zenon DEF BarColumn, Keep
    <2>2. [i \in DOMAIN ks |-> fnan(ks[i][y])] = us
      BY <1>3, <1>4
    <2>3. vs = Kept(us, {i \in DOMAIN us : us[i] # None})
      BY <2>1, <2>2, Zenon
    <2>4. DOMAIN us = 1 .. Len(us)
      BY <1>8
    <2>5. QED
      BY <1>9, <2>3, <2>4, Zenon
  <1>11. /\ vs \in Seq(Cells)
         /\ \A i \in 1 .. Len(vs) : \E p \in S : vs[i] = us[p]
         /\ vs = <<>> <=> S = {}
    <2>1. Kept(us, S) \in Seq(Cells) /\ (Kept(us, S) = <<>> <=> S = {})
      BY <1>8, KeptFacts
    <2>2. \A i \in 1 .. Len(Kept(us, S)) : \E p \in S : Kept(us, S)[i] = us[p]
      BY <1>8, KeptFacts
    <2>3. \A i \in 1 .. Len(vs) : \E p \in S : vs[i] = us[p]
      BY <1>10, <2>2, Zenon
    <2>4. vs \in Seq(Cells) /\ (vs = <<>> <=> S = {})
      BY <1>10, <2>1, Zenon
    <2>5. QED
      BY <2>3, <2>4, Zenon
  <1>12. vs # <<>> <=> \E i \in A : T[i][y] # None
    <2>1. S # {} => \E i \in A : T[i][y] # None
      BY <1>6, <1>8, <1>9
    <2>2. (\E i \in A : T[i][y] # None) => S # {}
      BY <1>7, <1>8, <1>9
    <2>3. QED
      BY <1>11, <2>1, <2>2
  <1>13. ASSUME vs # <<>> PROVE \E i \in A : T[i][y] # None /\ MaxOf(vs) = T[i][y]
    <2>1. \A i \in 1 .. Len(vs) : \E p \in S : vs[i] = us[p] /\ us[p] \in Nat /\ us[p] # None
      BY <1>6, <1>8, <1>9, <1>11 DEF Cells
    <2>2. vs \in Seq(Nat)
      <3>1. Len(vs) \in Nat /\ DOMAIN vs = 1 .. Len(vs) /\ vs = [i \in 1 .. Len(vs) |-> vs[i]]
        BY <1>11
      <3>2. vs \in [1 .. Len(vs) -> Nat]
        BY <2>1, <3>1
      <3>3. QED
        BY <3>1, <3>2, FunSeq
    <2>3. Max(ToSet(vs)) \in ToSet(vs)
      BY <1>13, <2>2, MaxSeq
    <2>4. PICK i \in 1 .. Len(vs) : MaxOf(vs) = vs[i]
      <3>1. PICK m : m = Max(ToSet(vs)) /\ m \in ToSet(vs)
        BY <2>3
      <3>2. \E i \in 1 .. Len(vs) : m = vs[i]
        <4>1. DOMAIN vs = 1 .. Len(vs)
          BY <1>11
        <4>2. \E i \in DOMAIN vs : m = vs[i]
          BY <3>1, Zenon DEF ToSet
        <4>3. QED
          BY <4>1, <4>2
      <3>3. MaxOf(vs) = m
        BY <1>13, <3>1 DEF MaxOf
      <3>4. QED
        BY <3>2, <3>3
    <2>5. PICK p \in S : vs[i] = us[p] /\ us[p] # None
      BY <2>1
    <2>6. PICK q \in A : us[p] = T[q][y]
      BY <1>6, <1>8
    <2>7. QED
      BY <2>4, <2>5, <2>6
  <1>14. QED
    BY <1>12, <1>13

\* Every system with a value has a bar, as high as one of its values.
LEMMA PlotBar ==
  ASSUME NEW x \in Names, NEW T \in Seq(TableRow(x)), NEW yc \in Cols(x), yc # "system",
         NEW P, P = plot_bar(read_dat(File(x, T)), yc)
  PROVE  /\ \A s : s \in DOMAIN P <=> s \in Systems /\ Bars(T, s, yc) # {}
         /\ \A s \in DOMAIN P : \E i \in Bars(T, s, yc) : P[s] = T[i][yc]
PROOF
  <1>1. PICK b : b = read_dat(File(x, T))
    OBVIOUS
  <1>2. /\ (\E V : b \in Seq(V)) /\ Len(b) = Len(T)
        /\ \A i \in 1 .. Len(T) : b[i]["system"] = T[i]["system"] /\ T[i]["system"] \in Systems
        /\ \A i \in 1 .. Len(T), c \in Cols(x) : c # "system" => fnan(b[i][c]) = T[i][c] /\ T[i][c] \in Cells
    BY <1>1, TableBack
  <1>3. PICK V : b \in Seq(V)
    BY <1>2
  <1>4. \A i \in 1 .. Len(b) : fnan(b[i][yc]) = T[i][yc] /\ T[i][yc] \in Cells
    BY <1>2
  <1>5. PICK by : by = rows_by_system(b)
    OBVIOUS
  <1>6. /\ \A s : s \in DOMAIN by <=> \E i \in 1 .. Len(b) : b[i]["system"] = s
        /\ \A s \in DOMAIN by : \E A \in SUBSET (1 .. Len(b)) :
              by[s] = Kept(b, A) /\ \A i \in 1 .. Len(b) : i \in A <=> b[i]["system"] = s
    BY <1>3, <1>5, BySystem
  <1>7. PICK vs : vs = [s \in DOMAIN by |-> BarColumn(by[s], yc)]
    OBVIOUS
  <1>8. P = [s \in {s \in DOMAIN by : vs[s] # <<>>} |-> MaxOf(vs[s])]
    <2>1. P = [s \in {s \in DOMAIN by : BarColumn(by[s], yc) # <<>>} |-> MaxOf(BarColumn(by[s], yc))]
      BY <1>1, <1>5, Zenon DEF plot_bar, BarColumn
    <2>2. \A s \in DOMAIN by : vs[s] = BarColumn(by[s], yc)
      BY <1>7
    <2>3. {s \in DOMAIN by : BarColumn(by[s], yc) # <<>>} = {s \in DOMAIN by : vs[s] # <<>>}
      BY <2>2
    <2>4. PICK D : D = {s \in DOMAIN by : vs[s] # <<>>}
      OBVIOUS
    <2>5. P = [s \in D |-> MaxOf(BarColumn(by[s], yc))]
      BY <2>1, <2>3, <2>4, Zenon
    <2>6. \A s \in D : MaxOf(BarColumn(by[s], yc)) = MaxOf(vs[s])
      BY <2>2, <2>4
    <2>7. P = [s \in D |-> MaxOf(vs[s])]
      BY <2>5, <2>6
    <2>8. QED
      BY <2>4, <2>7, Zenon
  <1>9. ASSUME NEW s \in DOMAIN by
        PROVE  /\ vs[s] # <<>> <=> Bars(T, s, yc) # {}
               /\ vs[s] # <<>> => \E i \in Bars(T, s, yc) : MaxOf(vs[s]) = T[i][yc]
    <2>1. PICK A \in SUBSET (1 .. Len(b)) :
            by[s] = Kept(b, A) /\ \A i \in 1 .. Len(b) : i \in A <=> b[i]["system"] = s
      BY <1>6
    <2>2. PICK v : v = vs[s]
      OBVIOUS
    <2>3. v = BarColumn(Kept(b, A), yc)
      <3>1. vs[s] = BarColumn(by[s], yc)
        BY <1>7
      <3>2. QED
        BY <2>1, <2>2, <3>1, Zenon
    <2>4. /\ v # <<>> <=> \E i \in A : T[i][yc] # None
          /\ v # <<>> => \E i \in A : T[i][yc] # None /\ MaxOf(v) = T[i][yc]
      BY <1>3, <1>4, <2>3, BarValues
    <2>5. \A i : i \in Bars(T, s, yc) <=> i \in A /\ T[i][yc] # None
      BY <1>2, <2>1 DEF Bars
    <2>6. QED
      BY <2>2, <2>4, <2>5
  <1>10. \A s : s \in DOMAIN P <=> s \in Systems /\ Bars(T, s, yc) # {}
    <2>1. DOMAIN P = {s \in DOMAIN by : vs[s] # <<>>}
      BY <1>8
    <2>2. \A s \in DOMAIN by : s \in Systems
      BY <1>2, <1>6
    <2>3. \A s : Bars(T, s, yc) # {} => s \in DOMAIN by
      BY <1>2, <1>6 DEF Bars
    <2>4. QED
      BY <1>9, <2>1, <2>2, <2>3, Zenon
  <1>11. \A s \in DOMAIN P : \E i \in Bars(T, s, yc) : P[s] = T[i][yc]
    <2>1. \A s \in DOMAIN P : s \in DOMAIN by /\ vs[s] # <<>> /\ P[s] = MaxOf(vs[s])
      BY <1>8
    <2>2. QED
      BY <1>9, <2>1, Zenon
  <1>12. QED
    BY <1>10, <1>11

-----------------------------------------------------------------------------
(***************************************************************************)
(* What a figure shows of the raw files.                                   *)
(***************************************************************************)

PointOf(row, xc, yc) == [x |-> row[xc], y |-> row[yc]]
\* A point that some row of R makes.
Makes(R, xc, yc, p) == \E row \in R : row[xc] # None /\ row[yc] # None /\ p = PointOf(row, xc, yc)
Sec(x, s, rs, ms) == ToSet(Section(x, s, rs[s], ms[s]))

\* Every row of a system bears its name.
LEMMA RowSystems ==
  ASSUME NEW x \in Names, NEW s \in Systems,
         NEW r, NEW m, NEW c, NEW l, NEW e, NEW w, FilesOK(r, m, c, l, e, w)
  PROVE  \A row \in ToSet(Section(x, s, r, m)) : row["system"] = s
PROOF
  <1>1. CASE FAMILIES[x].source # "summary" \/ r = Absent
    <2>1. PICK Z : Z = Section(x, s, r, m)
      OBVIOUS
    <2>2. SectionOK(x, Z, s)
      BY <1>1, <2>1, SectionHolds
    <2>3. PICK R : R = TableRow(x)
      OBVIOUS
    <2>4. Z \in Seq(R) /\ \A i \in 1 .. Len(Z) : Z[i]["system"] = s
      BY <2>2, <2>3 DEF SectionOK
    <2>5. \A row \in ToSet(Z) : row["system"] = s
      BY <2>4 DEF ToSet
    <2>6. QED
      BY <2>1, <2>5
  <1>2. CASE FAMILIES[x].source = "summary" /\ r # Absent
    <2>1. PICK y : y = SummaryRow(s, r, m)
      OBVIOUS
    <2>2. Section(x, s, r, m) = <<y>>
      BY <1>2, <2>1 DEF Section
    <2>3. y["system"] = s
      BY <2>1 DEF SummaryRow
    <2>4. \A row \in ToSet(<<y>>) : row = y
      BY DEF ToSet
    <2>5. QED
      BY <2>2, <2>3, <2>4
  <1>3. QED
    BY <1>1, <1>2

\* The rows of a system in a table that is current.
LEMMA RowsOfSystem ==
  ASSUME NEW x \in Names, NEW T, TableOK(x, T, Len(Order)), NEW rs, NEW ms,
         Current(x, ToSet(T), Len(Order), rs, ms),
         \A q \in Systems : \A row \in Sec(x, q, rs, ms) : row["system"] = q,
         NEW s \in Systems
  PROVE  \A row : row \in Sec(x, s, rs, ms) <=> \E i \in 1 .. Len(T) : T[i] = row /\ T[i]["system"] = s
PROOF
  <1>1. PICK n \in Nat : n = Len(Order) /\ \A k \in 1 .. n : Order[k] \in Systems
    BY OrderAssumption
  <1>2. PICK k \in 1 .. n : Order[k] = s
    <2>1. s \in {Order[i] : i \in DOMAIN Order} /\ DOMAIN Order = 1 .. n
      BY <1>1, OrderAssumption DEF ToSet
    <2>2. QED
      BY <2>1
  <1>3. \A row : row \in ToSet(T) <=> \E i \in 1 .. Len(T) : T[i] = row
    <2>1. PICK R : R = TableRow(x)
      OBVIOUS
    <2>2. T \in Seq(R)
      BY <2>1 DEF TableOK
    <2>3. QED
      BY <2>2 DEF ToSet
  <1>4. \A row : row \in ToSet(T) <=> \E q \in 1 .. n : row \in Part(x, q, rs, ms)
    <2>1. ToSet(T) = UNION {Part(x, q, rs, ms) : q \in 1 .. n}
      BY <1>1 DEF Current
    <2>2. QED
      BY <2>1
  <1>5. \A q \in 1 .. n : Part(x, q, rs, ms) = Sec(x, Order[q], rs, ms)
    BY DEF Part, Sec
  <1>6. ASSUME NEW row \in Sec(x, s, rs, ms)
        PROVE  \E i \in 1 .. Len(T) : T[i] = row /\ T[i]["system"] = s
    <2>1. row \in ToSet(T) /\ row["system"] = s
      BY <1>2, <1>4, <1>5
    <2>2. QED
      BY <1>3, <2>1
  <1>7. ASSUME NEW i \in 1 .. Len(T), T[i]["system"] = s
        PROVE  T[i] \in Sec(x, s, rs, ms)
    <2>4. T[i] \in ToSet(T)
      BY <1>3
    <2>1. PICK q \in 1 .. n : T[i] \in Sec(x, Order[q], rs, ms)
      BY <1>4, <1>5, <2>4
    <2>2. Order[q] = s
      BY <1>1, <1>7, <2>1
    <2>3. QED
      BY <2>1, <2>2
  <1>8. QED
    BY <1>6, <1>7

\* A point that some row of a system makes.
Yields(T, s, xc, yc, p) ==
  \E i \in 1 .. Len(T) : T[i]["system"] = s /\ T[i][xc] # None /\ T[i][yc] # None /\ p = PointOf(T[i], xc, yc)

\* The curves of a table show the points that its rows make.
LEMMA CurvesOfTable ==
  ASSUME NEW x \in Names, NEW T \in Seq(TableRow(x)), NEW xc \in Cols(x), xc # "system",
         NEW yc \in Cols(x), yc # "system", NEW P, P = plot_series(read_dat(File(x, T)), xc, yc),
         NEW Q, \A s \in Systems : \A p : p \in Q[s] <=> Yields(T, s, xc, yc, p)
  PROVE  /\ \A s : s \in DOMAIN P <=> s \in Systems /\ Q[s] # {}
         /\ \A s \in DOMAIN P : ToSet(P[s]) = Q[s]
PROOF
  <1>1. /\ \A s : s \in DOMAIN P <=> s \in Systems /\ Spots(T, s, xc, yc) # {}
        /\ \A s \in DOMAIN P : CurveOK(P[s], T, s, xc, yc)
    BY PlotSeries
  <1>2. ASSUME NEW s \in Systems
        PROVE  \A p : p \in Q[s] <=> \E i \in Spots(T, s, xc, yc) : p = PointOf(T[i], xc, yc)
    <2>1. \A i : i \in Spots(T, s, xc, yc) <=>
               i \in 1 .. Len(T) /\ T[i]["system"] = s /\ T[i][xc] # None /\ T[i][yc] # None
      BY DEF Spots
    <2>2. QED
      BY <2>1 DEF Yields
  <1>3. \A s : s \in DOMAIN P <=> s \in Systems /\ Q[s] # {}
    <2>2. ASSUME NEW s \in Systems PROVE Spots(T, s, xc, yc) # {} <=> Q[s] # {}
      <3>1. PICK S, R : S = Spots(T, s, xc, yc) /\ R = Q[s]
        OBVIOUS
      <3>2. \A p : p \in R <=> \E i \in S : p = PointOf(T[i], xc, yc)
        BY <1>2, <3>1
      <3>3. S # {} <=> R # {}
        BY <3>2
      <3>4. QED
        BY <3>1, <3>3
    <2>3. QED
      BY <1>1, <2>2
  <1>4. ASSUME NEW s \in DOMAIN P PROVE ToSet(P[s]) = Q[s]
    <2>1. s \in Systems
      BY <1>1
    <2>2. PICK C : C = P[s]
      OBVIOUS
    <2>3. /\ Len(C) \in Nat \ {0} /\ DOMAIN C = 1 .. Len(C)
          /\ ToSet(C) = {[x |-> T[i][xc], y |-> T[i][yc]] : i \in Spots(T, s, xc, yc)}
      BY <1>1, <2>2, Zenon DEF CurveOK
    <2>4. \A p : p \in ToSet(C) <=> \E i \in Spots(T, s, xc, yc) : p = PointOf(T[i], xc, yc)
      BY <2>3, Zenon DEF PointOf
    <2>5. \A p : p \in ToSet(C) <=> p \in Q[s]
      BY <1>2, <2>1, <2>4
    <2>6. ToSet(C) = Q[s]
      BY <2>5, Zenon
    <2>7. QED
      BY <2>2, <2>6
  <1>5. QED
    BY <1>3, <1>4

\* What the rows of one system say, and its memory samples.
EpochPts(r, xc, yc) == {[x |-> q[xc], y |-> q[yc]] : q \in {q \in ToSet(Found(r)) : q[xc] # None /\ q[yc] # None}}
\* The point of the last row that has both values.
BothThere(r, xc, yc) == {q \in ToSet(Found(r)) : None \notin {q[xc], q[yc]}}
LatestPoint(r, xc, yc, p) ==
  \E q \in BothThere(r, xc, yc) :
    /\ p = [x |-> q[xc], y |-> q[yc]]
    /\ \A z \in BothThere(r, xc, yc) : z["epoch"] <= q["epoch"]
MemPts(file) ==
  LET m == Served(Found(file))
      among(i) == {j \in DOMAIN m : m[j].epoch = m[i].epoch}
  IN {[x |-> Unit * m[i].epoch + Nearest(Unit * (i - Min(among(i))), Cardinality(among(i))), y |-> m[i].rss]
        : i \in DOMAIN m}

\* The rows of a table of epochs make the points of the rows of the raw file.
LEMMA EpochSays ==
  ASSUME NEW s, NEW r \in Seq(Row), NEW xc \in ToSet(EPOCH_COLS), xc # "system",
         NEW yc \in ToSet(EPOCH_COLS), yc # "system", NEW Z, Z = aggregate_epoch(s, r), NEW p
  PROVE  Makes(ToSet(r), xc, yc, p) <=> Makes(ToSet(Z), xc, yc, p)
PROOF
  <1>1. DOMAIN Z = DOMAIN r
    BY DEF aggregate_epoch
  <1>2. \A i \in DOMAIN r : Z[i][xc] = r[i][xc] /\ Z[i][yc] = r[i][yc]
    <2> SUFFICES ASSUME NEW i \in DOMAIN r PROVE Z[i][xc] = r[i][xc] /\ Z[i][yc] = r[i][yc]
      OBVIOUS
    <2>1. Z[i] = [c \in ToSet(EPOCH_COLS) |-> IF c = "system" THEN s ELSE r[i][c]]
      BY DEF aggregate_epoch
    <2>2. QED
      BY <2>1
  <1>3. \A i \in DOMAIN r : PointOf(Z[i], xc, yc) = PointOf(r[i], xc, yc)
    BY <1>2, Zenon DEF PointOf
  <1>4. /\ \A q : q \in ToSet(r) <=> \E i \in DOMAIN r : q = r[i]
        /\ \A q : q \in ToSet(Z) <=> \E i \in DOMAIN r : q = Z[i]
    BY <1>1, Zenon DEF ToSet
  <1>5. ASSUME NEW q \in ToSet(r), q[xc] # None, q[yc] # None, p = PointOf(q, xc, yc)
        PROVE  \E row \in ToSet(Z) : row[xc] # None /\ row[yc] # None /\ p = PointOf(row, xc, yc)
    <2>1. PICK i \in DOMAIN r : q = r[i]
      BY <1>4, <1>5
    <2>2. Z[i] \in ToSet(Z) /\ Z[i][xc] # None /\ Z[i][yc] # None /\ p = PointOf(Z[i], xc, yc)
      BY <1>2, <1>3, <1>4, <1>5, <2>1
    <2>3. QED
      BY <2>2
  <1>6. ASSUME NEW row \in ToSet(Z), row[xc] # None, row[yc] # None, p = PointOf(row, xc, yc)
        PROVE  \E q \in ToSet(r) : q[xc] # None /\ q[yc] # None /\ p = PointOf(q, xc, yc)
    <2>1. PICK i \in DOMAIN r : row = Z[i]
      BY <1>4, <1>6
    <2>2. r[i] \in ToSet(r) /\ r[i][xc] # None /\ r[i][yc] # None /\ p = PointOf(r[i], xc, yc)
      BY <1>2, <1>3, <1>4, <1>6, <2>1
    <2>3. QED
      BY <2>2
  <1>7. QED
    BY <1>5, <1>6 DEF Makes

MemPoint(k, i) ==
  LET A == {j \in DOMAIN k : k[j].epoch = k[i].epoch}
  IN [x |-> Unit * k[i].epoch + Nearest(Unit * (i - Min(A)), Cardinality(A)), y |-> k[i].rss]

\* The rows of a table of memory make the points of the samples.
LEMMA MemSays ==
  ASSUME NEW s, NEW k, Streaming(k), NEW Z, Z = aggregate_mem(s, k), NEW p
  PROVE  (\E i \in DOMAIN k : p = MemPoint(k, i))
           <=> Makes(ToSet(Z), "epoch_frac", "rss_mb", p)
PROOF
  <1>1. k \in Seq(MemSample) /\ DOMAIN k = 1 .. Len(k)
    BY DEF Streaming
  <1>2. DOMAIN Z = DOMAIN k
    BY DEF aggregate_mem
  <1>3. ASSUME NEW i \in DOMAIN k
        PROVE  /\ Z[i]["epoch_frac"] = epoch_frac(k, i) /\ Z[i]["rss_mb"] = k[i].rss
               /\ epoch_frac(k, i) \in Nat /\ k[i].rss \in Nat
    <2>1. PICK a, b, c, d : a = epoch_frac(k, i) /\ b = k[i].rss /\ c = k[i].t /\ d = k[i].epoch
      OBVIOUS
    <2>2. Z[i] = [epoch_frac |-> a, system |-> s, rss_mb |-> b, t_sec |-> c, epoch |-> d]
      BY <2>1 DEF aggregate_mem
    <2>3. Z[i]["epoch_frac"] = a /\ Z[i]["rss_mb"] = b
      BY <2>2
    <2>4. k[i].rss \in Nat
      <3>1. k[i] \in MemSample
        BY <1>1
      <3>2. k[i].rss \in Sizes
        BY <3>1 DEF MemSample
      <3>3. QED
        BY <3>2, GrainAssumption
    <2>5. epoch_frac(k, i) \in Nat
      BY <1>1, FracNat
    <2>6. QED
      BY <2>1, <2>3, <2>4, <2>5
  <1>4. ASSUME NEW i \in DOMAIN k PROVE MemPoint(k, i) = PointOf(Z[i], "epoch_frac", "rss_mb")
    <2>1. i \in 1 .. Len(k)
      BY <1>1
    <2>2. PICK lo, hi \in 1 .. Len(k) :
            /\ lo <= i /\ i <= hi
            /\ \A j \in 1 .. Len(k) : k[j].epoch = k[i].epoch <=> lo <= j /\ j <= hi
      BY <2>1, Runs
    <2>3. PICK A : A = {j \in 1 .. Len(k) : k[j].epoch = k[i].epoch}
      OBVIOUS
    <2>a. epoch_frac(k, i) = k[i].epoch * Unit + Nearest(Unit * (i - lo), hi - lo + 1)
      BY <2>1, <2>2, <2>3, Placed
    <2>b. Cardinality(A) = hi - lo + 1 /\ Min(A) = lo
      BY <2>1, <2>2, <2>3, RunFacts
    <2>4. /\ epoch_frac(k, i) = k[i].epoch * Unit + Nearest(Unit * (i - lo), hi - lo + 1)
          /\ Cardinality(A) = hi - lo + 1 /\ Min(A) = lo
      BY <2>a, <2>b, Zenon
    <2>5. A = {j \in DOMAIN k : k[j].epoch = k[i].epoch}
      BY <1>1, <2>3
    <2>6. MemPoint(k, i) = [x |-> Unit * k[i].epoch + Nearest(Unit * (i - Min(A)), Cardinality(A)), y |-> k[i].rss]
      BY <2>5, Zenon DEF MemPoint
    <2>7. Unit * k[i].epoch = k[i].epoch * Unit
      <3>1. PICK e, U \in Nat : e = k[i].epoch /\ U = Unit
        BY <2>1, UnitAssumption DEF Streaming
      <3>2. U * e = e * U
        OBVIOUS
      <3>3. QED
        BY <3>1, <3>2, Zenon
    <2>8. Unit * k[i].epoch + Nearest(Unit * (i - Min(A)), Cardinality(A)) = epoch_frac(k, i)
      BY <2>4, <2>7, Zenon
    <2>9. PICK u, v : u = epoch_frac(k, i) /\ v = k[i].rss
      OBVIOUS
    <2>10. MemPoint(k, i) = [x |-> u, y |-> v]
      BY <2>6, <2>8, <2>9, Zenon
    <2>11. PointOf(Z[i], "epoch_frac", "rss_mb") = [x |-> u, y |-> v]
      BY <1>3, <2>9, Zenon DEF PointOf
    <2>12. QED
      BY <2>10, <2>11, Zenon
  <1>5. \A row : row \in ToSet(Z) <=> \E i \in DOMAIN k : row = Z[i]
    BY <1>2, Zenon DEF ToSet
  <1>6. ASSUME NEW i \in DOMAIN k
        PROVE  Z[i] \in ToSet(Z) /\ Z[i]["epoch_frac"] # None /\ Z[i]["rss_mb"] # None
    BY <1>3, <1>5, MeasuresAssumption
  <1>7. ASSUME NEW i \in DOMAIN k, p = MemPoint(k, i)
        PROVE  \E row \in ToSet(Z) : /\ row["epoch_frac"] # None /\ row["rss_mb"] # None
                                     /\ p = PointOf(row, "epoch_frac", "rss_mb")
    <2>1. p = PointOf(Z[i], "epoch_frac", "rss_mb")
      BY <1>4, <1>7
    <2>2. QED
      BY <1>6, <2>1
  <1>8. ASSUME NEW row \in ToSet(Z), p = PointOf(row, "epoch_frac", "rss_mb")
        PROVE  \E i \in DOMAIN k : p = MemPoint(k, i)
    <2>1. PICK i \in DOMAIN k : row = Z[i]
      BY <1>5
    <2>2. p = MemPoint(k, i)
      BY <1>4, <1>8, <2>1
    <2>3. QED
      BY <2>2
  <1>9. QED
    BY <1>7, <1>8 DEF Makes

\* What Shows says of the files rs of the epochs and ms of the memory.
Shown(x, pic, rs, ms) ==
  LET p == FAMILIES[x]
      top(s) == EpochPts(rs[s], p.x, p.y)
      bottom(s) == EpochPts(rs[s], p.x, p.below)
      samples(s) == MemPts(ms[s])
      built(s) == {m.t : m \in {m \in ToSet(Found(ms[s])) : m.epoch = -1}}
      inserts(s) == {r["ins_ops_s"] : r \in ToSet(Found(rs[s]))} \ {None, 0}
  IN CASE p.source = "mem" -> CurvesShow(pic, samples)
       [] p.plot = "series" /\ p.source = "epoch" -> CurvesShow(pic, top)
       [] p.plot = "dual" -> CurvesShow(pic[1], top) /\ CurvesShow(pic[2], bottom)
       [] p.plot = "pareto" ->
            /\ DOMAIN pic = {s \in Systems : top(s) # {}}
            /\ \A s \in DOMAIN pic : LatestPoint(rs[s], p.x, p.y, pic[s])
       [] p.y = "build_time_s" ->
            /\ DOMAIN pic = {s \in Systems : rs[s] # Absent /\ built(s) # {}}
            /\ \A s \in DOMAIN pic : pic[s] = Max(built(s))
       [] OTHER -> DOMAIN pic = {s \in Systems : inserts(s) # {}}

\* FiguresCurrent, in terms of the files of this moment.
LEMMA CurrentIsShown ==
  FiguresCurrent <=>
    \A x \in fresh : \A format \in {"pdf", "svg"} : Shown(x, fig[x][format], rows, mem)
PROOF
  BY Zenon DEF FiguresCurrent, Shows, Shown, CurvesShow, Points, EpochPoints, EpochPts, MemPoints, MemPts,
               LatestPoint, BothThere

\* The same after a step.
LEMMA CurrentIsShownLater ==
  FiguresCurrent' <=>
    \A x \in fresh' : \A format \in {"pdf", "svg"} : Shown(x, fig'[x][format], rows', mem')
PROOF
  BY Zenon DEF FiguresCurrent, Shows, Shown, CurvesShow, Points, EpochPoints, EpochPts, MemPoints, MemPts,
               LatestPoint, BothThere

\* The files of each system are what drivers can write.
FilesThere(rs, ms) ==
  \A s \in Systems : \E c, l, e, w : FilesOK(rs[s], ms[s], c, l, e, w)

\* The rows of a current table that belong to one system are what its files say.
LEMMA RowsThere ==
  ASSUME NEW x \in Names, NEW T, TableOK(x, T, Len(Order)), NEW rs, NEW ms, FilesThere(rs, ms),
         Current(x, ToSet(T), Len(Order), rs, ms), NEW s \in Systems
  PROVE  /\ \A row : row \in Sec(x, s, rs, ms) <=> \E i \in 1 .. Len(T) : T[i] = row /\ T[i]["system"] = s
         /\ RowsOK(Found(rs[s])) /\ MemOK(Found(ms[s])) /\ (rs[s] # Absent => Found(rs[s]) = rs[s])
         /\ Streaming(Served(Found(ms[s])))
PROOF
  <1>1. ASSUME NEW q \in Systems PROVE \A row \in Sec(x, q, rs, ms) : row["system"] = q
    <2>1. PICK r, m : r = rs[q] /\ m = ms[q]
      OBVIOUS
    <2>2. PICK c, l, e, w : FilesOK(r, m, c, l, e, w)
      BY <2>1 DEF FilesThere
    <2>3. \A row \in ToSet(Section(x, q, r, m)) : row["system"] = q
      BY <2>2, RowSystems
    <2>4. QED
      BY <2>1, <2>3 DEF Sec
  <1>2. PICK r, m : r = rs[s] /\ m = ms[s]
    OBVIOUS
  <1>3. PICK c, l, e, w : FilesOK(r, m, c, l, e, w)
    BY <1>2 DEF FilesThere
  <1>4. RowsOK(Found(r)) /\ MemOK(Found(m)) /\ (r # Absent => Found(r) = r)
    BY <1>3, SectionHolds
  <1>5. Streaming(Served(Found(m)))
    BY <1>3, ServedStreaming
  <1>6. \A row : row \in Sec(x, s, rs, ms) <=> \E i \in 1 .. Len(T) : T[i] = row /\ T[i]["system"] = s
    BY <1>1, RowsOfSystem
  <1>7. QED
    BY <1>2, <1>4, <1>5, <1>6

\* The curves that are drawn of the rows of the epochs.
EpochCurves(C, rs, xc, yc) ==
  /\ \A s : s \in DOMAIN C <=> s \in Systems /\ EpochPts(rs[s], xc, yc) # {}
  /\ \A s \in DOMAIN C : ToSet(C[s]) = EpochPts(rs[s], xc, yc) /\ LatestPoint(rs[s], xc, yc, Last(C[s]))
\* A current table of epochs draws every point of the raw rows, and no other.
LEMMA EpochShown ==
  ASSUME NEW x \in Names, FAMILIES[x].source = "epoch", NEW T, TableOK(x, T, Len(Order)),
         NEW rs, NEW ms, FilesThere(rs, ms), Current(x, ToSet(T), Len(Order), rs, ms),
         NEW xc \in Cols(x), xc # "system", NEW yc \in Cols(x), yc # "system",
         NEW P, P = plot_series(read_dat(File(x, T)), xc, yc)
  PROVE  EpochCurves(P, rs, xc, yc)
PROOF
  <1>1. PICK Q : Q = [s \in Systems |-> EpochPts(rs[s], xc, yc)]
    OBVIOUS
  <1>2. \A s \in Systems : Q[s] = EpochPts(rs[s], xc, yc)
    BY <1>1
  <1>3. ASSUME NEW s \in Systems, NEW p
        PROVE  p \in Q[s] <=> Yields(T, s, xc, yc, p)
    <2>1. PICK r, Z : r = Found(rs[s]) /\ Z = aggregate_epoch(s, r)
      OBVIOUS
    <2>2. r \in Seq(Row)
      BY <2>1, RowsThere DEF RowsOK
    <2>3. Sec(x, s, rs, ms) = ToSet(Z)
      BY <2>1 DEF Sec, Section
    <2>4. \A row : row \in ToSet(Z) <=> \E i \in 1 .. Len(T) : T[i] = row /\ T[i]["system"] = s
      BY <2>3, RowsThere
    <2>5. xc \in ToSet(EPOCH_COLS) /\ yc \in ToSet(EPOCH_COLS)
      BY ColsFacts
    <2>6. Makes(ToSet(r), xc, yc, p) <=> Makes(ToSet(Z), xc, yc, p)
      BY <2>1, <2>2, <2>5, EpochSays
    <2>7. p \in EpochPts(rs[s], xc, yc) <=> Makes(ToSet(r), xc, yc, p)
      BY <2>1, Zenon DEF EpochPts, PointOf, Makes
    <2>8. Makes(ToSet(Z), xc, yc, p) <=> Yields(T, s, xc, yc, p)
      BY <2>4 DEF Makes, Yields
    <2>9. QED
      BY <1>2, <2>6, <2>7, <2>8
  <1>4. T \in Seq(TableRow(x))
    BY Zenon DEF TableOK
  <1>5. /\ \A s : s \in DOMAIN P <=> s \in Systems /\ Q[s] # {}
        /\ \A s \in DOMAIN P : ToSet(P[s]) = Q[s]
    BY <1>3, <1>4, CurvesOfTable
  <1>6. ASSUME NEW s \in DOMAIN P PROVE LatestPoint(rs[s], xc, yc, Last(P[s]))
    <2>1. PICK i \in Spots(T, s, xc, yc) :
            Last(P[s]) = [x |-> T[i][xc], y |-> T[i][yc]] /\ \A j \in Spots(T, s, xc, yc) : j <= i
      <3>1. CurveOK(P[s], T, s, xc, yc)
        BY <1>4, PlotSeries
      <3>2. QED
        BY <3>1, Zenon DEF CurveOK
    <2>2. PICK r, Z : r = Found(rs[s]) /\ Z = aggregate_epoch(s, r)
      OBVIOUS
    <2>3. s \in Systems /\ r \in Seq(Row)
      BY <1>5, <2>2, RowsThere DEF RowsOK
    <2>4. \A row : row \in ToSet(Z) <=> \E j \in 1 .. Len(T) : T[j] = row /\ T[j]["system"] = s
      <3>1. Sec(x, s, rs, ms) = ToSet(Z)
        BY <2>2 DEF Sec, Section
      <3>2. QED
        BY <2>3, <3>1, RowsThere
    <2>5. /\ \A q : q \in ToSet(r) <=> \E a \in DOMAIN r : q = r[a]
          /\ \A q : q \in ToSet(Z) <=> \E a \in DOMAIN r : q = Z[a]
      <3>1. DOMAIN Z = DOMAIN r
        BY <2>2 DEF aggregate_epoch
      <3>2. QED
        BY <3>1, Zenon DEF ToSet
    <2>6. ASSUME NEW a \in DOMAIN r
          PROVE  Z[a][xc] = r[a][xc] /\ Z[a][yc] = r[a][yc] /\ Z[a]["epoch"] = r[a]["epoch"]
      <3>1. Z[a] = [c \in ToSet(EPOCH_COLS) |-> IF c = "system" THEN s ELSE r[a][c]]
        BY <2>2 DEF aggregate_epoch
      <3>2. xc \in ToSet(EPOCH_COLS) /\ yc \in ToSet(EPOCH_COLS) /\ "epoch" \in ToSet(EPOCH_COLS)
        BY ColsFacts, ColumnFacts
      <3>3. QED
        BY <3>1, <3>2
    <2>7. i \in 1 .. Len(T) /\ T[i]["system"] = s /\ T[i][xc] # None /\ T[i][yc] # None
      BY DEF Spots
    <2>8. PICK a \in DOMAIN r : T[i] = Z[a]
      BY <2>4, <2>5, <2>7
    <2>9. r[a] \in ToSet(r) /\ r[a][xc] = T[i][xc] /\ r[a][yc] = T[i][yc]
      BY <2>5, <2>6, <2>8
    <2>10. ASSUME NEW q \in ToSet(r), q[xc] # None, q[yc] # None
           PROVE  q["epoch"] <= r[a]["epoch"]
      <3>1. PICK b \in DOMAIN r : q = r[b]
        BY <2>5
      <3>2. PICK j \in 1 .. Len(T) : T[j] = Z[b] /\ T[j]["system"] = s
        BY <2>4, <2>5
      <3>3. j \in Spots(T, s, xc, yc)
        BY <2>6, <2>10, <3>1, <3>2 DEF Spots
      <3>4. j <= i
        BY <2>1, <3>3
      <3>5. q["epoch"] = T[j]["epoch"] /\ r[a]["epoch"] = T[i]["epoch"]
        BY <2>6, <2>8, <3>1, <3>2
      <3>6. r[a]["epoch"] \in Nat
        <4>1. RowsOK(r) /\ DOMAIN r = 1 .. Len(r) /\ Len(r) \in Nat
          BY <2>2, <2>3, RowsThere
        <4>2. r[a]["epoch"] = a - 1 /\ a \in 1 .. Len(r)
          BY <4>1 DEF RowsOK
        <4>3. QED
          BY <4>1, <4>2
      <3>7. CASE j = i
        BY <3>5, <3>6, <3>7
      <3>8. CASE j # i
        <4>1. j < i
          BY <2>7, <3>2, <3>4, <3>8
        <4>2. Axis(x) = "epoch" /\ FAMILIES[x].source # "summary"
          BY DEF Axis
        <4>3. Ascending(x, T)
          BY Zenon DEF TableOK
        <4>4. T[j]["epoch"] \in Nat /\ T[i]["epoch"] \in Nat /\ T[j]["epoch"] < T[i]["epoch"]
          BY <2>7, <3>2, <4>1, <4>2, <4>3 DEF Ascending
        <4>5. QED
          BY <3>5, <4>4
      <3>9. QED
        BY <3>7, <3>8
    <2>11. PICK B : B = BothThere(rs[s], xc, yc)
      OBVIOUS
    <2>12. \A q : q \in B <=> q \in ToSet(r) /\ q[xc] # None /\ q[yc] # None
      BY <2>2, <2>11 DEF BothThere
    <2>13. r[a] \in B /\ \A q \in B : q["epoch"] <= r[a]["epoch"]
      BY <2>7, <2>9, <2>10, <2>12
    <2>14. Last(P[s]) = [x |-> r[a][xc], y |-> r[a][yc]]
      BY <2>1, <2>9, Zenon
    <2>15. QED
      BY <2>11, <2>13, <2>14, Zenon DEF LatestPoint
  <1>7. /\ \A s : s \in DOMAIN P <=> s \in Systems /\ EpochPts(rs[s], xc, yc) # {}
        /\ \A s \in DOMAIN P : ToSet(P[s]) = EpochPts(rs[s], xc, yc) /\ LatestPoint(rs[s], xc, yc, Last(P[s]))
    BY <1>2, <1>5, <1>6
  <1>8. QED
    BY <1>7, Zenon DEF EpochCurves

\* The curves that are drawn of the memory samples.
MemCurves(C, ms) ==
  /\ \A s : s \in DOMAIN C <=> s \in Systems /\ MemPts(ms[s]) # {}
  /\ \A s \in DOMAIN C : ToSet(C[s]) = MemPts(ms[s])
\* A current table of memory draws every sample of the stream, and no other.
LEMMA MemShown ==
  ASSUME NEW x \in Names, FAMILIES[x].source = "mem", NEW T, TableOK(x, T, Len(Order)),
         NEW rs, NEW ms, FilesThere(rs, ms), Current(x, ToSet(T), Len(Order), rs, ms),
         NEW P, P = plot_series(read_dat(File(x, T)), "epoch_frac", "rss_mb")
  PROVE  MemCurves(P, ms)
PROOF
  <1>1. PICK Q : Q = [s \in Systems |-> MemPts(ms[s])]
    OBVIOUS
  <1>2. \A s \in Systems : Q[s] = MemPts(ms[s])
    BY <1>1
  <1>3. ASSUME NEW s \in Systems, NEW p
        PROVE  p \in Q[s] <=> Yields(T, s, "epoch_frac", "rss_mb", p)
    <2>1. PICK k, Z : k = Served(Found(ms[s])) /\ Z = aggregate_mem(s, k)
      OBVIOUS
    <2>2. Streaming(k)
      BY <2>1, RowsThere
    <2>3. Sec(x, s, rs, ms) = ToSet(Z)
      BY <2>1 DEF Sec, Section
    <2>4. \A row : row \in ToSet(Z) <=> \E i \in 1 .. Len(T) : T[i] = row /\ T[i]["system"] = s
      BY <2>3, RowsThere
    <2>6. (\E i \in DOMAIN k : p = MemPoint(k, i))
             <=> Makes(ToSet(Z), "epoch_frac", "rss_mb", p)
      BY <2>1, <2>2, MemSays
    <2>7. p \in MemPts(ms[s]) <=> \E i \in DOMAIN k : p = MemPoint(k, i)
      BY <2>1, Zenon DEF MemPts, MemPoint
    <2>8. Makes(ToSet(Z), "epoch_frac", "rss_mb", p) <=> Yields(T, s, "epoch_frac", "rss_mb", p)
      BY <2>4 DEF Makes, Yields
    <2>9. QED
      BY <1>2, <2>6, <2>7, <2>8
  <1>4. T \in Seq(TableRow(x))
    BY Zenon DEF TableOK
  <1>5. "epoch_frac" \in Cols(x) /\ "rss_mb" \in Cols(x)
    BY ColsFacts, ColumnFacts
  <1>6. /\ \A s : s \in DOMAIN P <=> s \in Systems /\ Q[s] # {}
        /\ \A s \in DOMAIN P : ToSet(P[s]) = Q[s]
    <2>1. \A s \in Systems : \A p : p \in Q[s] <=> Yields(T, s, "epoch_frac", "rss_mb", p)
      BY <1>3
    <2>2. QED
      BY <1>4, <1>5, <2>1, CurvesOfTable
  <1>7. /\ \A s : s \in DOMAIN P <=> s \in Systems /\ MemPts(ms[s]) # {}
        /\ \A s \in DOMAIN P : ToSet(P[s]) = MemPts(ms[s])
    BY <1>2, <1>6
  <1>8. QED
    BY <1>7, Zenon DEF MemCurves

\* The row of a summary.
LEMMA SummaryRows ==
  ASSUME NEW x \in Names, FAMILIES[x].source = "summary", NEW rs, NEW ms, NEW s, NEW row
  PROVE  row \in Sec(x, s, rs, ms) <=> rs[s] # Absent /\ row = SummaryRow(s, rs[s], ms[s])
PROOF
  <1>1. PICK r, y : r = rs[s] /\ y = SummaryRow(s, rs[s], ms[s])
    OBVIOUS
  <1>2. Sec(x, s, rs, ms) = ToSet(IF r = Absent THEN <<>> ELSE <<y>>)
    BY <1>1, Zenon DEF Sec, Section
  <1>3. ToSet(<<>>) = {} /\ ToSet(<<y>>) = {y}
    BY DEF ToSet
  <1>4. QED
    BY <1>1, <1>2, <1>3

\* A current summary draws one bar for each system that has a value.
LEMMA SummaryBars ==
  ASSUME NEW x \in Names, FAMILIES[x].source = "summary", NEW T, TableOK(x, T, Len(Order)),
         NEW rs, NEW ms, FilesThere(rs, ms), Current(x, ToSet(T), Len(Order), rs, ms),
         NEW yc \in Cols(x), yc # "system", NEW P, P = plot_bar(read_dat(File(x, T)), yc)
  PROVE  /\ \A s : s \in DOMAIN P <=>
              s \in Systems /\ rs[s] # Absent /\ SummaryRow(s, rs[s], ms[s])[yc] # None
         /\ \A s \in DOMAIN P : P[s] = SummaryRow(s, rs[s], ms[s])[yc]
PROOF
  <1>1. T \in Seq(TableRow(x))
    BY Zenon DEF TableOK
  <1>2. /\ \A s : s \in DOMAIN P <=> s \in Systems /\ Bars(T, s, yc) # {}
        /\ \A s \in DOMAIN P : \E i \in Bars(T, s, yc) : P[s] = T[i][yc]
    BY <1>1, PlotBar
  <1>3. ASSUME NEW s \in Systems
        PROVE  \A row : (rs[s] # Absent /\ row = SummaryRow(s, rs[s], ms[s])) <=>
                 \E i \in 1 .. Len(T) : T[i] = row /\ T[i]["system"] = s
    <2> SUFFICES ASSUME NEW row
                 PROVE  (rs[s] # Absent /\ row = SummaryRow(s, rs[s], ms[s])) <=>
                          \E i \in 1 .. Len(T) : T[i] = row /\ T[i]["system"] = s
      OBVIOUS
    <2>1. row \in Sec(x, s, rs, ms) <=> \E i \in 1 .. Len(T) : T[i] = row /\ T[i]["system"] = s
      BY RowsThere
    <2>2. row \in Sec(x, s, rs, ms) <=> rs[s] # Absent /\ row = SummaryRow(s, rs[s], ms[s])
      BY SummaryRows
    <2>3. QED
      BY <2>1, <2>2
  <1>4. ASSUME NEW s \in Systems
        PROVE  /\ Bars(T, s, yc) # {} <=> rs[s] # Absent /\ SummaryRow(s, rs[s], ms[s])[yc] # None
               /\ \A i \in Bars(T, s, yc) : T[i][yc] = SummaryRow(s, rs[s], ms[s])[yc]
    <2>1. \A i : i \in Bars(T, s, yc) <=> i \in 1 .. Len(T) /\ T[i]["system"] = s /\ T[i][yc] # None
      BY DEF Bars
    <2>2. PICK y : y = SummaryRow(s, rs[s], ms[s])
      OBVIOUS
    <2>3. \A i \in 1 .. Len(T) : T[i]["system"] = s => T[i] = y /\ rs[s] # Absent
      BY <1>3, <2>2
    <2>4. rs[s] # Absent => \E i \in 1 .. Len(T) : T[i] = y /\ T[i]["system"] = s
      BY <1>3, <2>2
    <2>5. QED
      BY <2>1, <2>2, <2>3, <2>4
  <1>5. QED
    BY <1>2, <1>4

BuiltAt(m) == {z.t : z \in {z \in ToSet(m) : z.epoch = -1}}
BuildBars(C, rs, ms) ==
  /\ \A s : s \in DOMAIN C <=> s \in Systems /\ rs[s] # Absent /\ BuiltAt(Found(ms[s])) # {}
  /\ \A s \in DOMAIN C : C[s] = Max(BuiltAt(Found(ms[s])))
\* The bars of the build times.
LEMMA BuildShown ==
  ASSUME NEW x \in Names, FAMILIES[x].source = "summary", NEW T, TableOK(x, T, Len(Order)),
         NEW rs, NEW ms, FilesThere(rs, ms), Current(x, ToSet(T), Len(Order), rs, ms),
         NEW P, P = plot_bar(read_dat(File(x, T)), "build_time_s")
  PROVE  BuildBars(P, rs, ms)
PROOF
  <1>1. "build_time_s" \in Cols(x)
    BY ColsFacts, ColumnFacts
  <1>2. /\ \A s : s \in DOMAIN P <=>
             s \in Systems /\ rs[s] # Absent /\ SummaryRow(s, rs[s], ms[s])["build_time_s"] # None
        /\ \A s \in DOMAIN P : P[s] = SummaryRow(s, rs[s], ms[s])["build_time_s"]
    BY <1>1, SummaryBars
  <1>3. \A s : SummaryRow(s, rs[s], ms[s])["build_time_s"] = build_time_s(Found(ms[s]))
    BY DEF SummaryRow
  <1>4. ASSUME NEW s \in Systems
        PROVE  /\ build_time_s(Found(ms[s])) # None <=> BuiltAt(Found(ms[s])) # {}
               /\ build_time_s(Found(ms[s])) # None => build_time_s(Found(ms[s])) = Max(BuiltAt(Found(ms[s])))
    <2>1. PICK m, r : m = Found(ms[s]) /\ r = Found(rs[s])
      OBVIOUS
    <2>2. RowsOK(r) /\ MemOK(m)
      BY <2>1, RowsThere
    <2>3. /\ build_time_s(m) # None <=> \E i \in 1 .. Len(m) : m[i].epoch = -1
          /\ build_time_s(m) # None => build_time_s(m) = Max({z.t : z \in Building(m)})
      <3>1. build_time_s(m) # None <=> \E i \in 1 .. Len(m) : m[i].epoch = -1
        BY <2>2, Scalars
      <3>2. build_time_s(m) # None => build_time_s(m) = Max({z.t : z \in Building(m)})
        BY <2>2, Scalars, Zenon
      <3>3. QED
        BY <3>1, <3>2, Zenon
    <2>4. BuiltAt(m) = {z.t : z \in Building(m)}
      BY Zenon DEF BuiltAt, Building
    <2>5. BuiltAt(m) # {} <=> \E i \in 1 .. Len(m) : m[i].epoch = -1
      <3>1. m \in Seq(MemSample)
        BY <2>2 DEF MemOK
      <3>2. \A z : z \in ToSet(m) <=> \E i \in 1 .. Len(m) : z = m[i]
        BY <3>1 DEF ToSet
      <3>3. \A z : z \in Building(m) <=> \E i \in 1 .. Len(m) : z = m[i] /\ m[i].epoch = -1
        BY <3>2 DEF Building
      <3>4. Building(m) # {} <=> \E i \in 1 .. Len(m) : m[i].epoch = -1
        BY <3>3
      <3>5. {z.t : z \in Building(m)} # {} <=> Building(m) # {}
        OBVIOUS
      <3>6. QED
        BY <2>4, <3>4, <3>5
    <2>6. QED
      BY <2>1, <2>3, <2>4, <2>5
  <1>5. /\ \A s : s \in DOMAIN P <=> s \in Systems /\ rs[s] # Absent /\ BuiltAt(Found(ms[s])) # {}
        /\ \A s \in DOMAIN P : P[s] = Max(BuiltAt(Found(ms[s])))
    BY <1>2, <1>3, <1>4
  <1>6. QED
    BY <1>5, Zenon DEF BuildBars

Inserts(r) == {q["ins_ops_s"] : q \in ToSet(r)} \ {None, 0}
InsertBars(C, rs) == \A s : s \in DOMAIN C <=> s \in Systems /\ Inserts(Found(rs[s])) # {}
\* The bars of the insert rates.
LEMMA InsertsShown ==
  ASSUME NEW x \in Names, FAMILIES[x].source = "summary", NEW T, TableOK(x, T, Len(Order)),
         NEW rs, NEW ms, FilesThere(rs, ms), Current(x, ToSet(T), Len(Order), rs, ms),
         NEW P, P = plot_bar(read_dat(File(x, T)), "mean_ins_ops_s")
  PROVE  InsertBars(P, rs)
PROOF
  <1>1. "mean_ins_ops_s" \in Cols(x)
    BY ColsFacts, ColumnFacts
  <1>2. \A s : s \in DOMAIN P <=>
             s \in Systems /\ rs[s] # Absent /\ SummaryRow(s, rs[s], ms[s])["mean_ins_ops_s"] # None
    BY <1>1, SummaryBars
  <1>3. \A s : SummaryRow(s, rs[s], ms[s])["mean_ins_ops_s"] = mean_ins_ops_s(rs[s])
    BY DEF SummaryRow
  <1>4. ASSUME NEW s \in Systems
        PROVE  rs[s] # Absent /\ mean_ins_ops_s(rs[s]) # None <=> Inserts(Found(rs[s])) # {}
    <2>1. PICK m, r : m = Found(ms[s]) /\ r = Found(rs[s])
      OBVIOUS
    <2>2. RowsOK(r) /\ MemOK(m) /\ (rs[s] # Absent => r = rs[s])
      BY <2>1, RowsThere
    <2>3. mean_ins_ops_s(r) # None <=> \E i \in 1 .. Len(r) : r[i]["ins_ops_s"] # 0
      BY <2>2, Scalars
    <2>4. Inserts(r) # {} <=> \E i \in 1 .. Len(r) : r[i]["ins_ops_s"] # 0
      <3>1. \A i \in 1 .. Len(r) : r[i]["ins_ops_s"] \in Nat /\ r[i]["ins_ops_s"] # None
        BY <2>2, MeasuresAssumption DEF RowsOK, Measured
      <3>2. r \in Seq(Row)
        BY <2>2 DEF RowsOK
      <3>3. \A z : z \in ToSet(r) <=> \E i \in 1 .. Len(r) : z = r[i]
        BY <3>2 DEF ToSet
      <3>4. \A v : v \in Inserts(r) <=> v # None /\ v # 0 /\ \E q \in ToSet(r) : v = q["ins_ops_s"]
        BY Zenon DEF Inserts
      <3>5. \A v : v \in Inserts(r) <=> v # None /\ v # 0 /\ \E i \in 1 .. Len(r) : v = r[i]["ins_ops_s"]
        BY <3>3, <3>4
      <3>6. QED
        BY <3>1, <3>5
    <2>5. rs[s] = Absent => Inserts(r) = {}
      <3>1. rs[s] = Absent => r = <<>>
        BY <2>1 DEF Found
      <3>2. r = <<>> => ~\E i \in 1 .. Len(r) : r[i]["ins_ops_s"] # 0
        OBVIOUS
      <3>3. QED
        BY <2>4, <3>1, <3>2
    <2>6. QED
      BY <2>1, <2>2, <2>3, <2>4, <2>5
  <1>5. \A s : s \in DOMAIN P <=> s \in Systems /\ Inserts(Found(rs[s])) # {}
    BY <1>2, <1>3, <1>4
  <1>6. QED
    BY <1>5, Zenon DEF InsertBars

\* What a picture must show, for each kind of figure.
LEMMA ShownMem ==
  ASSUME NEW x, FAMILIES[x].source = "mem", NEW C, NEW rs, NEW ms,
         DOMAIN C = {s \in Systems : MemPts(ms[s]) # {}},
         \A s \in DOMAIN C : ToSet(C[s]) = MemPts(ms[s]),
         FAMILIES[x].plot = "series", FAMILIES[x].y # "build_time_s"
  PROVE  Shown(x, C, rs, ms)
PROOF
  BY Zenon DEF Shown, CurvesShow, Points

\* A series of epochs.
LEMMA ShownSeries ==
  ASSUME NEW x, FAMILIES[x].source = "epoch", NEW C, NEW rs, NEW ms,
         DOMAIN C = {s \in Systems : EpochPts(rs[s], FAMILIES[x].x, FAMILIES[x].y) # {}},
         \A s \in DOMAIN C : ToSet(C[s]) = EpochPts(rs[s], FAMILIES[x].x, FAMILIES[x].y),
         FAMILIES[x].plot = "series", FAMILIES[x].y # "build_time_s"
  PROVE  Shown(x, C, rs, ms)
PROOF
  BY Zenon DEF Shown, CurvesShow, Points

\* Two panels of epochs.
LEMMA ShownDual ==
  ASSUME NEW x, FAMILIES[x].source = "epoch", NEW C, NEW rs, NEW ms,
         DOMAIN C[1] = {s \in Systems : EpochPts(rs[s], FAMILIES[x].x, FAMILIES[x].y) # {}},
         \A s \in DOMAIN C[1] : ToSet(C[1][s]) = EpochPts(rs[s], FAMILIES[x].x, FAMILIES[x].y),
         DOMAIN C[2] = {s \in Systems : EpochPts(rs[s], FAMILIES[x].x, FAMILIES[x].below) # {}},
         \A s \in DOMAIN C[2] : ToSet(C[2][s]) = EpochPts(rs[s], FAMILIES[x].x, FAMILIES[x].below),
         FAMILIES[x].plot = "dual", FAMILIES[x].y # "build_time_s"
  PROVE  Shown(x, C, rs, ms)
PROOF
  BY Zenon DEF Shown, CurvesShow, Points

\* One point for each system.
LEMMA ShownPareto ==
  ASSUME NEW x, FAMILIES[x].source = "epoch", NEW C, NEW rs, NEW ms,
         DOMAIN C = {s \in Systems : EpochPts(rs[s], FAMILIES[x].x, FAMILIES[x].y) # {}},
         \A s \in DOMAIN C : LatestPoint(rs[s], FAMILIES[x].x, FAMILIES[x].y, C[s]),
         FAMILIES[x].plot = "pareto", FAMILIES[x].y # "build_time_s"
  PROVE  Shown(x, C, rs, ms)
PROOF
  BY Zenon DEF Shown

\* The bars of the build times.
LEMMA ShownBuild ==
  ASSUME NEW x, FAMILIES[x].source = "summary", NEW C, NEW rs, NEW ms,
         DOMAIN C = {s \in Systems : rs[s] # Absent /\ BuiltAt(Found(ms[s])) # {}},
         \A s \in DOMAIN C : C[s] = Max(BuiltAt(Found(ms[s]))),
         FAMILIES[x].plot = "bar", FAMILIES[x].y = "build_time_s"
  PROVE  Shown(x, C, rs, ms)
PROOF
  BY Zenon DEF Shown, BuiltAt

\* The bars of the insert rates.
LEMMA ShownInserts ==
  ASSUME NEW x, FAMILIES[x].source = "summary", NEW C, NEW rs, NEW ms,
         DOMAIN C = {s \in Systems : Inserts(Found(rs[s])) # {}},
         FAMILIES[x].plot = "bar", FAMILIES[x].y = "mean_ins_ops_s"
  PROVE  Shown(x, C, rs, ms)
PROOF
  BY Zenon DEF Shown, Inserts

\* A figure of a table that is current shows what the files hold: one kind of figure at a time.
LEMMA PictureOfMem ==
  ASSUME NEW x \in Names, NEW T, TableOK(x, T, Len(Order)),
         NEW rs, NEW ms, FilesThere(rs, ms), Current(x, ToSet(T), Len(Order), rs, ms),
         FAMILIES[x].source = "mem"
  PROVE  Shown(x, Picture(x, T), rs, ms)
PROOF
  <1>1. /\ FAMILIES[x].plot = "series" /\ FAMILIES[x].y = "rss_mb" /\ FAMILIES[x].x = Axis(x)
        /\ FAMILIES[x].y # "build_time_s"
    BY CurveFamilies
  <1>2. FAMILIES[x].x = "epoch_frac"
    BY <1>1 DEF Axis
  <1>4. PICK P : P = Picture(x, T)
    OBVIOUS
  <1>5. P = plot_series(read_dat(File(x, T)), FAMILIES[x].x, FAMILIES[x].y)
    BY <1>1, <1>4, SeriesDrawn
  <1>6. P = plot_series(read_dat(File(x, T)), "epoch_frac", "rss_mb")
    BY <1>1, <1>2, <1>5, Zenon
  <1>3. MemCurves(P, ms)
    BY <1>6, MemShown
  <1>7. /\ \A s : s \in DOMAIN P <=> s \in Systems /\ MemPts(ms[s]) # {}
        /\ \A s \in DOMAIN P : ToSet(P[s]) = MemPts(ms[s])
    BY <1>3, Zenon DEF MemCurves
  <1>8. DOMAIN P = {s \in Systems : MemPts(ms[s]) # {}}
    BY <1>7
  <1>9. Shown(x, P, rs, ms)
    BY <1>1, <1>7, <1>8, ShownMem, Zenon
  <1>10. QED
    BY <1>4, <1>9, Zenon

\* A table of epochs.
LEMMA PictureOfEpochs ==
  ASSUME NEW x \in Names, NEW T, TableOK(x, T, Len(Order)),
         NEW rs, NEW ms, FilesThere(rs, ms), Current(x, ToSet(T), Len(Order), rs, ms),
         FAMILIES[x].source = "epoch"
  PROVE  Shown(x, Picture(x, T), rs, ms)
PROOF
  <1>1. PICK p, b : p = FAMILIES[x] /\ b = read_dat(File(x, T))
    OBVIOUS
  <1>2. PICK P : P = Picture(x, T)
    OBVIOUS
  <1>3. /\ p.plot \in {"series", "dual", "pareto"} /\ p.y # "build_time_s"
        /\ p.x \in Cols(x) /\ p.x # "system" /\ p.y \in Cols(x) /\ p.y # "system"
        /\ p.plot = "dual" => p.below \in Cols(x) /\ p.below # "system"
    BY <1>1, CurveFamilies
  <1>4. ASSUME NEW xc \in Cols(x), xc # "system", NEW yc \in Cols(x), yc # "system"
        PROVE  EpochCurves(plot_series(b, xc, yc), rs, xc, yc)
    <2>1. FAMILIES[x].source = "epoch"
      OBVIOUS
    <2>2. PICK C : C = plot_series(read_dat(File(x, T)), xc, yc)
      OBVIOUS
    <2>3. EpochCurves(C, rs, xc, yc)
      BY <1>4, <2>1, <2>2, EpochShown
    <2>4. C = plot_series(b, xc, yc)
      BY <1>1, <2>2, Zenon
    <2>5. QED
      BY <2>3, <2>4, Zenon
  <1>5. PICK C : C = plot_series(b, p.x, p.y)
    OBVIOUS
  <1>6. /\ \A s : s \in DOMAIN C <=> s \in Systems /\ EpochPts(rs[s], p.x, p.y) # {}
        /\ \A s \in DOMAIN C : /\ ToSet(C[s]) = EpochPts(rs[s], p.x, p.y)
                               /\ LatestPoint(rs[s], p.x, p.y, Last(C[s]))
    <2>1. EpochCurves(C, rs, p.x, p.y)
      BY <1>3, <1>4, <1>5
    <2>2. QED
      BY <2>1, Zenon DEF EpochCurves
  <1>7. DOMAIN C = {s \in Systems : EpochPts(rs[s], p.x, p.y) # {}}
    BY <1>6
  <1>8. CASE p.plot = "series"
    <2>1. P = C
      BY <1>1, <1>2, <1>5, <1>8, SeriesDrawn
    <2>2. Shown(x, C, rs, ms)
      BY <1>1, <1>3, <1>6, <1>7, <1>8, ShownSeries, Zenon
    <2>3. QED
      BY <1>2, <2>1, <2>2, Zenon
  <1>9. CASE p.plot = "dual"
    <2>1. PICK D : D = plot_series(b, p.x, p.below)
      OBVIOUS
    <2>2. /\ \A s : s \in DOMAIN D <=> s \in Systems /\ EpochPts(rs[s], p.x, p.below) # {}
          /\ \A s \in DOMAIN D : ToSet(D[s]) = EpochPts(rs[s], p.x, p.below)
      <3>1. EpochCurves(D, rs, p.x, p.below)
        BY <1>3, <1>4, <1>9, <2>1
      <3>2. QED
        BY <3>1, Zenon DEF EpochCurves
    <2>3. DOMAIN D = {s \in Systems : EpochPts(rs[s], p.x, p.below) # {}}
      BY <2>2
    <2>4. P = <<C, D>>
      BY <1>1, <1>2, <1>5, <1>9, <2>1, DualDrawn
    <2>5. P[1] = C /\ P[2] = D
      BY <2>4
    <2>6. Shown(x, P, rs, ms)
      BY <1>1, <1>3, <1>6, <1>7, <1>9, <2>2, <2>3, <2>5, ShownDual, Zenon
    <2>7. QED
      BY <1>2, <2>6, Zenon
  <1>10. CASE p.plot = "pareto"
    <2>1. P = plot_pareto(b, p.x, p.y)
      BY <1>1, <1>2, <1>10, ParetoDrawn
    <2>2. P = [s \in DOMAIN C |-> Last(C[s])]
      BY <1>5, <2>1, Zenon DEF plot_pareto
    <2>3. DOMAIN P = DOMAIN C
      BY <2>2
    <2>4. \A s \in DOMAIN P : P[s] = Last(C[s])
      BY <2>2
    <2>5. \A s \in DOMAIN P : LatestPoint(rs[s], p.x, p.y, P[s])
      BY <1>6, <2>3, <2>4
    <2>6. DOMAIN P = {s \in Systems : EpochPts(rs[s], p.x, p.y) # {}}
      BY <1>7, <2>3
    <2>7. Shown(x, P, rs, ms)
      BY <1>1, <1>3, <1>10, <2>5, <2>6, ShownPareto, Zenon
    <2>8. QED
      BY <1>2, <2>7, Zenon
  <1>11. QED
    BY <1>3, <1>8, <1>9, <1>10

\* A table of summaries.
LEMMA PictureOfSummaries ==
  ASSUME NEW x \in Names, NEW T, TableOK(x, T, Len(Order)),
         NEW rs, NEW ms, FilesThere(rs, ms), Current(x, ToSet(T), Len(Order), rs, ms),
         FAMILIES[x].source = "summary"
  PROVE  Shown(x, Picture(x, T), rs, ms)
PROOF
  <1>1. PICK p, b : p = FAMILIES[x] /\ b = read_dat(File(x, T))
    OBVIOUS
  <1>2. PICK P : P = Picture(x, T)
    OBVIOUS
  <1>3. p.plot = "bar" /\ p.y \in {"build_time_s", "mean_ins_ops_s"}
    BY <1>1, CurveFamilies
  <1>4. P = plot_bar(b, p.y)
    BY <1>1, <1>2, <1>3, BarDrawn
  <1>5. CASE p.y = "build_time_s"
    <2>1. P = plot_bar(read_dat(File(x, T)), "build_time_s")
      BY <1>1, <1>4, <1>5, Zenon
    <2>2. /\ \A s : s \in DOMAIN P <=> s \in Systems /\ rs[s] # Absent /\ BuiltAt(Found(ms[s])) # {}
          /\ \A s \in DOMAIN P : P[s] = Max(BuiltAt(Found(ms[s])))
      <3>1. BuildBars(P, rs, ms)
        BY <2>1, BuildShown
      <3>2. QED
        BY <3>1, Zenon DEF BuildBars
    <2>3. DOMAIN P = {s \in Systems : rs[s] # Absent /\ BuiltAt(Found(ms[s])) # {}}
      BY <2>2
    <2>4. Shown(x, P, rs, ms)
      BY <1>1, <1>3, <1>5, <2>2, <2>3, ShownBuild, Zenon
    <2>5. QED
      BY <1>2, <2>4, Zenon
  <1>6. CASE p.y = "mean_ins_ops_s"
    <2>1. P = plot_bar(read_dat(File(x, T)), "mean_ins_ops_s")
      BY <1>1, <1>4, <1>6, Zenon
    <2>2. \A s : s \in DOMAIN P <=> s \in Systems /\ Inserts(Found(rs[s])) # {}
      <3>1. InsertBars(P, rs)
        BY <2>1, InsertsShown
      <3>2. QED
        BY <3>1, Zenon DEF InsertBars
    <2>3. DOMAIN P = {s \in Systems : Inserts(Found(rs[s])) # {}}
      BY <2>2
    <2>4. Shown(x, P, rs, ms)
      BY <1>1, <1>3, <1>6, <2>3, ShownInserts, Zenon
    <2>5. QED
      BY <1>2, <2>4, Zenon
  <1>7. QED
    BY <1>3, <1>5, <1>6

\* Any figure of a table that is current.
LEMMA PictureShown ==
  ASSUME NEW x \in Names, NEW T, TableOK(x, T, Len(Order)),
         NEW rs, NEW ms, FilesThere(rs, ms), Current(x, ToSet(T), Len(Order), rs, ms)
  PROVE  Shown(x, Picture(x, T), rs, ms)
PROOF
  <1>1. FAMILIES[x].source \in {"epoch", "mem", "summary"}
    BY CurveFamilies
  <1>2. QED
    BY <1>1, PictureOfMem, PictureOfEpochs, PictureOfSummaries

-----------------------------------------------------------------------------
(***************************************************************************)
(* Figures that are current.                                               *)
(***************************************************************************)

\* A figure that a step makes current, or leaves so.
Remains(y) == y \in fresh /\ fig'[y] = fig[y]
Redrawn(y, g, rs, ms) ==
  \E T : /\ TableOK(y, T, Len(Order)) /\ Current(y, ToSet(T), Len(Order), rs, ms)
         /\ g["pdf"] = Picture(y, T) /\ g["svg"] = Picture(y, T)

\* Removing or drawing a figure that is not current leaves those that are.
LEMMA OthersKept ==
  ASSUME WorkInv, NEW x \in Experiments, x \notin fresh, NEW format \in {"pdf", "svg"}, NEW v,
         fig' = Put(fig, x, format, v)
  PROVE  \A y \in fresh : fig'[y] = fig[y]
PROOF
  <1>1. TablesType /\ fresh \subseteq Experiments
    BY DEF WorkInv, TablesType
  <1>2. \A y \in Experiments : y # x => fig'[y] = fig[y]
    BY <1>1, FigureStep
  <1>3. QED
    BY <1>1, <1>2

\* A figure saved in its second format, of files that did not change meanwhile, is current.
LEMMA SvgRedraws ==
  ASSUME WorkInv, SaveSvg
  PROVE  \A y \in fresh' : Remains(y) \/ Redrawn(y, fig'[y], rows, mem)
PROOF
  <1>1. At("svg") /\ job.cmd # "clean"
    BY DEF SaveSvg
  <1>2. PICK x \in Experiments : \E T :
           /\ x = f /\ Draw(f, read_dat(dat[f])) = Picture(x, T) /\ x \notin fresh
           /\ Reading(x, T, Len(Order), job.stable, rows, mem)
           /\ fig[x]["pdf"] = Picture(x, T)
    BY <1>1, Drawing
  <1>3. PICK T : /\ x = f /\ Draw(f, read_dat(dat[f])) = Picture(x, T) /\ x \notin fresh
                 /\ Reading(x, T, Len(Order), job.stable, rows, mem)
                 /\ fig[x]["pdf"] = Picture(x, T)
    BY <1>2
  <1>4. PICK v : v = Picture(x, T)
    OBVIOUS
  <1>5. fig' = Put(fig, x, "svg", v)
    BY <1>3, <1>4, Zenon DEF SaveSvg, Saved, Put
  <1>6. \A y \in fresh : fig'[y] = fig[y]
    BY <1>3, <1>5, OthersKept
  <1>7. fig'[x]["svg"] = v /\ fig'[x]["pdf"] = fig[x]["pdf"]
    <2>1. TablesType
      BY DEF WorkInv
    <2>2. PICK g : g = fig'
      OBVIOUS
    <2>3. g[x]["svg"] = v
      BY <1>5, <2>1, <2>2, FigureStep
    <2>4. \A other \in {"pdf", "svg"} : other # "svg" => g[x][other] = fig[x][other]
      BY <1>5, <2>1, <2>2, FigureStep
    <2>5. QED
      BY <2>2, <2>3, <2>4
  <1>8. fresh' = IF job.stable THEN fresh \cup {x} ELSE fresh
    BY <1>3 DEF SaveSvg
  <1>9. job.stable => Redrawn(x, fig'[x], rows, mem)
    <2>1. ASSUME job.stable
          PROVE  TableOK(x, T, Len(Order)) /\ Current(x, ToSet(T), Len(Order), rows, mem)
      BY <1>3, <2>1 DEF Reading
    <2>2. QED
      BY <1>3, <1>4, <1>7, <2>1 DEF Redrawn
  <1>10. QED
    BY <1>6, <1>8, <1>9 DEF Remains

\* What a step does to the figures that are current.
LEMMA FreshChanges ==
  ASSUME WorkInv, [Next \/ Ended]_vars
  PROVE  \/ fresh' = {}
         \/ /\ rows' = rows /\ mem' = mem
            /\ \A y \in fresh' : Remains(y) \/ Redrawn(y, fig'[y], rows, mem)
PROOF
  <1>1. ASSUME fig' = fig, fresh' \subseteq fresh PROVE \A y \in fresh' : Remains(y)
    BY <1>1 DEF Remains
  <1>2. ASSUME UNCHANGED rawVars PROVE rows' = rows /\ mem' = mem
    BY <1>2 DEF rawVars, fileVars
  <1>3. CASE SavePdf /\ UNCHANGED rawVars
    <2>1. PICK x \in Experiments : x = f /\ x \notin fresh
      BY <1>3, AtWork DEF SavePdf, At
    <2>2. PICK v : v = Draw(f, read_dat(dat[f]))
      OBVIOUS
    <2>3. fig' = Put(fig, x, "pdf", v)
      BY <1>3, <2>1, <2>2, Zenon DEF SavePdf, Saved, Put
    <2>4. fresh' = fresh
      BY <1>3 DEF SavePdf
    <2>5. \A y \in fresh' : Remains(y)
      BY <2>1, <2>3, <2>4, OthersKept DEF Remains
    <2>6. QED
      BY <1>2, <1>3, <2>5
  <1>4. CASE SaveSvg /\ UNCHANGED rawVars
    BY <1>2, <1>4, SvgRedraws
  <1>5. ASSUME UNCHANGED rawVars, NEW format \in {"pdf", "svg"}, NEW step, RemoveFig(format, step)
        PROVE  /\ rows' = rows /\ mem' = mem
               /\ \A y \in fresh' : Remains(y) \/ Redrawn(y, fig'[y], rows, mem)
    <2>1. PICK x \in Experiments : x = f /\ x \notin fresh
      BY <1>5, AtWork DEF RemoveFig, At
    <2>2. fig' = Put(fig, x, format, Absent) /\ fresh' = fresh
      BY <1>5, <2>1 DEF RemoveFig, Put
    <2>3. \A y \in fresh' : Remains(y)
      BY <2>1, <2>2, OthersKept DEF Remains
    <2>4. QED
      BY <1>2, <1>5, <2>3
  <1>6. CASE Raw
    <2>1. CASE <<rows', mem'>> = <<rows, mem>>
      BY <1>1, <1>6, <2>1 DEF Raw
    <2>2. CASE <<rows', mem'>> # <<rows, mem>>
      BY <1>6, <2>2 DEF Raw
    <2>3. QED
      BY <2>1, <2>2
  <1>7. CASE Begin
    BY <1>1, <1>7 DEF Begin, fileVars
  <1>8. CASE TakeUp /\ UNCHANGED rawVars
    BY <1>1, <1>2, <1>8 DEF TakeUp
  <1>9. CASE (ReadSystem \/ ReadBuild \/ ReadPeak \/ Skip \/ OpenDat \/ WriteDat \/ RemoveDat \/ End)
             /\ UNCHANGED rawVars
    <2>1. fig' = fig /\ fresh' = fresh
      BY <1>9 DEF ReadSystem, ReadBuild, ReadPeak, ReadDone, Skip, OpenDat, WriteDat, RemoveDat, End
    <2>2. QED
      BY <1>1, <1>2, <1>9, <2>1
  <1>10. CASE UNCHANGED vars
    BY <1>1, <1>2, <1>10 DEF vars, resultVars
  <1>11. CASE Command /\ UNCHANGED rawVars
    BY <1>3, <1>4, <1>5, <1>8, <1>9, <1>11 DEF Command
  <1>12. QED
    BY <1>6, <1>7, <1>10, <1>11 DEF Next, Ended

\* No figure is current at the start.
LEMMA CurrentStart ==
  Init => FiguresCurrent
PROOF
  BY CurrentIsShown DEF Init

\* A step leaves or makes figures current, or lets a changed file make them all old.
LEMMA CurrentStep ==
  WorkInv /\ FiguresCurrent /\ [Next \/ Ended]_vars => FiguresCurrent'
PROOF
  <1> SUFFICES ASSUME WorkInv, FiguresCurrent, [Next \/ Ended]_vars PROVE FiguresCurrent'
    OBVIOUS
  <1>1. \A x \in fresh : \A format \in {"pdf", "svg"} : Shown(x, fig[x][format], rows, mem)
    BY CurrentIsShown
  <1>2. \A x \in fresh' : \A format \in {"pdf", "svg"} : Shown(x, fig'[x][format], rows', mem')
    <2>1. CASE fresh' = {}
      BY <2>1
    <2>2. CASE /\ rows' = rows /\ mem' = mem
               /\ \A y \in fresh' : Remains(y) \/ Redrawn(y, fig'[y], rows, mem)
      <3> SUFFICES ASSUME NEW x \in fresh', NEW format \in {"pdf", "svg"}
                   PROVE  Shown(x, fig'[x][format], rows', mem')
        OBVIOUS
      <3>1. PICK rs, ms, g : rs = rows /\ ms = mem /\ rs = rows' /\ ms = mem' /\ g = fig'[x]
        BY <2>2
      <3>2. CASE Remains(x)
        BY <1>1, <3>1, <3>2 DEF Remains
      <3>3. CASE Redrawn(x, g, rs, ms)
        <4>1. PICK T : /\ TableOK(x, T, Len(Order)) /\ Current(x, ToSet(T), Len(Order), rs, ms)
                       /\ g["pdf"] = Picture(x, T) /\ g["svg"] = Picture(x, T)
          BY <3>3 DEF Redrawn
        <4>2. x \in Names
          <5>1. TablesType'
            BY WorkSteps DEF WorkInv
          <5>2. x \in Experiments
            BY <5>1 DEF TablesType
          <5>3. QED
            BY <5>2, RegisteredAssumption DEF Experiments, ToSet
        <4>3. FilesThere(rs, ms)
          BY <3>1 DEF FilesThere, WorkInv, RawInv
        <4>4. Shown(x, Picture(x, T), rs, ms)
          BY <4>1, <4>2, <4>3, PictureShown
        <4>5. g[format] = Picture(x, T)
          BY <4>1
        <4>6. QED
          BY <3>1, <4>4, <4>5
      <3>4. QED
        BY <2>2, <3>1, <3>2, <3>3
    <2>3. QED
      BY <2>1, <2>2, FreshChanges
  <1>3. QED
    BY <1>2, CurrentIsShownLater

\* A figure run to its end while no driver wrote shows, in both formats, what the raw files hold:
\* each system, each value that is not null, whatever was killed before and whatever was left of
\* older tables and figures.
THEOREM FiguresStayCurrent == Spec => []FiguresCurrent
PROOF
  <1>1. Init => WorkInv /\ FiguresCurrent
    BY WorkStart, CurrentStart
  <1>2. WorkInv /\ FiguresCurrent /\ [Next \/ Ended]_vars => WorkInv' /\ FiguresCurrent'
    BY WorkSteps, CurrentStep
  <1>3. QED
    BY <1>1, <1>2, PTL DEF Spec
=============================================================================
