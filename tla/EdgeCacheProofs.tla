---------------------------- MODULE EdgeCacheProofs ----------------------------
(***************************************************************************)
(* Theorems about EdgeCache, for every set of ids and lists, every hash,   *)
(* and every capacity and table size: the table stays probeable, the arena *)
(* stays partitioned, and the arena implements the list+map cache.         *)
(***************************************************************************)
EXTENDS EdgeCache, FiniteSetTheorems, SequenceTheorems, TLAPS

(***************************************************************************)
(* Naturals: every non-empty set has a least element, hence induction.     *)
(***************************************************************************)

\* Every non-empty set of naturals has a least element.
LEMMA LeastNatural == \A T \in SUBSET Nat : T # {} => \E m \in T : \A k \in T : m <= k
PROOF
  <1> SUFFICES ASSUME NEW T \in SUBSET Nat, T # {}
               PROVE  \E m \in T : \A k \in T : m <= k
    OBVIOUS
  <1> DEFINE less == {ss \in Nat \X Nat : ss[1] < ss[2]}
  <1>1. IsWellFoundedOn(less, Nat)
    BY NatLessThanWellFounded DEF OpToRel
  <1>2. \E m \in T : \A k \in T : <<k, m>> \notin less
    <2> HIDE DEF less
    <2>1. QED
      BY <1>1, WFMin
  <1>3. \A k, m \in Nat : <<k, m>> \notin less => m <= k
    OBVIOUS
  <1>4. QED
    <2> HIDE DEF less
    <2>1. QED
      BY <1>2, <1>3

\* A set that holds 0 and is closed under successor up to a bound holds every number below it.
LEMMA Induction ==
  \A bound \in Nat : \A S :
    0 \in S /\ (\A n \in 1 .. bound : n - 1 \in S => n \in S) => 0 .. bound \subseteq S
PROOF
  <1> SUFFICES ASSUME NEW bound \in Nat, NEW S, 0 \in S,
                      \A n \in 1 .. bound : n - 1 \in S => n \in S,
                      NEW x \in 0 .. bound, x \notin S
               PROVE  FALSE
    OBVIOUS
  <1> DEFINE out == (0 .. bound) \ S
  <1>1. out \in SUBSET Nat /\ out # {}
    OBVIOUS
  <1>2. PICK m \in out : \A k \in out : m <= k
    BY <1>1, LeastNatural
  <1>3. m \in 1 .. bound /\ m - 1 \notin S
    BY <1>2
  <1>4. m - 1 \in out /\ m - 1 < m
    BY <1>3
  <1>5. QED
    BY <1>2, <1>4

\* g starts at first and goes on from each value as step says, up to bound.
Recursive(g, first, step, bound) ==
  \A n \in 0 .. bound : g[n] = IF n = 0 THEN first ELSE step[<<n, g[n - 1]>>]

\* A function defined by recursion over 0 .. bound exists.
LEMMA Recursion ==
  ASSUME NEW S, NEW first \in S, NEW bound \in Nat, NEW step \in [(1 .. bound) \X S -> S]
  PROVE  \E g \in [0 .. bound -> S] : Recursive(g, first, step, bound)
PROOF
  <1> DEFINE Follows(g, k) == Recursive(g, first, step, k)
             done == {k \in 0 .. bound : \E g \in [0 .. k -> S] : Follows(g, k)}
  <1>1. 0 \in done
    <2> DEFINE g == [n \in 0 .. 0 |-> first]
    <2>1. g \in [0 .. 0 -> S]
      OBVIOUS
    <2>2. Follows(g, 0)
      BY DEF Recursive
    <2> HIDE DEF g, Follows
    <2>3. QED
      BY <2>1, <2>2
  <1>2. ASSUME NEW n \in 1 .. bound, n - 1 \in done
        PROVE  n \in done
    <2>1. PICK g \in [0 .. n - 1 -> S] : Follows(g, n - 1)
      BY <1>2
    <2> DEFINE h == [m \in 0 .. n |-> IF m = n THEN step[<<n, g[n - 1]>>] ELSE g[m]]
    <2>2. h \in [0 .. n -> S]
      BY <2>1
    <2>h. \A k \in 0 .. n : h[k] = IF k = n THEN step[<<n, g[n - 1]>>] ELSE g[k]
      OBVIOUS
    <2>g. \A k \in 0 .. n - 1 : g[k] = IF k = 0 THEN first ELSE step[<<k, g[k - 1]>>]
      BY <2>1 DEF Recursive
    <2>3. \A m \in 0 .. n : h[m] = IF m = 0 THEN first ELSE step[<<m, h[m - 1]>>]
      <3> SUFFICES ASSUME NEW m \in 0 .. n
                   PROVE  h[m] = IF m = 0 THEN first ELSE step[<<m, h[m - 1]>>]
        OBVIOUS
      <3> HIDE DEF h
      <3>1. CASE m = n
        <4>1. h[m] = step[<<m, g[m - 1]>>] /\ m # 0
          BY <2>h, <3>1
        <4>2. h[m - 1] = g[m - 1]
          BY <2>h, <3>1
        <4>3. QED
          BY <4>1, <4>2
      <3>2. CASE m # n
        <4>1. m \in 0 .. n - 1 /\ h[m] = g[m]
          BY <2>h, <3>2
        <4>2. m # 0 => h[m - 1] = g[m - 1]
          BY <2>h, <3>2
        <4>3. QED
          BY <2>g, <4>1, <4>2
      <3>3. QED
        BY <3>1, <3>2
    <2>4. Follows(h, n)
      BY <2>3 DEF Recursive
    <2> HIDE DEF h, Follows
    <2>5. QED
      BY <2>2, <2>4
  <1> HIDE DEF done
  <1>3. 0 .. bound \subseteq done
    BY <1>1, <1>2, Induction
  <1>4. QED
    BY <1>3 DEF done

-----------------------------------------------------------------------------
(***************************************************************************)
(* The circle of buckets.                                                  *)
(***************************************************************************)

\* How many buckets a probe that starts at a goes forward to reach b.
Ahead(a, b) == IF a <= b THEN b - a ELSE b - a + TableSize

\* There is at least one bucket, and every slot number is one too.
LEMMA SizesPositive ==
  /\ TableSize \in Nat /\ TableSize > 0 /\ TableSize > Capacity
  /\ Capacity \in Nat /\ Capacity > 0
PROOF
  <1>1. QED
    BY CapacityAssumption, TableAssumption

\* Step wraps once at the end of the table.
LEMMA StepWraps ==
  \A a \in Buckets : \A n \in 0 .. TableSize :
    /\ Step(a, n) \in Buckets
    /\ Step(a, n) = IF a + n < TableSize THEN a + n ELSE a + n - TableSize
PROOF
  <1> SUFFICES ASSUME NEW a \in 0 .. TableSize - 1, NEW n \in 0 .. TableSize
               PROVE  /\ Step(a, n) \in Buckets
                      /\ Step(a, n) = IF a + n < TableSize THEN a + n ELSE a + n - TableSize
    BY DEF Buckets
  <1>1. (a + n) % TableSize = IF a + n < TableSize THEN a + n ELSE a + n - TableSize
    BY SizesPositive
  <1>2. QED
    BY <1>1, SizesPositive DEF Step, Buckets

\* Ahead is the inverse of Step.
LEMMA StepAhead ==
  /\ \A a, b \in Buckets : Ahead(a, b) \in Buckets /\ Step(a, Ahead(a, b)) = b
  /\ \A a, n \in Buckets : Ahead(a, Step(a, n)) = n
  /\ \A a \in Buckets : Step(a, TableSize) = a /\ Step(a, 0) = a
PROOF
  <1>1. \A a, b \in Buckets : Ahead(a, b) \in Buckets
    BY SizesPositive DEF Ahead, Buckets
  <1>2. Buckets \subseteq 0 .. TableSize
    BY SizesPositive DEF Buckets
  <1>3. \A a, b \in Buckets : Step(a, Ahead(a, b)) = b
    <2> SUFFICES ASSUME NEW a \in Buckets, NEW b \in Buckets
                 PROVE  Step(a, Ahead(a, b)) = b
      OBVIOUS
    <2>1. Step(a, Ahead(a, b)) = IF a + Ahead(a, b) < TableSize
                                 THEN a + Ahead(a, b) ELSE a + Ahead(a, b) - TableSize
      BY <1>1, <1>2, StepWraps
    <2>2. QED
      BY <2>1, SizesPositive DEF Ahead, Buckets
  <1>4. \A a, n \in Buckets : Ahead(a, Step(a, n)) = n
    <2> SUFFICES ASSUME NEW a \in Buckets, NEW n \in Buckets
                 PROVE  Ahead(a, Step(a, n)) = n
      OBVIOUS
    <2>1. Step(a, n) = IF a + n < TableSize THEN a + n ELSE a + n - TableSize
      BY <1>2, StepWraps
    <2>2. QED
      BY <2>1, SizesPositive DEF Ahead, Buckets
  <1>5. \A a \in Buckets : Step(a, TableSize) = a /\ Step(a, 0) = a
    <2> SUFFICES ASSUME NEW a \in Buckets
                 PROVE  Step(a, TableSize) = a /\ Step(a, 0) = a
      OBVIOUS
    <2>1. 0 \in 0 .. TableSize /\ TableSize \in 0 .. TableSize
      BY SizesPositive
    <2>2. QED
      BY <2>1, StepWraps, SizesPositive DEF Buckets
  <1>6. QED
    BY <1>1, <1>3, <1>4, <1>5

-----------------------------------------------------------------------------
(***************************************************************************)
(* The table.                                                              *)
(***************************************************************************)

\* The slots a table t holds.
Held(t) == {t[b] : b \in Buckets} \ {Nil}

\* A table t in which slots hold the ids of ids, hashed by homes, can be probed: no slot twice,
\* no id twice, and no empty bucket between the home of an entry and the entry.
Probeable(t, ids, homes) ==
  /\ \A b, c \in Buckets : t[b] = t[c] /\ t[b] # Nil => b = c
  /\ \A i, j \in Held(t) : ids[i] = ids[j] => i = j
  /\ \A b \in Buckets : t[b] # Nil => ids[t[b]] \in Ids
  /\ \A b, c \in Buckets :
       t[b] # Nil /\ Ahead(homes[ids[t[b]]], c) <= Ahead(homes[ids[t[b]]], b) => t[c] # Nil

\* A table that holds no slot twice has an empty bucket: it has twice as many as there are slots.
LEMMA EmptyBucket ==
  ASSUME NEW t \in [Buckets -> Slots \cup {Nil}],
         \A b, c \in Buckets : t[b] = t[c] /\ t[b] # Nil => b = c
  PROVE  \E b \in Buckets : t[b] = Nil
PROOF
  <1> SUFFICES ASSUME \A b \in Buckets : t[b] # Nil
               PROVE  FALSE
    OBVIOUS
  <1>1. t \in [Buckets -> Slots]
    OBVIOUS
  <1>2. IsFiniteSet(Buckets) /\ Cardinality(Buckets) = TableSize
    BY FS_Interval, SizesPositive DEF Buckets
  <1>3. IsFiniteSet(Slots) /\ Cardinality(Slots) = Capacity
    BY FS_Interval, SizesPositive DEF Slots
  <1>4. \E x, y \in Buckets : x # y /\ t[x] = t[y]
    BY <1>1, <1>2, <1>3, FS_PigeonHole, SizesPositive
  <1>5. QED
    BY <1>4

\* A probe from h through a table with an empty bucket meets a first one.
LEMMA FirstEmpty ==
  ASSUME NEW t, NEW h \in Buckets, \E b \in Buckets : t[b] = Nil
  PROVE  \E n \in Buckets : t[Step(h, n)] = Nil /\ \A m \in 0 .. n - 1 : t[Step(h, m)] # Nil
PROOF
  <1> DEFINE empty == {n \in Buckets : t[Step(h, n)] = Nil}
  <1>1. empty \in SUBSET Nat /\ empty # {}
    <2>1. PICK b \in Buckets : t[b] = Nil
      OBVIOUS
    <2>2. Ahead(h, b) \in empty
      BY <2>1, StepAhead
    <2>3. QED
      BY <2>2 DEF Buckets
  <1>2. PICK n \in empty : \A k \in empty : n <= k
    BY <1>1, LeastNatural
  <1>3. \A m \in 0 .. n - 1 : m \in Buckets /\ ~(n <= m)
    BY SizesPositive DEF Buckets
  <1>4. QED
    BY <1>2, <1>3

\* lookup finds the bucket of a resident id, and for any other id ends at an empty bucket.
LEMMA LookupFinds ==
  ASSUME TypeOK, Probeable(table, slotId, home), NEW id \in Ids
  PROVE  /\ BucketOf(id) \in Buckets
         /\ Lookup(id) # Nil => slotId[Lookup(id)] = id
         /\ \A b \in Buckets : table[b] # Nil /\ slotId[table[b]] = id => BucketOf(id) = b
PROOF
  <1> DEFINE p == ProbeLength(id)
             h == home[id]
  <1>1. h \in Buckets
    BY HomesAssumption DEF TypeOK
  <1>2. PICK e \in Buckets : /\ table[Step(h, e)] = Nil
                             /\ \A m \in 0 .. e - 1 : table[Step(h, m)] # Nil
    <2>1. \E b \in Buckets : table[b] = Nil
      BY EmptyBucket DEF TypeOK, Probeable
    <2>2. QED
      BY <1>1, <2>1, FirstEmpty
  <1>3. p \in Buckets /\ Stops(id, p) /\ \A m \in 0 .. p - 1 : ~Stops(id, m)
    <2> DEFINE stops == {n \in Buckets : Stops(id, n)}
    <2>1. stops \in SUBSET Nat /\ stops # {}
      BY <1>2 DEF Buckets, Stops
    <2>2. PICK n \in stops : \A k \in stops : n <= k
      BY <2>1, LeastNatural
    <2>3. \A m \in 0 .. n - 1 : m \in Buckets /\ ~(n <= m)
      BY SizesPositive DEF Buckets
    <2>4. \A m \in 0 .. n - 1 : ~Stops(id, m)
      BY <2>2, <2>3
    <2>5. \E q \in Buckets : Stops(id, q) /\ \A m \in 0 .. q - 1 : ~Stops(id, m)
      BY <2>2, <2>4
    <2>6. QED
      BY <2>5 DEF ProbeLength
  <1>4. BucketOf(id) = Step(h, p) /\ Step(h, p) \in Buckets
    <2>1. p \in 0 .. TableSize
      BY <1>3, SizesPositive DEF Buckets
    <2>2. QED
      BY <2>1, <1>1, StepWraps DEF BucketOf
  <1>5. Lookup(id) # Nil => slotId[Lookup(id)] = id
    BY <1>3, <1>4 DEF Lookup, Stops
  <1>6. ASSUME NEW b \in Buckets, table[b] # Nil, slotId[table[b]] = id
        PROVE  BucketOf(id) = b
    <2> DEFINE n == Ahead(h, b)
               c == Step(h, p)
    <2>1. n \in Buckets /\ Step(h, n) = b /\ Ahead(h, c) = p /\ c \in Buckets
      BY <1>1, <1>3, <1>4, StepAhead
    <2>2. Stops(id, n)
      BY <2>1, <1>6 DEF Stops
    <2>3. p <= n
      <3> HIDE DEF n, p
      <3>1. n < p => n \in 0 .. p - 1
        BY <2>1, <1>3 DEF Buckets
      <3>2. QED
        BY <3>1, <2>1, <2>2, <1>3 DEF Buckets
    <2>4. table[c] # Nil
      BY <2>1, <2>3, <1>6 DEF Probeable
    <2>5. slotId[table[c]] = id
      BY <1>3, <2>4 DEF Stops
    <2>6. table[c] = table[b]
      BY <2>1, <2>4, <2>5, <1>6 DEF Probeable, Held
    <2>7. QED
      BY <2>6, <2>1, <1>6, <1>4 DEF Probeable
  <1>7. QED
    BY <1>4, <1>5, <1>6

\* A table is sound for whole operations when it is a table of slots that can be probed.
SoundTable(t, ids) ==
  /\ t \in [Buckets -> Slots \cup {Nil}]
  /\ Probeable(t, ids, home)

\* The ids of the slots once sl has been given id.
Named(ids, sl, id) == [ids EXCEPT ![sl] = id]

\* tableInsert adds the slot to a sound table, and leaves it sound, when the slot is not in the
\* table and no slot in the table has the id.
LEMMA InsertionSound ==
  ASSUME NEW t, NEW ids, NEW id \in Ids, NEW sl \in Slots,
         home \in [Ids -> Homes], SoundTable(t, ids),
         ids \in [Slots -> Ids \cup {NoId}],
         sl \notin Held(t), \A other \in Held(t) : ids[other] # id
  PROVE  /\ SoundTable(InsertedInto(t, id, sl), Named(ids, sl, id))
         /\ Held(InsertedInto(t, id, sl)) = Held(t) \cup {sl}
PROOF
  <1> DEFINE h == home[id]
             n == CHOOSE n \in Buckets :
                    t[Step(h, n)] = Nil /\ \A m \in 0 .. n - 1 : t[Step(h, m)] # Nil
             e == Step(h, n)
             u == InsertedInto(t, id, sl)
             ids2 == [ids EXCEPT ![sl] = id]
  <1>1. h \in Buckets /\ Nil \notin Slots
    BY HomesAssumption DEF Nil, Slots
  <1>2. n \in Buckets /\ t[e] = Nil /\ \A m \in 0 .. n - 1 : t[Step(h, m)] # Nil
    <2>1. \E b \in Buckets : t[b] = Nil
      BY EmptyBucket DEF SoundTable, Probeable
    <2>2. \E q \in Buckets : t[Step(h, q)] = Nil /\ \A m \in 0 .. q - 1 : t[Step(h, m)] # Nil
      BY <1>1, <2>1, FirstEmpty
    <2>3. QED
      BY <2>2
  <1>3. u = [t EXCEPT ![e] = sl]
    BY DEF InsertedInto
  <1>4. e \in Buckets /\ Ahead(h, e) = n
    <2> HIDE DEF n, h
    <2>1. n \in 0 .. TableSize
      BY <1>2, SizesPositive DEF Buckets
    <2>2. QED
      BY <1>1, <1>2, <2>1, StepWraps, StepAhead
  <1>5. \A c \in Buckets : Ahead(h, c) < n => t[c] # Nil
    <2> SUFFICES ASSUME NEW c \in Buckets, Ahead(h, c) < n
                 PROVE  t[c] # Nil
      OBVIOUS
    <2>1. Ahead(h, c) \in 0 .. n - 1 /\ Step(h, Ahead(h, c)) = c
      <3> HIDE DEF n, h
      <3>1. Ahead(h, c) \in Buckets /\ Step(h, Ahead(h, c)) = c
        BY <1>1, StepAhead
      <3>2. QED
        BY <3>1, <1>2 DEF Buckets
    <2>2. QED
      BY <2>1, <1>2
  <1> HIDE DEF u, e, n, ids2
  <1>6. /\ u \in [Buckets -> Slots \cup {Nil}]
        /\ u[e] = sl /\ \A b \in Buckets : b # e => u[b] = t[b]
    BY <1>3, <1>4 DEF SoundTable
  <1>7. Held(u) = Held(t) \cup {sl}
    BY <1>1, <1>2, <1>4, <1>6 DEF Held
  <1>8. ids2[sl] = id /\ \A other \in Held(t) : ids2[other] = ids[other] /\ other \in Slots
    BY DEF ids2, Held, SoundTable
  <1>9. \A b \in Buckets : t[b] # Nil => t[b] \in Held(t)
    BY DEF Held
  <1>10. \A b, c \in Buckets : u[b] = u[c] /\ u[b] # Nil => b = c
    <2> SUFFICES ASSUME NEW b \in Buckets, NEW c \in Buckets, u[b] = u[c], u[b] # Nil
                 PROVE  b = c
      OBVIOUS
    <2>1. CASE b = e \/ c = e
      BY <2>1, <1>1, <1>6, <1>9
    <2>2. CASE b # e /\ c # e
      BY <2>2, <1>6 DEF SoundTable, Probeable
    <2>3. QED
      BY <2>1, <2>2
  <1>11. \A i, j \in Held(u) : ids2[i] = ids2[j] => i = j
    BY <1>7, <1>8 DEF SoundTable, Probeable
  <1>12. \A b \in Buckets : u[b] # Nil => ids2[u[b]] \in Ids
    BY <1>6, <1>8, <1>9 DEF SoundTable, Probeable
  <1>13. ASSUME NEW b \in Buckets, NEW c \in Buckets, u[b] # Nil,
                Ahead(home[ids2[u[b]]], c) <= Ahead(home[ids2[u[b]]], b)
         PROVE  u[c] # Nil
    <2>1. CASE c = e
      BY <2>1, <1>1, <1>6
    <2>2. CASE c # e /\ b = e
      <3>1. Ahead(h, c) <= n
        BY <2>2, <1>4, <1>6, <1>8, <1>13
      <3>2. Ahead(h, c) # n
        BY <2>2, <1>1, <1>4, StepAhead
      <3>3. Ahead(h, c) < n
        <4>1. Ahead(h, c) \in Int /\ n \in Int
          BY <1>1, <1>2, StepAhead DEF Buckets
        <4> HIDE DEF h
        <4>2. QED
          BY <3>1, <3>2, <4>1
      <3>4. QED
        BY <3>3, <1>5, <1>6, <2>2
    <2>3. CASE c # e /\ b # e
      <3>1. u[b] = t[b] /\ ids2[u[b]] = ids[t[b]]
        BY <2>3, <1>6, <1>8, <1>9, <1>13
      <3>2. t[c] # Nil
        BY <3>1, <1>13 DEF SoundTable, Probeable
      <3>3. QED
        BY <3>2, <2>3, <1>6
    <2>4. QED
      BY <2>1, <2>2, <2>3
  <1>14. Probeable(u, ids2, home)
    BY <1>10, <1>11, <1>12, <1>13 DEF Probeable
  <1>15. QED
    BY <1>6, <1>7, <1>14 DEF SoundTable, Named, u, ids2

\* The wrap-around test of tableErase says: the hole is on the way from the entry's home to it.
LEMMA MovableMeansBehind ==
  \A i, j, h \in Buckets : i # j => (Movable(i, j, h) <=> Ahead(h, i) < Ahead(h, j))
PROOF
  <1>1. QED
    BY SizesPositive DEF Movable, Ahead, Buckets

\* Three buckets keep their cyclic order, from wherever one looks.
LEMMA CyclicOrder ==
  \A s, h, a, b, c \in Buckets :
    /\ Ahead(s, a) < Ahead(s, b) /\ Ahead(s, b) < Ahead(s, c) /\ Ahead(h, a) <= Ahead(h, c)
         => Ahead(h, b) <= Ahead(h, c)
    /\ Ahead(s, a) < Ahead(s, b) /\ Ahead(s, b) < Ahead(s, c) /\ Ahead(h, b) <= Ahead(h, a)
         => Ahead(h, c) <= Ahead(h, a)
PROOF
  <1>1. QED
    BY SizesPositive DEF Ahead, Buckets

\* Distances are integers, and tell buckets apart.
LEMMA AheadDistinct ==
  \A a, b, c \in Buckets : Ahead(a, b) \in Int /\ (Ahead(a, b) = Ahead(a, c) => b = c)
PROOF
  <1>1. QED
    BY SizesPositive DEF Ahead, Buckets

\* The walk of tableErase after n rounds from the erased bucket s: which entries can have moved,
\* that none but the erased one is lost, and that the hole is on the way of no entry passed.
Walked(walk, s, n) ==
  LET t == walk.buckets
      hole == walk.hole
      Home(b) == home[slotId[t[b]]]
  IN /\ walk \in [buckets : [Buckets -> Slots \cup {Nil}], hole : Buckets]
     /\ Ahead(s, hole) <= n /\ table[hole] # Nil
     /\ \A b \in Buckets : Ahead(s, b) > n => t[b] = table[b]
     /\ \A b \in Buckets : t[b] = Nil <=> table[b] = Nil
     /\ \A b, c \in Buckets \ {hole} : t[b] = t[c] /\ t[b] # Nil => b = c
     /\ {t[b] : b \in Buckets \ {hole}} = {table[b] : b \in Buckets \ {s}}
     /\ \A b \in Buckets \ {hole} : \A c \in Buckets :
          t[b] # Nil /\ Ahead(Home(b), c) <= Ahead(Home(b), b)
            => table[c] # Nil /\ (c # hole \/ Ahead(s, b) > n)

\* Ids of held slots hash to buckets.
LEMMA HomesAreBuckets ==
  ASSUME TypeOK, Probeable(table, slotId, home)
  PROVE  \A sl \in InUse : slotId[sl] \in Ids /\ home[slotId[sl]] \in Buckets
PROOF
  <1>1. \A id \in Ids : home[id] \in Buckets
    BY HomesAssumption DEF TypeOK
  <1>2. QED
    BY <1>1 DEF InUse, Probeable

\* One round keeps what the walk promises.
LEMMA RoundWalks ==
  ASSUME TypeOK, Probeable(table, slotId, home),
         NEW s \in Buckets, table[s] # Nil,
         NEW run \in Nat, NEW n \in 1 .. run, run + 1 \in Buckets,
         table[Step(s, run + 1)] = Nil, \A m \in 1 .. run : table[Step(s, m)] # Nil,
         NEW walk, Walked(walk, s, n - 1)
  PROVE  Walked(Shifted(walk, Step(s, n)), s, n)
PROOF
  <1> DEFINE t == walk.buckets
             i == walk.hole
             j == Step(s, n)
             e == Step(s, run + 1)
             hj == home[slotId[t[j]]]
             Home(b) == home[slotId[t[b]]]
  <1>1. /\ t \in [Buckets -> Slots \cup {Nil}] /\ i \in Buckets
        /\ walk = [buckets |-> t, hole |-> i]
        /\ Ahead(s, i) <= n - 1 /\ table[i] # Nil
    BY DEF Walked
  <1>2. \A b \in Buckets : Ahead(s, b) > n - 1 => t[b] = table[b]
    BY DEF Walked
  <1>3. \A b \in Buckets : t[b] = Nil <=> table[b] = Nil
    BY DEF Walked
  <1>4. \A b, c \in Buckets \ {i} : t[b] = t[c] /\ t[b] # Nil => b = c
    BY DEF Walked
  <1>5. {t[b] : b \in Buckets \ {i}} = {table[b] : b \in Buckets \ {s}}
    BY DEF Walked
  <1>6. \A b \in Buckets \ {i} : \A c \in Buckets :
          t[b] # Nil /\ Ahead(Home(b), c) <= Ahead(Home(b), b)
            => table[c] # Nil /\ (c # i \/ Ahead(s, b) > n - 1)
    BY DEF Walked
  <1>7. /\ j \in Buckets /\ e \in Buckets /\ Ahead(s, j) = n /\ Ahead(s, e) = run + 1
        /\ table[j] # Nil /\ table[e] = Nil
    <2>1. n \in Buckets /\ n \in 0 .. TableSize /\ run + 1 \in 0 .. TableSize
      BY SizesPositive DEF Buckets
    <2>2. QED
      BY <2>1, StepWraps, StepAhead
  <1>8. i # j /\ t[j] = table[j] /\ t[j] # Nil /\ t[i] # Nil /\ j # s
    <2>1. Ahead(s, i) \in Int /\ Ahead(s, s) = 0
      BY <1>1, AheadDistinct, SizesPositive DEF Ahead, Buckets
    <2>2. QED
      BY <1>1, <1>2, <1>3, <1>7, <2>1
  <1>9. \A b \in Buckets : t[b] # Nil /\ b # i => Home(b) \in Buckets
    <2>1. \A b \in Buckets : t[b] # Nil /\ b # i => t[b] \in InUse
      BY <1>5 DEF InUse
    <2>2. QED
      BY <2>1, HomesAreBuckets
  <1>10. hj \in Buckets
    BY <1>7, <1>8, <1>9
  \* An entry passed has its home after s as well, so its way does not lead past the next bucket.
  <1>11. ASSUME NEW b \in Buckets, b # i, b # j, t[b] # Nil, Ahead(s, b) <= n
         PROVE  ~(Ahead(Home(b), j) <= Ahead(Home(b), b))
    <2> SUFFICES ASSUME Ahead(Home(b), j) <= Ahead(Home(b), b)
                 PROVE  FALSE
      OBVIOUS
    <2>1. Ahead(s, b) \in Int /\ Ahead(s, b) # n
      BY <1>7, <1>11, AheadDistinct
    <2>2. Ahead(s, b) < Ahead(s, j) /\ Ahead(s, j) < Ahead(s, e)
      BY <2>1, <1>7, <1>11
    <2>3. Home(b) \in Buckets
      BY <1>9, <1>11
    <2>4. Ahead(Home(b), e) <= Ahead(Home(b), b)
      <3> HIDE DEF Home, j, e
      <3>1. QED
        BY <2>2, <2>3, <1>7, CyclicOrder
    <2>5. QED
      BY <2>4, <1>6, <1>7, <1>11
  <1>12. CASE Movable(i, j, hj)
    <2> DEFINE u == [t EXCEPT ![i] = t[j]]
    <2>1. Shifted(walk, j) = [buckets |-> u, hole |-> j]
      BY <1>12 DEF Shifted
    <2>2. /\ u \in [Buckets -> Slots \cup {Nil}] /\ u[i] = t[j]
          /\ \A b \in Buckets : b # i => u[b] = t[b]
      BY <1>1, <1>7
    <2> HIDE DEF u
    <2>3. Ahead(hj, i) < Ahead(hj, j)
      <3> HIDE DEF hj, j
      <3>1. QED
        BY <1>1, <1>7, <1>8, <1>10, <1>12, MovableMeansBehind
    <2>4. \A b \in Buckets : Ahead(s, b) > n => u[b] = table[b]
      <3> SUFFICES ASSUME NEW b \in Buckets, Ahead(s, b) > n
                   PROVE  u[b] = table[b]
        OBVIOUS
      <3>1. Ahead(s, b) \in Int /\ Ahead(s, i) \in Int
        BY <1>1, AheadDistinct
      <3>2. Ahead(s, b) > n - 1 /\ b # i
        BY <3>1, <1>1
      <3>3. QED
        BY <3>2, <2>2, <1>2
    <2>5. \A b \in Buckets : u[b] = Nil <=> table[b] = Nil
      BY <2>2, <1>1, <1>3, <1>8
    <2>6. \A b, c \in Buckets \ {j} : u[b] = u[c] /\ u[b] # Nil => b = c
      BY <2>2, <1>1, <1>4, <1>7, <1>8
    <2>7. {u[b] : b \in Buckets \ {j}} = {t[b] : b \in Buckets \ {i}}
      BY <2>2, <1>1, <1>7, <1>8
    <2>8. ASSUME NEW b \in Buckets \ {j}, NEW c \in Buckets, u[b] # Nil,
                 Ahead(home[slotId[u[b]]], c) <= Ahead(home[slotId[u[b]]], b)
          PROVE  table[c] # Nil /\ (c # j \/ Ahead(s, b) > n)
      <3>1. CASE b = i
        <4>1. Ahead(hj, c) <= Ahead(hj, i)
          BY <3>1, <2>2, <2>8
        <4>2. Ahead(hj, c) < Ahead(hj, j) /\ Ahead(hj, c) <= Ahead(hj, j)
          <5> HIDE DEF hj, j
          <5>1. Ahead(hj, c) \in Int /\ Ahead(hj, i) \in Int /\ Ahead(hj, j) \in Int
            BY <1>1, <1>7, <1>10, AheadDistinct
          <5>2. QED
            BY <5>1, <4>1, <2>3
        <4>3. table[c] # Nil
          BY <4>2, <1>6, <1>7, <1>8
        <4>4. c # j
          <5>1. Ahead(hj, c) \in Int
            BY <1>10, AheadDistinct
          <5> HIDE DEF hj, j
          <5>2. QED
            BY <5>1, <4>2
        <4>5. QED
          BY <4>3, <4>4
      <3>2. CASE b # i
        <4>1. u[b] = t[b] /\ t[b] # Nil /\ Ahead(Home(b), c) <= Ahead(Home(b), b)
          BY <3>2, <2>2, <2>8
        <4>2. table[c] # Nil
          BY <4>1, <3>2, <1>6
        <4>3. Ahead(s, b) <= n => c # j
          BY <4>1, <3>2, <1>11
        <4>4. Ahead(s, b) \in Int
          BY AheadDistinct
        <4>5. QED
          BY <4>2, <4>3, <4>4
      <3>3. QED
        BY <3>1, <3>2
    <2>9. QED
      <3> DEFINE w == [buckets |-> u, hole |-> j]
      <3>1. w.buckets = u /\ w.hole = j
        OBVIOUS
      <3>2. w \in [buckets : [Buckets -> Slots \cup {Nil}], hole : Buckets]
        BY <2>2, <1>7
      <3>3. Ahead(s, j) <= n
        BY <1>7
      <3>4. {u[b] : b \in Buckets \ {j}} = {table[b] : b \in Buckets \ {s}}
        BY <2>7, <1>5
      <3>5. \A b \in Buckets \ {j} : \A c \in Buckets :
              u[b] # Nil /\ Ahead(home[slotId[u[b]]], c) <= Ahead(home[slotId[u[b]]], b)
                => table[c] # Nil /\ (c # j \/ Ahead(s, b) > n)
        BY <2>8
      <3> HIDE DEF w, j
      <3>6. {w.buckets[b] : b \in Buckets \ {w.hole}} = {table[b] : b \in Buckets \ {s}}
        BY <3>1, <3>4
      <3>7. \A b \in Buckets \ {w.hole} : \A c \in Buckets :
              w.buckets[b] # Nil
                /\ Ahead(home[slotId[w.buckets[b]]], c) <= Ahead(home[slotId[w.buckets[b]]], b)
                => table[c] # Nil /\ (c # w.hole \/ Ahead(s, b) > n)
        BY <3>1, <3>5
      <3>8. /\ Ahead(s, w.hole) <= n /\ table[w.hole] # Nil
            /\ \A b \in Buckets : Ahead(s, b) > n => w.buckets[b] = table[b]
            /\ \A b \in Buckets : w.buckets[b] = Nil <=> table[b] = Nil
            /\ \A b, c \in Buckets \ {w.hole} :
                 w.buckets[b] = w.buckets[c] /\ w.buckets[b] # Nil => b = c
        BY <3>1, <3>3, <2>4, <2>5, <2>6, <1>7 DEF j
      <3>9. Walked(w, s, n)
        BY <3>2, <3>6, <3>7, <3>8 DEF Walked
      <3>10. QED
        BY <3>9, <2>1 DEF w, j
  <1>13. CASE ~Movable(i, j, hj)
    <2>1. Shifted(walk, j) = walk
      BY <1>13 DEF Shifted
    <2>2. ~(Ahead(hj, i) <= Ahead(hj, j))
      <3> HIDE DEF hj, j
      <3>1. Ahead(hj, i) \in Int /\ Ahead(hj, j) \in Int /\ Ahead(hj, i) # Ahead(hj, j)
        BY <1>1, <1>7, <1>8, <1>10, AheadDistinct
      <3>2. QED
        BY <3>1, <1>1, <1>7, <1>8, <1>10, <1>13, MovableMeansBehind
    <2>3. Ahead(s, i) <= n /\ \A b \in Buckets : Ahead(s, b) > n => Ahead(s, b) > n - 1
      <3>1. \A b \in Buckets : Ahead(s, b) \in Int
        BY AheadDistinct
      <3>2. QED
        BY <3>1, <1>1
    <2>4. ASSUME NEW b \in Buckets \ {i}, NEW c \in Buckets, t[b] # Nil,
                 Ahead(Home(b), c) <= Ahead(Home(b), b)
          PROVE  table[c] # Nil /\ (c # i \/ Ahead(s, b) > n)
      <3>1. table[c] # Nil /\ (c # i \/ Ahead(s, b) > n - 1)
        BY <2>4, <1>6
      <3>2. b = j => c # i
        BY <2>2, <2>4
      <3>3. b # j => Ahead(s, b) # n /\ Ahead(s, b) \in Int
        BY <1>7, AheadDistinct
      <3>4. Ahead(s, b) \in Int /\ (Ahead(s, b) > n - 1 /\ Ahead(s, b) # n => Ahead(s, b) > n)
        BY AheadDistinct
      <3>5. QED
        BY <3>1, <3>2, <3>3, <3>4
    <2>5. Walked(walk, s, n)
      BY <2>3, <2>4, <1>1, <1>2, <1>3, <1>4, <1>5 DEF Walked
    <2>6. QED
      BY <2>1, <2>5
  <1>14. QED
    BY <1>12, <1>13

\* tableErase takes the slot of a resident id out of a sound table, and leaves it sound.
LEMMA ErasureSound ==
  ASSUME TypeOK, Probeable(table, slotId, home), NEW id \in Ids, Resident(id)
  PROVE  /\ SoundTable(ErasedFrom(id), slotId)
         /\ Held(ErasedFrom(id)) = InUse \ {Lookup(id)}
PROOF
  <1> DEFINE s == BucketOf(id)
             at(n) == Step(s, n)
             run == CHOOSE n \in Buckets :
                      table[at(n + 1)] = Nil /\ \A m \in 1 .. n : table[at(m)] # Nil
             Rounds(g) ==
               g = [n \in 0 .. run |->
                      IF n = 0 THEN [buckets |-> table, hole |-> s] ELSE Shifted(g[n - 1], at(n))]
             walked == CHOOSE g : Rounds(g)
             States == [buckets : [Buckets -> Slots \cup {Nil}], hole : Buckets]
  <1>1. ErasedFrom(id) = [walked[run].buckets EXCEPT ![walked[run].hole] = Nil]
    BY DEF ErasedFrom
  <1>2. s \in Buckets /\ table[s] # Nil /\ Lookup(id) = table[s]
    BY LookupFinds DEF Resident, Lookup
  <1> HIDE DEF s
  <1>3. /\ run \in Nat /\ run + 1 \in Buckets /\ table[at(run + 1)] = Nil
        /\ \A m \in 1 .. run : table[at(m)] # Nil
    <2> DEFINE empty == {n \in Buckets : n # 0 /\ table[at(n)] = Nil}
    <2>1. empty \in SUBSET Nat /\ empty # {}
      <3>1. PICK b \in Buckets : table[b] = Nil
        BY EmptyBucket DEF TypeOK, Probeable
      <3>2. Ahead(s, b) \in empty
        <4>1. Ahead(s, b) \in Buckets /\ at(Ahead(s, b)) = b /\ at(0) = s
          BY <1>2, StepAhead
        <4>2. QED
          BY <4>1, <3>1, <1>2
      <3>3. QED
        BY <3>2 DEF Buckets
    <2>2. PICK n \in empty : \A k \in empty : n <= k
      BY <2>1, LeastNatural
    <2>0. n \in Buckets /\ n # 0 /\ table[at(n)] = Nil
      OBVIOUS
    <2>3. n - 1 \in Buckets /\ (n - 1) + 1 = n /\ n - 1 \in Nat
      <3> HIDE DEF empty
      <3>1. QED
        BY <2>0, SizesPositive DEF Buckets
    <2>4. \A m \in 1 .. n - 1 : table[at(m)] # Nil
      <3> SUFFICES ASSUME NEW m \in 1 .. n - 1, table[at(m)] = Nil
                   PROVE  FALSE
        OBVIOUS
      <3>1. m \in Buckets /\ m # 0 /\ ~(n <= m)
        <4> HIDE DEF empty
        <4>1. QED
          BY <2>0, SizesPositive DEF Buckets
      <3>2. QED
        BY <3>1, <2>2
    <2>5. \E q \in Buckets : table[at(q + 1)] = Nil /\ \A m \in 1 .. q : table[at(m)] # Nil
      BY <2>0, <2>3, <2>4
    <2>6. /\ run \in Buckets /\ table[at(run + 1)] = Nil
          /\ \A m \in 1 .. run : table[at(m)] # Nil
      BY <2>5
    <2> HIDE DEF run
    <2>7. run + 1 # TableSize
      BY <2>6, <1>2, StepAhead
    <2>8. QED
      BY <2>6, <2>7, SizesPositive DEF Buckets
  <1> HIDE DEF run
  <1>4. \A m \in 0 .. run : at(m) \in Buckets
    <2>1. \A m \in 0 .. run : m \in 0 .. TableSize
      BY <1>3, SizesPositive DEF Buckets
    <2>2. QED
      BY <2>1, <1>2, StepWraps
  <1>5. Rounds(walked)
    <2> DEFINE step == [p \in (1 .. run) \X States |-> Shifted(p[2], at(p[1]))]
               first == [buckets |-> table, hole |-> s]
    <2>1. first \in States
      BY <1>2 DEF TypeOK
    <2>2. \A n \in 1 .. run : \A w \in States : Shifted(w, at(n)) \in States
      <3> SUFFICES ASSUME NEW n \in 1 .. run, NEW w \in States
                   PROVE  Shifted(w, at(n)) \in States
        OBVIOUS
      <3>1. at(n) \in Buckets
        BY <1>3, <1>4
      <3>2. w.buckets[at(n)] \in Slots \cup {Nil}
        BY <3>1
      <3> DEFINE u == [w.buckets EXCEPT ![w.hole] = w.buckets[at(n)]]
      <3>3. u \in [Buckets -> Slots \cup {Nil}]
        BY <3>2
      <3>4. [buckets |-> u, hole |-> at(n)] \in States
        BY <3>1, <3>3
      <3>5. QED
        BY <3>4 DEF Shifted
    <2>3. step \in [(1 .. run) \X States -> States]
      BY <2>2
    <2>4. \A n \in 1 .. run : \A w \in States : step[<<n, w>>] = Shifted(w, at(n))
      OBVIOUS
    <2> HIDE DEF step, first, States
    <2>5. PICK g \in [0 .. run -> States] : Recursive(g, first, step, run)
      BY <1>3, <2>1, <2>3, Recursion
    <2>6. \A n \in 0 .. run : g[n] = IF n = 0 THEN first ELSE Shifted(g[n - 1], at(n))
      <3> SUFFICES ASSUME NEW n \in 0 .. run
                   PROVE  g[n] = IF n = 0 THEN first ELSE Shifted(g[n - 1], at(n))
        OBVIOUS
      <3>1. g[n] = IF n = 0 THEN first ELSE step[<<n, g[n - 1]>>]
        BY <2>5 DEF Recursive
      <3>2. n # 0 => n \in 1 .. run /\ g[n - 1] \in States
        BY <1>3, <2>5
      <3>3. QED
        BY <3>1, <3>2, <2>4
    <2>7. Rounds(g)
      <3>1. g = [n \in 0 .. run |-> g[n]]
        BY <2>5
      <3>2. [n \in 0 .. run |-> g[n]]
              = [n \in 0 .. run |-> IF n = 0 THEN first ELSE Shifted(g[n - 1], at(n))]
        BY <2>6
      <3>3. QED
        BY <3>1, <3>2 DEF first
    <2> HIDE DEF Rounds
    <2>8. QED
      BY <2>7
  <1> HIDE DEF walked
  <1>6. walked[0] = [buckets |-> table, hole |-> s]
    BY <1>3, <1>5
  <1>7. \A n \in 1 .. run : walked[n] = Shifted(walked[n - 1], at(n))
    BY <1>3, <1>5
  <1>8. Walked(walked[0], s, 0)
    <2> DEFINE w == [buckets |-> table, hole |-> s]
    <2>1. w \in States /\ w.buckets = table /\ w.hole = s
      BY <1>2 DEF TypeOK
    <2>2. Ahead(s, s) = 0
      BY <1>2, SizesPositive DEF Ahead, Buckets
    <2>3. ASSUME NEW b \in Buckets \ {s}, NEW c \in Buckets, table[b] # Nil,
                 Ahead(home[slotId[table[b]]], c) <= Ahead(home[slotId[table[b]]], b)
          PROVE  table[c] # Nil /\ (c # s \/ Ahead(s, b) > 0)
      <3>1. table[c] # Nil
        BY <2>3 DEF Probeable
      <3>2. Ahead(s, b) \in Buckets /\ Ahead(s, b) # 0
        BY <1>2, <2>2, StepAhead, AheadDistinct
      <3>3. QED
        BY <3>1, <3>2 DEF Buckets
    <2>4. \A b \in Buckets \ {w.hole} : \A c \in Buckets :
            w.buckets[b] # Nil
              /\ Ahead(home[slotId[w.buckets[b]]], c) <= Ahead(home[slotId[w.buckets[b]]], b)
              => table[c] # Nil /\ (c # w.hole \/ Ahead(s, b) > 0)
      BY <2>1, <2>3
    <2>5. Walked(w, s, 0)
      BY <2>1, <2>2, <2>4, <1>2 DEF Walked, Probeable
    <2>6. QED
      BY <2>5, <1>6
  <1>9. Walked(walked[run], s, run)
    <2> DEFINE done == {n \in 0 .. run : Walked(walked[n], s, n)}
    <2>1. 0 \in done
      BY <1>3, <1>8
    <2>2. ASSUME NEW n \in 1 .. run, n - 1 \in done
          PROVE  n \in done
      <3>1. Walked(walked[n - 1], s, n - 1)
        BY <2>2
      <3>2. Walked(Shifted(walked[n - 1], at(n)), s, n)
        BY <3>1, <1>2, <1>3, RoundWalks
      <3>3. QED
        BY <3>2, <1>7
    <2>3. 0 .. run \subseteq done
      <3> HIDE DEF done
      <3>1. QED
        BY <1>3, <2>1, <2>2, Induction
    <2>4. QED
      BY <2>3, <1>3
  <1> DEFINE w == walked[run]
             t == w.buckets
             hole == w.hole
             u == [t EXCEPT ![hole] = Nil]
             e == at(run + 1)
             Home(b) == home[slotId[u[b]]]
  <1> HIDE DEF w
  <1>10. t \in [Buckets -> Slots \cup {Nil}] /\ hole \in Buckets
    BY <1>9 DEF Walked, w
  <1>11. /\ u \in [Buckets -> Slots \cup {Nil}] /\ u[hole] = Nil
         /\ \A b \in Buckets : b # hole => u[b] = t[b]
    BY <1>10 DEF Nil
  <1> HIDE DEF u
  <1>12. Held(u) = InUse \ {table[s]}
    <2>1. Held(u) = {t[b] : b \in Buckets \ {hole}} \ {Nil}
      BY <1>10, <1>11 DEF Held
    <2>2. {t[b] : b \in Buckets \ {hole}} = {table[b] : b \in Buckets \ {s}}
      BY <1>9 DEF Walked, w
    <2>3. {table[b] : b \in Buckets \ {s}} \ {Nil} = InUse \ {table[s]}
      BY <1>2 DEF InUse, Probeable
    <2>4. QED
      BY <2>1, <2>2, <2>3
  <1>13. \A b, c \in Buckets : u[b] = u[c] /\ u[b] # Nil => b = c
    <2>1. \A b, c \in Buckets \ {hole} : t[b] = t[c] /\ t[b] # Nil => b = c
      BY <1>9 DEF Walked, w
    <2>2. QED
      BY <2>1, <1>11
  <1>14. \A i, j \in Held(u) : slotId[i] = slotId[j] => i = j
    BY <1>12 DEF Probeable, InUse, Held
  <1>15. \A b \in Buckets :
           u[b] # Nil => u[b] \in InUse /\ slotId[u[b]] \in Ids /\ Home(b) \in Buckets
    <2>1. \A b \in Buckets : u[b] # Nil => u[b] \in InUse
      BY <1>12 DEF Held
    <2>2. QED
      BY <2>1, HomesAreBuckets
  <1>16. ASSUME NEW b \in Buckets, NEW c \in Buckets, u[b] # Nil,
                Ahead(Home(b), c) <= Ahead(Home(b), b)
         PROVE  u[c] # Nil
    <2>1. b # hole /\ u[b] = t[b] /\ t[b] # Nil
      BY <1>11, <1>16
    <2>2. table[c] # Nil /\ (c # hole \/ Ahead(s, b) > run)
      BY <2>1, <1>9, <1>16 DEF Walked, w
    <2>3. c # hole
      <3> SUFFICES ASSUME c = hole, Ahead(s, b) > run
                   PROVE  FALSE
        BY <2>2
      <3>1. e \in Buckets /\ Ahead(s, e) = run + 1 /\ table[e] = Nil
        <4>1. run + 1 \in 0 .. TableSize
          BY <1>3, SizesPositive DEF Buckets
        <4>2. QED
          BY <4>1, <1>2, <1>3, StepWraps, StepAhead
      <3>2. table[b] # Nil
        BY <2>1, <1>9 DEF Walked, w
      <3>3. Ahead(s, hole) <= run
        BY <1>9 DEF Walked, w
      <3>4. Ahead(s, hole) < Ahead(s, e) /\ Ahead(s, e) < Ahead(s, b)
        <4>1. Ahead(s, hole) \in Int /\ Ahead(s, b) \in Int /\ Ahead(s, b) # Ahead(s, e)
          BY <1>2, <1>10, <3>1, <3>2, AheadDistinct
        <4> HIDE DEF e
        <4>2. QED
          BY <4>1, <1>3, <3>1, <3>3
      <3>5. Home(b) \in Buckets
        BY <1>15, <1>16
      <3>6. Ahead(Home(b), e) <= Ahead(Home(b), b)
        <4> HIDE DEF e, Home
        <4>1. QED
          BY <3>1, <3>4, <3>5, <1>2, <1>10, <1>16, CyclicOrder
      <3>7. table[e] # Nil
        BY <3>1, <3>6, <2>1, <1>9 DEF Walked, w
      <3>8. QED
        BY <3>1, <3>7
    <2>4. t[c] # Nil
      BY <2>2, <1>9 DEF Walked, w
    <2>5. QED
      BY <2>3, <2>4, <1>11
  <1>17. Probeable(u, slotId, home)
    BY <1>13, <1>14, <1>15, <1>16 DEF Probeable
  <1>18. ErasedFrom(id) = u
    BY <1>1 DEF u, w
  <1>19. QED
    BY <1>2, <1>11, <1>12, <1>17, <1>18 DEF SoundTable

-----------------------------------------------------------------------------
(***************************************************************************)
(* The arena: a list u of n slots in use and a list f of m free ones.      *)
(***************************************************************************)

\* What the linked fields may hold.
LinkRecords ==
  [prev : [Slots -> Slots \cup {Nil}], next : [Slots -> Slots \cup {Nil}],
   head : Slots \cup {Nil}, tail : Slots \cup {Nil}, free : Slots \cup {Nil}, size : Int]

\* u lists n different slots.
Distinct(u, n) ==
  /\ u \in [1 .. n -> Slots]
  /\ \A j, k \in 1 .. n : u[j] = u[k] => j = k

\* The list in use is u, of length n.
UsedList(l, u, n) ==
  /\ n \in Nat /\ Distinct(u, n)
  /\ l.head = IF n = 0 THEN Nil ELSE u[1]
  /\ l.tail = IF n = 0 THEN Nil ELSE u[n]
  /\ \A k \in 1 .. n : l.next[u[k]] = IF k = n THEN Nil ELSE u[k + 1]
  /\ \A k \in 1 .. n : l.prev[u[k]] = IF k = 1 THEN Nil ELSE u[k - 1]

\* The free list is f, of length m.
FreeList(l, f, m) ==
  /\ m \in Nat /\ Distinct(f, m)
  /\ l.free = IF m = 0 THEN Nil ELSE f[1]
  /\ \A k \in 1 .. m : l.next[f[k]] = IF k = m THEN Nil ELSE f[k + 1]

\* Both lists, without a slot in common.
TwoLists(l, u, n, f, m) ==
  /\ l \in LinkRecords
  /\ UsedList(l, u, n) /\ FreeList(l, f, m)
  /\ \A j \in 1 .. n : \A k \in 1 .. m : u[j] # f[k]

\* sl is in neither list.
Loose(sl, u, n, f, m) ==
  /\ sl \in Slots
  /\ \A j \in 1 .. n : u[j] # sl
  /\ \A k \in 1 .. m : f[k] # sl

\* A list without its element k, and a list with one more in front.
Less(u, n, k) == [j \in 1 .. n - 1 |-> IF j < k THEN u[j] ELSE u[j + 1]]
More(sl, u, n) == [j \in 1 .. n + 1 |-> IF j = 1 THEN sl ELSE u[j - 1]]

\* A list of different slots stays one without one of them, and with a new one in front.
LEMMA LessMore ==
  /\ \A n \in Nat : \A u, k : Distinct(u, n) /\ k \in 1 .. n =>
       /\ Distinct(Less(u, n, k), n - 1)
       /\ \A j \in 1 .. n - 1 : Less(u, n, k)[j] # u[k]
  /\ \A n \in Nat : \A u : \A sl \in Slots :
       Distinct(u, n) /\ (\A j \in 1 .. n : u[j] # sl) => Distinct(More(sl, u, n), n + 1)
PROOF
  <1>1. ASSUME NEW n \in Nat, NEW u, NEW k \in 1 .. n, Distinct(u, n)
        PROVE  /\ Distinct(Less(u, n, k), n - 1)
               /\ \A j \in 1 .. n - 1 : Less(u, n, k)[j] # u[k]
    <2> DEFINE v == Less(u, n, k)
    <2>1. \A j \in 1 .. n - 1 : v[j] = IF j < k THEN u[j] ELSE u[j + 1]
      BY DEF Less
    <2>2. v \in [1 .. n - 1 -> Slots]
      BY <1>1 DEF Less, Distinct
    <2> HIDE DEF v
    <2>3. \A i, j \in 1 .. n - 1 : v[i] = v[j] => i = j
      <3> SUFFICES ASSUME NEW i \in 1 .. n - 1, NEW j \in 1 .. n - 1, v[i] = v[j]
                   PROVE  i = j
        OBVIOUS
      <3> DEFINE p == IF i < k THEN i ELSE i + 1
                 q == IF j < k THEN j ELSE j + 1
      <3>1. v[i] = u[p] /\ v[j] = u[q] /\ p \in 1 .. n /\ q \in 1 .. n
        BY <2>1
      <3>2. p = q
        BY <3>1, <1>1 DEF Distinct
      <3>3. QED
        BY <3>2
    <2>4. \A j \in 1 .. n - 1 : v[j] # u[k]
      <3> SUFFICES ASSUME NEW j \in 1 .. n - 1, v[j] = u[k]
                   PROVE  FALSE
        OBVIOUS
      <3> DEFINE q == IF j < k THEN j ELSE j + 1
      <3>1. v[j] = u[q] /\ q \in 1 .. n /\ q # k
        BY <2>1
      <3>2. QED
        BY <3>1, <1>1 DEF Distinct
    <2>5. QED
      BY <2>2, <2>3, <2>4 DEF Distinct, v
  <1>2. ASSUME NEW n \in Nat, NEW u, NEW sl \in Slots, Distinct(u, n),
               \A j \in 1 .. n : u[j] # sl
        PROVE  Distinct(More(sl, u, n), n + 1)
    <2> DEFINE v == More(sl, u, n)
    <2>1. \A j \in 1 .. n + 1 : v[j] = IF j = 1 THEN sl ELSE u[j - 1]
      BY DEF More
    <2>2. v \in [1 .. n + 1 -> Slots]
      BY <1>2 DEF More, Distinct
    <2> HIDE DEF v
    <2>3. \A i, j \in 1 .. n + 1 : v[i] = v[j] => i = j
      <3> SUFFICES ASSUME NEW i \in 1 .. n + 1, NEW j \in 1 .. n + 1, v[i] = v[j]
                   PROVE  i = j
        OBVIOUS
      <3>1. CASE i = 1 \/ j = 1
        BY <3>1, <2>1, <1>2
      <3>2. CASE i # 1 /\ j # 1
        <4>1. v[i] = u[i - 1] /\ v[j] = u[j - 1] /\ i - 1 \in 1 .. n /\ j - 1 \in 1 .. n
          BY <3>2, <2>1
        <4>2. i - 1 = j - 1
          BY <4>1, <1>2 DEF Distinct
        <4>3. QED
          BY <4>2
      <3>3. QED
        BY <3>1, <3>2
    <2>4. QED
      BY <2>2, <2>3 DEF Distinct, v
  <1>3. QED
    BY <1>1, <1>2

\* unlink takes an element out of the list in use and leaves the free list alone.
LEMMA UnlinkedLists ==
  ASSUME NEW l, NEW u, NEW n, NEW f, NEW m, TwoLists(l, u, n, f, m), NEW k \in 1 .. n
  PROVE  /\ TwoLists(Unlinked(l, u[k]), Less(u, n, k), n - 1, f, m)
         /\ Loose(u[k], Less(u, n, k), n - 1, f, m)
         /\ Unlinked(l, u[k]).size = l.size
PROOF
  <1> DEFINE sl == u[k]
             v == Less(u, n, k)
             r == Unlinked(l, sl)
             p == l.prev[sl]
             q == l.next[sl]
  <1>1. /\ n \in Nat /\ n >= 1 /\ m \in Nat /\ k \in Nat
        /\ Distinct(u, n) /\ Distinct(f, m) /\ sl \in Slots /\ Nil \notin Slots
    <2>1. n \in Nat /\ m \in Nat /\ Distinct(u, n) /\ Distinct(f, m)
      BY DEF TwoLists, UsedList, FreeList
    <2>2. sl \in Slots
      BY <2>1 DEF Distinct
    <2>3. QED
      BY <2>1, <2>2 DEF Nil, Slots
  <1>2. /\ r.next = [x \in Slots |-> IF x = sl THEN Nil ELSE IF x = p THEN q ELSE l.next[x]]
        /\ r.prev = [x \in Slots |-> IF x = sl THEN Nil ELSE IF x = q THEN p ELSE l.prev[x]]
        /\ r.head = (IF p = Nil THEN q ELSE l.head) /\ r.tail = (IF q = Nil THEN p ELSE l.tail)
        /\ r.free = l.free /\ r.size = l.size
    BY DEF TwoLists, LinkRecords, Unlinked
  <1>3. /\ p = (IF k = 1 THEN Nil ELSE u[k - 1])
        /\ q = (IF k = n THEN Nil ELSE u[k + 1])
    BY DEF TwoLists, UsedList
  <1>4. p \in Slots \cup {Nil} /\ q \in Slots \cup {Nil}
    BY <1>1 DEF TwoLists, LinkRecords
  <1>5. r \in LinkRecords
    <2> DEFINE nn == [x \in Slots |-> IF x = sl THEN Nil ELSE IF x = p THEN q ELSE l.next[x]]
               pp == [x \in Slots |-> IF x = sl THEN Nil ELSE IF x = q THEN p ELSE l.prev[x]]
               hh == IF p = Nil THEN q ELSE l.head
               tt == IF q = Nil THEN p ELSE l.tail
    <2>1. nn \in [Slots -> Slots \cup {Nil}] /\ pp \in [Slots -> Slots \cup {Nil}]
      BY <1>4 DEF TwoLists, LinkRecords
    <2>2. hh \in Slots \cup {Nil} /\ tt \in Slots \cup {Nil}
      BY <1>4 DEF TwoLists, LinkRecords
    <2>3. l \in LinkRecords /\ r = [l EXCEPT !.next = nn, !.prev = pp, !.head = hh, !.tail = tt]
      BY DEF TwoLists, Unlinked, LinkRecords
    <2> HIDE DEF nn, pp, hh, tt, r
    <2>4. QED
      BY <2>1, <2>2, <2>3 DEF LinkRecords
  <1> HIDE DEF r, p, q
  <1>6. /\ Distinct(v, n - 1)
        /\ \A j \in 1 .. n - 1 : v[j] = (IF j < k THEN u[j] ELSE u[j + 1]) /\ v[j] # sl
    BY <1>1, LessMore DEF Less
  <1> HIDE DEF v
  <1>7. Loose(sl, v, n - 1, f, m) /\ \A j \in 1 .. n - 1 : \A i \in 1 .. m : v[j] # f[i]
    BY <1>1, <1>6 DEF Loose, TwoLists
  <1>8. FreeList(r, f, m)
    <2>1. \A i \in 1 .. m : r.next[f[i]] = l.next[f[i]]
      <3> SUFFICES ASSUME NEW i \in 1 .. m
                   PROVE  r.next[f[i]] = l.next[f[i]]
        OBVIOUS
      <3>1. f[i] \in Slots /\ f[i] # sl /\ f[i] # p
        BY <1>1, <1>3 DEF TwoLists, Distinct
      <3>2. QED
        BY <3>1, <1>2
    <2>2. QED
      BY <2>1, <1>2 DEF TwoLists, FreeList
  <1>9. UsedList(r, v, n - 1)
    <2>1. \A i, j \in 1 .. n : u[i] = u[j] => i = j
      BY <1>1 DEF Distinct
    <2>2. \A j \in 1 .. n : /\ u[j] \in Slots
                            /\ l.next[u[j]] = IF j = n THEN Nil ELSE u[j + 1]
                            /\ l.prev[u[j]] = IF j = 1 THEN Nil ELSE u[j - 1]
      BY <1>1 DEF TwoLists, UsedList, Distinct
    <2>3. ASSUME NEW j \in 1 .. n, j # k
          PROVE  /\ r.next[u[j]] = IF j = k - 1 THEN q ELSE IF j = n THEN Nil ELSE u[j + 1]
                 /\ r.prev[u[j]] = IF j = k + 1 THEN p ELSE IF j = 1 THEN Nil ELSE u[j - 1]
      <3>1. u[j] # sl
        BY <2>1, <2>3
      <3>2. u[j] = p <=> j = k - 1
        BY <1>1, <1>3, <2>1, <2>2
      <3>3. u[j] = q <=> j = k + 1
        BY <1>1, <1>3, <2>1, <2>2
      <3>4. QED
        BY <3>1, <3>2, <3>3, <1>2, <2>2
    <2>4. ASSUME NEW j \in 1 .. n - 1
          PROVE  r.next[v[j]] = IF j = n - 1 THEN Nil ELSE v[j + 1]
      <3>1. CASE j < k
        <4>1. r.next[v[j]] = IF j = k - 1 THEN q ELSE u[j + 1]
          BY <3>1, <1>1, <1>6, <2>3
        <4>2. QED
          BY <4>1, <3>1, <1>1, <1>3, <1>6
      <3>2. CASE ~(j < k)
        <4>1. v[j] = u[j + 1] /\ j + 1 \in 1 .. n /\ j + 1 # k
          BY <3>2, <1>1, <1>6
        <4>2. r.next[v[j]] = IF j + 1 = n THEN Nil ELSE u[(j + 1) + 1]
          BY <4>1, <3>2, <1>1, <2>3
        <4>3. QED
          BY <4>1, <4>2, <3>2, <1>1, <1>6
      <3>3. QED
        BY <3>1, <3>2
    <2>5. ASSUME NEW j \in 1 .. n - 1
          PROVE  r.prev[v[j]] = IF j = 1 THEN Nil ELSE v[j - 1]
      <3>1. CASE j < k
        <4>1. r.prev[v[j]] = IF j = 1 THEN Nil ELSE u[j - 1]
          BY <3>1, <1>1, <1>6, <2>3
        <4>2. QED
          BY <4>1, <3>1, <1>1, <1>6
      <3>2. CASE ~(j < k)
        <4>1. v[j] = u[j + 1] /\ j + 1 \in 1 .. n /\ j + 1 # k /\ j + 1 # 1
          BY <3>2, <1>1, <1>6
        <4>2. r.prev[v[j]] = IF j = k THEN p ELSE u[j]
          BY <4>1, <3>2, <1>1, <2>3
        <4>3. QED
          BY <4>1, <4>2, <3>2, <1>1, <1>3, <1>6
      <3>3. QED
        BY <3>1, <3>2
    <2>6. r.head = IF n - 1 = 0 THEN Nil ELSE v[1]
      <3>1. l.head = u[1] /\ (k # 1 => u[k - 1] # Nil)
        BY <1>1, <2>2 DEF TwoLists, UsedList
      <3>2. QED
        BY <3>1, <1>1, <1>2, <1>3, <1>6
    <2>7. r.tail = IF n - 1 = 0 THEN Nil ELSE v[n - 1]
      <3>1. l.tail = u[n] /\ (k # n => u[k + 1] # Nil)
        BY <1>1, <2>2 DEF TwoLists, UsedList
      <3>2. QED
        BY <3>1, <1>1, <1>2, <1>3, <1>6
    <2>8. QED
      BY <2>4, <2>5, <2>6, <2>7, <1>1, <1>6 DEF UsedList
  <1>10. QED
    BY <1>2, <1>5, <1>7, <1>8, <1>9 DEF TwoLists, r, v

\* pushFront puts a loose slot in front of the list in use.
LEMMA PushedLists ==
  ASSUME NEW l, NEW u, NEW n, NEW f, NEW m, NEW sl,
         TwoLists(l, u, n, f, m), Loose(sl, u, n, f, m)
  PROVE  /\ TwoLists(PushedFront(l, sl), More(sl, u, n), n + 1, f, m)
         /\ PushedFront(l, sl).size = l.size
PROOF
  <1> DEFINE v == More(sl, u, n)
             r == PushedFront(l, sl)
             nn == [l.next EXCEPT ![sl] = l.head]
             pp == [x \in Slots |-> IF x = sl THEN Nil ELSE IF x = l.head THEN sl ELSE l.prev[x]]
             tt == IF l.tail = Nil THEN sl ELSE l.tail
  <1>1. /\ n \in Nat /\ m \in Nat
        /\ Distinct(u, n) /\ Distinct(f, m) /\ sl \in Slots /\ Nil \notin Slots
    BY DEF TwoLists, UsedList, FreeList, Loose, Nil, Slots
  <1>2. /\ r = [l EXCEPT !.next = nn, !.prev = pp, !.head = sl, !.tail = tt]
        /\ nn \in [Slots -> Slots \cup {Nil}] /\ pp \in [Slots -> Slots \cup {Nil}]
        /\ tt \in Slots \cup {Nil}
    BY <1>1 DEF TwoLists, LinkRecords, PushedFront
  <1>3. r \in LinkRecords
    <2> HIDE DEF nn, pp, tt, r
    <2>1. QED
      BY <1>1, <1>2 DEF TwoLists, LinkRecords
  <1>4. /\ \A x \in Slots : r.next[x] = IF x = sl THEN l.head ELSE l.next[x]
        /\ \A x \in Slots : r.prev[x] = IF x = sl THEN Nil ELSE IF x = l.head THEN sl ELSE l.prev[x]
        /\ r.head = sl /\ r.tail = (IF l.tail = Nil THEN sl ELSE l.tail)
        /\ r.free = l.free /\ r.size = l.size
    BY <1>1, <1>2 DEF TwoLists, LinkRecords
  <1> HIDE DEF r
  <1>5. /\ Distinct(v, n + 1)
        /\ \A j \in 1 .. n + 1 : v[j] = IF j = 1 THEN sl ELSE u[j - 1]
    BY <1>1, LessMore DEF Loose, More
  <1> HIDE DEF v
  <1>6. \A j \in 1 .. n + 1 : \A i \in 1 .. m : v[j] # f[i]
    <2> SUFFICES ASSUME NEW j \in 1 .. n + 1, NEW i \in 1 .. m
                 PROVE  v[j] # f[i]
      OBVIOUS
    <2>1. j # 1 => j - 1 \in 1 .. n
      BY <1>1
    <2>2. QED
      BY <2>1, <1>5 DEF TwoLists, Loose
  <1>7. FreeList(r, f, m)
    <2>1. \A i \in 1 .. m : r.next[f[i]] = l.next[f[i]]
      BY <1>1, <1>4 DEF Loose, Distinct
    <2>2. QED
      BY <2>1, <1>4 DEF TwoLists, FreeList
  <1>8. \A j \in 1 .. n : /\ u[j] \in Slots /\ u[j] # sl
                          /\ l.next[u[j]] = IF j = n THEN Nil ELSE u[j + 1]
                          /\ l.prev[u[j]] = IF j = 1 THEN Nil ELSE u[j - 1]
    BY <1>1 DEF TwoLists, UsedList, Distinct, Loose
  <1>9. /\ l.head = IF n = 0 THEN Nil ELSE u[1]
        /\ l.tail = IF n = 0 THEN Nil ELSE u[n]
    BY DEF TwoLists, UsedList
  <1>10. ASSUME NEW j \in 1 .. n + 1
         PROVE  /\ r.next[v[j]] = IF j = n + 1 THEN Nil ELSE v[j + 1]
                /\ r.prev[v[j]] = IF j = 1 THEN Nil ELSE v[j - 1]
    <2>1. CASE j = 1
      <3>1. v[j] = sl /\ r.next[v[j]] = l.head /\ r.prev[v[j]] = Nil
        BY <2>1, <1>1, <1>4, <1>5
      <3>2. n # 0 => v[j + 1] = u[1]
        BY <2>1, <1>1, <1>5
      <3>3. QED
        BY <3>1, <3>2, <2>1, <1>1, <1>9
    <2>2. CASE j # 1
      <3>1. v[j] = u[j - 1] /\ j - 1 \in 1 .. n /\ (j - 1) + 1 = j
        BY <2>2, <1>1, <1>5
      <3>2. r.next[v[j]] = IF j - 1 = n THEN Nil ELSE u[(j - 1) + 1]
        BY <3>1, <1>4, <1>8
      <3>3. j # n + 1 => v[j + 1] = u[j]
        BY <2>2, <1>1, <1>5
      <3>4. r.next[v[j]] = IF j = n + 1 THEN Nil ELSE v[j + 1]
        BY <3>1, <3>2, <3>3, <1>1
      <3>5. CASE j = 2
        <4>1. v[j] = l.head /\ v[j] # sl /\ v[j] \in Slots
          BY <3>1, <3>5, <1>1, <1>8, <1>9
        <4>2. r.prev[v[j]] = sl /\ v[j - 1] = sl
          BY <4>1, <3>5, <1>1, <1>4, <1>5
        <4>3. QED
          BY <4>2, <3>4, <3>5
      <3>6. CASE j # 2
        <4>1. u[j - 1] # u[1] /\ n # 0
          BY <3>1, <3>6, <1>1 DEF Distinct
        <4>2. r.prev[v[j]] = u[(j - 1) - 1]
          BY <4>1, <3>1, <3>6, <1>4, <1>8, <1>9, <1>1
        <4>3. v[j - 1] = u[(j - 1) - 1]
          BY <2>2, <3>6, <1>1, <1>5
        <4>4. QED
          BY <4>2, <4>3, <3>4, <2>2
      <3>7. QED
        BY <3>5, <3>6
    <2>3. QED
      BY <2>1, <2>2
  <1>11. r.head = v[1] /\ r.tail = v[n + 1]
    <2>1. v[1] = sl /\ v[n + 1] = IF n = 0 THEN sl ELSE u[n]
      BY <1>1, <1>5
    <2>2. n # 0 => u[n] # Nil
      BY <1>1, <1>8
    <2>3. QED
      BY <2>1, <2>2, <1>1, <1>4, <1>9
  <1>12. UsedList(r, v, n + 1)
    BY <1>1, <1>5, <1>10, <1>11 DEF UsedList
  <1>13. QED
    BY <1>3, <1>4, <1>6, <1>7, <1>12 DEF TwoLists, r, v

\* freeSlot puts a loose slot in front of the free list.
LEMMA FreedLists ==
  ASSUME NEW l, NEW u, NEW n, NEW f, NEW m, NEW sl,
         TwoLists(l, u, n, f, m), Loose(sl, u, n, f, m)
  PROVE  /\ TwoLists(FreedSlot(l, sl), u, n, More(sl, f, m), m + 1)
         /\ FreedSlot(l, sl).size = l.size - 1
PROOF
  <1> DEFINE v == More(sl, f, m)
             r == FreedSlot(l, sl)
             nn == [l.next EXCEPT ![sl] = l.free]
  <1>1. /\ n \in Nat /\ m \in Nat
        /\ Distinct(u, n) /\ Distinct(f, m) /\ sl \in Slots /\ Nil \notin Slots
    BY DEF TwoLists, UsedList, FreeList, Loose, Nil, Slots
  <1>2. /\ r = [l EXCEPT !.next = nn, !.free = sl, !.size = l.size - 1]
        /\ nn \in [Slots -> Slots \cup {Nil}] /\ l.size - 1 \in Int
    BY <1>1 DEF TwoLists, LinkRecords, FreedSlot
  <1>3. r \in LinkRecords
    <2> HIDE DEF nn, r
    <2>1. QED
      BY <1>1, <1>2 DEF TwoLists, LinkRecords
  <1>4. /\ \A x \in Slots : r.next[x] = IF x = sl THEN l.free ELSE l.next[x]
        /\ r.prev = l.prev /\ r.head = l.head /\ r.tail = l.tail
        /\ r.free = sl /\ r.size = l.size - 1
    BY <1>1, <1>2 DEF TwoLists, LinkRecords
  <1> HIDE DEF r
  <1>5. /\ Distinct(v, m + 1)
        /\ \A j \in 1 .. m + 1 : v[j] = IF j = 1 THEN sl ELSE f[j - 1]
    BY <1>1, LessMore DEF Loose, More
  <1> HIDE DEF v
  <1>6. \A j \in 1 .. n : \A i \in 1 .. m + 1 : u[j] # v[i]
    <2> SUFFICES ASSUME NEW j \in 1 .. n, NEW i \in 1 .. m + 1
                 PROVE  u[j] # v[i]
      OBVIOUS
    <2>1. i # 1 => i - 1 \in 1 .. m
      BY <1>1
    <2>2. QED
      BY <2>1, <1>5 DEF TwoLists, Loose
  <1>7. UsedList(r, u, n)
    <2>1. \A j \in 1 .. n : r.next[u[j]] = l.next[u[j]]
      BY <1>1, <1>4 DEF Loose, Distinct
    <2>2. QED
      BY <2>1, <1>4 DEF TwoLists, UsedList
  <1>8. \A j \in 1 .. m : /\ f[j] \in Slots /\ f[j] # sl
                          /\ l.next[f[j]] = IF j = m THEN Nil ELSE f[j + 1]
    BY <1>1 DEF TwoLists, FreeList, Distinct, Loose
  <1>9. ASSUME NEW j \in 1 .. m + 1
        PROVE  r.next[v[j]] = IF j = m + 1 THEN Nil ELSE v[j + 1]
    <2>1. CASE j = 1
      <3>1. v[j] = sl /\ r.next[v[j]] = l.free
        BY <2>1, <1>1, <1>4, <1>5
      <3>2. l.free = IF m = 0 THEN Nil ELSE f[1]
        BY DEF TwoLists, FreeList
      <3>3. m # 0 => v[j + 1] = f[1]
        BY <2>1, <1>1, <1>5
      <3>4. QED
        BY <3>1, <3>2, <3>3, <2>1, <1>1
    <2>2. CASE j # 1
      <3>1. v[j] = f[j - 1] /\ j - 1 \in 1 .. m /\ (j - 1) + 1 = j
        BY <2>2, <1>1, <1>5
      <3>2. r.next[v[j]] = IF j - 1 = m THEN Nil ELSE f[(j - 1) + 1]
        BY <3>1, <1>4, <1>8
      <3>3. j # m + 1 => v[j + 1] = f[j]
        BY <2>2, <1>1, <1>5
      <3>4. QED
        BY <3>1, <3>2, <3>3, <1>1
    <2>3. QED
      BY <2>1, <2>2
  <1>10. r.free = v[1]
    BY <1>1, <1>4, <1>5
  <1>11. FreeList(r, v, m + 1)
    BY <1>1, <1>5, <1>9, <1>10 DEF FreeList
  <1>12. QED
    BY <1>3, <1>4, <1>6, <1>7, <1>11 DEF TwoLists, r, v

\* put takes the first free slot, if there is one.
LEMMA TakenLists ==
  ASSUME NEW l, NEW u, NEW n, NEW f, NEW m, TwoLists(l, u, n, f, m), m # 0
  PROVE  /\ TwoLists(TakenSlot(l), u, n, Less(f, m, 1), m - 1)
         /\ Loose(l.free, u, n, Less(f, m, 1), m - 1)
         /\ l.free = f[1] /\ TakenSlot(l).size = l.size + 1
PROOF
  <1> DEFINE v == Less(f, m, 1)
             r == TakenSlot(l)
  <1>1. /\ n \in Nat /\ m \in Nat /\ 1 \in 1 .. m
        /\ Distinct(u, n) /\ Distinct(f, m) /\ Nil \notin Slots
    <2>1. n \in Nat /\ m \in Nat /\ Distinct(u, n) /\ Distinct(f, m)
      BY DEF TwoLists, UsedList, FreeList
    <2>2. QED
      BY <2>1 DEF Nil, Slots
  <1>2. l.free = f[1] /\ f[1] \in Slots /\ l.next[l.free] \in Slots \cup {Nil}
    <2>1. l.free = f[1] /\ f[1] \in Slots
      BY <1>1 DEF TwoLists, FreeList, Distinct
    <2>2. QED
      BY <2>1 DEF TwoLists, LinkRecords
  <1>3. r = [l EXCEPT !.free = l.next[l.free], !.size = l.size + 1] /\ l.size + 1 \in Int
    BY DEF TwoLists, LinkRecords, TakenSlot
  <1>4. r \in LinkRecords
    <2> HIDE DEF r
    <2>1. QED
      BY <1>2, <1>3 DEF TwoLists, LinkRecords
  <1>5. /\ r.next = l.next /\ r.prev = l.prev /\ r.head = l.head /\ r.tail = l.tail
        /\ r.free = l.next[l.free] /\ r.size = l.size + 1
    BY <1>3 DEF TwoLists, LinkRecords
  <1> HIDE DEF r
  <1>6. /\ Distinct(v, m - 1)
        /\ \A j \in 1 .. m - 1 : v[j] # f[1]
    BY <1>1, LessMore
  <1>7. \A j \in 1 .. m - 1 : v[j] = f[j + 1] /\ j + 1 \in 1 .. m
    BY <1>1 DEF Less
  <1> HIDE DEF v
  <1>8. \A j \in 1 .. m : l.next[f[j]] = IF j = m THEN Nil ELSE f[j + 1]
    BY DEF TwoLists, FreeList
  <1>9. ASSUME NEW j \in 1 .. m - 1
        PROVE  r.next[v[j]] = IF j = m - 1 THEN Nil ELSE v[j + 1]
    <2>1. r.next[v[j]] = IF j + 1 = m THEN Nil ELSE f[(j + 1) + 1]
      BY <1>5, <1>7, <1>8
    <2>2. j # m - 1 => v[j + 1] = f[(j + 1) + 1]
      BY <1>1, <1>7
    <2>3. QED
      BY <2>1, <2>2, <1>1
  <1>10. r.free = IF m - 1 = 0 THEN Nil ELSE v[1]
    <2>1. r.free = IF 1 = m THEN Nil ELSE f[1 + 1]
      BY <1>1, <1>2, <1>5, <1>8
    <2>2. m # 1 => v[1] = f[1 + 1]
      BY <1>1, <1>7
    <2>3. QED
      BY <2>1, <2>2, <1>1
  <1>11. FreeList(r, v, m - 1)
    BY <1>1, <1>6, <1>9, <1>10 DEF FreeList
  <1>12. UsedList(r, u, n)
    BY <1>5 DEF TwoLists, UsedList
  <1>13. \A j \in 1 .. n : \A i \in 1 .. m - 1 : u[j] # v[i]
    BY <1>7 DEF TwoLists
  <1>14. Loose(l.free, u, n, v, m - 1)
    BY <1>1, <1>2, <1>6 DEF Loose, TwoLists
  <1>15. QED
    BY <1>2, <1>4, <1>5, <1>11, <1>12, <1>13, <1>14 DEF TwoLists, r, v

\* sl and link lead through u, and end after n slots.
LeadsThrough(link, sl, u, n) ==
  /\ sl = IF n = 0 THEN Nil ELSE u[1]
  /\ \A k \in 1 .. n : link[u[k]] = IF k = n THEN Nil ELSE u[k + 1]

\* Chain follows next to the end of a list that fits in the arena.
LEMMA ChainFollows ==
  ASSUME NEW link, NEW u, NEW n \in 0 .. Capacity, Distinct(u, n), NEW sl,
         LeadsThrough(link, sl, u, n)
  PROVE  Chain(link, sl) = u /\ Len(Chain(link, sl)) = n
PROOF
  <1>0. /\ sl = IF n = 0 THEN Nil ELSE u[1]
        /\ \A k \in 1 .. n : link[u[k]] = IF k = n THEN Nil ELSE u[k + 1]
    BY DEF LeadsThrough
  <1> DEFINE g == [k \in 0 .. Capacity |-> IF k < n THEN u[k + 1] ELSE Nil]
             Follows(nth) ==
               nth = [k \in 0 .. Capacity |->
                        IF k = 0 THEN sl ELSE IF nth[k - 1] = Nil THEN Nil ELSE link[nth[k - 1]]]
             nth == CHOOSE nth : Follows(nth)
             length == Cardinality({k \in 0 .. Capacity : nth[k] # Nil})
  <1>1. /\ Capacity \in Nat /\ n \in Nat /\ n <= Capacity
        /\ \A k \in 1 .. n : u[k] # Nil /\ u[k] \in Slots
    BY SizesPositive DEF Distinct, Slots, Nil
  <1>2. Follows(g)
    <2>1. ASSUME NEW k \in 0 .. Capacity
          PROVE  g[k] = IF k = 0 THEN sl ELSE IF g[k - 1] = Nil THEN Nil ELSE link[g[k - 1]]
      <3>1. CASE k = 0
        BY <3>1, <1>0, <1>1
      <3>2. CASE k # 0
        <4>1. k - 1 \in 0 .. Capacity /\ (k - 1) + 1 = k
          BY <3>2, <1>1
        <4>2. g[k - 1] = IF k - 1 < n THEN u[k] ELSE Nil
          BY <4>1
        <4>3. k - 1 < n => k \in 1 .. n /\ (k = n <=> ~(k < n))
          BY <3>2, <1>1
        <4>4. ~(k - 1 < n) => ~(k < n)
          BY <1>1
        <4>5. g[k] = IF k < n THEN u[k + 1] ELSE Nil
          OBVIOUS
        <4> HIDE DEF g
        <4>6. QED
          BY <3>2, <4>2, <4>3, <4>4, <4>5, <1>0, <1>1
      <3>3. QED
        BY <3>1, <3>2
    <2>2. g = [k \in 0 .. Capacity |-> g[k]]
      OBVIOUS
    <2> HIDE DEF g
    <2>3. [k \in 0 .. Capacity |-> g[k]]
            = [k \in 0 .. Capacity |->
                 IF k = 0 THEN sl ELSE IF g[k - 1] = Nil THEN Nil ELSE link[g[k - 1]]]
      BY <2>1
    <2>4. QED
      BY <2>2, <2>3
  <1>3. Follows(nth)
    <2> HIDE DEF Follows, g
    <2>1. QED
      BY <1>2
  <1>4. /\ nth[0] = sl
        /\ \A k \in 1 .. Capacity : nth[k] = IF nth[k - 1] = Nil THEN Nil ELSE link[nth[k - 1]]
    <2> HIDE DEF nth
    <2>1. QED
      BY <1>1, <1>3
  <1>5. /\ g[0] = sl
        /\ \A k \in 1 .. Capacity : g[k] = IF g[k - 1] = Nil THEN Nil ELSE link[g[k - 1]]
    <2> HIDE DEF g
    <2>1. QED
      BY <1>1, <1>2
  <1>6. \A k \in 0 .. Capacity : nth[k] = g[k]
    <2> DEFINE same == {k \in 0 .. Capacity : nth[k] = g[k]}
    <2> HIDE DEF nth, g
    <2>1. 0 \in same
      BY <1>1, <1>4, <1>5
    <2>2. \A k \in 1 .. Capacity : k - 1 \in same => k \in same
      BY <1>4, <1>5
    <2>3. 0 .. Capacity \subseteq same
      <3> HIDE DEF same
      <3>1. QED
        BY <1>1, <2>1, <2>2, Induction
    <2>4. QED
      BY <2>3
  <1>7. length = n
    <2>1. {k \in 0 .. Capacity : nth[k] # Nil} = 0 .. n - 1
      <3>1. \A k \in 0 .. Capacity : g[k] # Nil <=> k < n
        BY <1>1
      <3> HIDE DEF nth, g
      <3>2. QED
        BY <3>1, <1>1, <1>6
    <2>2. Cardinality(0 .. n - 1) = n
      BY <1>1, FS_Interval
    <2>3. QED
      BY <2>1, <2>2
  <1>8. Chain(link, sl) = [k \in 1 .. length |-> nth[k - 1]]
    BY DEF Chain
  <1>9. \A k \in 1 .. n : nth[k - 1] = u[k]
    <2>1. \A k \in 1 .. n : k - 1 \in 0 .. Capacity /\ k - 1 < n /\ (k - 1) + 1 = k
      BY <1>1
    <2>2. \A k \in 1 .. n : g[k - 1] = u[k]
      BY <2>1
    <2> HIDE DEF nth, g
    <2>3. QED
      BY <2>1, <2>2, <1>6
  <1>10. Chain(link, sl) = [k \in 1 .. n |-> u[k]]
    <2> HIDE DEF nth, length
    <2>1. QED
      BY <1>7, <1>8, <1>9
  <1>11. u = [k \in 1 .. n |-> u[k]]
    BY DEF Distinct
  <1>12. QED
    BY <1>1, <1>10, <1>11

\* The slots of a list.
Elements(u, n) == {u[j] : j \in 1 .. n}

\* What a list holds without one of its elements, and with one more.
LEMMA ElementsChange ==
  /\ \A n \in Nat : \A u, k : Distinct(u, n) /\ k \in 1 .. n =>
       Elements(Less(u, n, k), n - 1) = Elements(u, n) \ {u[k]}
  /\ \A n \in Nat : \A u, sl : Elements(More(sl, u, n), n + 1) = Elements(u, n) \cup {sl}
PROOF
  <1>1. ASSUME NEW n \in Nat, NEW u, NEW k \in 1 .. n, Distinct(u, n)
        PROVE  Elements(Less(u, n, k), n - 1) = Elements(u, n) \ {u[k]}
    <2> DEFINE v == Less(u, n, k)
    <2>1. \A j \in 1 .. n - 1 : v[j] = IF j < k THEN u[j] ELSE u[j + 1]
      BY DEF Less
    <2>2. \A j \in 1 .. n - 1 : v[j] # u[k]
      BY <1>1, LessMore
    <2> HIDE DEF v
    <2>3. \A j \in 1 .. n - 1 : v[j] \in Elements(u, n) \ {u[k]}
      <3> SUFFICES ASSUME NEW j \in 1 .. n - 1
                   PROVE  v[j] \in Elements(u, n)
        BY <2>2
      <3>1. j \in 1 .. n /\ j + 1 \in 1 .. n
        OBVIOUS
      <3>2. QED
        BY <3>1, <2>1 DEF Elements
    <2>4. \A i \in 1 .. n : i # k => \E j \in 1 .. n - 1 : v[j] = u[i]
      <3> SUFFICES ASSUME NEW i \in 1 .. n, i # k
                   PROVE  \E j \in 1 .. n - 1 : v[j] = u[i]
        OBVIOUS
      <3> DEFINE j == IF i < k THEN i ELSE i - 1
      <3>1. j \in 1 .. n - 1 /\ v[j] = u[i]
        BY <2>1
      <3>2. QED
        BY <3>1
    <2>5. QED
      BY <2>3, <2>4 DEF Elements, v
  <1>2. ASSUME NEW n \in Nat, NEW u, NEW sl
        PROVE  Elements(More(sl, u, n), n + 1) = Elements(u, n) \cup {sl}
    <2> DEFINE v == More(sl, u, n)
    <2>1. \A j \in 1 .. n + 1 : v[j] = IF j = 1 THEN sl ELSE u[j - 1]
      BY DEF More
    <2> HIDE DEF v
    <2>2. \A j \in 1 .. n + 1 : v[j] \in Elements(u, n) \cup {sl}
      <3> SUFFICES ASSUME NEW j \in 1 .. n + 1
                   PROVE  v[j] \in Elements(u, n) \cup {sl}
        OBVIOUS
      <3>1. j # 1 => j - 1 \in 1 .. n
        OBVIOUS
      <3>2. QED
        BY <3>1, <2>1 DEF Elements
    <2>3. \A i \in 1 .. n : i + 1 \in 1 .. n + 1 /\ v[i + 1] = u[i]
      BY <2>1
    <2>4. 1 \in 1 .. n + 1 /\ v[1] = sl
      BY <2>1
    <2>5. QED
      BY <2>2, <2>3, <2>4 DEF Elements, v
  <1>3. QED
    BY <1>1, <1>2

\* The two lists fill the arena, and size counts the one in use.
Arena(l, u, n, f, m) ==
  /\ TwoLists(l, u, n, f, m)
  /\ l.size = n /\ n + m = Capacity
  /\ Elements(u, n) \cup Elements(f, m) = Slots

\* put of a resident id moves its slot to the front.
LEMMA RefreshedArena ==
  ASSUME NEW l, NEW u, NEW n, NEW f, NEW m, Arena(l, u, n, f, m), NEW k \in 1 .. n
  PROVE  /\ Arena(PushedFront(Unlinked(l, u[k]), u[k]), More(u[k], Less(u, n, k), n - 1), n, f, m)
         /\ Elements(More(u[k], Less(u, n, k), n - 1), n) = Elements(u, n)
PROOF
  <1> DEFINE l1 == Unlinked(l, u[k])
             u1 == Less(u, n, k)
  <1>1. n \in Nat /\ m \in Nat /\ n - 1 \in Nat /\ (n - 1) + 1 = n /\ Distinct(u, n)
    <2>1. n \in Nat /\ m \in Nat /\ Distinct(u, n)
      BY DEF Arena, TwoLists, UsedList, FreeList
    <2>2. QED
      BY <2>1
  <1>2. /\ TwoLists(l1, u1, n - 1, f, m) /\ Loose(u[k], u1, n - 1, f, m) /\ l1.size = l.size
    BY UnlinkedLists DEF Arena
  <1> HIDE DEF l1, u1
  <1>3. /\ TwoLists(PushedFront(l1, u[k]), More(u[k], u1, n - 1), n, f, m)
        /\ PushedFront(l1, u[k]).size = l.size
    BY <1>1, <1>2, PushedLists
  <1>4. u[k] \in Elements(u, n)
    BY DEF Elements
  <1>5. Elements(u1, n - 1) = Elements(u, n) \ {u[k]}
    BY <1>1, ElementsChange DEF u1
  <1>6. Elements(More(u[k], u1, n - 1), (n - 1) + 1) = Elements(u, n)
    <2>1. \A p \in Nat : Elements(More(u[k], u1, p), p + 1) = Elements(u1, p) \cup {u[k]}
      BY ElementsChange
    <2>2. Elements(More(u[k], u1, n - 1), (n - 1) + 1) = Elements(u1, n - 1) \cup {u[k]}
      <3> DEFINE p == n - 1
      <3>1. p \in Nat
        BY <1>1
      <3> HIDE DEF p
      <3>2. Elements(More(u[k], u1, p), p + 1) = Elements(u1, p) \cup {u[k]}
        BY <3>1, <2>1
      <3>3. QED
        BY <3>2 DEF p
    <2>3. QED
      BY <2>2, <1>4, <1>5
  <1>7. QED
    BY <1>1, <1>3, <1>6 DEF Arena, l1, u1

\* put of a new id takes the first free slot, when there is one.
LEMMA InsertedArena ==
  ASSUME NEW l, NEW u, NEW n, NEW f, NEW m, Arena(l, u, n, f, m), m # 0
  PROVE  /\ Arena(PushedFront(TakenSlot(l), l.free), More(f[1], u, n), n + 1, Less(f, m, 1), m - 1)
         /\ l.free = f[1] /\ f[1] \in Slots /\ f[1] \notin Elements(u, n)
PROOF
  <1> DEFINE l1 == TakenSlot(l)
             f1 == Less(f, m, 1)
  <1>1. n \in Nat /\ m \in Nat /\ 1 \in 1 .. m /\ Distinct(f, m)
    <2>1. n \in Nat /\ m \in Nat /\ Distinct(f, m)
      BY DEF Arena, TwoLists, UsedList, FreeList
    <2>2. QED
      BY <2>1
  <1>2. /\ TwoLists(l1, u, n, f1, m - 1) /\ Loose(l.free, u, n, f1, m - 1)
        /\ l.free = f[1] /\ l1.size = l.size + 1
    BY TakenLists DEF Arena
  <1> HIDE DEF l1, f1
  <1>3. /\ TwoLists(PushedFront(l1, l.free), More(l.free, u, n), n + 1, f1, m - 1)
        /\ PushedFront(l1, l.free).size = l.size + 1
    BY <1>2, PushedLists
  <1>4. f[1] \in Elements(f, m) /\ Elements(f1, m - 1) = Elements(f, m) \ {f[1]}
    <2>1. f[1] \in Elements(f, m)
      BY <1>1 DEF Elements
    <2>2. Elements(Less(f, m, 1), m - 1) = Elements(f, m) \ {f[1]}
      BY <1>1, ElementsChange
    <2>3. QED
      BY <2>1, <2>2 DEF f1
  <1>5. Elements(More(f[1], u, n), n + 1) = Elements(u, n) \cup {f[1]}
    BY <1>1, ElementsChange
  <1>6. f[1] \in Slots /\ f[1] \notin Elements(u, n)
    BY <1>1, <1>2 DEF Loose, Elements
  <1>7. QED
    BY <1>1, <1>2, <1>3, <1>4, <1>5, <1>6 DEF Arena, l1, f1

\* erase moves the slot of an id to the free list.
LEMMA ErasedArena ==
  ASSUME NEW l, NEW u, NEW n, NEW f, NEW m, Arena(l, u, n, f, m), NEW k \in 1 .. n
  PROVE  /\ Arena(FreedSlot(Unlinked(l, u[k]), u[k]), Less(u, n, k), n - 1, More(u[k], f, m), m + 1)
         /\ FreedSlot(Unlinked(l, u[k]), u[k]).free = u[k]
PROOF
  <1> DEFINE l1 == Unlinked(l, u[k])
             u1 == Less(u, n, k)
  <1>1. n \in Nat /\ m \in Nat /\ n - 1 \in Nat /\ Distinct(u, n)
    <2>1. n \in Nat /\ m \in Nat /\ Distinct(u, n)
      BY DEF Arena, TwoLists, UsedList, FreeList
    <2>2. QED
      BY <2>1
  <1>2. /\ TwoLists(l1, u1, n - 1, f, m) /\ Loose(u[k], u1, n - 1, f, m) /\ l1.size = l.size
    BY UnlinkedLists DEF Arena
  <1> HIDE DEF l1, u1
  <1>3. /\ TwoLists(FreedSlot(l1, u[k]), u1, n - 1, More(u[k], f, m), m + 1)
        /\ FreedSlot(l1, u[k]).size = l.size - 1
    BY <1>2, FreedLists
  <1>4. u[k] \in Elements(u, n) /\ Elements(u1, n - 1) = Elements(u, n) \ {u[k]}
    BY <1>1, ElementsChange DEF u1, Elements
  <1>5. Elements(More(u[k], f, m), m + 1) = Elements(f, m) \cup {u[k]}
    BY <1>1, ElementsChange
  <1>6. FreedSlot(l1, u[k]).free = u[k]
    BY <1>2 DEF FreedSlot, TwoLists, LinkRecords
  <1>7. QED
    BY <1>1, <1>3, <1>4, <1>5, <1>6 DEF Arena, l1, u1

\* put in a full cache frees the slot at the tail and takes it back for the front.
LEMMA EvictedArena ==
  ASSUME NEW l, NEW u, NEW n, NEW f, NEW m, Arena(l, u, n, f, m), n # 0
  PROVE  /\ l.tail = u[n] /\ n \in 1 .. n
         /\ \E f1 :
              Arena(PushedFront(TakenSlot(FreedSlot(Unlinked(l, l.tail), l.tail)), l.tail),
                    More(l.tail, Less(u, n, n), n - 1), n, f1, m)
PROOF
  <1>1. n \in Nat /\ m \in Nat /\ n \in 1 .. n /\ (n - 1) + 1 = n /\ (m + 1) - 1 = m /\ m + 1 # 0
    <2>1. n \in Nat /\ m \in Nat
      BY DEF Arena, TwoLists, UsedList, FreeList
    <2>2. QED
      BY <2>1
  <1>2. l.tail = u[n]
    BY DEF Arena, TwoLists, UsedList
  <1> DEFINE l2 == FreedSlot(Unlinked(l, u[n]), u[n])
             u2 == Less(u, n, n)
             f2 == More(u[n], f, m)
  <1>3. Arena(l2, u2, n - 1, f2, m + 1) /\ l2.free = u[n]
    BY <1>1, ErasedArena
  <1> HIDE DEF l2, u2, f2
  <1>4. /\ Arena(PushedFront(TakenSlot(l2), l2.free), More(f2[1], u2, n - 1), (n - 1) + 1,
                 Less(f2, m + 1, 1), (m + 1) - 1)
        /\ l2.free = f2[1]
    BY <1>1, <1>3, InsertedArena
  <1>5. QED
    BY <1>1, <1>2, <1>3, <1>4 DEF l2, u2

-----------------------------------------------------------------------------
(***************************************************************************)
(* The inductive invariant, and the actions.                               *)
(***************************************************************************)

\* u and f are the lists of the arena as it is, and the table holds the slots of u.
Arranged(u, n, f, m) == Arena(Links, u, n, f, m) /\ InUse = Elements(u, n)

\* The table can be probed; the arena splits into two lists; every slot in use has a list.
IInv ==
  /\ TypeOK
  /\ Probeable(table, slotId, home)
  /\ \E u, n, f, m : Arranged(u, n, f, m)
  /\ \A sl \in InUse : enc[sl] \in Lists

\* Which ids are resident, and where.
LEMMA ResidentFacts ==
  ASSUME IInv, NEW id \in Ids
  PROVE  /\ Resident(id) => Lookup(id) \in InUse /\ slotId[Lookup(id)] = id
         /\ \A sl \in InUse : slotId[sl] = id => Resident(id) /\ Lookup(id) = sl
         /\ ~Resident(id) => \A sl \in InUse : slotId[sl] # id
PROOF
  <1>1. Resident(id) => Lookup(id) \in InUse /\ slotId[Lookup(id)] = id
    BY LookupFinds DEF IInv, Resident, Lookup, InUse
  <1>2. ASSUME NEW sl \in InUse, slotId[sl] = id
        PROVE  Resident(id) /\ Lookup(id) = sl
    <2>1. PICK b \in Buckets : table[b] = sl /\ table[b] # Nil
      BY DEF InUse
    <2>2. BucketOf(id) = b
      BY <1>2, <2>1, LookupFinds DEF IInv
    <2>3. QED
      BY <2>1, <2>2 DEF Resident, Lookup
  <1>3. QED
    BY <1>1, <1>2

\* The same, with slots of the list in use, and what the type says of a slot in use.
LEMMA UseFacts ==
  ASSUME IInv, NEW u, NEW n, NEW f, NEW m, Arranged(u, n, f, m)
  PROVE  /\ n \in Nat /\ m \in Nat /\ n + m = Capacity /\ size = n
         /\ Distinct(u, n) /\ Links \in LinkRecords
         /\ \A sl \in InUse : sl \in Slots /\ sl # Nil /\ \E k \in 1 .. n : u[k] = sl
         /\ \A k \in 1 .. n : u[k] \in InUse
PROOF
  <1>1. /\ n \in Nat /\ m \in Nat /\ n + m = Capacity /\ size = n
        /\ Distinct(u, n) /\ Links \in LinkRecords
    BY DEF Arranged, Arena, TwoLists, UsedList, FreeList, Links
  <1>2. \A sl \in InUse : sl \in Slots /\ sl # Nil
    BY DEF IInv, TypeOK, InUse
  <1>3. \A sl \in InUse : \E k \in 1 .. n : u[k] = sl
    BY DEF Arranged, Elements
  <1>4. \A k \in 1 .. n : u[k] \in InUse
    BY DEF Arranged, Elements
  <1>5. QED
    BY <1>1, <1>2, <1>3, <1>4

\* SetLinks makes the linked fields what it is given, within their types.
LEMMA LinksSet ==
  ASSUME NEW l, NEW u, NEW n, NEW f, NEW m, Arena(l, u, n, f, m), SetLinks(l)
  PROVE  /\ Links' = l
         /\ prev' \in [Slots -> Slots \cup {Nil}] /\ next' \in [Slots -> Slots \cup {Nil}]
         /\ {head', tail', free'} \subseteq Slots \cup {Nil} /\ size' \in 0 .. Capacity
PROOF
  <1>1. l \in LinkRecords /\ l.size = n /\ n \in Nat /\ m \in Nat /\ n + m = Capacity
    BY DEF Arena, TwoLists, UsedList, FreeList
  <1>2. l = [prev |-> l.prev, next |-> l.next, head |-> l.head, tail |-> l.tail,
             free |-> l.free, size |-> l.size]
    BY <1>1 DEF LinkRecords
  <1>3. Links' = l
    BY <1>2 DEF Links, SetLinks
  <1>4. /\ prev' \in [Slots -> Slots \cup {Nil}] /\ next' \in [Slots -> Slots \cup {Nil}]
        /\ {head', tail', free'} \subseteq Slots \cup {Nil}
    BY <1>1 DEF LinkRecords, SetLinks
  <1>5. size' \in 0 .. Capacity
    BY <1>1, SizesPositive DEF SetLinks
  <1>6. QED
    BY <1>3, <1>4, <1>5

\* put of a resident id.
LEMMA RefreshStep ==
  ASSUME IInv, NEW id \in Ids, NEW list \in Lists, Refresh(id, list),
         NEW u, NEW n, NEW f, NEW m, Arranged(u, n, f, m)
  PROVE  /\ TypeOK' /\ Probeable(table, slotId, home)' /\ InUse' = InUse
         /\ \A sl \in InUse' : enc'[sl] \in Lists
         /\ \E k \in 1 .. n :
              /\ slotId[u[k]] = id
              /\ Arranged(More(u[k], Less(u, n, k), n - 1), n, f, m)'
PROOF
  <1>1. PICK k \in 1 .. n : u[k] = Lookup(id) /\ slotId[u[k]] = id
    BY ResidentFacts, UseFacts DEF Refresh
  <1> DEFINE l == PushedFront(Unlinked(Links, u[k]), u[k])
             v == More(u[k], Less(u, n, k), n - 1)
  <1>2. Arena(l, v, n, f, m)
    BY RefreshedArena DEF Arranged
  <1>3. SetLinks(l)
    BY <1>1 DEF Refresh
  <1> HIDE DEF l
  <1>4. /\ Links' = l
        /\ prev' \in [Slots -> Slots \cup {Nil}] /\ next' \in [Slots -> Slots \cup {Nil}]
        /\ {head', tail', free'} \subseteq Slots \cup {Nil} /\ size' \in 0 .. Capacity
    BY <1>2, <1>3, LinksSet
  <1>5. /\ enc' = [enc EXCEPT ![u[k]] = list]
        /\ UNCHANGED <<home, slotId, table, answer>>
    BY <1>1 DEF Refresh
  <1>6. InUse' = InUse
    BY <1>5 DEF InUse
  <1>7. TypeOK'
    BY <1>4, <1>5 DEF TypeOK, IInv
  <1>8. Probeable(table, slotId, home)'
    BY <1>5 DEF IInv, Probeable, Held
  <1>9. \A sl \in InUse' : enc'[sl] \in Lists
    BY <1>5, <1>6, UseFacts DEF IInv, TypeOK
  <1>10. Elements(v, n) = Elements(u, n)
    BY RefreshedArena DEF Arranged
  <1> HIDE DEF v
  <1>11. Arranged(v, n, f, m)'
    BY <1>2, <1>4, <1>6, <1>10 DEF Arranged
  <1>12. QED
    BY <1>1, <1>6, <1>7, <1>8, <1>9, <1>11 DEF v

\* put of a new id into a free slot.
LEMMA InsertStep ==
  ASSUME IInv, NEW id \in Ids, NEW list \in Lists, Insert(id, list),
         NEW u, NEW n, NEW f, NEW m, Arranged(u, n, f, m)
  PROVE  /\ TypeOK' /\ Probeable(table, slotId, home)' /\ InUse' = InUse \cup {free}
         /\ \A sl \in InUse' : enc'[sl] \in Lists
         /\ free \in Slots \ InUse /\ free = f[1]
         /\ Arranged(More(f[1], u, n), n + 1, Less(f, m, 1), m - 1)'
PROOF
  <1> DEFINE l == PushedFront(TakenSlot(Links), free)
  <1>1. m # 0 /\ Links.free = free
    BY UseFacts DEF Insert, Links
  <1>2. /\ Arena(PushedFront(TakenSlot(Links), Links.free), More(f[1], u, n), n + 1,
                 Less(f, m, 1), m - 1)
        /\ Links.free = f[1] /\ f[1] \in Slots /\ f[1] \notin Elements(u, n)
    BY <1>1, InsertedArena DEF Arranged
  <1>3. Arena(l, More(f[1], u, n), n + 1, Less(f, m, 1), m - 1) /\ free \in Slots \ InUse
    BY <1>1, <1>2 DEF Arranged
  <1>4. SetLinks(l)
    BY DEF Insert
  <1> HIDE DEF l
  <1>5. /\ Links' = l
        /\ prev' \in [Slots -> Slots \cup {Nil}] /\ next' \in [Slots -> Slots \cup {Nil}]
        /\ {head', tail', free'} \subseteq Slots \cup {Nil} /\ size' \in 0 .. Capacity
    BY <1>3, <1>4, LinksSet
  <1>6. /\ slotId' = [slotId EXCEPT ![free] = id]
        /\ enc' = [enc EXCEPT ![free] = list]
        /\ table' = InsertedInto(table, id, free)
        /\ home' = home /\ answer' = answer /\ ~Resident(id)
    BY DEF Insert
  <1>7. SoundTable(table', slotId') /\ Held(table') = InUse \cup {free}
    <2>1. /\ home \in [Ids -> Homes] /\ SoundTable(table, slotId)
          /\ slotId \in [Slots -> Ids \cup {NoId}] /\ Held(table) = InUse
      BY DEF IInv, TypeOK, SoundTable, Held, InUse
    <2>2. \A other \in Held(table) : slotId[other] # id
      BY <1>6, <2>1, ResidentFacts
    <2>3. /\ SoundTable(InsertedInto(table, id, free), Named(slotId, free, id))
          /\ Held(InsertedInto(table, id, free)) = Held(table) \cup {free}
      BY <1>3, <2>1, <2>2, InsertionSound
    <2>4. QED
      BY <1>6, <2>1, <2>3 DEF Named
  <1>8. InUse' = InUse \cup {free}
    BY <1>7 DEF InUse, Held
  <1>9. TypeOK'
    BY <1>3, <1>5, <1>6, <1>7 DEF TypeOK, IInv, SoundTable
  <1>10. Probeable(table, slotId, home)'
    BY <1>6, <1>7 DEF SoundTable, Probeable, Held
  <1>11. \A sl \in InUse' : enc'[sl] \in Lists
    BY <1>3, <1>6, <1>8, UseFacts DEF IInv, TypeOK
  <1>12. Elements(More(f[1], u, n), n + 1) = Elements(u, n) \cup {free}
    <2>1. n \in Nat
      BY UseFacts
    <2>2. QED
      BY <1>1, <1>2, <2>1, ElementsChange
  <1>13. Arranged(More(f[1], u, n), n + 1, Less(f, m, 1), m - 1)'
    BY <1>3, <1>5, <1>8, <1>12 DEF Arranged
  <1>14. QED
    BY <1>1, <1>2, <1>3, <1>8, <1>9, <1>10, <1>11, <1>13

\* put of a new id into a full cache.
LEMMA InsertEvictingStep ==
  ASSUME IInv, NEW id \in Ids, NEW list \in Lists, InsertEvicting(id, list),
         NEW u, NEW n, NEW f, NEW m, Arranged(u, n, f, m)
  PROVE  /\ TypeOK' /\ Probeable(table, slotId, home)' /\ InUse' = InUse
         /\ \A sl \in InUse' : enc'[sl] \in Lists
         /\ n = Capacity /\ n \in 1 .. n /\ tail = u[n]
         /\ \E f1 : Arranged(More(u[n], Less(u, n, n), n - 1), n, f1, m)'
PROOF
  <1> DEFINE l == PushedFront(TakenSlot(FreedSlot(Unlinked(Links, tail), tail)), tail)
             v == More(u[n], Less(u, n, n), n - 1)
             cut == ErasedFrom(slotId[tail])
  <1>1. n = Capacity /\ n # 0 /\ Links.tail = tail
    BY UseFacts, SizesPositive DEF InsertEvicting, Links
  <1>2. tail = u[n] /\ n \in 1 .. n /\ \E f1 : Arena(l, v, n, f1, m)
    BY <1>1, EvictedArena DEF Arranged
  <1>3. PICK f1 : Arena(l, v, n, f1, m)
    BY <1>2
  <1>4. SetLinks(l)
    BY DEF InsertEvicting
  <1> HIDE DEF l
  <1>5. /\ Links' = l
        /\ prev' \in [Slots -> Slots \cup {Nil}] /\ next' \in [Slots -> Slots \cup {Nil}]
        /\ {head', tail', free'} \subseteq Slots \cup {Nil} /\ size' \in 0 .. Capacity
    BY <1>3, <1>4, LinksSet
  <1>6. /\ slotId' = [slotId EXCEPT ![tail] = id]
        /\ enc' = [enc EXCEPT ![tail] = list]
        /\ table' = InsertedInto(cut, id, tail)
        /\ home' = home /\ answer' = answer /\ ~Resident(id)
    BY DEF InsertEvicting
  <1>7. tail \in InUse /\ tail \in Slots
    BY <1>2, UseFacts
  <1>8. slotId[tail] \in Ids /\ Resident(slotId[tail]) /\ Lookup(slotId[tail]) = tail
    <2>1. slotId[tail] \in Ids
      BY <1>7, HomesAreBuckets DEF IInv
    <2>2. QED
      BY <1>7, <2>1, ResidentFacts
  <1>9. SoundTable(cut, slotId) /\ Held(cut) = InUse \ {tail}
    BY <1>8, ErasureSound DEF IInv
  <1> HIDE DEF cut
  <1>10. SoundTable(table', slotId') /\ Held(table') = InUse
    <2>1. home \in [Ids -> Homes] /\ slotId \in [Slots -> Ids \cup {NoId}]
      BY DEF IInv, TypeOK
    <2>2. \A other \in Held(cut) : slotId[other] # id
      BY <1>6, <1>9, ResidentFacts
    <2>3. /\ SoundTable(InsertedInto(cut, id, tail), Named(slotId, tail, id))
          /\ Held(InsertedInto(cut, id, tail)) = Held(cut) \cup {tail}
      BY <1>7, <1>9, <2>1, <2>2, InsertionSound
    <2>4. QED
      BY <1>6, <1>7, <1>9, <2>3 DEF Named
  <1>11. InUse' = InUse
    BY <1>10 DEF InUse, Held
  <1>12. TypeOK'
    BY <1>5, <1>6, <1>7, <1>10 DEF TypeOK, IInv, SoundTable
  <1>13. Probeable(table, slotId, home)'
    BY <1>6, <1>10 DEF SoundTable, Probeable, Held
  <1>14. \A sl \in InUse' : enc'[sl] \in Lists
    BY <1>6, <1>7, <1>11, UseFacts DEF IInv, TypeOK
  <1>15. Elements(v, n) = Elements(u, n)
    BY <1>2, RefreshedArena DEF Arranged
  <1> HIDE DEF v
  <1>16. Arranged(v, n, f1, m)'
    BY <1>3, <1>5, <1>11, <1>15 DEF Arranged
  <1>17. QED
    BY <1>1, <1>2, <1>11, <1>12, <1>13, <1>14, <1>16 DEF v

\* erase of a resident id.
LEMMA EraseStep ==
  ASSUME IInv, NEW id \in Ids, Erase(id),
         NEW u, NEW n, NEW f, NEW m, Arranged(u, n, f, m)
  PROVE  /\ TypeOK' /\ Probeable(table, slotId, home)'
         /\ \A sl \in InUse' : enc'[sl] \in Lists
         /\ \E k \in 1 .. n :
              /\ slotId[u[k]] = id /\ InUse' = InUse \ {u[k]} /\ u[k] \in InUse
              /\ Arranged(Less(u, n, k), n - 1, More(u[k], f, m), m + 1)'
PROOF
  <1>1. PICK k \in 1 .. n : u[k] = Lookup(id) /\ slotId[u[k]] = id
    BY ResidentFacts, UseFacts DEF Erase
  <1> DEFINE l == FreedSlot(Unlinked(Links, u[k]), u[k])
             v == Less(u, n, k)
             g == More(u[k], f, m)
  <1>2. Arena(l, v, n - 1, g, m + 1)
    BY ErasedArena DEF Arranged
  <1>3. SetLinks(l)
    BY <1>1 DEF Erase
  <1> HIDE DEF l
  <1>4. /\ Links' = l
        /\ prev' \in [Slots -> Slots \cup {Nil}] /\ next' \in [Slots -> Slots \cup {Nil}]
        /\ {head', tail', free'} \subseteq Slots \cup {Nil} /\ size' \in 0 .. Capacity
    BY <1>2, <1>3, LinksSet
  <1>5. /\ enc' = [enc EXCEPT ![u[k]] = Missing]
        /\ table' = ErasedFrom(id)
        /\ UNCHANGED <<home, slotId, answer>>
    BY <1>1 DEF Erase
  <1>6. SoundTable(table', slotId) /\ Held(table') = InUse \ {u[k]}
    <2>1. Resident(id)
      BY DEF Erase
    <2>2. QED
      BY <1>1, <1>5, <2>1, ErasureSound DEF IInv
  <1>7. InUse' = InUse \ {u[k]} /\ u[k] \in InUse
    BY <1>6, UseFacts DEF InUse, Held
  <1>8. TypeOK'
    BY <1>4, <1>5, <1>6 DEF TypeOK, IInv, SoundTable
  <1>9. Probeable(table, slotId, home)'
    BY <1>5, <1>6 DEF SoundTable, Probeable, Held
  <1>10. \A sl \in InUse' : enc'[sl] \in Lists
    BY <1>5, <1>7, UseFacts DEF IInv, TypeOK
  <1>11. Elements(v, n - 1) = Elements(u, n) \ {u[k]}
    <2>1. n \in Nat /\ Distinct(u, n)
      BY UseFacts
    <2>2. QED
      BY <2>1, ElementsChange
  <1> HIDE DEF v, g
  <1>12. Arranged(v, n - 1, g, m + 1)'
    BY <1>2, <1>4, <1>7, <1>11 DEF Arranged
  <1>13. QED
    BY <1>1, <1>7, <1>8, <1>9, <1>10, <1>12 DEF v, g

\* The arena starts with every slot on the free list.
LEMMA InitInv == Init => IInv
PROOF
  <1> SUFFICES ASSUME Init
               PROVE  IInv
    OBVIOUS
  <1> DEFINE u == [k \in 1 .. 0 |-> 0]
             f == [k \in 1 .. Capacity |-> k - 1]
  <1>1. /\ Capacity \in Nat /\ Capacity > 0 /\ Capacity \in 1 .. Capacity
        /\ 0 \in Slots /\ Nil \notin Slots
    BY SizesPositive DEF Slots, Nil
  <1>2. TypeOK
    BY <1>1, MissingAssumption DEF Init, TypeOK, Slots
  <1>3. InUse = {}
    BY DEF Init, InUse, Buckets
  <1>4. Probeable(table, slotId, home)
    BY <1>3 DEF Init, Probeable, Held
  <1>5. UsedList(Links, u, 0)
    BY DEF Init, UsedList, Distinct, Links
  <1>6. FreeList(Links, f, Capacity)
    <2>1. Distinct(f, Capacity)
      BY <1>1 DEF Distinct, Slots
    <2>2. ASSUME NEW k \in 1 .. Capacity
          PROVE  next[f[k]] = IF k = Capacity THEN Nil ELSE f[k + 1]
      <3>1. f[k] = k - 1 /\ k - 1 \in Slots /\ (k - 1) + 1 = k
        BY <1>1 DEF Slots
      <3>2. next[k - 1] = IF k < Capacity THEN k ELSE Nil
        BY <3>1 DEF Init
      <3>3. k # Capacity => k < Capacity /\ f[k + 1] = k
        BY <1>1
      <3> HIDE DEF f
      <3>4. QED
        BY <3>1, <3>2, <3>3, <1>1
    <2>3. f[1] = 0
      BY <1>1
    <2> HIDE DEF f
    <2>4. QED
      BY <2>1, <2>2, <2>3, <1>1 DEF Init, FreeList, Links
  <1>7. Links \in LinkRecords
    BY <1>1, <1>2 DEF TypeOK, Links, LinkRecords
  <1>8. Elements(u, 0) = {} /\ Elements(f, Capacity) = Slots
    <2>1. Elements(u, 0) = {}
      BY DEF Elements
    <2>2. \A sl \in Slots : sl + 1 \in 1 .. Capacity /\ f[sl + 1] = sl
      BY <1>1 DEF Slots
    <2>3. \A k \in 1 .. Capacity : f[k] \in Slots
      BY <1>1 DEF Slots
    <2>4. QED
      BY <2>1, <2>2, <2>3 DEF Elements
  <1> HIDE DEF u, f
  <1>9. Arranged(u, 0, f, Capacity)
    BY <1>1, <1>3, <1>5, <1>6, <1>7, <1>8 DEF Arranged, Arena, TwoLists, Init, Links
  <1>10. QED
    BY <1>2, <1>3, <1>4, <1>9 DEF IInv

\* get changes nothing but the answer.
LEMMA GetStep ==
  ASSUME IInv, NEW id \in Ids, Get(id)
  PROVE  IInv'
PROOF
  <1>1. answer' \in Lists \cup {Missing}
    BY ResidentFacts DEF IInv, Get
  <1>2. UNCHANGED <<home, slotId, enc, table>> /\ InUse' = InUse /\ Links' = Links
    BY DEF Get, slotVars, linkVars, InUse, Links
  <1>3. TypeOK'
    BY <1>1, <1>2 DEF IInv, TypeOK, Get, linkVars
  <1>4. Probeable(table, slotId, home)'
    BY <1>2 DEF IInv, Probeable, Held
  <1>5. \E u, n, f, m : Arranged(u, n, f, m)'
    BY <1>2 DEF IInv, Arranged
  <1>6. QED
    BY <1>2, <1>3, <1>4, <1>5 DEF IInv

\* Every action keeps the invariant.
LEMMA NextInv == IInv /\ [Next]_vars => IInv'
PROOF
  <1> SUFFICES ASSUME IInv, [Next]_vars
               PROVE  IInv'
    OBVIOUS
  <1>1. PICK u, n, f, m : Arranged(u, n, f, m)
    BY DEF IInv
  <1>2. ASSUME NEW id \in Ids, NEW list \in Lists, Refresh(id, list)
        PROVE  IInv'
    BY <1>1, <1>2, RefreshStep DEF IInv
  <1>3. ASSUME NEW id \in Ids, NEW list \in Lists, Insert(id, list)
        PROVE  IInv'
    BY <1>1, <1>3, InsertStep DEF IInv
  <1>4. ASSUME NEW id \in Ids, NEW list \in Lists, InsertEvicting(id, list)
        PROVE  IInv'
    BY <1>1, <1>4, InsertEvictingStep DEF IInv
  <1>5. ASSUME NEW id \in Ids, Erase(id)
        PROVE  IInv'
    BY <1>1, <1>5, EraseStep DEF IInv
  <1>6. CASE UNCHANGED vars
    <2>1. UNCHANGED <<home, slotId, enc, table>> /\ InUse' = InUse /\ Links' = Links
      BY <1>6 DEF vars, slotVars, linkVars, InUse, Links
    <2>2. TypeOK'
      BY <1>6 DEF IInv, TypeOK, vars, slotVars, linkVars
    <2>3. Probeable(table, slotId, home)'
      BY <2>1 DEF IInv, Probeable, Held
    <2>4. QED
      BY <2>1, <2>2, <2>3, <1>1 DEF IInv, Arranged
  <1>7. QED
    BY <1>2, <1>3, <1>4, <1>5, <1>6, GetStep DEF Next, Put

\* The inductive invariant holds always.
THEOREM Invariance == Spec => []IInv
PROOF
  <1>1. QED
    BY InitInv, NextInv, PTL DEF Spec

\* get, put and erase find a resident id by the probe from its home, whatever inserts and
\* backward-shift erases came before (lookup, tableInsert, tableErase).
THEOREM TableAlwaysSound == Spec => []TableSound
PROOF
  <1>1. IInv => TableSound
    <2> SUFFICES ASSUME IInv
                 PROVE  TableSound
      OBVIOUS
    <2>1. \A b, c \in Buckets : table[b] = table[c] /\ table[b] # Nil => b = c
      BY DEF IInv, Probeable
    <2>2. \A i, j \in InUse : slotId[i] = slotId[j] => i = j
      BY DEF IInv, Probeable, Held, InUse
    <2>3. \A b \in Buckets : table[b] # Nil => BucketOf(slotId[table[b]]) = b
      <3> SUFFICES ASSUME NEW b \in Buckets, table[b] # Nil
                   PROVE  BucketOf(slotId[table[b]]) = b
        OBVIOUS
      <3>1. slotId[table[b]] \in Ids
        BY DEF IInv, Probeable
      <3>2. QED
        BY <3>1, LookupFinds DEF IInv
    <2>4. QED
      BY <2>1, <2>2, <2>3 DEF IInv, TableSound, ProbeRunsUnbroken
  <1>2. QED
    BY <1>1, Invariance, PTL

\* What Chain reads off the linked fields of an arena.
LEMMA ChainsAre ==
  ASSUME NEW l, NEW u, NEW n, NEW f, NEW m, Arena(l, u, n, f, m)
  PROVE  /\ Chain(l.next, l.head) = u /\ Len(Chain(l.next, l.head)) = n
         /\ Chain(l.next, l.free) = f /\ Len(Chain(l.next, l.free)) = m
PROOF
  <1>1. n \in 0 .. Capacity /\ m \in 0 .. Capacity
    <2>1. n \in Nat /\ m \in Nat /\ n + m = Capacity
      BY DEF Arena, TwoLists, UsedList, FreeList
    <2>2. QED
      BY <2>1, SizesPositive
  <1>2. Distinct(u, n) /\ LeadsThrough(l.next, l.head, u, n)
    BY DEF Arena, TwoLists, UsedList, LeadsThrough
  <1>3. Distinct(f, m) /\ LeadsThrough(l.next, l.free, f, m)
    BY DEF Arena, TwoLists, FreeList, LeadsThrough
  <1>4. QED
    BY <1>1, <1>2, <1>3, ChainFollows

\* No slot is lost or in two lists, the list in use is linked both ways and holds what the table
\* holds, and a cache below its capacity has a free slot (unlink, pushFront, freeSlot, put).
THEOREM ArenaAlwaysPartitioned == Spec => []ArenaPartitioned
PROOF
  <1>1. IInv => ArenaPartitioned
    <2> SUFFICES ASSUME IInv
                 PROVE  ArenaPartitioned
      OBVIOUS
    <2>1. PICK u, n, f, m : Arranged(u, n, f, m)
      BY DEF IInv
    <2>2. /\ Chain(next, head) = u /\ Len(Chain(next, head)) = n
          /\ Chain(next, free) = f /\ Len(Chain(next, free)) = m
      <3>1. Links.next = next /\ Links.head = head /\ Links.free = free
        BY DEF Links
      <3>2. QED
        BY <2>1, <3>1, ChainsAre DEF Arranged
    <2>3. size = n /\ n \in Nat /\ m \in Nat /\ n + m = Capacity
      BY <2>1, UseFacts
    <2>4. Members(u) = InUse /\ Members(f) = Slots \ InUse
      <3>1. Members(u) = Elements(u, n) /\ Members(f) = Elements(f, m)
        BY <2>2 DEF Members, Elements
      <3>2. InUse = Elements(u, n) /\ Elements(u, n) \cup Elements(f, m) = Slots
        BY <2>1 DEF Arranged, Arena
      <3>3. Elements(u, n) \cap Elements(f, m) = {}
        BY <2>1 DEF Arranged, Arena, TwoLists, Elements
      <3>4. QED
        BY <3>1, <3>2, <3>3
    <2>5. u = <<>> <=> n = 0
      <3>1. n = 0 => u = <<>>
        BY <2>1 DEF Arranged, Arena, TwoLists, UsedList, Distinct
      <3>2. u = <<>> => n = 0
        BY <2>2
      <3>3. QED
        BY <3>1, <3>2
    <2>6. /\ tail = IF n = 0 THEN Nil ELSE u[n]
          /\ \A k \in 1 .. n : prev[u[k]] = IF k = 1 THEN Nil ELSE u[k - 1]
      BY <2>1 DEF Arranged, Arena, TwoLists, UsedList, Links
    <2>7. m = Capacity - size
      BY <2>3
    <2>8. QED
      BY <2>2, <2>3, <2>4, <2>5, <2>6, <2>7 DEF ArenaPartitioned
  <1>2. QED
    BY <1>1, Invariance, PTL

-----------------------------------------------------------------------------
(***************************************************************************)
(* The refinement.                                                         *)
(***************************************************************************)

\* The abstract state, as EdgeCache maps it.
Order == LET used == Chain(next, head) IN [n \in 1 .. Len(used) |-> slotId[used[n]]]
Content == [id \in Ids |-> IF Resident(id) THEN enc[Lookup(id)] ELSE Missing]

\* The ids of a list of slots.
Ided(ids, u, n) == [k \in 1 .. n |-> ids[u[k]]]

\* What Content says of resident ids and of the others.
ContentSays ==
  /\ \A sl \in InUse : Content[slotId[sl]] = enc[sl]
  /\ \A id \in Ids : (\A sl \in InUse : slotId[sl] # id) => Content[id] = Missing

\* The map of the refinement is what the slots in use hold.
LEMMA ContentIs == IInv => ContentSays
PROOF
  <1> SUFFICES ASSUME IInv
               PROVE  ContentSays
    OBVIOUS
  <1>1. ASSUME NEW sl \in InUse
        PROVE  Content[slotId[sl]] = enc[sl]
    <2>1. slotId[sl] \in Ids
      BY HomesAreBuckets DEF IInv
    <2>2. Resident(slotId[sl]) /\ Lookup(slotId[sl]) = sl
      BY <2>1, ResidentFacts
    <2>3. QED
      BY <2>1, <2>2 DEF Content
  <1>2. ASSUME NEW id \in Ids, \A sl \in InUse : slotId[sl] # id
        PROVE  Content[id] = Missing
    <2>1. ~Resident(id)
      BY <1>2, ResidentFacts
    <2>2. QED
      BY <2>1 DEF Content
  <1>3. QED
    BY <1>1, <1>2 DEF ContentSays

\* The order of the refinement is the list in use, front to back.
LEMMA OrderIs ==
  ASSUME NEW u, NEW n, NEW f, NEW m
  PROVE  /\ Arranged(u, n, f, m) => Order = Ided(slotId, u, n)
         /\ Arranged(u, n, f, m)' => Order' = Ided(slotId', u, n)
PROOF
  <1>1. ASSUME Arranged(u, n, f, m)
        PROVE  Order = Ided(slotId, u, n)
    <2>1. Chain(next, head) = u /\ Len(Chain(next, head)) = n
      BY <1>1, ChainsAre DEF Arranged, Links
    <2>2. QED
      BY <2>1 DEF Order, Ided
  <1>2. ASSUME Arranged(u, n, f, m)'
        PROVE  Order' = Ided(slotId', u, n)
    <2>1. Arena(Links', u, n, f, m) /\ Links'.next = next' /\ Links'.head = head'
      BY <1>2 DEF Arranged, Links
    <2>2. Chain(next', head') = u /\ Len(Chain(next', head')) = n
      BY <2>1, ChainsAre
    <2>3. QED
      BY <2>2 DEF Order, Ided
  <1>3. QED
    BY <1>1, <1>2

\* RemoveAt, concatenation in front, and the drop of the last element, on sequences of ids.
LEMMA SequenceSteps ==
  ASSUME NEW w, NEW n \in Nat, w \in [1 .. n -> Ids]
  PROVE  /\ w \in Seq(Ids) /\ Len(w) = n
         /\ \A k \in 1 .. n : SubSeq(w, 1, k - 1) \o SubSeq(w, k + 1, Len(w)) = Less(w, n, k)
         /\ n # 0 => SubSeq(w, 1, n - 1) = Less(w, n, n)
         /\ \A x \in Ids : \A p \in Nat : \A v \in [1 .. p -> Ids] : <<x>> \o v = More(x, v, p)
PROOF
  <1>1. w \in Seq(Ids) /\ Len(w) = n
    OBVIOUS
  <1>2. ASSUME NEW k \in 1 .. n
        PROVE  SubSeq(w, 1, k - 1) \o SubSeq(w, k + 1, Len(w)) = Less(w, n, k)
    <2> DEFINE a == SubSeq(w, 1, k - 1)
               b == SubSeq(w, k + 1, Len(w))
    <2>1. a \in Seq(Ids) /\ Len(a) = k - 1 /\ \A j \in 1 .. k - 1 : a[j] = w[j]
      BY <1>1
    <2>2. b \in Seq(Ids) /\ Len(b) = n - k /\ \A j \in 1 .. n - k : b[j] = w[k + j]
      BY <1>1
    <2> HIDE DEF a, b
    <2>0. \A s, t \in Seq(Ids) : s \o t \in Seq(Ids) /\ Len(s \o t) = Len(s) + Len(t)
      OBVIOUS
    <2>3. a \o b \in Seq(Ids) /\ Len(a \o b) = n - 1
      <3>1. a \o b \in Seq(Ids) /\ Len(a \o b) = (k - 1) + (n - k)
        BY <2>0, <2>1, <2>2
      <3>2. (k - 1) + (n - k) = n - 1
        OBVIOUS
      <3>3. QED
        BY <3>1, <3>2
    <2>4. \A j \in 1 .. n - 1 : (a \o b)[j] = IF j < k THEN w[j] ELSE w[j + 1]
      BY <2>1, <2>2
    <2>5. a \o b = [j \in 1 .. n - 1 |-> IF j < k THEN w[j] ELSE w[j + 1]]
      <3> DEFINE c == a \o b
      <3> HIDE DEF c
      <3>1. c = [j \in 1 .. Len(c) |-> c[j]]
        <4>1. c \in [1 .. Len(c) -> Ids]
          BY <2>3, LenProperties DEF c
        <4>2. QED
          BY <4>1
      <3>2. c = [j \in 1 .. n - 1 |-> c[j]]
        BY <3>1, <2>3 DEF c
      <3>3. \A j \in 1 .. n - 1 : c[j] = IF j < k THEN w[j] ELSE w[j + 1]
        BY <2>4 DEF c
      <3>4. QED
        BY <3>2, <3>3 DEF c
    <2>6. QED
      BY <2>5 DEF a, b, Less
  <1>3. n # 0 => SubSeq(w, 1, n - 1) = Less(w, n, n)
    <2>1. SubSeq(w, 1, n - 1) = [j \in 1 .. n - 1 |-> w[j]]
      BY <1>1
    <2>2. \A j \in 1 .. n - 1 : j < n
      OBVIOUS
    <2>3. QED
      BY <2>1, <2>2 DEF Less
  <1>4. ASSUME NEW x \in Ids, NEW p \in Nat, NEW v \in [1 .. p -> Ids]
        PROVE  <<x>> \o v = More(x, v, p)
    <2>1. v \in Seq(Ids) /\ Len(v) = p /\ <<x>> \in Seq(Ids) /\ Len(<<x>>) = 1
      OBVIOUS
    <2>2. <<x>> \o v \in Seq(Ids) /\ Len(<<x>> \o v) = p + 1
      BY <2>1
    <2>3. \A j \in 1 .. p + 1 : (<<x>> \o v)[j] = IF j = 1 THEN x ELSE v[j - 1]
      BY <2>1
    <2>4. <<x>> \o v = [j \in 1 .. p + 1 |-> IF j = 1 THEN x ELSE v[j - 1]]
      BY <2>2, <2>3
    <2>5. QED
      BY <2>4 DEF More
  <1>5. QED
    BY <1>1, <1>2, <1>3, <1>4

\* The ids of the list in use are different, and follow the list through its changes.
LEMMA IdedFacts ==
  ASSUME IInv, NEW u, NEW n, NEW f, NEW m, Arranged(u, n, f, m)
  PROVE  LET w == Ided(slotId, u, n)
         IN /\ w \in [1 .. n -> Ids] /\ \A j, k \in 1 .. n : w[j] = w[k] => j = k
            /\ \A k \in 1 .. n : w[k] = slotId[u[k]]
            /\ \A k \in 1 .. n : Ided(slotId, Less(u, n, k), n - 1) = Less(w, n, k)
            /\ \A ids : (\A k \in 1 .. n : ids[u[k]] = w[k]) => Ided(ids, u, n) = w
PROOF
  <1> DEFINE w == Ided(slotId, u, n)
  <1>1. /\ n \in Nat /\ Distinct(u, n) /\ \A k \in 1 .. n : u[k] \in InUse
    BY UseFacts
  <1>2. \A k \in 1 .. n : w[k] = slotId[u[k]] /\ slotId[u[k]] \in Ids
    BY <1>1, HomesAreBuckets DEF Ided, IInv
  <1>3. w \in [1 .. n -> Ids]
    BY <1>2 DEF Ided
  <1>4. \A j, k \in 1 .. n : w[j] = w[k] => j = k
    <2> SUFFICES ASSUME NEW j \in 1 .. n, NEW k \in 1 .. n, w[j] = w[k]
                 PROVE  j = k
      OBVIOUS
    <2>1. slotId[u[j]] = slotId[u[k]] /\ u[j] \in InUse /\ u[k] \in InUse
      BY <1>1, <1>2
    <2>2. u[j] = u[k]
      BY <2>1 DEF IInv, Probeable, Held, InUse
    <2>3. QED
      BY <2>2, <1>1 DEF Distinct
  <1>5. ASSUME NEW k \in 1 .. n
        PROVE  Ided(slotId, Less(u, n, k), n - 1) = Less(w, n, k)
    <2>1. ASSUME NEW j \in 1 .. n - 1
          PROVE  slotId[Less(u, n, k)[j]] = Less(w, n, k)[j]
      <3>1. j \in 1 .. n /\ j + 1 \in 1 .. n
        BY <1>1
      <3>2. Less(u, n, k)[j] = (IF j < k THEN u[j] ELSE u[j + 1])
        BY DEF Less
      <3>3. Less(w, n, k)[j] = (IF j < k THEN w[j] ELSE w[j + 1])
        BY DEF Less
      <3> HIDE DEF w
      <3>4. QED
        BY <3>1, <3>2, <3>3, <1>2
    <2>2. Less(w, n, k) = [j \in 1 .. n - 1 |-> Less(w, n, k)[j]]
      BY DEF Less
    <2> HIDE DEF w
    <2>3. QED
      BY <2>1, <2>2 DEF Ided
  <1>6. ASSUME NEW ids, \A k \in 1 .. n : ids[u[k]] = w[k]
        PROVE  Ided(ids, u, n) = w
    BY <1>2, <1>6 DEF Ided
  <1>7. QED
    BY <1>2, <1>3, <1>4, <1>5, <1>6

\* The ids of a list with one more in front.
LEMMA IdedMore ==
  ASSUME NEW ids, NEW sl, NEW v, NEW p \in Nat
  PROVE  Ided(ids, More(sl, v, p), p + 1) = More(ids[sl], Ided(ids, v, p), p)
PROOF
  <1>1. ASSUME NEW j \in 1 .. p + 1
        PROVE  ids[More(sl, v, p)[j]] = More(ids[sl], Ided(ids, v, p), p)[j]
    <2>1. j # 1 => j - 1 \in 1 .. p
      OBVIOUS
    <2>2. More(sl, v, p)[j] = IF j = 1 THEN sl ELSE v[j - 1]
      BY DEF More
    <2>3. More(ids[sl], Ided(ids, v, p), p)[j] = IF j = 1 THEN ids[sl] ELSE Ided(ids, v, p)[j - 1]
      BY DEF More
    <2>4. QED
      BY <2>1, <2>2, <2>3 DEF Ided
  <1>2. More(ids[sl], Ided(ids, v, p), p)
          = [j \in 1 .. p + 1 |-> More(ids[sl], Ided(ids, v, p), p)[j]]
    BY DEF More
  <1> DEFINE r == More(ids[sl], Ided(ids, v, p), p)
             q == More(sl, v, p)
  <1> HIDE DEF r, q
  <1>3. \A j \in 1 .. p + 1 : ids[q[j]] = r[j]
    BY <1>1 DEF r, q
  <1>4. Ided(ids, q, p + 1) = r
    BY <1>2, <1>3 DEF Ided, r
  <1>5. QED
    BY <1>4 DEF r, q

\* The map takes an id out of its order where it is.
LEMMA WithoutIs ==
  ASSUME NEW w, NEW n \in Nat, w \in [1 .. n -> Ids], \A i, j \in 1 .. n : w[i] = w[j] => i = j,
         Order = w, NEW k \in 1 .. n
  PROVE  Lru!Without(w[k]) = Less(w, n, k)
PROOF
  <1>1. Lru!Without(w[k]) = Lru!RemoveAt(Order, CHOOSE j \in DOMAIN Order : Order[j] = w[k])
    BY DEF Lru!Without, Order
  <1>2. Lru!RemoveAt(w, k) = SubSeq(w, 1, k - 1) \o SubSeq(w, k + 1, Len(w))
    BY DEF Lru!RemoveAt
  <1>3. SubSeq(w, 1, k - 1) \o SubSeq(w, k + 1, Len(w)) = Less(w, n, k)
    BY SequenceSteps
  <1>4. (CHOOSE j \in DOMAIN w : w[j] = w[k]) = k
    OBVIOUS
  <1>5. QED
    BY <1>1, <1>2, <1>3, <1>4

\* put of a resident id refreshes it in the map.
LEMMA RefreshRefines ==
  ASSUME IInv, ContentSays, ContentSays', NEW id \in Ids, NEW list \in Lists, Refresh(id, list)
  PROVE  Lru!Refresh(id, list)
PROOF
  <1>1. PICK u, n, f, m : Arranged(u, n, f, m)
    BY DEF IInv
  <1>2. PICK k \in 1 .. n : /\ slotId[u[k]] = id
                            /\ Arranged(More(u[k], Less(u, n, k), n - 1), n, f, m)'
    BY <1>1, RefreshStep
  <1> DEFINE w == Ided(slotId, u, n)
             p == n - 1
             v == Less(u, n, k)
  <1>3. /\ n \in Nat /\ p \in Nat /\ p + 1 = n
        /\ \A j \in 1 .. n : u[j] \in InUse
    <2>1. n \in Nat /\ \A j \in 1 .. n : u[j] \in InUse
      BY <1>1, UseFacts
    <2>2. QED
      BY <2>1
  <1>4. /\ InUse' = InUse /\ slotId' = slotId /\ answer' = answer
        /\ enc' = [enc EXCEPT ![u[k]] = list]
    <2>1. Lookup(id) = u[k]
      BY <1>2, <1>3, ResidentFacts
    <2>2. InUse' = InUse
      BY <1>1, RefreshStep
    <2>3. QED
      BY <2>1, <2>2 DEF Refresh
  <1>5. /\ w \in [1 .. n -> Ids] /\ (\A i, j \in 1 .. n : w[i] = w[j] => i = j)
        /\ w[k] = id /\ Ided(slotId, v, p) = Less(w, n, k) /\ Order = w
    BY <1>1, <1>2, IdedFacts, OrderIs
  <1>6. Order' = <<id>> \o Lru!Without(id)
    <2>1. Order' = Ided(slotId, More(u[k], v, p), n)
      BY <1>2, <1>4, OrderIs
    <2> HIDE DEF w, v, p
    <2>2. Ided(slotId, More(u[k], v, p), p + 1) = More(slotId[u[k]], Ided(slotId, v, p), p)
      BY <1>3, IdedMore
    <2>3. Lru!Without(id) = Less(w, n, k)
      BY <1>3, <1>5, WithoutIs
    <2>4. Less(w, n, k) \in [1 .. p -> Ids]
      BY <1>3, <1>5 DEF Less, p
    <2>5. <<id>> \o Less(w, n, k) = More(id, Less(w, n, k), p)
      BY <2>4, <1>3, <1>5, SequenceSteps
    <2>6. QED
      BY <2>1, <2>2, <2>3, <2>5, <1>2, <1>3, <1>5
  <1>7. Content[id] # Missing
    BY <1>2, <1>3, MissingAssumption DEF ContentSays, IInv
  <1>8. ASSUME NEW j \in Ids
        PROVE  Content'[j] = IF j = id THEN list ELSE Content[j]
    <2>1. CASE \E sl \in InUse : slotId[sl] = j
      <3>1. PICK sl \in InUse : slotId[sl] = j
        BY <2>1
      <3>2. Content'[j] = enc'[sl] /\ Content[j] = enc[sl]
        BY <3>1, <1>4 DEF ContentSays
      <3>3. j = id <=> sl = u[k]
        BY <3>1, <1>2, <1>3 DEF IInv, Probeable, Held, InUse
      <3>4. sl \in Slots
        BY <1>1, UseFacts
      <3>5. QED
        BY <3>2, <3>3, <3>4, <1>4 DEF IInv, TypeOK
    <2>2. CASE \A sl \in InUse : slotId[sl] # j
      <3>1. Content'[j] = Missing /\ Content[j] = Missing /\ j # id
        BY <2>2, <1>2, <1>3, <1>4 DEF ContentSays
      <3>2. QED
        BY <3>1
    <2>3. QED
      BY <2>1, <2>2
  <1>9. Content' = [Content EXCEPT ![id] = list]
    BY <1>8 DEF Content
  <1>10. QED
    BY <1>4, <1>6, <1>7, <1>9 DEF Lru!Refresh, Order, Content

\* put of a new id into a free slot inserts it in the map.
LEMMA InsertRefines ==
  ASSUME IInv, ContentSays, ContentSays', NEW id \in Ids, NEW list \in Lists, Insert(id, list)
  PROVE  Lru!Insert(id, list)
PROOF
  <1>1. PICK u, n, f, m : Arranged(u, n, f, m)
    BY DEF IInv
  <1>2. /\ InUse' = InUse \cup {free} /\ free \in Slots \ InUse /\ free = f[1]
        /\ Arranged(More(f[1], u, n), n + 1, Less(f, m, 1), m - 1)'
    BY <1>1, InsertStep
  <1> DEFINE w == Ided(slotId, u, n)
  <1>3. n \in Nat /\ size = n /\ \A j \in 1 .. n : u[j] \in InUse /\ u[j] \in Slots
    BY <1>1, UseFacts
  <1>4. /\ slotId' = [slotId EXCEPT ![free] = id] /\ enc' = [enc EXCEPT ![free] = list]
        /\ answer' = answer /\ size < Capacity /\ \A sl \in InUse : slotId[sl] # id
    BY ResidentFacts DEF Insert
  <1>5. /\ slotId'[free] = id /\ enc'[free] = list
        /\ \A sl \in InUse : slotId'[sl] = slotId[sl] /\ enc'[sl] = enc[sl]
    BY <1>2, <1>4 DEF IInv, TypeOK, InUse
  <1>6. w \in [1 .. n -> Ids] /\ Order = w /\ Ided(slotId', u, n) = w
    <2>1. \A k \in 1 .. n : slotId'[u[k]] = w[k]
      BY <1>3, <1>5 DEF Ided
    <2>2. QED
      BY <2>1, <1>1, IdedFacts, OrderIs
  <1>7. Order' = <<id>> \o Order
    <2>1. Order' = Ided(slotId', More(free, u, n), n + 1)
      BY <1>2, OrderIs
    <2>2. Ided(slotId', More(free, u, n), n + 1) = More(slotId'[free], Ided(slotId', u, n), n)
      BY <1>3, IdedMore
    <2> HIDE DEF w
    <2>3. <<id>> \o w = More(id, w, n)
      BY <1>3, <1>6, SequenceSteps
    <2>4. QED
      BY <2>1, <2>2, <2>3, <1>5, <1>6
  <1>8. Len(Order) < Capacity
    BY <1>3, <1>4, <1>6
  <1>9. Content[id] = Missing
    BY <1>4 DEF ContentSays
  <1>10. ASSUME NEW j \in Ids
         PROVE  Content'[j] = IF j = id THEN list ELSE Content[j]
    <2>1. CASE j = id
      BY <2>1, <1>2, <1>5 DEF ContentSays
    <2>2. CASE j # id /\ \E sl \in InUse : slotId[sl] = j
      <3>1. PICK sl \in InUse : slotId[sl] = j
        BY <2>2
      <3>2. Content'[j] = enc'[sl] /\ Content[j] = enc[sl]
        BY <3>1, <1>2, <1>5 DEF ContentSays
      <3>3. QED
        BY <3>2, <2>2, <1>5
    <2>3. CASE j # id /\ \A sl \in InUse : slotId[sl] # j
      <3>1. Content'[j] = Missing /\ Content[j] = Missing
        BY <2>3, <1>2, <1>5 DEF ContentSays
      <3>2. QED
        BY <3>1, <2>3
    <2>4. QED
      BY <2>1, <2>2, <2>3
  <1>11. Content' = [Content EXCEPT ![id] = list]
    BY <1>10 DEF Content
  <1>12. QED
    BY <1>4, <1>7, <1>8, <1>9, <1>11 DEF Lru!Insert, Order, Content

\* put of a new id into a full cache drops the back of the map.
LEMMA InsertEvictingRefines ==
  ASSUME IInv, ContentSays, ContentSays', NEW id \in Ids, NEW list \in Lists,
         InsertEvicting(id, list)
  PROVE  Lru!InsertEvicting(id, list)
PROOF
  <1>1. PICK u, n, f, m : Arranged(u, n, f, m)
    BY DEF IInv
  <1>2. /\ InUse' = InUse /\ n = Capacity /\ n \in 1 .. n /\ tail = u[n]
        /\ \E f1 : Arranged(More(u[n], Less(u, n, n), n - 1), n, f1, m)'
    BY <1>1, InsertEvictingStep
  <1> DEFINE w == Ided(slotId, u, n)
             p == n - 1
             v == Less(u, n, n)
             old == slotId[u[n]]
  <1>3. /\ n \in Nat /\ p \in Nat /\ p + 1 = n /\ Distinct(u, n)
        /\ \A j \in 1 .. n : u[j] \in InUse
        /\ \A sl \in InUse : sl \in Slots
    <2>1. /\ n \in Nat /\ Distinct(u, n) /\ \A j \in 1 .. n : u[j] \in InUse
          /\ \A sl \in InUse : sl \in Slots
      BY <1>1, UseFacts
    <2>2. QED
      BY <2>1, <1>2
  <1>4. /\ slotId' = [slotId EXCEPT ![u[n]] = id] /\ enc' = [enc EXCEPT ![u[n]] = list]
        /\ answer' = answer /\ \A sl \in InUse : slotId[sl] # id
    BY <1>2, ResidentFacts DEF InsertEvicting
  <1>5. /\ slotId'[u[n]] = id /\ enc'[u[n]] = list
        /\ \A sl \in InUse : sl # u[n] => slotId'[sl] = slotId[sl] /\ enc'[sl] = enc[sl]
    BY <1>2, <1>3, <1>4 DEF IInv, TypeOK
  <1>6. /\ w \in [1 .. n -> Ids] /\ Order = w /\ w[n] = old
        /\ Ided(slotId, v, p) = Less(w, n, n)
    BY <1>1, <1>2, IdedFacts, OrderIs
  <1>7. Ided(slotId', v, p) = Ided(slotId, v, p)
    <2>1. \A j \in 1 .. p : v[j] \in InUse /\ v[j] # u[n]
      <3>1. \A j \in 1 .. p : j \in 1 .. n /\ j < n /\ v[j] = u[j]
        BY <1>3 DEF Less
      <3> HIDE DEF v, p
      <3>2. QED
        BY <3>1, <1>2, <1>3 DEF Distinct
    <2> HIDE DEF v, p
    <2>2. \A j \in 1 .. p : slotId'[v[j]] = slotId[v[j]]
      BY <2>1, <1>5
    <2>3. QED
      BY <2>2 DEF Ided
  <1>8. Order' = <<id>> \o SubSeq(Order, 1, Capacity - 1)
    <2>1. Order' = Ided(slotId', More(u[n], v, p), n)
      BY <1>2, OrderIs
    <2> HIDE DEF w, v
    <2>2. SubSeq(w, 1, n - 1) = Less(w, n, n)
      <3>1. n # 0
        BY <1>2, <1>3
      <3>2. w \in [1 .. n -> Ids] /\ n \in Nat
        BY <1>3, <1>6
      <3>3. n # 0 => SubSeq(w, 1, n - 1) = Less(w, n, n)
        BY <3>2, SequenceSteps
      <3>4. QED
        BY <3>1, <3>3
    <2> HIDE DEF p
    <2>3. Ided(slotId', More(u[n], v, p), p + 1) = More(slotId'[u[n]], Ided(slotId', v, p), p)
      BY <1>3, IdedMore
    <2>4. Less(w, n, n) \in [1 .. p -> Ids]
      BY <1>3, <1>6 DEF Less, p
    <2>5. <<id>> \o Less(w, n, n) = More(id, Less(w, n, n), p)
      BY <2>4, <1>3, <1>6, SequenceSteps
    <2>6. QED
      BY <2>1, <2>2, <2>3, <2>5, <1>2, <1>3, <1>5, <1>6, <1>7
  <1>9. Len(Order) = Capacity /\ Order[Capacity] = old
    BY <1>2, <1>3, <1>6
  <1>10. Content[id] = Missing /\ old \in Ids /\ old # id
    <2>1. old \in Ids
      BY <1>2, <1>3, HomesAreBuckets DEF IInv
    <2>2. QED
      BY <2>1, <1>2, <1>3, <1>4 DEF ContentSays
  <1>11. ASSUME NEW j \in Ids
         PROVE  Content'[j] = IF j = id THEN list ELSE IF j = old THEN Missing ELSE Content[j]
    <2>1. CASE j = id
      BY <2>1, <1>2, <1>3, <1>5 DEF ContentSays
    <2>2. CASE j = old
      <3>1. \A sl \in InUse : slotId[sl] = old => sl = u[n]
        BY <1>2, <1>3 DEF IInv, Probeable, Held, InUse
      <3>2. \A sl \in InUse' : slotId'[sl] # old
        BY <3>1, <1>2, <1>5, <1>10
      <3>3. QED
        BY <3>2, <2>2, <1>10 DEF ContentSays
    <2>3. CASE j # id /\ j # old /\ \E sl \in InUse : slotId[sl] = j
      <3>1. PICK sl \in InUse : slotId[sl] = j
        BY <2>3
      <3>2. sl # u[n]
        BY <3>1, <2>3
      <3>3. Content'[j] = enc'[sl] /\ Content[j] = enc[sl]
        BY <3>1, <3>2, <1>2, <1>5 DEF ContentSays
      <3>4. QED
        BY <3>2, <3>3, <2>3, <1>5
    <2>4. CASE j # id /\ j # old /\ \A sl \in InUse : slotId[sl] # j
      <3>1. \A sl \in InUse' : slotId'[sl] # j
        BY <2>4, <1>2, <1>5
      <3>2. Content'[j] = Missing /\ Content[j] = Missing
        BY <3>1, <2>4 DEF ContentSays
      <3>3. QED
        BY <3>2, <2>4
    <2>5. QED
      BY <2>1, <2>2, <2>3, <2>4
  <1>12. Content' = [Content EXCEPT ![old] = Missing, ![id] = list]
    BY <1>10, <1>11 DEF Content
  <1>13. Content' = [Content EXCEPT ![Order[Capacity]] = Missing, ![id] = list]
    BY <1>9, <1>12
  <1>14. QED
    BY <1>4, <1>8, <1>9, <1>10, <1>13 DEF Lru!InsertEvicting, Order, Content

\* erase of a resident id erases it from the map.
LEMMA EraseRefines ==
  ASSUME IInv, ContentSays, ContentSays', NEW id \in Ids, Erase(id)
  PROVE  Lru!Erase(id)
PROOF
  <1>1. PICK u, n, f, m : Arranged(u, n, f, m)
    BY DEF IInv
  <1>2. PICK k \in 1 .. n :
          /\ slotId[u[k]] = id /\ InUse' = InUse \ {u[k]} /\ u[k] \in InUse
          /\ Arranged(Less(u, n, k), n - 1, More(u[k], f, m), m + 1)'
    BY <1>1, EraseStep
  <1> DEFINE w == Ided(slotId, u, n)
  <1>3. n \in Nat /\ \A sl \in InUse : sl \in Slots
    BY <1>1, UseFacts
  <1>4. /\ slotId' = slotId /\ answer' = answer
        /\ \A sl \in InUse : sl # u[k] => enc'[sl] = enc[sl]
    <2>1. Lookup(id) = u[k]
      BY <1>2, ResidentFacts
    <2>2. QED
      BY <2>1, <1>3 DEF Erase, IInv, TypeOK
  <1>5. /\ w \in [1 .. n -> Ids] /\ (\A i, j \in 1 .. n : w[i] = w[j] => i = j)
        /\ w[k] = id /\ Ided(slotId, Less(u, n, k), n - 1) = Less(w, n, k) /\ Order = w
    BY <1>1, <1>2, IdedFacts, OrderIs
  <1>6. Order' = Lru!Without(id)
    <2>1. Order' = Ided(slotId, Less(u, n, k), n - 1)
      BY <1>2, <1>4, OrderIs
    <2> HIDE DEF w
    <2>2. Lru!Without(id) = Less(w, n, k)
      BY <1>3, <1>5, WithoutIs
    <2>3. QED
      BY <2>1, <2>2, <1>5
  <1>7. Content[id] # Missing
    BY <1>2, MissingAssumption DEF ContentSays, IInv
  <1>8. ASSUME NEW j \in Ids
        PROVE  Content'[j] = IF j = id THEN Missing ELSE Content[j]
    <2>1. CASE j = id
      <3>1. \A sl \in InUse' : slotId'[sl] # id
        BY <1>2, <1>4 DEF IInv, Probeable, Held, InUse
      <3>2. QED
        BY <3>1, <2>1 DEF ContentSays
    <2>2. CASE j # id /\ \E sl \in InUse : slotId[sl] = j
      <3>1. PICK sl \in InUse : slotId[sl] = j
        BY <2>2
      <3>2. sl # u[k] /\ sl \in InUse'
        BY <3>1, <2>2, <1>2
      <3>3. Content'[j] = enc'[sl] /\ Content[j] = enc[sl]
        BY <3>1, <3>2, <1>4 DEF ContentSays
      <3>4. QED
        BY <3>2, <3>3, <2>2, <1>4
    <2>3. CASE j # id /\ \A sl \in InUse : slotId[sl] # j
      <3>1. Content'[j] = Missing /\ Content[j] = Missing
        BY <2>3, <1>2, <1>4 DEF ContentSays
      <3>2. QED
        BY <3>1, <2>3
    <2>4. QED
      BY <2>1, <2>2, <2>3
  <1>9. Content' = [Content EXCEPT ![id] = Missing]
    BY <1>8 DEF Content
  <1>10. QED
    BY <1>4, <1>6, <1>7, <1>9 DEF Lru!Erase, Order, Content

\* The arena behaves as the list+map cache that it replaces: same residents, same order, same
\* victim, same answers (get, put, erase).
THEOREM Refinement == Spec => ImplementsLruMap
PROOF
  <1>1. Init => Lru!Init
    <2> SUFFICES ASSUME Init
                 PROVE  Lru!Init
      OBVIOUS
    <2>1. IInv
      BY InitInv
    <2>2. PICK u, n, f, m : Arranged(u, n, f, m)
      BY <2>1 DEF IInv
    <2>3. n = 0 /\ Order = Ided(slotId, u, n) /\ InUse = {}
      BY <2>1, <2>2, UseFacts, OrderIs DEF Init, InUse, Buckets
    <2>4. Order = <<>>
      BY <2>3 DEF Ided
    <2>5. \A id \in Ids : Content[id] = Missing
      BY <2>1, <2>3, ContentIs DEF ContentSays
    <2>6. Content = [id \in Ids |-> Missing]
      BY <2>5 DEF Content
    <2>7. QED
      BY <2>4, <2>6 DEF Lru!Init, Order, Content, Init
  <1>2. IInv /\ IInv' /\ ContentSays /\ ContentSays' /\ [Next]_vars => [Lru!Next]_(Lru!lruVars)
    <2> SUFFICES ASSUME IInv, ContentSays, ContentSays', [Next]_vars
                 PROVE  [Lru!Next]_(Lru!lruVars)
      OBVIOUS
    <2>1. ASSUME NEW id \in Ids, NEW list \in Lists, Put(id, list)
          PROVE  Lru!Refresh(id, list) \/ Lru!Insert(id, list) \/ Lru!InsertEvicting(id, list)
      BY <2>1, RefreshRefines, InsertRefines, InsertEvictingRefines DEF Put
    <2>2. ASSUME NEW id \in Ids, Erase(id)
          PROVE  Lru!Erase(id)
      BY <2>2, EraseRefines
    <2>3. ASSUME UNCHANGED <<home, slotId, enc, next, head, table>>
          PROVE  Order' = Order /\ Content' = Content
      <3>1. Order' = Order
        BY <2>3 DEF Order
      <3>2. Content' = Content
        BY <2>3 DEF Content, Resident, Lookup, BucketOf, ProbeLength, Stops
      <3>3. QED
        BY <3>1, <3>2
    <2>4. ASSUME NEW id \in Ids, Get(id)
          PROVE  Lru!Get(id)
      <3>1. Order' = Order /\ Content' = Content
        BY <2>3, <2>4 DEF Get, slotVars, linkVars
      <3>2. answer' = Content[id]
        BY <2>4 DEF Get, Content
      <3>3. QED
        BY <3>1, <3>2 DEF Lru!Get, Order, Content
    <2>5. CASE UNCHANGED vars
      <3>1. Order' = Order /\ Content' = Content /\ answer' = answer
        BY <2>3, <2>5 DEF vars, slotVars, linkVars
      <3>2. QED
        BY <3>1 DEF Lru!lruVars, Order, Content
    <2>6. QED
      BY <2>1, <2>2, <2>4, <2>5 DEF Next, Lru!Next
  <1>3. QED
    BY <1>1, <1>2, ContentIs, Invariance, PTL DEF Spec, ImplementsLruMap, Lru!Spec

================================================================================
