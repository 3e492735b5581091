------------------------------ MODULE MemoryProofs ------------------------------
(***************************************************************************)
(* Two of the stores a search keeps in memory.  The sketch record store,   *)
(* for any ids, chunk size and sequence of calls: no two ids share a slot, *)
(* no slot lies past the last chunk, size() is exact, and the store        *)
(* implements a map from ids to records.  The visited set, for any counter *)
(* width, any split of the ids between array and map and any number of     *)
(* searches: it implements a set that every search finds empty.            *)
(***************************************************************************)
EXTENDS SketchStore, VisitedSet, FiniteSetTheorems, SequenceTheorems, TLAPS

\* SlotsAccounted, slot by slot.
LiveSlots == \A id \in Live : slotOf[id] \in 0 .. next - 1
FreeSlots == \A i \in 1 .. Len(free) : free[i] \in 0 .. next - 1
NoneLost ==
  \A s \in 0 .. next - 1 :
    (\E id \in Live : slotOf[id] = s) \/ (\E i \in 1 .. Len(free) : free[i] = s)
LiveApart == \A i, j \in Live : slotOf[i] = slotOf[j] => i = j
FreeApart == \A i, j \in 1 .. Len(free) : free[i] = free[j] => i = j
LiveNotFree == \A id \in Live : \A i \in 1 .. Len(free) : slotOf[id] # free[i]
Accounted ==
  /\ LiveSlots /\ FreeSlots /\ NoneLost /\ LiveApart /\ FreeApart /\ LiveNotFree
  /\ next <= chunks * ChunkSize

LEMMA AccountedMeans == ASSUME TypeOK PROVE Accounted <=> SlotsAccounted
<1>1. DOMAIN free = 1 .. Len(free)
  BY DEF TypeOK
<1>2. LiveNotFree <=> \A id \in Live : slotOf[id] \notin Free
  BY DEF LiveNotFree, Free
<1>3. LiveSlots /\ FreeSlots /\ NoneLost <=> {slotOf[id] : id \in Live} \cup Free = 0 .. next - 1
  BY DEF LiveSlots, FreeSlots, NoneLost, Free
<1>4. QED
  BY <1>2, <1>3 DEF Accounted, SlotsAccounted, LiveApart, FreeApart

\* The inductive invariant.  The counter live needs the number of live ids to stay a number.
IInv == TypeOK /\ Accounted /\ IsFiniteSet(Live) /\ SizeExact

-----------------------------------------------------------------------------
LEMMA PoppedFacts ==
  ASSUME free \in Seq(Nat), free # <<>>
  PROVE  /\ Popped \in Seq(Nat) /\ Len(Popped) = Len(free) - 1
         /\ \A i \in 1 .. Len(free) - 1 : Popped[i] = free[i]
         /\ Len(free) \in Nat \ {0} /\ free[Len(free)] \in Nat
<1>1. Len(free) \in Nat \ {0} /\ \A i \in 1 .. Len(free) : free[i] \in Nat
  OBVIOUS
<1>2. PICK n \in Nat : n = Len(free) - 1
  BY <1>1
<1>3. \A i \in 1 .. n : free[i] \in Nat
  BY <1>1, <1>2
<1>4. /\ SubSeq(free, 1, n) \in Seq(Nat)
      /\ Len(SubSeq(free, 1, n)) = IF 1 <= n THEN n - 1 + 1 ELSE 0
      /\ \A i \in 1 .. n - 1 + 1 : SubSeq(free, 1, n)[i] = free[1 + i - 1]
  <2>1. 1 \in Int /\ n \in Int
    OBVIOUS
  <2>2. QED
    BY <1>3, <2>1, SubSeqProperties, SMT
<1>5. n - 1 + 1 = n /\ \A i \in 1 .. n : 1 + i - 1 = i
  OBVIOUS
<1>6. \A i \in 1 .. n : SubSeq(free, 1, n)[i] = free[i]
  BY <1>4, <1>5
<1>7. Len(SubSeq(free, 1, n)) = n
  BY <1>4
<1>8. QED
  BY <1>1, <1>2, <1>4, <1>6, <1>7 DEF Popped

LEMMA Product == \A a, b, c \in Nat : a * c \in Nat /\ (a <= b => a * c <= b * c)
  OBVIOUS

\* Slot s fits once its chunk exists.
LEMMA ChunkFits ==
  ASSUME NEW s \in Nat, chunks \in Nat, s <= chunks * ChunkSize
  PROVE  /\ WithChunkFor(s) \in Nat /\ chunks <= WithChunkFor(s)
         /\ s + 1 <= WithChunkFor(s) * ChunkSize
<1>1. ChunkSize \in Nat \ {0}
  BY ChunkAssumption
<1>2. CASE s \div ChunkSize >= chunks
  <2>1. (chunks + 1) * ChunkSize = chunks * ChunkSize + ChunkSize /\ chunks * ChunkSize \in Nat
    BY <1>1
  <2>2. QED
    BY <1>1, <1>2, <2>1 DEF WithChunkFor
<1>3. CASE ~(s \div ChunkSize >= chunks)
  <2>1. s # chunks * ChunkSize
    BY <1>1, <1>3
  <2>2. QED
    BY <1>1, <1>3, <2>1 DEF WithChunkFor
<1>4. QED
  BY <1>2, <1>3

-----------------------------------------------------------------------------
\* What an insert of a new id into slot s does to the id table and to the chunks.
NewSlot(id, s, r) ==
  /\ id \notin Live
  /\ slotOf' = [slotOf EXCEPT ![id] = s]
  /\ chunks' \in Nat /\ chunks <= chunks'
  /\ s < chunks' * ChunkSize
  /\ Write(s, r)

LEMMA NewLive ==
  ASSUME TypeOK, NEW id \in Ids, NEW s \in Nat, NEW r, NewSlot(id, s, r)
  PROVE  /\ Live' = Live \cup {id}
         /\ \A j \in Live : slotOf'[j] = slotOf[j]
         /\ slotOf'[id] = s
         /\ slotOf' \in [Ids -> {NoSlot} \cup Nat]
  BY DEF TypeOK, NewSlot, Live, NoSlot

LEMMA NewBytes ==
  ASSUME TypeOK, NEW id \in Ids, NEW s \in Nat, NEW r \in Records, NewSlot(id, s, r)
  PROVE  /\ bytes' \in [Capacity(chunks') -> Records \cup {Garbage}]
         /\ bytes'[s] = r
         /\ \A x \in Capacity(chunks) : x # s => bytes'[x] = bytes[x]
<1>1. ChunkSize \in Nat \ {0} /\ chunks \in Nat /\ chunks' \in Nat /\ chunks <= chunks'
  BY ChunkAssumption DEF TypeOK, NewSlot
<1>2. chunks * ChunkSize <= chunks' * ChunkSize /\ {chunks * ChunkSize, chunks' * ChunkSize} \subseteq Nat
  BY <1>1, Product
<1>3. Capacity(chunks) \subseteq Capacity(chunks') /\ s \in Capacity(chunks')
  BY <1>2 DEF Capacity, NewSlot
<1>4. bytes' = [x \in Capacity(chunks') |->
                  IF x = s THEN r ELSE IF x \in Capacity(chunks) THEN bytes[x] ELSE Garbage]
  BY DEF NewSlot, Write
<1>5. bytes \in [Capacity(chunks) -> Records \cup {Garbage}]
  BY DEF TypeOK
<1>6. QED
  BY <1>3, <1>4, <1>5

\* Both ways of finding a slot are of this form, for a slot that no id holds.
LEMMA ReuseNewSlot ==
  ASSUME IInv, NEW id \in Ids \ Live, NEW r \in Records, Reuse(id, r)
  PROVE  \E s \in Nat : /\ s = free[Len(free)] /\ NewSlot(id, s, r)
                        /\ \A j \in Live : slotOf[j] # s
<1>1. free # <<>> /\ free \in Seq(Nat) /\ chunks \in Nat /\ next \in Nat
  BY DEF Reuse, IInv, TypeOK
<1>2. PICK s \in Nat : s = free[Len(free)]
  BY <1>1, PoppedFacts
<1>3. Len(free) \in 1 .. Len(free)
  BY <1>1
<1>4. s \in 0 .. next - 1 /\ \A j \in Live : slotOf[j] # s
  BY <1>2, <1>3 DEF IInv, Accounted, FreeSlots, LiveNotFree
<1>5. ChunkSize \in Nat /\ next <= chunks * ChunkSize /\ chunks * ChunkSize \in Nat
  BY <1>1, ChunkAssumption, Product DEF IInv, Accounted
<1>6. chunks' = chunks /\ s < chunks' * ChunkSize
  BY <1>1, <1>4, <1>5 DEF Reuse
<1>7. slotOf' = [slotOf EXCEPT ![id] = s] /\ Write(s, r)
  BY <1>2 DEF Reuse, Write
<1>8. NewSlot(id, s, r)
  BY <1>1, <1>6, <1>7 DEF NewSlot
<1>9. QED
  BY <1>2, <1>4, <1>8

LEMMA ExtendNewSlot ==
  ASSUME IInv, NEW id \in Ids \ Live, NEW r \in Records, Extend(id, r)
  PROVE  \E s \in Nat : /\ s = next /\ NewSlot(id, s, r)
                        /\ \A j \in Live : slotOf[j] # s
                        /\ s + 1 <= chunks' * ChunkSize
<1>1. chunks \in Nat /\ next \in Nat /\ ChunkSize \in Nat \ {0} /\ next <= chunks * ChunkSize
  BY ChunkAssumption DEF IInv, TypeOK, Accounted
<1>2. PICK s \in Nat : s = next
  BY <1>1
<1>3. chunks' \in Nat /\ chunks <= chunks' /\ s + 1 <= chunks' * ChunkSize
  BY <1>1, <1>2, ChunkFits DEF Extend
<1>4. chunks' * ChunkSize \in Nat
  BY <1>1, <1>3, Product
<1>5. \A j \in Live : slotOf[j] # s
  BY <1>1, <1>2 DEF IInv, Accounted, LiveSlots
<1>6. slotOf' = [slotOf EXCEPT ![id] = s] /\ Write(s, r)
  BY <1>2 DEF Extend, Write
<1>7. NewSlot(id, s, r)
  BY <1>3, <1>4, <1>6 DEF NewSlot
<1>8. QED
  BY <1>2, <1>3, <1>5, <1>7

-----------------------------------------------------------------------------
LEMMA InitInv == Init => IInv
<1> SUFFICES ASSUME Init PROVE IInv
  OBVIOUS
<1>1. Live = {}
  BY DEF Init, Live
<1>2. TypeOK
  <2>1. bytes \in [Capacity(chunks) -> Records \cup {Garbage}]
    BY DEF Init
  <2>2. slotOf \in [Ids -> {NoSlot} \cup Nat] /\ free \in Seq(Nat)
    BY DEF Init
  <2>3. QED
    BY <2>1, <2>2 DEF Init, TypeOK
<1>3. Len(free) = 0 /\ Accounted
  BY <1>1, ChunkAssumption DEF Init, Accounted, LiveSlots, FreeSlots, NoneLost, LiveApart, FreeApart, LiveNotFree
<1>4. IsFiniteSet(Live) /\ Cardinality(Live) = 0
  BY <1>1, FS_EmptySet
<1>5. QED
  BY <1>2, <1>3, <1>4 DEF Init, IInv, SizeExact

\* One id more, on top of the stack's slot.
LEMMA ReuseInv ==
  ASSUME IInv, NEW id \in Ids \ Live, NEW r \in Records, Reuse(id, r),
         live' = live + 1, UNCHANGED rec, inserted' \in BOOLEAN
  PROVE  IInv'
<1>1. PICK s \in Nat : /\ s = free[Len(free)] /\ NewSlot(id, s, r)
                       /\ \A j \in Live : slotOf[j] # s
  BY ReuseNewSlot
<1>2. TypeOK /\ Accounted /\ IsFiniteSet(Live) /\ SizeExact
  BY DEF IInv
<1>3. /\ free' \in Seq(Nat) /\ Len(free') = Len(free) - 1 /\ Len(free) \in Nat \ {0}
      /\ \A i \in 1 .. Len(free') : free'[i] = free[i]
  BY <1>2, PoppedFacts DEF Reuse, TypeOK
<1>4. /\ Live' = Live \cup {id} /\ \A j \in Live : slotOf'[j] = slotOf[j]
      /\ slotOf'[id] = s /\ slotOf' \in [Ids -> {NoSlot} \cup Nat]
  BY <1>1, <1>2, NewLive
<1>5. TypeOK'
  <2>1. bytes' \in [Capacity(chunks') -> Records \cup {Garbage}]
    BY <1>1, <1>2, NewBytes
  <2>2. rec' = rec /\ next' \in Nat /\ live' \in Nat /\ chunks' \in Nat /\ inserted' \in BOOLEAN
    BY <1>1, <1>2 DEF TypeOK, Reuse, NewSlot
  <2>3. free' \in Seq(Nat)
    BY <1>2, <1>3 DEF TypeOK
  <2>4. QED
    BY <1>2, <1>4, <2>1, <2>2, <2>3 DEF TypeOK
<1>6. next' = next /\ chunks' = chunks
  BY DEF Reuse
<1>7. s \in 0 .. next - 1 /\ Len(free) \in 1 .. Len(free)
  BY <1>1, <1>2, <1>3 DEF Accounted, FreeSlots
<1>8. \A i \in 1 .. Len(free') : i \in 1 .. Len(free) /\ i # Len(free) /\ free[i] # s
  BY <1>1, <1>2, <1>3, <1>7 DEF Accounted, FreeApart
<1>9. LiveSlots' /\ LiveApart'
  BY <1>1, <1>2, <1>4, <1>6, <1>7 DEF Accounted, LiveSlots, LiveApart
<1>10. FreeSlots' /\ FreeApart'
  BY <1>2, <1>3, <1>6, <1>8 DEF Accounted, FreeSlots, FreeApart
<1>11. LiveNotFree'
  BY <1>1, <1>2, <1>3, <1>4, <1>8 DEF Accounted, LiveNotFree
<1>12. NoneLost'
  <2> SUFFICES ASSUME NEW x \in 0 .. next - 1
               PROVE  (\E j \in Live' : slotOf'[j] = x) \/ (\E i \in 1 .. Len(free') : free'[i] = x)
    BY <1>6 DEF NoneLost
  <2>1. CASE x = s
    BY <1>4, <2>1
  <2>2. CASE \E j \in Live : slotOf[j] = x
    BY <1>4, <2>2
  <2>3. CASE x # s /\ \E i \in 1 .. Len(free) : free[i] = x
    <3>1. PICK i \in 1 .. Len(free) : free[i] = x
      BY <2>3
    <3>2. i # Len(free)
      BY <1>1, <2>3, <3>1
    <3>3. i \in 1 .. Len(free')
      BY <1>3, <3>2
    <3>4. QED
      BY <1>3, <3>1, <3>3
  <2>4. QED
    BY <1>2, <2>1, <2>2, <2>3 DEF Accounted, NoneLost
<1>13. IsFiniteSet(Live') /\ Cardinality(Live') = Cardinality(Live) + 1 /\ Cardinality(Live) \in Nat
  BY <1>2, <1>4, FS_AddElement, FS_CardinalityType
<1>14. SizeExact'
  BY <1>2, <1>3, <1>6, <1>13 DEF SizeExact
<1>15. Accounted'
  BY <1>2, <1>6, <1>9, <1>10, <1>11, <1>12 DEF Accounted
<1>16. QED
  BY <1>5, <1>13, <1>14, <1>15 DEF IInv

\* One id more, in a slot never used.
LEMMA ExtendInv ==
  ASSUME IInv, NEW id \in Ids \ Live, NEW r \in Records, Extend(id, r),
         live' = live + 1, UNCHANGED rec, inserted' \in BOOLEAN
  PROVE  IInv'
<1>1. PICK s \in Nat : /\ s = next /\ NewSlot(id, s, r)
                       /\ \A j \in Live : slotOf[j] # s
                       /\ s + 1 <= chunks' * ChunkSize
  BY ExtendNewSlot
<1>2. TypeOK /\ Accounted /\ IsFiniteSet(Live) /\ SizeExact
  BY DEF IInv
<1>3. free = <<>> /\ free' = free /\ Len(free) = 0 /\ next' = next + 1 /\ next \in Nat
  BY <1>2 DEF Extend, TypeOK
<1>4. /\ Live' = Live \cup {id} /\ \A j \in Live : slotOf'[j] = slotOf[j]
      /\ slotOf'[id] = s /\ slotOf' \in [Ids -> {NoSlot} \cup Nat]
  BY <1>1, <1>2, NewLive
<1>5. TypeOK'
  <2>1. bytes' \in [Capacity(chunks') -> Records \cup {Garbage}]
    BY <1>1, <1>2, NewBytes
  <2>2. rec' = rec /\ next' \in Nat /\ live' \in Nat /\ chunks' \in Nat /\ inserted' \in BOOLEAN
    BY <1>1, <1>2 DEF TypeOK, Extend, NewSlot
  <2>3. free' \in Seq(Nat)
    BY <1>2, <1>3 DEF TypeOK
  <2>4. QED
    BY <1>2, <1>4, <2>1, <2>2, <2>3 DEF TypeOK
<1>6. LiveSlots' /\ LiveApart'
  BY <1>1, <1>2, <1>3, <1>4 DEF Accounted, LiveSlots, LiveApart
<1>7. FreeSlots' /\ FreeApart' /\ LiveNotFree'
  BY <1>3 DEF FreeSlots, FreeApart, LiveNotFree
<1>8. NoneLost'
  BY <1>1, <1>2, <1>3, <1>4 DEF Accounted, NoneLost
<1>9. IsFiniteSet(Live') /\ Cardinality(Live') = Cardinality(Live) + 1 /\ Cardinality(Live) \in Nat
  BY <1>2, <1>4, FS_AddElement, FS_CardinalityType
<1>10. SizeExact'
  BY <1>2, <1>3, <1>9 DEF SizeExact
<1>11. Accounted'
  BY <1>1, <1>3, <1>6, <1>7, <1>8 DEF Accounted
<1>12. QED
  BY <1>5, <1>9, <1>10, <1>11 DEF IInv

\* One id less; its slot goes on the stack.
LEMMA EraseInv ==
  ASSUME IInv, NEW id \in Ids, Erase(id)
  PROVE  IInv'
<1>1. TypeOK /\ Accounted /\ IsFiniteSet(Live) /\ SizeExact
  BY DEF IInv
<1>2. id \in Live /\ slotOf[id] \in 0 .. next - 1
  BY <1>1 DEF Erase, Accounted, LiveSlots
<1>3. PICK s \in Nat : s = slotOf[id]
  BY <1>2
<1>4. /\ free' \in Seq(Nat) /\ Len(free') = Len(free) + 1 /\ free'[Len(free) + 1] = s
      /\ \A i \in 1 .. Len(free) : free'[i] = free[i] /\ i # Len(free) + 1
      /\ Len(free) \in Nat
  BY <1>1, <1>3 DEF Erase, TypeOK
<1>5. /\ slotOf' = [slotOf EXCEPT ![id] = NoSlot]
      /\ UNCHANGED <<rec, next, bytes, chunks, inserted>> /\ live' = live - 1
  BY DEF Erase, Unslotted
<1>6. Live' = Live \ {id} /\ \A j \in Live' : j # id /\ slotOf'[j] = slotOf[j]
  BY <1>1, <1>5 DEF Live, TypeOK
<1>7. IsFiniteSet(Live') /\ Cardinality(Live') = Cardinality(Live) - 1 /\ Cardinality(Live') \in Nat
  BY <1>1, <1>2, <1>6, FS_RemoveElement, FS_CardinalityType
<1>8. SizeExact'
  BY <1>1, <1>4, <1>5, <1>7 DEF SizeExact, TypeOK
<1>9. TypeOK'
  BY <1>1, <1>4, <1>5, <1>7, <1>8 DEF TypeOK, SizeExact
<1>10. \A i \in 1 .. Len(free') : i \in 1 .. Len(free) \/ i = Len(free) + 1
  BY <1>4
<1>11. LiveSlots' /\ LiveApart'
  BY <1>1, <1>5, <1>6 DEF Accounted, LiveSlots, LiveApart
<1>12. FreeSlots'
  BY <1>1, <1>2, <1>3, <1>4, <1>5, <1>10 DEF Accounted, FreeSlots
<1>13. \A i \in 1 .. Len(free) : free[i] # s
  BY <1>1, <1>2, <1>3 DEF Accounted, LiveNotFree
<1>14. FreeApart'
  BY <1>1, <1>4, <1>10, <1>13 DEF Accounted, FreeApart
<1>15. LiveNotFree'
  <2>1. \A j \in Live' : slotOf'[j] # s
    BY <1>1, <1>2, <1>3, <1>6 DEF Accounted, LiveApart
  <2>2. QED
    BY <1>1, <1>4, <1>6, <1>10, <2>1 DEF Accounted, LiveNotFree
<1>16. NoneLost'
  <2> SUFFICES ASSUME NEW x \in 0 .. next - 1
               PROVE  (\E j \in Live' : slotOf'[j] = x) \/ (\E i \in 1 .. Len(free') : free'[i] = x)
    BY <1>5 DEF NoneLost
  <2>1. CASE x = s
    <3>1. Len(free) + 1 \in 1 .. Len(free')
      BY <1>4
    <3>2. QED
      BY <1>4, <2>1, <3>1
  <2>2. CASE x # s /\ \E j \in Live : slotOf[j] = x
    BY <1>3, <1>6, <2>2
  <2>3. CASE \E i \in 1 .. Len(free) : free[i] = x
    <3>1. PICK i \in 1 .. Len(free) : free[i] = x
      BY <2>3
    <3>2. i \in 1 .. Len(free')
      BY <1>4
    <3>3. QED
      BY <1>4, <3>1, <3>2
  <2>4. QED
    BY <1>1, <2>1, <2>2, <2>3 DEF Accounted, NoneLost
<1>17. Accounted'
  BY <1>1, <1>5, <1>11, <1>12, <1>14, <1>15, <1>16 DEF Accounted
<1>18. QED
  BY <1>7, <1>8, <1>9, <1>17 DEF IInv

LEMMA ClearedInv ==
  ASSUME IInv, Cleared, rec' \in RecordSizes \cup {0}, UNCHANGED inserted
  PROVE  IInv'
<1>1. Live' = {}
  BY DEF Cleared, Live
<1>2. free' = <<>> /\ Len(free') = 0 /\ next' = 0 /\ chunks' = 0 /\ live' = 0
  BY DEF Cleared
<1>3. TypeOK'
  BY <1>2 DEF IInv, TypeOK, Cleared
<1>4. Accounted'
  BY <1>1, <1>2, ChunkAssumption
  DEF Accounted, LiveSlots, FreeSlots, NoneLost, LiveApart, FreeApart, LiveNotFree
<1>5. IsFiniteSet(Live') /\ Cardinality(Live') = 0
  BY <1>1, FS_EmptySet
<1>6. QED
  BY <1>2, <1>3, <1>4, <1>5 DEF IInv, SizeExact

LEMMA QuietInv ==
  ASSUME IInv, UNCHANGED <<rec, tableVars, chunks>>, inserted' \in BOOLEAN,
         bytes' \in [Capacity(chunks) -> Records \cup {Garbage}]
  PROVE  IInv'
<1>1. UNCHANGED <<rec, slotOf, free, next, live, chunks>> /\ Live' = Live
  BY DEF tableVars, Live
<1>2. TypeOK' /\ SizeExact'
  BY <1>1 DEF IInv, TypeOK, SizeExact
<1>3. Accounted'
  BY <1>1 DEF IInv, Accounted, LiveSlots, FreeSlots, NoneLost, LiveApart, FreeApart, LiveNotFree
<1>4. QED
  BY <1>1, <1>2, <1>3 DEF IInv

LEMMA NextInv == IInv /\ [Next]_vars => IInv'
<1> SUFFICES ASSUME IInv, [Next]_vars PROVE IInv'
  OBVIOUS
<1>1. ASSUME NEW id \in Ids, NEW r \in Records, Insert(id, r) PROVE IInv'
  <2>1. CASE id \in Live
    BY <1>1, <2>1, QuietInv DEF Insert, IInv, TypeOK
  <2>2. CASE id \notin Live /\ Reuse(id, r)
    BY <1>1, <2>2, ReuseInv DEF Insert
  <2>3. CASE id \notin Live /\ Extend(id, r)
    BY <1>1, <2>3, ExtendInv DEF Insert
  <2>4. QED
    BY <1>1, <2>1, <2>2, <2>3 DEF Insert
<1>2. ASSUME NEW id \in Ids, NEW r \in Records, Refresh(id, r) PROVE IInv'
  <2>1. bytes' \in [Capacity(chunks) -> Records \cup {Garbage}]
    BY <1>2 DEF Refresh, IInv, TypeOK
  <2>2. QED
    BY <1>2, <2>1, QuietInv DEF Refresh, IInv, TypeOK
<1>3. ASSUME NEW id \in Ids, Erase(id) PROVE IInv'
  BY <1>3, EraseInv
<1>4. CASE Clear
  BY <1>4, ClearedInv DEF Clear, IInv, TypeOK
<1>5. ASSUME NEW n \in RecordSizes, SetRecordSize(n) PROVE IInv'
  BY <1>5, ClearedInv DEF SetRecordSize
<1>6. CASE UNCHANGED vars
  BY <1>6, QuietInv DEF vars, IInv, TypeOK
<1>7. QED
  BY <1>1, <1>2, <1>3, <1>4, <1>5, <1>6 DEF Next

\* The store's invariant, for any chunk size and any calls.
THEOREM Invariance == Spec => []IInv
  BY InitInv, NextInv, PTL DEF Spec

\* Types are kept; in particular size() never goes below zero (insert, erase, clear).
THEOREM TypeCorrect == Spec => []TypeOK
<1>1. IInv => TypeOK
  BY DEF IInv
<1>2. QED
  BY <1>1, Invariance, PTL

\* No two ids share a slot, no slot in use is on the free stack, none is lost, and none lies past
\* the last chunk (insert, erase, ptr).
THEOREM SlotsNeverShared == Spec => []SlotsAccounted
<1>1. IInv => SlotsAccounted
  BY AccountedMeans DEF IInv
<1>2. QED
  BY <1>1, Invariance, PTL

\* size() is the number of ids that are there, and the slots ever handed out are those in use and
\* those on the stack (live_, next_, free_).
THEOREM SizeCorrect == Spec => []SizeExact
<1>1. IInv => SizeExact
  BY DEF IInv
<1>2. QED
  BY <1>1, Invariance, PTL

-----------------------------------------------------------------------------
\* The record of an id, as the mapping to RecordMap reads it.
Kept == [id \in Ids |-> IF id \in Live THEN bytes[slotOf[id]] ELSE Absent]

\* A live id's slot lies in a chunk, so its record is one a find may return, never Absent.
LEMMA KeptFacts ==
  ASSUME IInv, NEW id \in Live
  PROVE  /\ id \in Ids /\ slotOf[id] \in Capacity(chunks)
         /\ Kept[id] = bytes[slotOf[id]] /\ Kept[id] # Absent
<1>1. /\ id \in Ids /\ slotOf[id] \in 0 .. next - 1 /\ next \in Nat /\ next <= chunks * ChunkSize
      /\ chunks \in Nat /\ ChunkSize \in Nat
  BY ChunkAssumption DEF IInv, Accounted, LiveSlots, Live, TypeOK
<1>2. chunks * ChunkSize \in Nat
  BY <1>1, Product
<1>3. slotOf[id] \in Capacity(chunks)
  BY <1>1, <1>2 DEF Capacity
<1>4. bytes[slotOf[id]] # Absent
  BY <1>3, GarbageAssumption DEF IInv, TypeOK
<1>5. QED
  BY <1>1, <1>3, <1>4 DEF Kept

LEMMA NewKept ==
  ASSUME IInv, NEW id \in Ids, NEW s \in Nat, NEW r \in Records, NewSlot(id, s, r),
         \A j \in Live : slotOf[j] # s
  PROVE  Kept' = [Kept EXCEPT ![id] = r]
<1>1. /\ Live' = Live \cup {id} /\ \A j \in Live : slotOf'[j] = slotOf[j]
      /\ slotOf'[id] = s
  BY NewLive DEF IInv
<1>2. bytes'[s] = r /\ \A x \in Capacity(chunks) : x # s => bytes'[x] = bytes[x]
  BY NewBytes DEF IInv
<1>3. Kept'[id] = r
  BY <1>1, <1>2 DEF Kept
<1>4. ASSUME NEW j \in Ids, j # id PROVE Kept'[j] = Kept[j]
  BY <1>1, <1>2, <1>4, KeptFacts DEF Kept
<1>5. QED
  BY <1>3, <1>4 DEF Kept

\* The store implements the map of records it replaces: slots, chunks and the free stack never
\* show, whatever is inserted, refreshed, erased or cleared (insert, findMutable, erase, clear,
\* setRecordSize).
THEOREM Refinement == Spec => ImplementsRecordMap
<1>1. Init => Map!Init
  BY DEF Init, Map!Init, Live
<1>2. IInv /\ IInv' /\ [Next]_vars => [Map!Next]_(Map!recordMapVars)
  <2> SUFFICES ASSUME IInv, [Next]_vars
               PROVE  [Map!Next]_(Map!recordMapVars)
    OBVIOUS
  <2>1. ASSUME NEW id \in Ids, NEW r \in Records, Insert(id, r)
        PROVE  Map!Insert(id, r)
    <3>1. CASE id \in Live
      <4>1. inserted' = FALSE /\ Kept' = Kept
        BY <2>1, <3>1 DEF Insert, tableVars, Kept, Live
      <4>2. Kept[id] # Absent
        BY <3>1, KeptFacts
      <4>3. QED
        BY <4>1, <4>2 DEF Map!Insert, Kept
    <3>2. CASE id \notin Live
      <4>1. inserted' = TRUE /\ Kept[id] = Absent
        BY <2>1, <3>2 DEF Insert, Kept
      <4>2. Kept' = [Kept EXCEPT ![id] = r]
        BY <2>1, <3>2, ReuseNewSlot, ExtendNewSlot, NewKept DEF Insert
      <4>3. QED
        BY <4>1, <4>2 DEF Map!Insert, Kept
    <3>3. QED
      BY <3>1, <3>2
  <2>2. ASSUME NEW id \in Ids, NEW r \in Records, Refresh(id, r)
        PROVE  Map!Overwrite(id, r)
    <3>1. id \in Live /\ Live' = Live /\ UNCHANGED <<slotOf, inserted>>
      BY <2>2 DEF Refresh, tableVars, Live
    <3>2. Kept[id] # Absent /\ slotOf[id] \in Capacity(chunks)
      BY <3>1, KeptFacts
    <3>3. Kept'[id] = r
      BY <2>2, <3>1, <3>2 DEF Refresh, Kept, IInv, TypeOK
    <3>4. ASSUME NEW j \in Ids, j # id PROVE Kept'[j] = Kept[j]
      <4>1. j \in Live => slotOf[j] # slotOf[id] /\ slotOf[j] \in Capacity(chunks)
        BY <3>1, <3>4, KeptFacts DEF IInv, Accounted, LiveApart
      <4>2. QED
        BY <2>2, <3>1, <4>1 DEF Refresh, Kept, IInv, TypeOK
    <3>5. Kept' = [Kept EXCEPT ![id] = r]
      BY <3>3, <3>4 DEF Kept
    <3>6. QED
      BY <3>1, <3>2, <3>5 DEF Map!Overwrite, Kept
  <2>3. ASSUME NEW id \in Ids, Erase(id)
        PROVE  Map!Erase(id)
    <3>1. slotOf' = [slotOf EXCEPT ![id] = NoSlot] /\ bytes' = bytes /\ inserted' = inserted
      BY <2>3 DEF Erase, Unslotted
    <3>2. Live' = Live \ {id} /\ \A j \in Live' : slotOf'[j] = slotOf[j]
      BY <3>1 DEF Live, IInv, TypeOK
    <3>3. \A j \in Ids : Kept'[j] = IF j = id THEN Absent ELSE Kept[j]
      BY <3>1, <3>2 DEF Kept
    <3>4. Kept' = [Kept EXCEPT ![id] = Absent]
      BY <3>3 DEF Kept
    <3>5. QED
      BY <3>1, <3>4 DEF Map!Erase, Kept
  <2>4. ASSUME Cleared, UNCHANGED inserted
        PROVE  Map!Clear
    <3>1. Live' = {}
      BY <2>4 DEF Cleared, Live
    <3>2. Kept' = [id \in Ids |-> Absent]
      BY <3>1 DEF Kept
    <3>3. QED
      BY <2>4, <3>2 DEF Map!Clear, Kept
  <2>5. CASE UNCHANGED vars
    <3>1. Kept' = Kept /\ inserted' = inserted
      BY <2>5 DEF vars, tableVars, Kept, Live
    <3>2. QED
      BY <3>1 DEF Map!recordMapVars, Kept
  <2>6. QED
    BY <2>1, <2>2, <2>3, <2>4, <2>5 DEF Next, Clear, SetRecordSize, Map!Next
<1>3. QED
  BY <1>1, <1>2, Invariance, PTL DEF Spec, ImplementsRecordMap, Map!Spec

-----------------------------------------------------------------------------
(***************************************************************************)
(* The visited set.                                                        *)
(***************************************************************************)

USE EpochsAssumption, LimitsAssumption

\* The array reaches the id it is grown for (visited_dense_.resize).
LEMMA GrownReaches ==
  ASSUME NEW i \in Nat, length \in Nat
  PROVE  Grown(i) \in Nat /\ i < Grown(i) /\ length <= Grown(i)
  BY DEF Grown, Larger

\* The counter stays 16-bit and both stores keep epochs of its range.
THEOREM VisitedTyped == SpecVisited => []TypeOKVisited
<1>1. InitVisited => TypeOKVisited
  <2> SUFFICES ASSUME InitVisited PROVE TypeOKVisited
    OBVIOUS
  <2>1. dense \in [0 .. length - 1 -> Epoch]
    BY DEF InitVisited, Epoch
  <2>2. DOMAIN sparse = {}
    BY DEF InitVisited, NoEpochs
  <2>3. version = 0 /\ length = 0 /\ fresh = FALSE
    BY DEF InitVisited
  <2>4. version \in Epoch /\ length \in Nat
    BY <2>3 DEF Epoch
  <2>5. QED
    BY <2>1, <2>2, <2>3, <2>4 DEF TypeOKVisited
<1>2. TypeOKVisited /\ [NextVisited]_visitedVars => TypeOKVisited'
  <2> SUFFICES ASSUME TypeOKVisited, [NextVisited]_visitedVars
               PROVE  TypeOKVisited'
    OBVIOUS
  <2>1. CASE BeginSearch
    <3>1. CASE (version + 1) % Epochs # 0
      <4>1. version + 1 \in Epoch
        BY <3>1 DEF TypeOKVisited, Epoch
      <4>2. QED
        BY <2>1, <3>1, <4>1 DEF BeginSearch, TypeOKVisited
    <3>2. CASE (version + 1) % Epochs = 0
      BY <2>1, <3>2 DEF BeginSearch, TypeOKVisited, Epoch, NoEpochs
    <3>3. QED
      BY <3>1, <3>2
  <2>2. ASSUME NEW i \in NodeIds, i < DenseLimit, GrowAndMark(i)
        PROVE  TypeOKVisited'
    <3>1. length' \in Nat /\ i < length'
      BY <2>2, GrownReaches DEF GrowAndMark, NodeIds, TypeOKVisited
    <3>2. dense' \in [0 .. length' - 1 -> Epoch] /\ fresh' \in BOOLEAN
      BY <2>2, <3>1 DEF GrowAndMark, TypeOKVisited, Epoch
    <3>3. QED
      BY <2>2, <3>1, <3>2 DEF GrowAndMark, TypeOKVisited
  <2>3. ASSUME NEW id \in NodeIds, ~(id < DenseLimit), MarkSparse(id)
        PROVE  TypeOKVisited'
    BY <2>3 DEF MarkSparse, TypeOKVisited, DenseIds
  <2>4. CASE UNCHANGED visitedVars
    BY <2>4 DEF visitedVars, TypeOKVisited
  <2>5. QED
    BY <2>1, <2>2, <2>3, <2>4 DEF NextVisited, VisitedInsert
<1>3. QED
  BY <1>1, <1>2, PTL DEF SpecVisited

\* No store ever holds an epoch that a coming search will take: an epoch is wiped everywhere
\* before the counter meets it again.
THEOREM PastOnly == SpecVisited => []NoFutureEpoch
<1>1. InitVisited => NoFutureEpoch
  BY DEF InitVisited, NoFutureEpoch, NoEpochs
<1>2. TypeOKVisited /\ NoFutureEpoch /\ [NextVisited]_visitedVars => NoFutureEpoch'
  <2> SUFFICES ASSUME TypeOKVisited, NoFutureEpoch, [NextVisited]_visitedVars
               PROVE  NoFutureEpoch'
    OBVIOUS
  <2>1. CASE BeginSearch
    BY <2>1 DEF BeginSearch, TypeOKVisited, NoFutureEpoch, Epoch, NoEpochs
  <2>2. ASSUME NEW i \in NodeIds, i < DenseLimit, GrowAndMark(i)
        PROVE  NoFutureEpoch'
    BY <2>2 DEF GrowAndMark, TypeOKVisited, NoFutureEpoch, Epoch
  <2>3. ASSUME NEW id \in NodeIds, ~(id < DenseLimit), MarkSparse(id)
        PROVE  NoFutureEpoch'
    BY <2>3 DEF MarkSparse, TypeOKVisited, NoFutureEpoch, Epoch
  <2>4. CASE UNCHANGED visitedVars
    BY <2>4 DEF visitedVars, NoFutureEpoch
  <2>5. QED
    BY <2>1, <2>2, <2>3, <2>4 DEF NextVisited, VisitedInsert
<1>3. QED
  BY <1>1, <1>2, VisitedTyped, PTL DEF SpecVisited

\* searchLayer's epochs implement the set: nothing is visited when a search begins, and
\* visitedInsert says "new" exactly for the first insert of an id in the running search.
THEOREM VisitedRefinement == SpecVisited => ImplementsFreshSet
<1> DEFINE seen == {id \in NodeIds : Marked(id)}
<1>1. InitVisited => Fresh!Init
  BY DEF InitVisited, Fresh!Init, Marked
<1>2. TypeOKVisited /\ NoFutureEpoch /\ [NextVisited]_visitedVars => [Fresh!Next]_(Fresh!freshVars)
  <2> SUFFICES ASSUME TypeOKVisited, NoFutureEpoch, [NextVisited]_visitedVars
               PROVE  Fresh!Next \/ UNCHANGED Fresh!freshVars
    OBVIOUS
  <2>1. CASE BeginSearch
    <3>1. \A id \in NodeIds : ~Marked(id)'
      <4>1. CASE (version + 1) % Epochs # 0
        BY <2>1, <4>1 DEF BeginSearch, TypeOKVisited, NoFutureEpoch, Marked, Epoch, NodeIds
      <4>2. CASE (version + 1) % Epochs = 0
        BY <2>1, <4>2 DEF BeginSearch, TypeOKVisited, Marked, Epoch, NodeIds, NoEpochs
      <4>3. QED
        BY <4>1, <4>2
    <3>2. QED
      BY <2>1, <3>1 DEF BeginSearch, Fresh!Next, Fresh!BeginSearch
  <2>2. ASSUME NEW i \in NodeIds, VisitedInsert(i)
        PROVE  Fresh!Next
    <3>1. fresh' = ~Marked(i)
      <4>1. CASE i < DenseLimit
        BY <2>2, <4>1 DEF VisitedInsert, GrowAndMark, Marked, TypeOKVisited, Epoch, NodeIds
      <4>2. CASE ~(i < DenseLimit)
        BY <2>2, <4>2 DEF VisitedInsert, MarkSparse, Marked
      <4>3. QED
        BY <4>1, <4>2
    <3>2. \A j \in NodeIds : Marked(j)' <=> (j = i \/ Marked(j))
      <4>1. CASE i < DenseLimit
        <5>1. length' \in Nat /\ i < length' /\ length <= length'
          BY <2>2, <4>1, GrownReaches DEF VisitedInsert, GrowAndMark, NodeIds, TypeOKVisited
        <5>2. QED
          BY <2>2, <4>1, <5>1 DEF VisitedInsert, GrowAndMark, Marked, TypeOKVisited, Epoch, NodeIds
      <4>2. CASE ~(i < DenseLimit)
        BY <2>2, <4>2 DEF VisitedInsert, MarkSparse, Marked
      <4>3. QED
        BY <4>1, <4>2
    <3>3. seen' = seen \cup {i}
      BY <3>2
    <3>4. QED
      BY <3>1, <3>3 DEF Fresh!Next, Fresh!Insert
  <2>3. CASE UNCHANGED visitedVars
    BY <2>3 DEF visitedVars, Fresh!freshVars, Marked
  <2>4. QED
    BY <2>1, <2>2, <2>3 DEF NextVisited
<1>3. QED
  BY <1>1, <1>2, VisitedTyped, PastOnly, PTL DEF SpecVisited, ImplementsFreshSet, Fresh!Spec
=============================================================================
