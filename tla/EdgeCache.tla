------------------------------ MODULE EdgeCache ------------------------------
(***************************************************************************)
(* EdgeLRUCache: adjacency lists in a fixed arena of slots.  The slots in  *)
(* use form a doubly linked list, front to back; the others a free list    *)
(* through the same next field; an open-addressing table of twice the      *)
(* capacity, probed linearly, finds the slot of an id.  Erasing from the   *)
(* table shifts later entries of the probe run back into the hole, so a    *)
(* lookup stops at the first empty bucket.  How ids hash is arbitrary.     *)
(***************************************************************************)
EXTENDS Integers, Sequences, FiniteSets

CONSTANTS
  Ids,        \* node ids
  Lists,      \* neighbor lists, as encode keeps them
  Missing,    \* get found nothing
  NoId,       \* the id field of a slot never used
  Capacity,   \* capacity_
  TableSize,  \* mask_ + 1
  Homes       \* buckets ids may hash to

Slots == 0 .. Capacity - 1
Buckets == 0 .. TableSize - 1
Nil == -1     \* kNil and kEmpty

ASSUME CapacityAssumption == Capacity \in Nat \ {0}
ASSUME TableAssumption == TableSize \in Nat /\ TableSize >= 2 * Capacity
ASSUME HomesAssumption == Homes \subseteq Buckets
ASSUME MissingAssumption == Missing \notin Lists /\ NoId \notin Ids

VARIABLES
  home,       \* home(id), chosen once
  slotId,     \* slots_[sl].id
  enc,        \* slots_[sl].enc, decoded; Missing once freeSlot cleared it
  prev, next, \* slots_[sl].prev, .next
  table,      \* table_
  head, tail, free, size,
  answer      \* what the last get returned

slotVars == <<slotId, enc>>
linkVars == <<prev, next, head, tail, free, size>>
vars == <<home, slotVars, linkVars, table, answer>>

Step(b, n) == (b + n) % TableSize

-----------------------------------------------------------------------------
\* lookup: walk from the id's home bucket to the first bucket that is empty or holds the id.
Stops(id, n) == LET sl == table[Step(home[id], n)] IN sl = Nil \/ slotId[sl] = id
ProbeLength(id) == CHOOSE n \in Buckets : Stops(id, n) /\ \A m \in 0 .. n - 1 : ~Stops(id, m)
BucketOf(id) == Step(home[id], ProbeLength(id))
Lookup(id) == table[BucketOf(id)]
Resident(id) == Lookup(id) # Nil

\* tableInsert into the table t: the first empty bucket from the id's home.
InsertedInto(t, id, sl) ==
  LET n == CHOOSE n \in Buckets :
             t[Step(home[id], n)] = Nil /\ \A m \in 0 .. n - 1 : t[Step(home[id], m)] # Nil
  IN [t EXCEPT ![Step(home[id], n)] = sl]

\* May the entry of bucket j, whose home is h, move back to the hole at i?
MovableIgnoringWrap(i, j, h) == h <= i \/ h > j
Movable(i, j, h) == IF i <= j THEN h <= i \/ h > j ELSE h <= i /\ h > j

\* One round of tableErase at bucket j: an entry that may move fills the hole and leaves it at j.
Shifted(walk, j) ==
  IF Movable(walk.hole, j, home[slotId[walk.buckets[j]]])
  THEN [buckets |-> [walk.buckets EXCEPT ![walk.hole] = walk.buckets[j]], hole |-> j]
  ELSE walk

\* tableErase: walk the rest of the probe run from the erased bucket, then empty the last hole.
ErasedFromNoShift(id) == [table EXCEPT ![BucketOf(id)] = Nil]
ErasedFrom(id) ==
  LET start == BucketOf(id)
      at(n) == Step(start, n)
      run == CHOOSE n \in Buckets : table[at(n + 1)] = Nil /\ \A m \in 1 .. n : table[at(m)] # Nil
      walked[n \in 0 .. run] ==
        IF n = 0 THEN [buckets |-> table, hole |-> start] ELSE Shifted(walked[n - 1], at(n))
  IN [walked[run].buckets EXCEPT ![walked[run].hole] = Nil]

-----------------------------------------------------------------------------
\* The linked fields as one record, so that unlink, pushFront and freeSlot compose as in the code.
Links == [prev |-> prev, next |-> next, head |-> head, tail |-> tail, free |-> free, size |-> size]

Unlinked(l, sl) ==
  LET p == l.prev[sl]
      n == l.next[sl]
  IN [l EXCEPT
        !.next = [x \in Slots |-> IF x = sl THEN Nil ELSE IF x = p THEN n ELSE l.next[x]],
        !.prev = [x \in Slots |-> IF x = sl THEN Nil ELSE IF x = n THEN p ELSE l.prev[x]],
        !.head = IF p = Nil THEN n ELSE @,
        !.tail = IF n = Nil THEN p ELSE @]

PushedFront(l, sl) ==
  [l EXCEPT
     !.next[sl] = l.head,
     !.prev = [x \in Slots |-> IF x = sl THEN Nil ELSE IF x = l.head THEN sl ELSE l.prev[x]],
     !.head = sl,
     !.tail = IF @ = Nil THEN sl ELSE @]

FreedSlotForgets(l, sl) == [l EXCEPT !.size = @ - 1]
FreedSlot(l, sl) == [l EXCEPT !.next[sl] = l.free, !.free = sl, !.size = @ - 1]
TakenSlot(l) == [l EXCEPT !.free = l.next[l.free], !.size = @ + 1]

SetLinks(l) ==
  /\ prev' = l.prev /\ next' = l.next
  /\ head' = l.head /\ tail' = l.tail
  /\ free' = l.free /\ size' = l.size

-----------------------------------------------------------------------------
\* The three courses of put: the id is resident, a slot is free, or the tail is the victim, whose
\* slot is then the one taken.
Refresh(id, list) ==
  /\ Resident(id)
  /\ enc' = [enc EXCEPT ![Lookup(id)] = list]
  /\ SetLinks(PushedFront(Unlinked(Links, Lookup(id)), Lookup(id)))
  /\ UNCHANGED <<home, slotId, table, answer>>

Insert(id, list) ==
  /\ ~Resident(id) /\ size < Capacity
  /\ slotId' = [slotId EXCEPT ![free] = id]
  /\ enc' = [enc EXCEPT ![free] = list]
  /\ SetLinks(PushedFront(TakenSlot(Links), free))
  /\ table' = InsertedInto(table, id, free)
  /\ UNCHANGED <<home, answer>>

InsertEvicting(id, list) ==
  /\ ~Resident(id) /\ size >= Capacity
  /\ slotId' = [slotId EXCEPT ![tail] = id]
  /\ enc' = [enc EXCEPT ![tail] = list]
  /\ SetLinks(PushedFront(TakenSlot(FreedSlot(Unlinked(Links, tail), tail)), tail))
  /\ table' = InsertedInto(ErasedFrom(slotId[tail]), id, tail)
  /\ UNCHANGED <<home, answer>>

Put(id, list) == Refresh(id, list) \/ Insert(id, list) \/ InsertEvicting(id, list)

Get(id) ==
  /\ answer' = IF Resident(id) THEN enc[Lookup(id)] ELSE Missing
  /\ UNCHANGED <<home, slotVars, linkVars, table>>

\* The id field of the freed slot stays behind.
Erase(id) ==
  /\ Resident(id)
  /\ enc' = [enc EXCEPT ![Lookup(id)] = Missing]
  /\ SetLinks(FreedSlot(Unlinked(Links, Lookup(id)), Lookup(id)))
  /\ table' = ErasedFrom(id)
  /\ UNCHANGED <<home, slotId, answer>>

Init ==
  /\ home \in [Ids -> Homes]
  /\ slotId = [sl \in Slots |-> NoId]
  /\ enc = [sl \in Slots |-> Missing]
  /\ prev = [sl \in Slots |-> Nil]
  /\ next = [sl \in Slots |-> IF sl + 1 < Capacity THEN sl + 1 ELSE Nil]
  /\ table = [b \in Buckets |-> Nil]
  /\ head = Nil /\ tail = Nil /\ free = 0 /\ size = 0
  /\ answer = Missing

Next ==
  \E id \in Ids :
    \/ \E list \in Lists : Put(id, list)
    \/ Get(id)
    \/ Erase(id)

Spec == Init /\ [][Next]_vars

-----------------------------------------------------------------------------
TypeOK ==
  /\ home \in [Ids -> Homes]
  /\ slotId \in [Slots -> Ids \cup {NoId}]
  /\ enc \in [Slots -> Lists \cup {Missing}]
  /\ prev \in [Slots -> Slots \cup {Nil}]
  /\ next \in [Slots -> Slots \cup {Nil}]
  /\ table \in [Buckets -> Slots \cup {Nil}]
  /\ {head, tail, free} \subseteq Slots \cup {Nil}
  /\ size \in 0 .. Capacity
  /\ answer \in Lists \cup {Missing}

\* The slots met from sl through link, in order.
Chain(link, sl) ==
  LET nth[n \in 0 .. Capacity] ==
        IF n = 0 THEN sl ELSE IF nth[n - 1] = Nil THEN Nil ELSE link[nth[n - 1]]
      length == Cardinality({n \in 0 .. Capacity : nth[n] # Nil})
  IN [n \in 1 .. length |-> nth[n - 1]]
Members(chain) == {chain[n] : n \in 1 .. Len(chain)}
InUse == {table[b] : b \in Buckets} \ {Nil}

\* After any mix of inserts and backward-shift erases, every slot in the table is in it once and
\* under its id, and no empty bucket lies between an entry and the home of its id: the probe
\* that looks for a resident id is never cut short (tableInsert, tableErase, lookup).
ProbeRunsUnbroken ==
  /\ \A b, c \in Buckets : table[b] = table[c] /\ table[b] # Nil => b = c
  /\ \A i, j \in InUse : slotId[i] = slotId[j] => i = j
  /\ \A b \in Buckets : table[b] # Nil => BucketOf(slotId[table[b]]) = b

\* What get, put and erase may rely on when they look for an id (the type, and the above).
TableSound == TypeOK /\ ProbeRunsUnbroken

\* The arena splits into the list, which holds exactly the slots the table knows and ends in
\* tail, and the free list: no slot is lost or shared, and a cache below its capacity always
\* has a slot to take (unlink, pushFront, freeSlot, put).
ArenaPartitioned ==
  LET used == Chain(next, head)
      spare == Chain(next, free)
  IN /\ Members(used) = InUse /\ Len(used) = size
     /\ Members(spare) = Slots \ InUse /\ Len(spare) = Capacity - size
     /\ IF used = <<>> THEN tail = Nil ELSE tail = used[size]
     /\ \A n \in 1 .. size : prev[used[n]] = IF n = 1 THEN Nil ELSE used[n - 1]

\* The arena behaves as the list+map cache it replaces (lsm_vec_index.h: "Eviction semantics are
\* those of the old list+map version"), for get, put, erase and the choice of the victim.
Lru == INSTANCE LruMap WITH
         order <- LET used == Chain(next, head) IN [n \in 1 .. Len(used) |-> slotId[used[n]]],
         content <- [id \in Ids |-> IF Resident(id) THEN enc[Lookup(id)] ELSE Missing]
ImplementsLruMap == Lru!Spec
=============================================================================
