------------------------------ MODULE SketchStore ------------------------------
(***************************************************************************)
(* SketchVecStore: the quantized records of the resident sketch nodes, in  *)
(* slots of fixed-size chunks.  A freed slot goes on a stack and is the    *)
(* next one reused; a fresh slot may need a new chunk, whose bytes are     *)
(* whatever the allocator left there.  The dense table and its hash-map    *)
(* fallback are one function here: both answer -1 for an id they lack.     *)
(***************************************************************************)
EXTENDS Integers, Sequences, FiniteSets

CONSTANTS
  Ids,
  Records,      \* what a slot of rec_ bytes may encode
  Garbage,      \* an uninitialised slot
  Absent,       \* see RecordMap
  ChunkSize,    \* kChunk
  RecordSizes   \* the sizes setRecordSize is called with

ASSUME ChunkAssumption == ChunkSize \in Nat \ {0}
ASSUME RecordSizesAssumption == RecordSizes \subseteq Nat \ {0}
ASSUME GarbageAssumption == Garbage \notin Records /\ Absent \notin Records \cup {Garbage}

NoSlot == -1

VARIABLES
  rec,        \* rec_, 0 until the first setRecordSize
  slotOf,     \* dense_ and sparse_: NoSlot for an absent id
  bytes,      \* the chunks: bytes[s] is what slot s holds
  chunks,     \* chunks_.size()
  free,       \* free_, a stack
  next,       \* next_
  live,       \* live_
  inserted    \* what the last insert returned

tableVars == <<slotOf, free, next, live>>
vars == <<rec, tableVars, bytes, chunks, inserted>>

Live == {id \in Ids : slotOf[id] # NoSlot}
Free == {free[i] : i \in 1 .. Len(free)}
Capacity(c) == 0 .. c * ChunkSize - 1

-----------------------------------------------------------------------------
Write(s, r) == bytes' = [x \in Capacity(chunks') |->
                           IF x = s THEN r ELSE IF x \in Capacity(chunks) THEN bytes[x] ELSE Garbage]

\* The chunk of slot s exists, or is the next one to allocate.
WithChunkForOffByOne(s) == IF s \div ChunkSize > chunks THEN chunks + 1 ELSE chunks
WithChunkFor(s) == IF s \div ChunkSize >= chunks THEN chunks + 1 ELSE chunks

Popped == SubSeq(free, 1, Len(free) - 1)

Reuse(id, r) ==
  /\ free # <<>>
  /\ free' = Popped
  /\ slotOf' = [slotOf EXCEPT ![id] = free[Len(free)]]
  /\ UNCHANGED <<next, chunks>>
  /\ Write(free[Len(free)], r)

Extend(id, r) ==
  /\ free = <<>>
  /\ next' = next + 1
  /\ chunks' = WithChunkFor(next)
  /\ slotOf' = [slotOf EXCEPT ![id] = next]
  /\ UNCHANGED free
  /\ Write(next, r)

\* insert: additive, the record already kept for the id stays.
Insert(id, r) ==
  /\ rec # 0
  /\ UNCHANGED rec
  /\ \/ /\ id \in Live
        /\ inserted' = FALSE
        /\ UNCHANGED <<tableVars, bytes, chunks>>
     \/ /\ id \notin Live
        /\ inserted' = TRUE
        /\ live' = live + 1
        /\ Reuse(id, r) \/ Extend(id, r)

\* findMutable, then quantize over it (refreshSaL0BufferNodeEmbedding).
Refresh(id, r) ==
  /\ id \in Live
  /\ bytes' = [bytes EXCEPT ![slotOf[id]] = r]
  /\ UNCHANGED <<rec, tableVars, chunks, inserted>>

UnslottedNot(id) == slotOf
Unslotted(id) == [slotOf EXCEPT ![id] = NoSlot]

Erase(id) ==
  /\ id \in Live
  /\ free' = Append(free, slotOf[id])
  /\ slotOf' = Unslotted(id)
  /\ live' = live - 1
  /\ UNCHANGED <<rec, next, bytes, chunks, inserted>>

Cleared ==
  /\ slotOf' = [id \in Ids |-> NoSlot]
  /\ free' = <<>> /\ next' = 0 /\ live' = 0
  /\ chunks' = 0 /\ bytes' = [x \in Capacity(0) |-> Garbage]

Clear ==
  /\ Cleared
  /\ UNCHANGED <<rec, inserted>>

SetRecordSize(n) ==
  /\ n # rec
  /\ rec' = n
  /\ Cleared
  /\ UNCHANGED inserted

Init ==
  /\ rec = 0 /\ next = 0 /\ live = 0 /\ chunks = 0
  /\ slotOf = [id \in Ids |-> NoSlot]
  /\ free = <<>>
  /\ bytes = [x \in Capacity(0) |-> Garbage]
  /\ inserted = FALSE

Next ==
  \/ \E id \in Ids, r \in Records : Insert(id, r) \/ Refresh(id, r)
  \/ \E id \in Ids : Erase(id)
  \/ Clear
  \/ \E n \in RecordSizes : SetRecordSize(n)

Spec == Init /\ [][Next]_vars

-----------------------------------------------------------------------------
TypeOK ==
  /\ rec \in RecordSizes \cup {0}
  /\ next \in Nat /\ live \in Nat /\ chunks \in Nat
  /\ slotOf \in [Ids -> {NoSlot} \cup Nat]
  /\ free \in Seq(Nat)
  /\ bytes \in [Capacity(chunks) -> Records \cup {Garbage}]
  /\ inserted \in BOOLEAN

\* Every slot handed out so far belongs to one id or waits once on the stack, and lies in a
\* chunk that was allocated: no erase and reuse ever gives two ids the same bytes, and no
\* pointer reaches past the last chunk (insert, erase, ptr).
SlotsAccounted ==
  /\ {slotOf[id] : id \in Live} \cup Free = 0 .. next - 1
  /\ \A i, j \in Live : slotOf[i] = slotOf[j] => i = j
  /\ \A id \in Live : slotOf[id] \notin Free
  /\ \A i, j \in 1 .. Len(free) : free[i] = free[j] => i = j
  /\ next <= chunks * ChunkSize

\* size() is the number of ids that count() finds, and the slots never outgrow the largest
\* number of ids kept at once (live_, next_, free_).
SizeExact == live = Cardinality(Live) /\ next = live + Len(free)

\* The slots are invisible: an insert never replaces a record, a find returns what was put under
\* that id last, and what was erased or cleared stays gone (insert, find, findMutable, erase,
\* setRecordSize).
Map == INSTANCE RecordMap WITH
         map <- [id \in Ids |-> IF id \in Live THEN bytes[slotOf[id]] ELSE Absent]
ImplementsRecordMap == Map!Spec
=============================================================================
