----------------------------- MODULE VectorStore -----------------------------
(***************************************************************************)
(* PagedVectorStorage: fixed-size records packed into pages, each page     *)
(* owned by one section.  A section fills its open page through a write    *)
(* buffer, a zero-filled image of the WHOLE page that is written out when  *)
(* the section moves on; records that land mid-page without a buffer go    *)
(* straight to the file.  Reads go buffer, page cache, file.  The cache is *)
(* a slot arena with a page-to-slot index and a rotating hand.             *)
(*                                                                         *)
(* The class is single-threaded; a batch read is cut into steps only to    *)
(* let the pages it misses be loaded in any order, and every other         *)
(* operation waits for it.  Which slot the allocator hands out, and the    *)
(* buffer flush, are code outside the repository, modelled from their use. *)
(***************************************************************************)
EXTENDS Integers, Sequences, FiniteSets

CONSTANTS
  Ids, Sections, Pages,
  SlotsPerPage,      \* vectorsPerPage_
  RecordOf,          \* RecordOf[id]: encodeRec of the vector of id
  Unencodable,       \* ids whose vector a raw byte format rejects
  Blank, Torn,       \* a zeroed record; one that a throwing encodeRec left half-written
  Absent, Unread,    \* see VectorMap
  NoPage, NoSection,
  CacheSizes,        \* the values maxCachedPages is given, by the constructor or the setter
  RecyclesSlotZero   \* may the allocator hand out slot 0 of a page already in use?

Slots == 0 .. SlotsPerPage - 1
Records == {RecordOf[id] : id \in Ids} \cup {Blank, Torn}
PageImages == [Slots -> Records]
ZeroPage == [k \in Slots |-> Blank]
NoSlot == -1

ASSUME SlotsAssumption == SlotsPerPage \in Nat \ {0}
ASSUME SizesAssumption == CacheSizes \subseteq Nat
ASSUME UnencodableAssumption == Unencodable \subseteq Ids
ASSUME SentinelAssumption ==
  /\ NoPage \notin Pages /\ NoSection \notin Sections
  /\ Absent \notin Records /\ Unread \notin Records \cup {Absent}
ASSUME RecycleAssumption == RecyclesSlotZero \in BOOLEAN

VARIABLES
  pageOf,      \* idToPage_, NoPage for -1
  slotOf,      \* idToSlotInPage_
  owner,       \* pages_[p].sectionIdx, NoSection for a page not yet appended
  fill,        \* slots of the page handed out so far
  threw,       \* ids whose store raised the encoding exception
  file,        \* the vector file, page by page
  bufPage,     \* sectionWriteBufs_[s].pageId, NoPage when the section has no buffer
  bufData,     \* sectionWriteBufs_[s].data
  maxPages,    \* maxCachedPages_
  slotPage,    \* FlatPageCache::slotPage_, over 0 .. capacity - 1
  slotData,    \* FlatPageCache::slots_
  index,       \* FlatPageCache::index_, NoSlot for -1
  hand,        \* FlatPageCache::hand_
  cap,         \* FlatPageCache::capacity()
  misses,      \* missScratch_: ids of the running batch not served yet
  toLoad,      \* pages of the running batch not yet passed to loadPageToCache
  out          \* what the last read has returned so far

allocVars == <<pageOf, slotOf, owner, fill, threw>>
bufVars == <<bufPage, bufData>>
cacheVars == <<slotPage, slotData, index, hand, cap>>
readVars == <<misses, toLoad, out>>
vars == <<allocVars, file, bufVars, maxPages, cacheVars, readVars>>

Idle == misses = {}
Stored == {id \in Ids : pageOf[id] # NoPage}
Cached(p) == index[p] # NoSlot
Buffered(p) == owner[p] # NoSection /\ bufPage[owner[p]] = p

\* overlayWriteBuf over what pread returns: the page as readers should see it.
Overlay(p) == IF Buffered(p) THEN bufData[owner[p]] ELSE file[p]
Visible(id) == Overlay(pageOf[id])[slotOf[id]]

\* The free slots of section s: those handed out that no id occupies, and those never used.
Recycled(s, p, k) ==
  /\ owner[p] = s /\ k < fill[p]
  /\ \A id \in Stored : ~(pageOf[id] = p /\ slotOf[id] = k)
  /\ k # 0 \/ RecyclesSlotZero
OpenSlot(s, p, k) == owner[p] = s /\ k = fill[p]
FreshPage(p, k) == owner[p] = NoSection /\ k = 0
Allocates(s, p, k) == Recycled(s, p, k) \/ OpenSlot(s, p, k) \/ FreshPage(p, k)

\* The id is given its place.  Page numbers stay in int32: the store refuses to go on beyond it
\* (overflow_error, 2^31 pages), which no property here is about.
Assign(id, s, p, k) ==
  /\ pageOf' = [pageOf EXCEPT ![id] = p]
  /\ slotOf' = [slotOf EXCEPT ![id] = k]
  /\ owner' = [owner EXCEPT ![p] = s]
  /\ fill' = [fill EXCEPT ![p] = IF k < @ THEN @ ELSE k + 1]

-----------------------------------------------------------------------------
\* flushSectionBuf: write the page out whole, and over its cached copy whatever maxPages says.
FlushedFile(S) ==
  [p \in Pages |-> IF Buffered(p) /\ owner[p] \in S THEN bufData[owner[p]] ELSE file[p]]
FlushedCache(S) ==
  [x \in 0 .. cap - 1 |->
     LET p == slotPage[x] IN
     IF p # NoPage /\ Buffered(p) /\ owner[p] \in S THEN bufData[owner[p]] ELSE slotData[x]]

\* updateCacheAfterWrite on the cache contents data.
UpdatedNot(data, p, k, r) == data
Updated(data, p, k, r) ==
  [x \in 0 .. cap - 1 |->
     IF maxPages # 0 /\ index[p] = x THEN [data[x] EXCEPT ![k] = r] ELSE data[x]]

\* writeToSectionBuffer starts a buffer only at slot 0, or appends to the one that holds the page.
WritesDirectlyNever(s, p, k) == FALSE
WritesDirectly(s, p, k) == k # 0 /\ bufPage[s] # p
LeavingUnflushed(s, p) == {}
Leaving(s, p) == IF bufPage[s] = p THEN {} ELSE {s}
StartedImage(s, p) == IF bufPage[s] = p THEN bufData[s] ELSE ZeroPage

Store(id, s, p, k) ==
  /\ Idle /\ pageOf[id] = NoPage /\ id \notin Unencodable
  /\ Allocates(s, p, k)
  /\ Assign(id, s, p, k)
  /\ \/ /\ WritesDirectly(s, p, k)
        /\ file' = [file EXCEPT ![p][k] = RecordOf[id]]
        /\ slotData' = Updated(slotData, p, k, RecordOf[id])
        /\ UNCHANGED bufVars
     \/ /\ ~WritesDirectly(s, p, k)
        /\ file' = FlushedFile(Leaving(s, p))
        /\ slotData' = Updated(FlushedCache(Leaving(s, p)), p, k, RecordOf[id])
        /\ bufPage' = [bufPage EXCEPT ![s] = p]
        /\ bufData' = [bufData EXCEPT ![s] = [StartedImage(s, p) EXCEPT ![k] = RecordOf[id]]]
  /\ UNCHANGED <<threw, maxPages, slotPage, index, hand, cap, readVars>>

\* encodeRec throws after the id has its slot and, on the buffered path, after the buffer was
\* started; a raw byte format throws at the first bad component, the ones before it are written.
StoreThrows(id, s, p, k) ==
  /\ Idle /\ pageOf[id] = NoPage /\ id \in Unencodable
  /\ Allocates(s, p, k)
  /\ Assign(id, s, p, k)
  /\ threw' = threw \cup {id}
  /\ \/ /\ WritesDirectly(s, p, k)
        /\ UNCHANGED <<file, bufVars, slotData>>
     \/ /\ ~WritesDirectly(s, p, k)
        /\ file' = FlushedFile(Leaving(s, p))
        /\ slotData' = FlushedCache(Leaving(s, p))
        /\ bufPage' = [bufPage EXCEPT ![s] = p]
        /\ \E r \in {StartedImage(s, p)[k], Torn} :
             bufData' = [bufData EXCEPT ![s] = [StartedImage(s, p) EXCEPT ![k] = r]]
  /\ UNCHANGED <<maxPages, slotPage, index, hand, cap, readVars>>

\* deleteVector: the slot becomes available to the section again; its bytes stay.
Delete(id) ==
  /\ Idle /\ pageOf[id] # NoPage
  /\ pageOf' = [pageOf EXCEPT ![id] = NoPage]
  /\ threw' = threw \ {id}
  /\ UNCHANGED <<slotOf, owner, fill, file, bufVars, maxPages, cacheVars, readVars>>

\* flushWrites: flush and drop every section buffer.
FlushWrites ==
  /\ Idle /\ \E s \in Sections : bufPage[s] # NoPage
  /\ file' = FlushedFile(Sections)
  /\ slotData' = FlushedCache(Sections)
  /\ bufPage' = [s \in Sections |-> NoPage]
  /\ UNCHANGED <<allocVars, bufData, maxPages, slotPage, index, hand, cap, readVars>>

-----------------------------------------------------------------------------
CacheReset(c) ==
  /\ cap' = c
  /\ slotPage' = [x \in 0 .. c - 1 |-> NoPage]
  /\ slotData' = [x \in 0 .. c - 1 |-> ZeroPage]
  /\ index' = [p \in Pages |-> NoSlot]
  /\ hand' = 0

\* evictIfNeeded: disabling the cache leaves it as it is, and so does an unchanged capacity.
SetMaxCachedPages(m) ==
  /\ Idle /\ m # maxPages
  /\ maxPages' = m
  /\ IF m # 0 /\ cap # m THEN CacheReset(m) ELSE UNCHANGED cacheVars
  /\ UNCHANGED <<allocVars, file, bufVars, readVars>>

\* deserialize: a store is reopened on its file, nothing buffered, with an empty cache.  It refuses
\* page numbers below -1 or beyond int32, which the tables a store has written do not contain.
Deserialize ==
  /\ Idle /\ \A s \in Sections : bufPage[s] = NoPage
  /\ CacheReset(maxPages)
  /\ UNCHANGED <<allocVars, file, bufVars, maxPages, readVars>>

AdvanceStuck(h, c) == h
Advance(h, c) == (h + 1) % c

ReindexedKeepsVictim(p) == [index EXCEPT ![p] = hand]
Reindexed(p) ==
  [q \in Pages |-> IF q = p THEN hand ELSE IF q = slotPage[hand] THEN NoSlot ELSE index[q]]

\* FlatPageCache::insert at slot 0 of a cache just reset, or at the hand, over the oldest page.
InsertIntoReset(p) ==
  /\ cap' = maxPages
  /\ slotPage' = [x \in 0 .. maxPages - 1 |-> IF x = 0 THEN p ELSE NoPage]
  /\ slotData' = [x \in 0 .. maxPages - 1 |-> IF x = 0 THEN Overlay(p) ELSE ZeroPage]
  /\ index' = [q \in Pages |-> IF q = p THEN 0 ELSE NoSlot]
  /\ hand' = Advance(0, maxPages)
InsertAtHand(p) ==
  /\ slotPage' = [slotPage EXCEPT ![hand] = p]
  /\ slotData' = [slotData EXCEPT ![hand] = Overlay(p)]
  /\ index' = Reindexed(p)
  /\ hand' = Advance(hand, cap)
  /\ UNCHANGED cap

LoadPageToCache(p) ==
  \/ (maxPages = 0 \/ Cached(p)) /\ UNCHANGED cacheVars
  \/ maxPages # 0 /\ ~Cached(p) /\ cap # maxPages /\ InsertIntoReset(p)
  \/ maxPages # 0 /\ ~Cached(p) /\ cap = maxPages /\ InsertAtHand(p)

FromCache(id) == slotData[index[pageOf[id]]][slotOf[id]]
FromFileSlotZero(id) == file[pageOf[id]][0]
FromFile(id) == file[pageOf[id]][slotOf[id]]
Hit(id) == maxPages # 0 /\ Cached(pageOf[id])

\* readVectorFromDisk: buffer, then cache, then the file.
ReadOne(id) ==
  /\ Idle /\ id \in Stored
  /\ out' = [j \in Ids |->
               IF j # id THEN Unread
               ELSE IF Buffered(pageOf[id]) THEN Visible(id)
               ELSE IF Hit(id) THEN FromCache(id) ELSE FromFile(id)]
  /\ UNCHANGED <<allocVars, file, bufVars, maxPages, cacheVars, misses, toLoad>>

\* readVectorsBatchFlat: serve what is buffered or cached, collect the misses ...
BatchBegin(R) ==
  /\ Idle /\ R # {} /\ R \subseteq Stored
  /\ misses' = {id \in R : ~Buffered(pageOf[id]) /\ ~Hit(id)}
  /\ toLoad' = {pageOf[id] : id \in misses'}
  /\ out' = [id \in Ids |->
               IF id \notin R \/ id \in misses' THEN Unread
               ELSE IF Buffered(pageOf[id]) THEN Visible(id) ELSE FromCache(id)]
  /\ UNCHANGED <<allocVars, file, bufVars, maxPages, cacheVars>>

\* ... load their pages ...
BatchLoad(p) ==
  /\ p \in toLoad
  /\ toLoad' = toLoad \ {p}
  /\ LoadPageToCache(p)
  /\ UNCHANGED <<allocVars, file, bufVars, maxPages, misses, out>>

\* ... and decode them from whatever pages the cache still holds, the others from the file.
BatchDecode ==
  /\ ~Idle /\ toLoad = {}
  /\ out' = [id \in Ids |->
               IF id \notin misses THEN out[id]
               ELSE IF Cached(pageOf[id]) THEN FromCache(id) ELSE FromFile(id)]
  /\ misses' = {}
  /\ UNCHANGED <<allocVars, file, bufVars, maxPages, cacheVars, toLoad>>

-----------------------------------------------------------------------------
Init ==
  /\ pageOf = [id \in Ids |-> NoPage]
  /\ slotOf = [id \in Ids |-> 0]
  /\ owner = [p \in Pages |-> NoSection]
  /\ fill = [p \in Pages |-> 0]
  /\ threw = {}
  /\ file = [p \in Pages |-> ZeroPage]
  /\ bufPage = [s \in Sections |-> NoPage]
  /\ bufData = [s \in Sections |-> ZeroPage]
  /\ maxPages \in CacheSizes
  /\ cap = 0 /\ hand = 0
  /\ slotPage = [x \in 0 .. cap - 1 |-> NoPage]
  /\ slotData = [x \in 0 .. cap - 1 |-> ZeroPage]
  /\ index = [p \in Pages |-> NoSlot]
  /\ misses = {} /\ toLoad = {}
  /\ out = [id \in Ids |-> Unread]

Next ==
  \/ \E id \in Ids, s \in Sections, p \in Pages, k \in Slots :
       Store(id, s, p, k) \/ StoreThrows(id, s, p, k)
  \/ \E id \in Ids : Delete(id) \/ ReadOne(id)
  \/ FlushWrites
  \/ \E m \in CacheSizes : SetMaxCachedPages(m)
  \/ Deserialize
  \/ \E R \in SUBSET Ids : BatchBegin(R)
  \/ \E p \in Pages : BatchLoad(p)
  \/ BatchDecode

Spec == Init /\ [][Next]_vars

-----------------------------------------------------------------------------
TypeOK ==
  /\ pageOf \in [Ids -> Pages \cup {NoPage}]
  /\ slotOf \in [Ids -> Slots]
  /\ owner \in [Pages -> Sections \cup {NoSection}]
  /\ fill \in [Pages -> 0 .. SlotsPerPage]
  /\ threw \in SUBSET Ids
  /\ file \in [Pages -> PageImages]
  /\ bufPage \in [Sections -> Pages \cup {NoPage}]
  /\ bufData \in [Sections -> PageImages]
  /\ maxPages \in CacheSizes
  /\ cap \in CacheSizes \cup {0}
  /\ hand \in Nat /\ (cap # 0 => hand < cap)
  /\ slotPage \in [0 .. cap - 1 -> Pages \cup {NoPage}]
  /\ slotData \in [0 .. cap - 1 -> PageImages]
  /\ index \in [Pages -> {NoSlot} \cup 0 .. cap - 1]
  /\ misses \in SUBSET Ids
  /\ toLoad \in SUBSET Pages
  /\ out \in [Ids -> Records \cup {Unread}]

\* A stored id sits on a page of some section, in a slot that was handed out, alone.
SlotsApart ==
  /\ \A id \in Stored : owner[pageOf[id]] # NoSection /\ slotOf[id] < fill[pageOf[id]]
  /\ \A i, j \in Stored : pageOf[i] = pageOf[j] /\ slotOf[i] = slotOf[j] => i = j

\* What a running batch read has gathered, and what it still has to fetch, stays valid until it ends.
BatchSound ==
  ~Idle =>
    /\ \A id \in misses : ~Buffered(pageOf[id])
    /\ \A id \in Ids : out[id] # Unread => id \in Stored /\ out[id] = Visible(id)

\* The page-to-slot index and the slot-to-page table are inverse of each other whatever was
\* evicted, reset or reloaded: a lookup never lands on a slot that holds another page
\* (FlatPageCache::insert, reset).
CacheIndexExact ==
  /\ \A p \in Pages : Cached(p) => slotPage[index[p]] = p
  /\ \A x \in 0 .. cap - 1 : slotPage[x] # NoPage => index[slotPage[x]] = x

\* The cached copy of a page that no section buffer holds is the page in the file, through
\* direct writes, flushes, evictions and capacity changes (updateCacheAfterWrite,
\* flushSectionBuf, loadPageToCache).
CacheCoherent ==
  \A p \in Pages : Cached(p) /\ ~Buffered(p) => slotData[index[p]] = file[p]

\* Every id whose store returned reads back its own record, wherever the bytes are: still
\* buffered, flushed, or written around the buffer (storeVectorToDisk, writeToSectionBuffer).
StoredReadable ==
  \A id \in Stored \ threw : Visible(id) = RecordOf[id]

\* No operation on one id moves the bytes another id reads: in particular starting a zero-filled
\* page buffer never covers a record already on that page (writeToSectionBuffer).
OthersUntouched ==
  [][\A id \in Ids :
       (pageOf[id] # NoPage /\ pageOf'[id] = pageOf[id]) => Visible(id)' = Visible(id)]_vars

\* The storage is a map from ids to records and every read, batched or not, answers from it.
VM == INSTANCE VectorMap WITH
        map <- [id \in Ids |-> IF pageOf[id] = NoPage THEN Absent ELSE Visible(id)],
        answer <- out
ImplementsVectorMap == VM!Spec

\* The resident pages, oldest first: from the hand once the arena is full, from slot 0 before.
Residents == {x \in 0 .. cap - 1 : slotPage[x] # NoPage}
Oldest == IF slotPage[hand] = NoPage THEN 0 ELSE hand
ResidentQueue == [i \in 1 .. Cardinality(Residents) |-> slotPage[(Oldest + i - 1) % cap]]
Fifo == INSTANCE FifoPages WITH
          queue <- ResidentQueue, capacity <- cap, Capacities <- CacheSizes \cup {0}
\* The rotating hand evicts in the order of the queue it replaces: oldest page first, and a
\* page is never resident twice (FlatPageCache::insert: "the eviction order is the same FIFO").
ImplementsFifoPages == Fifo!Spec
=============================================================================
