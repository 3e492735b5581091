-------------------------- MODULE VectorStoreProofs --------------------------
(***************************************************************************)
(* Proofs about VectorStore for any sets of ids, sections and pages, any   *)
(* page size and any set of cache sizes.                                   *)
(***************************************************************************)
EXTENDS VectorStore, FiniteSetTheorems, SequenceTheorems, TLAPS

USE SlotsAssumption, SizesAssumption, UnencodableAssumption, SentinelAssumption,
    RecycleAssumption

\* What the two write paths leave in the file and in the cache are again pages.
LEMMA FlushedTypes ==
  ASSUME TypeOK, NEW S \in SUBSET Sections
  PROVE  /\ FlushedFile(S) \in [Pages -> PageImages]
         /\ FlushedCache(S) \in [0 .. cap - 1 -> PageImages]
  BY DEF TypeOK, FlushedFile, FlushedCache, Buffered

\* updateCacheAfterWrite leaves pages in the cache.
LEMMA UpdatedTypes ==
  ASSUME NEW data \in [0 .. cap - 1 -> PageImages],
         NEW p \in Pages, NEW k \in Slots, NEW r \in Records
  PROVE  Updated(data, p, k, r) \in [0 .. cap - 1 -> PageImages]
  BY DEF Updated, PageImages

\* The buffer a store starts, and what a reader sees of a page, are pages.
LEMMA ImageTypes ==
  ASSUME TypeOK, NEW s \in Sections, NEW p \in Pages
  PROVE  StartedImage(s, p) \in PageImages /\ Overlay(p) \in PageImages
  BY DEF TypeOK, StartedImage, Overlay, Buffered, PageImages, ZeroPage, Records

\* FlatPageCache::reset leaves a well-formed empty cache.
LEMMA ResetTypes ==
  ASSUME NEW c \in CacheSizes, CacheReset(c)
  PROVE  /\ cap' = c
         /\ slotPage' \in [0 .. c - 1 -> Pages \cup {NoPage}]
         /\ slotData' \in [0 .. c - 1 -> PageImages]
         /\ index' \in [Pages -> {NoSlot} \cup 0 .. c - 1]
         /\ hand' \in Nat /\ (c # 0 => hand' < c)
<1>1. ZeroPage \in PageImages
  BY DEF ZeroPage, PageImages, Records
<1>2. QED
  BY <1>1 DEF CacheReset

\* The two halves of a batch read refer to ids that are stored.
MissesStored == misses \subseteq Stored

\* storeVectorToDisk's id, page and slot tables stay well-formed.
LEMMA AllocationTypes ==
  ASSUME TypeOK, NEW id \in Ids, NEW s \in Sections, NEW p \in Pages, NEW k \in Slots,
         Assign(id, s, p, k)
  PROVE  /\ pageOf' \in [Ids -> Pages \cup {NoPage}]
         /\ slotOf' \in [Ids -> Slots]
         /\ owner' \in [Pages -> Sections \cup {NoSection}]
         /\ fill' \in [Pages -> 0 .. SlotsPerPage]
  BY DEF TypeOK, Assign, Slots

\* Every table of the store keeps its type, and a running batch waits only for stored ids
\* (deleteVector never runs inside readVectorsBatchFlat).
THEOREM TypeCorrect == Spec => [](TypeOK /\ MissesStored)
<1>1. Init => TypeOK /\ MissesStored
  BY DEF Init, TypeOK, MissesStored, PageImages, ZeroPage, Records, Slots, Stored
<1>2. TypeOK /\ MissesStored /\ [Next]_vars => (TypeOK /\ MissesStored)'
  <2> SUFFICES ASSUME TypeOK, MissesStored, [Next]_vars
               PROVE  (TypeOK /\ MissesStored)'
    OBVIOUS
  <2>1. ASSUME NEW id \in Ids, NEW s \in Sections, NEW p \in Pages, NEW k \in Slots,
               Store(id, s, p, k)
        PROVE  (TypeOK /\ MissesStored)'
    <3>1. /\ FlushedFile(Leaving(s, p)) \in [Pages -> PageImages]
          /\ FlushedCache(Leaving(s, p)) \in [0 .. cap - 1 -> PageImages]
      BY FlushedTypes DEF Leaving
    <3>2. RecordOf[id] \in Records
      BY DEF Records
    <3>3. /\ file' \in [Pages -> PageImages]
          /\ slotData' \in [0 .. cap - 1 -> PageImages]
          /\ bufPage' \in [Sections -> Pages \cup {NoPage}]
          /\ bufData' \in [Sections -> PageImages]
      <4>1. StartedImage(s, p) \in PageImages
        BY ImageTypes
      <4>2. [StartedImage(s, p) EXCEPT ![k] = RecordOf[id]] \in PageImages
        BY <3>2, <4>1 DEF PageImages
      <4>3. CASE WritesDirectly(s, p, k)
        <5>1. [file EXCEPT ![p][k] = RecordOf[id]] \in [Pages -> PageImages]
          BY <3>2 DEF TypeOK, PageImages
        <5>2. Updated(slotData, p, k, RecordOf[id]) \in [0 .. cap - 1 -> PageImages]
          BY <3>2, UpdatedTypes DEF TypeOK
        <5>3. /\ file' = [file EXCEPT ![p][k] = RecordOf[id]]
              /\ slotData' = Updated(slotData, p, k, RecordOf[id])
              /\ UNCHANGED <<bufPage, bufData>>
          BY <2>1, <4>3 DEF Store, bufVars
        <5>4. QED
          BY <5>1, <5>2, <5>3 DEF TypeOK
      <4>4. CASE ~WritesDirectly(s, p, k)
        <5>1. Updated(FlushedCache(Leaving(s, p)), p, k, RecordOf[id])
                \in [0 .. cap - 1 -> PageImages]
          BY <3>1, <3>2, UpdatedTypes
        <5>2. /\ file' = FlushedFile(Leaving(s, p))
              /\ slotData' = Updated(FlushedCache(Leaving(s, p)), p, k, RecordOf[id])
              /\ bufPage' = [bufPage EXCEPT ![s] = p]
              /\ bufData' = [bufData EXCEPT
                               ![s] = [StartedImage(s, p) EXCEPT ![k] = RecordOf[id]]]
          BY <2>1, <4>4 DEF Store
        <5>3. QED
          BY <3>1, <4>2, <5>1, <5>2 DEF TypeOK
      <4>5. QED
        BY <4>3, <4>4
    <3>4. QED
      BY <2>1, <3>3, AllocationTypes
      DEF Store, TypeOK, MissesStored, Idle, readVars
  <2>2. ASSUME NEW id \in Ids, NEW s \in Sections, NEW p \in Pages, NEW k \in Slots,
               StoreThrows(id, s, p, k)
        PROVE  (TypeOK /\ MissesStored)'
    <3>1. /\ FlushedFile(Leaving(s, p)) \in [Pages -> PageImages]
          /\ FlushedCache(Leaving(s, p)) \in [0 .. cap - 1 -> PageImages]
      BY FlushedTypes DEF Leaving
    <3>2. StartedImage(s, p) \in PageImages /\ Torn \in Records
      BY ImageTypes DEF Records
    <3>3. /\ file' \in [Pages -> PageImages]
          /\ slotData' \in [0 .. cap - 1 -> PageImages]
          /\ bufPage' \in [Sections -> Pages \cup {NoPage}]
          /\ bufData' \in [Sections -> PageImages]
      <4>1. \A r \in {StartedImage(s, p)[k], Torn} :
              [StartedImage(s, p) EXCEPT ![k] = r] \in PageImages
        BY <3>2 DEF PageImages
      <4>2. CASE WritesDirectly(s, p, k)
        BY <2>2, <4>2 DEF StoreThrows, TypeOK, bufVars
      <4>3. CASE ~WritesDirectly(s, p, k)
        <5>1. PICK r \in {StartedImage(s, p)[k], Torn} :
                /\ file' = FlushedFile(Leaving(s, p))
                /\ slotData' = FlushedCache(Leaving(s, p))
                /\ bufPage' = [bufPage EXCEPT ![s] = p]
                /\ bufData' = [bufData EXCEPT ![s] = [StartedImage(s, p) EXCEPT ![k] = r]]
          BY <2>2, <4>3 DEF StoreThrows
        <5>2. QED
          BY <3>1, <4>1, <5>1 DEF TypeOK
      <4>4. QED
        BY <4>2, <4>3
    <3>4. QED
      BY <2>2, <3>3, AllocationTypes
      DEF StoreThrows, TypeOK, MissesStored, Idle, readVars
  <2>3. ASSUME NEW id \in Ids, Delete(id)
        PROVE  (TypeOK /\ MissesStored)'
    <3>1. pageOf' \in [Ids -> Pages \cup {NoPage}] /\ threw' \in SUBSET Ids
      BY <2>3 DEF Delete, TypeOK
    <3>2. /\ misses = {}
          /\ UNCHANGED <<slotOf, owner, fill, file, bufPage, bufData, maxPages, slotPage,
                         slotData, index, hand, cap, misses, toLoad, out>>
      BY <2>3 DEF Delete, Idle, bufVars, cacheVars, readVars
    <3>3. QED
      BY <3>1, <3>2 DEF TypeOK, MissesStored
  <2>4. CASE FlushWrites
    BY <2>4, FlushedTypes
    DEF FlushWrites, TypeOK, MissesStored, Idle, Stored, allocVars, readVars
  <2>5. ASSUME NEW m \in CacheSizes, SetMaxCachedPages(m)
        PROVE  (TypeOK /\ MissesStored)'
    <3>1. /\ maxPages' = m
          /\ misses = {}
          /\ UNCHANGED <<pageOf, slotOf, owner, fill, threw, file, bufPage, bufData,
                         misses, toLoad, out>>
      BY <2>5 DEF SetMaxCachedPages, Idle, allocVars, bufVars, readVars
    <3>2. CASE m # 0 /\ cap # m
      <4>1. CacheReset(m)
        BY <2>5, <3>2 DEF SetMaxCachedPages
      <4>2. QED
        BY <3>1, <4>1, ResetTypes DEF TypeOK, MissesStored
    <3>3. CASE ~(m # 0 /\ cap # m)
      BY <2>5, <3>1, <3>3 DEF SetMaxCachedPages, TypeOK, MissesStored, cacheVars
    <3>4. QED
      BY <3>2, <3>3
  <2>6. CASE Deserialize
    <3>1. /\ CacheReset(maxPages)
          /\ misses = {}
          /\ UNCHANGED <<pageOf, slotOf, owner, fill, threw, file, bufPage, bufData, maxPages,
                         misses, toLoad, out>>
      BY <2>6 DEF Deserialize, Idle, allocVars, bufVars, readVars
    <3>2. QED
      BY <3>1, ResetTypes DEF TypeOK, MissesStored
  <2>7. ASSUME NEW id \in Ids, ReadOne(id)
        PROVE  (TypeOK /\ MissesStored)'
    <3>1. id \in Stored => Visible(id) \in Records
      BY ImageTypes DEF TypeOK, Stored, Visible, Overlay, Buffered, PageImages
    <3>2. QED
      BY <2>7, <3>1 DEF ReadOne, TypeOK, MissesStored, Stored, Hit, Cached, FromCache, FromFile,
                   PageImages, allocVars, bufVars, cacheVars, readVars
  <2>8. ASSUME NEW R \in SUBSET Ids, BatchBegin(R)
        PROVE  (TypeOK /\ MissesStored)'
    <3>1. \A id \in Stored : Visible(id) \in Records
      BY ImageTypes DEF TypeOK, Stored, Visible, Overlay, Buffered, PageImages
    <3>2. QED
      BY <2>8, <3>1 DEF BatchBegin, TypeOK, MissesStored, Stored, Hit, Cached, FromCache, FromFile,
                   PageImages, allocVars, bufVars, cacheVars, readVars
  <2>9. ASSUME NEW p \in Pages, BatchLoad(p)
        PROVE  (TypeOK /\ MissesStored)'
    <3>1. Overlay(p) \in PageImages
      BY DEF TypeOK, Overlay, Buffered
    <3>2. CASE UNCHANGED cacheVars
      BY <2>9, <3>2 DEF BatchLoad, TypeOK, MissesStored, Stored, allocVars, bufVars, cacheVars
    <3>3. CASE maxPages # 0 /\ InsertIntoReset(p)
      <4>1. maxPages \in Nat \ {0} /\ 0 \in 0 .. maxPages - 1
        BY <3>3 DEF TypeOK
      <4>2. /\ hand' \in Nat /\ hand' < maxPages
            /\ slotData' \in [0 .. maxPages - 1 -> PageImages]
        BY <3>1, <3>3, <4>1 DEF InsertIntoReset, Advance, PageImages, ZeroPage, Records
      <4>3. QED
        BY <2>9, <3>3, <4>1, <4>2
        DEF BatchLoad, InsertIntoReset, Advance, TypeOK, MissesStored, Stored, allocVars, bufVars
    <3>4. CASE maxPages # 0 /\ cap = maxPages /\ InsertAtHand(p)
      <4>1. cap \in Nat \ {0} /\ hand \in 0 .. cap - 1
        BY <3>4 DEF TypeOK
      <4>2. hand' \in Nat /\ hand' < cap
        BY <3>4, <4>1 DEF InsertAtHand, Reindexed, Advance
      <4>3. QED
        BY <2>9, <3>1, <3>4, <4>1, <4>2
        DEF BatchLoad, InsertAtHand, Reindexed, Advance, TypeOK, MissesStored, Stored, allocVars, bufVars
    <3>5. QED
      BY <2>9, <3>2, <3>3, <3>4 DEF BatchLoad, LoadPageToCache
  <2>10. CASE BatchDecode
    BY <2>10 DEF BatchDecode, TypeOK, MissesStored, Stored, Cached, FromCache, FromFile,
                   PageImages, allocVars, bufVars, cacheVars
  <2>11. CASE UNCHANGED vars
    BY <2>11 DEF vars, TypeOK, MissesStored, Stored, allocVars, bufVars, cacheVars, readVars
  <2>12. QED
    BY <2>1, <2>2, <2>3, <2>4, <2>5, <2>6, <2>7, <2>8, <2>9, <2>10, <2>11 DEF Next
<1>3. QED
  BY <1>1, <1>2, PTL DEF Spec

-----------------------------------------------------------------------------
\* The page-to-slot index stays the inverse of the slot-to-page table.
THEOREM IndexExact == Spec => []CacheIndexExact
<1>1. Init => CacheIndexExact
  BY DEF Init, CacheIndexExact, Cached
<1>2. TypeOK /\ CacheIndexExact /\ [Next]_vars => CacheIndexExact'
  <2> SUFFICES ASSUME TypeOK, CacheIndexExact, [Next]_vars
               PROVE  CacheIndexExact'
    OBVIOUS
  <2>1. CASE UNCHANGED <<index, slotPage, cap>>
    BY <2>1 DEF CacheIndexExact, Cached
  <2>2. ASSUME NEW c, CacheReset(c)
        PROVE  CacheIndexExact'
    BY <2>2 DEF CacheReset, CacheIndexExact, Cached
  <2>3. ASSUME NEW p \in Pages, BatchLoad(p)
        PROVE  CacheIndexExact'
    <3>1. CASE maxPages # 0 /\ InsertIntoReset(p)
      BY <3>1 DEF InsertIntoReset, Advance, CacheIndexExact, Cached, NoSlot, TypeOK
    <3>2. CASE maxPages # 0 /\ ~Cached(p) /\ cap = maxPages /\ InsertAtHand(p)
      <4>1. hand \in 0 .. cap - 1
        BY <3>2 DEF TypeOK
      <4>2. /\ slotPage' = [slotPage EXCEPT ![hand] = p]
            /\ index' = [q \in Pages |->
                 IF q = p THEN hand ELSE IF q = slotPage[hand] THEN NoSlot ELSE index[q]]
            /\ cap' = cap
        BY <3>2 DEF InsertAtHand, Reindexed, Advance
      <4>3. ASSUME NEW q \in Pages, index'[q] # NoSlot
            PROVE  slotPage'[index'[q]] = q
        BY <4>1, <4>2, <4>3 DEF CacheIndexExact, Cached, NoSlot, TypeOK
      <4>4. ASSUME NEW x \in 0 .. cap - 1, slotPage'[x] # NoPage
            PROVE  index'[slotPage'[x]] = x
        BY <3>2, <4>1, <4>2, <4>4 DEF CacheIndexExact, Cached, NoSlot, TypeOK
      <4>5. QED
        BY <4>2, <4>3, <4>4 DEF CacheIndexExact, Cached
    <3>3. QED
      BY <2>1, <2>3, <3>1, <3>2 DEF BatchLoad, LoadPageToCache, cacheVars
  <2>4. QED
    BY <2>1, <2>2, <2>3
    DEF Next, Store, StoreThrows, Delete, FlushWrites, SetMaxCachedPages, Deserialize, ReadOne,
        BatchBegin, BatchDecode, vars, cacheVars
<1>3. QED
  BY <1>1, <1>2, TypeCorrect, PTL DEF Spec

-----------------------------------------------------------------------------
\* A cache that is never switched between disabled and enabled holds pages only while enabled.
NeverToggled == 0 \in CacheSizes => CacheSizes = {0}
EnabledWhenFilled == cap # 0 => maxPages # 0

\* Under that proviso setMaxCachedPages and loadPageToCache never leave slots behind in a
\* disabled cache.
LEMMA Enabled ==
  ASSUME NeverToggled
  PROVE  Spec => []EnabledWhenFilled
<1>1. Init => EnabledWhenFilled
  BY DEF Init, EnabledWhenFilled
<1>2. TypeOK /\ EnabledWhenFilled /\ [Next]_vars => EnabledWhenFilled'
  <2> SUFFICES ASSUME TypeOK, EnabledWhenFilled, [Next]_vars
               PROVE  EnabledWhenFilled'
    OBVIOUS
  <2>1. CASE UNCHANGED <<cap, maxPages>>
    BY <2>1 DEF EnabledWhenFilled
  <2>2. ASSUME NEW m \in CacheSizes, SetMaxCachedPages(m)
        PROVE  EnabledWhenFilled'
    BY <2>2 DEF SetMaxCachedPages, NeverToggled, TypeOK, EnabledWhenFilled
  <2>3. CASE Deserialize
    BY <2>3 DEF Deserialize, CacheReset, EnabledWhenFilled
  <2>4. ASSUME NEW p \in Pages, BatchLoad(p)
        PROVE  EnabledWhenFilled'
    BY <2>4 DEF BatchLoad, LoadPageToCache, InsertIntoReset, InsertAtHand, Reindexed,
       Advance, cacheVars, EnabledWhenFilled
  <2>5. QED
    BY <2>1, <2>2, <2>3, <2>4
    DEF Next, Store, StoreThrows, Delete, FlushWrites, ReadOne, BatchBegin, BatchDecode,
        vars, cacheVars
<1>3. QED
  BY <1>1, <1>2, TypeCorrect, PTL DEF Spec

\* Where the allocator places an id on a page that some id already occupies, the page stays with
\* its section, and a write that starts a buffer lands on a page nobody occupies.
LEMMA AllocationKeepsOwner ==
  ASSUME TypeOK, NEW id \in Ids, NEW s \in Sections, NEW p \in Pages, NEW k \in Slots,
         Allocates(s, p, k), Assign(id, s, p, k)
  PROVE  /\ owner'[p] = s
         /\ \A q \in Pages : q # p => owner'[q] = owner[q]
         /\ k # 0 => owner[p] = s
  BY DEF Allocates, Recycled, OpenSlot, FreshPage, Assign, TypeOK

\* The cached copy of an unbuffered page is the page, for a cache that is on for good or off for
\* good: writes that bypass the buffer, flushes and loads all leave it equal to the file.
THEOREM Coherent ==
  ASSUME NeverToggled
  PROVE  Spec => []CacheCoherent
<1>1. Init => CacheCoherent
  BY DEF Init, CacheCoherent, Cached
<1>2. /\ TypeOK /\ MissesStored /\ CacheIndexExact /\ EnabledWhenFilled
      /\ CacheCoherent /\ [Next]_vars
      => CacheCoherent'
  <2> SUFFICES ASSUME TypeOK, MissesStored, CacheIndexExact, EnabledWhenFilled,
                      CacheCoherent, [Next]_vars
               PROVE  CacheCoherent'
    OBVIOUS
  <2>0. \A q \in Pages : Cached(q) => index[q] \in 0 .. cap - 1 /\ slotPage[index[q]] = q
    BY DEF TypeOK, CacheIndexExact, Cached
  <2>1. CASE UNCHANGED <<owner, bufPage, file, index, slotData>>
    BY <2>1 DEF CacheCoherent, Cached, Buffered
  <2>2. ASSUME NEW c, CacheReset(c)
        PROVE  CacheCoherent'
    BY <2>2 DEF CacheReset, CacheCoherent, Cached
  <2>3. ASSUME NEW id \in Ids, NEW s \in Sections, NEW p \in Pages, NEW k \in Slots,
               Store(id, s, p, k) \/ StoreThrows(id, s, p, k),
               NEW q \in Pages, Cached(q)', ~Buffered(q)'
        PROVE  slotData'[index'[q]] = file'[q]
    <3>1. /\ owner'[p] = s
          /\ \A r \in Pages : r # p => owner'[r] = owner[r]
          /\ k # 0 => owner[p] = s
          /\ index' = index
      BY <2>3, AllocationKeepsOwner DEF Store, StoreThrows
    <3>2. Cached(q)
      BY <2>3, <3>1 DEF Cached
    <3>3. CASE WritesDirectly(s, p, k)
      <4>1. owner' = owner /\ bufPage' = bufPage
        BY <2>3, <3>1, <3>3 DEF WritesDirectly, Store, StoreThrows, Assign, bufVars, TypeOK
      <4>2. slotData[index[q]] = file[q]
        BY <2>3, <3>2, <4>1 DEF CacheCoherent, Buffered
      <4>3. CASE Store(id, s, p, k)
        <5>1. /\ file' = [file EXCEPT ![p][k] = RecordOf[id]]
              /\ slotData' = Updated(slotData, p, k, RecordOf[id])
          BY <3>3, <4>3 DEF Store
        <5>2. maxPages # 0
          BY <2>0, <3>2 DEF EnabledWhenFilled, TypeOK
        <5>3. q # p => index[q] # index[p]
          BY <2>0, <3>2 DEF Cached
        <5>4. QED
          BY <2>0, <3>1, <3>2, <4>2, <5>1, <5>2, <5>3 DEF Updated, TypeOK
      <4>4. CASE StoreThrows(id, s, p, k)
        BY <3>1, <3>3, <4>2, <4>4 DEF StoreThrows
      <4>5. QED
        BY <2>3, <4>3, <4>4
    <3>4. CASE ~WritesDirectly(s, p, k)
      <4>1. /\ bufPage' = [bufPage EXCEPT ![s] = p]
            /\ file' = FlushedFile(Leaving(s, p))
            /\ \/ slotData' = FlushedCache(Leaving(s, p))
               \/ slotData' = Updated(FlushedCache(Leaving(s, p)), p, k, RecordOf[id])
        BY <2>3, <3>4 DEF Store, StoreThrows
      <4>2. q # p
        BY <2>3, <3>1, <4>1 DEF Buffered, TypeOK
      <4>3. owner'[q] = owner[q] /\ index[q] # index[p]
        BY <2>0, <3>1, <3>2, <4>2 DEF Cached
      <4>4. slotData'[index[q]] = FlushedCache(Leaving(s, p))[index[q]]
        BY <2>0, <3>2, <4>1, <4>3 DEF Updated
      <4>5. CASE Buffered(q)
        <5>1. owner[q] = s /\ bufPage[s] = q
          BY <2>3, <4>1, <4>3, <4>5 DEF Buffered, TypeOK
        <5>2. owner[q] \in Leaving(s, p)
          BY <4>2, <5>1 DEF Leaving
        <5>3. QED
          BY <2>0, <3>1, <3>2, <4>1, <4>4, <4>5, <5>2 DEF FlushedFile, FlushedCache, TypeOK
      <4>6. CASE ~Buffered(q)
        <5>1. slotData[index[q]] = file[q]
          BY <3>2, <4>6 DEF CacheCoherent
        <5>2. QED
          BY <2>0, <3>1, <3>2, <4>1, <4>4, <4>6, <5>1 DEF FlushedFile, FlushedCache
      <4>7. QED
        BY <4>5, <4>6
    <3>5. QED
      BY <3>3, <3>4
  <2>4. ASSUME FlushWrites, NEW q \in Pages, Cached(q)
        PROVE  slotData'[index'[q]] = file'[q]
    <3>1. /\ file' = FlushedFile(Sections) /\ slotData' = FlushedCache(Sections)
          /\ index' = index
      BY <2>4 DEF FlushWrites
    <3>2. Buffered(q) => owner[q] \in Sections
      BY DEF Buffered, TypeOK
    <3>3. QED
      BY <2>0, <2>4, <3>1, <3>2 DEF FlushedFile, FlushedCache, CacheCoherent, TypeOK
  <2>5. ASSUME NEW p \in Pages, BatchLoad(p)
        PROVE  CacheCoherent'
    <3>1. UNCHANGED <<owner, bufPage, file>>
      BY <2>5 DEF BatchLoad, allocVars, bufVars
    <3>2. CASE maxPages # 0 /\ InsertIntoReset(p)
      <4>1. 0 \in 0 .. maxPages - 1
        BY <3>2 DEF TypeOK
      <4>2. QED
        BY <3>1, <3>2, <4>1
        DEF InsertIntoReset, Advance, CacheCoherent, Cached, Buffered, Overlay
    <3>3. CASE maxPages # 0 /\ ~Cached(p) /\ cap = maxPages /\ InsertAtHand(p)
      <4>1. hand \in 0 .. cap - 1
        BY <3>3 DEF TypeOK
      <4>2. ASSUME NEW q \in Pages, Cached(q)', ~Buffered(q)'
            PROVE  slotData'[index'[q]] = file'[q]
        <5>1. ~Buffered(q)
          BY <3>1, <4>2 DEF Buffered
        <5>2. CASE q = p
          BY <3>1, <3>3, <4>1, <5>1, <5>2 DEF InsertAtHand, Reindexed, Advance, Overlay, TypeOK
        <5>3. CASE q # p
          <6>1. index'[q] = index[q] /\ Cached(q) /\ index[q] # hand
            BY <2>0, <3>3, <4>1, <4>2, <5>3 DEF InsertAtHand, Reindexed, Advance, Cached
          <6>2. QED
            BY <2>0, <3>1, <3>3, <4>1, <5>1, <6>1 DEF InsertAtHand, Reindexed, Advance, CacheCoherent, TypeOK
        <5>4. QED
          BY <5>2, <5>3
      <4>3. QED
        BY <4>2 DEF CacheCoherent
    <3>4. CASE UNCHANGED cacheVars
      BY <2>1, <3>1, <3>4 DEF cacheVars
    <3>5. QED
      BY <2>5, <3>2, <3>3, <3>4 DEF BatchLoad, LoadPageToCache
  <2>6. ASSUME NEW id \in Ids, Delete(id) \/ ReadOne(id)
        PROVE  CacheCoherent'
    BY <2>1, <2>6 DEF Delete, ReadOne, bufVars, cacheVars, allocVars
  <2>7. CASE FlushWrites
    BY <2>4, <2>7 DEF CacheCoherent, FlushWrites, Cached
  <2>8. ASSUME NEW m \in CacheSizes, SetMaxCachedPages(m)
        PROVE  CacheCoherent'
    BY <2>1, <2>2, <2>8 DEF SetMaxCachedPages, bufVars, cacheVars, allocVars
  <2>9. ASSUME NEW R \in SUBSET Ids, BatchBegin(R) \/ BatchDecode
        PROVE  CacheCoherent'
    BY <2>1, <2>9 DEF BatchBegin, BatchDecode, bufVars, cacheVars, allocVars
  <2>10. ASSUME NEW id \in Ids, NEW s \in Sections, NEW p \in Pages, NEW k \in Slots,
                Store(id, s, p, k) \/ StoreThrows(id, s, p, k)
         PROVE  CacheCoherent'
    BY <2>3, <2>10 DEF CacheCoherent
  <2>11. CASE Deserialize
    BY <2>2, <2>11 DEF Deserialize
  <2>12. CASE UNCHANGED vars
    BY <2>1, <2>12 DEF vars, allocVars, bufVars, cacheVars
  <2>13. QED
    BY <2>5, <2>6, <2>7, <2>8, <2>9, <2>10, <2>11, <2>12 DEF Next
<1>3. QED
  BY <1>1, <1>2, TypeCorrect, IndexExact, Enabled, PTL DEF Spec

-----------------------------------------------------------------------------
\* No two ids share a slot, and every stored id sits on a page that a section owns.
LEMMA Apart == Spec => []SlotsApart
<1>1. Init => SlotsApart
  BY DEF Init, SlotsApart, Stored
<1>2. TypeOK /\ SlotsApart /\ [Next]_vars => SlotsApart'
  <2> SUFFICES ASSUME TypeOK, SlotsApart, [Next]_vars
               PROVE  SlotsApart'
    OBVIOUS
  <2>1. CASE UNCHANGED allocVars
    BY <2>1 DEF allocVars, SlotsApart, Stored
  <2>2. ASSUME NEW id \in Ids, NEW s \in Sections, NEW p \in Pages, NEW k \in Slots,
               Store(id, s, p, k) \/ StoreThrows(id, s, p, k)
        PROVE  SlotsApart'
    <3>1. Assign(id, s, p, k) /\ Allocates(s, p, k) /\ pageOf[id] = NoPage
      BY <2>2 DEF Store, StoreThrows
    <3>2. ASSUME NEW j \in Stored
          PROVE  /\ j # id
                 /\ ~(pageOf[j] = p /\ slotOf[j] = k)
                 /\ owner'[pageOf[j]] # NoSection
                 /\ slotOf[j] < fill'[pageOf[j]]
                 /\ pageOf'[j] = pageOf[j] /\ slotOf'[j] = slotOf[j]
      BY <3>1, <3>2 DEF Assign, Allocates, Recycled, OpenSlot, FreshPage, SlotsApart, Stored,
                        TypeOK, Slots
    <3>3. /\ pageOf'[id] = p /\ slotOf'[id] = k
          /\ owner'[p] # NoSection /\ k < fill'[p]
          /\ Stored' = Stored \cup {id}
      BY <3>1 DEF Assign, TypeOK, Stored, Slots
    <3>4. QED
      BY <3>2, <3>3 DEF SlotsApart
  <2>3. ASSUME NEW id \in Ids, Delete(id)
        PROVE  SlotsApart'
    <3>1. /\ Stored' \subseteq Stored
          /\ UNCHANGED <<slotOf, owner, fill>>
          /\ \A j \in Stored' : pageOf'[j] = pageOf[j]
      BY <2>3 DEF Delete, Stored, TypeOK
    <3>2. QED
      BY <3>1 DEF SlotsApart
  <2>4. QED
    BY <2>1, <2>2, <2>3
    DEF Next, FlushWrites, SetMaxCachedPages, Deserialize, ReadOne, BatchBegin, BatchLoad,
        BatchDecode, vars
<1>3. QED
  BY <1>1, <1>2, TypeCorrect, PTL DEF Spec

\* The two ways a store writes leave every other id's bytes where and what they were, as long as
\* a buffer is started only on a page that no id occupies.
LEMMA StoreKeepsOthers ==
  ASSUME TypeOK, SlotsApart, ~RecyclesSlotZero,
         NEW id \in Ids, NEW s \in Sections, NEW p \in Pages, NEW k \in Slots,
         Store(id, s, p, k) \/ StoreThrows(id, s, p, k),
         NEW j \in Stored
  PROVE  /\ j # id
         /\ pageOf'[j] = pageOf[j] /\ slotOf'[j] = slotOf[j]
         /\ Visible(j)' = Visible(j)
<1>1. Assign(id, s, p, k) /\ Allocates(s, p, k) /\ pageOf[id] = NoPage
  BY DEF Store, StoreThrows
<1>2. /\ j # id
      /\ pageOf'[j] = pageOf[j] /\ slotOf'[j] = slotOf[j]
      /\ pageOf[j] \in Pages /\ slotOf[j] \in Slots
      /\ ~(pageOf[j] = p /\ slotOf[j] = k)
  BY <1>1 DEF Assign, Allocates, Recycled, OpenSlot, FreshPage, SlotsApart, Stored, TypeOK
<1>3. owner'[pageOf[j]] = owner[pageOf[j]]
  BY <1>1, <1>2
  DEF Assign, Allocates, Recycled, OpenSlot, FreshPage, SlotsApart, Stored, TypeOK
<1>4. pageOf[j] = p => owner[p] = s
  BY <1>1, <1>2 DEF Allocates, Recycled, OpenSlot, FreshPage, SlotsApart, Stored
<1>5. pageOf[j] = p => k # 0
  BY <1>1, <1>2
  DEF Allocates, Recycled, OpenSlot, FreshPage, SlotsApart, Stored, TypeOK, Slots
<1>6. CASE WritesDirectly(s, p, k)
  <2>1. bufPage' = bufPage /\ bufData' = bufData
    BY <1>6 DEF Store, StoreThrows, bufVars
  <2>2. file'[pageOf[j]][slotOf[j]] = file[pageOf[j]][slotOf[j]]
    BY <1>2, <1>6 DEF Store, StoreThrows, TypeOK, PageImages
  <2>3. QED
    BY <1>2, <1>3, <2>1, <2>2 DEF Visible, Overlay, Buffered
<1>7. CASE ~WritesDirectly(s, p, k)
  <2>1. /\ file' = FlushedFile(Leaving(s, p))
        /\ bufPage' = [bufPage EXCEPT ![s] = p]
        /\ \A t \in Sections : t # s => bufData'[t] = bufData[t]
        /\ \A l \in Slots : l # k => bufData'[s][l] = StartedImage(s, p)[l]
    <3>1. StartedImage(s, p) \in PageImages
      BY ImageTypes
    <3>2. QED
      BY <1>7, <3>1 DEF Store, StoreThrows, TypeOK, PageImages
  <2>2. CASE pageOf[j] = p
    \* the buffer already held the page, and only slot k of it changes
    <3>1. bufPage[s] = p /\ owner[p] = s /\ slotOf[j] # k
      BY <1>2, <1>4, <1>5, <1>7, <2>2 DEF WritesDirectly
    <3>2. Buffered(p) /\ owner'[p] = s /\ bufPage'[s] = p
      BY <1>3, <2>1, <2>2, <3>1 DEF Buffered, TypeOK
    <3>3. bufData'[s][slotOf[j]] = bufData[s][slotOf[j]]
      BY <1>2, <2>1, <3>1 DEF StartedImage
    <3>4. QED
      BY <1>2, <2>2, <3>1, <3>2, <3>3 DEF Visible, Overlay, Buffered
  <2>3. CASE pageOf[j] # p
    \* if the buffer leaves j's page, it wrote it to the file first
    <3>1. CASE owner[pageOf[j]] = s
      BY <1>2, <1>3, <2>1, <2>3, <3>1
      DEF Visible, Overlay, Buffered, FlushedFile, Leaving, TypeOK
    <3>2. CASE owner[pageOf[j]] # s
      BY <1>2, <1>3, <2>1, <2>3, <3>2
      DEF Visible, Overlay, Buffered, FlushedFile, Leaving, TypeOK
    <3>3. QED
      BY <3>1, <3>2
  <2>4. QED
    BY <1>2, <2>2, <2>3
<1>8. QED
  BY <1>2, <1>6, <1>7

\* The store that returns leaves its own record readable.
LEMMA StoreIsReadable ==
  ASSUME TypeOK, NEW id \in Ids, NEW s \in Sections, NEW p \in Pages, NEW k \in Slots,
         Store(id, s, p, k)
  PROVE  pageOf'[id] = p /\ Visible(id)' = RecordOf[id]
<1>1. Assign(id, s, p, k) /\ Allocates(s, p, k)
  BY DEF Store
<1>2. pageOf'[id] = p /\ slotOf'[id] = k /\ owner'[p] = s
  BY <1>1 DEF Assign, TypeOK
<1>3. CASE WritesDirectly(s, p, k)
  <2>1. bufPage' = bufPage /\ file'[p][k] = RecordOf[id]
    BY <1>3 DEF Store, TypeOK, PageImages, bufVars
  <2>2. QED
    BY <1>2, <1>3, <2>1 DEF Visible, Overlay, Buffered, WritesDirectly
<1>4. CASE ~WritesDirectly(s, p, k)
  <2>1. StartedImage(s, p) \in PageImages
    BY ImageTypes
  <2>2. bufPage'[s] = p /\ bufData'[s][k] = RecordOf[id]
    BY <1>4, <2>1 DEF Store, TypeOK, PageImages
  <2>3. QED
    BY <1>2, <2>2 DEF Visible, Overlay, Buffered
<1>5. QED
  BY <1>3, <1>4

\* The store that throws leaves some record, possibly a torn one, under its id.
LEMMA ThrownIsRecord ==
  ASSUME TypeOK, NEW id \in Ids, NEW s \in Sections, NEW p \in Pages, NEW k \in Slots,
         StoreThrows(id, s, p, k)
  PROVE  Visible(id)' \in Records
<1>1. Assign(id, s, p, k) /\ Allocates(s, p, k)
  BY DEF StoreThrows
<1>2. pageOf'[id] = p /\ slotOf'[id] = k /\ owner'[p] = s
  BY <1>1 DEF Assign, TypeOK
<1>3. CASE WritesDirectly(s, p, k)
  BY <1>2, <1>3 DEF StoreThrows, TypeOK, PageImages, bufVars, Visible, Overlay, Buffered,
                    WritesDirectly
<1>4. CASE ~WritesDirectly(s, p, k)
  <2>1. StartedImage(s, p) \in PageImages /\ Torn \in Records
    BY ImageTypes DEF Records
  <2>2. bufPage'[s] = p /\ bufData'[s][k] \in Records
    BY <1>4, <2>1 DEF StoreThrows, TypeOK, PageImages
  <2>3. QED
    BY <1>2, <2>2 DEF Visible, Overlay, Buffered
<1>5. QED
  BY <1>3, <1>4

\* Flushing moves the bytes of a page from its buffer to the file and changes nobody's record.
LEMMA FlushKeepsAll ==
  ASSUME TypeOK, FlushWrites, NEW j \in Stored
  PROVE  Visible(j)' = Visible(j)
  BY DEF FlushWrites, TypeOK, Stored, Visible, Overlay, Buffered, FlushedFile, allocVars

\* Every operation other than a store and a flush leaves buffers and file alone.
LEMMA QuietSteps ==
  ASSUME UNCHANGED <<slotOf, owner, file, bufPage, bufData>>,
         NEW j, pageOf'[j] = pageOf[j]
  PROVE  Visible(j)' = Visible(j)
  BY DEF Visible, Overlay, Buffered

\* No step on one id changes what another id reads.
LEMMA StepKeepsOthers ==
  ASSUME TypeOK, SlotsApart, ~RecyclesSlotZero, [Next]_vars,
         NEW j \in Ids, pageOf[j] # NoPage, pageOf'[j] = pageOf[j]
  PROVE  Visible(j)' = Visible(j)
<1>0. j \in Stored
  BY DEF Stored
<1>1. CASE \E id \in Ids, s \in Sections, p \in Pages, k \in Slots :
             Store(id, s, p, k) \/ StoreThrows(id, s, p, k)
  BY <1>0, <1>1, StoreKeepsOthers
<1>2. CASE FlushWrites
  BY <1>0, <1>2, FlushKeepsAll
<1>3. CASE UNCHANGED <<slotOf, owner, file, bufPage, bufData>>
  BY <1>3, QuietSteps
<1>4. QED
  BY <1>1, <1>2, <1>3
  DEF Next, Delete, SetMaxCachedPages, Deserialize, ReadOne, BatchBegin, BatchLoad, BatchDecode,
      vars, allocVars, bufVars

-----------------------------------------------------------------------------
\* Every id whose store returned reads back its record, whatever was stored, deleted or flushed
\* since, provided the allocator never hands out slot 0 of a page in use.
THEOREM ReadYourWrites ==
  ASSUME ~RecyclesSlotZero
  PROVE  Spec => []StoredReadable
<1>1. Init => StoredReadable
  BY DEF Init, StoredReadable, Stored
<1>2. TypeOK /\ SlotsApart /\ StoredReadable /\ [Next]_vars => StoredReadable'
  <2> SUFFICES ASSUME TypeOK, SlotsApart, StoredReadable, [Next]_vars,
                      NEW j \in Ids, pageOf'[j] # NoPage, j \notin threw'
               PROVE  Visible(j)' = RecordOf[j]
    BY DEF StoredReadable, Stored
  <2>1. CASE pageOf[j] # NoPage /\ j \notin threw /\ pageOf'[j] = pageOf[j]
    BY <2>1, StepKeepsOthers DEF StoredReadable, Stored
  <2>2. ASSUME NEW id \in Ids, NEW s \in Sections, NEW p \in Pages, NEW k \in Slots,
               Store(id, s, p, k)
        PROVE  Visible(j)' = RecordOf[j]
    <3>1. CASE j = id
      BY <2>2, <3>1, StoreIsReadable
    <3>2. CASE j # id
      BY <2>1, <2>2, <3>2 DEF Store, Assign, TypeOK
    <3>3. QED
      BY <3>1, <3>2
  <2>3. ASSUME NEW id \in Ids, NEW s \in Sections, NEW p \in Pages, NEW k \in Slots,
               StoreThrows(id, s, p, k)
        PROVE  Visible(j)' = RecordOf[j]
    BY <2>1, <2>3 DEF StoreThrows, Assign, TypeOK
  <2>4. ASSUME NEW id \in Ids, Delete(id)
        PROVE  Visible(j)' = RecordOf[j]
    BY <2>1, <2>4 DEF Delete, TypeOK
  <2>5. CASE UNCHANGED allocVars
    BY <2>1, <2>5 DEF allocVars
  <2>6. QED
    BY <2>2, <2>3, <2>4, <2>5
    DEF Next, FlushWrites, SetMaxCachedPages, Deserialize, ReadOne, BatchBegin, BatchLoad,
        BatchDecode, vars
<1>3. QED
  BY <1>1, <1>2, TypeCorrect, Apart, PTL DEF Spec

\* No operation on one id moves the bytes another id reads, under the same proviso.
THEOREM NobodyClobbered ==
  ASSUME ~RecyclesSlotZero
  PROVE  Spec => OthersUntouched
<1>1. TypeOK /\ SlotsApart /\ [Next]_vars
      => [\A id \in Ids : (pageOf[id] # NoPage /\ pageOf'[id] = pageOf[id])
                          => Visible(id)' = Visible(id)]_vars
  BY StepKeepsOthers
<1>2. QED
  BY <1>1, TypeCorrect, Apart, PTL DEF Spec, OthersUntouched

\* What a batch read has gathered stays right while it runs, and the pages it still has to fetch
\* stay unbuffered: the file and the coherent cache are where their records are.
LEMMA BatchStaysSound ==
  ASSUME NeverToggled
  PROVE  Spec => []BatchSound
<1>1. Init => BatchSound
  BY DEF Init, BatchSound, Idle
<1>2. TypeOK /\ CacheCoherent /\ BatchSound /\ [Next]_vars => BatchSound'
  <2> SUFFICES ASSUME TypeOK, CacheCoherent, BatchSound, [Next]_vars
               PROVE  BatchSound'
    OBVIOUS
  <2>1. CASE misses' = {}
    BY <2>1 DEF BatchSound, Idle
  <2>2. CASE UNCHANGED <<pageOf, slotOf, owner, file, bufPage, bufData, misses, out>>
    BY <2>2 DEF BatchSound, Idle, Stored, Visible, Overlay, Buffered
  <2>3. ASSUME NEW R \in SUBSET Ids, BatchBegin(R)
        PROVE  BatchSound'
    <3>1. /\ UNCHANGED <<pageOf, slotOf, owner, file, bufPage, bufData>>
          /\ R \subseteq Stored
          /\ \A id \in misses' : ~Buffered(pageOf[id])
          /\ out' = [id \in Ids |->
               IF id \notin R \/ id \in misses' THEN Unread
               ELSE IF Buffered(pageOf[id]) THEN Visible(id) ELSE FromCache(id)]
          /\ \A id \in R \ misses' : Buffered(pageOf[id]) \/ Hit(id)
      BY <2>3 DEF BatchBegin, allocVars, bufVars
    <3>2. ASSUME NEW id \in Stored, ~Buffered(pageOf[id]), Hit(id)
          PROVE  FromCache(id) = Visible(id)
      BY <3>2 DEF CacheCoherent, Hit, FromCache, Visible, Overlay, Stored, TypeOK
    <3>3. \A id \in Ids : out'[id] # Unread => id \in Stored /\ out'[id] = Visible(id)
      BY <3>1, <3>2
    <3>4. QED
      BY <3>1, <3>3 DEF BatchSound, Stored, Visible, Overlay, Buffered
  <2>4. ASSUME NEW p \in Pages, BatchLoad(p)
        PROVE  BatchSound'
    BY <2>2, <2>4 DEF BatchLoad, allocVars, bufVars
  <2>5. QED
    BY <2>1, <2>2, <2>3, <2>4
    DEF Next, Store, StoreThrows, Delete, FlushWrites, SetMaxCachedPages, Deserialize, ReadOne,
        BatchDecode, Idle, vars, allocVars, bufVars, readVars
<1>3. QED
  BY <1>1, <1>2, TypeCorrect, Coherent, PTL DEF Spec

\* The storage is a map: every store, delete and read, seen from outside, is the corresponding
\* step of VectorMap, and flushes, resizes, page loads and reopenings are invisible.
THEOREM Refinement ==
  ASSUME ~RecyclesSlotZero, NeverToggled
  PROVE  Spec => ImplementsVectorMap
<1> DEFINE stored == [id \in Ids |-> IF pageOf[id] = NoPage THEN Absent ELSE Visible(id)]
<1>1. Init => VM!Init
  BY DEF Init, VM!Init
<1>2. /\ TypeOK /\ MissesStored /\ SlotsApart /\ CacheCoherent /\ BatchSound
      /\ [Next]_vars
      => [VM!Next]_(VM!mapVars)
  <2> SUFFICES ASSUME TypeOK, MissesStored, SlotsApart, CacheCoherent, BatchSound, [Next]_vars
               PROVE  [VM!Next]_(VM!mapVars)
    OBVIOUS
  <2>0. \A id \in Stored : Visible(id) \in Records
    BY ImageTypes DEF TypeOK, Stored, Visible, Overlay, Buffered, PageImages
  <2>1. ASSUME UNCHANGED <<pageOf, slotOf, owner, file, bufPage, bufData, threw>>,
               out' \in [Ids -> Records \cup {Unread}],
               \A id \in Ids : out'[id] # Unread => id \in Stored /\ out'[id] = Visible(id)
        PROVE  VM!Read
    <3>1. stored' = stored
      BY <2>1 DEF Visible, Overlay, Buffered
    <3>2. \A id \in Ids : out'[id] \in {Unread, stored[id]}
      BY <2>1 DEF Stored
    <3>3. QED
      BY <2>1, <3>1, <3>2 DEF VM!Read
  <2>2. ASSUME NEW id \in Ids, NEW s \in Sections, NEW p \in Pages, NEW k \in Slots,
               Store(id, s, p, k)
        PROVE  VM!Put(id)
    <3>1. pageOf[id] = NoPage /\ UNCHANGED <<threw, out>>
      BY <2>2 DEF Store, readVars
    <3>2. pageOf'[id] = p /\ Visible(id)' = RecordOf[id]
      BY <2>2, StoreIsReadable
    <3>3. ASSUME NEW j \in Ids, j # id
          PROVE  stored'[j] = stored[j]
      BY <2>2, <3>3, StepKeepsOthers DEF Store, Assign, TypeOK
    <3>4. stored' = [stored EXCEPT ![id] = RecordOf[id]]
      BY <3>2, <3>3
    <3>5. QED
      BY <3>1, <3>4 DEF VM!Put
  <2>3. ASSUME NEW id \in Ids, NEW s \in Sections, NEW p \in Pages, NEW k \in Slots,
               StoreThrows(id, s, p, k)
        PROVE  VM!PutThrows(id)
    <3>1. pageOf[id] = NoPage /\ threw' = threw \cup {id} /\ out' = out /\ pageOf'[id] = p
      BY <2>3 DEF StoreThrows, Assign, TypeOK, readVars
    <3>2. Visible(id)' \in Records
      BY <2>3, ThrownIsRecord
    <3>3. ASSUME NEW j \in Ids, j # id
          PROVE  stored'[j] = stored[j]
      BY <2>3, <3>3, StepKeepsOthers DEF StoreThrows, Assign, TypeOK
    <3>4. stored' = [stored EXCEPT ![id] = Visible(id)']
      BY <3>1, <3>3
    <3>5. QED
      BY <3>1, <3>2, <3>4 DEF VM!PutThrows
  <2>4. ASSUME NEW id \in Ids, Delete(id)
        PROVE  VM!Remove(id)
    <3>1. /\ pageOf[id] # NoPage /\ pageOf' = [pageOf EXCEPT ![id] = NoPage]
          /\ threw' = threw \ {id} /\ out' = out
      BY <2>4 DEF Delete, readVars
    <3>2. stored[id] # Absent
      BY <2>0, <3>1 DEF Stored
    <3>3. ASSUME NEW j \in Ids, j # id
          PROVE  stored'[j] = stored[j]
      BY <3>1, <3>3, StepKeepsOthers DEF TypeOK
    <3>4. stored' = [stored EXCEPT ![id] = Absent]
      BY <3>1, <3>3 DEF TypeOK
    <3>5. QED
      BY <3>1, <3>2, <3>4 DEF VM!Remove
  <2>5. ASSUME UNCHANGED <<pageOf, threw, out>>
        PROVE  UNCHANGED VM!mapVars
    <3>1. \A j \in Ids : stored'[j] = stored[j]
      BY <2>5, StepKeepsOthers
    <3>2. QED
      BY <2>5, <3>1 DEF VM!mapVars
  <2>6. ASSUME NEW id \in Stored, ~Buffered(pageOf[id])
        PROVE  /\ FromFile(id) = Visible(id)
               /\ Cached(pageOf[id]) => FromCache(id) = Visible(id)
    BY <2>6 DEF CacheCoherent, FromFile, FromCache, Visible, Overlay, Stored, TypeOK
  <2>7. ASSUME NEW id \in Ids, ReadOne(id)
        PROVE  VM!Read
    <3>1. \A j \in Ids : out'[j] # Unread => j \in Stored /\ out'[j] = Visible(j)
      BY <2>6, <2>7 DEF ReadOne, Hit
    <3>2. out' \in [Ids -> Records \cup {Unread}]
      BY <2>0, <2>7, <3>1 DEF ReadOne
    <3>3. QED
      BY <2>1, <2>7, <3>1, <3>2 DEF ReadOne, allocVars, bufVars
  <2>8. ASSUME NEW R \in SUBSET Ids, BatchBegin(R)
        PROVE  VM!Read
    <3>1. \A j \in Ids : out'[j] # Unread => j \in Stored /\ out'[j] = Visible(j)
      BY <2>6, <2>8 DEF BatchBegin, Hit
    <3>2. out' \in [Ids -> Records \cup {Unread}]
      BY <2>0, <2>8, <3>1 DEF BatchBegin
    <3>3. QED
      BY <2>1, <2>8, <3>1, <3>2 DEF BatchBegin, allocVars, bufVars
  <2>9. CASE BatchDecode
    <3>1. \A j \in Ids : out'[j] # Unread => j \in Stored /\ out'[j] = Visible(j)
      BY <2>6, <2>9 DEF BatchDecode, BatchSound, MissesStored
    <3>2. out' \in [Ids -> Records \cup {Unread}]
      BY <2>0, <2>9, <3>1 DEF BatchDecode
    <3>3. QED
      BY <2>1, <2>9, <3>1, <3>2 DEF BatchDecode, allocVars, bufVars, VM!Next
  <2>10. QED
    BY <2>2, <2>3, <2>4, <2>5, <2>7, <2>8, <2>9
    DEF Next, FlushWrites, SetMaxCachedPages, Deserialize, BatchLoad, vars, allocVars, readVars,
        VM!Next
<1>3. QED
  BY <1>1, <1>2, TypeCorrect, Apart, Coherent, BatchStaysSound, PTL
  DEF Spec, ImplementsVectorMap, VM!Spec

-----------------------------------------------------------------------------
\* The hand fills the arena from slot 0 up, and from then on it is full: no slot is ever freed
\* but by a reset (FlatPageCache::insert, reset).
FilledInOrder == Residents = 0 .. cap - 1 \/ Residents = 0 .. hand - 1

\* The residue of a number below twice the modulus.
LEMMA OneRound ==
  ASSUME NEW c \in Nat \ {0}, NEW a \in 0 .. c + c - 1
  PROVE  (a < c => a % c = a) /\ (c <= a => a % c = a - c)
<1>1. CASE a < c
  BY <1>1
<1>2. CASE c <= a
  <2>1. a = 1 * c + (a - c) /\ a - c \in 0 .. c - 1
    BY <1>2
  <2>2. QED
    BY <1>2, <2>1
<1>3. QED
  BY <1>1, <1>2

\* The queue while the arena fills: the pages before the hand, in the order of their slots.
QueueFilling == ResidentQueue = [i \in 1 .. hand |-> slotPage[i - 1]]
LEMMA Filling == TypeOK /\ Residents = 0 .. hand - 1 /\ cap # 0 => QueueFilling
<1> SUFFICES ASSUME TypeOK, Residents = 0 .. hand - 1, cap # 0
             PROVE  QueueFilling
  OBVIOUS
<1>1. hand \in 0 .. cap - 1 /\ cap \in Nat \ {0} /\ hand \in Nat
  BY DEF TypeOK
<1>2. hand \notin Residents
  BY <1>1
<1>3. slotPage[hand] = NoPage
  BY <1>1, <1>2 DEF Residents
<1>4. Cardinality(Residents) = hand
  BY <1>1, FS_Interval
<1>5. ASSUME NEW i \in 1 .. hand
      PROVE  (0 + i - 1) % cap = i - 1
  <2>1. PICK a \in 0 .. cap + cap - 1 : a = i - 1 /\ a = 0 + i - 1 /\ a < cap
    BY <1>1
  <2>2. a % cap = a
    BY <1>1, <2>1, OneRound
  <2>3. QED
    BY <2>1, <2>2
<1>6. Oldest = 0
  BY <1>3 DEF Oldest
<1>7. ResidentQueue = [i \in 1 .. hand |-> slotPage[(0 + i - 1) % cap]]
  BY <1>4, <1>6 DEF ResidentQueue
<1>8. QED
  BY <1>1, <1>5, <1>7 DEF QueueFilling

\* The queue of a full arena starts at the hand and goes round once.
QueueGone ==
  ResidentQueue =
    [i \in 1 .. cap |-> slotPage[IF hand + i <= cap THEN hand + i - 1 ELSE hand + i - 1 - cap]]
LEMMA GoneRound == TypeOK /\ Residents = 0 .. cap - 1 /\ cap # 0 => QueueGone
<1> SUFFICES ASSUME TypeOK, Residents = 0 .. cap - 1, cap # 0
             PROVE  QueueGone
  OBVIOUS
<1>1. hand \in 0 .. cap - 1 /\ cap \in Nat \ {0} /\ hand \in Nat
  BY DEF TypeOK
<1>2. slotPage[hand] # NoPage
  BY <1>1 DEF Residents
<1>3. Cardinality(Residents) = cap
  BY <1>1, FS_Interval
<1>4. ASSUME NEW i \in 1 .. cap
      PROVE  (hand + i - 1) % cap = IF hand + i <= cap THEN hand + i - 1 ELSE hand + i - 1 - cap
  <2>1. PICK a \in 0 .. cap + cap - 1 : a = hand + i - 1
    BY <1>1
  <2>2. (a < cap => a % cap = a) /\ (cap <= a => a % cap = a - cap)
    BY <1>1, OneRound
  <2>3. a < cap <=> hand + i <= cap
    BY <1>1, <2>1
  <2>4. QED
    BY <1>1, <2>1, <2>2, <2>3
<1>5. QED
  BY <1>2, <1>3, <1>4 DEF ResidentQueue, Oldest, QueueGone

\* A cache just reset holds nothing.
LEMMA ResetEmpties ==
  ASSUME NEW c \in CacheSizes, CacheReset(c)
  PROVE  /\ Residents' = {} /\ FilledInOrder'
         /\ ResidentQueue' = <<>>
<1>1. Residents' = {}
  BY DEF CacheReset, Residents
<1>2. hand' = 0 /\ {} = 0 .. 0 - 1
  BY DEF CacheReset
<1>3. ResidentQueue' = <<>>
  BY <1>1, FS_EmptySet DEF ResidentQueue
<1>4. QED
  BY <1>1, <1>2, <1>3 DEF FilledInOrder

\* The first insertion sizes the cache and puts the page in slot 0.
LEMMA InsertIntoResetStep ==
  ASSUME TypeOK, TypeOK', NEW p \in Pages, maxPages # 0, InsertIntoReset(p)
  PROVE  FilledInOrder' /\ ResidentQueue' = <<p>> /\ cap' = maxPages
<1>1. maxPages \in Nat \ {0} /\ cap' = maxPages
  BY DEF TypeOK, InsertIntoReset
<1>2. Residents' = {0} /\ slotPage'[0] = p
  BY <1>1 DEF InsertIntoReset, Residents
<1>3. hand' = IF maxPages = 1 THEN 0 ELSE 1
  <2>1. 0 + 1 \in 0 .. maxPages + maxPages - 1
    BY <1>1
  <2>2. hand' = (0 + 1) % maxPages
    BY DEF InsertIntoReset, Advance
  <2>3. QED
    BY <1>1, <2>1, <2>2, OneRound
<1>4. Residents' = 0 .. 0
  BY <1>2
<1>5. FilledInOrder'
  BY <1>1, <1>3, <1>4 DEF FilledInOrder
<1>6. Cardinality(Residents') = 1
  BY <1>2, FS_Singleton
<1>7. Oldest' = 0
  BY <1>1, <1>2, <1>3 DEF Oldest, InsertIntoReset
<1>8. (0 + 1 - 1) % cap' = 0
  BY <1>1, OneRound
<1>9. ResidentQueue' = [i \in 1 .. 1 |-> slotPage'[(0 + i - 1) % cap']]
  BY <1>6, <1>7 DEF ResidentQueue
<1>10. ResidentQueue' = [i \in 1 .. 1 |-> p]
  BY <1>2, <1>8, <1>9
<1>11. QED
  BY <1>1, <1>5, <1>10

\* An insertion at the hand adds the page behind the others, and drops the oldest of a full arena.
LEMMA InsertAtHandStep ==
  ASSUME TypeOK, TypeOK', FilledInOrder, CacheIndexExact, NEW p \in Pages, cap # 0,
         ~Cached(p), InsertAtHand(p)
  PROVE  FilledInOrder' /\ Fifo!Enter(p)
<1>1. hand \in 0 .. cap - 1 /\ cap \in Nat \ {0} /\ hand \in Nat
  BY DEF TypeOK
<1>2. /\ slotPage' = [slotPage EXCEPT ![hand] = p] /\ cap' = cap
      /\ slotPage \in [0 .. cap - 1 -> Pages \cup {NoPage}]
      /\ p # NoPage
  BY DEF InsertAtHand, TypeOK
<1>3. Residents' = Residents \cup {hand}
  BY <1>1, <1>2 DEF Residents
<1>4. /\ hand + 1 < cap => hand' = hand + 1
      /\ hand + 1 = cap => hand' = 0
  <2>1. hand' = (hand + 1) % cap
    BY DEF InsertAtHand, Advance
  <2>2. hand + 1 \in 0 .. cap + cap - 1
    BY <1>1
  <2>3. QED
    BY <1>1, <2>1, <2>2, OneRound
<1>5. \A x \in 0 .. cap - 1 : slotPage[x] # p
  BY <1>2 DEF CacheIndexExact, Cached, NoSlot, TypeOK
<1>6. CASE Residents = 0 .. cap - 1
  <2>1. Residents' = 0 .. cap' - 1
    BY <1>1, <1>2, <1>3, <1>6
  <2>2. ResidentQueue = [i \in 1 .. cap |->
                           slotPage[IF hand + i <= cap THEN hand + i - 1 ELSE hand + i - 1 - cap]]
    BY <1>1, <1>6, GoneRound DEF QueueGone
  <2>3. ResidentQueue' =
          [i \in 1 .. cap |->
             slotPage'[IF hand' + i <= cap THEN hand' + i - 1 ELSE hand' + i - 1 - cap]]
    <3>1. (TypeOK /\ Residents = 0 .. cap - 1 /\ cap # 0)'
      BY <1>1, <1>2, <2>1
    <3>2. QueueGone'
      BY <3>1, GoneRound, PTL
    <3>3. QED
      BY <1>2, <3>2 DEF QueueGone
  <2>4. Len(ResidentQueue) = cap /\ ResidentQueue \in Seq(Pages \cup {NoPage})
    BY <1>1, <1>2, <2>2
  <2>5. \A i \in 1 .. Len(ResidentQueue) : ResidentQueue[i] # p
    BY <1>1, <1>5, <2>2, <2>4
  <2>6. ResidentQueue' = Append(Tail(ResidentQueue), p)
    <3>1. ASSUME NEW i \in 1 .. cap
          PROVE  ResidentQueue'[i] = IF i = cap THEN p ELSE ResidentQueue[i + 1]
      <4>1. CASE hand + 1 < cap
        <5>1. hand' = hand + 1 /\ ResidentQueue'[i] =
                slotPage'[IF hand + 1 + i <= cap THEN hand + i ELSE hand + i - cap]
          BY <1>1, <1>4, <2>3, <4>1
        <5>2. CASE i = cap
          BY <1>1, <1>2, <5>1, <5>2
        <5>3. CASE i # cap
          <6>1. ResidentQueue[i + 1] =
                  slotPage[IF hand + 1 + i <= cap THEN hand + i ELSE hand + i - cap]
            BY <1>1, <2>2, <5>3
          <6>2. QED
            BY <1>1, <1>2, <5>1, <5>3, <6>1
        <5>4. QED
          BY <5>2, <5>3
      <4>2. CASE hand + 1 = cap
        BY <1>1, <1>2, <1>4, <2>2, <2>3, <4>2
      <4>3. QED
        BY <1>1, <4>1, <4>2
    <3>2. PICK q \in Seq(Pages \cup {NoPage}) : q = ResidentQueue
      BY <2>4
    <3>3. PICK t \in Seq(Pages \cup {NoPage}) : t = ResidentQueue' /\ Len(t) = cap
      <4>1. hand' \in 0 .. cap - 1 /\ slotPage' \in [0 .. cap - 1 -> Pages \cup {NoPage}]
        BY <1>1, <1>2, <1>4
      <4>2. ResidentQueue' \in [1 .. cap -> Pages \cup {NoPage}]
        BY <1>1, <2>3, <4>1
      <4>3. QED
        BY <1>1, <4>2
    <3>4. Len(q) = cap
      BY <2>4, <3>2
    <3>5. Tail(q) \in Seq(Pages \cup {NoPage}) /\ Len(Tail(q)) = cap - 1
      BY <1>1, <3>2, <3>4
    <3>6. \A i \in 1 .. cap - 1 : Tail(q)[i] = q[i + 1]
      BY <1>1, <3>2, <3>4
    <3>7. PICK r \in Seq(Pages \cup {NoPage}) :
            /\ r = Append(Tail(q), p) /\ Len(r) = cap
            /\ \A i \in 1 .. cap : r[i] = IF i = cap THEN p ELSE q[i + 1]
      <4>1. Len(Append(Tail(q), p)) = cap /\ Append(Tail(q), p) \in Seq(Pages \cup {NoPage})
        BY <1>1, <3>5
      <4>2. \A i \in 1 .. cap : Append(Tail(q), p)[i] = IF i = cap THEN p ELSE q[i + 1]
        BY <1>1, <3>5, <3>6
      <4>3. QED
        BY <4>1, <4>2
    <3>8. \A i \in 1 .. cap : t[i] = r[i]
      BY <1>1, <3>1, <3>2, <3>3, <3>7
    <3>9. t = r
      BY <1>1, <3>3, <3>7, <3>8, SeqEqual
    <3>10. QED
      BY <3>2, <3>3, <3>7, <3>9
  <2>7. QED
    BY <1>1, <1>2, <2>1, <2>4, <2>5, <2>6 DEF FilledInOrder, Fifo!Enter
<1>7. CASE Residents = 0 .. hand - 1
  <2>1. Residents' = 0 .. hand
    BY <1>1, <1>3, <1>7
  <2>2. ResidentQueue = [i \in 1 .. hand |-> slotPage[i - 1]]
    BY <1>1, <1>7, Filling DEF QueueFilling
  <2>3. FilledInOrder'
    BY <1>1, <1>2, <1>4, <2>1 DEF FilledInOrder
  <2>4. ResidentQueue' = [i \in 1 .. hand + 1 |-> slotPage'[i - 1]]
    <3>1. CASE hand + 1 < cap
      <4>1. (TypeOK /\ Residents = 0 .. hand - 1 /\ cap # 0)'
        BY <1>1, <1>2, <1>4, <2>1, <3>1
      <4>2. QueueFilling'
        BY <4>1, Filling, PTL
      <4>3. QED
        BY <1>4, <3>1, <4>2 DEF QueueFilling
    <3>2. CASE hand + 1 = cap
      <4>1. (TypeOK /\ Residents = 0 .. cap - 1 /\ cap # 0)'
        BY <1>1, <1>2, <2>1, <3>2
      <4>2. QueueGone'
        BY <4>1, GoneRound, PTL
      <4>3. QED
        BY <1>1, <1>2, <1>4, <3>2, <4>2 DEF QueueGone
    <3>3. QED
      BY <1>1, <3>1, <3>2
  <2>5. Len(ResidentQueue) = hand /\ ResidentQueue \in Seq(Pages \cup {NoPage})
    BY <1>1, <1>2, <2>2
  <2>6. \A i \in 1 .. Len(ResidentQueue) : ResidentQueue[i] # p
    BY <1>1, <1>5, <2>2, <2>5
  <2>7. ResidentQueue' = Append(ResidentQueue, p)
    BY <1>1, <1>2, <2>2, <2>4, <2>5
  <2>8. QED
    BY <1>1, <1>2, <2>3, <2>5, <2>6, <2>7 DEF Fifo!Enter
<1>8. QED
  BY <1>6, <1>7 DEF FilledInOrder

\* FlatPageCache evicts what the queue it replaces evicts, whatever the capacity and however the
\* limit is changed (FlatPageCache::insert, reset).
THEOREM EvictsOldest == Spec => ImplementsFifoPages
<1>1. Init => FilledInOrder /\ Fifo!Init
  <2> SUFFICES ASSUME Init
               PROVE  FilledInOrder /\ Fifo!Init
    OBVIOUS
  <2>1. Residents = {} /\ hand = 0 /\ cap = 0
    BY DEF Init, Residents
  <2>2. ResidentQueue = <<>>
    BY <2>1, FS_EmptySet DEF ResidentQueue
  <2>3. QED
    BY <2>1, <2>2 DEF FilledInOrder, Fifo!Init
<1>2. TypeOK /\ TypeOK' /\ CacheIndexExact /\ FilledInOrder /\ [Next]_vars
      => FilledInOrder' /\ [Fifo!Next]_(Fifo!fifoVars)
  <2> SUFFICES ASSUME TypeOK, TypeOK', CacheIndexExact, FilledInOrder, [Next]_vars
               PROVE  FilledInOrder' /\ [Fifo!Next]_(Fifo!fifoVars)
    OBVIOUS
  <2>1. CASE UNCHANGED <<slotPage, hand, cap>>
    BY <2>1 DEF FilledInOrder, Residents, ResidentQueue, Oldest, Fifo!fifoVars
  <2>2. ASSUME NEW c \in CacheSizes, CacheReset(c)
        PROVE  FilledInOrder' /\ Fifo!Next
    <3>1. cap' = c /\ c \in CacheSizes \cup {0}
      BY <2>2 DEF CacheReset
    <3>2. Fifo!Resize(c)
      BY <2>2, <3>1, ResetEmpties DEF Fifo!Resize
    <3>3. QED
      BY <2>2, <3>1, <3>2, ResetEmpties DEF Fifo!Next
  <2>3. ASSUME NEW p \in Pages, BatchLoad(p)
        PROVE  FilledInOrder' /\ [Fifo!Next]_(Fifo!fifoVars)
    <3>1. CASE maxPages # 0 /\ cap # maxPages /\ InsertIntoReset(p)
      <4>1. maxPages \in CacheSizes \cup {0}
        BY DEF TypeOK
      <4>2. FilledInOrder' /\ Fifo!ResizeAndEnter(maxPages, p)
        BY <3>1, InsertIntoResetStep DEF Fifo!ResizeAndEnter
      <4>3. QED
        BY <4>1, <4>2 DEF Fifo!Next
    <3>2. CASE maxPages # 0 /\ ~Cached(p) /\ cap = maxPages /\ InsertAtHand(p)
      <4>1. FilledInOrder' /\ Fifo!Enter(p)
        BY <3>2, InsertAtHandStep
      <4>2. QED
        BY <4>1 DEF Fifo!Next
    <3>3. QED
      BY <2>1, <2>3, <3>1, <3>2 DEF BatchLoad, LoadPageToCache, cacheVars
  <2>4. QED
    BY <2>1, <2>2, <2>3
    DEF Next, Store, StoreThrows, Delete, FlushWrites, SetMaxCachedPages, Deserialize, ReadOne,
        BatchBegin, BatchDecode, vars, cacheVars, TypeOK
<1>3. QED
  BY <1>1, <1>2, TypeCorrect, IndexExact, PTL DEF Spec, ImplementsFifoPages, Fifo!Spec
=============================================================================
