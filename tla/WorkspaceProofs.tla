-------------------------- MODULE WorkspaceProofs --------------------------
(***************************************************************************)
(* Proofs about Workspace, for every set of ids, pages, authors and        *)
(* values: its types, the reach of the Lamport counter, the freshness of   *)
(* the digest cache, what may wait to be sent, what a step may do to a     *)
(* record, that a version identifies a content, and that the store         *)
(* implements LwwStore.                                                    *)
(***************************************************************************)
EXTENDS Workspace, TLAPS

-----------------------------------------------------------------------------
(* The record algebra. *)

IsBatch(b) == DOMAIN b \subseteq Ids /\ \A i \in DOMAIN b : b[i] \in Record

\* Records and Absent have a counter, and only Absent's is zero.
LEMMA CounterOf ==
    ASSUME NEW r \in Record \cup {Absent}
    PROVE  r.c \in Nat /\ (r.c = 0 <=> r = Absent) /\ (r # Absent <=> r \in Record)
BY DEF Record, Absent

\* A record that a batch offers is a record of the store or replaces an older one.
LEMMA MergedFacts ==
    ASSUME NEW store \in Stores, NEW b, IsBatch(b)
    PROVE  /\ Merged(store, b) \in Stores
           /\ \A i \in Ids :
                \/ Merged(store, b)[i] = store[i] /\ i \notin Applied(store, b)
                \/ /\ i \in DOMAIN b
                   /\ i \in Applied(store, b)
                   /\ Merged(store, b)[i] = b[i]
                   /\ b[i] \in Record
                   /\ Newer(b[i], store[i])
BY DEF IsBatch, Stores, Merged, Applied

\* Newer is irreflexive and transitive on what a store can hold.
LEMMA NewerTransitive ==
    ASSUME NEW r \in Record \cup {Absent}, NEW s \in Record \cup {Absent},
           NEW t \in Record \cup {Absent},
           Newer(r, s), ~Newer(t, s)
    PROVE  ~Newer(t, r)
<1>1. r.c \in Nat /\ s.c \in Nat /\ t.c \in Nat
  BY CounterOf
<1>2. CASE r \in Record /\ s \in Record /\ t \in Record
  <2>1. r.client \in Nat /\ s.client \in Nat /\ t.client \in Nat
    BY <1>2, AuthorsAssumption DEF Record
  <2>. QED  BY <1>1, <2>1 DEF Newer
<1>3. CASE r = Absent
  BY <1>1, <1>3, CounterOf DEF Newer
<1>4. CASE r \in Record /\ s = Absent
  BY <1>1, <1>4, CounterOf DEF Newer
<1>5. CASE r \in Record /\ s \in Record /\ t = Absent
  BY <1>1, <1>5, CounterOf DEF Newer
<1>. QED  BY <1>2, <1>3, <1>4, <1>5

\* What a batch assembled from shared records holds.
LEMMA SharedBatch ==
    ASSUME shared \subseteq Entries, NEW b \in BatchesOf(shared)
    PROVE  /\ IsBatch(b)
           /\ \A i \in DOMAIN b : <<i, b[i]>> \in shared
<1>1. PICK S \in SUBSET IdsOf(shared) : b \in [S -> {e[2] : e \in shared}]
  BY DEF BatchesOf
<1>2. \A i \in DOMAIN b : <<i, b[i]>> \in shared
  BY DEF BatchesOf
<1>3. DOMAIN b \subseteq Ids
  BY <1>1 DEF IdsOf, Entries
<1>4. \A i \in DOMAIN b : b[i] \in Record
  BY <1>1 DEF Entries
<1>. QED  BY <1>2, <1>3, <1>4 DEF IsBatch

\* A digest is a set of tuples of the right type, and a page has one if known.
LEMMA DigestType ==
    ASSUME NEW store \in Stores, NEW p
    PROVE  Digest(store, p) \subseteq Ids \X Nat \X Authors \X BOOLEAN
<1>. SUFFICES ASSUME NEW i \in Ids, Holds(store, i)
     PROVE  <<i, store[i].c, store[i].client, store[i].deleted>>
              \in Ids \X Nat \X Authors \X BOOLEAN
  BY DEF Digest, PageIds, Held
<1>1. store[i] \in Record
  BY DEF Holds, Stores
<1>. QED  BY <1>1 DEF Record

LEMMA DigestsType ==
    ASSUME NEW store \in Stores
    PROVE  IsTable(Digests(store))
<1>1. KnownPages(store) \subseteq Pages
  BY PageOfAssumption DEF KnownPages, Held
<1>. QED  BY <1>1, DigestType DEF Digests, IsTable

-----------------------------------------------------------------------------
(* What each step does to the records. *)

\* The record a local write stamps.
Stamped(deleted, value) ==
    [c |-> counter + 1, client |-> Self, deleted |-> deleted, value |-> value]

\* A local write replaces the record whatever was there, as the counter is
\* ahead of everything held.
LEMMA UpsertFacts ==
    ASSUME TypeOK, CounterCovers, open,
           NEW i \in Ids, NEW deleted \in BOOLEAN, NEW value \in Values,
           Upsert(i, deleted, value)
    PROVE  /\ Stamped(deleted, value) \in Record
           /\ records' = [records EXCEPT ![i] = Stamped(deleted, value)]
           /\ counter' = counter + 1
           /\ pending' = pending \cup {PageOf[i]}
<1>. DEFINE r == Stamped(deleted, value)
            b == [j \in {i} |-> r]
<1>1. r \in Record
  BY SelfAssumption DEF TypeOK, Record, Stamped
<1>2. r.c > records[i].c
  <2>1. records[i].c \in Nat
    BY CounterOf DEF TypeOK, Stores
  <2>2. r.c = counter + 1
    BY DEF Stamped
  <2>. QED  BY <2>1, <2>2 DEF TypeOK, CounterCovers
<1>3. Applied(records, b) = {i}
  BY <1>2 DEF Applied, Newer
<1>4. Merged(records, b) = [records EXCEPT ![i] = r]
  BY <1>3 DEF Merged, TypeOK, Stores
<1>. QED  BY <1>1, <1>4 DEF Upsert, Stamped

\* Merging shared records keeps the store's type and raises the counter to
\* cover the batch.
LEMMA MergeFacts ==
    ASSUME TypeOK, NEW b \in BatchesOf(shared), Merge(b)
    PROVE  /\ records' \in Stores
           /\ counter' \in Nat /\ counter' >= counter
           /\ \A i \in DOMAIN b : counter' >= b[i].c
           /\ \A i \in Ids :
                \/ records'[i] = records[i] /\ i \notin Applied(records, b)
                \/ /\ i \in DOMAIN b
                   /\ i \in Applied(records, b)
                   /\ records'[i] = b[i]
                   /\ b[i] \in Record
                   /\ <<i, b[i]>> \in shared
                   /\ Newer(b[i], records[i])
<1>1. IsBatch(b) /\ \A i \in DOMAIN b : <<i, b[i]>> \in shared
  BY SharedBatch DEF TypeOK
<1>2. records \in Stores /\ counter \in Nat
  BY DEF TypeOK
<1>3. records' = Merged(records, b)
  BY DEF Merge
<1>4. PICK m \in {counter} \cup BatchCounters(b) :
         IsGreatest(m, {counter} \cup BatchCounters(b)) /\ counter' = m
  BY DEF Merge
<1>5. \A i \in DOMAIN b : b[i].c \in Nat /\ b[i].c \in BatchCounters(b)
  BY <1>1, CounterOf DEF IsBatch, BatchCounters
<1>6. counter' \in Nat
  BY <1>2, <1>4, <1>5 DEF BatchCounters
<1>7. counter' >= counter /\ \A i \in DOMAIN b : counter' >= b[i].c
  BY <1>4, <1>5 DEF IsGreatest
<1>. QED  BY <1>1, <1>2, <1>3, <1>6, <1>7, MergedFacts

\* open() resumes the counter from the greatest version held.
LEMMA RestoreFacts ==
    ASSUME TypeOK, RestoreCounter
    PROVE  counter' \in Nat /\ \A i \in Ids : counter' >= records[i].c
<1>1. \A i \in Ids : records[i].c \in Nat
  BY CounterOf DEF TypeOK, Stores
<1>2. PICK m \in {0} \cup StoreCounters(records) :
         IsGreatest(m, {0} \cup StoreCounters(records)) /\ counter' = m
  BY DEF RestoreCounter
<1>. QED  BY <1>1, <1>2 DEF IsGreatest, StoreCounters

\* Purging a page keeps every other record.
LEMMA PurgeFacts ==
    ASSUME TypeOK, NEW p \in Pages, PurgePage(p)
    PROVE  /\ records' \in Stores
           /\ \A i \in Ids :
                \/ PageOf[i] = p /\ records'[i] = Absent
                \/ PageOf[i] # p /\ records'[i] = records[i]
<1>1. records \in Stores
  BY DEF TypeOK
<1>2. records' = [i \in Ids |-> IF PageOf[i] = p THEN Absent ELSE records[i]]
  BY DEF PurgePage, PurgeRecords
<1>3. \A i \in Ids :
         \/ PageOf[i] = p /\ records'[i] = Absent
         \/ PageOf[i] # p /\ records'[i] = records[i]
  BY <1>2
<1>4. \A i \in Ids : records'[i] \in Record \cup {Absent}
  BY <1>1, <1>3 DEF Stores
<1>5. records' \in Stores
  BY <1>2, <1>4 DEF Stores
<1>. QED  BY <1>3, <1>5

-----------------------------------------------------------------------------
(* Types. *)

LEMMA FlushedType ==
    ASSUME TypeOK
    PROVE  IsTable(Flushed)
BY DigestType DEF TypeOK, IsTable, Flushed

LEMMA SharedPairs ==
    ASSUME TypeOK, NEW S \in SUBSET Held(records)
    PROVE  {<<i, records[i]>> : i \in S} \subseteq Entries
BY DEF TypeOK, Stores, Entries, Held, Holds

\* The types need the counter's reach: what a local write stores is the record
\* it stamped only because the upsert accepts it.
LEMMA TypeStep ==
    ASSUME TypeOK, CounterCovers, [Next]_vars
    PROVE  TypeOK'
<1>. USE DEF TypeOK
<1>0. IsTable(NoDigests)
  BY DEF IsTable, NoDigests
<1>1. ASSUME NEW i \in Ids, NEW deleted \in BOOLEAN, NEW value \in Values,
             WriteLocal(i, deleted, value)
      PROVE  TypeOK'
  <2>1. Upsert(i, deleted, value) /\ open
    BY <1>1 DEF WriteLocal
  <2>2. records' \in Stores
    BY <2>1, UpsertFacts DEF Stores
  <2>3. counter' \in Nat /\ pending' \subseteq Pages
    BY <2>1, UpsertFacts, PageOfAssumption
  <2>. QED  BY <1>0, <1>1, <2>2, <2>3 DEF WriteLocal
<1>2. ASSUME NEW i \in Ids, NEW value \in Values, WriteLocalQuiet(i, value)
      PROVE  TypeOK'
  <2>1. Upsert(i, FALSE, value) /\ open
    BY <1>2 DEF WriteLocalQuiet
  <2>2. records' \in Stores
    BY <2>1, UpsertFacts DEF Stores
  <2>3. counter' = counter + 1 /\ pending' = pending \cup {PageOf[i]}
    BY <2>1 DEF Upsert
  <2>. QED  BY <1>0, <1>2, <2>2, <2>3, PageOfAssumption DEF WriteLocalQuiet
<1>3. ASSUME NEW p \in Pages, MarkPageDirty(p) PROVE TypeOK'
  BY <1>0, <1>3 DEF MarkPageDirty, PageIds, Held
<1>4. ASSUME NEW p \in Pages, PurgePage(p) PROVE TypeOK'
  <2>1. records' \in Stores
    BY <1>4, PurgeFacts
  <2>2. IsTable(table')
    BY <1>4 DEF PurgePage, PurgeRecords, IsTable
  <2>. QED  BY <1>0, <1>4, <2>1, <2>2 DEF PurgePage, PurgeRecords
<1>5. ASSUME NEW b \in BatchesOf(shared), Merge(b) PROVE TypeOK'
  <2>1. records' \in Stores /\ counter' \in Nat
    BY <1>5, MergeFacts
  <2>2. pending' \subseteq Pages
    <3>1. IsBatch(b)
      BY SharedBatch
    <3>. QED  BY <1>5, <3>1, PageOfAssumption DEF Merge, Applied, IsBatch
  <2>. QED  BY <1>0, <1>5, <2>1, <2>2 DEF Merge
<1>6. CASE TakeOutbound
  <2>1. shared' \subseteq Entries
    BY <1>6, SharedPairs DEF TakeOutbound
  <2>. QED  BY <1>0, <1>6, <2>1 DEF TakeOutbound
<1>7. ASSUME NEW p \in Pages, SendPage(p) PROVE TypeOK'
  <2>1. shared' \subseteq Entries
    BY <1>7, SharedPairs DEF SendPage, PageIds
  <2>. QED  BY <1>0, <1>7, <2>1 DEF SendPage
<1>8. CASE HelloDigests
  BY <1>8, FlushedType DEF HelloDigests
<1>9. CASE Crash
  BY <1>0, <1>9 DEF Crash, durable
<1>10. CASE Open
  <2>1. counter' \in Nat
    BY <1>10, RestoreFacts DEF Open
  <2>2. IsTable(table')
    BY <1>10, DigestsType DEF Open
  <2>. QED  BY <1>0, <1>10, <2>1, <2>2 DEF Open, Restart
<1>11. ASSUME NEW i \in Ids, NEW r \in PeerRecords, PeerWrite(i, r)
       PROVE  TypeOK'
  <2>1. r \in Record
    BY DEF PeerRecords, Record
  <2>. QED  BY <1>0, <1>11, <2>1 DEF PeerWrite, durable, volatile, Entries
<1>12. CASE UNCHANGED vars
  BY <1>12 DEF vars
<1>. QED
  BY <1>1, <1>2, <1>3, <1>4, <1>5, <1>6, <1>7, <1>8, <1>9, <1>10, <1>11, <1>12
     DEF Next

-----------------------------------------------------------------------------
(* The counter. *)

LEMMA CounterStep ==
    ASSUME TypeOK, CounterCovers, [Next]_vars
    PROVE  CounterCovers'
<1>0. counter \in Nat /\ \A i \in Ids : records[i].c \in Nat
  BY CounterOf DEF TypeOK, Stores
<1>1. ASSUME NEW i \in Ids, NEW deleted \in BOOLEAN, NEW value \in Values,
             open, Upsert(i, deleted, value)
      PROVE  CounterCovers'
  <2>1. records' = [records EXCEPT ![i] = Stamped(deleted, value)]
    BY <1>1, UpsertFacts
  <2>2. \A j \in Ids : records'[j] = records[j] \/ records'[j].c = counter + 1
    BY <2>1 DEF TypeOK, Stores, Stamped
  <2>. QED  BY <1>0, <1>1, <2>2 DEF CounterCovers, Upsert
<1>2. ASSUME NEW i \in Ids, NEW deleted \in BOOLEAN, NEW value \in Values,
             WriteLocal(i, deleted, value)
      PROVE  CounterCovers'
  BY <1>1, <1>2 DEF WriteLocal
<1>3. ASSUME NEW i \in Ids, NEW value \in Values, WriteLocalQuiet(i, value)
      PROVE  CounterCovers'
  BY <1>1, <1>3 DEF WriteLocalQuiet
<1>4. ASSUME NEW p \in Pages, MarkPageDirty(p) PROVE CounterCovers'
  BY <1>4 DEF MarkPageDirty, CounterCovers
<1>5. ASSUME NEW p \in Pages, PurgePage(p) PROVE CounterCovers'
  <2>1. \A i \in Ids : records'[i] = Absent \/ records'[i] = records[i]
    BY <1>5, PurgeFacts
  <2>2. Absent.c = 0
    BY DEF Absent
  <2>. QED  BY <1>0, <1>5, <2>1, <2>2 DEF PurgePage, PurgeRecords, CounterCovers
<1>6. ASSUME NEW b \in BatchesOf(shared), Merge(b) PROVE CounterCovers'
  <2>1. open /\ UNCHANGED open
    BY <1>6 DEF Merge
  <2>2. ASSUME NEW i \in Ids PROVE counter' >= records'[i].c
    <3>1. counter' \in Nat /\ counter' >= counter
      BY <1>6, MergeFacts
    <3>2. CASE records'[i] = records[i]
      BY <1>0, <2>1, <3>1, <3>2 DEF CounterCovers
    <3>3. CASE i \in DOMAIN b /\ records'[i] = b[i]
      BY <1>6, <3>3, MergeFacts
    <3>. QED  BY <1>6, <3>2, <3>3, MergeFacts
  <2>. QED  BY <2>2 DEF CounterCovers
<1>7. CASE TakeOutbound
  BY <1>7 DEF TakeOutbound, CounterCovers
<1>8. ASSUME NEW p \in Pages, SendPage(p) PROVE CounterCovers'
  BY <1>8 DEF SendPage, CounterCovers
<1>9. CASE HelloDigests
  BY <1>9 DEF HelloDigests, CounterCovers
<1>10. CASE Crash
  BY <1>10 DEF Crash, CounterCovers
<1>11. CASE Open
  BY <1>11, RestoreFacts DEF Open, Restart, CounterCovers
<1>12. ASSUME NEW i \in Ids, NEW r \in PeerRecords, PeerWrite(i, r)
       PROVE  CounterCovers'
  BY <1>12 DEF PeerWrite, durable, volatile, CounterCovers
<1>13. CASE UNCHANGED vars
  BY <1>13 DEF vars, CounterCovers
<1>. QED
  BY <1>2, <1>3, <1>4, <1>5, <1>6, <1>7, <1>8, <1>9, <1>10, <1>11, <1>12, <1>13
     DEF Next

LEMMA TypeAndCounter == Spec => [](TypeOK /\ CounterCovers)
<1>1. Init => TypeOK /\ CounterCovers
  <2>1. Empty \in Stores
    BY DEF Empty, Stores
  <2>2. IsTable(NoDigests)
    BY DEF IsTable, NoDigests
  <2>3. Init => CounterCovers
    BY DEF Init, CounterCovers
  <2>4. Init => TypeOK
    <3>1. Init => counter \in Nat /\ dirty \subseteq Ids /\ pending \subseteq Pages
      BY DEF Init
    <3>. QED  BY <2>1, <2>2, <3>1, Zenon DEF Init, TypeOK
  <2>. QED  BY <2>3, <2>4
<1>2. TypeOK /\ CounterCovers /\ [Next]_vars => (TypeOK /\ CounterCovers)'
  BY TypeStep, CounterStep
<1>. QED  BY <1>1, <1>2, PTL DEF Spec

\* Every variable keeps its type in every reachable state.
THEOREM TypeCorrect == Spec => []TypeOK
BY TypeAndCounter, PTL

\* The Lamport counter is never behind a record held, whatever was merged,
\* purged or found at a restart.
THEOREM CounterCorrect == Spec => []CounterCovers
BY TypeAndCounter, PTL

-----------------------------------------------------------------------------
(* The digest cache. *)

\* A page's digest and whether it is known depend on its own records only.
LEMMA DigestLocal ==
    ASSUME NEW s \in Stores, NEW t \in Stores, NEW p,
           \A i \in Ids : PageOf[i] = p => s[i] = t[i]
    PROVE  /\ Digest(s, p) = Digest(t, p)
           /\ p \in KnownPages(s) <=> p \in KnownPages(t)
<1>1. PageIds(s, p) = PageIds(t, p)
  BY DEF PageIds, Held, Holds
<1>2. \A i \in PageIds(s, p) : s[i] = t[i]
  BY DEF PageIds, Held
<1>3. Digest(s, p) = Digest(t, p)
  BY <1>1, <1>2 DEF Digest
<1>4. \A u : p \in KnownPages(u) <=> PageIds(u, p) # {}
  BY DEF KnownPages, PageIds
<1>. QED  BY <1>1, <1>3, <1>4

\* A step that changes records of the pages in T only, leaves each of them
\* with a record and marks them stale, keeps the cache fresh.
LEMMA TouchedPages ==
    ASSUME TypeOK, DigestsFresh, open, records' \in Stores,
           NEW T \in SUBSET Pages,
           \A i \in Ids : PageOf[i] \notin T => records'[i] = records[i],
           T \subseteq KnownPages(records'),
           pending' = pending \cup T,
           UNCHANGED table
    PROVE  DigestsFresh'
<1>1. \A p : p \notin T =>
         /\ Digest(records', p) = Digest(records, p)
         /\ p \in KnownPages(records') <=> p \in KnownPages(records)
  BY DigestLocal DEF TypeOK
<1>2. pending' \subseteq KnownPages(records')
  BY <1>1 DEF DigestsFresh
<1>3. DOMAIN table' \cup pending' = KnownPages(records')
  BY <1>1 DEF DigestsFresh
<1>4. \A p \in DOMAIN table' \ pending' : table'[p] = Digest(records', p)
  BY <1>1 DEF DigestsFresh
<1>. QED  BY <1>2, <1>3, <1>4 DEF DigestsFresh

\* The two local writes.
LEMMA FreshAfterUpsert ==
    ASSUME TypeOK, CounterCovers, DigestsFresh, open,
           NEW i \in Ids, NEW deleted \in BOOLEAN, NEW value \in Values,
           Upsert(i, deleted, value), UNCHANGED table
    PROVE  DigestsFresh'
<1>1. /\ Stamped(deleted, value) \in Record
      /\ records' = [records EXCEPT ![i] = Stamped(deleted, value)]
      /\ pending' = pending \cup {PageOf[i]}
  BY UpsertFacts
<1>2. records' \in Stores /\ records'[i] = Stamped(deleted, value)
  BY <1>1 DEF TypeOK, Stores
<1>3. PageOf[i] \in KnownPages(records')
  BY <1>1, <1>2, CounterOf DEF KnownPages, Held, Holds
<1>4. \A j \in Ids : PageOf[j] \notin {PageOf[i]} => records'[j] = records[j]
  BY <1>1 DEF TypeOK, Stores
<1>5. {PageOf[i]} \in SUBSET Pages /\ {PageOf[i]} \subseteq KnownPages(records')
  BY <1>3, PageOfAssumption
<1>. QED
  <2> DEFINE T == {PageOf[i]}
  <2>1. /\ T \in SUBSET Pages
        /\ T \subseteq KnownPages(records')
        /\ pending' = pending \cup T
        /\ \A j \in Ids : PageOf[j] \notin T => records'[j] = records[j]
    BY <1>1, <1>4, <1>5
  <2>2. records' \in Stores
    BY <1>2
  <2> HIDE DEF T
  <2>. QED  BY <2>1, <2>2, TouchedPages

LEMMA FreshStep ==
    ASSUME TypeOK, CounterCovers, DigestsFresh, [Next]_vars
    PROVE  DigestsFresh'
<1>1. ASSUME NEW i \in Ids, NEW deleted \in BOOLEAN, NEW value \in Values,
             WriteLocal(i, deleted, value)
      PROVE  DigestsFresh'
  BY <1>1, FreshAfterUpsert DEF WriteLocal
<1>2. ASSUME NEW i \in Ids, NEW value \in Values, WriteLocalQuiet(i, value)
      PROVE  DigestsFresh'
  <2>1. Upsert(i, FALSE, value) /\ open /\ UNCHANGED table /\ FALSE \in BOOLEAN
    BY <1>2 DEF WriteLocalQuiet
  <2>. QED  BY <2>1, FreshAfterUpsert
<1>3. ASSUME NEW p \in Pages, MarkPageDirty(p) PROVE DigestsFresh'
  BY <1>3 DEF MarkPageDirty, DigestsFresh
<1>4. ASSUME NEW p \in Pages, PurgePage(p) PROVE DigestsFresh'
  <2>1. /\ records' \in Stores
        /\ \A i \in Ids :
             \/ PageOf[i] = p /\ records'[i] = Absent
             \/ PageOf[i] # p /\ records'[i] = records[i]
    BY <1>4, PurgeFacts
  <2>2. \A q : q # p =>
           /\ Digest(records', q) = Digest(records, q)
           /\ q \in KnownPages(records') <=> q \in KnownPages(records)
    BY <2>1, DigestLocal DEF TypeOK
  <2>3. p \notin KnownPages(records')
    BY <2>1 DEF KnownPages, Held, Holds
  <2>4. open /\ pending' = pending \ {p} /\ table' = [q \in DOMAIN table \ {p} |-> table[q]]
    BY <1>4 DEF PurgePage, PurgeRecords
  <2>5. KnownPages(records') = KnownPages(records) \ {p}
    BY <2>2, <2>3
  <2>6. \A q \in DOMAIN table' \ pending' : table'[q] = Digest(records', q)
    BY <2>2, <2>4 DEF DigestsFresh
  <2>. QED  BY <2>4, <2>5, <2>6 DEF DigestsFresh
<1>5. ASSUME NEW b \in BatchesOf(shared), Merge(b) PROVE DigestsFresh'
  <2>. DEFINE T == {PageOf[i] : i \in Applied(records, b)}
  <2>1. records' \in Stores
    BY <1>5, MergeFacts
  <2>2. Applied(records, b) \subseteq Ids
    BY SharedBatch DEF Applied, IsBatch, TypeOK
  <2>3. T \subseteq Pages
    BY <2>2, PageOfAssumption
  <2>4. \A i \in Ids : PageOf[i] \notin T => records'[i] = records[i]
    BY <1>5, MergeFacts
  <2>5. \A i \in Applied(records, b) : records'[i] \in Record
    BY <1>5, <2>2, MergeFacts
  <2>6. T \subseteq KnownPages(records')
    BY <2>2, <2>5, CounterOf DEF KnownPages, Held, Holds
  <2>7. open /\ pending' = pending \cup T /\ UNCHANGED table
    BY <1>5 DEF Merge
  <2>. QED  BY <2>1, <2>3, <2>4, <2>6, <2>7, TouchedPages
<1>6. CASE TakeOutbound
  BY <1>6 DEF TakeOutbound, DigestsFresh
<1>7. ASSUME NEW p \in Pages, SendPage(p) PROVE DigestsFresh'
  BY <1>7 DEF SendPage, DigestsFresh
<1>8. CASE HelloDigests
  BY <1>8 DEF HelloDigests, Flushed, DigestsFresh
<1>9. CASE Crash
  BY <1>9 DEF Crash, DigestsFresh
<1>10. CASE Open
  <2>1. table' = Digests(records) /\ pending' = {} /\ records' = records
    BY <1>10 DEF Open, Restart
  <2>. QED  BY <2>1 DEF Digests, DigestsFresh
<1>11. ASSUME NEW i \in Ids, NEW r \in PeerRecords, PeerWrite(i, r)
       PROVE  DigestsFresh'
  BY <1>11 DEF PeerWrite, durable, volatile, DigestsFresh
<1>12. CASE UNCHANGED vars
  BY <1>12 DEF vars, DigestsFresh
<1>. QED
  BY <1>1, <1>2, <1>3, <1>4, <1>5, <1>6, <1>7, <1>8, <1>9, <1>10, <1>11, <1>12
     DEF Next

\* Outside the pages known to be stale, the stored digest of every page is the
\* digest of the records held now.
THEOREM CacheCorrect == Spec => []DigestsFresh
<1>1. Init => DigestsFresh
  BY DEF Init, DigestsFresh
<1>2. TypeOK /\ CounterCovers /\ DigestsFresh /\ [Next]_vars => DigestsFresh'
  BY FreshStep
<1>. QED  BY <1>1, <1>2, TypeAndCounter, PTL DEF Spec

-----------------------------------------------------------------------------
(* The dirty set. *)

\* Nothing waits to be sent while the process is down.
DirtyNeedsOpen == ~open => dirty = {}

LEMMA DirtyStep ==
    ASSUME TypeOK, CounterCovers, DirtyIsHeld, DirtyNeedsOpen, [Next]_vars
    PROVE  DirtyIsHeld' /\ DirtyNeedsOpen'
<1>. DEFINE Goal == DirtyIsHeld' /\ DirtyNeedsOpen'
<1>. USE DEF DirtyIsHeld, DirtyNeedsOpen
<1>1. ASSUME NEW i \in Ids, NEW deleted \in BOOLEAN, NEW value \in Values,
             open, Upsert(i, deleted, value)
      PROVE  Held(records') = Held(records) \cup {i}
  <2>1. /\ Stamped(deleted, value) \in Record
        /\ records' = [records EXCEPT ![i] = Stamped(deleted, value)]
    BY <1>1, UpsertFacts
  <2>2. Stamped(deleted, value) # Absent
    BY <2>1, CounterOf
  <2>. QED  BY <2>1, <2>2 DEF Held, Holds, TypeOK, Stores
<1>2. ASSUME NEW i \in Ids, NEW deleted \in BOOLEAN, NEW value \in Values,
             WriteLocal(i, deleted, value)
      PROVE  Goal
  BY <1>1, <1>2 DEF WriteLocal
<1>3. ASSUME NEW i \in Ids, NEW value \in Values, WriteLocalQuiet(i, value)
      PROVE  Goal
  <2>1. Upsert(i, FALSE, value) /\ open /\ FALSE \in BOOLEAN
    BY <1>3 DEF WriteLocalQuiet
  <2>2. Held(records') = Held(records) \cup {i}
    BY <1>1, <2>1
  <2>. QED  BY <1>3, <2>2 DEF WriteLocalQuiet
<1>4. ASSUME NEW p \in Pages, MarkPageDirty(p) PROVE Goal
  BY <1>4 DEF MarkPageDirty, PageIds
<1>5. ASSUME NEW p \in Pages, PurgePage(p) PROVE Goal
  <2>1. Held(records') = Held(records) \ PageIds(records, p)
    BY <1>5, PurgeFacts DEF Held, Holds, PageIds
  <2>. QED  BY <1>5, <2>1 DEF PurgePage, PurgeRecords
<1>6. ASSUME NEW b \in BatchesOf(shared), Merge(b) PROVE Goal
  <2>1. Held(records) \subseteq Held(records')
    BY <1>6, MergeFacts, CounterOf DEF Held, Holds
  <2>. QED  BY <1>6, <2>1 DEF Merge
<1>7. CASE TakeOutbound
  BY <1>7 DEF TakeOutbound
<1>8. ASSUME NEW p \in Pages, SendPage(p) PROVE Goal
  BY <1>8 DEF SendPage
<1>9. CASE HelloDigests
  BY <1>9 DEF HelloDigests
<1>10. CASE Crash
  BY <1>10 DEF Crash
<1>11. CASE Open
  BY <1>11 DEF Open, Restart
<1>12. ASSUME NEW i \in Ids, NEW r \in PeerRecords, PeerWrite(i, r)
       PROVE  Goal
  BY <1>12 DEF PeerWrite, durable, volatile
<1>13. CASE UNCHANGED vars
  BY <1>13 DEF vars
<1>. QED
  BY <1>2, <1>3, <1>4, <1>5, <1>6, <1>7, <1>8, <1>9, <1>10, <1>11, <1>12, <1>13
     DEF Next

LEMMA DirtyInvariant == Spec => [](DirtyIsHeld /\ DirtyNeedsOpen)
<1>1. Init => DirtyIsHeld /\ DirtyNeedsOpen
  BY DEF Init, DirtyIsHeld, DirtyNeedsOpen
<1>2. TypeOK /\ CounterCovers /\ DirtyIsHeld /\ DirtyNeedsOpen /\ [Next]_vars
         => (DirtyIsHeld /\ DirtyNeedsOpen)'
  BY DirtyStep
<1>. QED  BY <1>1, <1>2, TypeAndCounter, PTL DEF Spec

\* Whatever waits to be sent is held: no purge leaves a dangling id behind.
THEOREM DirtyCorrect == Spec => []DirtyIsHeld
BY DirtyInvariant, PTL

-----------------------------------------------------------------------------
(* What a step may never do to a record. *)

\* A local write takes effect: the record held afterwards is the one written.
THEOREM LocalWriteCorrect == Spec => LocalWriteApplies
<1>. DEFINE Took ==
       \A i \in Ids, deleted \in BOOLEAN, value \in Values :
          WriteLocal(i, deleted, value) =>
             /\ records'[i].client = Self /\ records'[i].c = counter'
             /\ records'[i].deleted = deleted /\ records'[i].value = value
<1>1. TypeOK /\ CounterCovers => Took
  <2>. SUFFICES ASSUME TypeOK, CounterCovers,
                       NEW i \in Ids, NEW deleted \in BOOLEAN, NEW value \in Values,
                       WriteLocal(i, deleted, value)
       PROVE  /\ records'[i].client = Self /\ records'[i].c = counter'
              /\ records'[i].deleted = deleted /\ records'[i].value = value
    OBVIOUS
  <2>1. Upsert(i, deleted, value) /\ open
    BY DEF WriteLocal
  <2>2. records' = [records EXCEPT ![i] = Stamped(deleted, value)] /\ counter' = counter + 1
    BY <2>1, UpsertFacts
  <2>3. records'[i] = Stamped(deleted, value)
    BY <2>2 DEF TypeOK, Stores
  <2>. QED  BY <2>2, <2>3 DEF Stamped
<1>2. TypeOK /\ CounterCovers /\ [Next]_vars => [Took]_vars
  BY <1>1
<1>. QED  BY <1>2, TypeAndCounter, PTL DEF Spec, LocalWriteApplies

\* A record held is replaced by newer versions only, and vanishes only while
\* nobody was sent it.
THEOREM AdvanceCorrect == Spec => RecordsOnlyAdvance
<1>. DEFINE Kept ==
       \A i \in Ids :
          \/ records'[i] = records[i]
          \/ Newer(records'[i], records[i])
          \/ i \notin SharedIds
<1>1. ASSUME TypeOK, CounterCovers, open,
             NEW i \in Ids, NEW deleted \in BOOLEAN, NEW value \in Values,
             Upsert(i, deleted, value)
      PROVE  Kept
  <2>1. records' = [records EXCEPT ![i] = Stamped(deleted, value)]
    BY <1>1, UpsertFacts
  <2>2. records'[i].c = counter + 1
    BY <2>1, <1>1 DEF TypeOK, Stores, Stamped
  <2>3. records[i].c \in Nat /\ counter \in Nat /\ counter >= records[i].c
    BY <1>1, CounterOf DEF TypeOK, Stores, CounterCovers
  <2>4. Newer(records'[i], records[i])
    BY <2>2, <2>3 DEF Newer
  <2>. QED  BY <2>1, <2>4, <1>1 DEF TypeOK, Stores
<1>2. ASSUME TypeOK, CounterCovers, Next PROVE Kept
  <2>1. ASSUME NEW i \in Ids, NEW deleted \in BOOLEAN, NEW value \in Values,
               WriteLocal(i, deleted, value)
        PROVE  Kept
    BY <1>1, <1>2, <2>1 DEF WriteLocal
  <2>2. ASSUME NEW i \in Ids, NEW value \in Values, WriteLocalQuiet(i, value)
        PROVE  Kept
    <3>1. Upsert(i, FALSE, value) /\ open /\ FALSE \in BOOLEAN
      BY <2>2 DEF WriteLocalQuiet
    <3>. QED  BY <1>1, <1>2, <3>1
  <2>3. ASSUME NEW p \in Pages, PurgePage(p) PROVE Kept
    <3>1. \A i \in SharedIds : PageOf[i] # p
      BY <2>3 DEF PurgePage
    <3>. QED  BY <1>2, <2>3, <3>1, PurgeFacts
  <2>4. ASSUME NEW b \in BatchesOf(shared), Merge(b) PROVE Kept
    BY <1>2, <2>4, MergeFacts
  <2>5. ASSUME UNCHANGED records PROVE Kept
    BY <2>5
  <2>. QED
    BY <1>2, <2>1, <2>2, <2>3, <2>4, <2>5
       DEF Next, MarkPageDirty, TakeOutbound, SendPage, HelloDigests, Crash, Open,
           Restart, PeerWrite, durable
<1>3. TypeOK /\ CounterCovers /\ [Next]_vars => [Kept]_vars
  BY <1>2
<1>. QED  BY <1>3, TypeAndCounter, PTL DEF Spec, RecordsOnlyAdvance

-----------------------------------------------------------------------------
(* A version identifies a record's content. *)

\* What this store signed and sent is not ahead of what it holds, so the next
\* version it issues for that record is one it never used.
SentBehind ==
    \A e \in shared :
        e[2].client = Self => Holds(records, e[1]) /\ ~Newer(e[2], records[e[1]])

\* What it holds of others was merged from what they sent.
ForeignIsShared ==
    \A i \in Ids :
        Holds(records, i) /\ records[i].client # Self => <<i, records[i]>> \in shared

Versions == SentBehind /\ ForeignIsShared /\ VersionIdentifiesContent

Copies == shared \cup {<<i, records[i]>> : i \in Held(records)}

\* Two records one of which is newer have different versions, and no record is
\* newer than itself.
LEMMA NewerDiffers ==
    ASSUME NEW r \in Record, NEW s \in Record
    PROVE  /\ ~Newer(r, r)
           /\ Newer(r, s) => ~(r.c = s.c /\ r.client = s.client)
<1>1. r.c \in Nat /\ s.c \in Nat /\ r.client \in Nat /\ s.client \in Nat
  BY AuthorsAssumption DEF Record
<1>. QED  BY <1>1 DEF Newer

\* Every copy is a record under its id.
LEMMA CopyType ==
    ASSUME TypeOK, NEW e \in Copies
    PROVE  e[1] \in Ids /\ e[2] \in Record /\ e = <<e[1], e[2]>>
<1>1. {<<i, records[i]>> : i \in Held(records)} \subseteq Entries
  BY SharedPairs
<1>. QED  BY <1>1 DEF Copies, TypeOK, Entries

\* A step that adds no copy, loses no shared one and moves no held record back
\* keeps the three invariants.
LEMMA NoNewCopy ==
    ASSUME TypeOK, Versions, TypeOK',
           shared \subseteq shared', Copies' \subseteq Copies,
           \A e \in shared' : e[2].client = Self =>
               Holds(records', e[1]) /\ ~Newer(e[2], records'[e[1]]),
           \A i \in Ids :
               records'[i] = records[i] \/ records'[i] = Absent \/ <<i, records'[i]>> \in shared
    PROVE  Versions'
<1>1. VersionIdentifiesContent'
  BY DEF Versions, VersionIdentifiesContent, Copies
<1>2. SentBehind'
  BY DEF SentBehind
<1>3. ForeignIsShared'
  BY DEF Versions, ForeignIsShared, Holds
<1>. QED  BY <1>1, <1>2, <1>3 DEF Versions

\* A local write issues a version nobody has seen.
LEMMA VersionsAfterUpsert ==
    ASSUME TypeOK, CounterCovers, Versions, open,
           NEW i \in Ids, Holds(records, i) \/ Fresh(i),
           NEW deleted \in BOOLEAN, NEW value \in Values,
           Upsert(i, deleted, value), UNCHANGED shared
    PROVE  Versions'
<1>. DEFINE r == Stamped(deleted, value)
<1>1. /\ r \in Record
      /\ records' = [records EXCEPT ![i] = r]
  BY UpsertFacts
<1>2. /\ records'[i] = r
      /\ r.client = Self /\ r.c = counter + 1
      /\ \A j \in Ids : j # i => records'[j] = records[j]
      /\ Holds(records', i)
  <2>1. records'[i] = r
    BY <1>1 DEF TypeOK, Stores
  <2>2. r # Absent
    BY <1>1, CounterOf
  <2>. QED  BY <1>1, <2>1, <2>2 DEF TypeOK, Stores, Stamped, Holds
<1>. HIDE DEF r
<1>3. counter \in Nat /\ \A j \in Ids : records[j].c \in Nat /\ counter >= records[j].c
  BY CounterOf DEF TypeOK, Stores, CounterCovers
<1>4. ASSUME NEW e \in shared, e[1] = i, e[2].client = Self
      PROVE  e[2].c < r.c
  <2>1. ~Newer(e[2], records[i])
    BY <1>4 DEF Versions, SentBehind
  <2>2. e[2].c \in Nat
    BY CounterOf DEF TypeOK, Entries
  <2>. QED  BY <1>2, <1>3, <2>1, <2>2 DEF Newer
<1>5. SentBehind'
  <2>. SUFFICES ASSUME NEW e \in shared, e[2].client = Self
       PROVE  Holds(records', e[1]) /\ ~Newer(e[2], records'[e[1]])
    BY DEF SentBehind
  <2>1. e[1] \in Ids /\ e[2] \in Record
    BY DEF TypeOK, Entries
  <2>2. CASE e[1] # i
    BY <1>2, <2>1, <2>2 DEF Versions, SentBehind, Holds
  <2>3. CASE e[1] = i
    <3>1. e[2].c < r.c /\ e[2].c \in Nat /\ r.c \in Nat
      BY <1>1, <1>4, <2>1, <2>3, CounterOf
    <3>. QED  BY <1>2, <2>3, <3>1 DEF Newer
  <2>. QED  BY <2>2, <2>3
<1>6. ForeignIsShared'
  BY <1>2 DEF Versions, ForeignIsShared, Holds
<1>7. \A e \in Copies' : e = <<i, r>> \/ (e \in Copies /\ (e[1] = i => e \in shared))
  BY <1>2 DEF Copies, Held, Holds
<1>8. ASSUME NEW e \in shared, e[1] = i, e[2].c = r.c, e[2].client = r.client
      PROVE  FALSE
  <2>1. e[2].c \in Nat /\ r.c \in Nat /\ e[2].client = Self
    BY <1>1, <1>2, <1>8, CounterOf DEF TypeOK, Entries
  <2>. QED  BY <1>4, <1>8, <2>1
<1>9. VersionIdentifiesContent'
  <2>. SUFFICES ASSUME NEW a \in Copies', NEW b \in Copies',
                       a[1] = b[1], a[2].c = b[2].c, a[2].client = b[2].client
       PROVE  a = b
    BY DEF VersionIdentifiesContent, Copies
  <2>1. CASE a = <<i, r>> \/ b = <<i, r>>
    BY <1>7, <1>8, <2>1
  <2>2. CASE a \in Copies /\ b \in Copies
    BY <2>2 DEF Versions, VersionIdentifiesContent, Copies
  <2>. QED  BY <1>7, <2>1, <2>2
<1>. QED  BY <1>5, <1>6, <1>9 DEF Versions

LEMMA VersionsStep ==
    ASSUME TypeOK, CounterCovers, Versions, [Next]_vars
    PROVE  Versions'
<1>0. TypeOK'
  BY TypeStep
<1>1. ASSUME NEW i \in Ids, NEW deleted \in BOOLEAN, NEW value \in Values,
             WriteLocal(i, deleted, value)
      PROVE  Versions'
  BY <1>1, VersionsAfterUpsert DEF WriteLocal
<1>2. ASSUME NEW i \in Ids, NEW value \in Values, WriteLocalQuiet(i, value)
      PROVE  Versions'
  <2>1. Upsert(i, FALSE, value) /\ open /\ Fresh(i) /\ UNCHANGED shared /\ FALSE \in BOOLEAN
    BY <1>2 DEF WriteLocalQuiet
  <2>. QED  BY <2>1, VersionsAfterUpsert
<1>3. ASSUME NEW p \in Pages, PurgePage(p) PROVE Versions'
  <2>1. UNCHANGED shared /\ \A i \in SharedIds : PageOf[i] # p
    BY <1>3 DEF PurgePage, PurgeRecords
  <2>2. \A i \in Ids :
           \/ PageOf[i] = p /\ records'[i] = Absent
           \/ PageOf[i] # p /\ records'[i] = records[i]
    BY <1>3, PurgeFacts
  <2>3. \A e \in shared : e[1] \in Ids /\ records'[e[1]] = records[e[1]]
    BY <2>1, <2>2 DEF TypeOK, Entries, SharedIds, IdsOf
  <2>4. \A e \in shared' : e[2].client = Self =>
           Holds(records', e[1]) /\ ~Newer(e[2], records'[e[1]])
    BY <2>1, <2>3 DEF Versions, SentBehind, Holds
  <2>5. Copies' \subseteq Copies
    BY <2>1, <2>2 DEF Copies, Held, Holds
  <2>. QED  BY <1>0, <2>1, <2>2, <2>4, <2>5, NoNewCopy
<1>4. ASSUME NEW batch \in BatchesOf(shared), Merge(batch) PROVE Versions'
  <2>1. UNCHANGED shared
    BY <1>4 DEF Merge
  <2>2. \A i \in Ids :
           \/ records'[i] = records[i]
           \/ /\ <<i, records'[i]>> \in shared
              /\ records'[i] \in Record
              /\ Newer(records'[i], records[i])
    BY <1>4, MergeFacts
  <2>3. \A e \in shared' : e[2].client = Self =>
           Holds(records', e[1]) /\ ~Newer(e[2], records'[e[1]])
    <3>. SUFFICES ASSUME NEW e \in shared, e[2].client = Self
         PROVE  Holds(records', e[1]) /\ ~Newer(e[2], records'[e[1]])
      BY <2>1
    <3>1. e[1] \in Ids /\ e[2] \in Record /\ records[e[1]] \in Record \cup {Absent}
      BY DEF TypeOK, Entries, Stores
    <3>2. Holds(records, e[1]) /\ ~Newer(e[2], records[e[1]])
      BY DEF Versions, SentBehind
    <3>3. CASE records'[e[1]] = records[e[1]]
      BY <3>2, <3>3 DEF Holds
    <3>4. CASE records'[e[1]] \in Record /\ Newer(records'[e[1]], records[e[1]])
      <4>1. ~Newer(e[2], records'[e[1]])
        BY <3>1, <3>2, <3>4, NewerTransitive
      <4>. QED  BY <3>4, <4>1, CounterOf DEF Holds
    <3>. QED  BY <2>2, <3>1, <3>3, <3>4
  <2>4. Copies' \subseteq Copies
    BY <2>1, <2>2 DEF Copies, Held, Holds
  <2>. QED  BY <1>0, <2>1, <2>2, <2>3, <2>4, NoNewCopy
<1>5. ASSUME NEW S \in SUBSET Held(records), UNCHANGED records,
             shared' = shared \cup {<<i, records[i]>> : i \in S}
      PROVE  Versions'
  <2>1. Copies' \subseteq Copies
    BY <1>5 DEF Copies
  <2>2. \A e \in shared' : e[2].client = Self =>
           Holds(records', e[1]) /\ ~Newer(e[2], records'[e[1]])
    <3>. SUFFICES ASSUME NEW e \in shared', e[2].client = Self
         PROVE  Holds(records, e[1]) /\ ~Newer(e[2], records[e[1]])
      BY <1>5
    <3>1. CASE e \in shared
      BY <3>1 DEF Versions, SentBehind
    <3>2. ASSUME NEW i \in S, e = <<i, records[i]>>
          PROVE  Holds(records, e[1]) /\ ~Newer(e[2], records[e[1]])
      <4>1. records[i] \in Record /\ Holds(records, i)
        BY DEF Held, Holds, TypeOK, Stores
      <4>. QED  BY <3>2, <4>1, NewerDiffers
    <3>. QED  BY <1>5, <3>1, <3>2
  <2>. QED  BY <1>0, <1>5, <2>1, <2>2, NoNewCopy
<1>6. CASE TakeOutbound
  BY <1>5, <1>6 DEF TakeOutbound
<1>7. ASSUME NEW p \in Pages, SendPage(p) PROVE Versions'
  BY <1>5, <1>7 DEF SendPage, PageIds
<1>8. ASSUME UNCHANGED <<records, shared>> PROVE Versions'
  BY <1>8 DEF Versions, SentBehind, ForeignIsShared, VersionIdentifiesContent
<1>9. ASSUME NEW i \in Ids, NEW r \in PeerRecords, PeerWrite(i, r)
      PROVE  Versions'
  <2>1. /\ r \in Record /\ r.client # Self
        /\ UNCHANGED records
        /\ shared' = shared \cup {<<i, r>>}
        /\ \A e \in shared : e[1] = i => Newer(r, e[2]) \/ Newer(e[2], r)
    BY <1>9 DEF PeerWrite, PeerRecords, Record, durable
  <2>2. SentBehind' /\ ForeignIsShared'
    BY <2>1 DEF Versions, SentBehind, ForeignIsShared
  <2>3. Copies' = Copies \cup {<<i, r>>}
    BY <2>1 DEF Copies
  <2>4. ASSUME NEW e \in Copies, e[1] = i, e[2].c = r.c, e[2].client = r.client
        PROVE  FALSE
    <3>1. e \in shared
      BY <2>1, <2>4 DEF Versions, ForeignIsShared, Copies, Held
    <3>2. e[2] \in Record
      BY CopyType
    <3>. QED  BY <2>1, <2>4, <3>1, <3>2, NewerDiffers
  <2>5. VersionIdentifiesContent'
    <3>. SUFFICES ASSUME NEW a \in Copies', NEW b \in Copies',
                         a[1] = b[1], a[2].c = b[2].c, a[2].client = b[2].client
         PROVE  a = b
      BY DEF VersionIdentifiesContent, Copies
    <3>1. CASE a \in Copies /\ b \in Copies
      BY <3>1 DEF Versions, VersionIdentifiesContent, Copies
    <3>. QED  BY <2>3, <2>4, <3>1
  <2>. QED  BY <2>2, <2>5 DEF Versions
<1>. QED
  BY <1>1, <1>2, <1>3, <1>4, <1>6, <1>7, <1>8, <1>9
     DEF Next, MarkPageDirty, HelloDigests, Crash, Open, Restart, durable, vars

\* Two copies of a record with the same version, held here, sent or received,
\* have the same content.
THEOREM VersionsCorrect == Spec => []VersionIdentifiesContent
<1>1. Init => Versions
  BY DEF Init, Versions, SentBehind, ForeignIsShared, VersionIdentifiesContent,
         Empty, Holds, Held
<1>2. TypeOK /\ CounterCovers /\ Versions /\ [Next]_vars => Versions'
  BY VersionsStep
<1>3. Versions => VersionIdentifiesContent
  BY DEF Versions
<1>. QED  BY <1>1, <1>2, <1>3, TypeAndCounter, PTL DEF Spec

-----------------------------------------------------------------------------
(* Workspace implements LwwStore. *)

\* What the steps of the two modules have in common.
Sound ==
    /\ TypeOK /\ CounterCovers
    /\ DigestsFresh
    /\ DirtyIsHeld /\ DirtyNeedsOpen

LEMMA SoundInvariant == Spec => []Sound
BY TypeAndCounter, CacheCorrect, DirtyInvariant, PTL DEF Sound

\* The two modules read the record algebra alike.
LEMMA SameAlgebra ==
    /\ Abstract!Record = Record
    /\ Abstract!Absent = Absent
    /\ Abstract!NoDigests = NoDigests
    /\ Abstract!SharedIds = SharedIds
    /\ \A s : Abstract!BatchesOf(s) = BatchesOf(s)
    /\ \A s, b : Abstract!Merged(s, b) = Merged(s, b)
    /\ \A s : Abstract!Held(s) = Held(s) /\ Abstract!Digests(s) = Digests(s)
    /\ \A s, p : Abstract!PageIds(s, p) = PageIds(s, p)
BY DEF Abstract!Record, Record, Abstract!Absent, Absent, Abstract!NoDigests, NoDigests,
       Abstract!SharedIds, SharedIds, Abstract!IdsOf, IdsOf, Abstract!BatchesOf, BatchesOf,
       Abstract!Merged, Merged, Abstract!Applied, Applied, Abstract!Newer, Newer,
       Abstract!Held, Held, Abstract!Holds, Holds, Abstract!Digests, Digests,
       Abstract!Digest, Digest, Abstract!KnownPages, KnownPages,
       Abstract!PageIds, PageIds

\* An accepted local write is one the abstract store allows.
LEMMA UpsertIsWrite ==
    ASSUME TypeOK, CounterCovers, open,
           NEW i \in Ids, NEW deleted \in BOOLEAN, NEW value \in Values,
           Upsert(i, deleted, value),
           dirty' \in {dirty, dirty \cup {i}}, reply' = NoDigests,
           UNCHANGED <<open, shared>>
    PROVE  Abstract!Next
<1>1. /\ Stamped(deleted, value) \in Record
      /\ records' = [records EXCEPT ![i] = Stamped(deleted, value)]
  BY UpsertFacts
<1>2. records'[i] = Stamped(deleted, value)
  BY <1>1 DEF TypeOK, Stores
<1>3. \A j \in Ids : records'[i].c > records[j].c
  <2>1. records'[i].c = counter + 1 /\ counter \in Nat
    BY <1>2 DEF Stamped, TypeOK
  <2>. QED  BY <2>1, CounterOf DEF TypeOK, Stores, CounterCovers
<1>4. records'[i].client = Self
  BY <1>2 DEF Stamped
<1>5. Abstract!Write(i)
  <2>1. records' = [records EXCEPT ![i] = records'[i]]
    BY <1>1, <1>2, Zenon
  <2>2. records'[i] \in Abstract!Record /\ reply' = Abstract!NoDigests
    BY <1>1, <1>2, SameAlgebra
  <2>. QED  BY <1>3, <1>4, <2>1, <2>2, Zenon DEF Abstract!Write
<1>. QED  BY <1>5 DEF Abstract!Next

LEMMA RefinementStep ==
    ASSUME Sound, [Next]_vars
    PROVE  [Abstract!Next]_(Abstract!absVars)
<1>. USE DEF Sound
<1>1. ASSUME NEW i \in Ids, NEW deleted \in BOOLEAN, NEW value \in Values,
             WriteLocal(i, deleted, value)
      PROVE  Abstract!Next
  BY <1>1, UpsertIsWrite DEF WriteLocal
<1>2. ASSUME NEW i \in Ids, NEW value \in Values, WriteLocalQuiet(i, value)
      PROVE  Abstract!Next
  <2>1. /\ Upsert(i, FALSE, value) /\ open /\ FALSE \in BOOLEAN
        /\ dirty' = dirty /\ reply' = NoDigests /\ UNCHANGED <<open, shared>>
    BY <1>2 DEF WriteLocalQuiet
  <2>. QED  BY <2>1, UpsertIsWrite
<1>3. ASSUME NEW p \in Pages, MarkPageDirty(p) PROVE Abstract!Next
  <2>1. Abstract!MarkDirty(p) /\ open
    BY <1>3, SameAlgebra DEF MarkPageDirty, Abstract!MarkDirty
  <2>. QED  BY <2>1 DEF Abstract!Next
<1>4. ASSUME NEW p \in Pages, PurgePage(p) PROVE Abstract!Next
  <2>1. dirty \ PageIds(records, p) = {i \in dirty : PageOf[i] # p}
    BY DEF DirtyIsHeld, PageIds
  <2>2. Abstract!Purge(p) /\ open
    BY <1>4, <2>1, SameAlgebra DEF PurgePage, PurgeRecords, Abstract!Purge
  <2>. QED  BY <2>2 DEF Abstract!Next
<1>5. ASSUME NEW b \in BatchesOf(shared), Merge(b) PROVE Abstract!Next
  <2>1. Abstract!Receive /\ open
    BY <1>5, SameAlgebra DEF Merge, Abstract!Receive
  <2>. QED  BY <2>1 DEF Abstract!Next
<1>6. CASE TakeOutbound
  <2>1. dirty \cap Held(records) = dirty /\ dirty \in SUBSET Ids
    BY DEF DirtyIsHeld, TypeOK
  <2>2. Abstract!Send(dirty) /\ open
    BY <1>6, <2>1, SameAlgebra DEF TakeOutbound, Abstract!Send, DirtyIsHeld
  <2>. QED  BY <2>1, <2>2 DEF Abstract!Next
<1>7. ASSUME NEW p \in Pages, SendPage(p) PROVE Abstract!Next
  <2>. DEFINE S == PageIds(records, p)
  <2>1. S \in SUBSET Ids /\ S \subseteq Held(records)
    BY DEF PageIds, Held
  <2>2. Abstract!Send(S) /\ open
    BY <1>7, <2>1, SameAlgebra DEF SendPage, Abstract!Send
  <2>. QED  BY <2>1, <2>2 DEF Abstract!Next
<1>8. CASE HelloDigests
  <2>1. Flushed = Digests(records)
    BY <1>8 DEF HelloDigests, Flushed, Digests, DigestsFresh
  <2>2. Abstract!Answer /\ open
    BY <1>8, <2>1, SameAlgebra DEF HelloDigests, Abstract!Answer
  <2>. QED  BY <2>2 DEF Abstract!Next
<1>9. CASE Crash
  <2>1. Abstract!Stop /\ open
    BY <1>9, SameAlgebra DEF Crash, Abstract!Stop
  <2>. QED  BY <2>1 DEF Abstract!Next
<1>10. CASE Open
  <2>1. Abstract!Start
    BY <1>10, SameAlgebra DEF Open, Restart, Abstract!Start, DirtyNeedsOpen
  <2>. QED  BY <2>1 DEF Abstract!Next
<1>11. ASSUME NEW i \in Ids, NEW r \in PeerRecords, PeerWrite(i, r)
       PROVE  Abstract!Next
  <2>1. Abstract!Foreign
    BY <1>11, SameAlgebra DEF PeerWrite, durable, volatile, Abstract!Foreign
  <2>. QED  BY <2>1 DEF Abstract!Next
<1>12. CASE UNCHANGED vars
  BY <1>12 DEF vars, Abstract!absVars
<1>. QED
  BY <1>1, <1>2, <1>3, <1>4, <1>5, <1>6, <1>7, <1>8, <1>9, <1>10, <1>11, <1>12
     DEF Next

\* The cache, the counter and the crash handling are invisible from outside:
\* every behaviour of the store is one of the abstract store.
THEOREM Refinement == Spec => AbstractSpec
<1>1. Init => Abstract!Init
  BY SameAlgebra DEF Init, Abstract!Init, Empty, Abstract!Empty
<1>2. Sound /\ [Next]_vars => [Abstract!Next]_(Abstract!absVars)
  BY RefinementStep
<1>. QED  BY <1>1, <1>2, SoundInvariant, PTL DEF Spec, AbstractSpec, Abstract!Spec
=============================================================================
