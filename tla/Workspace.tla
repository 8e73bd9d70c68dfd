----------------------------- MODULE Workspace -----------------------------
(***************************************************************************)
(* One store: the client's Workspace of src/src/workspace.rs (the server's *)
(* of src/server/src/workspace.ts has the same rules).  The SQLite tables  *)
(* `records` and `pages` survive a crash; the Lamport counter, the dirty   *)
(* set and the set of stale digests do not.  Digests are cached in the     *)
(* `pages` table, invalidated by every write and recomputed lazily.        *)
(*                                                                         *)
(* The rest of the system is the set `shared`: the records that have left  *)
(* this store or that a peer has written, any of which may be merged here, *)
(* any number of times and in any order.                                   *)
(***************************************************************************)
EXTENDS Lww, FiniteSets

CONSTANTS
    Self,         \* this store's client id
    MaxCounter,   \* bound of the model: the largest version counter
    MaxForeign    \* bound of the model: records written by peers

ASSUME SelfAssumption == Self \in Authors

VARIABLES
    records,    \* SQLite: id -> newest record seen
    table,      \* SQLite: page -> stored digest, for the pages with a row
    counter,    \* Lamport counter
    dirty,      \* ids with local changes not yet taken for sending
    pending,    \* pages whose stored digest is stale
    open,       \* whether the process runs
    shared,     \* the records that have left this store or a peer has written
    reply       \* the last answer of digests(), cleared by the next call

durable == <<records, table>>
volatile == <<counter, dirty, pending, open>>
vars == <<records, table, counter, dirty, pending, open, shared, reply>>

NoDigests == [p \in {} |-> {}]
SharedIds == IdsOf(shared)
Foreign == {e \in shared : e[2].client # Self}

Init ==
    /\ records = Empty
    /\ table = NoDigests
    /\ counter = 0
    /\ dirty = {}
    /\ pending = {}
    /\ open = FALSE
    /\ shared = {}
    /\ reply = NoDigests

-----------------------------------------------------------------------------
(* Local writes. *)

\* An id is a fresh UUID: no store holds it and nobody was ever sent it.
Fresh(i) == ~Holds(records, i) /\ i \notin SharedIds

\* Mutated Upsert: the record's id is marked stale instead of its page.
UpsertMarksId(i, deleted, value) ==
    LET r == [c |-> counter + 1, client |-> Self, deleted |-> deleted, value |-> value]
    IN  /\ counter < MaxCounter
        /\ counter' = counter + 1
        /\ records' = Merged(records, [j \in {i} |-> r])
        /\ pending' = pending \cup {i}

\* upsert of one locally written record, its version from next_clock.
Upsert(i, deleted, value) ==
    LET r == [c |-> counter + 1, client |-> Self, deleted |-> deleted, value |-> value]
    IN  /\ counter < MaxCounter
        /\ counter' = counter + 1
        /\ records' = Merged(records, [j \in {i} |-> r])
        /\ pending' = pending \cup {PageOf[i]}

\* An edit of a record the store holds, or the first write of a new one.
WriteLocal(i, deleted, value) ==
    /\ open
    /\ Holds(records, i) \/ Fresh(i)
    /\ Upsert(i, deleted, value)
    /\ dirty' = dirty \cup {i}
    /\ reply' = NoDigests
    /\ UNCHANGED <<table, open, shared>>

\* The records of a provisional page are new and are not marked for sending.
WriteLocalQuiet(i, value) ==
    /\ open
    /\ Fresh(i)
    /\ Upsert(i, FALSE, value)
    /\ reply' = NoDigests
    /\ UNCHANGED <<table, dirty, open, shared>>

MarkPageDirty(p) ==
    /\ open
    /\ dirty' = dirty \cup PageIds(records, p)
    /\ reply' = NoDigests
    /\ UNCHANGED <<records, table, counter, pending, open, shared>>

PurgeRecords(p) ==
    /\ open
    /\ records' = [i \in Ids |-> IF PageOf[i] = p THEN Absent ELSE records[i]]
    /\ table' = [q \in DOMAIN table \ {p} |-> table[q]]
    /\ pending' = pending \ {p}
    /\ reply' = NoDigests
    /\ UNCHANGED <<counter, open, shared>>

\* Mutated PurgePage: pages that were sent are purged too.
PurgeSentPage(p) ==
    /\ PurgeRecords(p)
    /\ dirty' = dirty \ PageIds(records, p)

\* Mutated PurgePage: the purged records stay in the dirty set.
PurgeKeepsDirty(p) ==
    /\ \A i \in SharedIds : PageOf[i] # p
    /\ PurgeRecords(p)
    /\ UNCHANGED dirty

\* The precondition is the one purge_page's comment states: nobody was ever
\* sent a record of the page.
PurgePage(p) ==
    /\ \A i \in SharedIds : PageOf[i] # p
    /\ PurgeRecords(p)
    /\ dirty' = dirty \ PageIds(records, p)

-----------------------------------------------------------------------------
(* Exchange with the sync layer. *)

\* Mutated Merge: what is merged does not raise the counter.
MergeKeepsCounter(batch) ==
    /\ open
    /\ records' = Merged(records, batch)
    /\ pending' = pending \cup {PageOf[i] : i \in Applied(records, batch)}
    /\ reply' = NoDigests
    /\ UNCHANGED <<table, counter, dirty, open, shared>>

Merge(batch) ==
    /\ open
    /\ \E m \in {counter} \cup BatchCounters(batch) :
          /\ IsGreatest(m, {counter} \cup BatchCounters(batch))
          /\ counter' = m
    /\ records' = Merged(records, batch)
    /\ pending' = pending \cup {PageOf[i] : i \in Applied(records, batch)}
    /\ reply' = NoDigests
    /\ UNCHANGED <<table, dirty, open, shared>>

TakeOutbound ==
    /\ open
    /\ dirty # {}
    /\ shared' = shared \cup {<<i, records[i]>> : i \in dirty \cap Held(records)}
    /\ dirty' = {}
    /\ reply' = NoDigests
    /\ UNCHANGED <<records, table, counter, pending, open>>

\* records_for_page, called to send the page in the handshake.
SendPage(p) ==
    /\ open
    /\ p \in KnownPages(records)
    /\ shared' = shared \cup {<<i, records[i]>> : i \in PageIds(records, p)}
    /\ reply' = NoDigests
    /\ UNCHANGED <<records, table, counter, dirty, pending, open>>

\* The rows of the `pages` table once the stale ones are recomputed.
Flushed ==
    [p \in DOMAIN table \cup pending |->
        IF p \in pending THEN Digest(records, p) ELSE table[p]]

\* Mutated HelloDigests: the table is read before the stale rows are recomputed.
HelloStale ==
    /\ open
    /\ table' = Flushed
    /\ pending' = {}
    /\ reply' = table
    /\ UNCHANGED <<records, counter, dirty, open, shared>>

\* digests(): flush_digests, then read the table.
HelloDigests ==
    /\ open
    /\ table' = Flushed
    /\ pending' = {}
    /\ reply' = table'
    /\ UNCHANGED <<records, counter, dirty, open, shared>>

-----------------------------------------------------------------------------
(* Crash and restart. *)

\* The process stops between two calls, or between the SQL statements of one:
\* a merge cut short is the merge of a part of its batch, and `table` is
\* rebuilt whatever it holds.
Crash ==
    /\ open
    /\ open' = FALSE
    /\ counter' = 0
    /\ dirty' = {}
    /\ pending' = {}
    /\ reply' = NoDigests
    /\ UNCHANGED <<records, table, shared>>

Restart ==
    /\ ~open
    /\ open' = TRUE
    /\ dirty' = {}
    /\ pending' = {}
    /\ reply' = NoDigests
    /\ UNCHANGED <<records, shared>>

RestoreCounter ==
    \E m \in {0} \cup StoreCounters(records) :
       /\ IsGreatest(m, {0} \cup StoreCounters(records))
       /\ counter' = m

\* Mutated Open: the digests of the last run are kept.
OpenKeepsTable ==
    /\ Restart
    /\ RestoreCounter
    /\ UNCHANGED table

\* Mutated Open: the counter starts again.
OpenFromZero ==
    /\ Restart
    /\ counter' = 0
    /\ table' = Digests(records)

\* open(): the counter resumes from the records, every digest is recomputed.
Open ==
    /\ Restart
    /\ RestoreCounter
    /\ table' = Digests(records)

-----------------------------------------------------------------------------
(* The peers. *)

\* A peer writes a record it created or was sent; it signs with its own id
\* and never uses a version twice for one record.
PeerWrite(i, r) ==
    /\ Cardinality(Foreign) < MaxForeign
    /\ r.client # Self
    /\ ~Holds(records, i) \/ i \in SharedIds
    /\ \A e \in shared : e[1] = i => Newer(r, e[2]) \/ Newer(e[2], r)
    /\ shared' = shared \cup {<<i, r>>}
    /\ reply' = NoDigests
    /\ UNCHANGED <<durable, volatile>>

PeerRecords == [c : 1 .. MaxCounter, client : Authors \ {Self}, deleted : BOOLEAN, value : Values]

Next ==
    \/ \E i \in Ids, deleted \in BOOLEAN, value \in Values : WriteLocal(i, deleted, value)
    \/ \E i \in Ids, value \in Values : WriteLocalQuiet(i, value)
    \/ \E p \in Pages : MarkPageDirty(p)
    \/ \E p \in Pages : PurgePage(p)
    \/ \E batch \in BatchesOf(shared) : Merge(batch)
    \/ TakeOutbound
    \/ \E p \in Pages : SendPage(p)
    \/ HelloDigests
    \/ Crash
    \/ Open
    \/ \E i \in Ids, r \in PeerRecords : PeerWrite(i, r)

Spec == Init /\ [][Next]_vars
-----------------------------------------------------------------------------
(* Properties. *)

Entries == Ids \X Record

\* A partial function from pages to digests.
IsTable(t) ==
    /\ DOMAIN t \subseteq Pages
    /\ t = [p \in DOMAIN t |-> t[p]]
    /\ \A p \in DOMAIN t : t[p] \subseteq Ids \X Nat \X Authors \X BOOLEAN

\* Every variable has its type.
TypeOK ==
    /\ records \in Stores
    /\ IsTable(table)
    /\ counter \in Nat
    /\ dirty \subseteq Ids
    /\ pending \subseteq Pages
    /\ open \in BOOLEAN
    /\ shared \subseteq Entries
    /\ IsTable(reply)

\* The digest cache is never stale where it is not known to be: a page outside
\* `pending` has a stored digest exactly when it has records, and it is the
\* digest of the records held now.  A stale digest would hide an edit from the
\* reconnect handshake (rebuild_digests, flush_digests, purge_page).
DigestsFresh ==
    open =>
        /\ pending \subseteq KnownPages(records)
        /\ DOMAIN table \cup pending = KnownPages(records)
        /\ \A p \in DOMAIN table \ pending : table[p] = Digest(records, p)

\* The Lamport counter is never behind a record held, across merges, purges and
\* restarts, so the version next_clock hands out outranks all of them.
CounterCovers == open => \A i \in Ids : counter >= records[i].c

\* What is held and what was ever sent or received agree on what a version of a
\* record is: two copies of an id with the same version have the same content.
\* Without this, a digest over (id, version) would call different pages equal
\* and last-write-wins would keep both.
VersionIdentifiesContent ==
    LET Copies == shared \cup {<<i, records[i]>> : i \in Held(records)}
    IN  \A a, b \in Copies :
            (a[1] = b[1] /\ a[2].c = b[2].c /\ a[2].client = b[2].client) => a = b

\* An id waiting to be sent is held, so taking the outbound batch sends every one.
DirtyIsHeld == dirty \subseteq Held(records)

\* A local write always takes effect: the guard of the upsert, whose answer
\* write_local ignores, never rejects it.
LocalWriteApplies ==
    [][\A i \in Ids, deleted \in BOOLEAN, value \in Values :
          WriteLocal(i, deleted, value) =>
             /\ records'[i].client = Self /\ records'[i].c = counter'
             /\ records'[i].deleted = deleted /\ records'[i].value = value]_vars

\* A record held is only ever replaced by a newer version of itself; only a
\* record nobody was sent may vanish.
RecordsOnlyAdvance ==
    [][\A i \in Ids :
          \/ records'[i] = records[i]
          \/ Newer(records'[i], records[i])
          \/ i \notin SharedIds]_vars

\* The cache, the counter and the crash handling are invisible: the store
\* behaves like LwwStore.
Abstract == INSTANCE LwwStore
AbstractSpec == Abstract!Spec
=============================================================================
