-------------------------------- MODULE Lww --------------------------------
(***************************************************************************)
(* The record algebra shared by the client store (src/src/workspace.rs)    *)
(* and the server store (src/server/src/workspace.ts): versioned records,  *)
(* the guarded upsert that keeps the newer version of an id, and the       *)
(* per-page digest the two sides compare.                                  *)
(*                                                                         *)
(* A store maps every id to a record, or to Absent when it holds none.  A  *)
(* batch maps some ids to records: no frame of the protocol carries an id  *)
(* twice.  Everything a record holds beside its version and its tombstone  *)
(* flag (position, kind, runs, title) is one opaque value.                 *)
(***************************************************************************)
EXTENDS Naturals

CONSTANTS
    Ids,        \* record ids: page records and block records
    Pages,      \* page ids
    PageOf,     \* the page a record belongs to, fixed when the id is made
    Authors,    \* client ids, the server's among them
    Values      \* the contents a record can have

ASSUME PageOfAssumption == PageOf \in [Ids -> Pages]
ASSUME AuthorsAssumption == Authors \subseteq Nat

Record == [c : Nat \ {0}, client : Authors, deleted : BOOLEAN, value : Values]

\* A version below every version next_clock can issue.
Absent == [c |-> 0]

Stores == [Ids -> Record \cup {Absent}]

\* The batches that can be put together from a set of <<id, record>> pairs.
IdsOf(entries) == {e[1] : e \in entries}
BatchesOf(entries) ==
    {batch \in UNION {[S -> {e[2] : e \in entries}] : S \in SUBSET IdsOf(entries)} :
        \A i \in DOMAIN batch : <<i, batch[i]>> \in entries}

Empty == [i \in Ids |-> Absent]
Holds(store, i) == store[i] # Absent
Held(store) == {i \in Ids : Holds(store, i)}

\* (c, client) compared as the SQL row value of the upsert's WHERE clause.
Newer(r, s) ==
    \/ r.c > s.c
    \/ r.c = s.c /\ r.client > s.client

\* The ids of a batch the upsert accepts, and the store it leaves.
Applied(store, batch) == {i \in DOMAIN batch : Newer(batch[i], store[i])}
\* Mutated Merged: the upsert without its WHERE clause.
MergedOverwrite(store, batch) ==
    [i \in Ids |-> IF i \in DOMAIN batch THEN batch[i] ELSE store[i]]
Merged(store, batch) ==
    [i \in Ids |-> IF i \in Applied(store, batch) THEN batch[i] ELSE store[i]]

\* m is the greatest element of S.
IsGreatest(m, S) == m \in S /\ \A n \in S : m >= n

BatchCounters(batch) == {batch[i].c : i \in DOMAIN batch}
StoreCounters(store) == {store[i].c : i \in Ids}

\* A page's records, tombstones included, as one batch.
PageIds(store, p) == {i \in Held(store) : PageOf[i] = p}
PageBatch(store, p) == [i \in PageIds(store, p) |-> store[i]]
KnownPages(store) == {PageOf[i] : i \in Held(store)}

\* The digest hashes a page's (id, version, deleted) tuples; the hash is taken
\* to be injective, so a digest is the set of tuples itself.
Digest(store, p) ==
    {<<i, store[i].c, store[i].client, store[i].deleted>> : i \in PageIds(store, p)}
Digests(store) == [p \in KnownPages(store) |-> Digest(store, p)]

\* The pages of `mine` that `theirs` lacks or has another digest for.
Differing(mine, theirs) ==
    {p \in DOMAIN mine : p \notin DOMAIN theirs \/ theirs[p] # mine[p]}
=============================================================================
