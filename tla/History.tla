------------------------------ MODULE History ------------------------------
(***************************************************************************)
(* Undo and redo of one page: the stacks of src/src/history.rs, fed by the *)
(* edits of src/src/page.rs, over a store into which a peer's records are  *)
(* merged at any time.  Every edit of the page handle commits one record,  *)
(* so an entry holds one change.  The 750 ms in which an edit continues    *)
(* the last one are a choice: the edit continues it or it does not.        *)
(***************************************************************************)
EXTENDS Lww, Sequences, FiniteSets

CONSTANTS
    Self,           \* the user's client id
    Blank,          \* the content of an empty block and of a tombstone
    PeerIds,        \* the blocks peers write
    MaxCounter,     \* bound of the model: the largest version counter
    MaxPeerWrites   \* bound of the model: records merged from peers

ASSUME SelfAssumption == Self \in Authors
ASSUME BlankAssumption == Blank \in Values
ASSUME PeerIdsAssumption == PeerIds \subseteq Ids
ASSUME BoundsAssumption == MaxCounter \in Nat /\ MaxPeerWrites \in Nat

VARIABLES
    store,      \* the page's records
    counter,    \* Lamport counter
    undo,       \* entries to undo, the next one last
    redo,       \* entries to redo, the next one last
    peerSeen,   \* history: the counter of the newest peer write of each block
    peerWrites  \* bound of the model: peer writes so far

vars == <<store, counter, undo, redo, peerSeen, peerWrites>>

Keys == {"typing", "none"}

\* The record to write, with the version next_clock gives it.
Stamped(deleted, value) ==
    [c |-> counter + 1, client |-> Self, deleted |-> deleted, value |-> value]

Init ==
    /\ store = Empty
    /\ counter = 0
    /\ undo = <<>>
    /\ redo = <<>>
    /\ peerSeen = [i \in Ids |-> 0]
    /\ peerWrites = 0

-----------------------------------------------------------------------------
(* Edits. *)

\* write_local: a fresh version always wins (module Workspace, LocalWriteApplies).
WriteLocal(i, r) ==
    /\ counter < MaxCounter
    /\ counter' = counter + 1
    /\ store' = [store EXCEPT ![i] = r]

\* An edit with a key continues the last entry if that has the same one; text
\* edits are keyed by their block.
Continues(change, key) ==
    /\ key = "typing"
    /\ undo # <<>>
    /\ undo[Len(undo)].key = key
    /\ undo[Len(undo)].id = change.id

NewEntry(change, key) ==
    [id |-> change.id, before |-> change.before, after |-> change.after, key |-> key]

\* Mutated Push: a continued entry goes back to where its last edit began.
PushLastBefore(change, key) ==
    /\ \/ undo' = Append(undo, NewEntry(change, key))
       \/ Continues(change, key) /\ undo' = [undo EXCEPT ![Len(undo)] = NewEntry(change, key)]
    /\ redo' = <<>>

Push(change, key) ==
    /\ \/ undo' = Append(undo, NewEntry(change, key))
       \/ Continues(change, key) /\ undo' = [undo EXCEPT ![Len(undo)].after = change.after]
    /\ redo' = <<>>

\* commit: write the record, remember the transition.
Commit(i, r, key) ==
    /\ WriteLocal(i, r)
    /\ Push([id |-> i, before |-> store[i], after |-> r], key)
    /\ UNCHANGED <<peerSeen, peerWrites>>

\* Typing.
SetText(i, value) ==
    /\ Holds(store, i)
    /\ store[i].value # value
    /\ Commit(i, Stamped(FALSE, value), "typing")

\* Another kind or other marks.
SetKind(i, value) ==
    /\ Holds(store, i)
    /\ store[i].value # value
    /\ Commit(i, Stamped(FALSE, value), "none")

\* A block under a new id.
InsertBlock(i) ==
    /\ ~Holds(store, i)
    /\ Commit(i, Stamped(FALSE, Blank), "none")

RemoveBlock(i) ==
    /\ Holds(store, i)
    /\ Commit(i, Stamped(TRUE, Blank), "none")

-----------------------------------------------------------------------------
(* Undo and redo. *)

\* A peer's version of the record blocks the entry.
Applicable(e) == ~Holds(store, e.id) \/ store[e.id].client = Self

\* The entry apply_top stops at: those above it are popped and discarded.
IsChosen(stack, k) ==
    /\ k \in DOMAIN stack
    /\ Applicable(stack[k])
    /\ \A l \in k + 1 .. Len(stack) : ~Applicable(stack[l])

\* Mutated Reverted: the record as it was, version and author included.
RevertedAsIs(e) == IF e.before = Absent THEN Stamped(TRUE, Blank) ELSE e.before

\* What applying entry e writes: the record as it was before, or the tombstone
\* of one that did not exist, with a fresh version.
Reverted(e) ==
    IF e.before = Absent THEN Stamped(TRUE, Blank)
                         ELSE Stamped(e.before.deleted, e.before.value)

\* The transition back, for the opposite stack.
Inverted(e) ==
    [id |-> e.id, before |-> e.after, after |-> Reverted(e), key |-> "none"]

\* apply_top finds nothing it may apply: the stack is emptied.
Exhausted(stack) == stack # <<>> /\ \A k \in DOMAIN stack : ~Applicable(stack[k])

Undo ==
    /\ \/ \E k \in DOMAIN undo :
             /\ IsChosen(undo, k)
             /\ WriteLocal(undo[k].id, Reverted(undo[k]))
             /\ undo' = SubSeq(undo, 1, k - 1)
             /\ redo' = Append(redo, Inverted(undo[k]))
       \/ Exhausted(undo) /\ undo' = <<>> /\ UNCHANGED <<store, counter, redo>>
    /\ UNCHANGED <<peerSeen, peerWrites>>

Redo ==
    /\ \/ \E k \in DOMAIN redo :
             /\ IsChosen(redo, k)
             /\ WriteLocal(redo[k].id, Reverted(redo[k]))
             /\ redo' = SubSeq(redo, 1, k - 1)
             /\ undo' = Append(undo, Inverted(redo[k]))
       \/ Exhausted(redo) /\ redo' = <<>> /\ UNCHANGED <<store, counter, undo>>
    /\ UNCHANGED <<peerSeen, peerWrites>>

-----------------------------------------------------------------------------
(* The rest of the store. *)

\* A newer record of a peer is merged.
PeerWrite(i, r) ==
    /\ peerWrites < MaxPeerWrites
    /\ peerWrites' = peerWrites + 1
    /\ r.client # Self
    /\ Newer(r, store[i])
    /\ store' = [store EXCEPT ![i] = r]
    /\ counter' \in {counter, r.c}
    /\ \A m \in {counter, r.c} : counter' >= m
    /\ peerSeen' = [peerSeen EXCEPT ![i] = r.c]
    /\ UNCHANGED <<undo, redo>>

\* Mutated Purge: the page's history is not forgotten.
PurgeKeepsHistory ==
    /\ store' = Empty
    /\ peerSeen' = [i \in Ids |-> 0]
    /\ UNCHANGED <<counter, undo, redo, peerWrites>>

\* The page is removed outright and its history forgotten.
Purge ==
    /\ store' = Empty
    /\ undo' = <<>>
    /\ redo' = <<>>
    /\ peerSeen' = [i \in Ids |-> 0]
    /\ UNCHANGED <<counter, peerWrites>>

PeerRecords == [c : 1 .. MaxCounter, client : Authors \ {Self}, deleted : BOOLEAN, value : Values]

Next ==
    \/ \E i \in Ids, value \in Values : SetText(i, value)
    \/ \E i \in Ids, value \in Values : SetKind(i, value)
    \/ \E i \in Ids : InsertBlock(i)
    \/ \E i \in Ids : RemoveBlock(i)
    \/ Undo
    \/ Redo
    \/ \E i \in PeerIds, r \in PeerRecords : PeerWrite(i, r)
    \/ Purge

Spec == Init /\ [][Next]_vars

-----------------------------------------------------------------------------
(* Properties. *)

IsEntry(e) ==
    /\ e.id \in Ids
    /\ e.before \in Record \cup {Absent}
    /\ e.after \in Record
    /\ e.after.client = Self
    /\ e.key \in Keys

\* Every variable has its type; an entry's `after` is the user's own record.
TypeOK ==
    /\ store \in Stores
    /\ counter \in Nat
    /\ \A k \in DOMAIN undo : IsEntry(undo[k])
    /\ \A k \in DOMAIN redo : IsEntry(redo[k])
    /\ peerSeen \in [Ids -> Nat]
    /\ peerWrites \in 0 .. MaxPeerWrites

\* Undo and redo only ever touch blocks the store holds, so nothing they write
\* brings a purged page back (purge_page, History::forget).
EntriesHeld ==
    /\ \A k \in DOMAIN undo : Holds(store, undo[k].id)
    /\ \A k \in DOMAIN redo : Holds(store, redo[k].id)

\* An undo or redo restores nothing older than the last peer write of the block:
\* "scoped to your own edits, so it never clobbers a peer" (README.md:25).
BeforeClock(e) == IF e.before = Absent THEN 0 ELSE e.before.c
NoPeerLost(stack) ==
    \A k \in DOMAIN stack :
        IsChosen(stack, k) => BeforeClock(stack[k]) >= peerSeen[stack[k].id]
NeverClobbers == [][(Undo => NoPeerLost(undo)) /\ (Redo => NoPeerLost(redo))]_vars

-----------------------------------------------------------------------------
(* Refinement: the blocks peers leave alone. *)

OwnIds == Ids \ PeerIds
Content(r) == IF r = Absent \/ r.deleted THEN <<>> ELSE <<r.value>>

Visible(s) == [i \in OwnIds |-> Content(s[i])]

\* The entries about them, and the n-th of these.
OwnEntries(stack) == {k \in DOMAIN stack : stack[k].id \in OwnIds}
Rank(stack, k) == Cardinality({l \in OwnEntries(stack) : l <= k})
Nth(stack, n) == CHOOSE k \in {l \in OwnEntries(stack) : Rank(stack, l) = n} : TRUE

\* The visible document of store s with the entries from k on undone: a block
\* goes back to where the first of them found it.
Firsts(stack, k, i) ==
    {l \in k .. Len(stack) : stack[l].id = i /\ \A m \in k .. l - 1 : stack[m].id # i}
Unwound(s, stack, k) ==
    [i \in OwnIds |->
        IF \E l \in k .. Len(stack) : stack[l].id = i
          THEN Content(stack[CHOOSE l \in Firsts(stack, k, i) : TRUE].before)
          ELSE Content(s[i])]
Line(s, stack) ==
    [n \in 1 .. Cardinality(OwnEntries(stack)) |-> Unwound(s, stack, Nth(stack, n))]

\* On the blocks peers leave alone undo and redo walk a line of states, whatever
\* peers do to the others, however edits are continued and entries skipped.
Linear == INSTANCE LinearUndo WITH
    Docs <- [OwnIds -> {<<>>} \cup {<<v>> : v \in Values}],
    doc <- Visible(store),
    past <- Line(store, undo),
    future <- Line(store, redo)
LinearSpec == Linear!Spec
=============================================================================
