------------------------------ MODULE LwwStore ------------------------------
(***************************************************************************)
(* What a store promises its callers, with no counter and no digest cache: *)
(* a local write outranks every record held, a merge keeps the newer       *)
(* version of each id, a record vanishes only if nobody was ever sent it,  *)
(* and the digests handed to the handshake are those of the records held   *)
(* at that moment.  Module Workspace is shown to implement this one.       *)
(***************************************************************************)
EXTENDS Lww

CONSTANT Self       \* the client id this store signs its writes with

VARIABLES
    records,    \* the store
    dirty,      \* ids written here and not yet taken for sending
    open,       \* whether the process runs
    shared,     \* every <<id, record>> that has left or could reach this store
    reply       \* what the last digests() call answered, if that was the last step

absVars == <<records, dirty, open, shared, reply>>

NoDigests == [p \in {} |-> {}]
SharedIds == IdsOf(shared)

Init ==
    /\ records = Empty
    /\ dirty = {}
    /\ open = FALSE
    /\ shared = {}
    /\ reply = NoDigests

\* A local write gets a version above every record held.
Write(i) ==
    /\ records'[i] \in Record
    /\ records'[i].client = Self
    /\ \A j \in Ids : records'[i].c > records[j].c
    /\ records' = [records EXCEPT ![i] = records'[i]]
    /\ dirty' \in {dirty, dirty \cup {i}}
    /\ reply' = NoDigests
    /\ UNCHANGED <<open, shared>>

\* Incoming records replace the held ones they outrank.
Receive ==
    \E batch \in BatchesOf(shared) :
       /\ records' = Merged(records, batch)
       /\ reply' = NoDigests
       /\ UNCHANGED <<dirty, open, shared>>

\* Records nobody was sent may be removed outright.
Purge(p) ==
    /\ \A i \in SharedIds : PageOf[i] # p
    /\ records' = [i \in Ids |-> IF PageOf[i] = p THEN Absent ELSE records[i]]
    /\ dirty' = {i \in dirty : PageOf[i] # p}
    /\ reply' = NoDigests
    /\ UNCHANGED <<open, shared>>

MarkDirty(p) ==
    /\ dirty' = dirty \cup PageIds(records, p)
    /\ reply' = NoDigests
    /\ UNCHANGED <<records, open, shared>>

\* Some of the held records leave the store.
Send(S) ==
    /\ S \subseteq Held(records)
    /\ shared' = shared \cup {<<i, records[i]>> : i \in S}
    /\ dirty' \in {dirty, {}}
    /\ dirty' = {} => dirty \subseteq S
    /\ reply' = NoDigests
    /\ UNCHANGED <<records, open>>

Answer ==
    /\ reply' = Digests(records)
    /\ UNCHANGED <<records, dirty, open, shared>>

\* Other replicas write and what they write may be delivered here later.
Foreign ==
    /\ shared \subseteq shared'
    /\ \A e \in shared' \ shared : e[2].client # Self
    /\ reply' = NoDigests
    /\ UNCHANGED <<records, dirty, open>>

Stop ==
    /\ open' = FALSE
    /\ dirty' = {}
    /\ reply' = NoDigests
    /\ UNCHANGED <<records, shared>>

Start ==
    /\ ~open
    /\ open' = TRUE
    /\ reply' = NoDigests
    /\ UNCHANGED <<records, dirty, shared>>

Next ==
    \/ open /\ \E i \in Ids : Write(i)
    \/ open /\ Receive
    \/ open /\ \E p \in Pages : Purge(p) \/ MarkDirty(p)
    \/ open /\ \E S \in SUBSET Ids : Send(S)
    \/ open /\ Answer
    \/ Foreign
    \/ open /\ Stop
    \/ Start

Spec == Init /\ [][Next]_absVars
=============================================================================
