----------------------------- MODULE Positions -----------------------------
(***************************************************************************)
(* The order of a page's blocks as two writers shape it: the editor        *)
(* (src/src/page.rs) and an agent (src/server/src/mcp/blocks.ts), each on  *)
(* its own copy of the page.  A block gets its position when it is made    *)
(* and keeps it, also when a removal is undone or loses to a newer edit; a *)
(* copy lists its live blocks by position, then by id.  The copies         *)
(* exchange what they have at any time, and the server may die inside a    *)
(* call of the agent.  The page itself exists throughout.                  *)
(***************************************************************************)
EXTENDS Fractional, SequencesExt

CONSTANTS
    Blocks,     \* block ids, as numbers: their order settles ties
    Editor, Agent,
    MaxBatch    \* blocks in one call of the agent (a bound)

ASSUME BoundsAssumption == Blocks \subseteq Nat /\ MaxBatch \in Nat

Writers == {Editor, Agent}

VARIABLES
    pos,        \* block -> its position, for the blocks made so far
    known,      \* writer -> the blocks its copy of the page has
    gone        \* writer -> those of them it knows to be deleted

vars == <<pos, known, gone>>

Made == DOMAIN pos
Live(w) == known[w] \ gone[w]

\* block_records: ORDER BY position, id.
Precedes(at, a, b) == Below(at[a], at[b]) \/ (at[a] = at[b] /\ a < b)
Place(at, blocks, b) == Cardinality({c \in blocks : c = b \/ Precedes(at, c, b)})
Listed(at, blocks) ==
    [n \in 1 .. Cardinality(blocks) |-> CHOOSE b \in blocks : Place(at, blocks, b) = n]

Order(w) == Listed(pos, Live(w))

Init ==
    /\ pos = [b \in {} |-> NoKey]
    /\ known = [w \in Writers |-> {}]
    /\ gone = [w \in Writers |-> {}]

\* New blocks, in this order, at these positions.
Make(w, blocks, keys) ==
    /\ known' = [known EXCEPT ![w] = @ \cup ToSet(blocks)]
    /\ pos' = [b \in Made \cup ToSet(blocks) |->
                  IF b \in Made THEN pos[b] ELSE keys[CHOOSE i \in DOMAIN blocks : blocks[i] = b]]

\* Ids are random, so any id may come next.
FreshBlocks(count) ==
    {s \in [1 .. count -> Blocks \ Made] : IsInjective(s)}

\* The positions of the blocks around an index, and the one for a new block.
PositionAt(list, index) ==
    LET lower == IF index > 0 THEN pos[list[index]] ELSE NoKey
        upper == IF index < Len(list) THEN pos[list[index + 1]] ELSE NoKey
        key == Between(lower, upper)
    IN  IF key # NoKey THEN key
        ELSE IF lower # NoKey THEN NewAfter(lower) ELSE DefaultKey

\* An index beyond the end means the end; one such index is enough.
Indices(w) == 0 .. Cardinality(Live(w)) + 1
Bounded(list, index) == IF index > Len(list) THEN Len(list) ELSE index

\* Mutated InsertBlock: the bounds are those of the block before.
InsertEarly(w, index, b) ==
    LET list == Order(w)
    IN  /\ Make(w, <<b>>, <<PositionAt(list, Bounded(list, IF index > 0 THEN index - 1 ELSE 0))>>)
        /\ UNCHANGED gone

\* insert_block of both sides: a block that is to stand at an index.
InsertBlock(w, index, b) ==
    LET list == Order(w)
    IN  /\ Make(w, <<b>>, <<PositionAt(list, Bounded(list, index))>>)
        /\ UNCHANGED gone

\* count keys, each after the one before.
KeysFrom(start, count) ==
    LET key[i \in 1 .. count] == IF i = 1 THEN start ELSE NewAfter(key[i - 1])
    IN  key

\* Mutated AppendStart: after the first block.
AppendStartFirst(w) ==
    IF Live(w) = {} THEN DefaultKey ELSE NewAfter(pos[Head(Order(w))])
AppendStart(w) ==
    IF Live(w) = {} THEN DefaultKey ELSE NewAfter(pos[Last(Order(w))])

AppendBlocks(blocks) ==
    /\ Make(Agent, blocks, KeysFrom(AppendStart(Agent), Len(blocks)))
    /\ UNCHANGED gone

ReplaceBlocks(blocks) ==
    /\ Make(Agent, blocks, KeysFrom(DefaultKey, Len(blocks)))
    /\ gone' = [gone EXCEPT ![Agent] = known[Agent]]

RemoveBlock(w, b) ==
    /\ b \in Live(w)
    /\ gone' = [gone EXCEPT ![w] = @ \cup {b}]
    /\ UNCHANGED <<pos, known>>

\* The editor undoes a removal, or redoes an insertion: the block is back where
\* it was.
RestoreBlock(b) ==
    /\ b \in gone[Editor]
    /\ gone' = [gone EXCEPT ![Editor] = @ \ {b}]
    /\ UNCHANGED <<pos, known>>

\* The agent's tools.  Both refuse to leave the document empty; a document is
\* created with at least a paragraph, and nothing is there to be replaced.  The
\* index of a deletion only names one of the blocks of the list.
ReplaceDocument(blocks) ==
    /\ blocks # <<>>
    /\ ReplaceBlocks(blocks)

CreateDocument(blocks) ==
    /\ Made = {}
    /\ ReplaceDocument(blocks)

DeleteBlock(b) ==
    /\ Cardinality(Live(Agent)) > 1
    /\ RemoveBlock(Agent, b)

\* The server dies inside replaceBlocks, where each write is a statement of its
\* own: some of the tombstones are stored, or all of them and a part of the new
\* blocks.  A call of appendBlocks that is cut off is a shorter one.
ReplaceCutOff(blocks) ==
    \/ ReplaceBlocks(blocks)
    \/ /\ blocks = <<>>
       /\ LET list == Order(Agent)
          IN  \E stored \in 1 .. Len(list) - 1 :
                 gone' = [gone EXCEPT ![Agent] = @ \cup ToSet(SubSeq(list, 1, stored))]
       /\ UNCHANGED <<pos, known>>

\* One copy gets what the other has.  Where one has a block and the other its
\* tombstone the newer write decides, which may be an edit of the block (Sync
\* says how): either may win.
Exchange(w, v) ==
    LET disputed == {b \in known[w] \cap known[v] : (b \in gone[w]) # (b \in gone[v])}
    IN  /\ w # v
        /\ known' = [known EXCEPT ![w] = @ \cup known[v]]
        /\ \E alive \in SUBSET disputed :
              gone' = [gone EXCEPT ![w] = (@ \cup gone[v]) \ alive]
        /\ UNCHANGED pos

Next ==
    \/ \E w \in Writers : \E b \in Blocks \ Made, index \in Indices(w) : InsertBlock(w, index, b)
    \/ \E count \in 1 .. MaxBatch : \E blocks \in FreshBlocks(count) :
          CreateDocument(blocks) \/ AppendBlocks(blocks) \/ ReplaceDocument(blocks)
    \/ \E b \in Blocks : DeleteBlock(b)
    \/ \E count \in 0 .. MaxBatch - 1 : \E blocks \in FreshBlocks(count) : ReplaceCutOff(blocks)
    \/ \E b \in Blocks : RemoveBlock(Editor, b) \/ RestoreBlock(b)
    \/ \E w, v \in Writers : Exchange(w, v)

Spec == Init /\ [][Next]_vars
-----------------------------------------------------------------------------
(* Properties. *)

\* Every variable has its type; every position is a key, so both sides can parse
\* it.
TypeOK ==
    /\ Made \subseteq Blocks
    /\ \A b \in Made : pos[b] \in Seq(Bytes) /\ IsKey(pos[b])
    /\ known \in [Writers -> SUBSET Made]
    /\ \A w \in Writers : gone[w] \subseteq known[w]

\* Between any two different positions there is always room for another, and it
\* is strictly between them: no sequence of insertions uses up the keys.
AlwaysRoom ==
    \A a, b \in Made :
        Below(pos[a], pos[b]) =>
            LET key == Between(pos[a], pos[b])
            IN  IsKey(key) /\ Below(pos[a], key) /\ Below(key, pos[b])

\* A block inserted at an index stands there, and no other block of the copy has
\* its position, unless the two blocks around that index share theirs: two
\* copies inserted at one place, or a removal was undone after its place had been
\* given away.
Twins(list, index) ==
    /\ 0 < index /\ index < Len(list)
    /\ pos[list[index]] = pos[list[index + 1]]
InsertLands ==
    [][\A w \in Writers : \A b \in known'[w] \ Made, index \in Indices(w) :
          LET list == Order(w)
          IN  InsertBlock(w, index, b) /\ ~Twins(list, index) =>
                 /\ Order(w)' = InsertAt(list, Bounded(list, index) + 1, b)
                 /\ \A c \in Live(w) : pos'[c] # pos'[b]]_vars

\* What an agent appends comes after the page's blocks, in the order given; what
\* it replaces the page with is then the whole page, in the order given, also when
\* it repeats a replacement that was cut off or blocks of it came back.
BatchesInOrder ==
    [][Made' # Made => \A blocks \in SetToSeqs(Made' \ Made) :
          /\ AppendBlocks(blocks) => Order(Agent)' = Order(Agent) \o blocks
          /\ ReplaceDocument(blocks) => Order(Agent)' = blocks]_vars
=============================================================================
