----------------------------- MODULE LinearUndo -----------------------------
(***************************************************************************)
(* What undo and redo promise one user: the states of the document lie on  *)
(* a line, undo steps back, redo steps forward, and an edit cuts off what  *)
(* lay ahead.  Module History is shown to implement this one while nobody  *)
(* else writes.                                                            *)
(***************************************************************************)
EXTENDS Sequences, Naturals

CONSTANT Docs       \* the visible states of a document

VARIABLES
    doc,        \* the document now
    past,       \* the states undo goes back to, the nearest last
    future      \* the states redo goes forward to, the nearest last

lineVars == <<doc, past, future>>

Front(s) == SubSeq(s, 1, Len(s) - 1)

Init == doc \in Docs /\ past = <<>> /\ future = <<>>

\* A new state, or the continuation of the edit made last.
Edit ==
    /\ doc' \in Docs
    /\ \/ past' = Append(past, doc)
       \/ past # <<>> /\ past' = past
    /\ future' = <<>>

\* An edit elsewhere cuts off what lay ahead, too.
Cut ==
    /\ future' = <<>>
    /\ UNCHANGED <<doc, past>>

Undo ==
    /\ past # <<>>
    /\ doc' = past[Len(past)]
    /\ past' = Front(past)
    /\ future' = Append(future, doc)

Redo ==
    /\ future # <<>>
    /\ doc' = future[Len(future)]
    /\ future' = Front(future)
    /\ past' = Append(past, doc)

Discard ==
    /\ doc' \in Docs
    /\ past' = <<>>
    /\ future' = <<>>

Next == Edit \/ Cut \/ Undo \/ Redo \/ Discard

Spec == Init /\ [][Next]_lineVars
=============================================================================
