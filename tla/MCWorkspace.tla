---------------------------- MODULE MCWorkspace ----------------------------
(***************************************************************************)
(* A small instance of Workspace: a page with a page record and a block,   *)
(* and a second page, with one peer of a larger client id.                 *)
(***************************************************************************)
EXTENDS Workspace

CONSTANTS p1, p2, b1, x

MCIds == {p1, p2, b1}
MCPages == {p1, p2}
MCPageOf == [i \in MCIds |-> IF i = b1 THEN p1 ELSE i]
MCAuthors == {1, 2}
MCValues == {x}
=============================================================================
