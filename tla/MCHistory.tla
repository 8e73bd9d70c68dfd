----------------------------- MODULE MCHistory -----------------------------
(***************************************************************************)
(* A small instance of History: a block of the user's own and one that a   *)
(* peer of a larger client id writes too.                                  *)
(***************************************************************************)
EXTENDS History

CONSTANTS p, b1, b2, blank, x

MCIds == {b1, b2}
MCPages == {p}
MCPageOf == [i \in MCIds |-> p]
MCAuthors == {1, 2}
MCValues == {blank, x}
MCPeerIds == {b2}
=============================================================================
