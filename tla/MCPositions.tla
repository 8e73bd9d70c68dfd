---------------------------- MODULE MCPositions ----------------------------
(***************************************************************************)
(* A small instance of Positions.  Four byte values around a terminator    *)
(* leave one or two on each side, so a few insertions at one place run out *)
(* of single bytes and lengthen the keys.                                  *)
(***************************************************************************)
EXTENDS Positions

\* Ids never run out.  Once this instance has used its own up no position is
\* given any more, and what the copies do then is not followed further.
IdsLeft == Made # Blocks
=============================================================================
