------------------------------- MODULE MCApp --------------------------------
(***************************************************************************)
(* Small instances of App: three pages, and texts of at most two blocks.   *)
(***************************************************************************)
EXTENDS App

CONSTANT a

MCTitles == {a}
MCTexts == {<<>>, <<Blank>>, <<Blank, a>>}
=============================================================================
