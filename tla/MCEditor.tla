----------------------------- MODULE MCEditor -----------------------------
(***************************************************************************)
(* A small instance of Editor.  Two characters of two bytes, beginning with*)
(* the same byte, stand for the marker and for "/"; where neither means    *)
(* anything special they stand for any two characters.  Others write no    *)
(* text, one with an empty run, or one in two runs with the same marks.    *)
(***************************************************************************)
EXTENDS Editor

MCBytes == {"c", "1", "2"}
MCMarks == {Bold}
MCContinuations == {"1", "2"}
MCMarker == <<"c", "1">>
MCSlash == <<"c", "2">>
MCChars == {MCMarker, MCSlash}
MCLabelled == {<<>>}
MCPages == {<<>>} \cup {<<Block(id, Paragraph, <<>>)>> : id \in Ids}
MCPeerRuns ==
    {<<>>, <<Run(MCSlash, {Bold}), Run(<<>>, {})>>, <<Run(MCSlash, {}), Run(MCMarker, {})>>}
Symmetry == Permutations(Ids)
=============================================================================
