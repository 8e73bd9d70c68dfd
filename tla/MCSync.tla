------------------------------- MODULE MCSync -------------------------------
(***************************************************************************)
(* Small instances of Sync: two editors whose client ids lie on both sides *)
(* of the server's.                                                        *)
(***************************************************************************)
EXTENDS Sync

CONSTANTS s1, s3, p, b, x

MCPages == {s1, s3, p}
MCIds == MCPages \cup {b}
MCPageOf == [i \in MCIds |-> IF i = b THEN s1 ELSE i]
MCAuthors == Clients \cup {Server}
MCValues == {x}
MCSeedOf == [c \in Clients |-> IF c = 1 THEN s1 ELSE s3]
MCTwo == {1, 3}
=============================================================================
