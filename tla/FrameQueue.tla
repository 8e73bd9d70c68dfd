----------------------------- MODULE FrameQueue -----------------------------
(***************************************************************************)
(* What the network worker promises the sync layer about outgoing frames:  *)
(* one queue, delivered from its head while connected; a connection that   *)
(* ends takes some of the oldest frames with it, never one from the middle *)
(* of what it delivered and never one twice.  Module Sync assumes this of  *)
(* its outboxes; module NetWorker is shown to implement it.                *)
(***************************************************************************)
EXTENDS Naturals, Sequences

CONSTANT Frames

VARIABLES
    queue,      \* frames handed over and not yet delivered or lost
    connected,  \* whether a connection can deliver them
    received    \* frames the server got, oldest first

queueVars == <<queue, connected, received>>

Init ==
    /\ queue = <<>>
    /\ connected = FALSE
    /\ received = <<>>

Send(f) ==
    /\ queue' = Append(queue, f)
    /\ UNCHANGED <<connected, received>>

Deliver ==
    /\ connected /\ queue # <<>>
    /\ received' = Append(received, Head(queue))
    /\ queue' = Tail(queue)
    /\ UNCHANGED connected

Connect ==
    /\ ~connected
    /\ connected' = TRUE
    /\ UNCHANGED <<queue, received>>

Break ==
    /\ connected
    /\ connected' = FALSE
    /\ \E lost \in 0 .. Len(queue) : queue' = SubSeq(queue, lost + 1, Len(queue))
    /\ UNCHANGED received

\* The worker ends without a connection: nothing more will be delivered.
Close ==
    /\ ~connected
    /\ queue' = <<>>
    /\ UNCHANGED <<connected, received>>

Next ==
    \/ \E f \in Frames : Send(f)
    \/ Deliver
    \/ Connect
    \/ Break
    \/ Close

Spec == Init /\ [][Next]_queueVars
=============================================================================
