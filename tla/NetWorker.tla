----------------------------- MODULE NetWorker -----------------------------
(***************************************************************************)
(* The thread that keeps one websocket in step with the UI's outgoing      *)
(* frames (src/src/net).  The UI appends to an unbounded channel and never *)
(* waits; the worker connects, retries after a pause, replays what it took *)
(* from the channel meanwhile, then alternates between sending what is     *)
(* queued and reading one frame.  Dropping the handle queues a last item.  *)
(*                                                                         *)
(* Frames are numbered in the order the UI sends them.  A socket may be    *)
(* dead before the worker sees an error: writes into it are lost.  At the  *)
(* other end src/server/src/hub.ts keeps the connection in the set it      *)
(* broadcasts to until its heartbeat misses a pong.                        *)
(* A connection the worker has given up is no longer followed there.       *)
(***************************************************************************)
EXTENDS Naturals, Sequences

CONSTANTS
    MaxFrames,      \* bound of the model: frames the UI sends
    MaxAnswers,     \* bound of the model: frames the server sends
    MaxBreaks       \* bound of the model: connections that break

ASSUME BoundsAssumption ==
    MaxFrames \in Nat /\ MaxAnswers \in Nat /\ MaxBreaks \in Nat

Frames == 1 .. MaxFrames
Shutdown == 0

VARIABLES
    handle,     \* the UI's SyncClient: "alive", "dropping" or "gone"
    sent,       \* frames the UI has sent so far
    channel,    \* Bridge items the worker has not taken
    deferred,   \* frames taken while there was no connection
    pc,         \* where the worker is in its loop
    link,       \* its socket: "none", "up", or "dead" before that is noticed
    wire,       \* frames written to the socket that the server has not read
    received,   \* what the server read: frames with the connection they came by
    conn,       \* connections made so far
    answers,    \* frames the server has sent so far
    downlink,   \* what the server sent on the connection: frames, pings, a close
    signals,    \* what the worker told the UI, with the connection it is about
    member,     \* whether the connection is in the hub's set
    ponged,     \* whether a member's pong has come since the hub's last ping
    pong        \* whether a pong is on the wire

uiVars == <<handle, sent>>
netVars == <<link, wire, received>>
hubVars == <<member, ponged, pong>>
downVars == <<conn, answers, downlink, signals, hubVars>>
vars == <<uiVars, channel, deferred, pc, netVars, downVars>>

Init ==
    /\ handle = "alive" /\ sent = 0
    /\ channel = <<>> /\ deferred = <<>>
    /\ pc = "connecting"
    /\ link = "none" /\ wire = <<>> /\ received = <<>>
    /\ conn = 0 /\ answers = 0 /\ downlink = <<>> /\ signals = <<>>
    /\ member = FALSE /\ ponged = FALSE /\ pong = FALSE

-----------------------------------------------------------------------------
(* The UI thread. *)

Send ==
    /\ handle = "alive"
    /\ sent < MaxFrames
    /\ sent' = sent + 1
    /\ channel' = Append(channel, sent')
    /\ UNCHANGED <<handle, deferred, pc, netVars, downVars>>

BeginDrop ==
    /\ handle = "alive"
    /\ handle' = "dropping"
    /\ channel' = Append(channel, Shutdown)
    /\ UNCHANGED <<sent, deferred, pc, netVars, downVars>>

\* The UI joins a worker that stopped in time and detaches any other.
EndDrop ==
    /\ handle = "dropping"
    /\ handle' = "gone"
    /\ UNCHANGED <<sent, channel, deferred, pc, netVars, downVars>>

-----------------------------------------------------------------------------
(* Connecting: connect_with_backoff. *)

\* The TCP connection stands; the websocket handshake is still to come.
TcpConnect ==
    /\ pc = "connecting"
    /\ pc' = "handshaking"
    /\ UNCHANGED <<uiVars, channel, deferred, netVars, downVars>>

ConnectFails ==
    /\ pc \in {"connecting", "handshaking"}
    /\ pc' = "waiting"
    /\ UNCHANGED <<uiVars, channel, deferred, netVars, downVars>>

\* The hub takes the connection into its set and starts its heartbeat.
Accept == member' = TRUE /\ ponged' = TRUE

Established ==
    /\ pc = "handshaking"
    /\ conn <= MaxBreaks
    /\ conn' = conn + 1
    /\ link' = "up"
    /\ Accept
    /\ UNCHANGED <<uiVars, channel, deferred, wire, received, answers, downlink, pong>>

\* Mutated HandshakeOk: what was deferred is not replayed.
HandshakeSkipsReplay ==
    /\ Established
    /\ pc' = "draining"
    /\ signals' = Append(signals, [kind |-> "connected", conn |-> conn'])

\* Mutated HandshakeOk: only the first connection is announced.
HandshakeQuietAgain ==
    /\ Established
    /\ pc' = "replaying"
    /\ signals' = IF conn = 0 THEN Append(signals, [kind |-> "connected", conn |-> conn'])
                              ELSE signals

HandshakeOk ==
    /\ Established
    /\ pc' = "replaying"
    /\ signals' = Append(signals, [kind |-> "connected", conn |-> conn'])

Waiting == pc = "waiting" /\ channel # <<>>

Keep ==
    /\ Waiting /\ Head(channel) # Shutdown
    /\ channel' = Tail(channel)
    /\ UNCHANGED <<uiVars, pc, netVars, downVars>>

\* Mutated Defer: the frame goes before those deferred earlier.
DeferFirst ==
    /\ Keep
    /\ deferred' = <<Head(channel)>> \o deferred

Defer ==
    /\ Keep
    /\ deferred' = Append(deferred, Head(channel))

\* Mutated StopWaiting: the pause takes the end of the channel for a frame.
DeferShutdown ==
    /\ Waiting /\ Head(channel) = Shutdown
    /\ channel' = Tail(channel)
    /\ deferred' = Append(deferred, Head(channel))
    /\ UNCHANGED <<uiVars, pc, netVars, downVars>>

StopWaiting ==
    /\ Waiting /\ Head(channel) = Shutdown
    /\ pc' = "stopped"
    /\ channel' = <<>> /\ deferred' = <<>>
    /\ UNCHANGED <<uiVars, netVars, downVars>>

PauseOver ==
    /\ pc = "waiting"
    /\ pc' = "connecting"
    /\ UNCHANGED <<uiVars, channel, deferred, netVars, downVars>>

-----------------------------------------------------------------------------
(* Connected: the loop of run. *)

\* A write is accepted by a socket that is up, and perhaps by a dead one.
Write(f) ==
    /\ link # "none"
    /\ wire' = Append(wire, f)
    /\ UNCHANGED <<link, received>>

\* The socket goes, with what is on it; the hub's side is followed no further.
Drop ==
    /\ link' = "none"
    /\ wire' = <<>> /\ downlink' = <<>>
    /\ member' = FALSE /\ ponged' = FALSE /\ pong' = FALSE

\* The worker starts over with a new socket.
Reconnect ==
    /\ Drop
    /\ pc' = "connecting"
    /\ UNCHANGED <<uiVars, received, conn, answers, signals>>

\* The worker sees the socket fail.
Lose == link = "dead" /\ Reconnect

Replay ==
    /\ pc = "replaying" /\ deferred # <<>>
    /\ Write(Head(deferred))
    /\ deferred' = Tail(deferred)
    /\ UNCHANGED <<uiVars, channel, pc, downVars>>

\* The frames behind the one that failed are discarded with it.
ReplayFails ==
    /\ pc = "replaying" /\ deferred # <<>>
    /\ Lose
    /\ deferred' = <<>>
    /\ UNCHANGED channel

Replayed ==
    /\ pc = "replaying" /\ deferred = <<>>
    /\ pc' = "draining"
    /\ UNCHANGED <<uiVars, channel, deferred, netVars, downVars>>

Drain ==
    /\ pc = "draining" /\ channel # <<>> /\ Head(channel) # Shutdown
    /\ Write(Head(channel))
    /\ channel' = Tail(channel)
    /\ UNCHANGED <<uiVars, deferred, pc, downVars>>

DrainFails ==
    /\ pc = "draining" /\ channel # <<>> /\ Head(channel) # Shutdown
    /\ Lose
    /\ channel' = Tail(channel)
    /\ UNCHANGED deferred

\* Closing a socket does not call back what was written to it.
StopDraining ==
    /\ pc = "draining" /\ channel # <<>> /\ Head(channel) = Shutdown
    /\ pc' = "stopped"
    /\ channel' = Tail(channel)
    /\ UNCHANGED <<uiVars, deferred, netVars, downVars>>

Drained ==
    /\ pc = "draining" /\ channel = <<>>
    /\ pc' = "reading"
    /\ UNCHANGED <<uiVars, channel, deferred, netVars, downVars>>

Arrives(item) == pc = "reading" /\ downlink # <<>> /\ Head(downlink) = item

Read ==
    /\ Arrives("frame")
    /\ downlink' = Tail(downlink)
    /\ signals' = Append(signals, [kind |-> "message", conn |-> conn])
    /\ pc' = "draining"
    /\ UNCHANGED <<uiVars, channel, deferred, netVars, conn, answers, hubVars>>

ReadPing ==
    /\ Arrives("ping")
    /\ downlink' = Tail(downlink)
    /\ pong' = (link = "up")
    /\ pc' = "draining"
    /\ UNCHANGED <<uiVars, channel, deferred, netVars, conn, answers, signals, member, ponged>>

ReadClose ==
    /\ Arrives("close")
    /\ Reconnect
    /\ UNCHANGED <<channel, deferred>>

ReadTimesOut ==
    /\ pc = "reading" /\ downlink = <<>>
    /\ pc' = "draining"
    /\ UNCHANGED <<uiVars, channel, deferred, netVars, downVars>>

ReadFails ==
    /\ pc = "reading"
    /\ Lose
    /\ UNCHANGED <<channel, deferred>>

-----------------------------------------------------------------------------
(* The network, the server and the end of the process. *)

Deliver ==
    /\ link = "up" /\ wire # <<>>
    /\ received' = Append(received, [frame |-> Head(wire), conn |-> conn])
    /\ wire' = Tail(wire)
    /\ UNCHANGED <<uiVars, channel, deferred, pc, link, downVars>>

Answer ==
    /\ link = "up" /\ member /\ answers < MaxAnswers
    /\ answers' = answers + 1
    /\ downlink' = Append(downlink, "frame")
    /\ UNCHANGED <<uiVars, channel, deferred, pc, netVars, conn, signals, hubVars>>

\* The hub's timer: a pong came since the last ping, so it sends the next one.
Ping ==
    /\ link = "up" /\ member /\ ponged
    /\ ponged' = FALSE
    /\ downlink' = Append(downlink, "ping")
    /\ UNCHANGED <<uiVars, channel, deferred, pc, netVars, conn, answers, signals, member, pong>>

Pong ==
    /\ link = "up" /\ pong
    /\ ponged' = member
    /\ pong' = FALSE
    /\ UNCHANGED <<uiVars, channel, deferred, pc, netVars, conn, answers, downlink, signals, member>>

\* The next timer went off before the pong came.
Outlived == link = "up" /\ member /\ ~ponged /\ conn <= MaxBreaks

\* Mutated Forget: the connection leaves the set and stays open.
ForgetOpen ==
    /\ Outlived
    /\ member' = FALSE /\ ponged' = FALSE
    /\ UNCHANGED <<uiVars, channel, deferred, pc, netVars, conn, answers, downlink, signals, pong>>

Forget ==
    /\ Outlived
    /\ member' = FALSE /\ ponged' = FALSE
    /\ downlink' = Append(downlink, "close")
    /\ UNCHANGED <<uiVars, channel, deferred, pc, netVars, conn, answers, signals, pong>>

\* The connection is lost, or the server stops: what had arrived may still be
\* read.  The hub learns of it, or finds out with its heartbeat; either way the
\* connection is of no use from now on.
Break ==
    /\ link = "up" /\ conn <= MaxBreaks
    /\ link' = "dead"
    /\ \E k \in 0 .. Len(downlink) : downlink' = SubSeq(downlink, 1, k)
    /\ member' = FALSE /\ ponged' = FALSE /\ pong' = FALSE
    /\ UNCHANGED <<uiVars, channel, deferred, pc, wire, received, conn, answers, signals>>

\* The process ends and takes a detached worker with it.
Exit ==
    /\ handle = "gone" /\ pc # "stopped"
    /\ pc' = "stopped"
    /\ channel' = <<>> /\ deferred' = <<>>
    /\ Drop
    /\ UNCHANGED <<uiVars, received, conn, answers, signals>>

Worker ==
    \/ TcpConnect \/ ConnectFails \/ HandshakeOk
    \/ Defer \/ StopWaiting \/ PauseOver
    \/ Replay \/ ReplayFails \/ Replayed
    \/ Drain \/ DrainFails \/ StopDraining \/ Drained
    \/ Read \/ ReadPing \/ ReadClose \/ ReadTimesOut \/ ReadFails

Next ==
    \/ Send \/ BeginDrop \/ EndDrop
    \/ Worker
    \/ Deliver \/ Answer \/ Break
    \/ Ping \/ Pong \/ Forget
    \/ Exit

Spec == Init /\ [][Next]_vars

\* The worker runs; a pause, which begins by looking at the channel, takes what
\* it finds; a server that accepts answers the websocket handshake or closes;
\* and it can be reached again and again.
FairSpec ==
    /\ Spec
    /\ WF_vars(Worker)
    /\ SF_vars(Defer) /\ SF_vars(StopWaiting)
    /\ SF_vars(TcpConnect) /\ SF_vars(HandshakeOk)
-----------------------------------------------------------------------------
(* Properties. *)

\* Every variable has its type; in particular the end of the channel is never
\* mistaken for a frame.
TypeOK ==
    /\ handle \in {"alive", "dropping", "gone"} /\ sent \in 0 .. MaxFrames
    /\ channel \in Seq(Frames \cup {Shutdown})
    /\ deferred \in Seq(Frames)
    /\ pc \in {"connecting", "handshaking", "waiting", "replaying", "draining",
               "reading", "stopped"}
    /\ link \in {"none", "up", "dead"}
    /\ wire \in Seq(Frames)
    /\ received \in Seq([frame : Frames, conn : Nat])
    /\ conn \in Nat /\ answers \in Nat
    /\ downlink \in Seq({"frame", "ping", "close"})
    /\ {member, ponged, pong} \subseteq BOOLEAN
    /\ signals \in Seq([kind : {"connected", "message"}, conn : Nat])

\* Within one connection the server reads the frames in the order they were
\* sent and without a gap: frames are only ever lost together with a connection,
\* and the handshake of the next one makes up for them.
GapsOnlyAtBreaks ==
    \A i \in 1 .. Len(received) - 1 :
        LET a == received[i]
            b == received[i + 1]
        IN  a.frame < b.frame /\ (a.conn = b.conn => b.frame = a.frame + 1)

\* The UI learns of every connection, once, before it gets a frame of it, and
\* gets no frame of an older one after that: it answers each with one hello.
ConnectionsAnnounced ==
    \A i \in 1 .. Len(signals) :
        LET before == IF i = 1 THEN 0 ELSE signals[i - 1].conn
        IN  signals[i].conn =
                IF signals[i].kind = "connected" THEN before + 1 ELSE before

\* A worker told to stop does, wherever it is in its loop.
WorkerStops == handle # "alive" ~> pc = "stopped"

\* No frame stays behind in the worker: while the server can be reached, each
\* is written to a socket or lost with one.
Queued(f) ==
    \/ \E i \in 1 .. Len(channel) : channel[i] = f
    \/ \E i \in 1 .. Len(deferred) : deferred[i] = f
NoFrameStuck == \A f \in Frames : Queued(f) ~> ~Queued(f)

\* No worker stays on a connection that the hub no longer sends frames to: who
\* is forgotten is told so, and connects again or ends (hub.ts forget, accept;
\* client.rs run).
NotDeaf == link = "up" /\ ~member ~> link # "up" \/ pc = "stopped"

\* The frames in a channel: nothing comes after the shutdown.
Items(s) == IF s # <<>> /\ s[Len(s)] = Shutdown THEN SubSeq(s, 1, Len(s) - 1) ELSE s

\* The worker is one lossy queue to those who use it.
Queue == INSTANCE FrameQueue WITH
    queue <- wire \o deferred \o Items(channel),
    connected <- link # "none",
    received <- [i \in 1 .. Len(received) |-> received[i].frame]
QueueSpec == Queue!Spec
=============================================================================
