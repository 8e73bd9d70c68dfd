--------------------------- MODULE NetWorkerProofs ---------------------------
(***************************************************************************)
(* Proofs about NetWorker, for every bound: the types, the order of what   *)
(* the server reads, the announcements, and the queue the worker is to the *)
(* sync layer.  The argument is one of lengths: whatever the worker does,  *)
(* the frames on the wire, the deferred ones and those in the channel are, *)
(* put together, the frames sent last, each once and in order.             *)
(***************************************************************************)
EXTENDS NetWorker, SequenceTheorems, TLAPS

-----------------------------------------------------------------------------
(* The inductive invariant. *)

\* Frames in the channel, with the deferred ones, and with those on the wire.
InChannel == Len(Items(channel))
Waited == Len(deferred) + InChannel
Pending == Len(wire) + Waited

\* s holds the frames from `before + 1` on.
Consecutive(s, before) == \A k \in 1 .. Len(s) : s[k] = before + k

\* The three queues hold the last Pending frames sent, oldest on the wire.
InOrder ==
    /\ Pending <= sent
    /\ Consecutive(Items(channel), sent - InChannel)
    /\ Consecutive(deferred, sent - Waited)
    /\ Consecutive(wire, sent - Pending)

\* The shutdown is queued last, by a handle that sends no more.
EndsOnce == handle = "alive" => Items(channel) = channel

\* Where the worker is in its loop, what it has and whether it has a socket.
Places ==
    /\ pc \in {"connecting", "handshaking", "waiting"} => link = "none"
    /\ pc \in {"replaying", "draining", "reading"} => link # "none"
    /\ pc \in {"draining", "reading", "stopped"} => deferred = <<>>
    /\ link = "none" => wire = <<>>

\* What was read last came before what is pending, and right before it if it
\* came by the connection that is still there.
ReadBefore ==
    received # <<>> =>
        LET last == received[Len(received)]
        IN  /\ last.conn <= conn
            /\ last.frame <= sent - Pending
            /\ last.conn = conn /\ link # "none" => last.frame = sent - Pending

\* The last signal is about the last connection.
Announced == IF signals = <<>> THEN conn = 0 ELSE signals[Len(signals)].conn = conn

Inv ==
    /\ TypeOK
    /\ InOrder /\ EndsOnce /\ Places
    /\ ReadBefore /\ GapsOnlyAtBreaks
    /\ Announced /\ ConnectionsAnnounced

-----------------------------------------------------------------------------
(* Sequences. *)

\* What the provers know of a sequence of numbers and its head and tail.
LEMMA TailFacts ==
    ASSUME NEW S, NEW s \in Seq(S), s # <<>>
    PROVE  /\ Tail(s) \in Seq(S) /\ Head(s) \in S /\ Head(s) = s[1]
           /\ Len(s) \in Nat \ {0}
           /\ Len(Tail(s)) = Len(s) - 1
           /\ \A k \in 1 .. Len(Tail(s)) : Tail(s)[k] = s[k + 1]
BY HeadTailProperties

LEMMA NumberSeq ==
    \A s \in Seq(Nat) :
        /\ Len(s) \in Nat
        /\ s = <<>> <=> Len(s) = 0
        /\ \A k \in 1 .. Len(s) : s[k] \in Nat
<1> SUFFICES ASSUME NEW s \in Seq(Nat)
             PROVE  /\ Len(s) \in Nat
                    /\ s = <<>> <=> Len(s) = 0
                    /\ \A k \in 1 .. Len(s) : s[k] \in Nat
  OBVIOUS
<1> QED BY EmptySeq, LenProperties

LEMMA PartOf ==
    ASSUME NEW s \in Seq(Nat), NEW m \in 1 .. Len(s) + 1, NEW n \in 0 .. Len(s)
    PROVE  /\ SubSeq(s, m, n) \in Seq(Nat)
           /\ Len(SubSeq(s, m, n)) = IF m <= n THEN n - m + 1 ELSE 0
           /\ \A k \in 1 .. n - m + 1 : SubSeq(s, m, n)[k] = s[m + k - 1]
<1>1. \A k \in m .. n : s[k] \in Nat
  BY NumberSeq
<1> QED BY <1>1, SubSeqProperties

\* The frames of a channel that has not been told to stop are all of it; being
\* told to stop adds no frame.
LEMMA ItemsAppend ==
    ASSUME NEW s \in Seq(Nat), Items(s) = s, NEW f \in Nat \ {0}
    PROVE  /\ Items(Append(s, f)) = Append(s, f)
           /\ Items(Append(s, Shutdown)) = s
<1>1. /\ Append(s, f) \in Seq(Nat) /\ Append(s, f)[Len(Append(s, f))] = f
      /\ Append(s, 0) \in Seq(Nat) /\ Append(s, 0)[Len(Append(s, 0))] = 0
      /\ Len(Append(s, 0)) = Len(s) + 1
  OBVIOUS
<1>2. SubSeq(Append(s, 0), 1, Len(s)) = s
  <2> DEFINE t == SubSeq(Append(s, 0), 1, Len(s))
  <2>1. t \in Seq(Nat) /\ Len(t) = Len(s) /\ \A i \in 1 .. Len(s) : t[i] = s[i]
    BY <1>1
  <2> HIDE DEF t
  <2> QED BY <2>1, SeqEqual
<1>3. Append(s, 0) # <<>> /\ Append(s, f) # <<>> /\ Len(Append(s, 0)) - 1 = Len(s)
  BY <1>1
<1> QED BY <1>1, <1>2, <1>3 DEF Items, Shutdown

\* Taking a frame from a channel takes the first of its frames.
LEMMA ItemsTail ==
    ASSUME NEW s \in Seq(Nat), s # <<>>, Head(s) # Shutdown
    PROVE  /\ Items(s) \in Seq(Nat) /\ Items(s) # <<>>
           /\ Head(Items(s)) = Head(s)
           /\ Items(Tail(s)) = Tail(Items(s))
<1>1. CASE s[Len(s)] = Shutdown
  <2>1. Len(s) > 1
    BY <1>1
  <2>2. Items(s) = SubSeq(s, 1, Len(s) - 1)
    BY <1>1 DEF Items
  <2>3. Tail(s) # <<>> /\ Tail(s)[Len(Tail(s))] = Shutdown /\ Len(Tail(s)) = Len(s) - 1
    BY <1>1, <2>1
  <2>4. Items(Tail(s)) = SubSeq(Tail(s), 1, Len(s) - 2)
    BY <2>3 DEF Items
  <2> DEFINE t == SubSeq(s, 1, Len(s) - 1)
             u == SubSeq(Tail(s), 1, Len(s) - 2)
  <2>5. /\ t \in Seq(Nat) /\ Len(t) = Len(s) - 1
        /\ \A i \in 1 .. Len(s) - 1 : t[i] = s[i]
    BY <2>1
  <2>6. /\ u \in Seq(Nat) /\ Len(u) = Len(s) - 2
        /\ \A i \in 1 .. Len(s) - 2 : u[i] = s[i + 1]
    <3> DEFINE r == Tail(s)
               n == Len(s) - 2
    <3>1. /\ r \in Seq(Nat) /\ n \in Nat /\ n = Len(r) - 1
          /\ \A i \in 1 .. n : r[i] = s[i + 1]
      BY <2>1, <2>3, TailFacts
    <3> HIDE DEF r, n
    <3>2. /\ SubSeq(r, 1, n) \in Seq(Nat) /\ Len(SubSeq(r, 1, n)) = n
          /\ \A i \in 1 .. n : SubSeq(r, 1, n)[i] = r[i]
      BY <3>1, NumberSeq, PartOf
    <3> QED BY <3>1, <3>2 DEF r, n
  <2> HIDE DEF t, u
  <2>7. t # <<>> /\ Head(t) = Head(s)
    BY <2>1, <2>5
  <2>8. Tail(t) \in Seq(Nat) /\ Len(Tail(t)) = Len(s) - 2
        /\ \A i \in 1 .. Len(s) - 2 : Tail(t)[i] = s[i + 1]
    BY <2>5, <2>7, TailFacts
  <2>9. u = Tail(t)
    BY <2>6, <2>8, SeqEqual
  <2> QED BY <2>2, <2>4, <2>5, <2>7, <2>9 DEF t, u
<1>2. CASE s[Len(s)] # Shutdown
  <2>1. Items(s) = s
    BY <1>2 DEF Items
  <2>2. Tail(s) = <<>> \/ Tail(s)[Len(Tail(s))] = s[Len(s)]
    OBVIOUS
  <2>3. Items(Tail(s)) = Tail(s)
    BY <1>2, <2>2 DEF Items
  <2> QED BY <2>1, <2>3
<1> QED BY <1>1, <1>2

LEMMA ItemsType ==
    ASSUME NEW s \in Seq(Nat)
    PROVE  Items(s) \in Seq(Nat) /\ Len(Items(s)) \in Nat /\ Items(<<>>) = <<>>
BY DEF Items

\* A shutdown at the head of a channel in order is all there is.
LEMMA ItemsAtEnd ==
    ASSUME NEW s \in Seq(Nat), s # <<>>, Head(s) = Shutdown,
           NEW n \in Nat, Consecutive(Items(s), n)
    PROVE  Items(s) = <<>> /\ Tail(s) = <<>>
<1>1. Len(s) = 1
  <2> SUFFICES ASSUME Len(s) # 1 PROVE FALSE
    OBVIOUS
  <2>1. Len(s) \in Nat /\ Len(s) > 1
    <3>1. \A k \in Nat \ {0, 1} : k > 1
      OBVIOUS
    <3>2. Len(s) \in Nat \ {0, 1}
      BY NumberSeq
    <3> QED BY <3>1, <3>2
  <2>2. s[1] = 0
    BY TailFacts DEF Shutdown
  <2>3. /\ Len(SubSeq(s, 1, Len(s) - 1)) = Len(s) - 1
        /\ SubSeq(s, 1, Len(s) - 1)[1] = s[1]
    BY <2>1
  <2>4. Items(s)[1] = 0 /\ 1 \in 1 .. Len(Items(s))
    BY <2>1, <2>2, <2>3 DEF Items
  <2> QED BY <2>4 DEF Consecutive
<1>2. s[Len(s)] = Shutdown
  BY <1>1
<1>3. Tail(s) = <<>>
  BY <1>1, TailFacts, NumberSeq
<1>4. SubSeq(s, 1, Len(s) - 1) = <<>>
  BY <1>1, SubSeqEmpty
<1> QED BY <1>2, <1>3, <1>4 DEF Items

LEMMA ConsecutiveTail ==
    ASSUME NEW s \in Seq(Nat), s # <<>>, NEW n \in Nat, Consecutive(s, n)
    PROVE  Head(s) = n + 1 /\ Consecutive(Tail(s), n + 1)
BY TailFacts DEF Consecutive

LEMMA ConsecutiveAppend ==
    ASSUME NEW s \in Seq(Nat), NEW n \in Nat, Consecutive(s, n)
    PROVE  Consecutive(Append(s, n + Len(s) + 1), n)
BY DEF Consecutive

LEMMA ConsecutiveEmpty == \A n : Consecutive(<<>>, n)
BY DEF Consecutive

-----------------------------------------------------------------------------
(* Types. *)

LEMMA InitInv == Init => Inv
<1> SUFFICES ASSUME Init PROVE Inv
  OBVIOUS
<1>1. {member, ponged, pong} \subseteq BOOLEAN
  BY Zenon DEF Init
<1>2. TypeOK
  BY <1>1, BoundsAssumption DEF Init, TypeOK
<1>3. InOrder /\ EndsOnce /\ Places
  BY DEF Init, InOrder, Pending, Waited, InChannel, Items, Consecutive, EndsOnce, Places
<1>4. ReadBefore /\ GapsOnlyAtBreaks /\ Announced /\ ConnectionsAnnounced
  BY DEF Init, ReadBefore, GapsOnlyAtBreaks, Announced, ConnectionsAnnounced
<1> QED BY <1>2, <1>3, <1>4 DEF Inv

\* A socket that goes leaves nothing of the connection.
LEMMA DropTypes ==
    ASSUME Drop
    PROVE  /\ link' \in {"none", "up", "dead"} /\ wire' \in Seq(Frames)
           /\ downlink' \in Seq({"frame", "ping", "close"})
           /\ {member', ponged', pong'} \subseteq BOOLEAN
<1>1. {member', ponged', pong'} \subseteq BOOLEAN
  BY Zenon DEF Drop
<1> QED BY <1>1 DEF Drop

LEMMA TypeStep == TypeOK /\ [Next]_vars => TypeOK'
<1> SUFFICES ASSUME TypeOK, [Next]_vars PROVE TypeOK'
  OBVIOUS
<1> USE BoundsAssumption DEF TypeOK, uiVars, netVars, hubVars, downVars
<1>1. CASE Send
  <2>1. sent' \in 0 .. MaxFrames /\ sent' \in Frames
    BY <1>1 DEF Send, Frames
  <2> QED BY <1>1, <2>1 DEF Send
<1>2. CASE BeginDrop
  BY <1>2 DEF BeginDrop
<1>3. CASE EndDrop
  BY <1>3 DEF EndDrop
<1>4. CASE TcpConnect \/ ConnectFails \/ PauseOver \/ Replayed \/ Drained \/ ReadTimesOut
  BY <1>4 DEF TcpConnect, ConnectFails, PauseOver, Replayed, Drained, ReadTimesOut
<1>5. CASE HandshakeOk
  BY <1>5 DEF HandshakeOk, Established, Accept
<1>6. CASE Defer
  <2>1. Head(channel) \in Frames /\ Tail(channel) \in Seq(Frames \cup {Shutdown})
    BY <1>6, TailFacts DEF Defer, Keep, Waiting
  <2> QED BY <1>6, <2>1 DEF Defer, Keep
<1>7. CASE StopWaiting
  BY <1>7 DEF StopWaiting
<1>8. CASE Replay
  <2>1. Head(deferred) \in Frames /\ Tail(deferred) \in Seq(Frames)
    BY <1>8, TailFacts DEF Replay
  <2> QED BY <1>8, <2>1 DEF Replay, Write
<1>9. CASE ReplayFails
  BY <1>9, DropTypes DEF ReplayFails, Lose, Reconnect
<1>10. CASE Drain
  <2>1. Head(channel) \in Frames /\ Tail(channel) \in Seq(Frames \cup {Shutdown})
    BY <1>10, TailFacts DEF Drain
  <2> QED BY <1>10, <2>1 DEF Drain, Write
<1>11. CASE DrainFails
  <2>1. Tail(channel) \in Seq(Frames \cup {Shutdown})
    BY <1>11, TailFacts DEF DrainFails
  <2> QED BY <1>11, <2>1, DropTypes DEF DrainFails, Lose, Reconnect
<1>12. CASE StopDraining
  <2>1. Tail(channel) \in Seq(Frames \cup {Shutdown})
    BY <1>12, TailFacts DEF StopDraining
  <2> QED BY <1>12, <2>1 DEF StopDraining
<1>13. CASE Read
  <2>1. Tail(downlink) \in Seq({"frame", "ping", "close"})
    BY <1>13, TailFacts DEF Read, Arrives
  <2> QED BY <1>13, <2>1 DEF Read, Arrives
<1>14. CASE ReadPing
  <2>1. Tail(downlink) \in Seq({"frame", "ping", "close"})
    BY <1>14, TailFacts DEF ReadPing, Arrives
  <2> QED BY <1>14, <2>1 DEF ReadPing, Arrives
<1>15. CASE ReadClose
  BY <1>15, DropTypes DEF ReadClose, Reconnect
<1>16. CASE ReadFails
  BY <1>16, DropTypes DEF ReadFails, Lose, Reconnect
<1>17. CASE Deliver
  <2>1. Head(wire) \in Frames /\ Tail(wire) \in Seq(Frames)
    BY <1>17, TailFacts DEF Deliver
  <2> QED BY <1>17, <2>1 DEF Deliver
<1>18. CASE Answer \/ Ping \/ Pong \/ Forget
  <2>1. {member', ponged', pong'} \subseteq BOOLEAN
    BY <1>18, Zenon DEF Answer, Ping, Pong, Forget
  <2>2. \A item \in {"frame", "ping", "close"} :
            Append(downlink, item) \in Seq({"frame", "ping", "close"})
    OBVIOUS
  <2>3. downlink' \in Seq({"frame", "ping", "close"})
    BY <1>18, <2>2, Zenon DEF Answer, Ping, Pong, Forget
  <2>4. answers' \in Nat
    BY <1>18 DEF Answer, Ping, Pong, Forget
  <2> QED BY <1>18, <2>1, <2>3, <2>4 DEF Answer, Ping, Pong, Forget
<1>19. CASE Break
  <2>1. \A k \in 0 .. Len(downlink) : SubSeq(downlink, 1, k) \in Seq({"frame", "ping", "close"})
    OBVIOUS
  <2> QED BY <1>19, <2>1 DEF Break
<1>20. CASE Exit
  BY <1>20, DropTypes DEF Exit
<1>21. CASE UNCHANGED vars
  BY <1>21 DEF vars
<1> QED
  BY <1>1, <1>2, <1>3, <1>4, <1>5, <1>6, <1>7, <1>8, <1>9, <1>10, <1>11, <1>12, <1>13,
     <1>14, <1>15, <1>16, <1>17, <1>18, <1>19, <1>20, <1>21 DEF Next, Worker

-----------------------------------------------------------------------------
(* The three queues. *)

LEMMA Numbers ==
    ASSUME TypeOK
    PROVE  /\ channel \in Seq(Nat) /\ deferred \in Seq(Nat) /\ wire \in Seq(Nat)
           /\ Items(channel) \in Seq(Nat)
           /\ sent \in Nat /\ conn \in Nat
           /\ InChannel \in Nat /\ Waited \in Nat /\ Pending \in Nat
           /\ Len(wire) \in Nat /\ Len(deferred) \in Nat
<1>1. Frames \subseteq Nat /\ Frames \cup {Shutdown} \subseteq Nat
  BY DEF Frames, Shutdown
<1>2. channel \in Seq(Nat) /\ deferred \in Seq(Nat) /\ wire \in Seq(Nat)
  BY <1>1, SeqMonotonic DEF TypeOK
<1>3. Items(channel) \in Seq(Nat) /\ Len(Items(channel)) \in Nat
  BY <1>2, ItemsType
<1>4. Len(wire) \in Nat /\ Len(deferred) \in Nat
  BY <1>2, NumberSeq
<1> QED BY <1>2, <1>3, <1>4, BoundsAssumption DEF InChannel, Waited, Pending, TypeOK

\* Only four actions move a frame from one queue to the next or to the server;
\* the others add one at the end, leave all as they are, or lose some of the
\* oldest.
Same == UNCHANGED <<deferred, wire, sent>> /\ Items(channel') = Items(channel)

LEMMA SameInOrder ==
    ASSUME InOrder, Same
    PROVE  InOrder' /\ Pending' = Pending
BY DEF InOrder, Same, Pending, Waited, InChannel

\* A frame is sent: it comes last.
LEMMA SendInOrder ==
    ASSUME TypeOK, InOrder, EndsOnce, Send
    PROVE  InOrder' /\ Pending' = Pending + 1
<1>1. Items(channel) = channel /\ channel \in Seq(Nat) /\ sent' \in Nat \ {0}
  BY Numbers DEF EndsOnce, Send
<1>2. Items(channel') = Append(channel, sent + 1)
  BY <1>1, ItemsAppend DEF Send
<1>3. Consecutive(Append(channel, sent + 1), sent - InChannel)
  <2>1. sent - InChannel \in Nat /\ Consecutive(channel, sent - InChannel)
    BY <1>1, Numbers DEF InOrder, Pending, Waited
  <2>2. (sent - InChannel) + Len(channel) + 1 = sent + 1
    BY <1>1, Numbers DEF InChannel
  <2> HIDE DEF InChannel
  <2> QED BY <1>1, <2>1, <2>2, ConsecutiveAppend
<1>4. InChannel' = InChannel + 1
  BY <1>1, <1>2 DEF InChannel
<1>5. Waited' = Waited + 1 /\ Pending' = Pending + 1 /\ sent' = sent + 1
  <2>1. sent' = sent + 1 /\ Len(deferred') = Len(deferred) /\ Len(wire') = Len(wire)
    BY DEF Send, netVars
  <2>2. Waited' = Waited + 1
    BY <1>4, <2>1, Numbers DEF Waited
  <2>3. Pending' = Pending + 1
    BY <2>1, <2>2, Numbers DEF Pending
  <2> QED BY <2>1, <2>2, <2>3
<1>6. UNCHANGED <<deferred, wire>>
  BY DEF Send, netVars
<1>7. /\ sent' - InChannel' = sent - InChannel /\ sent' - Waited' = sent - Waited
      /\ sent' - Pending' = sent - Pending /\ Pending' <= sent'
  <2>1. Pending <= sent
    BY DEF InOrder
  <2>2. sent \in Nat /\ InChannel \in Nat /\ Waited \in Nat /\ Pending \in Nat
    BY Numbers
  <2>3. sent' - InChannel' = sent - InChannel /\ sent' - Waited' = sent - Waited
    BY <1>4, <1>5, <2>2
  <2>4. sent' - Pending' = sent - Pending /\ Pending' <= sent'
    BY <1>5, <2>1, <2>2
  <2> QED BY <2>3, <2>4
<1> QED BY <1>2, <1>3, <1>5, <1>6, <1>7 DEF InOrder

\* A frame is deferred.
LEMMA DeferInOrder ==
    ASSUME TypeOK, InOrder, Defer
    PROVE  InOrder' /\ Pending' = Pending
<1>1. /\ channel \in Seq(Nat) /\ channel # <<>> /\ Head(channel) # Shutdown
      /\ channel' = Tail(channel) /\ deferred' = Append(deferred, Head(channel))
      /\ UNCHANGED <<wire, sent>>
  BY Numbers DEF Defer, Keep, Waiting, uiVars, netVars
<1> DEFINE items == Items(channel)
<1>2. /\ items \in Seq(Nat) /\ items # <<>> /\ Head(items) = Head(channel)
      /\ Items(channel') = Tail(items)
  BY <1>1, ItemsTail
<1>3. sent - InChannel \in Nat /\ Consecutive(items, sent - InChannel)
  BY Numbers DEF InOrder, Pending, Waited
<1>4. Head(items) = (sent - InChannel) + 1 /\ Consecutive(Tail(items), (sent - InChannel) + 1)
  <2> HIDE DEF items, InChannel
  <2> QED BY <1>2, <1>3, ConsecutiveTail
<1>5. InChannel' = InChannel - 1
  BY <1>2, TailFacts DEF InChannel
<1>6. Len(deferred') = Len(deferred) + 1
  BY <1>1, Numbers
<1>7. Waited' = Waited /\ Pending' = Pending
  <2>1. Waited' = Waited
    BY <1>5, <1>6, Numbers DEF Waited
  <2> QED BY <1>1, <2>1 DEF Pending
<1>8. Consecutive(deferred', sent - Waited)
  <2>1. sent - Waited \in Nat /\ Consecutive(deferred, sent - Waited)
    BY Numbers DEF InOrder, Pending
  <2>2. (sent - Waited) + Len(deferred) + 1 = Head(channel)
    BY <1>2, <1>4, Numbers DEF Waited
  <2>3. Consecutive(Append(deferred, (sent - Waited) + Len(deferred) + 1), sent - Waited)
    <3> HIDE DEF Waited
    <3> QED BY <2>1, Numbers, ConsecutiveAppend
  <2> QED BY <1>1, <2>2, <2>3
<1>9. sent' - InChannel' = (sent - InChannel) + 1
  BY <1>1, <1>5, Numbers
<1> QED BY <1>1, <1>2, <1>4, <1>7, <1>8, <1>9 DEF InOrder

\* A deferred frame is written.
LEMMA ReplayInOrder ==
    ASSUME TypeOK, InOrder, Replay
    PROVE  InOrder' /\ Pending' = Pending
<1>1. /\ deferred \in Seq(Nat) /\ deferred # <<>> /\ wire \in Seq(Nat)
      /\ deferred' = Tail(deferred) /\ wire' = Append(wire, Head(deferred))
      /\ UNCHANGED <<channel, sent>>
  BY Numbers DEF Replay, Write, uiVars
<1>2. sent - Waited \in Nat /\ Consecutive(deferred, sent - Waited)
  BY Numbers DEF InOrder, Pending
<1>3. Head(deferred) = (sent - Waited) + 1 /\ Consecutive(Tail(deferred), (sent - Waited) + 1)
  <2> HIDE DEF Waited
  <2> QED BY <1>1, <1>2, ConsecutiveTail
<1>4. Len(deferred') = Len(deferred) - 1 /\ Len(wire') = Len(wire) + 1
  BY <1>1, TailFacts
<1>5. InChannel' = InChannel
  BY <1>1 DEF InChannel
<1>6. Waited' = Waited - 1 /\ Pending' = Pending
  <2>1. Waited' = Waited - 1
    BY <1>4, <1>5, Numbers DEF Waited
  <2> QED BY <1>4, <2>1, Numbers DEF Pending
<1>7. Consecutive(wire', sent - Pending)
  <2>1. sent - Pending \in Nat /\ Consecutive(wire, sent - Pending)
    BY Numbers DEF InOrder
  <2>2. (sent - Pending) + Len(wire) + 1 = Head(deferred)
    BY <1>3, Numbers DEF Pending
  <2>3. Consecutive(Append(wire, (sent - Pending) + Len(wire) + 1), sent - Pending)
    <3> HIDE DEF Pending
    <3> QED BY <2>1, Numbers, ConsecutiveAppend
  <2> QED BY <1>1, <2>2, <2>3
<1>8. sent' - Waited' = (sent - Waited) + 1
  BY <1>1, <1>6, Numbers
<1> QED BY <1>1, <1>3, <1>5, <1>6, <1>7, <1>8 DEF InOrder

\* A frame goes from the channel straight to the socket.
LEMMA DrainInOrder ==
    ASSUME TypeOK, InOrder, Places, Drain
    PROVE  InOrder' /\ Pending' = Pending
<1>1. /\ channel \in Seq(Nat) /\ channel # <<>> /\ Head(channel) # Shutdown
      /\ channel' = Tail(channel) /\ wire' = Append(wire, Head(channel))
      /\ deferred = <<>> /\ deferred' = <<>> /\ sent' = sent
  BY Numbers DEF Drain, Write, Places, uiVars
<1> DEFINE items == Items(channel)
<1>2. /\ items \in Seq(Nat) /\ items # <<>> /\ Head(items) = Head(channel)
      /\ Items(channel') = Tail(items)
  BY <1>1, ItemsTail
<1>3. sent - InChannel \in Nat /\ Consecutive(items, sent - InChannel)
  BY Numbers DEF InOrder, Pending, Waited
<1>4. Head(items) = (sent - InChannel) + 1 /\ Consecutive(Tail(items), (sent - InChannel) + 1)
  <2> HIDE DEF items, InChannel
  <2> QED BY <1>2, <1>3, ConsecutiveTail
<1>5. InChannel' = InChannel - 1
  BY <1>2, TailFacts DEF InChannel
<1>6. Len(wire') = Len(wire) + 1
  BY <1>1, Numbers
<1>7. Waited = InChannel /\ Waited' = InChannel' /\ Pending' = Pending
  BY <1>1, <1>5, <1>6, Numbers DEF Waited, Pending
<1>8. Consecutive(wire', sent - Pending)
  <2>1. sent - Pending \in Nat /\ Consecutive(wire, sent - Pending)
    BY Numbers DEF InOrder
  <2>2. (sent - Pending) + Len(wire) + 1 = Head(channel)
    BY <1>2, <1>4, <1>7, Numbers DEF Pending
  <2>3. Consecutive(Append(wire, (sent - Pending) + Len(wire) + 1), sent - Pending)
    <3> HIDE DEF Pending
    <3> QED BY <2>1, Numbers, ConsecutiveAppend
  <2> QED BY <1>1, <2>2, <2>3
<1>9. sent' - InChannel' = (sent - InChannel) + 1 /\ Pending' <= sent'
  BY <1>1, <1>5, <1>7, Numbers DEF InOrder
<1> QED BY <1>1, <1>2, <1>4, <1>7, <1>8, <1>9, ConsecutiveEmpty DEF InOrder

\* The server reads a frame: it is the oldest of all that are pending.
LEMMA DeliverInOrder ==
    ASSUME TypeOK, InOrder, Deliver
    PROVE  /\ InOrder' /\ Pending' = Pending - 1
           /\ Head(wire) = (sent - Pending) + 1
<1>1. /\ wire \in Seq(Nat) /\ wire # <<>> /\ wire' = Tail(wire)
      /\ UNCHANGED <<deferred, channel, sent>>
  BY Numbers DEF Deliver, uiVars
<1>2. sent - Pending \in Nat /\ Consecutive(wire, sent - Pending)
  BY Numbers DEF InOrder
<1>3. Head(wire) = (sent - Pending) + 1 /\ Consecutive(Tail(wire), (sent - Pending) + 1)
  <2> HIDE DEF Pending
  <2> QED BY <1>1, <1>2, ConsecutiveTail
<1>4. InChannel' = InChannel /\ Waited' = Waited /\ Pending' = Pending - 1
  <2>1. Len(wire') = Len(wire) - 1
    BY <1>1, TailFacts
  <2> QED BY <1>1, <2>1, Numbers DEF InChannel, Waited, Pending
<1>5. sent' - Pending' = (sent - Pending) + 1 /\ Pending' <= sent'
  <2>1. Pending <= sent
    BY DEF InOrder
  <2> QED BY <1>1, <1>4, <2>1, Numbers
<1> QED BY <1>1, <1>3, <1>4, <1>5 DEF InOrder

\* What is lost is the oldest of what is pending: the frames on the wire, the
\* deferred ones, or the one that could not be written.
Losing ==
    /\ wire' = <<>> /\ sent' = sent
    /\ \/ UNCHANGED <<channel, deferred>>
       \/ deferred' = <<>> /\ channel' = channel
       \/ deferred = <<>> /\ deferred' = <<>> /\ channel # <<>>
          /\ Head(channel) # Shutdown /\ channel' = Tail(channel)
       \/ deferred' = <<>> /\ channel' = <<>>

LEMMA LosingInOrder ==
    ASSUME TypeOK, InOrder, Losing
    PROVE  InOrder' /\ Pending' \in 0 .. Pending
<1>1. sent' = sent /\ wire' = <<>>
  BY DEF Losing
<1>2. CASE UNCHANGED <<channel, deferred>>
  <2>1. InChannel' = InChannel /\ Waited' = Waited /\ Pending' = Waited
    BY <1>1, <1>2, Numbers DEF InChannel, Waited, Pending
  <2> QED BY <1>1, <1>2, <2>1, Numbers, ConsecutiveEmpty DEF InOrder, Pending
<1>3. CASE deferred' = <<>> /\ channel' = channel
  <2>1. InChannel' = InChannel /\ Waited' = InChannel /\ Pending' = InChannel
    BY <1>1, <1>3, Numbers DEF InChannel, Waited, Pending
  <2> QED BY <1>1, <1>3, <2>1, Numbers, ConsecutiveEmpty DEF InOrder, Pending, Waited
<1>4. CASE deferred = <<>> /\ deferred' = <<>> /\ channel # <<>>
           /\ Head(channel) # Shutdown /\ channel' = Tail(channel)
  <2> DEFINE items == Items(channel)
  <2>1. items \in Seq(Nat) /\ items # <<>> /\ Items(channel') = Tail(items)
    BY <1>4, Numbers, ItemsTail
  <2>2. InChannel' = InChannel - 1 /\ InChannel \in Nat \ {0}
    BY <2>1, TailFacts DEF InChannel
  <2>3. Waited' = InChannel' /\ Pending' = InChannel'
    BY <1>1, <1>4, <2>2, Numbers DEF Waited, Pending
  <2>4. sent - InChannel \in Nat /\ Consecutive(items, sent - InChannel)
    BY Numbers DEF InOrder, Pending, Waited
  <2>5. Consecutive(Tail(items), (sent - InChannel) + 1)
    <3> HIDE DEF items, InChannel
    <3> QED BY <2>1, <2>4, ConsecutiveTail
  <2>6. sent' - InChannel' = (sent - InChannel) + 1 /\ InChannel' <= sent'
        /\ InChannel' \in 0 .. Pending
    BY <1>1, <2>2, Numbers DEF InOrder, Pending, Waited
  <2> QED BY <1>1, <1>4, <2>1, <2>3, <2>5, <2>6, ConsecutiveEmpty DEF InOrder
<1>5. CASE deferred' = <<>> /\ channel' = <<>>
  <2>1. Items(channel') = <<>>
    BY <1>5 DEF Items
  <2>2. InChannel' = 0 /\ Waited' = 0 /\ Pending' = 0
    BY <1>1, <1>5, <2>1 DEF InChannel, Waited, Pending
  <2> QED BY <1>1, <1>5, <2>1, <2>2, Numbers, ConsecutiveEmpty DEF InOrder
<1> QED BY <1>2, <1>3, <1>4, <1>5 DEF Losing

-----------------------------------------------------------------------------
(* What a step does to what is pending. *)

Sending ==
    /\ sent' = sent + 1 /\ Pending' = Pending + 1
    /\ UNCHANGED <<link, received, conn>>
Delivering ==
    /\ Deliver
    /\ Head(wire) = (sent - Pending) + 1 /\ Pending' = Pending - 1 /\ Pending # 0
    /\ UNCHANGED <<sent, link, conn>>
Connecting ==
    /\ link = "none" /\ link' = "up" /\ conn' = conn + 1
    /\ Pending' = Pending
    /\ UNCHANGED <<sent, received>>
Dropping ==
    /\ link' = "none" /\ Pending' \in 0 .. Pending
    /\ link # "none" \/ Pending' = 0
    /\ UNCHANGED <<sent, received, conn>>
Quiet ==
    /\ Pending' = Pending
    /\ link' = "none" <=> link = "none"
    /\ UNCHANGED <<sent, received, conn>>
Kinds == Sending \/ Delivering \/ Connecting \/ Dropping \/ Quiet

LEMMA SameIsQuiet ==
    ASSUME InOrder, Same, UNCHANGED <<received, conn>>, link' = "none" <=> link = "none"
    PROVE  InOrder' /\ Kinds
BY SameInOrder DEF Kinds, Quiet, Same

LEMMA LosingIsDropping ==
    ASSUME TypeOK, InOrder, Losing, link' = "none", UNCHANGED <<received, conn>>,
           link # "none" \/ Pending' = 0
    PROVE  InOrder' /\ Kinds
BY LosingInOrder DEF Kinds, Dropping, Losing

\* The shutdown is taken when it is all there is.
LEMMA ShutdownTaken ==
    ASSUME TypeOK, InOrder, channel # <<>>, Head(channel) = Shutdown
    PROVE  Items(channel) = <<>> /\ Tail(channel) = <<>>
<1>1. channel \in Seq(Nat)
  BY Numbers
<1>2. Consecutive(Items(channel), sent - InChannel)
  BY DEF InOrder
<1>3. sent - InChannel \in Nat
  <2>1. Pending <= sent
    BY DEF InOrder
  <2> QED BY <2>1, Numbers DEF Pending, Waited
<1> HIDE DEF InChannel
<1> QED BY <1>1, <1>2, <1>3, ItemsAtEnd

LEMMA StepKinds ==
    ASSUME TypeOK, InOrder, EndsOnce, Places, Next
    PROVE  InOrder' /\ Kinds
<1> USE DEF uiVars, netVars, downVars
<1>1. CASE Send
  BY <1>1, SendInOrder DEF Send, Sending, Kinds
<1>2. CASE BeginDrop
  <2>1. CASE Items(channel) = channel
    <3>1. channel \in Seq(Nat)
      BY Numbers
    <3>2. Items(Append(channel, Shutdown)) = channel
      BY <2>1, <3>1, ItemsAppend
    <3> QED BY <1>2, <2>1, <3>2, SameIsQuiet DEF BeginDrop, Same
  <2> QED BY <1>2, <2>1 DEF BeginDrop, EndsOnce
<1>3. CASE EndDrop \/ TcpConnect \/ ConnectFails \/ PauseOver \/ Replayed \/ Drained
           \/ Read \/ ReadPing \/ ReadTimesOut \/ Answer \/ Ping \/ Pong \/ Forget \/ Break
  <2>1. UNCHANGED <<channel, deferred, wire, sent, received, conn>>
    <3>1. CASE EndDrop \/ TcpConnect \/ ConnectFails \/ PauseOver \/ Replayed \/ Drained
      BY <3>1 DEF EndDrop, TcpConnect, ConnectFails, PauseOver, Replayed, Drained
    <3>2. CASE Read \/ ReadPing \/ ReadTimesOut
      BY <3>2 DEF Read, ReadPing, ReadTimesOut
    <3>3. CASE Answer \/ Ping \/ Pong \/ Forget \/ Break
      BY <3>3 DEF Answer, Ping, Pong, Forget, Outlived, Break
    <3> QED BY <1>3, <3>1, <3>2, <3>3
  <2>2. link' = link \/ (link = "up" /\ link' = "dead")
    <3>1. CASE Break
      BY <3>1 DEF Break
    <3>2. CASE EndDrop \/ TcpConnect \/ ConnectFails \/ PauseOver \/ Replayed \/ Drained
      BY <3>2 DEF EndDrop, TcpConnect, ConnectFails, PauseOver, Replayed, Drained
    <3>3. CASE Read \/ ReadPing \/ ReadTimesOut \/ Answer \/ Ping \/ Pong \/ Forget
      BY <3>3 DEF Read, ReadPing, ReadTimesOut, Answer, Ping, Pong, Forget, Outlived
    <3> QED BY <1>3, <3>1, <3>2, <3>3
  <2> QED BY <2>1, <2>2, SameIsQuiet DEF Same
<1>4. CASE HandshakeOk
  <2>1. Same
    BY <1>4 DEF HandshakeOk, Established, Same
  <2>2. link = "none"
    BY <1>4 DEF HandshakeOk, Established, Places
  <2> QED BY <1>4, <2>1, <2>2, SameInOrder DEF HandshakeOk, Established, Kinds, Connecting
<1>5. CASE Defer
  BY <1>5, DeferInOrder DEF Defer, Keep, Kinds, Quiet
<1>6. CASE StopWaiting
  <2>1. Losing /\ link = "none" /\ link' = "none" /\ UNCHANGED <<received, conn>>
    BY <1>6 DEF StopWaiting, Waiting, Losing, Places
  <2>2. Pending' = 0
    BY <1>6, <2>1 DEF StopWaiting, Losing, Pending, Waited, InChannel, Items
  <2> QED BY <2>1, <2>2, LosingIsDropping
<1>7. CASE Replay
  BY <1>7, ReplayInOrder DEF Replay, Write, Kinds, Quiet
<1>8. CASE ReplayFails \/ DrainFails \/ ReadFails
  <2>1. Losing
    BY <1>8 DEF ReplayFails, DrainFails, ReadFails, Lose, Reconnect, Drop, Losing, Places
  <2>2. link = "dead" /\ link' = "none" /\ UNCHANGED <<received, conn>>
    BY <1>8 DEF ReplayFails, DrainFails, ReadFails, Lose, Reconnect, Drop
  <2> QED BY <2>1, <2>2, LosingIsDropping
<1>9. CASE ReadClose
  <2>1. Losing /\ link' = "none" /\ UNCHANGED <<received, conn>> /\ link # "none"
    BY <1>9 DEF ReadClose, Arrives, Reconnect, Drop, Losing, Places
  <2> QED BY <2>1, LosingIsDropping
<1>10. CASE Drain
  BY <1>10, DrainInOrder DEF Drain, Write, Kinds, Quiet
<1>11. CASE StopDraining
  <2>1. Items(channel) = <<>> /\ Tail(channel) = <<>>
    BY <1>11, ShutdownTaken DEF StopDraining
  <2>2. Items(channel') = <<>>
    BY <1>11, <2>1 DEF StopDraining, Items
  <2> QED BY <1>11, <2>1, <2>2, SameIsQuiet DEF StopDraining, Same
<1>12. CASE Deliver
  <2>1. Pending # 0
    <3>1. wire # <<>> /\ wire \in Seq(Nat) /\ Waited \in Nat
      BY <1>12, Numbers DEF Deliver
    <3>2. Len(wire) \in Nat /\ Len(wire) # 0
      BY <3>1, NumberSeq
    <3> QED BY <3>1, <3>2 DEF Pending
  <2> QED BY <1>12, <2>1, DeliverInOrder DEF Deliver, Kinds, Delivering
<1>13. CASE Exit
  <2>1. Losing /\ link' = "none" /\ UNCHANGED <<received, conn>>
    BY <1>13 DEF Exit, Drop, Losing
  <2>2. Pending' = 0
    BY <1>13 DEF Exit, Drop, Pending, Waited, InChannel, Items
  <2> QED BY <2>1, <2>2, LosingIsDropping
<1> QED
  BY <1>1, <1>2, <1>3, <1>4, <1>5, <1>6, <1>7, <1>8, <1>9, <1>10, <1>11, <1>12, <1>13
     DEF Next, Worker

-----------------------------------------------------------------------------
(* The other parts of the invariant. *)

LEMMA EndsOnceStep ==
    ASSUME TypeOK, InOrder, EndsOnce, Next
    PROVE  EndsOnce'
<1> SUFFICES ASSUME handle' = "alive" PROVE Items(channel') = channel'
  BY DEF EndsOnce
<1>1. handle = "alive" /\ Items(channel) = channel /\ channel \in Seq(Nat)
  <2>1. handle = "alive"
    BY DEF Next, Worker, Send, BeginDrop, EndDrop, TcpConnect, ConnectFails, HandshakeOk,
         Established, Defer, Keep, StopWaiting, PauseOver, Replay, ReplayFails, Replayed, Drain,
         DrainFails, StopDraining, Drained, Read, ReadPing, ReadClose, ReadTimesOut, ReadFails,
         Lose, Reconnect, Deliver, Answer, Break, Ping, Pong, Forget, Outlived, Exit, uiVars
  <2> QED BY <2>1, Numbers DEF EndsOnce
<1>2. CASE channel' = channel
  BY <1>1, <1>2
<1>3. CASE Send
  BY <1>1, <1>3, ItemsAppend, Numbers DEF Send
<1>4. CASE channel # <<>> /\ channel' = Tail(channel)
  <2>1. CASE Head(channel) # Shutdown
    BY <1>1, <1>4, <2>1, ItemsTail
  <2>2. CASE Head(channel) = Shutdown
    BY <1>4, <2>2, ShutdownTaken DEF Items
  <2> QED BY <2>1, <2>2
<1>5. CASE channel' = <<>>
  BY <1>5 DEF Items
<1>6. \/ channel' = channel \/ Send
      \/ channel # <<>> /\ channel' = Tail(channel)
      \/ channel' = <<>>
  BY DEF Next, Worker, BeginDrop, EndDrop, TcpConnect, ConnectFails, HandshakeOk,
       Established, Defer, Keep, Waiting, StopWaiting, PauseOver, Replay, ReplayFails, Replayed,
       Drain, DrainFails, StopDraining, Drained, Read, ReadPing, ReadClose, ReadTimesOut,
       ReadFails, Lose, Reconnect, Deliver, Answer, Break, Ping, Pong, Forget, Outlived, Exit
<1> QED BY <1>2, <1>3, <1>4, <1>5, <1>6

LEMMA PlacesStep ==
    ASSUME TypeOK, InOrder, Places, Next
    PROVE  Places'
<1> USE DEF Places, uiVars, netVars, downVars
<1>1. CASE Send \/ BeginDrop \/ EndDrop \/ Answer \/ Ping \/ Pong \/ Forget
  BY <1>1 DEF Send, BeginDrop, EndDrop, Answer, Ping, Pong, Forget, Outlived
<1>2. CASE TcpConnect \/ ConnectFails \/ PauseOver \/ Replayed \/ Drained \/ ReadTimesOut
  BY <1>2 DEF TcpConnect, ConnectFails, PauseOver, Replayed, Drained, ReadTimesOut
<1>3. CASE HandshakeOk
  BY <1>3 DEF HandshakeOk, Established
<1>4. CASE Defer \/ StopWaiting
  BY <1>4 DEF Defer, Keep, Waiting, StopWaiting
<1>5. CASE Replay \/ Drain
  BY <1>5 DEF Replay, Drain, Write
<1>6. CASE ReplayFails \/ DrainFails \/ ReadFails \/ ReadClose
  BY <1>6 DEF ReplayFails, DrainFails, ReadFails, ReadClose, Arrives, Lose, Reconnect, Drop
<1>7. CASE StopDraining \/ Read \/ ReadPing
  BY <1>7 DEF StopDraining, Read, ReadPing, Arrives
<1>8. CASE Deliver
  BY <1>8 DEF Deliver
<1>9. CASE Break
  BY <1>9 DEF Break
<1>10. CASE Exit
  BY <1>10 DEF Exit, Drop
<1> QED
  BY <1>1, <1>2, <1>3, <1>4, <1>5, <1>6, <1>7, <1>8, <1>9, <1>10 DEF Next, Worker

\* What the server reads comes right after what it read before, or a connection
\* was lost in between.
LEMMA ReadStep ==
    ASSUME TypeOK, InOrder, ReadBefore, GapsOnlyAtBreaks, Kinds, TypeOK'
    PROVE  ReadBefore' /\ GapsOnlyAtBreaks'
<1> DEFINE Entries == [frame : Frames, conn : Nat]
<1>1. /\ received \in Seq(Entries) /\ Len(received) \in Nat
      /\ received # <<>> => Len(received) \in 1 .. Len(received)
      /\ \A i \in 1 .. Len(received) : received[i].frame \in Nat /\ received[i].conn \in Nat
  <2>1. received \in Seq(Entries)
    BY DEF TypeOK
  <2>2. Entries \subseteq [frame : Nat, conn : Nat]
    BY DEF Frames
  <2>3. Len(received) \in Nat /\ (received # <<>> => Len(received) \in Nat \ {0})
    BY <2>1, EmptySeq, LenProperties
  <2>4. received # <<>> => Len(received) \in 1 .. Len(received)
    <3>1. \A n \in Nat \ {0} : n \in 1 .. n
      OBVIOUS
    <3> QED BY <2>3, <3>1
  <2>5. \A i \in 1 .. Len(received) : received[i] \in [frame : Nat, conn : Nat]
    <3> HIDE DEF Entries
    <3> QED BY <2>1, <2>2, ElementOfSeq
  <2> QED BY <2>1, <2>3, <2>4, <2>5
<1>2. sent \in Nat /\ conn \in Nat /\ Pending \in Nat /\ Pending <= sent
  BY Numbers DEF InOrder
<1>3. CASE Sending
  <2>1. sent' - Pending' = sent - Pending
    BY <1>2, <1>3 DEF Sending
  <2> QED BY <1>3, <2>1 DEF Sending, ReadBefore, GapsOnlyAtBreaks
<1>4. CASE Delivering
  <2> DEFINE new == [frame |-> Head(wire), conn |-> conn]
  <2>1. received' = Append(received, new) /\ link = "up"
    BY <1>4 DEF Delivering, Deliver
  <2>2. new.frame = (sent - Pending) + 1 /\ new.conn = conn /\ sent' = sent /\ conn' = conn
        /\ link' = link /\ sent' - Pending' = (sent - Pending) + 1
    BY <1>2, <1>4 DEF Delivering
  <2>3. new \in Entries
    <3>1. wire \in Seq(Frames) /\ wire # <<>>
      BY <1>4 DEF Delivering, Deliver, TypeOK
    <3>2. Head(wire) \in Frames
      BY <3>1, TailFacts
    <3> QED BY <1>2, <3>2
  <2> HIDE DEF new, Entries
  <2>4. /\ Len(received') = Len(received) + 1
        /\ received'[Len(received) + 1] = new
        /\ \A i \in 1 .. Len(received) : received'[i] = received[i]
    BY <1>1, <2>1, <2>3, AppendProperties
  <2>5. ReadBefore'
    BY <1>1, <1>2, <2>2, <2>4 DEF ReadBefore
  <2>6. ASSUME NEW i \in 1 .. Len(received') - 1
        PROVE  LET a == received'[i]
                   b == received'[i + 1]
               IN  a.frame < b.frame /\ (a.conn = b.conn => b.frame = a.frame + 1)
    <3>1. CASE i < Len(received)
      <4>1. received'[i] = received[i] /\ received'[i + 1] = received[i + 1]
            /\ i \in 1 .. Len(received) - 1
        BY <1>1, <2>4, <3>1
      <4> QED BY <4>1 DEF GapsOnlyAtBreaks
    <3>2. CASE i = Len(received)
      <4>1. /\ received # <<>> /\ received'[i] = received[Len(received)]
            /\ received'[i + 1] = new /\ i \in 1 .. Len(received)
        BY <1>1, <2>4, <3>2
      <4>2. LET last == received[Len(received)]
            IN  last.frame <= sent - Pending
                /\ (last.conn = conn => last.frame = sent - Pending)
        BY <2>1, <4>1 DEF ReadBefore
      <4> QED BY <1>1, <1>2, <2>2, <3>2, <4>1, <4>2
    <3> QED BY <1>1, <2>4, <2>6, <3>1, <3>2
  <2> QED BY <2>5, <2>6 DEF GapsOnlyAtBreaks
<1>5. CASE Connecting
  <2>1. received # <<>> => received[Len(received)].conn < conn'
    BY <1>1, <1>2, <1>5 DEF Connecting, ReadBefore
  <2> QED BY <1>1, <1>2, <1>5, <2>1 DEF Connecting, ReadBefore, GapsOnlyAtBreaks
<1>6. CASE Dropping
  <2>1. sent - Pending <= sent' - Pending'
    <3>1. \A k \in 0 .. Pending : sent - Pending <= sent - k
      BY <1>2
    <3> QED BY <1>6, <3>1 DEF Dropping
  <2>2. received # <<>> => received[Len(received)].frame <= sent' - Pending'
    <3>1. Pending' \in Nat
      BY <1>2, <1>6 DEF Dropping
    <3>2. received # <<>> => received[Len(received)].frame <= sent - Pending
      BY DEF ReadBefore
    <3> QED BY <1>1, <1>2, <1>6, <2>1, <3>1, <3>2 DEF Dropping
  <2> QED BY <1>6, <2>2 DEF Dropping, ReadBefore, GapsOnlyAtBreaks
<1>7. CASE Quiet
  BY <1>7 DEF Quiet, ReadBefore, GapsOnlyAtBreaks
<1> QED BY <1>3, <1>4, <1>5, <1>6, <1>7 DEF Kinds

\* A signal is about the connection made last.
LEMMA AnnounceStep ==
    ASSUME TypeOK, Announced, ConnectionsAnnounced, Next
    PROVE  Announced' /\ ConnectionsAnnounced'
<1> DEFINE Told == [kind : {"connected", "message"}, conn : Nat]
<1>1. signals \in Seq(Told) /\ conn \in Nat
  BY DEF TypeOK
<1>2. /\ Len(signals) \in Nat
      /\ signals # <<>> => Len(signals) \in Nat \ {0}
      /\ \A i \in 1 .. Len(signals) : signals[i] \in Told
  BY <1>1, EmptySeq, LenProperties, ElementOfSeq
<1>3. \/ UNCHANGED <<conn, signals>>
      \/ conn' = conn + 1 /\ signals' = Append(signals, [kind |-> "connected", conn |-> conn'])
      \/ conn' = conn /\ signals' = Append(signals, [kind |-> "message", conn |-> conn])
  BY DEF Next, Worker, Send, BeginDrop, EndDrop, TcpConnect, ConnectFails, HandshakeOk,
       Established, Defer, Keep, StopWaiting, PauseOver, Replay, ReplayFails, Replayed, Drain,
       DrainFails, StopDraining, Drained, Read, ReadPing, ReadClose, ReadTimesOut, ReadFails,
       Lose, Reconnect, Deliver, Answer, Break, Ping, Pong, Forget, Outlived, Exit, downVars
<1>4. CASE UNCHANGED <<conn, signals>>
  BY <1>4 DEF Announced, ConnectionsAnnounced
<1>5. ASSUME NEW new \in Told, signals' = Append(signals, new), new.conn = conn',
             conn' = IF new.kind = "connected" THEN conn + 1 ELSE conn
      PROVE  Announced' /\ ConnectionsAnnounced'
  <2> HIDE DEF Told
  <2>1. /\ Len(signals') = Len(signals) + 1 /\ signals' # <<>>
        /\ signals'[Len(signals) + 1] = new
        /\ \A i \in 1 .. Len(signals) : signals'[i] = signals[i]
    BY <1>1, <1>5, AppendProperties
  <2>2. Announced'
    BY <1>2, <1>5, <2>1 DEF Announced
  <2>3. ASSUME NEW i \in 1 .. Len(signals')
        PROVE  LET before == IF i = 1 THEN 0 ELSE signals'[i - 1].conn
               IN  signals'[i].conn =
                       IF signals'[i].kind = "connected" THEN before + 1 ELSE before
    <3>1. CASE i <= Len(signals)
      <4>1. /\ i \in 1 .. Len(signals) /\ signals'[i] = signals[i]
            /\ i # 1 => signals'[i - 1] = signals[i - 1]
        BY <1>2, <2>1, <2>3, <3>1
      <4> QED BY <4>1 DEF ConnectionsAnnounced
    <3>2. CASE i = Len(signals) + 1
      <4>1. (IF i = 1 THEN 0 ELSE signals'[i - 1].conn) = conn
        <5>1. CASE i = 1
          <6>1. signals = <<>>
            BY <1>2, <3>2, <5>1
          <6> QED BY <5>1, <6>1 DEF Announced
        <5>2. CASE i # 1
          <6>1. signals # <<>> /\ i - 1 = Len(signals) /\ i - 1 \in 1 .. Len(signals)
            BY <1>2, <3>2, <5>2
          <6> QED BY <2>1, <5>2, <6>1 DEF Announced
        <5> QED BY <5>1, <5>2
      <4> QED BY <1>5, <2>1, <3>2, <4>1
    <3> QED BY <1>2, <2>1, <2>3, <3>1, <3>2
  <2> QED BY <2>2, <2>3 DEF ConnectionsAnnounced
<1>6. CASE conn' = conn + 1 /\ signals' = Append(signals, [kind |-> "connected", conn |-> conn'])
  <2>1. [kind |-> "connected", conn |-> conn'] \in Told
    BY <1>1, <1>6
  <2> QED BY <1>5, <1>6, <2>1
<1>7. CASE conn' = conn /\ signals' = Append(signals, [kind |-> "message", conn |-> conn])
  <2>1. [kind |-> "message", conn |-> conn] \in Told
    BY <1>1
  <2> QED BY <1>5, <1>7, <2>1
<1> QED BY <1>3, <1>4, <1>6, <1>7

-----------------------------------------------------------------------------
(* The invariant holds. *)

LEMMA InvStep == Inv /\ [Next]_vars => Inv'
<1>1. ASSUME Inv, Next PROVE Inv'
  <2>1. TypeOK'
    BY <1>1, TypeStep DEF Inv
  <2>2. InOrder' /\ Kinds
    BY <1>1, StepKinds DEF Inv
  <2>3. EndsOnce' /\ Places'
    BY <1>1, EndsOnceStep, PlacesStep DEF Inv
  <2>4. ReadBefore' /\ GapsOnlyAtBreaks'
    BY <1>1, <2>1, <2>2, ReadStep DEF Inv
  <2>5. Announced' /\ ConnectionsAnnounced'
    BY <1>1, AnnounceStep DEF Inv
  <2> QED BY <2>1, <2>2, <2>3, <2>4, <2>5 DEF Inv
<1>2. ASSUME Inv, UNCHANGED vars PROVE Inv'
  <2>1. TypeOK'
    BY <1>2, TypeStep DEF Inv
  <2>2. InOrder' /\ EndsOnce' /\ Places'
    BY <1>2 DEF Inv, vars, uiVars, netVars, downVars, InOrder, Pending, Waited, InChannel,
         EndsOnce, Places
  <2>3. ReadBefore' /\ GapsOnlyAtBreaks' /\ Announced' /\ ConnectionsAnnounced'
    BY <1>2 DEF Inv, vars, uiVars, netVars, downVars, ReadBefore, Pending, Waited, InChannel,
         GapsOnlyAtBreaks, Announced, ConnectionsAnnounced
  <2> QED BY <2>1, <2>2, <2>3 DEF Inv
<1> QED BY <1>1, <1>2

LEMMA InvHolds == Spec => []Inv
<1> QED BY InitInv, InvStep, PTL DEF Spec

\* Every variable of the worker has its type, and the shutdown is never taken for
\* a frame (client.rs run, connect_with_backoff).
THEOREM WorkerTypes == Spec => []TypeOK
<1>1. Inv => TypeOK
  BY DEF Inv
<1> QED BY <1>1, InvHolds, PTL

\* Whatever fails and however often the worker reconnects, the server reads the
\* frames in the order they were sent, none twice, and skips some only where a
\* connection was lost (client.rs run, connect_with_backoff).
THEOREM ReadInOrder == Spec => []GapsOnlyAtBreaks
<1>1. Inv => GapsOnlyAtBreaks
  BY DEF Inv
<1> QED BY <1>1, InvHolds, PTL

\* The UI is told of each connection once, before anything that arrives by it
\* (client.rs run).
THEOREM EachAnnounced == Spec => []ConnectionsAnnounced
<1>1. Inv => ConnectionsAnnounced
  BY DEF Inv
<1> QED BY <1>1, InvHolds, PTL

-----------------------------------------------------------------------------
(* The worker implements the queue. *)

\* Three queues of consecutive frames are one.
LEMMA Joined ==
    ASSUME NEW w \in Seq(Nat), NEW d \in Seq(Nat), NEW c \in Seq(Nat), NEW last \in Nat,
           Len(w) + (Len(d) + Len(c)) <= last,
           Consecutive(c, last - Len(c)),
           Consecutive(d, last - (Len(d) + Len(c))),
           Consecutive(w, last - (Len(w) + (Len(d) + Len(c))))
    PROVE  /\ w \o d \o c \in Seq(Nat)
           /\ Len(w \o d \o c) = Len(w) + (Len(d) + Len(c))
           /\ Consecutive(w \o d \o c, last - (Len(w) + (Len(d) + Len(c))))
<1>1. Len(w) \in Nat /\ Len(d) \in Nat /\ Len(c) \in Nat
  BY NumberSeq
<1>2. /\ w \o d \in Seq(Nat) /\ Len(w \o d) = Len(w) + Len(d)
      /\ \A i \in 1 .. Len(w) + Len(d) : (w \o d)[i] = IF i <= Len(w) THEN w[i] ELSE d[i - Len(w)]
  BY ConcatProperties
<1> DEFINE v == w \o d
           q == v \o c
<1>3. /\ q \in Seq(Nat) /\ Len(q) = Len(v) + Len(c)
      /\ \A i \in 1 .. Len(v) + Len(c) : q[i] = IF i <= Len(v) THEN v[i] ELSE c[i - Len(v)]
  <2> HIDE DEF v
  <2> QED BY <1>2, ConcatProperties DEF v
<1>4. ASSUME NEW k \in 1 .. Len(q)
      PROVE  q[k] = (last - (Len(w) + (Len(d) + Len(c)))) + k
  <2> DEFINE lw == Len(w)
             ld == Len(d)
             lc == Len(c)
  <2>1. CASE k <= lw
    <3>1. q[k] = w[k] /\ k \in 1 .. lw
      BY <1>1, <1>2, <1>3, <1>4, <2>1
    <3> QED BY <3>1 DEF Consecutive
  <2>2. CASE lw < k /\ k <= lw + ld
    <3>1. q[k] = d[k - lw] /\ k - lw \in 1 .. ld
      BY <1>1, <1>2, <1>3, <1>4, <2>2
    <3>2. d[k - lw] = (last - (ld + lc)) + (k - lw)
      BY <3>1 DEF Consecutive
    <3> QED BY <1>1, <3>1, <3>2
  <2>3. CASE lw + ld < k
    <3>1. q[k] = c[k - (lw + ld)] /\ k - (lw + ld) \in 1 .. lc
      BY <1>1, <1>2, <1>3, <1>4, <2>3
    <3>2. c[k - (lw + ld)] = (last - lc) + (k - (lw + ld))
      BY <3>1 DEF Consecutive
    <3> QED BY <1>1, <3>1, <3>2
  <2>4. \/ k <= lw
        \/ lw < k /\ k <= lw + ld
        \/ lw + ld < k
    <3>1. k \in Nat /\ lw \in Nat /\ ld \in Nat
      BY <1>1, <1>3
    <3> HIDE DEF lw, ld
    <3> QED BY <3>1
  <2> HIDE DEF lw, ld
  <2> QED BY <2>1, <2>2, <2>3, <2>4
<1> QED BY <1>1, <1>2, <1>3, <1>4 DEF Consecutive

\* Queues of consecutive frames that end alike differ by their lengths alone.
LEMMA SameEnd ==
    ASSUME NEW q \in Seq(Nat), NEW r \in Seq(Nat), NEW last \in Nat,
           Len(q) <= last, Consecutive(q, last - Len(q)),
           Consecutive(r, last - Len(r)), Len(r) <= Len(q)
    PROVE  /\ r = SubSeq(q, (Len(q) - Len(r)) + 1, Len(q))
           /\ Len(r) = Len(q) => r = q
           /\ Len(r) + 1 = Len(q) => q # <<>> /\ Head(q) = (last - Len(q)) + 1 /\ r = Tail(q)
<1> DEFINE lost == Len(q) - Len(r)
           t == SubSeq(q, lost + 1, Len(q))
<1>1. Len(q) \in Nat /\ Len(r) \in Nat /\ lost \in Nat
  <2>1. Len(q) \in Nat /\ Len(r) \in Nat
    BY NumberSeq
  <2> QED BY <2>1
<1>2. \A k \in 1 .. Len(r) : r[k] = q[lost + k]
  <2>1. \A k \in 1 .. Len(r) : lost + k \in 1 .. Len(q)
    BY <1>1
  <2>2. \A k \in 1 .. Len(r) : (last - Len(r)) + k = (last - Len(q)) + (lost + k)
    BY <1>1
  <2> HIDE DEF lost
  <2> QED BY <2>1, <2>2 DEF Consecutive
<1>3. t \in Seq(Nat) /\ Len(t) = Len(r) /\ \A k \in 1 .. Len(r) : t[k] = q[lost + k]
  <2>1. lost + 1 \in 1 .. Len(q) + 1 /\ Len(q) \in 0 .. Len(q)
    BY <1>1
  <2>2. /\ t \in Seq(Nat)
        /\ Len(t) = IF lost + 1 <= Len(q) THEN Len(q) - (lost + 1) + 1 ELSE 0
        /\ \A k \in 1 .. Len(q) - (lost + 1) + 1 : t[k] = q[lost + 1 + k - 1]
    <3> HIDE DEF lost
    <3> QED BY <2>1, PartOf
  <2>3. Len(q) - (lost + 1) + 1 = Len(r) /\ \A k \in Nat : lost + 1 + k - 1 = lost + k
    BY <1>1
  <2>4. Len(t) = Len(r)
    <3>1. CASE lost + 1 <= Len(q)
      BY <2>2, <2>3, <3>1
    <3>2. CASE ~ (lost + 1 <= Len(q))
      BY <1>1, <2>2, <3>2
    <3> QED BY <3>1, <3>2
  <2>5. \A k \in 1 .. Len(r) : t[k] = q[lost + 1 + k - 1] /\ lost + 1 + k - 1 = lost + k
    <3>1. \A k \in 1 .. Len(r) : k \in Nat
      BY <1>1
    <3> HIDE DEF t, lost
    <3> QED BY <2>2, <2>3, <3>1
  <2> HIDE DEF t, lost
  <2> QED BY <2>2, <2>4, <2>5
<1>4. r = t
  <2> HIDE DEF t, lost
  <2> QED BY <1>2, <1>3, SeqEqual
<1>5. ASSUME Len(r) = Len(q) PROVE r = q
  <2>1. \A k \in 1 .. Len(r) : r[k] = q[k]
    BY <1>1, <1>2, <1>5
  <2> QED BY <1>5, <2>1, SeqEqual
<1>6. ASSUME Len(r) + 1 = Len(q)
      PROVE  q # <<>> /\ Head(q) = (last - Len(q)) + 1 /\ r = Tail(q)
  <2>1. lost = 1 /\ Len(q) # 0
    BY <1>1, <1>6
  <2>2. q # <<>>
    BY <2>1, NumberSeq
  <2>3. Head(q) = q[1] /\ Tail(q) \in Seq(Nat) /\ Len(Tail(q)) = Len(r)
        /\ \A k \in 1 .. Len(r) : Tail(q)[k] = q[k + 1]
    BY <1>1, <1>6, <2>2, TailFacts
  <2>4. \A k \in 1 .. Len(r) : r[k] = Tail(q)[k]
    <3>1. \A k \in 1 .. Len(r) : 1 + k = k + 1
      BY <1>1
    <3>2. \A k \in 1 .. Len(r) : r[k] = q[1 + k]
      <4> HIDE DEF lost
      <4> QED BY <1>2, <2>1
    <3> QED BY <2>3, <3>1, <3>2
  <2>5. r = Tail(q)
    BY <2>3, <2>4, SeqEqual
  <2>6. q[1] = (last - Len(q)) + 1
    <3>1. 1 \in 1 .. Len(q)
      BY <1>1, <2>1
    <3> QED BY <3>1 DEF Consecutive
  <2> QED BY <2>2, <2>3, <2>5, <2>6
<1> QED BY <1>4, <1>5, <1>6

\* A queue one longer, that ends one later, has the new frame at its end.
LEMMA OneMore ==
    ASSUME NEW q \in Seq(Nat), NEW r \in Seq(Nat), NEW last \in Nat,
           Len(q) <= last, Consecutive(q, last - Len(q)),
           Len(r) = Len(q) + 1, Consecutive(r, (last + 1) - Len(r))
    PROVE  r = Append(q, last + 1)
<1>1. Len(q) \in Nat
  BY NumberSeq
<1>2. last - Len(q) \in Nat /\ (last - Len(q)) + Len(q) + 1 = last + 1
      /\ (last + 1) - Len(r) = last - Len(q)
  BY <1>1
<1> DEFINE t == Append(q, last + 1)
<1>3. t \in Seq(Nat) /\ Len(t) = Len(r)
  BY <1>1
<1>4. Consecutive(t, last - Len(q))
  BY <1>2, ConsecutiveAppend
<1>5. \A k \in 1 .. Len(r) : r[k] = t[k]
  <2> HIDE DEF t
  <2> QED BY <1>2, <1>3, <1>4 DEF Consecutive
<1> HIDE DEF t
<1>6. r = t
  BY <1>3, <1>5, SeqEqual
<1> QED BY <1>6 DEF t

\* The frames the server has read, without the connection each came by.
ReadFrames == [i \in 1 .. Len(received) |-> received[i].frame]

LEMMA ReadFramesStep ==
    ASSUME TypeOK, Deliver
    PROVE  ReadFrames' = Append(ReadFrames, Head(wire))
<1> DEFINE Entries == [frame : Frames, conn : Nat]
           new == [frame |-> Head(wire), conn |-> conn]
<1>1. received \in Seq(Entries) /\ received' = Append(received, new)
  BY DEF TypeOK, Deliver
<1>2. Head(wire) \in Frames /\ new \in Entries
  <2>1. Head(wire) \in Frames
    BY TailFacts DEF TypeOK, Deliver
  <2> QED BY <2>1 DEF TypeOK
<1>3. /\ Len(received) \in Nat
      /\ Len(received') = Len(received) + 1
      /\ \A i \in 1 .. Len(received) : received'[i] = received[i] /\ received[i].frame \in Frames
      /\ received'[Len(received) + 1].frame = Head(wire)
  <2>1. /\ Len(received') = Len(received) + 1
        /\ received'[Len(received) + 1] = new
        /\ \A i \in 1 .. Len(received) : received'[i] = received[i]
    <3> HIDE DEF new, Entries
    <3> QED BY <1>1, <1>2, AppendProperties
  <2>2. Len(received) \in Nat
    BY <1>1, LenProperties
  <2>3. \A i \in 1 .. Len(received) : received[i] \in Entries
    <3> HIDE DEF new, Entries
    <3> QED BY <1>1, ElementOfSeq
  <2> QED BY <2>1, <2>2, <2>3
<1> DEFINE n == Len(received)
<1>4. ReadFrames \in Seq(Frames) /\ Len(ReadFrames) = n
      /\ \A i \in 1 .. n : ReadFrames[i] = received[i].frame
  BY <1>3 DEF ReadFrames
<1>5. ReadFrames' \in Seq(Frames) /\ Len(ReadFrames') = n + 1
      /\ \A i \in 1 .. n + 1 : ReadFrames'[i] = received'[i].frame
  <2>1. \A i \in 1 .. n + 1 : received'[i].frame \in Frames
    <3>1. \A i \in 1 .. n + 1 : i \in 1 .. n \/ i = n + 1
      BY <1>3
    <3> QED BY <1>2, <1>3, <3>1
  <2> QED BY <1>3, <2>1 DEF ReadFrames
<1> DEFINE t == Append(ReadFrames, Head(wire))
<1>6. /\ t \in Seq(Frames) /\ Len(t) = n + 1
      /\ \A i \in 1 .. n : t[i] = ReadFrames[i]
      /\ t[n + 1] = Head(wire)
  BY <1>2, <1>4, AppendProperties
<1>7. \A i \in 1 .. n + 1 : ReadFrames'[i] = t[i]
  <2> SUFFICES ASSUME NEW i \in 1 .. n + 1 PROVE ReadFrames'[i] = t[i]
    OBVIOUS
  <2>1. CASE i = n + 1
    BY <1>3, <1>5, <1>6, <2>1
  <2>2. CASE i # n + 1
    <3>1. i \in 1 .. n
      BY <1>3, <2>2
    <3> QED BY <1>3, <1>4, <1>5, <1>6, <3>1
  <2> QED BY <2>1, <2>2
<1> HIDE DEF t
<1>8. ReadFrames' = t
  BY <1>5, <1>6, <1>7, SeqEqual
<1> QED BY <1>8 DEF t

\* The queue the worker is to those who use it holds the frames sent last.
QueueNow == wire \o deferred \o Items(channel)
QueueInOrder ==
    /\ QueueNow \in Seq(Nat) /\ Len(QueueNow) = Pending
    /\ Consecutive(QueueNow, sent - Pending)
    /\ sent \in Nat /\ Pending \in Nat /\ Pending <= sent

LEMMA QueueHeld == TypeOK /\ InOrder => QueueInOrder
<1> SUFFICES ASSUME TypeOK, InOrder PROVE QueueInOrder
  OBVIOUS
<1> DEFINE c == Items(channel)
<1>1. /\ wire \in Seq(Nat) /\ deferred \in Seq(Nat) /\ c \in Seq(Nat) /\ sent \in Nat
      /\ Pending \in Nat
  BY Numbers
<1>2. Pending = Len(wire) + (Len(deferred) + Len(c))
  BY DEF Pending, Waited, InChannel
<1>3. /\ Pending <= sent /\ Consecutive(c, sent - Len(c))
      /\ Consecutive(deferred, sent - (Len(deferred) + Len(c)))
      /\ Consecutive(wire, sent - Pending)
  BY DEF InOrder, Waited, InChannel
<1> HIDE DEF c
<1>4. /\ wire \o deferred \o c \in Seq(Nat)
      /\ Len(wire \o deferred \o c) = Pending
      /\ Consecutive(wire \o deferred \o c, sent - Pending)
  BY <1>1, <1>2, <1>3, Joined
<1> QED BY <1>1, <1>3, <1>4 DEF QueueInOrder, QueueNow, c

LEMMA QueueStep ==
    ASSUME TypeOK, TypeOK', Places', Kinds, QueueInOrder, QueueInOrder'
    PROVE  [Queue!Next]_(Queue!queueVars)
<1> DEFINE q == QueueNow
           r == QueueNow'
           up == link # "none"
<1>1. /\ q \in Seq(Nat) /\ Len(q) = Pending /\ Consecutive(q, sent - Len(q))
      /\ sent \in Nat /\ Pending \in Nat /\ Pending <= sent
  BY DEF QueueInOrder
<1>2. /\ r \in Seq(Nat) /\ Len(r) = Pending' /\ Consecutive(r, sent' - Len(r))
      /\ sent' \in Nat /\ Pending' \in Nat /\ Pending' <= sent'
  BY DEF QueueInOrder
<1> HIDE DEF q, r
<1>3. CASE Sending
  <2>1. r = Append(q, sent + 1)
    BY <1>1, <1>2, <1>3, OneMore DEF Sending
  <2>2. sent + 1 \in Frames
    BY <1>1, <1>3 DEF Sending, TypeOK, Frames
  <2>3. up' = up /\ ReadFrames' = ReadFrames
    BY <1>3 DEF Sending, ReadFrames
  <2>4. Queue!Send(sent + 1)
    BY <2>1, <2>3 DEF Queue!Send, q, r, QueueNow, ReadFrames
  <2> QED BY <2>2, <2>4 DEF Queue!Next
<1>4. CASE Delivering
  <2>1. q # <<>> /\ Head(q) = Head(wire) /\ r = Tail(q)
    <3>1. sent' = sent /\ Len(r) <= Len(q) /\ Len(r) + 1 = Len(q)
      BY <1>1, <1>2, <1>4 DEF Delivering
    <3>2. q # <<>> /\ Head(q) = (sent - Len(q)) + 1 /\ r = Tail(q)
      BY <1>1, <1>2, <3>1, SameEnd
    <3> QED BY <1>1, <1>4, <3>2 DEF Delivering
  <2>2. ReadFrames' = Append(ReadFrames, Head(q))
    BY <1>4, <2>1, ReadFramesStep DEF Delivering
  <2>3. up /\ up' = up
    BY <1>4 DEF Delivering, Deliver
  <2>4. Queue!Deliver
    BY <2>1, <2>2, <2>3 DEF Queue!Deliver, q, r, QueueNow, ReadFrames
  <2> QED BY <2>4 DEF Queue!Next
<1>5. CASE Connecting
  <2>1. r = q
    <3>1. sent' = sent /\ Len(r) = Len(q) /\ Len(r) <= Len(q)
      BY <1>1, <1>2, <1>5 DEF Connecting
    <3> QED BY <1>1, <1>2, <3>1, SameEnd
  <2>2. ~up /\ up' = TRUE /\ ReadFrames' = ReadFrames
    BY <1>5 DEF Connecting, ReadFrames
  <2>3. Queue!Connect
    BY <2>1, <2>2 DEF Queue!Connect, q, r, QueueNow, ReadFrames
  <2> QED BY <2>3 DEF Queue!Next
<1>6. CASE Dropping
  <2>1. up' = FALSE /\ ReadFrames' = ReadFrames /\ sent' = sent
    BY <1>6 DEF Dropping, ReadFrames
  <2>2. CASE up
    <3> DEFINE lost == Len(q) - Len(r)
    <3>1. Len(r) <= Len(q) /\ lost \in 0 .. Len(q)
      <4>1. \A k \in 0 .. Pending : k <= Pending /\ Pending - k \in 0 .. Pending
        BY <1>1
      <4>2. Pending' \in 0 .. Pending
        BY <1>6 DEF Dropping
      <4> QED BY <1>1, <1>2, <4>1, <4>2
    <3>2. r = SubSeq(q, lost + 1, Len(q))
      BY <1>1, <1>2, <2>1, <3>1, SameEnd
    <3> HIDE DEF lost
    <3>3. Queue!Break
      BY <2>1, <2>2, <3>1, <3>2 DEF Queue!Break, q, r, QueueNow, ReadFrames
    <3> QED BY <3>3 DEF Queue!Next
  <2>3. CASE ~up
    <3>1. r = <<>>
      <4>1. Len(r) = 0
        BY <1>2, <1>6, <2>3 DEF Dropping
      <4> QED BY <1>2, <4>1, NumberSeq
    <3>2. up' = up
      BY <2>1, <2>3
    <3>3. Queue!Close
      BY <2>1, <2>3, <3>1, <3>2 DEF Queue!Close, r, QueueNow, ReadFrames
    <3> QED BY <3>3 DEF Queue!Next
  <2> QED BY <2>2, <2>3
<1>7. CASE Quiet
  <2>1. r = q
    <3>1. sent' = sent /\ Len(r) = Len(q) /\ Len(r) <= Len(q)
      BY <1>1, <1>2, <1>7 DEF Quiet
    <3> QED BY <1>1, <1>2, <3>1, SameEnd
  <2>2. up' = up /\ ReadFrames' = ReadFrames
    BY <1>7 DEF Quiet, ReadFrames
  <2> QED BY <2>1, <2>2 DEF Queue!queueVars, q, r, QueueNow, ReadFrames
<1> QED BY <1>3, <1>4, <1>5, <1>6, <1>7 DEF Kinds

\* For those who use it the worker is one queue: frames come out in order at its
\* head while there is a connection, and one that ends takes some of the oldest
\* with it (client.rs run, SyncClient::send).
THEOREM WorkerIsQueue == Spec => QueueSpec
<1>1. Init => Queue!Init
  BY DEF Init, Queue!Init, Items
<1>2. Inv /\ Inv' /\ [Next]_vars => [Queue!Next]_(Queue!queueVars)
  <2>1. ASSUME Inv, Inv', Next PROVE [Queue!Next]_(Queue!queueVars)
    <3>1. TypeOK /\ InOrder /\ EndsOnce /\ Places /\ TypeOK' /\ InOrder' /\ Places'
      BY <2>1 DEF Inv
    <3>2. Kinds
      BY <2>1, <3>1, StepKinds
    <3>3. QueueInOrder
      BY <3>1, QueueHeld
    <3>4. QueueInOrder'
      <4>1. (TypeOK /\ InOrder => QueueInOrder)'
        BY QueueHeld, PTL
      <4> QED BY <3>1, <4>1
    <3> QED BY <3>1, <3>2, <3>3, <3>4, QueueStep
  <2>2. ASSUME UNCHANGED vars PROVE UNCHANGED Queue!queueVars
    BY <2>2 DEF vars, uiVars, netVars, Queue!queueVars
  <2> QED BY <2>1, <2>2
<1> QED BY <1>1, <1>2, InvHolds, PTL DEF Spec, QueueSpec, Queue!Spec
=============================================================================
