--------------------- MODULE TransportConnectionProofs ---------------------
(***************************************************************************)
(* Proofs about a transport connection, for every timeout, ping interval,  *)
(* channel capacity and amount of data: only PingInterval < ReadTimeout is *)
(* assumed of the two times.  Then, about the codecs a connection's frames *)
(* and those of the clients go through (FrameCodec).                       *)
(***************************************************************************)
EXTENDS TransportConnection, FrameCodec, SequenceTheorems, TLAPS

\* Two ends, each the peer of the other.
LEMMA PeerOfEnd == \A e \in Ends : /\ Peer(e) \in Ends /\ Peer(e) # e /\ Peer(Peer(e)) = e
                                   /\ \A f \in Ends : f = e \/ f = Peer(e)
  BY DEF Ends, Peer

\* Next as the list of its actions, for the case splits below.
LEMMA NextCases ==
  ASSUME [Next]_vars
  PROVE  \/ Tick
         \/ \E e \in Ends :
              \/ Start(e)
              \/ ReadFrame(e) \/ SendPong(e) \/ Deliver(e) \/ Timeout(e) \/ UpstreamClosed(e)
              \/ StreamEnds(e)
              \/ Write(e) \/ WriteError(e) \/ WriterClosed(e) \/ WriterDone(e)
              \/ PingTick(e) \/ SendPing(e) \/ PingerClosed(e)
              \/ SendData(e) \/ Take(e) \/ CloseUpstream(e) \/ Exit(e) \/ Lose(e)
         \/ UNCHANGED vars
  BY DEF Next, ReadTask, WriteTask, PingTask, Environment

-----------------------------------------------------------------------------
(* Type correctness *)

\* The tasks stay at their await points and the channels within their
\* capacities, in every reachable state.
THEOREM TypeCorrect == Spec => []TypeOK
<1> USE ConnectionAssumption DEF ConnectionAssumption, Reasons
<1>1. ASSUME Init PROVE TypeOK
  <2>1. <<>> \in Seq(Frame) /\ Len(<<>>) = 0
    BY EmptySeq
  <2>2. /\ sink \in [Ends -> Seq(Frame)] /\ link \in [Ends -> Seq(Frame)]
        /\ \A e \in Ends : Len(sink[e]) <= SinkCap /\ Len(link[e]) <= LinkCap
    BY <1>1, <2>1 DEF Init
  <2> QED BY <1>1, <2>2 DEF Init, TypeOK
<1>2. TypeOK /\ [Next]_vars => TypeOK'
  <2> SUFFICES ASSUME TypeOK, [Next]_vars PROVE TypeOK'
    OBVIOUS
  <2> USE DEF TypeOK
  <2>1. ASSUME NEW e \in Ends PROVE Peer(e) \in Ends
    BY PeerOfEnd
  <2>2. ASSUME NEW e \in Ends, NEW f \in Frame, CanSend(e), Put(e, f), UNCHANGED writer
        PROVE  /\ sink' \in [Ends -> Seq(Frame)]
               /\ \A d \in Ends : Len(sink'[d]) <= SinkCap
               /\ \A d \in Ends : writer'[d] = "done" => sink'[d] = <<>>
    <3>1. CASE writer[e] = "done"
      BY <2>2, <3>1 DEF Put
    <3>2. CASE writer[e] # "done"
      <4>1. Append(sink[e], f) \in Seq(Frame) /\ Len(Append(sink[e], f)) = Len(sink[e]) + 1
        BY AppendProperties
      <4>2. Len(sink[e]) < SinkCap /\ Len(sink[e]) \in Nat
        BY <2>2, <3>2, LenProperties DEF CanSend
      <4>3. sink' = [sink EXCEPT ![e] = Append(sink[e], f)]
        BY <2>2, <3>2 DEF Put
      <4> QED BY <2>2, <3>2, <4>1, <4>2, <4>3
    <3> QED BY <3>1, <3>2
  <2>3. ASSUME NEW s \in Seq(Frame), s # <<>>
        PROVE  Head(s) \in Frame /\ Tail(s) \in Seq(Frame) /\ Len(Tail(s)) = Len(s) - 1
    BY <2>3, HeadTailProperties
  <2>4. \A s \in Seq(Frame) : Len(s) \in Nat
    BY LenProperties
  <2>5. <<>> \in Seq(Frame) /\ Len(<<>>) = 0
    BY EmptySeq
  <2>6. CASE Tick
    <3>1. idle' \in [Ends -> Nat]
      BY <2>6 DEF Tick
    <3>2. elapsed' \in [Ends -> Nat]
      BY <2>6 DEF Tick
    <3>3. skew' \in Nat
      BY <2>6 DEF Tick
    <3>4. stressed' \in {"yes", "no"}
      BY <2>6 DEF Tick
    <3> QED BY <2>6, <3>1, <3>2, <3>3, <3>4 DEF Tick, tasks
  <2>7. ASSUME NEW e \in Ends, Start(e) PROVE TypeOK'
    BY <2>7 DEF Start, history
  <2>8. ASSUME NEW e \in Ends, ReadFrame(e) PROVE TypeOK'
    <3>1. link' = [link EXCEPT ![e] = Tail(link[e])] /\ link[e] # <<>>
      BY <2>8 DEF ReadFrame
    <3>2. /\ link' \in [Ends -> Seq(Frame)]
          /\ \A d \in Ends : Len(link'[d]) <= LinkCap
      BY <2>3, <2>4, <3>1
    <3>3. reader' \in [Ends -> {"handshake", "next", "pong", "deliver"} \cup Reasons]
      BY <2>8 DEF ReadFrame, Handling
    <3> QED BY <2>8, <3>2, <3>3 DEF ReadFrame, history
  <2>9. ASSUME NEW e \in Ends, SendPong(e) PROVE TypeOK'
    <3>1. "pong" \in Frame
      BY DEF Frame
    <3> QED BY <2>2, <2>9, <3>1 DEF SendPong, clock, history
  <2>10. ASSUME NEW e \in Ends, Deliver(e) PROVE TypeOK'
    BY <2>10 DEF Deliver, clock, history
  <2>11. ASSUME NEW e \in Ends, NEW reason \in Reasons, EndReader(e, reason) PROVE TypeOK'
    BY <2>11 DEF EndReader, history
  <2>12. ASSUME NEW e \in Ends, Timeout(e) \/ UpstreamClosed(e) \/ StreamEnds(e) PROVE TypeOK'
    BY <2>11, <2>12 DEF Timeout, UpstreamClosed, StreamEnds
  <2>13. ASSUME NEW e \in Ends, Write(e) PROVE TypeOK'
    <3>1. /\ sink' = [sink EXCEPT ![e] = Tail(sink[e])] /\ sink[e] # <<>>
          /\ writer[e] = "recv" /\ writer' = writer
      BY <2>13 DEF Write, tasks
    <3>2. /\ sink' \in [Ends -> Seq(Frame)]
          /\ \A d \in Ends : Len(sink'[d]) <= SinkCap
          /\ \A d \in Ends : writer'[d] = "done" => sink'[d] = <<>>
      BY <2>3, <2>4, <3>1
    <3>3. /\ Head(sink[e]) \in Frame
          /\ Append(link[Peer(e)], Head(sink[e])) \in Seq(Frame)
          /\ Len(Append(link[Peer(e)], Head(sink[e]))) = Len(link[Peer(e)]) + 1
      BY <2>1, <2>3, <3>1, AppendProperties
    <3>4. \/ link' = link /\ stressed' = "yes"
          \/ /\ Len(link[Peer(e)]) < LinkCap
             /\ link' = [link EXCEPT ![Peer(e)] = Append(link[Peer(e)], Head(sink[e]))]
             /\ stressed' = stressed
      BY <2>13 DEF Write
    <3>5. /\ link' \in [Ends -> Seq(Frame)]
          /\ \A d \in Ends : Len(link'[d]) <= LinkCap
      <4>1. CASE link' = link
        BY <4>1
      <4>2. CASE /\ Len(link[Peer(e)]) < LinkCap
                 /\ link' = [link EXCEPT ![Peer(e)] = Append(link[Peer(e)], Head(sink[e]))]
        <5>1. Len(link[Peer(e)]) \in Nat
          BY <2>1, <2>4
        <5>2. Len(Append(link[Peer(e)], Head(sink[e]))) <= LinkCap
          BY <3>3, <4>2, <5>1
        <5> QED BY <2>1, <3>3, <4>2, <5>2
      <4> QED BY <3>4, <4>1, <4>2
    <3>6. stressed' \in {"yes", "no"}
      BY <2>1, <3>4
    <3> QED BY <2>13, <3>2, <3>5, <3>6 DEF Write, tasks, clock
  <2>14. ASSUME NEW e \in Ends, EndWriter(e) PROVE TypeOK'
    BY <2>4, <2>5, <2>14 DEF EndWriter, clock, history
  <2>15. ASSUME NEW e \in Ends, WriteError(e) \/ WriterClosed(e) \/ WriterDone(e) PROVE TypeOK'
    BY <2>14, <2>15 DEF WriteError, WriterClosed, WriterDone
  <2>16. ASSUME NEW e \in Ends, PingTick(e) PROVE TypeOK'
    <3>1. elapsed[e] - PingInterval \in Nat
      BY <2>16 DEF PingTick
    <3>2. elapsed' \in [Ends -> Nat]
      BY <2>16, <3>1 DEF PingTick
    <3>3. pinger' \in [Ends -> {"tick", "send", "done"}]
      BY <2>16 DEF PingTick
    <3> QED BY <2>16, <3>2, <3>3 DEF PingTick, history
  <2>17. ASSUME NEW e \in Ends, SendPing(e) PROVE TypeOK'
    <3>1. "ping" \in Frame
      BY DEF Frame
    <3> QED BY <2>2, <2>17, <3>1 DEF SendPing, clock, history
  <2>18. ASSUME NEW e \in Ends, PingerClosed(e) PROVE TypeOK'
    BY <2>18 DEF PingerClosed, history
  <2>19. ASSUME NEW e \in Ends, SendData(e) PROVE TypeOK'
    <3>1. "data" \in Frame /\ CanSend(e) /\ writer' = writer
      BY <2>19 DEF Frame, CanSend, SendData, tasks
    <3> QED BY <2>2, <2>19, <3>1 DEF SendData, tasks, clock
  <2>20. ASSUME NEW e \in Ends, Take(e) PROVE TypeOK'
    <3>1. upstream[e] - 1 \in 0 .. UpCap
      BY <2>20 DEF Take
    <3>2. upstream' \in [Ends -> 0 .. UpCap]
      BY <2>20, <3>1 DEF Take
    <3> QED BY <2>20, <3>2 DEF Take, tasks, clock, history
  <2>21. ASSUME NEW e \in Ends, CloseUpstream(e) PROVE TypeOK'
    BY <2>21 DEF CloseUpstream, tasks, clock, history
  <2>22. ASSUME NEW e \in Ends, Exit(e) PROVE TypeOK'
    BY <2>4, <2>5, <2>22 DEF Exit, history
  <2>23. ASSUME NEW e \in Ends, Lose(e) PROVE TypeOK'
    BY <2>3, <2>4, <2>23 DEF Lose, tasks, clock
  <2>24. CASE UNCHANGED vars
    BY <2>24 DEF vars, tasks, clock, history
  <2> QED BY <2>6, <2>7, <2>8, <2>9, <2>10, <2>12, <2>13, <2>15, <2>16, <2>17,
             <2>18, <2>19, <2>20, <2>21, <2>22, <2>23, <2>24, NextCases
<1> QED BY <1>1, <1>2, PTL DEF Spec

-----------------------------------------------------------------------------
(* The inductive invariant *)

\* A frame for e is in the stream, or will be before time passes.
Coming(e) ==
  \/ link[e] # <<>>
  \/ sink[Peer(e)] # <<>>
  \/ pinger[Peer(e)] = "send"
  \/ pinger[Peer(e)] = "tick" /\ elapsed[Peer(e)] >= PingInterval

\* A read task that waits, on a loss-free network and for a peer whose tasks
\* run, has waited no longer than its peer's ping task.
InTime(e) ==
  lost = 0 /\ reader[e] = "next" /\ ~ Broken(Peer(e)) =>
    /\ idle[e] < ReadTimeout
    /\ IF Started(Peer(e)) THEN Coming(e) \/ idle[e] <= elapsed[Peer(e)]
                           ELSE idle[e] <= skew

\* The timer of the read task starts anew with every wait.
FreshTimer(e) == reader[e] # "next" => idle[e] = 0

\* The ping task outlives the read task, and has not run before it.
PingerFollows(e) ==
  /\ pinger[e] = "done" => Ended(e)
  /\ ~ Started(e) => pinger[e] = "tick" /\ elapsed[e] >= PingInterval

Timers == \A e \in Ends : FreshTimer(e) /\ PingerFollows(e) /\ InTime(e)

\* Timers and ping tasks: one step.
LEMMA TimersStep ==
  ASSUME TypeOK, [Next]_vars, NEW e \in Ends, FreshTimer(e), PingerFollows(e)
  PROVE  FreshTimer(e)' /\ PingerFollows(e)'
<1> USE ConnectionAssumption DEF ConnectionAssumption, TypeOK, FreshTimer, PingerFollows,
                                Ended, Started, Reasons
<1>1. CASE Tick
  BY <1>1 DEF Tick, tasks
<1>2. ASSUME NEW f \in Ends, Start(f) PROVE FreshTimer(e)' /\ PingerFollows(e)'
  BY <1>2 DEF Start, history
<1>3. ASSUME NEW f \in Ends, ReadFrame(f) PROVE FreshTimer(e)' /\ PingerFollows(e)'
  BY <1>3 DEF ReadFrame, Handling, history
<1>4. ASSUME NEW f \in Ends, SendPong(f) PROVE FreshTimer(e)' /\ PingerFollows(e)'
  BY <1>4 DEF SendPong, Put, clock, history
<1>5. ASSUME NEW f \in Ends, Deliver(f) PROVE FreshTimer(e)' /\ PingerFollows(e)'
  BY <1>5 DEF Deliver, clock, history
<1>6. ASSUME NEW f \in Ends, Timeout(f) PROVE FreshTimer(e)' /\ PingerFollows(e)'
  BY <1>6 DEF Timeout, EndReader, history
<1>7. ASSUME NEW f \in Ends, UpstreamClosed(f) PROVE FreshTimer(e)' /\ PingerFollows(e)'
  BY <1>7 DEF UpstreamClosed, EndReader, history
<1>8. ASSUME NEW f \in Ends, StreamEnds(f) PROVE FreshTimer(e)' /\ PingerFollows(e)'
  BY <1>8 DEF StreamEnds, EndReader, history
<1>9. ASSUME NEW f \in Ends, Write(f) PROVE FreshTimer(e)' /\ PingerFollows(e)'
  BY <1>9 DEF Write, tasks, clock
<1>10. ASSUME NEW f \in Ends, WriteError(f) PROVE FreshTimer(e)' /\ PingerFollows(e)'
  BY <1>10 DEF WriteError, EndWriter, clock, history
<1>11. ASSUME NEW f \in Ends, WriterClosed(f) PROVE FreshTimer(e)' /\ PingerFollows(e)'
  BY <1>11 DEF WriterClosed, EndWriter, clock, history
<1>12. ASSUME NEW f \in Ends, WriterDone(f) PROVE FreshTimer(e)' /\ PingerFollows(e)'
  BY <1>12 DEF WriterDone, EndWriter, clock, history
<1>13. ASSUME NEW f \in Ends, PingTick(f) PROVE FreshTimer(e)' /\ PingerFollows(e)'
  BY <1>13 DEF PingTick, history
<1>14. ASSUME NEW f \in Ends, SendPing(f) PROVE FreshTimer(e)' /\ PingerFollows(e)'
  BY <1>14 DEF SendPing, Put, clock, history
<1>15. ASSUME NEW f \in Ends, PingerClosed(f) PROVE FreshTimer(e)' /\ PingerFollows(e)'
  BY <1>15 DEF PingerClosed, Closed, history
<1>16. ASSUME NEW f \in Ends, SendData(f) PROVE FreshTimer(e)' /\ PingerFollows(e)'
  BY <1>16 DEF SendData, Put, tasks, clock
<1>17. ASSUME NEW f \in Ends, Take(f) PROVE FreshTimer(e)' /\ PingerFollows(e)'
  BY <1>17 DEF Take, tasks, clock, history
<1>18. ASSUME NEW f \in Ends, CloseUpstream(f) PROVE FreshTimer(e)' /\ PingerFollows(e)'
  BY <1>18 DEF CloseUpstream, tasks, clock, history
<1>19. ASSUME NEW f \in Ends, Exit(f) PROVE FreshTimer(e)' /\ PingerFollows(e)'
  BY <1>19 DEF Exit, history
<1>20. ASSUME NEW f \in Ends, Lose(f) PROVE FreshTimer(e)' /\ PingerFollows(e)'
  BY <1>20 DEF Lose, tasks, clock
<1>21. CASE UNCHANGED vars
  BY <1>21 DEF vars, tasks, clock, history
<1> QED BY <1>1, <1>2, <1>3, <1>4, <1>5, <1>6, <1>7, <1>8, <1>9, <1>10, <1>11, <1>12, <1>13, <1>14, <1>15, <1>16, <1>17, <1>18, <1>19, <1>20, <1>21, NextCases

\* Waiting times: one step, with one case per action.
LEMMA InTimeStep ==
  ASSUME TypeOK, TypeOK', [Next]_vars, NEW e \in Ends, FreshTimer(e), InTime(e),
         PingerFollows(Peer(e))
  PROVE  InTime(e)'
<1> USE ConnectionAssumption DEF ConnectionAssumption, TypeOK
<1>1. Peer(e) \in Ends /\ Peer(e) # e /\ \A f \in Ends : f = e \/ f = Peer(e)
  BY PeerOfEnd
<1> USE DEF InTime, Coming, Broken, Ended, Started, FreshTimer, PingerFollows, Reasons
<1>reset. idle'[e] = 0 => InTime(e)'
  BY <1>1
<1>added. ASSUME NEW d \in Ends, NEW f \in Frame PROVE Append(sink[d], f) # <<>>
  <2>1. sink[d] \in Seq(Frame)
    OBVIOUS
  <2>2. /\ Append(sink[d], f) \in Seq(Frame)
        /\ Len(Append(sink[d], f)) = Len(sink[d]) + 1 /\ Len(sink[d]) \in Nat
    BY <2>1, AppendProperties, LenProperties
  <2>3. Len(Append(sink[d], f)) # 0
    BY <2>2
  <2> QED BY <2>2, <2>3, EmptySeq
<1>2. CASE Tick
  <2> SUFFICES ASSUME lost' = 0, reader'[e] = "next", ~ Broken(Peer(e))'
               PROVE  /\ idle'[e] < ReadTimeout
                      /\ IF Started(Peer(e))' THEN Coming(e)' \/ idle'[e] <= elapsed'[Peer(e)]
                                              ELSE idle'[e] <= skew'
    OBVIOUS
  <2>1. /\ UNCHANGED <<reader, writer, pinger, sink, link, lost>>
        /\ idle'[e] = idle[e] + 1
        /\ ~ Busy(e) /\ ~ Busy(Peer(e))
    BY <1>1, <1>2 DEF Tick, tasks
  <2>2. CASE Started(Peer(e))
    <3>1. ~ Coming(e)
      BY <1>1, <2>1, <2>2 DEF Busy
    <3>2. pinger[Peer(e)] = "tick"
      BY <1>1, <2>1, <3>1
    <3>3. elapsed[Peer(e)] \in Nat /\ idle[e] \in Nat
      BY <1>1
    <3>4. elapsed[Peer(e)] < PingInterval
      <4>1. ~ (elapsed[Peer(e)] >= PingInterval)
        BY <3>1, <3>2
      <4>2. PingInterval \in Nat
        OBVIOUS
      <4> HIDE DEF InTime, Coming, FreshTimer, PingerFollows, TypeOK
      <4> QED BY <3>3, <4>1, <4>2
    <3>5. elapsed'[Peer(e)] = elapsed[Peer(e)] + 1
      BY <1>1, <1>2, <2>2, <3>2 DEF Tick
    <3>6. idle[e] <= elapsed[Peer(e)]
      BY <2>1, <2>2, <3>1
    <3>7. idle'[e] <= elapsed'[Peer(e)] /\ idle'[e] < ReadTimeout
      <4>1. PingInterval \in Nat /\ ReadTimeout \in Nat /\ PingInterval < ReadTimeout
        OBVIOUS
      <4>2. idle'[e] = idle[e] + 1
        BY <2>1
      <4> HIDE DEF InTime, Coming, FreshTimer, PingerFollows, TypeOK
      <4> QED BY <3>3, <3>4, <3>5, <3>6, <4>1, <4>2
    <3>8. Started(Peer(e))'
      BY <2>1, <2>2
    <3> QED BY <3>7, <3>8
  <2>3. CASE ~ Started(Peer(e))
    <3>1. skew' = skew + 1 /\ skew < MaxSkew
      BY <1>1, <1>2, <2>3 DEF Tick
    <3>2. idle[e] <= skew
      BY <2>1, <2>3
    <3>3. idle'[e] <= skew' /\ idle'[e] < ReadTimeout
      BY <2>1, <3>1, <3>2
    <3>4. ~ Started(Peer(e))'
      BY <2>1, <2>3
    <3> QED BY <3>3, <3>4
  <2> QED BY <2>2, <2>3
<1>3. ASSUME NEW f \in Ends, Start(f) PROVE InTime(e)'
  <2>1. CASE f = e
    BY <1>3, <1>reset, <2>1 DEF Start
  <2>2. CASE f = Peer(e)
    BY <1>1, <1>3, <2>2 DEF Start, history
  <2> QED BY <1>1, <2>1, <2>2
<1>4. ASSUME NEW f \in Ends, ReadFrame(f) PROVE InTime(e)'
  <2>1. CASE f = e
    BY <1>4, <1>reset, <2>1 DEF ReadFrame
  <2>2. CASE f = Peer(e)
    BY <1>1, <1>4, <2>2 DEF ReadFrame, Handling, history
  <2> QED BY <1>1, <2>1, <2>2
<1>5. ASSUME NEW f \in Ends, SendPong(f) PROVE InTime(e)'
  <2>1. CASE f = e
    BY <1>5, <1>reset, <2>1 DEF SendPong, clock
  <2>2. CASE f = Peer(e)
    <3>1. ~ Broken(f)' => sink'[f] = Append(sink[f], "pong")
      BY <1>5 DEF SendPong, Put
    <3>2. "pong" \in Frame
      BY DEF Frame
    <3> QED BY <1>5, <1>added, <2>2, <3>1, <3>2 DEF SendPong, clock, history
  <2> QED BY <1>1, <2>1, <2>2
<1>6. ASSUME NEW f \in Ends, Deliver(f) PROVE InTime(e)'
  <2>1. CASE f = e
    BY <1>6, <1>reset, <2>1 DEF Deliver, clock
  <2>2. CASE f = Peer(e)
    BY <1>1, <1>6, <1>added, <2>2 DEF Deliver, clock, history, Frame
  <2> QED BY <1>1, <2>1, <2>2
<1>7. ASSUME NEW f \in Ends, Timeout(f) PROVE InTime(e)'
  BY <1>1, <1>7 DEF Timeout, EndReader, history
<1>8. ASSUME NEW f \in Ends, UpstreamClosed(f) PROVE InTime(e)'
  BY <1>1, <1>8 DEF UpstreamClosed, EndReader, history
<1>9. ASSUME NEW f \in Ends, StreamEnds(f) PROVE InTime(e)'
  BY <1>1, <1>9 DEF StreamEnds, EndReader, history
<1>10. ASSUME NEW f \in Ends, Write(f) PROVE InTime(e)'
  <2>1. UNCHANGED <<reader, writer, pinger, idle, elapsed, skew, lost>>
    BY <1>10 DEF Write, tasks, clock
  <2>2. CASE f = e
    <3>1. link'[e] = link[e] /\ sink'[Peer(e)] = sink[Peer(e)]
      <4>1. Write(e)
        BY <1>10, <2>2
      <4>2. /\ sink' = [sink EXCEPT ![e] = Tail(@)]
            /\ \/ link' = [link EXCEPT ![Peer(e)] = Append(@, Head(sink[e]))]
               \/ link' = link
        BY <4>1 DEF Write
      <4>3. DOMAIN sink = Ends /\ DOMAIN link = Ends
        OBVIOUS
      <4>4. Peer(e) \in Ends /\ Peer(e) # e
        BY PeerOfEnd
      <4> HIDE DEF InTime, FreshTimer, PingerFollows, Coming, Broken, TypeOK, ConnectionAssumption
      <4>5. sink'[Peer(e)] = sink[Peer(e)]
        BY <4>2, <4>3, <4>4
      <4>6. link'[e] = link[e]
        BY <4>2, <4>3, <4>4
      <4> QED BY <4>5, <4>6
    <3>2. /\ reader' = reader /\ writer' = writer /\ pinger' = pinger /\ lost' = lost
          /\ idle' = idle /\ elapsed' = elapsed /\ skew' = skew
      BY <2>1
    <3>3. (Coming(e)' <=> Coming(e)) /\ (Broken(Peer(e))' <=> Broken(Peer(e)))
      BY <3>1, <3>2
    <3> HIDE DEF TypeOK, Coming, Broken, ConnectionAssumption
    <3> QED BY <3>2, <3>3
  <2>3. CASE f = Peer(e)
    <3>1. Peer(f) = e
      BY <2>3, PeerOfEnd
    <3>2. CASE Len(link[e]) < LinkCap
      <4>1. link'[e] = Append(link[e], Head(sink[f]))
        BY <1>10, <3>1, <3>2 DEF Write
      <4>2. Append(link[e], Head(sink[f])) # <<>>
        <5>1. sink[f] \in Seq(Frame) /\ sink[f] # <<>> /\ link[e] \in Seq(Frame)
          BY <1>10 DEF Write
        <5>2. Head(sink[f]) \in Frame
          BY <5>1, HeadTailProperties
        <5>3. Len(Append(link[e], Head(sink[f]))) = Len(link[e]) + 1 /\ Len(link[e]) \in Nat
          BY <5>1, <5>2, AppendProperties, LenProperties
        <5>4. Append(link[e], Head(sink[f])) \in Seq(Frame)
          BY <5>1, <5>2, AppendProperties
        <5>5. Len(Append(link[e], Head(sink[f]))) # 0
          BY <5>3
        <5> QED BY <5>4, <5>5, EmptySeq
      <4> QED BY <2>1, <4>1, <4>2
    <3>3. CASE ~ (Len(link[e]) < LinkCap)
      <4>1. link' = link
        BY <1>10, <3>1, <3>3 DEF Write
      <4>2. link[e] # <<>>
        BY <3>3, EmptySeq
      <4> QED BY <2>1, <4>1, <4>2
    <3> QED BY <3>2, <3>3
  <2> QED BY <1>1, <2>2, <2>3
<1>11. ASSUME NEW f \in Ends, WriteError(f) PROVE InTime(e)'
  BY <1>1, <1>11 DEF WriteError, EndWriter, clock, history
<1>12. ASSUME NEW f \in Ends, WriterClosed(f) PROVE InTime(e)'
  BY <1>1, <1>12 DEF WriterClosed, EndWriter, clock, history
<1>13. ASSUME NEW f \in Ends, WriterDone(f) PROVE InTime(e)'
  BY <1>1, <1>13 DEF WriterDone, EndWriter, clock, history
<1>14. ASSUME NEW f \in Ends, PingTick(f) PROVE InTime(e)'
  BY <1>1, <1>14 DEF PingTick, history
<1>15. ASSUME NEW f \in Ends, SendPing(f) PROVE InTime(e)'
  <2>1. "ping" \in Frame
    BY DEF Frame
  <2>2. CASE f = e
    BY <1>1, <1>15, <2>2 DEF SendPing, Put, clock, history
  <2>3. CASE f = Peer(e)
    <3>1. ~ Broken(f)' => sink'[f] = Append(sink[f], "ping")
      BY <1>15 DEF SendPing, Put
    <3> QED BY <1>15, <1>added, <2>1, <2>3, <3>1 DEF SendPing, clock, history
  <2> QED BY <1>1, <2>2, <2>3
<1>16. ASSUME NEW f \in Ends, PingerClosed(f) PROVE InTime(e)'
  BY <1>1, <1>16 DEF PingerClosed, Closed, history
<1>17. ASSUME NEW f \in Ends, SendData(f) PROVE InTime(e)'
  <2>1. "data" \in Frame
    BY DEF Frame
  <2>2. CASE f = e
    BY <1>1, <1>17, <2>2 DEF SendData, Put, tasks, clock
  <2>3. CASE f = Peer(e)
    BY <1>1, <1>17, <1>added, <2>1, <2>3 DEF SendData, Put, tasks, clock
  <2> QED BY <1>1, <2>2, <2>3
<1>18. ASSUME NEW f \in Ends, Take(f) PROVE InTime(e)'
  BY <1>1, <1>18 DEF Take, tasks, clock, history
<1>19. ASSUME NEW f \in Ends, CloseUpstream(f) PROVE InTime(e)'
  BY <1>1, <1>19 DEF CloseUpstream, tasks, clock, history
<1>20. ASSUME NEW f \in Ends, Exit(f) PROVE InTime(e)'
  BY <1>1, <1>20 DEF Exit, history
<1>21. ASSUME NEW f \in Ends, Lose(f) PROVE InTime(e)'
  BY <1>1, <1>21 DEF Lose, tasks, clock
<1>22. CASE UNCHANGED vars
  BY <1>22 DEF vars, tasks, clock, history
<1> QED BY <1>2, <1>3, <1>4, <1>5, <1>6, <1>7, <1>8, <1>9, <1>10, <1>11, <1>12, <1>13, <1>14, <1>15, <1>16, <1>17, <1>18, <1>19, <1>20, <1>21, <1>22, NextCases

\* What has ended stays ended, and lost frames stay lost.
LEMMA BrokenStays ==
  ASSUME TypeOK, [Next]_vars
  PROVE  /\ \A e \in Ends : Broken(e) => Broken(e)'
         /\ lost \in Nat /\ lost' \in Nat /\ lost <= lost'
<1> DEFINE Goal == /\ \A e \in Ends : Broken(e) => Broken(e)'
                   /\ lost \in Nat /\ lost' \in Nat /\ lost <= lost'
<1> USE DEF TypeOK, Broken, Ended, Started, Reasons
<1>1. CASE Tick
  BY <1>1 DEF Tick, tasks
<1>2. ASSUME NEW f \in Ends, Start(f) PROVE Goal
  BY <1>2 DEF Start, history
<1>3. ASSUME NEW f \in Ends, ReadFrame(f) PROVE Goal
  BY <1>3 DEF ReadFrame, Handling, history
<1>4. ASSUME NEW f \in Ends, SendPong(f) PROVE Goal
  BY <1>4 DEF SendPong, history
<1>5. ASSUME NEW f \in Ends, Deliver(f) PROVE Goal
  BY <1>5 DEF Deliver, history
<1>6. ASSUME NEW f \in Ends, UpstreamClosed(f) PROVE Goal
  BY <1>6 DEF UpstreamClosed, EndReader, history
<1>7. ASSUME NEW f \in Ends, StreamEnds(f) PROVE Goal
  BY <1>7 DEF StreamEnds, EndReader, history
<1>8. ASSUME NEW f \in Ends, Write(f) PROVE Goal
  BY <1>8 DEF Write, tasks
<1>9. ASSUME NEW f \in Ends, WriteError(f) PROVE Goal
  BY <1>9 DEF WriteError, EndWriter, history
<1>10. ASSUME NEW f \in Ends, WriterClosed(f) PROVE Goal
  BY <1>10 DEF WriterClosed, EndWriter, history
<1>11. ASSUME NEW f \in Ends, WriterDone(f) PROVE Goal
  BY <1>11 DEF WriterDone, EndWriter, history
<1>12. ASSUME NEW f \in Ends, PingTick(f) PROVE Goal
  BY <1>12 DEF PingTick, history
<1>13. ASSUME NEW f \in Ends, SendPing(f) PROVE Goal
  BY <1>13 DEF SendPing, history
<1>14. ASSUME NEW f \in Ends, PingerClosed(f) PROVE Goal
  BY <1>14 DEF PingerClosed, history
<1>15. ASSUME NEW f \in Ends, SendData(f) PROVE Goal
  BY <1>15 DEF SendData, tasks
<1>16. ASSUME NEW f \in Ends, Take(f) PROVE Goal
  BY <1>16 DEF Take, tasks, history
<1>17. ASSUME NEW f \in Ends, CloseUpstream(f) PROVE Goal
  BY <1>17 DEF CloseUpstream, tasks, history
<1>18. ASSUME NEW f \in Ends, Exit(f) PROVE Goal
  BY <1>18 DEF Exit, history
<1>19. ASSUME NEW f \in Ends, Lose(f) PROVE Goal
  BY <1>19 DEF Lose, tasks
<1>20. ASSUME NEW f \in Ends, Timeout(f) PROVE Goal
  BY <1>20 DEF Timeout, EndReader, history
<1>21. CASE UNCHANGED vars
  BY <1>21 DEF vars, tasks, history
<1> QED BY <1>1, <1>2, <1>3, <1>4, <1>5, <1>6, <1>7, <1>8, <1>9, <1>10, <1>11, <1>12, <1>13, <1>14, <1>15, <1>16, <1>17, <1>18, <1>19, <1>20, <1>21, NextCases

\* A write task that has ended stays so, and the history remembers stress.
LEMMA WriterStays ==
  ASSUME TypeOK, [Next]_vars, NEW e \in Ends
  PROVE  /\ writer[e] = "done" => writer'[e] = "done"
         /\ stressed = "yes" => stressed' = "yes"
<1> DEFINE Goal == /\ writer[e] = "done" => writer'[e] = "done"
                   /\ stressed = "yes" => stressed' = "yes"
<1> USE DEF TypeOK
<1>1. CASE Tick
  BY <1>1 DEF Tick, tasks
<1>2. ASSUME NEW f \in Ends, Start(f) PROVE Goal
  BY <1>2 DEF Start, history
<1>3. ASSUME NEW f \in Ends, ReadFrame(f) PROVE Goal
  BY <1>3 DEF ReadFrame, history
<1>4. ASSUME NEW f \in Ends, SendPong(f) PROVE Goal
  BY <1>4 DEF SendPong, history
<1>5. ASSUME NEW f \in Ends, Deliver(f) PROVE Goal
  BY <1>5 DEF Deliver, history
<1>6. ASSUME NEW f \in Ends, Timeout(f) PROVE Goal
  BY <1>6 DEF Timeout, EndReader, history
<1>7. ASSUME NEW f \in Ends, UpstreamClosed(f) PROVE Goal
  BY <1>7 DEF UpstreamClosed, EndReader, history
<1>8. ASSUME NEW f \in Ends, StreamEnds(f) PROVE Goal
  BY <1>8 DEF StreamEnds, EndReader, history
<1>9. ASSUME NEW f \in Ends, Write(f) PROVE Goal
  BY <1>9 DEF Write, tasks
<1>10. ASSUME NEW f \in Ends, WriteError(f) PROVE Goal
  BY <1>10 DEF WriteError, EndWriter, history
<1>11. ASSUME NEW f \in Ends, WriterClosed(f) PROVE Goal
  BY <1>11 DEF WriterClosed, EndWriter, history
<1>12. ASSUME NEW f \in Ends, WriterDone(f) PROVE Goal
  BY <1>12 DEF WriterDone, EndWriter, history
<1>13. ASSUME NEW f \in Ends, PingTick(f) PROVE Goal
  BY <1>13 DEF PingTick, history
<1>14. ASSUME NEW f \in Ends, SendPing(f) PROVE Goal
  BY <1>14 DEF SendPing, history
<1>15. ASSUME NEW f \in Ends, PingerClosed(f) PROVE Goal
  BY <1>15 DEF PingerClosed, history
<1>16. ASSUME NEW f \in Ends, SendData(f) PROVE Goal
  BY <1>16 DEF SendData, tasks
<1>17. ASSUME NEW f \in Ends, Take(f) PROVE Goal
  BY <1>17 DEF Take, tasks, history
<1>18. ASSUME NEW f \in Ends, CloseUpstream(f) PROVE Goal
  BY <1>18 DEF CloseUpstream, tasks, history
<1>19. ASSUME NEW f \in Ends, Exit(f) PROVE Goal
  BY <1>19 DEF Exit, history
<1>20. ASSUME NEW f \in Ends, Lose(f) PROVE Goal
  BY <1>20 DEF Lose, tasks
<1>21. CASE UNCHANGED vars
  BY <1>21 DEF vars, tasks, history
<1> QED BY <1>1, <1>2, <1>3, <1>4, <1>5, <1>6, <1>7, <1>8, <1>9, <1>10, <1>11, <1>12, <1>13, <1>14, <1>15, <1>16, <1>17, <1>18, <1>19, <1>20, <1>21, NextCases

\* Only the timeout branch of the select ends a read task as timed out.
LEMMA OnlyTimeout ==
  ASSUME TypeOK, [Next]_vars, NEW e \in Ends, reader'[e] = "timeout", reader[e] # "timeout"
  PROVE  Timeout(e)
<1> USE DEF TypeOK, Reasons
<1>1. CASE Tick
  BY <1>1 DEF Tick, tasks
<1>2. ASSUME NEW f \in Ends, Start(f) PROVE Timeout(e)
  BY <1>2 DEF Start, history
<1>3. ASSUME NEW f \in Ends, ReadFrame(f) PROVE Timeout(e)
  BY <1>3 DEF ReadFrame, Handling, history
<1>4. ASSUME NEW f \in Ends, SendPong(f) PROVE Timeout(e)
  BY <1>4 DEF SendPong, history
<1>5. ASSUME NEW f \in Ends, Deliver(f) PROVE Timeout(e)
  BY <1>5 DEF Deliver, history
<1>6. ASSUME NEW f \in Ends, UpstreamClosed(f) PROVE Timeout(e)
  BY <1>6 DEF UpstreamClosed, EndReader, history
<1>7. ASSUME NEW f \in Ends, StreamEnds(f) PROVE Timeout(e)
  BY <1>7 DEF StreamEnds, EndReader, history
<1>8. ASSUME NEW f \in Ends, Write(f) PROVE Timeout(e)
  BY <1>8 DEF Write, tasks
<1>9. ASSUME NEW f \in Ends, WriteError(f) PROVE Timeout(e)
  BY <1>9 DEF WriteError, EndWriter, history
<1>10. ASSUME NEW f \in Ends, WriterClosed(f) PROVE Timeout(e)
  BY <1>10 DEF WriterClosed, EndWriter, history
<1>11. ASSUME NEW f \in Ends, WriterDone(f) PROVE Timeout(e)
  BY <1>11 DEF WriterDone, EndWriter, history
<1>12. ASSUME NEW f \in Ends, PingTick(f) PROVE Timeout(e)
  BY <1>12 DEF PingTick, history
<1>13. ASSUME NEW f \in Ends, SendPing(f) PROVE Timeout(e)
  BY <1>13 DEF SendPing, history
<1>14. ASSUME NEW f \in Ends, PingerClosed(f) PROVE Timeout(e)
  BY <1>14 DEF PingerClosed, history
<1>15. ASSUME NEW f \in Ends, SendData(f) PROVE Timeout(e)
  BY <1>15 DEF SendData, tasks
<1>16. ASSUME NEW f \in Ends, Take(f) PROVE Timeout(e)
  BY <1>16 DEF Take, tasks, history
<1>17. ASSUME NEW f \in Ends, CloseUpstream(f) PROVE Timeout(e)
  BY <1>17 DEF CloseUpstream, tasks, history
<1>18. ASSUME NEW f \in Ends, Exit(f) PROVE Timeout(e)
  BY <1>18 DEF Exit, history
<1>19. ASSUME NEW f \in Ends, Lose(f) PROVE Timeout(e)
  BY <1>19 DEF Lose, tasks
<1>20. ASSUME NEW f \in Ends, Timeout(f) PROVE Timeout(e)
  BY <1>20 DEF Timeout, EndReader, history
<1>21. CASE UNCHANGED vars
  BY <1>21 DEF vars, tasks, history
<1> QED BY <1>1, <1>2, <1>3, <1>4, <1>5, <1>6, <1>7, <1>8, <1>9, <1>10, <1>11, <1>12, <1>13, <1>14, <1>15, <1>16, <1>17, <1>18, <1>19, <1>20, <1>21, NextCases

\* On a network that loses nothing a connection times out only after a task at
\* the other end has ended, whatever the ping interval and the timeout are as
\* long as the first is shorter.
THEOREM HealthyNeverTimesOutHolds == Spec => []HealthyNeverTimesOut
<1> USE ConnectionAssumption DEF ConnectionAssumption
<1>1. ASSUME Init PROVE \A e \in Ends : FreshTimer(e) /\ PingerFollows(e) /\ InTime(e)
  BY <1>1, PeerOfEnd
     DEF Init, FreshTimer, PingerFollows, InTime, Coming, Ended, Started, Reasons
<1>2. ASSUME Init PROVE HealthyNeverTimesOut
  BY <1>2 DEF Init, HealthyNeverTimesOut
<1>3. Init => Timers /\ HealthyNeverTimesOut
  BY <1>1, <1>2 DEF Timers
<1>4. TypeOK /\ TypeOK' /\ Timers /\ [Next]_vars => Timers'
  BY PeerOfEnd, TimersStep, InTimeStep DEF Timers
<1>5. TypeOK /\ Timers /\ HealthyNeverTimesOut /\ [Next]_vars => HealthyNeverTimesOut'
  <2> SUFFICES ASSUME TypeOK, Timers, HealthyNeverTimesOut, [Next]_vars
               PROVE  HealthyNeverTimesOut'
    OBVIOUS
  <2>1. \A e \in Ends : Broken(e) => Broken(e)'
    BY BrokenStays
  <2>2. lost \in Nat /\ lost' \in Nat /\ lost <= lost'
    BY BrokenStays
  <2>3. ASSUME NEW e \in Ends, reader'[e] = "timeout", reader[e] # "timeout"
        PROVE  lost > 0 \/ Broken(Peer(e))
    <3>1. Timeout(e)
      BY <2>3, OnlyTimeout
    <3>2. idle[e] \in Nat
      BY DEF TypeOK
    <3> QED BY <2>2, <3>1, <3>2 DEF Timeout, Timers, InTime
  <2> QED BY <2>1, <2>2, <2>3, PeerOfEnd DEF HealthyNeverTimesOut
<1> QED BY <1>3, <1>4, <1>5, TypeCorrect, PTL DEF Spec

-----------------------------------------------------------------------------
(* Two chains of frames keep a read task alive: the pings of the peer, and  *)
(* the peer's answers to this end's own pings.  A frame belongs to one of   *)
(* them, so that one loss leaves the other whole.                           *)

\* A frame f is in the queue s.
Has(f, s) == \E i \in 1 .. Len(s) : s[i] = f

\* The ping task of e puts a ping into the sink before time passes.
PingDue(e) == pinger[e] = "send" \/ (pinger[e] = "tick" /\ elapsed[e] >= PingInterval)

\* A ping of the peer is on its way to e.
PingComing(e) == PingDue(Peer(e)) \/ Has("ping", sink[Peer(e)]) \/ Has("ping", link[e])

\* A ping of e is on its way to the peer, or the peer's answer on its way back.
PongComing(e) ==
  \/ PingDue(e) \/ Has("ping", sink[e]) \/ Has("ping", link[Peer(e)])
  \/ reader[Peer(e)] = "pong"
  \/ Has("pong", sink[Peer(e)]) \/ Has("pong", link[e])

\* The read task of e has waited no longer than the peer's ping task, or not
\* longer than the peer's handshake ...
PingChain(e) == IF Started(Peer(e)) THEN PingComing(e) \/ idle[e] <= elapsed[Peer(e)]
                                    ELSE idle[e] <= skew

\* ... and no longer than the ping task of e itself.
PongChain(e) == PongComing(e) \/ idle[e] <= elapsed[e]

\* The read task of e waits, and the tasks both chains depend on do their work.
Intact(e) ==
  reader[e] = "next" /\ writer[e] = "recv" /\ ~ Broken(Peer(e)) /\ stressed = "no"

\* Without a loss both chains hold, and after one loss still one of them.
Redundant(e) ==
  Intact(e) /\ lost <= 1 =>
    /\ idle[e] < ReadTimeout
    /\ PingChain(e) \/ PongChain(e)
    /\ (lost = 0 \/ ~ Started(Peer(e))) => PingChain(e)
    /\ lost = 0 => PongChain(e)

\* A queue keeps its frames when one is appended, and has that one too.
LEMMA HasAppend ==
  ASSUME NEW s \in Seq(Frame), NEW g \in Frame
  PROVE  Has(g, Append(s, g)) /\ \A f \in Frame : Has(f, s) => Has(f, Append(s, g))
<1>1. /\ Len(s) \in Nat /\ Len(Append(s, g)) = Len(s) + 1
      /\ Append(s, g)[Len(s) + 1] = g
      /\ \A i \in 1 .. Len(s) : Append(s, g)[i] = s[i]
  BY AppendProperties, LenProperties
<1> QED BY <1>1 DEF Has

\* A queue loses at most its head when it is dequeued, and an empty one has none.
LEMMA HasTail ==
  ASSUME NEW s \in Seq(Frame)
  PROVE  /\ s # <<>> => \A f \in Frame : Has(f, s) => f = Head(s) \/ Has(f, Tail(s))
         /\ s = <<>> => \A f \in Frame : ~ Has(f, s)
<1>1. ASSUME s # <<>>, NEW f \in Frame, Has(f, s), f # Head(s) PROVE Has(f, Tail(s))
  <2>1. /\ Len(s) \in Nat /\ Len(Tail(s)) = Len(s) - 1
        /\ \A i \in 1 .. Len(Tail(s)) : Tail(s)[i] = s[i + 1]
        /\ Head(s) = s[1]
    BY <1>1, HeadTailProperties, LenProperties
  <2>2. PICK i \in 1 .. Len(s) : s[i] = f
    BY <1>1 DEF Has
  <2>3. i - 1 \in 1 .. Len(Tail(s)) /\ Tail(s)[i - 1] = f
    <3>1. i \in Int /\ i >= 1 /\ i <= Len(s) /\ i # 1
      BY <1>1, <2>1, <2>2
    <3>2. i - 1 \in 1 .. Len(Tail(s)) /\ (i - 1) + 1 = i
      BY <2>1, <3>1
    <3> QED BY <2>1, <2>2, <3>2
  <2> QED BY <2>3 DEF Has
<1>2. ASSUME s = <<>>, NEW f \in Frame PROVE ~ Has(f, s)
  BY <1>2, EmptySeq DEF Has
<1> QED BY <1>1, <1>2

\* What the steps of the tasks and the network do to the frames on their way.
LEMMA FramesKept ==
  ASSUME TypeOK, NEW d \in Ends, NEW f \in Frame
  PROVE  /\ \A g \in Frame : writer[d] # "done" /\ Put(d, g) =>
              Has(g, sink'[d]) /\ (Has(f, sink[d]) => Has(f, sink'[d]))
         /\ Has(f, link[d]) /\ link[d] # <<>> /\ link' = [link EXCEPT ![d] = Tail(@)] =>
              f = Head(link[d]) \/ Has(f, link'[d])
         /\ Has(f, sink[d]) /\ Write(d) =>
              Has(f, sink'[d]) \/ Has(f, link'[Peer(d)]) \/ stressed' = "yes"
         /\ Has(f, link[Peer(d)]) /\ Write(d) => Has(f, link'[Peer(d)])
<1> USE DEF TypeOK
<1>p. Peer(d) \in Ends
  BY PeerOfEnd
<1>s. sink[d] \in Seq(Frame) /\ link[d] \in Seq(Frame) /\ link[Peer(d)] \in Seq(Frame)
  BY <1>p
<1>1. ASSUME NEW g \in Frame, writer[d] # "done", Put(d, g)
      PROVE  Has(g, sink'[d]) /\ (Has(f, sink[d]) => Has(f, sink'[d]))
  <2>1. sink'[d] = Append(sink[d], g)
    BY <1>1 DEF Put
  <2> QED BY <1>s, <2>1, HasAppend
<1>2. ASSUME Has(f, link[d]), link[d] # <<>>, link' = [link EXCEPT ![d] = Tail(@)]
      PROVE  f = Head(link[d]) \/ Has(f, link'[d])
  <2>1. link'[d] = Tail(link[d])
    BY <1>2
  <2> QED BY <1>s, <1>2, <2>1, HasTail
<1>3. ASSUME Write(d)
      PROVE  /\ Has(f, sink[d]) => Has(f, sink'[d]) \/ Has(f, link'[Peer(d)]) \/ stressed' = "yes"
             /\ Has(f, link[Peer(d)]) => Has(f, link'[Peer(d)])
  <2>1. sink[d] # <<>> /\ sink'[d] = Tail(sink[d]) /\ Head(sink[d]) \in Frame
    BY <1>s, <1>3, HeadTailProperties DEF Write
  <2>2. \/ stressed' = "yes" /\ link' = link
        \/ link'[Peer(d)] = Append(link[Peer(d)], Head(sink[d]))
    BY <1>p, <1>3 DEF Write
  <2>3. Has(f, sink[d]) => f = Head(sink[d]) \/ Has(f, sink'[d])
    BY <1>s, <2>1, HasTail
  <2> QED BY <1>s, <2>1, <2>2, <2>3, HasAppend
<1> QED BY <1>1, <1>2, <1>3

\* The two chains: one step, with one case per action.
LEMMA RedundantStep ==
  ASSUME TypeOK, TypeOK', [Next]_vars, NEW e \in Ends, Redundant(e),
         FreshTimer(e), PingerFollows(e), PingerFollows(Peer(e))
  PROVE  Redundant(e)'
<1>p. /\ Peer(e) \in Ends /\ Peer(e) # e /\ Peer(Peer(e)) = e
      /\ \A f \in Ends : f = e \/ f = Peer(e)
  BY PeerOfEnd
<1>t. /\ idle[e] \in Nat /\ skew \in Nat /\ lost \in Nat
      /\ elapsed[e] \in Nat /\ elapsed[Peer(e)] \in Nat
      /\ skew' \in Nat /\ elapsed'[e] \in Nat /\ elapsed'[Peer(e)] \in Nat
  BY <1>p DEF TypeOK
<1>f. "ping" \in Frame /\ "pong" \in Frame /\ "data" \in Frame
  BY DEF Frame
<1>c. /\ PingInterval \in Nat /\ ReadTimeout \in Nat /\ MaxSkew \in Nat
      /\ PingInterval < ReadTimeout /\ MaxSkew < ReadTimeout
  BY ConnectionAssumption DEF ConnectionAssumption
<1>r. /\ reader \in [Ends -> {"handshake", "next", "pong", "deliver"} \cup Reasons]
      /\ writer \in [Ends -> {"recv", "done"}]
      /\ pinger \in [Ends -> {"tick", "send", "done"}]
      /\ DOMAIN sink = Ends /\ DOMAIN link = Ends
      /\ DOMAIN idle = Ends /\ DOMAIN elapsed = Ends
  BY DEF TypeOK
<1>reset. ASSUME idle'[e] = 0 PROVE Redundant(e)'
  BY <1>reset, <1>p, <1>t, <1>c DEF Redundant, PingChain, PongChain
<1>kept. ASSUME idle'[e] = idle[e], lost' = lost, Started(Peer(e))' <=> Started(Peer(e)),
                Intact(e)' => /\ Intact(e)
                              /\ PingChain(e) => PingChain(e)'
                              /\ PongChain(e) => PongChain(e)'
         PROVE  Redundant(e)'
  BY <1>kept DEF Redundant
<1>1. CASE Tick
  <2> SUFFICES ASSUME Intact(e)', lost' <= 1 PROVE Redundant(e)'
    BY DEF Redundant
  <2>1. /\ UNCHANGED <<reader, writer, pinger, sink, link, lost>>
        /\ ~ Busy(e) /\ ~ Busy(Peer(e))
        /\ reader[e] = "next" /\ writer[e] = "recv" /\ ~ Broken(Peer(e))
        /\ stressed = "no" /\ reader[Peer(e)] # "deliver"
    BY <1>1, <1>p DEF Tick, tasks, Intact, Broken, Ended
  <2>2. Intact(e)
    BY <2>1 DEF Intact
  <2>3. idle'[e] = idle[e] + 1
    BY <1>1, <2>1 DEF Tick
  <2>4. /\ pinger[e] = "tick" /\ elapsed[e] < PingInterval
        /\ elapsed'[e] = elapsed[e] + 1
    <3>1. Started(e) /\ pinger[e] # "done"
      BY <2>1 DEF Started, PingerFollows, Ended, Reasons
    <3>2. pinger[e] = "tick" /\ ~ (elapsed[e] >= PingInterval)
      BY <1>r, <2>1, <3>1 DEF Busy
    <3>3. elapsed'[e] = elapsed[e] + 1
      BY <1>1, <3>1, <3>2 DEF Tick
    <3> QED BY <1>c, <1>t, <3>2, <3>3
  <2>5. CASE Started(Peer(e))
    <3>1. /\ pinger[Peer(e)] = "tick" /\ elapsed[Peer(e)] < PingInterval
          /\ elapsed'[Peer(e)] = elapsed[Peer(e)] + 1
      <4>1. pinger[Peer(e)] # "done"
        BY <2>1 DEF PingerFollows, Broken
      <4>2. pinger[Peer(e)] = "tick" /\ ~ (elapsed[Peer(e)] >= PingInterval)
        BY <1>p, <1>r, <2>1, <2>5, <4>1 DEF Busy
      <4>3. elapsed'[Peer(e)] = elapsed[Peer(e)] + 1
        BY <1>1, <1>p, <2>5, <4>2 DEF Tick
      <4> QED BY <1>c, <1>t, <4>2, <4>3
    <3>2. reader[Peer(e)] = "next"
      BY <1>p, <1>r, <2>1, <2>5 DEF Busy, Started, Broken, Ended
    <3>3. /\ sink[e] = <<>> /\ sink[Peer(e)] = <<>> /\ link[e] = <<>> /\ link[Peer(e)] = <<>>
      <4>1. Started(e) /\ writer[Peer(e)] = "recv"
        BY <1>p, <1>r, <2>1 DEF Started, Broken
      <4> QED BY <2>1, <2>5, <3>2, <4>1 DEF Busy
    <3>4. /\ \A f \in {"ping", "pong"} : /\ ~ Has(f, sink[e]) /\ ~ Has(f, sink[Peer(e)])
                                         /\ ~ Has(f, link[e]) /\ ~ Has(f, link[Peer(e)])
      BY <1>f, <1>p, <3>3, HasTail DEF TypeOK
    <3>5. ~ PingDue(e) /\ ~ PingDue(Peer(e))
      BY <1>c, <1>t, <2>4, <3>1 DEF PingDue
    <3>6. ~ PingComing(e) /\ ~ PongComing(e)
      BY <3>2, <3>4, <3>5 DEF PingComing, PongComing
    <3>7. /\ idle[e] <= elapsed[e] \/ idle[e] <= elapsed[Peer(e)]
          /\ lost = 0 => idle[e] <= elapsed[e] /\ idle[e] <= elapsed[Peer(e)]
      BY <2>1, <2>2, <2>5, <3>6 DEF Redundant, PingChain, PongChain
    <3>8. /\ idle'[e] <= elapsed'[e] \/ idle'[e] <= elapsed'[Peer(e)]
          /\ lost = 0 => idle'[e] <= elapsed'[e] /\ idle'[e] <= elapsed'[Peer(e)]
          /\ idle'[e] < ReadTimeout
      BY <1>c, <1>t, <2>3, <2>4, <3>1, <3>7
    <3>9. Started(Peer(e))'
      BY <2>1, <2>5 DEF Started
    <3> QED BY <2>1, <3>8, <3>9 DEF Redundant, PingChain, PongChain
  <2>6. CASE ~ Started(Peer(e))
    <3>1. skew' = skew + 1 /\ skew < MaxSkew
      BY <1>1, <1>p, <2>6 DEF Tick
    <3>2. idle[e] <= skew /\ (lost = 0 => PongChain(e))
      BY <2>1, <2>2, <2>6 DEF Redundant, PingChain
    <3>3. idle'[e] <= skew' /\ idle'[e] < ReadTimeout
      BY <1>c, <1>t, <2>3, <3>1, <3>2
    <3>4. PongComing(e) => PongComing(e)'
      <4>1. PingDue(e) => PingDue(e)'
        BY <1>c, <1>t, <2>1, <2>4 DEF PingDue
      <4> QED BY <2>1, <4>1 DEF PongComing
    <3>5. PongChain(e) => PongChain(e)'
      BY <1>t, <2>3, <2>4, <3>4 DEF PongChain
    <3>6. ~ Started(Peer(e))'
      BY <2>1, <2>6 DEF Started
    <3> QED BY <2>1, <3>2, <3>3, <3>5, <3>6 DEF Redundant, PingChain
  <2> QED BY <2>5, <2>6
<1>2. ASSUME NEW f \in Ends, Start(f) PROVE Redundant(e)'
  <2>1. CASE f = e
    <3>1. idle'[e] = 0
      BY <1>2, <2>1 DEF Start, Started, FreshTimer
    <3> QED BY <1>reset, <3>1
  <2>2. CASE f = Peer(e)
    <3>1. /\ UNCHANGED <<writer, pinger, sink, link, idle, elapsed, lost, stressed>>
          /\ reader[f] = "handshake" /\ reader' = [reader EXCEPT ![f] = "next"]
      BY <1>2 DEF Start, Started, history
    <3>2. PingDue(Peer(e))'
      BY <2>2, <3>1 DEF PingerFollows, Started, PingDue
    <3>3. reader'[e] = reader[e] /\ reader'[f] = "next"
      BY <1>p, <1>r, <2>2, <3>1
    <3>4. PingChain(e)'
      BY <2>2, <3>2, <3>3 DEF PingChain, PingComing, Started
    <3>5. Intact(e)' => Intact(e)
      BY <2>2, <3>1, <3>3 DEF Intact, Broken, Ended, Reasons
    <3>6. PongChain(e) => PongChain(e)'
      BY <2>2, <3>1, <3>3 DEF PongChain, PongComing, PingDue
    <3> QED BY <3>1, <3>4, <3>5, <3>6 DEF Redundant
  <2> QED BY <1>p, <2>1, <2>2
<1>3. ASSUME NEW f \in Ends, ReadFrame(f) PROVE Redundant(e)'
  <2>1. CASE f = e
    <3>1. idle'[e] = 0
      BY <1>3, <1>r, <2>1 DEF ReadFrame
    <3> QED BY <1>reset, <3>1
  <2>2. CASE f = Peer(e)
    <3>1. /\ UNCHANGED <<writer, pinger, sink, elapsed, skew, lost, stressed>>
          /\ reader[f] = "next" /\ link[f] # <<>>
          /\ reader' = [reader EXCEPT ![f] = Handling(Head(link[f]))]
          /\ link' = [link EXCEPT ![f] = Tail(@)]
          /\ idle' = [idle EXCEPT ![f] = 0]
      BY <1>3 DEF ReadFrame, history
    <3>2. reader'[e] = reader[e] /\ link'[e] = link[e] /\ idle'[e] = idle[e]
      BY <1>p, <1>r, <2>2, <3>1
    <3>3. reader'[f] = Handling(Head(link[f]))
      BY <1>r, <3>1
    <3>4. Started(f) /\ Started(f)'
      BY <3>1, <3>3 DEF Started, Handling
    <3>5. Has("ping", link[f]) => Has("ping", link'[f]) \/ reader'[f] = "pong"
      BY <1>f, <3>1, <3>3, FramesKept DEF Handling
    <3>6. PingChain(e) => PingChain(e)'
      BY <2>2, <3>1, <3>2, <3>4 DEF PingChain, PingComing, PingDue
    <3>7. PongChain(e) => PongChain(e)'
      BY <2>2, <3>1, <3>2, <3>5 DEF PongChain, PongComing, PingDue
    <3>8. Intact(e)' => Intact(e)
      BY <2>2, <3>1, <3>2 DEF Intact, Broken, Ended, Reasons
    <3> QED BY <1>kept, <2>2, <3>1, <3>2, <3>4, <3>6, <3>7, <3>8
  <2> QED BY <1>p, <2>1, <2>2
<1>4. ASSUME NEW f \in Ends, SendPong(f) PROVE Redundant(e)'
  <2>1. CASE f = e
    <3>1. idle'[e] = 0
      BY <1>4, <2>1 DEF SendPong, FreshTimer, clock
    <3> QED BY <1>reset, <3>1
  <2>2. CASE f = Peer(e)
    <3> SUFFICES ASSUME Intact(e)' PROVE Redundant(e)'
      BY DEF Redundant
    <3>1. /\ UNCHANGED <<writer, pinger, link, idle, elapsed, skew, lost, stressed>>
          /\ reader[f] = "pong" /\ reader' = [reader EXCEPT ![f] = "next"]
          /\ Put(f, "pong") /\ writer[f] # "done"
      BY <1>4, <2>2 DEF SendPong, clock, history, Intact, Broken
    <3>2. reader'[e] = reader[e] /\ sink'[e] = sink[e] /\ reader'[f] = "next"
      BY <1>p, <1>r, <2>2, <3>1 DEF Put
    <3>3. /\ Has("pong", sink'[f])
          /\ Has("ping", sink[f]) => Has("ping", sink'[f])
      BY <1>f, <3>1, FramesKept
    <3>4. PingChain(e) => PingChain(e)'
      BY <2>2, <3>1, <3>2, <3>3 DEF PingChain, PingComing, PingDue, Started
    <3>5. PongChain(e)'
      BY <2>2, <3>3 DEF PongChain, PongComing
    <3>6. Intact(e) /\ (Started(Peer(e))' <=> Started(Peer(e)))
      BY <2>2, <3>1, <3>2 DEF Intact, Broken, Ended, Reasons, Started
    <3> QED BY <1>kept, <3>1, <3>4, <3>5, <3>6
  <2> QED BY <1>p, <2>1, <2>2
<1>5. ASSUME NEW f \in Ends, Deliver(f) PROVE Redundant(e)'
  <2>1. CASE f = e
    <3>1. idle'[e] = 0
      BY <1>5, <2>1 DEF Deliver, FreshTimer, clock
    <3> QED BY <1>reset, <3>1
  <2>2. CASE f = Peer(e)
    <3>1. /\ UNCHANGED <<writer, pinger, sink, link, idle, elapsed, skew, lost, stressed>>
          /\ reader[f] = "deliver" /\ reader' = [reader EXCEPT ![f] = "next"]
      BY <1>5 DEF Deliver, clock, history
    <3>2. reader'[e] = reader[e] /\ reader'[f] = "next"
      BY <1>p, <1>r, <2>2, <3>1
    <3>3. /\ PingChain(e) => PingChain(e)'
          /\ Started(Peer(e))' <=> Started(Peer(e))
      BY <2>2, <3>1, <3>2 DEF PingChain, PingComing, PingDue, Started
    <3>4. PongChain(e) => PongChain(e)'
      BY <2>2, <3>1, <3>2 DEF PongChain, PongComing, PingDue
    <3>5. Intact(e)' => Intact(e)
      BY <2>2, <3>1, <3>2 DEF Intact, Broken, Ended, Reasons
    <3> QED BY <1>kept, <3>1, <3>3, <3>4, <3>5
  <2> QED BY <1>p, <2>1, <2>2
<1>6. ASSUME NEW f \in Ends, Timeout(f) \/ UpstreamClosed(f) \/ StreamEnds(f)
      PROVE  Redundant(e)'
  <2>1. reader'[f] \in Reasons
    BY <1>6, <1>r DEF Timeout, UpstreamClosed, StreamEnds, EndReader, Reasons
  <2>2. ~ Intact(e)'
    BY <1>p, <2>1 DEF Intact, Broken, Ended, Reasons
  <2> QED BY <2>2 DEF Redundant
<1>7. ASSUME NEW f \in Ends, Write(f) PROVE Redundant(e)'
  <2>1. UNCHANGED <<reader, writer, pinger, idle, elapsed, skew, lost>>
    BY <1>7 DEF Write, tasks, clock
  <2>2. \A g \in Frame :
          /\ Has(g, sink[f]) => Has(g, sink'[f]) \/ Has(g, link'[Peer(f)]) \/ stressed' = "yes"
          /\ Has(g, link[Peer(f)]) => Has(g, link'[Peer(f)])
    BY <1>7, FramesKept
  <2>3. Peer(f) # f /\ Peer(f) \in Ends
    BY PeerOfEnd
  <2>4. /\ sink' = [sink EXCEPT ![f] = Tail(@)]
        /\ link' = link \/ link' = [link EXCEPT ![Peer(f)] = Append(@, Head(sink[f]))]
        /\ stressed' = "yes" \/ stressed' = stressed
    BY <1>7 DEF Write
  <2>5. sink'[Peer(f)] = sink[Peer(f)] /\ link'[f] = link[f]
    BY <1>r, <2>3, <2>4
  <2>6. /\ f = e => sink'[Peer(e)] = sink[Peer(e)] /\ link'[e] = link[e]
        /\ f = Peer(e) => sink'[e] = sink[e] /\ link'[Peer(e)] = link[Peer(e)]
        /\ f = Peer(e) => Peer(f) = e
    BY <1>p, <2>5
  <2>7. Intact(e)' => Intact(e) /\ stressed' = "no"
    BY <2>1, <2>4 DEF Intact, Broken, Ended
  <2>8. Intact(e)' /\ PingChain(e) => PingChain(e)'
    BY <1>f, <1>p, <2>1, <2>2, <2>6, <2>7 DEF PingChain, PingComing, PingDue, Started
  <2>9. Intact(e)' /\ PongChain(e) => PongChain(e)'
    BY <1>f, <1>p, <2>1, <2>2, <2>6, <2>7 DEF PongChain, PongComing, PingDue
  <2>10. Started(Peer(e))' <=> Started(Peer(e))
    BY <2>1 DEF Started
  <2> QED BY <1>kept, <2>1, <2>7, <2>8, <2>9, <2>10
<1>8. ASSUME NEW f \in Ends, WriteError(f) \/ WriterClosed(f) \/ WriterDone(f)
      PROVE  Redundant(e)'
  <2>1. writer'[f] = "done"
    BY <1>8, <1>r DEF WriteError, WriterClosed, WriterDone, EndWriter
  <2>2. ~ Intact(e)'
    BY <1>p, <2>1 DEF Intact, Broken
  <2> QED BY <2>2 DEF Redundant
<1>9. ASSUME NEW f \in Ends, PingTick(f) PROVE Redundant(e)'
  <2>1. /\ UNCHANGED <<reader, writer, sink, link, idle, skew, lost, stressed>>
        /\ elapsed' = [elapsed EXCEPT ![f] = @ - PingInterval]
        /\ pinger' = [pinger EXCEPT ![f] = "send"] /\ Started(f)
    BY <1>9 DEF PingTick, history
  <2>2. PingDue(f)'
    BY <1>r, <2>1 DEF PingDue
  <2>3. \A d \in Ends \ {f} : elapsed'[d] = elapsed[d] /\ pinger'[d] = pinger[d]
    BY <1>r, <2>1
  <2>4. PingChain(e) => PingChain(e)'
    BY <1>p, <2>1, <2>2, <2>3 DEF PingChain, PingComing, PingDue, Started
  <2>5. PongChain(e) => PongChain(e)'
    BY <1>p, <2>1, <2>2, <2>3 DEF PongChain, PongComing, PingDue
  <2>6. (Intact(e)' => Intact(e)) /\ (Started(Peer(e))' <=> Started(Peer(e)))
    BY <2>1 DEF Intact, Broken, Ended, Started
  <2> QED BY <1>kept, <2>1, <2>4, <2>5, <2>6
<1>10. ASSUME NEW f \in Ends, SendPing(f) PROVE Redundant(e)'
  <2> SUFFICES ASSUME Intact(e)' PROVE Redundant(e)'
    BY DEF Redundant
  <2>1. /\ UNCHANGED <<reader, writer, link, idle, elapsed, skew, lost, stressed>>
        /\ pinger' = [pinger EXCEPT ![f] = "tick"] /\ Put(f, "ping")
    BY <1>10 DEF SendPing, clock, history
  <2>2. Intact(e) /\ writer[f] # "done"
    BY <1>p, <2>1 DEF Intact, Broken, Ended
  <2>3. Has("ping", sink'[f]) /\ (Has("pong", sink[f]) => Has("pong", sink'[f]))
    BY <1>f, <2>1, <2>2, FramesKept
  <2>4. \A d \in Ends \ {f} : sink'[d] = sink[d] /\ pinger'[d] = pinger[d]
    BY <1>r, <2>1 DEF Put
  <2>5. PingChain(e) => PingChain(e)'
    BY <1>p, <2>1, <2>3, <2>4 DEF PingChain, PingComing, PingDue, Started
  <2>6. PongChain(e) => PongChain(e)'
    BY <1>p, <2>1, <2>3, <2>4 DEF PongChain, PongComing, PingDue
  <2>7. Started(Peer(e))' <=> Started(Peer(e))
    BY <2>1 DEF Started
  <2> QED BY <1>kept, <2>1, <2>2, <2>5, <2>6, <2>7
<1>11. ASSUME NEW f \in Ends, PingerClosed(f) PROVE Redundant(e)'
  <2>1. reader' = reader /\ reader[f] \in Reasons
    BY <1>11 DEF PingerClosed, Closed, Ended
  <2>2. ~ Intact(e)'
    BY <1>p, <2>1 DEF Intact, Broken, Ended, Reasons
  <2> QED BY <2>2 DEF Redundant
<1>12. ASSUME NEW f \in Ends, SendData(f) PROVE Redundant(e)'
  <2>1. /\ UNCHANGED <<reader, writer, pinger, link, idle, elapsed, skew, lost, stressed>>
        /\ Put(f, "data") /\ writer[f] # "done"
    BY <1>12 DEF SendData, tasks, clock
  <2>2. /\ Has("ping", sink[f]) => Has("ping", sink'[f])
        /\ Has("pong", sink[f]) => Has("pong", sink'[f])
    BY <1>f, <2>1, FramesKept
  <2>3. \A d \in Ends \ {f} : sink'[d] = sink[d]
    BY <1>r, <2>1 DEF Put
  <2>4. PingChain(e) => PingChain(e)'
    BY <1>p, <2>1, <2>2, <2>3 DEF PingChain, PingComing, PingDue, Started
  <2>5. PongChain(e) => PongChain(e)'
    BY <1>p, <2>1, <2>2, <2>3 DEF PongChain, PongComing, PingDue
  <2>6. (Intact(e)' => Intact(e)) /\ (Started(Peer(e))' <=> Started(Peer(e)))
    BY <2>1 DEF Intact, Broken, Ended, Started
  <2> QED BY <1>kept, <2>1, <2>4, <2>5, <2>6
<1>13. ASSUME UNCHANGED <<tasks, sink, link, clock, history>> PROVE Redundant(e)'
  <2>1. UNCHANGED <<reader, writer, pinger, sink, link, idle, elapsed, skew, lost, stressed>>
    BY <1>13 DEF tasks, clock, history
  <2>2. PingChain(e)' <=> PingChain(e)
    BY <2>1 DEF PingChain, PingComing, PingDue, Started
  <2>3. PongChain(e)' <=> PongChain(e)
    BY <2>1 DEF PongChain, PongComing, PingDue
  <2>4. (Intact(e)' <=> Intact(e)) /\ (Started(Peer(e))' <=> Started(Peer(e)))
    BY <2>1 DEF Intact, Broken, Ended, Started
  <2> QED BY <1>kept, <2>1, <2>2, <2>3, <2>4
<1>14. ASSUME NEW f \in Ends, Exit(f) PROVE Redundant(e)'
  <2>1. reader'[f] = "exit"
    BY <1>14, <1>r DEF Exit
  <2>2. ~ Intact(e)'
    BY <1>p, <2>1 DEF Intact, Broken, Ended, Reasons
  <2> QED BY <2>2 DEF Redundant
<1>15. ASSUME NEW f \in Ends, Lose(f) PROVE Redundant(e)'
  <2>1. /\ UNCHANGED <<reader, writer, pinger, sink, idle, elapsed, skew, stressed>>
        /\ link[f] # <<>> /\ link' = [link EXCEPT ![f] = Tail(@)] /\ lost' = lost + 1
    BY <1>15 DEF Lose, tasks, clock
  <2> SUFFICES ASSUME Intact(e)', lost' <= 1 PROVE Redundant(e)'
    BY DEF Redundant
  <2>2. lost = 0 /\ lost' = 1
    BY <1>t, <2>1
  <2>3. Intact(e)
    BY <2>1 DEF Intact, Broken, Ended
  <2>4. PingChain(e) /\ PongChain(e) /\ idle[e] < ReadTimeout
    BY <2>2, <2>3 DEF Redundant
  <2>5. \A d \in Ends \ {f} : link'[d] = link[d]
    BY <1>r, <2>1
  <2>6. /\ Has("ping", link[f]) => Has("ping", link'[f]) \/ Head(link[f]) = "ping"
        /\ Has("pong", link[f]) => Has("pong", link'[f]) \/ Head(link[f]) = "pong"
    BY <1>f, <2>1, FramesKept
  <2>7. ~ Started(Peer(e))' => PingChain(e)'
    BY <2>1, <2>4 DEF PingChain, Started
  <2>8. CASE f = e /\ Head(link[e]) = "ping"
    <3>1. PongChain(e)'
      BY <1>p, <2>1, <2>4, <2>5, <2>6, <2>8 DEF PongChain, PongComing, PingDue
    <3> QED BY <2>1, <2>2, <2>4, <2>7, <3>1 DEF Redundant
  <2>9. CASE ~ (f = e /\ Head(link[e]) = "ping")
    <3>1. PingChain(e)'
      BY <1>p, <2>1, <2>4, <2>5, <2>6, <2>9 DEF PingChain, PingComing, PingDue, Started
    <3> QED BY <2>1, <2>2, <2>4, <3>1 DEF Redundant
  <2> QED BY <2>8, <2>9
<1>16. ASSUME NEW f \in Ends, Take(f) \/ CloseUpstream(f) PROVE Redundant(e)'
  BY <1>13, <1>16 DEF Take, CloseUpstream
<1>17. CASE UNCHANGED vars
  BY <1>13, <1>17 DEF vars
<1> QED BY <1>1, <1>2, <1>3, <1>4, <1>5, <1>6, <1>7, <1>8, <1>9, <1>10, <1>11, <1>12,
           <1>14, <1>15, <1>16, <1>17, NextCases

\* Losing any one frame never times out a connection whose tasks all run and
\* whose read tasks are not held up: the pings of either end are enough.
THEOREM OneLossToleratedHolds == Spec => []OneLossTolerated
<1>1. ASSUME Init PROVE (\A e \in Ends : Redundant(e)) /\ OneLossTolerated
  <2>1. ASSUME NEW e \in Ends PROVE Redundant(e)
    <3>1. Peer(e) \in Ends /\ Peer(e) # e
      BY PeerOfEnd
    <3>2. idle[e] = 0 /\ elapsed[Peer(e)] = PingInterval /\ elapsed[e] = PingInterval /\ skew = 0
      BY <1>1, <3>1 DEF Init
    <3> QED BY <3>2, ConnectionAssumption
            DEF ConnectionAssumption, Redundant, PingChain, PongChain
  <2>2. OneLossTolerated
    BY <1>1 DEF Init, OneLossTolerated
  <2> QED BY <2>1, <2>2
<1>2. Init => Timers
  BY PeerOfEnd, ConnectionAssumption
     DEF ConnectionAssumption, Init, Timers, FreshTimer, PingerFollows, InTime, Coming,
         Ended, Started, Reasons
<1>3. TypeOK /\ TypeOK' /\ Timers /\ [Next]_vars => Timers'
  BY PeerOfEnd, TimersStep, InTimeStep DEF Timers
<1>4. TypeOK /\ TypeOK' /\ Timers /\ (\A e \in Ends : Redundant(e)) /\ [Next]_vars
      => (\A e \in Ends : Redundant(e))'
  BY PeerOfEnd, RedundantStep DEF Timers
<1>5. TypeOK /\ (\A e \in Ends : Redundant(e)) /\ OneLossTolerated /\ [Next]_vars
      => OneLossTolerated'
  <2> SUFFICES ASSUME TypeOK, \A e \in Ends : Redundant(e), OneLossTolerated, [Next]_vars,
                      NEW e \in Ends, reader'[e] = "timeout"
               PROVE  lost' > 1 \/ stressed' = "yes" \/ writer'[e] = "done" \/ Broken(Peer(e))'
    BY DEF OneLossTolerated
  <2>1. lost \in Nat /\ lost' \in Nat /\ lost <= lost'
    BY BrokenStays
  <2>2. Broken(Peer(e)) => Broken(Peer(e))'
    BY BrokenStays, PeerOfEnd
  <2>3. /\ writer[e] = "done" => writer'[e] = "done"
        /\ stressed = "yes" => stressed' = "yes"
    BY WriterStays
  <2>4. CASE reader[e] = "timeout"
    BY <2>1, <2>2, <2>3, <2>4 DEF OneLossTolerated
  <2>5. CASE reader[e] # "timeout"
    <3>1. reader[e] = "next" /\ idle[e] >= ReadTimeout
      BY <2>5, OnlyTimeout DEF Timeout
    <3>2. ~ (idle[e] < ReadTimeout)
      BY <3>1, ConnectionAssumption DEF ConnectionAssumption, TypeOK
    <3>3. lost > 1 \/ stressed = "yes" \/ writer[e] = "done" \/ Broken(Peer(e))
      <4>1. ~ (Intact(e) /\ lost <= 1)
        BY <3>2 DEF Redundant
      <4>2. lost <= 1 => stressed = "yes" \/ writer[e] = "done" \/ Broken(Peer(e))
        BY <3>1, <4>1 DEF Intact, TypeOK
      <4> QED BY <2>1, <4>2
    <3> QED BY <2>1, <2>2, <2>3, <3>3
  <2> QED BY <2>4, <2>5
<1> QED BY <1>1, <1>2, <1>3, <1>4, <1>5, TypeCorrect, PTL DEF Spec

-----------------------------------------------------------------------------
(***************************************************************************)
(* The codecs of the stream of a connection, and of that of a Unix client, *)
(* for every payload, width of the length field and way the stream is cut. *)
(***************************************************************************)

\* The frames the decoders return, of whatever bytes.
AnyFrame == [type : {"ping", "pong"}] \cup [type : {"bind", "error", "data"}, data : Seq(Nat)]

\* Concatenation of bytes is associative.
LEMMA ByteConcat ==
  ASSUME NEW x \in Seq(Nat), NEW y \in Seq(Nat), NEW z \in Seq(Nat)
  PROVE  (x \o y) \o z = x \o (y \o z) /\ x \o y \in Seq(Nat)
<1>1. /\ x \o y \in Seq(Nat) /\ Len(x \o y) = Len(x) + Len(y)
      /\ \A i \in 1 .. Len(x) + Len(y) : (x \o y)[i] = IF i <= Len(x) THEN x[i] ELSE y[i - Len(x)]
  BY ConcatProperties
<1>2. /\ y \o z \in Seq(Nat) /\ Len(y \o z) = Len(y) + Len(z)
      /\ \A i \in 1 .. Len(y) + Len(z) : (y \o z)[i] = IF i <= Len(y) THEN y[i] ELSE z[i - Len(y)]
  BY ConcatProperties
<1>3. Len(x) \in Nat /\ Len(y) \in Nat /\ Len(z) \in Nat
  BY LenProperties
<1> DEFINE xy == x \o y
           yz == y \o z
<1>4. /\ xy \o z \in Seq(Nat) /\ Len(xy \o z) = Len(xy) + Len(z)
      /\ \A i \in 1 .. Len(xy) + Len(z) : (xy \o z)[i] = IF i <= Len(xy) THEN xy[i] ELSE z[i - Len(xy)]
  <2>1. xy \in Seq(Nat)
    BY <1>1
  <2> HIDE DEF xy
  <2> QED BY <2>1, ConcatProperties
<1>5. /\ x \o yz \in Seq(Nat) /\ Len(x \o yz) = Len(x) + Len(yz)
      /\ \A i \in 1 .. Len(x) + Len(yz) : (x \o yz)[i] = IF i <= Len(x) THEN x[i] ELSE yz[i - Len(x)]
  <2>1. yz \in Seq(Nat)
    BY <1>2
  <2> HIDE DEF yz
  <2> QED BY <2>1, ConcatProperties
<1>6. ASSUME NEW i \in 1 .. Len(xy \o z) PROVE (xy \o z)[i] = (x \o yz)[i]
  <2>1. /\ Len(xy) = Len(x) + Len(y) /\ Len(yz) = Len(y) + Len(z)
        /\ \A j \in 1 .. Len(x) + Len(y) : xy[j] = IF j <= Len(x) THEN x[j] ELSE y[j - Len(x)]
        /\ \A j \in 1 .. Len(y) + Len(z) : yz[j] = IF j <= Len(y) THEN y[j] ELSE z[j - Len(y)]
    BY <1>1, <1>2
  <2> HIDE DEF xy, yz
  <2>2. i \in 1 .. Len(x) + Len(y) + Len(z)
    BY <1>3, <1>4, <2>1
  <2>3. CASE i <= Len(x)
    <3>1. (xy \o z)[i] = xy[i] /\ xy[i] = x[i]
      BY <1>3, <1>4, <2>1, <2>2, <2>3
    <3>2. (x \o yz)[i] = x[i]
      BY <1>3, <1>5, <2>1, <2>2, <2>3
    <3> QED BY <3>1, <3>2
  <2>4. CASE ~ (i <= Len(x)) /\ i <= Len(x) + Len(y)
    <3>1. i - Len(x) \in 1 .. Len(y) + Len(z) /\ i - Len(x) <= Len(y)
      BY <1>3, <2>2, <2>4
    <3>2. (xy \o z)[i] = xy[i] /\ xy[i] = y[i - Len(x)]
      BY <1>3, <1>4, <2>1, <2>2, <2>4
    <3>3. (x \o yz)[i] = yz[i - Len(x)]
      BY <1>3, <1>5, <2>1, <2>2, <2>4
    <3>4. yz[i - Len(x)] = y[i - Len(x)]
      BY <2>1, <3>1
    <3> QED BY <3>2, <3>3, <3>4
  <2>5. CASE ~ (i <= Len(x) + Len(y))
    <3>1. /\ i - Len(x) \in 1 .. Len(y) + Len(z) /\ ~ (i - Len(x) <= Len(y))
          /\ ~ (i <= Len(x)) /\ (i - Len(x)) - Len(y) = i - (Len(x) + Len(y))
      BY <1>3, <2>2, <2>5
    <3>2. (xy \o z)[i] = z[i - (Len(x) + Len(y))]
      BY <1>3, <1>4, <2>1, <2>2, <2>5
    <3>3. (x \o yz)[i] = yz[i - Len(x)]
      BY <1>3, <1>5, <2>1, <2>2, <2>5, <3>1
    <3>4. yz[i - Len(x)] = z[(i - Len(x)) - Len(y)]
      BY <2>1, <3>1
    <3> QED BY <3>1, <3>2, <3>3, <3>4
  <2> QED BY <1>3, <2>2, <2>3, <2>4, <2>5
<1>7. Len(xy \o z) = Len(x \o yz)
  <2>1. Len(xy) = Len(x) + Len(y) /\ Len(yz) = Len(y) + Len(z)
    BY <1>1, <1>2
  <2> HIDE DEF xy, yz
  <2> QED BY <1>3, <1>4, <1>5, <2>1
<1>8. xy \o z = x \o yz
  <2> HIDE DEF xy, yz
  <2> QED BY <1>4, <1>5, <1>6, <1>7, SeqEqual
<1> QED BY <1>1, <1>8

\* What is concatenated to the same bytes with the same result is the same.
LEMMA ByteCancel ==
  ASSUME NEW x \in Seq(Nat), NEW y \in Seq(Nat), NEW z \in Seq(Nat), x \o y = x \o z
  PROVE  y = z
BY ConcatSimplifications

\* Concatenation under a name, which the provers do not look into.
Cat(x, y) == x \o y

\* The laws of concatenation used below.
LEMMA CatLaws ==
  /\ \A x, y \in Seq(Nat) : Cat(x, y) \in Seq(Nat)
  /\ \A x, y, z \in Seq(Nat) : Cat(Cat(x, y), z) = Cat(x, Cat(y, z))
  /\ \A x \in Seq(Nat) : Cat(<<>>, x) = x /\ Cat(x, <<>>) = x
  /\ \A x, y, z \in Seq(Nat) : Cat(x, y) = Cat(x, z) => y = z
<1>1. ASSUME NEW x \in Seq(Nat), NEW y \in Seq(Nat), NEW z \in Seq(Nat)
      PROVE  /\ Cat(x, y) \in Seq(Nat)
             /\ Cat(Cat(x, y), z) = Cat(x, Cat(y, z))
             /\ Cat(<<>>, x) = x /\ Cat(x, <<>>) = x
             /\ Cat(x, y) = Cat(x, z) => y = z
  <2>1. (x \o y) \o z = x \o (y \o z) /\ x \o y \in Seq(Nat)
    BY ByteConcat
  <2>2. <<>> \o x = x /\ x \o <<>> = x
    BY ConcatEmptySeq
  <2>3. x \o y = x \o z => y = z
    BY ByteCancel
  <2> QED BY <2>1, <2>2, <2>3 DEF Cat
<1> QED BY <1>1

\* Associativity alone, for the steps that need no more.
LEMMA CatAssoc ==
  ASSUME NEW x \in Seq(Nat), NEW y \in Seq(Nat), NEW z \in Seq(Nat)
  PROVE  Cat(Cat(x, y), z) = Cat(x, Cat(y, z))
BY CatLaws

\* Of two ways to cut a sequence, the later cut starts with the earlier piece.
LEMMA CutTwice ==
  ASSUME NEW a \in Seq(Nat), NEW b \in Seq(Nat), NEW u \in Seq(Nat), NEW v \in Seq(Nat),
         Cat(a, b) = Cat(u, v)
  PROVE  /\ \A j \in 1 .. Len(a) : j <= Len(u) => a[j] = u[j]
         /\ Len(u) <= Len(a) => /\ SubSeq(a, Len(u) + 1, Len(a)) \in Seq(Nat)
                                /\ Cat(SubSeq(a, Len(u) + 1, Len(a)), b) = v
         /\ b = <<>> => Len(u) <= Len(a)
<1>0. a \o b = u \o v
  BY DEF Cat
<1>1. /\ Len(a) \in Nat /\ Len(u) \in Nat /\ Len(b) \in Nat /\ Len(v) \in Nat
  BY LenProperties
<1>2. /\ Len(a \o b) = Len(a) + Len(b)
      /\ \A i \in 1 .. Len(a) + Len(b) : (a \o b)[i] = IF i <= Len(a) THEN a[i] ELSE b[i - Len(a)]
      /\ Len(u \o v) = Len(u) + Len(v)
      /\ \A i \in 1 .. Len(u) + Len(v) : (u \o v)[i] = IF i <= Len(u) THEN u[i] ELSE v[i - Len(u)]
  BY ConcatProperties
<1>3. ASSUME NEW j \in 1 .. Len(a), j <= Len(u) PROVE a[j] = u[j]
  <2>1. j \in 1 .. Len(a) + Len(b) /\ j \in 1 .. Len(u) + Len(v) /\ j <= Len(a)
    BY <1>1, <1>3
  <2> QED BY <1>0, <1>2, <1>3, <2>1
<1>4. ASSUME Len(u) <= Len(a)
      PROVE  /\ SubSeq(a, Len(u) + 1, Len(a)) \in Seq(Nat)
             /\ Cat(SubSeq(a, Len(u) + 1, Len(a)), b) = v
  <2> DEFINE r == SubSeq(a, Len(u) + 1, Len(a))
  <2>1. /\ SubSeq(a, 1, Len(u)) \o r = SubSeq(a, 1, Len(a))
        /\ SubSeq(a, 1, Len(a)) = a
    <3>1. 1 \in 1 .. Len(a) + 1 /\ Len(u) \in 1 - 1 .. Len(a) /\ Len(a) \in Len(u) .. Len(a)
      BY <1>1, <1>4
    <3> QED BY <3>1, ConcatAdjacentSubSeq, SubSeqFull
  <2>2. \A i \in 1 .. Len(a) : a[i] \in Nat
    BY ElementOfSeq
  <2>3. /\ SubSeq(a, 1, Len(u)) \in Seq(Nat) /\ Len(SubSeq(a, 1, Len(u))) = Len(u)
        /\ \A i \in 1 .. Len(u) : SubSeq(a, 1, Len(u))[i] = a[i]
    <3>1. \A i \in 1 .. Len(u) : a[i] \in Nat
      BY <1>1, <1>4, <2>2
    <3>2. 1 \in Int /\ Len(u) \in Int
      BY <1>1
    <3>3. /\ SubSeq(a, 1, Len(u)) \in Seq(Nat)
          /\ Len(SubSeq(a, 1, Len(u))) = IF 1 <= Len(u) THEN Len(u) - 1 + 1 ELSE 0
          /\ \A i \in 1 .. Len(u) - 1 + 1 : SubSeq(a, 1, Len(u))[i] = a[1 + i - 1]
      BY <3>1, <3>2, SubSeqProperties
    <3> QED BY <1>1, <3>3
  <2>4. SubSeq(a, 1, Len(u)) = u
    <3>1. \A i \in 1 .. Len(u) : SubSeq(a, 1, Len(u))[i] = u[i]
      BY <1>1, <1>3, <1>4, <2>3
    <3> QED BY <2>3, <3>1, SeqEqual
  <2>5. r \in Seq(Nat)
    <3>1. \A i \in Len(u) + 1 .. Len(a) : a[i] \in Nat
      BY <1>1, <2>2
    <3>2. Len(u) + 1 \in Int /\ Len(a) \in Int
      BY <1>1
    <3> QED BY <3>1, <3>2, SubSeqProperties
  <2> HIDE DEF r
  <2>6. Cat(Cat(u, r), b) = Cat(u, v)
    BY <2>1, <2>4 DEF Cat
  <2>7. Cat(r, b) = v
    BY <2>5, <2>6, CatLaws
  <2> QED BY <2>5, <2>7 DEF r
<1>5. b = <<>> => Len(u) <= Len(a)
  BY <1>0, <1>1, <1>2, EmptySeq
<1> QED BY <1>3, <1>4, <1>5

\* A payload is a sequence of bytes.
LEMMA PayloadSequence ==
  ASSUME NEW p \in Payloads
  PROVE  p \in Seq(Nat)
<1>1. PICK n \in 0 .. MaxLength : p \in [1 .. n -> Bytes]
  BY DEF Payloads
<1>2. n \in Nat /\ Bytes \subseteq Nat
  BY <1>1, CodecAssumption DEF CodecAssumption
<1>3. p \in [1 .. n -> Nat]
  BY <1>1, <1>2
<1> QED BY <1>2, <1>3, SeqDef

\* A length in its field: what fits is kept, and nothing becomes longer.
LEMMA LengthField ==
  ASSUME NEW n \in Nat, NEW m \in Nat \ {0}
  PROVE  n % m \in Nat /\ n % m <= n /\ (n < m => n % m = n)
OBVIOUS

\* Two bytes and a payload.
LEMMA HeaderAndPayload ==
  ASSUME NEW x \in Nat, NEW y \in Nat, NEW p \in Seq(Nat)
  PROVE  /\ <<x, y>> \o p \in Seq(Nat) /\ Len(<<x, y>> \o p) = 2 + Len(p)
         /\ (<<x, y>> \o p)[1] = x /\ (<<x, y>> \o p)[2] = y
         /\ \A j \in 1 .. Len(p) : (<<x, y>> \o p)[2 + j] = p[j]
<1> DEFINE h == <<x, y>>
<1>1. h \in Seq(Nat) /\ Len(h) = 2 /\ h[1] = x /\ h[2] = y /\ Len(p) \in Nat
  BY LenProperties
<1> HIDE DEF h
<1>2. /\ h \o p \in Seq(Nat) /\ Len(h \o p) = Len(h) + Len(p)
      /\ \A i \in 1 .. Len(h) + Len(p) : (h \o p)[i] = IF i <= Len(h) THEN h[i] ELSE p[i - Len(h)]
  BY <1>1, ConcatProperties
<1>3. (h \o p)[1] = x /\ (h \o p)[2] = y
  <2>1. 1 \in 1 .. Len(h) + Len(p) /\ 2 \in 1 .. Len(h) + Len(p) /\ 1 <= Len(h) /\ 2 <= Len(h)
    BY <1>1
  <2> QED BY <1>1, <1>2, <2>1
<1>4. ASSUME NEW j \in 1 .. Len(p) PROVE (h \o p)[2 + j] = p[j]
  <2>1. 2 + j \in 1 .. Len(h) + Len(p) /\ ~ (2 + j <= Len(h)) /\ (2 + j) - Len(h) = j
    BY <1>1
  <2> QED BY <1>2, <2>1
<1> QED BY <1>1, <1>2, <1>3, <1>4 DEF h

\* The bytes of a data frame of the transport codec.
LEMMA DataEncoded ==
  ASSUME NEW f \in Frames["transport"], f.type = "data"
  PROVE  /\ f = [type |-> "data", data |-> f.data] /\ f.data \in Seq(Nat)
         /\ encode(f) \in Seq(Nat) /\ Len(encode(f)) = 2 + Len(f.data)
         /\ encode(f)[1] = 3 /\ encode(f)[2] = Len(f.data) % LengthMod
         /\ \A j \in 1 .. Len(f.data) : encode(f)[2 + j] = f.data[j]
<1>1. f \in [type : {"data"}, data : Payloads]
  BY DEF Frames
<1>2. f = [type |-> "data", data |-> f.data] /\ f.data \in Seq(Nat)
  BY <1>1, PayloadSequence
<1>3. Len(f.data) % LengthMod \in Nat /\ 3 \in Nat
  <2>1. Len(f.data) \in Nat
    BY <1>2, LenProperties
  <2>2. LengthMod \in Nat \ {0}
    BY CodecAssumption DEF CodecAssumption
  <2> QED BY <2>1, <2>2, LengthField
<1>4. encode(f) = <<3, Len(f.data) % LengthMod>> \o f.data
  BY DEF encode
<1> QED BY <1>2, <1>3, <1>4, HeaderAndPayload

\* The bytes of a frame of the unix codec.
LEMMA UnixEncoded ==
  ASSUME NEW f \in Frames["unix"]
  PROVE  /\ f = [type |-> f.type, data |-> f.data] /\ f.data \in Seq(Nat)
         /\ unixEncode(f) \in Seq(Nat) /\ Len(unixEncode(f)) = 2 + Len(f.data)
         /\ unixEncode(f)[1] \in 1 .. 3 /\ UnixTypes[unixEncode(f)[1]] = f.type
         /\ unixEncode(f)[2] = Len(f.data)
         /\ \A j \in 1 .. Len(f.data) : unixEncode(f)[2 + j] = f.data[j]
<1>1. f \in [type : {"bind", "error"}, data : {<<>>}] \cup [type : {"data"}, data : Payloads]
  BY DEF Frames
<1>2. /\ f = [type |-> f.type, data |-> f.data] /\ f.data \in Seq(Nat)
      /\ f.type \in {"bind", "error", "data"}
  <2>1. <<>> \in Seq(Nat)
    BY EmptySeq
  <2> QED BY <1>1, <2>1, PayloadSequence
<1> DEFINE k == CHOOSE i \in 1 .. 3 : UnixTypes[i] = f.type
<1>3. k \in 1 .. 3 /\ UnixTypes[k] = f.type
  <2>1. \E i \in 1 .. 3 : UnixTypes[i] = f.type
    <3>1. 1 \in 1 .. 3 /\ 2 \in 1 .. 3 /\ 3 \in 1 .. 3
      OBVIOUS
    <3>2. UnixTypes[1] = "bind" /\ UnixTypes[2] = "error" /\ UnixTypes[3] = "data"
      BY DEF UnixTypes
    <3> QED BY <1>2, <3>1, <3>2
  <2> QED BY <2>1
<1>4. unixEncode(f) = <<k, Len(f.data)>> \o f.data
  BY DEF unixEncode
<1> HIDE DEF k
<1>5. k \in Nat /\ Len(f.data) \in Nat
  BY <1>2, <1>3, LenProperties
<1> QED BY <1>2, <1>3, <1>4, <1>5, HeaderAndPayload

\* A payload cut out of the bytes that start with its frame.
LEMMA PayloadCut ==
  ASSUME NEW src \in Seq(Nat), NEW e \in Seq(Nat), NEW p \in Seq(Nat),
         Len(e) = 2 + Len(p), \A j \in 1 .. Len(p) : e[2 + j] = p[j],
         Len(e) <= Len(src), \A j \in 1 .. Len(src) : j <= Len(e) => src[j] = e[j]
  PROVE  SubSeq(src, 3, 2 + Len(p)) = p
<1>1. Len(src) \in Nat /\ Len(p) \in Nat
  BY LenProperties
<1>2. \A j \in 1 .. Len(p) : src[2 + j] = p[j]
  <2>1. \A j \in 1 .. Len(p) : 2 + j \in 1 .. Len(src) /\ 2 + j <= Len(e)
    BY <1>1
  <2> QED BY <2>1
<1>3. \A i \in 3 .. 2 + Len(p) : src[i] \in Nat
  <2>1. \A i \in 3 .. 2 + Len(p) : i \in 1 .. Len(src)
    BY <1>1
  <2> QED BY <2>1, ElementOfSeq
<1>4. /\ SubSeq(src, 3, 2 + Len(p)) \in Seq(Nat)
      /\ Len(SubSeq(src, 3, 2 + Len(p))) = IF 3 <= 2 + Len(p) THEN 2 + Len(p) - 3 + 1 ELSE 0
      /\ \A i \in 1 .. 2 + Len(p) - 3 + 1 : SubSeq(src, 3, 2 + Len(p))[i] = src[3 + i - 1]
  <2>1. 3 \in Int /\ 2 + Len(p) \in Int
    BY <1>1
  <2> QED BY <1>3, <2>1, SubSeqProperties
<1>5. Len(SubSeq(src, 3, 2 + Len(p))) = Len(p)
  BY <1>1, <1>4
<1>6. \A i \in 1 .. Len(p) : SubSeq(src, 3, 2 + Len(p))[i] = p[i]
  <2>1. \A i \in 1 .. Len(p) : i \in 1 .. 2 + Len(p) - 3 + 1 /\ 3 + i - 1 = 2 + i
    BY <1>1
  <2> QED BY <1>2, <1>4, <2>1
<1> QED BY <1>4, <1>5, <1>6, SeqEqual

\* src starts with f in the transport codec, t follows f, and w has not arrived.
TransportReturns(f, src, w, t) ==
  /\ encode(f) \in Seq(Nat)
  /\ decode(src).result \in {"none", "frame"}
  /\ (f.type = "data" => Len(f.data) < LengthMod) =>
       /\ w = <<>> => decode(src).result = "frame"
       /\ decode(src).result = "frame" =>
            /\ decode(src).frame = f
            /\ decode(src).rest \in Seq(Nat) /\ Cat(decode(src).rest, w) = t

\* The transport decoder on bytes that start with a frame: it waits, or returns
\* that frame and what follows it, unless the length did not fit its field.
LEMMA TransportDecodes ==
  ASSUME NEW f \in Frames["transport"], NEW src \in Seq(Nat), NEW w \in Seq(Nat),
         NEW t \in Seq(Nat), Cat(src, w) = Cat(encode(f), t)
  PROVE  TransportReturns(f, src, w, t)
<1> USE DEF TransportReturns
<1>1. CASE f.type # "data"
  <2>1. f \in [type : {"ping", "pong"}]
    BY <1>1 DEF Frames
  <2>2. f = [type |-> f.type] /\ f.type \in {"ping", "pong"}
    BY <2>1
  <2>3. PICK k \in {1, 2} : encode(f) = <<k>> /\ <<"ping", "pong">>[k] = f.type
    <3>1. CASE f.type = "ping"
      BY <3>1 DEF encode
    <3>2. CASE f.type = "pong"
      BY <3>2 DEF encode
    <3> QED BY <2>2, <3>1, <3>2
  <2>4. encode(f) \in Seq(Nat) /\ Len(encode(f)) = 1 /\ encode(f)[1] = k
    BY <2>3
  <2>5. /\ \A j \in 1 .. Len(src) : j <= 1 => src[j] = encode(f)[j]
        /\ 1 <= Len(src) => Cat(SubSeq(src, 2, Len(src)), w) = t
        /\ w = <<>> => 1 <= Len(src)
    <3> DEFINE e == encode(f)
    <3>1. e \in Seq(Nat) /\ Cat(src, w) = Cat(e, t) /\ Len(e) = 1 /\ Len(e) + 1 = 2
      BY <2>4
    <3> HIDE DEF e
    <3>2. /\ \A j \in 1 .. Len(src) : j <= Len(e) => src[j] = e[j]
          /\ Len(e) <= Len(src) => /\ SubSeq(src, Len(e) + 1, Len(src)) \in Seq(Nat)
                                   /\ Cat(SubSeq(src, Len(e) + 1, Len(src)), w) = t
          /\ w = <<>> => Len(e) <= Len(src)
      BY <3>1, CutTwice
    <3> QED BY <3>1, <3>2 DEF e
  <2>6. CASE src = <<>>
    <3>1. decode(src).result = "none"
      BY <2>6 DEF decode, Incomplete
    <3>2. w # <<>>
      BY <2>5, <2>6
    <3> QED BY <2>4, <3>1, <3>2
  <2>7. CASE src # <<>>
    <3>1. Len(src) \in Nat /\ 1 <= Len(src)
      BY <2>7, EmptySeq, LenProperties
    <3>2. src[1] = k
      BY <2>4, <2>5, <3>1
    <3>3. decode(src) = Decoded([type |-> <<"ping", "pong">>[k]], Tail(src))
      BY <2>7, <3>2 DEF decode
    <3>4. decode(src).result = "frame" /\ decode(src).frame = f /\ decode(src).rest = Tail(src)
      BY <2>2, <2>3, <3>3 DEF Decoded
    <3>5. Tail(src) = SubSeq(src, 2, Len(src))
      BY <2>7, TailIsSubSeq
    <3>6. Tail(src) \in Seq(Nat) /\ Cat(Tail(src), w) = t
      BY <2>5, <2>7, <3>1, <3>5, HeadTailProperties
    <3> QED BY <2>4, <3>4, <3>6
  <2> QED BY <2>6, <2>7
<1>2. CASE f.type = "data"
  <2> DEFINE e == encode(f)
             n == Len(f.data)
  <2>1. /\ f = [type |-> "data", data |-> f.data] /\ f.data \in Seq(Nat)
        /\ e \in Seq(Nat) /\ Len(e) = 2 + n /\ e[1] = 3 /\ e[2] = n % LengthMod
        /\ \A j \in 1 .. n : e[2 + j] = f.data[j]
    BY <1>2, DataEncoded
  <2>2. n \in Nat /\ LengthMod \in Nat \ {0} /\ Len(src) \in Nat
    BY <2>1, LenProperties, CodecAssumption DEF CodecAssumption
  <2>3. n % LengthMod \in Nat /\ n % LengthMod <= n /\ (n < LengthMod => n % LengthMod = n)
    BY <2>2, LengthField
  <2> HIDE DEF e
  <2>4. /\ \A j \in 1 .. Len(src) : j <= Len(e) => src[j] = e[j]
        /\ Len(e) <= Len(src) => /\ SubSeq(src, Len(e) + 1, Len(src)) \in Seq(Nat)
                                 /\ Cat(SubSeq(src, Len(e) + 1, Len(src)), w) = t
        /\ w = <<>> => Len(e) <= Len(src)
    BY <2>1, CutTwice DEF e
  <2> HIDE DEF n
  <2>5. CASE src = <<>>
    <3>1. decode(src).result = "none"
      BY <2>5 DEF decode, Incomplete
    <3>2. w # <<>>
      BY <2>1, <2>2, <2>4, <2>5, EmptySeq
    <3> QED BY <2>1, <3>1, <3>2 DEF e
  <2>6. CASE src # <<>>
    <3>1. 1 <= Len(src)
      BY <2>2, <2>6, EmptySeq
    <3>2. src[1] = 3
      <4>1. 1 \in 1 .. Len(src) /\ 1 <= Len(e)
        BY <2>1, <2>2, <3>1
      <4> QED BY <2>1, <2>4, <4>1
    <3>3. decode(src) = IF Len(src) < 2 \/ Len(src) < 2 + src[2]
                        THEN Incomplete ELSE DataDecoded(src, src[2])
      BY <2>6, <3>2 DEF decode, HeaderLength
    <3>4. decode(src).result \in {"none", "frame"}
      BY <3>3 DEF Incomplete, DataDecoded, Decoded
    <3>5. 2 <= Len(src) => src[2] = n % LengthMod
      <4>1. ASSUME 2 <= Len(src) PROVE 2 \in 1 .. Len(src) /\ 2 <= Len(e)
        BY <2>1, <2>2, <4>1
      <4> QED BY <2>1, <2>4, <4>1
    <3>6. ASSUME n < LengthMod
          PROVE  /\ w = <<>> => decode(src).result = "frame"
                 /\ decode(src).result = "frame" =>
                      /\ decode(src).frame = f
                      /\ decode(src).rest \in Seq(Nat) /\ Cat(decode(src).rest, w) = t
      <4>1. CASE Len(src) < Len(e)
        <5>1. Len(src) < 2 \/ Len(src) < 2 + src[2]
          <6>1. 2 <= Len(src) => src[2] = n
            BY <2>3, <3>5, <3>6
          <6>2. Len(src) < 2 + n
            BY <2>1, <4>1
          <6> QED BY <2>2, <6>1, <6>2
        <5>2. decode(src).result = "none"
          BY <3>3, <5>1 DEF Incomplete
        <5>3. w # <<>>
          BY <2>1, <2>2, <2>4, <4>1
        <5> QED BY <5>2, <5>3
      <4>2. CASE ~ (Len(src) < Len(e))
        <5>1. /\ Len(e) <= Len(src) /\ src[2] = n
              /\ ~ (Len(src) < 2) /\ ~ (Len(src) < 2 + n)
          <6>1. Len(e) <= Len(src) /\ ~ (Len(src) < 2) /\ ~ (Len(src) < 2 + n) /\ 2 <= Len(src)
            BY <2>1, <2>2, <4>2
          <6>2. src[2] = n
            BY <2>3, <3>5, <3>6, <6>1
          <6> QED BY <6>1, <6>2
        <5>2. decode(src) = DataDecoded(src, n)
          BY <3>3, <5>1
        <5>3. SubSeq(src, 3, 2 + n) = f.data
          BY <2>1, <2>4, <5>1, PayloadCut DEF n
        <5>4. /\ decode(src).result = "frame"
              /\ decode(src).frame = [type |-> "data", data |-> SubSeq(src, 2 + 1, 2 + n)]
              /\ decode(src).rest = SubSeq(src, 2 + n + 1, Len(src))
          <6> DEFINE g == [type |-> "data", data |-> SubSeq(src, 2 + 1, 2 + n)]
                     r == SubSeq(src, 2 + n + 1, Len(src))
          <6>1. decode(src) = [result |-> "frame", frame |-> g, rest |-> r]
            BY <5>2 DEF DataDecoded, Decoded, HeaderLength
          <6> HIDE DEF g, r
          <6>2. decode(src).result = "frame" /\ decode(src).frame = g /\ decode(src).rest = r
            BY <6>1
          <6> QED BY <6>2 DEF g, r
        <5>5. decode(src).frame = f
          BY <2>1, <5>3, <5>4
        <5>6. decode(src).rest \in Seq(Nat) /\ Cat(decode(src).rest, w) = t
          BY <2>1, <2>4, <5>1, <5>4
        <5> QED BY <5>4, <5>5, <5>6
      <4> QED BY <4>1, <4>2
    <3> QED BY <2>1, <3>4, <3>6 DEF e, n
  <2> QED BY <2>5, <2>6
<1> QED BY <1>1, <1>2

\* The same in the unix codec.
UnixReturns(f, src, w, t) ==
  /\ unixEncode(f) \in Seq(Nat)
  /\ w = <<>> => unixDecode(src).result # "none"
  /\ unixDecode(src).result = "error" =>
       /\ Len(src) < Len(unixEncode(f))
       /\ src = SubSeq(unixEncode(f), 1, Len(src))
  /\ unixDecode(src).result = "frame" =>
       /\ unixDecode(src).frame = f
       /\ unixDecode(src).rest \in Seq(Nat) /\ Cat(unixDecode(src).rest, w) = t

\* The unix decoder on bytes that start with a frame: it returns that frame and
\* what follows it, or fails on a first piece of it, or has no bytes at all.
LEMMA UnixDecodes ==
  ASSUME NEW f \in Frames["unix"], NEW src \in Seq(Nat), NEW w \in Seq(Nat),
         NEW t \in Seq(Nat), Cat(src, w) = Cat(unixEncode(f), t)
  PROVE  UnixReturns(f, src, w, t)
<1> USE DEF UnixReturns
<1> DEFINE e == unixEncode(f)
           n == Len(f.data)
<1>1. /\ f = [type |-> f.type, data |-> f.data] /\ f.data \in Seq(Nat)
      /\ e \in Seq(Nat) /\ Len(e) = 2 + n
      /\ e[1] \in 1 .. 3 /\ UnixTypes[e[1]] = f.type /\ e[2] = n
      /\ \A j \in 1 .. n : e[2 + j] = f.data[j]
  BY UnixEncoded
<1>2. n \in Nat /\ Len(src) \in Nat
  BY <1>1, LenProperties
<1> HIDE DEF e
<1>3. /\ \A j \in 1 .. Len(src) : j <= Len(e) => src[j] = e[j]
      /\ Len(e) <= Len(src) => /\ SubSeq(src, Len(e) + 1, Len(src)) \in Seq(Nat)
                               /\ Cat(SubSeq(src, Len(e) + 1, Len(src)), w) = t
      /\ w = <<>> => Len(e) <= Len(src)
  BY <1>1, CutTwice DEF e
<1>4. Len(src) < Len(e) => src = SubSeq(e, 1, Len(src))
  <2> SUFFICES ASSUME Len(src) < Len(e) PROVE src = SubSeq(e, 1, Len(src))
    OBVIOUS
  <2>1. \A i \in 1 .. Len(src) : e[i] = src[i] /\ src[i] \in Nat
    <3>1. \A i \in 1 .. Len(src) : i <= Len(e)
      BY <1>1, <1>2
    <3> QED BY <1>3, <3>1, ElementOfSeq
  <2>2. /\ SubSeq(e, 1, Len(src)) \in Seq(Nat)
        /\ Len(SubSeq(e, 1, Len(src))) = IF 1 <= Len(src) THEN Len(src) - 1 + 1 ELSE 0
        /\ \A i \in 1 .. Len(src) - 1 + 1 : SubSeq(e, 1, Len(src))[i] = e[1 + i - 1]
    <3>1. 1 \in Int /\ Len(src) \in Int /\ \A i \in 1 .. Len(src) : e[i] \in Nat
      BY <1>2, <2>1
    <3> QED BY <3>1, SubSeqProperties
  <2>3. Len(SubSeq(e, 1, Len(src))) = Len(src)
    BY <1>2, <2>2
  <2>4. \A i \in 1 .. Len(src) : src[i] = SubSeq(e, 1, Len(src))[i]
    <3>1. \A i \in 1 .. Len(src) : i \in 1 .. Len(src) - 1 + 1 /\ 1 + i - 1 = i
      BY <1>2
    <3> QED BY <2>1, <2>2, <3>1
  <2> QED BY <2>2, <2>3, <2>4, SeqEqual
<1> HIDE DEF n
<1>5. CASE src = <<>>
  <2>1. unixDecode(src).result = "none"
    BY <1>5 DEF unixDecode, Incomplete
  <2>2. w # <<>>
    BY <1>1, <1>2, <1>3, <1>5, EmptySeq
  <2> QED BY <1>1, <2>1, <2>2 DEF e
<1>6. CASE src # <<>> /\ Len(src) < Len(e)
  <2>1. Len(src) < 2 \/ ~ Whole(src)
    <3>1. 2 <= Len(src) => 2 \in 1 .. Len(src) /\ 2 <= Len(e)
      BY <1>1, <1>2
    <3>2. 2 <= Len(src) => src[2] = n
      BY <1>1, <1>3, <3>1
    <3>3. 2 <= Len(src) => ~ (Len(src) >= 2 + src[2])
      BY <1>1, <1>2, <1>6, <3>2
    <3> QED BY <1>2, <3>3 DEF Whole, HeaderLength
  <2>2. unixDecode(src).result = "error"
    BY <1>6, <2>1 DEF unixDecode, Invalid, HeaderLength
  <2> QED BY <1>1, <1>4, <1>6, <2>2 DEF e
<1>7. CASE src # <<>> /\ Len(e) <= Len(src)
  <2>1. src[1] = e[1] /\ src[2] = n
    <3>1. 1 \in 1 .. Len(src) /\ 1 <= Len(e) /\ 2 \in 1 .. Len(src) /\ 2 <= Len(e)
      BY <1>1, <1>2, <1>7
    <3> QED BY <1>1, <1>3, <3>1
  <2>2. SubSeq(src, 3, 2 + n) = f.data
    BY <1>1, <1>3, <1>7, PayloadCut DEF n
  <2>3. UnixFrame(src) = f
    <3>1. UnixFrame(src) = [type |-> UnixTypes[e[1]], data |-> SubSeq(src, 2 + 1, 2 + n)]
      BY <2>1 DEF UnixFrame, HeaderLength
    <3> QED BY <1>1, <2>2, <3>1
  <2>4. ~ (Len(src) < 2 \/ ~ Whole(src))
    BY <1>1, <1>2, <1>7, <2>1 DEF Whole, HeaderLength
  <2>5. unixDecode(src) = Decoded(f, SubSeq(src, Len(e) + 1, Len(src)))
    BY <1>7, <2>3, <2>4 DEF unixDecode, HeaderLength, e
  <2>6. /\ unixDecode(src).result = "frame" /\ unixDecode(src).frame = f
        /\ unixDecode(src).rest = SubSeq(src, Len(e) + 1, Len(src))
    BY <2>5 DEF Decoded
  <2> QED BY <1>1, <1>3, <1>7, <2>6 DEF e
<1> QED BY <1>1, <1>2, <1>5, <1>6, <1>7

\* What the transport decoder makes of any bytes is a frame and bytes.
LEMMA TransportDecodesAny ==
  ASSUME NEW src \in Seq(Nat), decode(src).result = "frame"
  PROVE  decode(src).frame \in AnyFrame /\ decode(src).rest \in Seq(Nat)
<1>1. src # <<>>
  BY DEF decode, Incomplete
<1>2. Len(src) \in Nat /\ 1 <= Len(src) /\ \A i \in 1 .. Len(src) : src[i] \in Nat
  BY <1>1, EmptySeq, LenProperties, ElementOfSeq
<1>3. CASE src[1] \in {1, 2}
  <2>1. decode(src) = Decoded([type |-> <<"ping", "pong">>[src[1]]], Tail(src))
    BY <1>1, <1>3 DEF decode
  <2>2. decode(src).frame = [type |-> <<"ping", "pong">>[src[1]]] /\ decode(src).rest = Tail(src)
    BY <2>1 DEF Decoded
  <2>3. <<"ping", "pong">>[src[1]] \in {"ping", "pong"}
    BY <1>3
  <2>4. Tail(src) \in Seq(Nat)
    BY <1>1, HeadTailProperties
  <2> QED BY <2>2, <2>3, <2>4 DEF AnyFrame
<1>4. CASE src[1] \notin {1, 2}
  <2> DEFINE n == src[2]
  <2>1. ~ (Len(src) < 2) /\ ~ (Len(src) < 2 + n) /\ decode(src) = DataDecoded(src, n)
    BY <1>1, <1>4 DEF decode, Incomplete, Invalid, HeaderLength
  <2>2. n \in Nat
    <3>1. 2 \in 1 .. Len(src)
      BY <1>2, <2>1
    <3> QED BY <1>2, <3>1
  <2> HIDE DEF n
  <2> DEFINE g == SubSeq(src, 2 + 1, 2 + n)
             r == SubSeq(src, 2 + n + 1, Len(src))
  <2>3. decode(src) = [result |-> "frame", frame |-> [type |-> "data", data |-> g], rest |-> r]
    BY <2>1 DEF DataDecoded, Decoded, HeaderLength
  <2>4. g \in Seq(Nat)
    <3>1. 2 + 1 \in Int /\ 2 + n \in Int
      BY <2>2
    <3>2. \A i \in 2 + 1 .. 2 + n : src[i] \in Nat
      BY <1>2, <2>1, <2>2
    <3> QED BY <3>1, <3>2, SubSeqProperties
  <2>5. r \in Seq(Nat)
    <3>1. 2 + n + 1 \in Int /\ Len(src) \in Int
      BY <1>2, <2>2
    <3>2. \A i \in 2 + n + 1 .. Len(src) : src[i] \in Nat
      BY <1>2, <2>2
    <3> QED BY <3>1, <3>2, SubSeqProperties
  <2> HIDE DEF g, r
  <2> QED BY <2>3, <2>4, <2>5 DEF AnyFrame
<1> QED BY <1>3, <1>4

\* The bytes of a frame in the codec c.
Coded(c, f) == IF c = "unix" THEN unixEncode(f) ELSE encode(f)

\* A frame that a codec takes has bytes, and is one the decoders may return.
LEMMA FrameCoded ==
  ASSUME NEW c \in {"transport", "unix"}, NEW f \in Frames[c]
  PROVE  Coded(c, f) \in Seq(Nat) /\ Coded(c, f) # <<>> /\ f \in AnyFrame
<1>1. CASE c = "unix"
  <2>1. f \in Frames["unix"]
    BY <1>1
  <2>2. /\ f = [type |-> f.type, data |-> f.data] /\ f.data \in Seq(Nat)
        /\ unixEncode(f) \in Seq(Nat) /\ Len(unixEncode(f)) = 2 + Len(f.data)
    BY <2>1, UnixEncoded
  <2>3. f.type \in {"bind", "error", "data"}
    BY <2>1 DEF Frames
  <2>4. unixEncode(f) # <<>>
    BY <2>2, EmptySeq, LenProperties
  <2> QED BY <1>1, <2>2, <2>3, <2>4 DEF Coded, AnyFrame
<1>2. CASE c = "transport" /\ f.type = "data"
  <2>1. f \in Frames["transport"]
    BY <1>2
  <2>2. /\ f = [type |-> "data", data |-> f.data] /\ f.data \in Seq(Nat)
        /\ encode(f) \in Seq(Nat) /\ Len(encode(f)) = 2 + Len(f.data)
    BY <1>2, <2>1, DataEncoded
  <2>3. encode(f) # <<>>
    BY <2>2, EmptySeq, LenProperties
  <2> QED BY <1>2, <2>2, <2>3 DEF Coded, AnyFrame
<1>3. CASE c = "transport" /\ f.type # "data"
  <2>1. f \in [type : {"ping", "pong"}]
    BY <1>3 DEF Frames
  <2>2. encode(f) \in {<<1>>, <<2>>}
    BY <2>1 DEF encode
  <2>3. <<1>> \in Seq(Nat) /\ <<2>> \in Seq(Nat) /\ <<1>> # <<>> /\ <<2>> # <<>>
    OBVIOUS
  <2> QED BY <1>3, <2>1, <2>2, <2>3 DEF Coded, AnyFrame
<1> QED BY <1>1, <1>2, <1>3

\* What the variables of the two ends hold.
CodecTypes ==
  /\ codec \in {"transport", "unix"} /\ encoded \in Seq(Frames[codec])
  /\ wire \in Seq(Nat) /\ buffer \in Seq(Nat)
  /\ decoded \in Seq(AnyFrame) /\ reading \in {"yes", "no"}

\* left[i] are the bytes that are not decoded yet and come after frame i: frame
\* after frame, they start with the bytes of the next one.
Pending(left) ==
  /\ left[Len(decoded)] = Cat(buffer, wire) /\ left[Len(encoded)] = <<>>
  /\ \A i \in Len(decoded) + 1 .. Len(encoded) : left[i - 1] = Cat(Coded(codec, encoded[i]), left[i])

\* The decoder is between two frames, or has failed on a first piece of one.
Aligned ==
  /\ Len(decoded) <= Len(encoded)
  /\ \A i \in 1 .. Len(decoded) : decoded[i] = encoded[i]
  /\ \E left \in [Nat -> Seq(Nat)] : Pending(left)
  /\ reading = "no" =>
       /\ codec = "unix" /\ Len(decoded) < Len(encoded)
       /\ LET e == Coded(codec, encoded[Len(decoded) + 1]) IN
            Len(buffer) < Len(e) /\ buffer = SubSeq(e, 1, Len(buffer))

\* An oversized frame has made the decoder lose its place in the stream.
Astray ==
  /\ codec = "transport"
  /\ \E k \in 1 .. Len(encoded) : /\ k <= Len(decoded) /\ Oversized(encoded[k])
                                  /\ \A i \in 1 .. k - 1 : decoded[i] = encoded[i]

Framing == CodecTypes /\ (Aligned \/ Astray)

\* One step: a frame is encoded.
LEMMA EncodeStep ==
  ASSUME Framing, Encode
  PROVE  Framing'
<1> USE DEF Framing, CodecTypes
<1>1. PICK f \in Frames[codec] : encoded' = Append(encoded, f) /\ wire' = wire \o Encoding(f)
  BY DEF Encode
<1>2. UNCHANGED <<codec, buffer, decoded, reading>>
  BY DEF Encode
<1> DEFINE e == Coded(codec, f)
           m == Len(encoded)
           n == Len(decoded)
<1>3. e \in Seq(Nat) /\ wire' = Cat(wire, e)
  BY <1>1, FrameCoded DEF Encoding, Coded, Cat
<1>4. /\ encoded' \in Seq(Frames[codec]) /\ Len(encoded') = m + 1 /\ encoded'[m + 1] = f
      /\ \A i \in 1 .. m : encoded'[i] = encoded[i]
  BY <1>1, AppendProperties
<1>5. m \in Nat /\ n \in Nat
  BY LenProperties
<1> HIDE DEF e, m, n
<1>6. CodecTypes'
  BY <1>2, <1>3, <1>4, CatLaws
<1>7. ASSUME Aligned PROVE Aligned'
  <2>1. PICK left \in [Nat -> Seq(Nat)] : Pending(left)
    BY <1>7 DEF Aligned
  <2> DEFINE more == [i \in Nat |-> IF i <= m THEN Cat(left[i], e) ELSE <<>>]
  <2>2. more \in [Nat -> Seq(Nat)]
    BY <1>3, CatLaws
  <2>3. n <= m
    BY <1>7 DEF Aligned, m, n
  <2>4. more[n] = Cat(buffer, wire')
    <3>1. more[n] = Cat(left[n], e)
      BY <1>5, <2>3
    <3>2. left[n] = Cat(buffer, wire)
      BY <2>1 DEF Pending, n
    <3>3. Cat(Cat(buffer, wire), e) = Cat(buffer, Cat(wire, e))
      BY <1>3, CatAssoc
    <3> QED BY <1>3, <3>1, <3>2, <3>3
  <2>5. more[m + 1] = <<>>
    BY <1>5
  <2>6. ASSUME NEW i \in n + 1 .. m + 1
        PROVE  more[i - 1] = Cat(Coded(codec, encoded'[i]), more[i])
    <3>1. CASE i = m + 1
      <4>1. left[m] = <<>>
        BY <2>1 DEF Pending, m
      <4>2. more[m] = e /\ more[m + 1] = <<>>
        BY <1>3, <1>5, <4>1, CatLaws
      <4>3. i - 1 = m
        BY <1>5, <3>1
      <4>4. Coded(codec, encoded'[i]) = e
        BY <1>4, <3>1 DEF e
      <4>5. Cat(e, <<>>) = e
        BY <1>3, CatLaws
      <4> QED BY <3>1, <4>2, <4>3, <4>4, <4>5
    <3>2. CASE i # m + 1
      <4>1. i \in n + 1 .. m /\ i \in 1 .. m /\ i \in Nat /\ i - 1 \in Nat
            /\ i <= m /\ i - 1 <= m
        BY <1>5, <3>2
      <4>2. left[i - 1] = Cat(Coded(codec, encoded[i]), left[i])
        BY <2>1, <4>1 DEF Pending, m, n
      <4>3. Coded(codec, encoded[i]) \in Seq(Nat)
        BY <4>1, FrameCoded, ElementOfSeq DEF m
      <4>4. more[i - 1] = Cat(left[i - 1], e) /\ more[i] = Cat(left[i], e) /\ left[i] \in Seq(Nat)
        BY <4>1
      <4>5. Cat(Cat(Coded(codec, encoded[i]), left[i]), e) = Cat(Coded(codec, encoded[i]), Cat(left[i], e))
        BY <1>3, <4>3, <4>4, CatAssoc
      <4> QED BY <1>4, <4>1, <4>2, <4>4, <4>5
    <3> QED BY <3>1, <3>2
  <2> HIDE DEF more
  <2>7. PICK longer \in [Nat -> Seq(Nat)] : longer = more
    BY <2>2
  <2>8. Pending(longer)'
    BY <1>2, <1>4, <2>4, <2>5, <2>6, <2>7 DEF Pending, n
  <2>9. Len(decoded') <= Len(encoded')
    <3>1. Len(decoded') = n /\ Len(encoded') = m + 1
      BY <1>2, <1>4 DEF n
    <3> QED BY <1>5, <2>3, <3>1
  <2>10. \A i \in 1 .. Len(decoded') : decoded'[i] = encoded'[i]
    <3>1. \A i \in 1 .. n : i \in 1 .. m
      BY <1>5, <2>3
    <3>2. \A i \in 1 .. n : decoded[i] = encoded[i]
      BY <1>7 DEF Aligned, n
    <3>3. decoded' = decoded /\ Len(decoded') = n
      BY <1>2 DEF n
    <3> QED BY <1>4, <3>1, <3>2, <3>3
  <2>11. reading' = "no" =>
           /\ codec' = "unix" /\ Len(decoded') < Len(encoded')
           /\ LET c == Coded(codec', encoded'[Len(decoded') + 1]) IN
                Len(buffer') < Len(c) /\ buffer' = SubSeq(c, 1, Len(buffer'))
    <3> SUFFICES ASSUME reading = "no"
                 PROVE  /\ codec' = "unix" /\ Len(decoded') < Len(encoded')
                        /\ LET c == Coded(codec', encoded'[Len(decoded') + 1]) IN
                             Len(buffer') < Len(c) /\ buffer' = SubSeq(c, 1, Len(buffer'))
      BY <1>2
    <3>1. /\ codec = "unix" /\ n < m
          /\ LET c == Coded(codec, encoded[n + 1]) IN
               Len(buffer) < Len(c) /\ buffer = SubSeq(c, 1, Len(buffer))
      BY <1>7 DEF Aligned, m, n
    <3>2. n + 1 \in 1 .. m /\ n < m + 1
      BY <1>5, <3>1
    <3>3. codec' = codec /\ buffer' = buffer /\ Len(decoded') = n /\ encoded'[n + 1] = encoded[n + 1]
      BY <1>2, <1>4, <3>2 DEF n
    <3> QED BY <1>4, <3>1, <3>2, <3>3
  <2> QED BY <2>8, <2>9, <2>10, <2>11 DEF Aligned
<1>8. ASSUME Astray PROVE Astray'
  <2>1. PICK k \in 1 .. m : /\ k <= n /\ Oversized(encoded[k])
                            /\ \A i \in 1 .. k - 1 : decoded[i] = encoded[i]
    BY <1>8 DEF Astray, m, n
  <2>2. k \in 1 .. m + 1 /\ encoded'[k] = encoded[k]
        /\ \A i \in 1 .. k - 1 : i \in 1 .. m
    BY <1>4, <1>5
  <2>3. Oversized(encoded[k])'
    BY <1>2, <2>1, <2>2 DEF Oversized
  <2>4. \A i \in 1 .. k - 1 : decoded'[i] = encoded'[i]
    BY <1>2, <1>4, <2>1, <2>2
  <2> QED BY <1>2, <1>4, <1>8, <2>1, <2>2, <2>3, <2>4 DEF Astray, n
<1> QED BY <1>6, <1>7, <1>8

\* One step: bytes are received.
LEMMA ReceiveStep ==
  ASSUME Framing, Receive
  PROVE  Framing'
<1> USE DEF Framing, CodecTypes
<1>1. PICK n \in 1 .. Len(wire) : /\ buffer' = buffer \o SubSeq(wire, 1, n)
                                  /\ wire' = SubSeq(wire, n + 1, Len(wire))
  BY DEF Receive
<1>2. UNCHANGED <<codec, encoded, decoded, reading>> /\ reading = "yes"
  BY DEF Receive
<1> DEFINE x == SubSeq(wire, 1, n)
           y == SubSeq(wire, n + 1, Len(wire))
<1>3. Len(wire) \in Nat /\ n \in Nat /\ \A i \in 1 .. Len(wire) : wire[i] \in Nat
  BY LenProperties, ElementOfSeq
<1>4. x \in Seq(Nat)
  <2>1. 1 \in Int /\ n \in Int /\ \A i \in 1 .. n : wire[i] \in Nat
    BY <1>3
  <2> QED BY <2>1, SubSeqProperties
<1>5. y \in Seq(Nat)
  <2>1. n + 1 \in Int /\ Len(wire) \in Int /\ \A i \in n + 1 .. Len(wire) : wire[i] \in Nat
    BY <1>3
  <2> QED BY <2>1, SubSeqProperties
<1>6. Cat(x, y) = wire
  <2>1. 1 \in 1 .. Len(wire) + 1 /\ n \in 1 - 1 .. Len(wire) /\ Len(wire) \in n .. Len(wire)
    BY <1>3
  <2>2. SubSeq(wire, 1, n) \o SubSeq(wire, n + 1, Len(wire)) = SubSeq(wire, 1, Len(wire))
    BY <2>1, ConcatAdjacentSubSeq
  <2> QED BY <2>2, SubSeqFull DEF Cat
<1>7. buffer' = Cat(buffer, x) /\ wire' = y
  BY <1>1 DEF Cat
<1> HIDE DEF x, y
<1>8. buffer' \in Seq(Nat) /\ wire' \in Seq(Nat) /\ Cat(buffer', wire') = Cat(buffer, wire)
  BY <1>4, <1>5, <1>6, <1>7, CatLaws
<1>9. CodecTypes'
  BY <1>2, <1>8
<1>10. ASSUME Aligned PROVE Aligned'
  <2>1. \A left : Pending(left)' <=> Pending(left)
    BY <1>2, <1>8 DEF Pending
  <2> QED BY <1>2, <1>10, <2>1 DEF Aligned
<1>11. ASSUME Astray PROVE Astray'
  BY <1>2, <1>11 DEF Astray, Oversized
<1> QED BY <1>9, <1>10, <1>11

\* One step: a frame is decoded, or the decoder fails.
LEMMA DecodeStep ==
  ASSUME Framing, Decode
  PROVE  Framing'
<1> USE DEF Framing, CodecTypes
<1> DEFINE d == Decoding(buffer)
           n == Len(decoded)
<1>1. UNCHANGED <<codec, encoded, wire>> /\ reading = "yes"
  BY DEF Decode
<1>2. \/ d.result = "frame" /\ decoded' = Append(decoded, d.frame) /\ buffer' = d.rest /\ reading' = reading
      \/ d.result = "error" /\ reading' = "no" /\ buffer' = buffer /\ decoded' = decoded
  BY DEF Decode
<1>3. n \in Nat /\ Len(encoded) \in Nat
  BY LenProperties
<1>4. ASSUME d.frame \in AnyFrame, decoded' = Append(decoded, d.frame)
      PROVE  /\ decoded' \in Seq(AnyFrame) /\ Len(decoded') = n + 1 /\ decoded'[n + 1] = d.frame
             /\ \A i \in 1 .. n : decoded'[i] = decoded[i]
  BY <1>4, AppendProperties
<1>5. codec = "transport" => d = decode(buffer)
  BY DEF Decoding
<1>6. codec = "unix" => d = unixDecode(buffer)
  BY DEF Decoding
<1> HIDE DEF d, n
<1>7. ASSUME Aligned PROVE Framing'
  <2>1. PICK left \in [Nat -> Seq(Nat)] : Pending(left)
    BY <1>7 DEF Aligned
  <2>2. left[n] = Cat(buffer, wire) /\ n <= Len(encoded) /\ \A i \in 1 .. n : decoded[i] = encoded[i]
    BY <1>7, <2>1 DEF Aligned, Pending, n
  <2>3. n < Len(encoded)
    <3> SUFFICES ASSUME n = Len(encoded) PROVE FALSE
      BY <1>3, <2>2
    <3>1. Cat(buffer, wire) = <<>>
      BY <2>1, <2>2 DEF Pending
    <3>2. buffer = <<>>
      <4>1. Len(buffer \o wire) = Len(buffer) + Len(wire) /\ Len(buffer) \in Nat /\ Len(wire) \in Nat
        BY ConcatProperties, LenProperties
      <4>2. Len(buffer \o wire) = 0
        BY <3>1, EmptySeq DEF Cat
      <4> QED BY <4>1, <4>2, EmptySeq
    <3>3. d.result = "none"
      BY <3>2 DEF d, Decoding, decode, unixDecode, Incomplete
    <3> QED BY <1>2, <3>3
  <2> DEFINE f == encoded[n + 1]
             t == left[n + 1]
             e == Coded(codec, f)
  <2>4. n + 1 \in n + 1 .. Len(encoded) /\ n + 1 \in 1 .. Len(encoded) /\ (n + 1) - 1 = n /\ n + 1 \in Nat
    BY <1>3, <2>3
  <2>5. /\ f \in Frames[codec] /\ t \in Seq(Nat) /\ e \in Seq(Nat) /\ f \in AnyFrame
        /\ Cat(buffer, wire) = Cat(e, t)
    <3>1. f \in Frames[codec] /\ t \in Seq(Nat)
      BY <2>4, ElementOfSeq
    <3>2. left[n] = Cat(e, t)
      BY <2>1, <2>4 DEF Pending, n
    <3> QED BY <2>2, <3>1, <3>2, FrameCoded
  <2> HIDE DEF f, t, e
  <2>6. ASSUME d.result = "frame", d.frame = f, d.rest \in Seq(Nat), Cat(d.rest, wire) = t
        PROVE  Framing'
    <3>1. decoded' = Append(decoded, d.frame) /\ buffer' = d.rest /\ reading' = "yes"
      BY <1>1, <1>2, <2>6
    <3>2. /\ decoded' \in Seq(AnyFrame) /\ Len(decoded') = n + 1 /\ decoded'[n + 1] = f
          /\ \A i \in 1 .. n : decoded'[i] = decoded[i]
      BY <1>4, <2>5, <2>6, <3>1
    <3>3. CodecTypes'
      BY <1>1, <2>6, <3>1, <3>2
    <3>4. Pending(left)'
      <4>1. left[Len(decoded')] = Cat(buffer', wire')
        BY <1>1, <2>6, <3>1, <3>2 DEF t
      <4>2. \A i \in n + 1 + 1 .. Len(encoded) : i \in n + 1 .. Len(encoded)
        BY <1>3
      <4>3. \A i \in n + 1 + 1 .. Len(encoded) : left[i - 1] = Cat(Coded(codec, encoded[i]), left[i])
        BY <2>1, <4>2 DEF Pending, n
      <4>4. left[Len(encoded)] = <<>>
        BY <2>1 DEF Pending
      <4> QED BY <1>1, <3>2, <4>1, <4>3, <4>4 DEF Pending
    <3>5. Len(decoded') <= Len(encoded')
      BY <1>1, <1>3, <2>3, <3>2
    <3>6. \A i \in 1 .. Len(decoded') : decoded'[i] = encoded'[i]
      <4>1. \A i \in 1 .. n + 1 : i \in 1 .. n \/ i = n + 1
        BY <1>3
      <4> QED BY <1>1, <2>2, <3>2, <4>1 DEF f
    <3>7. Aligned'
      BY <3>1, <3>4, <3>5, <3>6 DEF Aligned
    <3> QED BY <3>3, <3>7
  <2>7. CASE codec = "unix"
    <3>1. f \in Frames["unix"] /\ Cat(buffer, wire) = Cat(unixEncode(f), t)
      BY <2>5, <2>7 DEF e, Coded
    <3>2. /\ d.result = "error" => /\ Len(buffer) < Len(unixEncode(f))
                                   /\ buffer = SubSeq(unixEncode(f), 1, Len(buffer))
          /\ d.result = "frame" => /\ d.frame = f
                                   /\ d.rest \in Seq(Nat) /\ Cat(d.rest, wire) = t
      <4>1. d = unixDecode(buffer)
        BY <1>6, <2>7
      <4>2. UnixReturns(f, buffer, wire, t)
        BY <2>5, <3>1, UnixDecodes
      <4> QED BY <4>1, <4>2 DEF UnixReturns
    <3>3. CASE d.result = "frame"
      BY <2>6, <3>2, <3>3
    <3>4. CASE d.result = "error"
      <4>1. reading' = "no" /\ buffer' = buffer /\ decoded' = decoded
        BY <1>2, <3>4
      <4>2. CodecTypes'
        BY <1>1, <4>1
      <4>3. Pending(left)'
        BY <1>1, <2>1, <4>1 DEF Pending
      <4>4. Coded(codec, encoded[Len(decoded) + 1]) = unixEncode(f)
        BY <2>7 DEF Coded, f, n
      <4>5. Len(decoded) < Len(encoded)
        BY <2>3 DEF n
      <4>6. Aligned'
        BY <1>1, <1>7, <2>7, <3>2, <3>4, <4>1, <4>3, <4>4, <4>5 DEF Aligned
      <4> QED BY <4>2, <4>6
    <3> QED BY <1>2, <3>3, <3>4
  <2>8. CASE codec = "transport"
    <3>1. f \in Frames["transport"] /\ Cat(buffer, wire) = Cat(encode(f), t)
      BY <2>5, <2>8 DEF e, Coded
    <3>2. /\ d.result \in {"none", "frame"}
          /\ (f.type = "data" => Len(f.data) < LengthMod) =>
               (d.result = "frame" =>
                  d.frame = f /\ d.rest \in Seq(Nat) /\ Cat(d.rest, wire) = t)
      <4>1. d = decode(buffer)
        BY <1>5, <2>8
      <4>2. TransportReturns(f, buffer, wire, t)
        BY <2>5, <3>1, TransportDecodes
      <4> QED BY <4>1, <4>2 DEF TransportReturns
    <3>3. d.result = "frame"
      BY <1>2, <3>2
    <3>4. CASE f.type = "data" => Len(f.data) < LengthMod
      BY <2>6, <3>2, <3>3, <3>4
    <3>5. CASE ~ (f.type = "data" => Len(f.data) < LengthMod)
      <4>1. Oversized(f)
        <5>1. f.data \in Seq(Nat)
          BY <3>1, <3>5, DataEncoded
        <5>2. Len(f.data) \in Nat /\ LengthMod \in Nat
          BY <5>1, LenProperties, CodecAssumption DEF CodecAssumption
        <5> QED BY <2>8, <3>5, <5>2 DEF Oversized
      <4>2. d.frame \in AnyFrame /\ d.rest \in Seq(Nat)
        BY <1>5, <2>8, <3>3, TransportDecodesAny
      <4>3. decoded' = Append(decoded, d.frame) /\ buffer' = d.rest /\ reading' = "yes"
        BY <1>1, <1>2, <3>3
      <4>4. /\ decoded' \in Seq(AnyFrame) /\ Len(decoded') = n + 1
            /\ \A i \in 1 .. n : decoded'[i] = decoded[i]
        BY <1>4, <4>2, <4>3
      <4>5. CodecTypes'
        BY <1>1, <4>2, <4>3, <4>4
      <4>6. PICK k \in 1 .. Len(encoded) : k = n + 1
        BY <2>4
      <4>7. Oversized(encoded[k])'
        <5>1. encoded'[k] = f /\ codec' = codec
          <6>1. encoded[k] = f
            BY <4>6 DEF f
          <6> QED BY <1>1, <6>1
        <5> QED BY <4>1, <5>1 DEF Oversized
      <4>8. \A i \in 1 .. k - 1 : decoded'[i] = encoded'[i]
        <5>1. \A i \in 1 .. k - 1 : i \in 1 .. n
          BY <1>3, <4>6
        <5> QED BY <1>1, <2>2, <4>4, <5>1
      <4>9. Astray'
        <5>1. k <= Len(decoded') /\ k \in 1 .. Len(encoded') /\ codec' = "transport"
          BY <1>1, <1>3, <2>8, <4>4, <4>6
        <5> QED BY <4>7, <4>8, <5>1 DEF Astray
      <4> QED BY <4>5, <4>9
    <3> QED BY <3>4, <3>5
  <2> QED BY <2>7, <2>8
<1>8. ASSUME Astray PROVE Framing'
  <2>1. PICK k \in 1 .. Len(encoded) : /\ k <= n /\ Oversized(encoded[k])
                                       /\ \A i \in 1 .. k - 1 : decoded[i] = encoded[i]
    BY <1>8 DEF Astray, n
  <2>2. codec = "transport" /\ Oversized(encoded[k])'
    BY <1>1, <1>8, <2>1 DEF Astray, Oversized
  <2>3. \A i \in 1 .. k - 1 : i \in 1 .. n
    BY <1>3, <2>1
  <2>4. CASE d.result = "error" /\ buffer' = buffer /\ decoded' = decoded /\ reading' = "no"
    BY <1>1, <1>8, <2>1, <2>2, <2>4 DEF Astray, n
  <2>5. CASE /\ d.result = "frame" /\ decoded' = Append(decoded, d.frame)
             /\ buffer' = d.rest /\ reading' = reading
    <3>1. d.frame \in AnyFrame /\ d.rest \in Seq(Nat)
      BY <1>5, <2>2, <2>5, TransportDecodesAny
    <3>2. /\ decoded' \in Seq(AnyFrame) /\ Len(decoded') = n + 1
          /\ \A i \in 1 .. n : decoded'[i] = decoded[i]
      BY <1>4, <2>5, <3>1
    <3>3. CodecTypes'
      BY <1>1, <2>5, <3>1, <3>2
    <3>4. \A i \in 1 .. k - 1 : decoded'[i] = encoded'[i]
      BY <1>1, <2>1, <2>3, <3>2
    <3>5. k <= Len(decoded') /\ k \in 1 .. Len(encoded')
      BY <1>1, <1>3, <2>1, <3>2
    <3>6. Astray'
      BY <1>1, <2>2, <3>4, <3>5 DEF Astray
    <3> QED BY <3>3, <3>6
  <2> QED BY <1>2, <2>4, <2>5
<1> QED BY <1>7, <1>8

\* The place of the decoder in the stream, in every reachable state.
LEMMA FramingHolds == CodecSpec => []Framing
<1>1. ASSUME CodecInit PROVE Framing
  <2>1. /\ encoded = <<>> /\ wire = <<>> /\ buffer = <<>> /\ decoded = <<>> /\ reading = "yes"
        /\ codec \in {"transport", "unix"}
    BY <1>1 DEF CodecInit
  <2>2. CodecTypes
    BY <2>1, EmptySeq DEF CodecTypes
  <2>3. Len(<<>>) = 0 /\ <<>> \in Seq(Nat)
    BY EmptySeq
  <2>4. PICK left \in [Nat -> Seq(Nat)] : left[0] = <<>>
    <3>1. [i \in Nat |-> <<>>] \in [Nat -> Seq(Nat)] /\ [i \in Nat |-> <<>>][0] = <<>>
      BY <2>3
    <3> QED BY <3>1
  <2>5. Cat(<<>>, <<>>) = <<>>
    BY <2>3, CatLaws
  <2>6. Pending(left)
    BY <2>1, <2>3, <2>4, <2>5 DEF Pending
  <2>7. Aligned
    BY <2>1, <2>3, <2>6 DEF Aligned
  <2> QED BY <2>2, <2>7 DEF Framing
<1>2. ASSUME Framing, UNCHANGED codecVars PROVE Framing'
  <2>1. UNCHANGED <<codec, encoded, wire, buffer, decoded, reading>>
    BY <1>2 DEF codecVars
  <2>2. CodecTypes' <=> CodecTypes
    BY <2>1 DEF CodecTypes
  <2>3. \A left : Pending(left)' <=> Pending(left)
    BY <2>1 DEF Pending
  <2>4. Aligned => Aligned'
    BY <2>1, <2>3 DEF Aligned
  <2>5. Astray => Astray'
    BY <2>1 DEF Astray, Oversized
  <2> QED BY <1>2, <2>2, <2>4, <2>5 DEF Framing
<1>3. Framing /\ [CodecNext]_codecVars => Framing'
  BY <1>2, EncodeStep, ReceiveStep, DecodeStep DEF CodecNext
<1> QED BY <1>1, <1>3, PTL DEF CodecSpec

\* However the stream is cut, the frames before the first oversized one come out
\* as they went in.
THEOREM PrefixDecodedHolds == CodecSpec => []PrefixDecoded
<1>1. ASSUME Framing PROVE PrefixDecoded
  <2> SUFFICES ASSUME NEW i \in 1 .. Len(decoded),
                      \A j \in 1 .. i : j <= Len(encoded) => ~ Oversized(encoded[j])
               PROVE  i <= Len(encoded) /\ decoded[i] = encoded[i]
    BY DEF PrefixDecoded
  <2>1. Len(decoded) \in Nat /\ Len(encoded) \in Nat
    BY <1>1, LenProperties DEF Framing, CodecTypes
  <2>2. CASE Aligned
    BY <2>1, <2>2 DEF Aligned
  <2>3. CASE Astray
    <3>1. PICK k \in 1 .. Len(encoded) : /\ k <= Len(decoded) /\ Oversized(encoded[k])
                                         /\ \A h \in 1 .. k - 1 : decoded[h] = encoded[h]
      BY <2>3 DEF Astray
    <3>2. ~ (k \in 1 .. i /\ k <= Len(encoded))
      BY <3>1
    <3>3. i \in 1 .. k - 1 /\ i <= Len(encoded)
      BY <2>1, <3>2
    <3> QED BY <3>1, <3>3
  <2> QED BY <1>1, <2>2, <2>3 DEF Framing
<1> QED BY <1>1, FramingHolds, PTL

\* Without an oversized frame the decoder never loses its place.
LEMMA FaultlessAligned ==
  ASSUME Framing, Faultless
  PROVE  Aligned
BY DEF Framing, Faultless, Astray

\* No frame is kept back: when every byte was received and the decoder asks for
\* more, all frames have come out.
THEOREM AllDecodedHolds == CodecSpec => []AllDecoded
<1>1. ASSUME Framing PROVE AllDecoded
  <2> SUFFICES ASSUME Faultless, wire = <<>>, Decoding(buffer).result = "none"
               PROVE  decoded = encoded
    BY DEF AllDecoded
  <2>1. Aligned
    BY <1>1, FaultlessAligned
  <2>2. CodecTypes
    BY <1>1 DEF Framing
  <2> DEFINE n == Len(decoded)
  <2>3. n \in Nat /\ Len(encoded) \in Nat /\ n <= Len(encoded)
    BY <2>1, <2>2, LenProperties DEF CodecTypes, Aligned
  <2>4. ASSUME n < Len(encoded) PROVE FALSE
    <3>1. PICK left \in [Nat -> Seq(Nat)] : Pending(left)
      BY <2>1 DEF Aligned
    <3>2. PICK k \in 1 .. Len(encoded) : k = n + 1
      <4> HIDE DEF n
      <4>1. n + 1 \in 1 .. Len(encoded)
        BY <2>3, <2>4
      <4> QED BY <4>1
    <3>3. k \in n + 1 .. Len(encoded) /\ k - 1 = n /\ k \in Nat
      BY <2>3, <3>2
    <3> DEFINE f == encoded[k]
               t == left[k]
    <3>4. f \in Frames[codec] /\ t \in Seq(Nat) /\ codec \in {"transport", "unix"}
      BY <2>2, <3>3, ElementOfSeq DEF CodecTypes
    <3>5. Cat(buffer, wire) = Cat(Coded(codec, f), t)
      BY <3>1, <3>3 DEF Pending
    <3>6. ~ Oversized(f)
      BY DEF Faultless
    <3> HIDE DEF f, t, n
    <3>7. buffer \in Seq(Nat) /\ wire \in Seq(Nat)
      BY <2>2 DEF CodecTypes
    <3>8. CASE codec = "unix"
      <4>1. f \in Frames["unix"] /\ Cat(buffer, wire) = Cat(unixEncode(f), t)
        BY <3>4, <3>5, <3>8 DEF Coded
      <4>2. UnixReturns(f, buffer, wire, t)
        BY <3>4, <3>7, <4>1, UnixDecodes
      <4> QED BY <3>8, <4>2 DEF UnixReturns, Decoding
    <3>9. CASE codec = "transport"
      <4>1. f \in Frames["transport"] /\ Cat(buffer, wire) = Cat(encode(f), t)
        BY <3>4, <3>5, <3>9 DEF Coded
      <4>2. TransportReturns(f, buffer, wire, t)
        BY <3>4, <3>7, <4>1, TransportDecodes
      <4>3. f.type = "data" => Len(f.data) < LengthMod
        <5> SUFFICES ASSUME f.type = "data" PROVE Len(f.data) < LengthMod
          OBVIOUS
        <5>1. f.data \in Seq(Nat)
          BY <4>1, DataEncoded
        <5>2. Len(f.data) \in Nat /\ LengthMod \in Nat
          BY <5>1, LenProperties, CodecAssumption DEF CodecAssumption
        <5>3. ~ (Len(f.data) >= LengthMod)
          BY <3>6, <3>9 DEF Oversized
        <5> DEFINE l == Len(f.data)
        <5>4. l \in Nat /\ ~ (l >= LengthMod)
          BY <5>2, <5>3
        <5> HIDE DEF l
        <5>5. l < LengthMod
          BY <5>2, <5>4
        <5> QED BY <5>5 DEF l
      <4>4. decode(buffer).result = "frame"
        BY <4>2, <4>3 DEF TransportReturns
      <4>5. decode(buffer).result = "none"
        BY <3>9 DEF Decoding
      <4> QED BY <4>4, <4>5
    <3> QED BY <3>4, <3>8, <3>9
  <2>5. n = Len(encoded)
    BY <2>3, <2>4
  <2>6. decoded \in Seq(AnyFrame) /\ encoded \in Seq(AnyFrame)
    <3>1. codec \in {"transport", "unix"} /\ encoded \in Seq(Frames[codec]) /\ decoded \in Seq(AnyFrame)
      BY <2>2 DEF CodecTypes
    <3>2. Frames[codec] \subseteq AnyFrame
      BY <3>1, FrameCoded
    <3> QED BY <3>1, <3>2, SeqMonotonic
  <2>7. \A i \in 1 .. Len(decoded) : decoded[i] = encoded[i]
    BY <2>1 DEF Aligned
  <2> QED BY <2>5, <2>6, <2>7, SeqEqual
<1> QED BY <1>1, FramingHolds, PTL

\* Reading fails for one reason only, besides an oversized frame: the unix codec
\* got a frame in two pieces.
THEOREM OnlyCutFrameFailsHolds == CodecSpec => []OnlyCutFrameFails
<1>1. ASSUME Framing PROVE OnlyCutFrameFails
  <2> SUFFICES ASSUME Faultless, reading = "no"
               PROVE  /\ codec = "unix" /\ Len(decoded) < Len(encoded)
                      /\ LET e == Encoding(encoded[Len(decoded) + 1]) IN
                           Len(buffer) < Len(e) /\ buffer = SubSeq(e, 1, Len(buffer))
    BY DEF OnlyCutFrameFails
  <2>1. Aligned
    BY <1>1, FaultlessAligned
  <2>2. Encoding(encoded[Len(decoded) + 1]) = Coded(codec, encoded[Len(decoded) + 1])
    BY DEF Encoding, Coded
  <2> QED BY <2>1, <2>2 DEF Aligned
<1> QED BY <1>1, FramingHolds, PTL
=============================================================================
