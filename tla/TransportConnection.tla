------------------------ MODULE TransportConnection ------------------------
(***************************************************************************)
(* A transport connection (src/src/network/transport/connection.rs) seen   *)
(* from both of its ends.  At each end a read, a write and a ping task run *)
(* on one TLS stream: the read task answers pings, passes data upstream    *)
(* and gives up after 20 s without a frame; the ping task puts a ping into *)
(* the bounded frame channel (the sink) every 15 s; the write task empties *)
(* the sink into the stream.  The ends of the other two follow from the    *)
(* close watch, whose sending half lives in the read task.                 *)
(*                                                                         *)
(* The stream is DTLS over UDP: frames may be lost, and the other end is   *)
(* never told that this one is gone.  Time passes in units of 5 s, and     *)
(* only when no task has anything to do: tasks and the network are assumed *)
(* to need less than a unit.  That leaves out the read task of the UDP     *)
(* socket when another connection holds it up (HeldUp in AcceptTask): it   *)
(* counts as loss here.  Whoever takes data from upstream is not assumed   *)
(* to be quick, or to take any: it may be as slow as it likes.             *)
(***************************************************************************)
EXTENDS Naturals, Sequences

CONSTANTS
  ReadTimeout,   \* 20 s in the read task
  PingInterval,  \* 15 s in the ping task
  SinkCap,       \* channel::<Frame>(10)
  UpCap,         \* capacity of the data sink
  LinkCap,       \* datagrams buffered on the way to one end
  MaxSkew,       \* bound on how much later the client ends its handshake
  Senders,       \* the ends whose owner sends data
  MaxData,       \* bound on the data frames they send
  MaxLoss        \* bound on the frames the network loses

ASSUME ConnectionAssumption ==
  /\ ReadTimeout \in Nat /\ PingInterval \in Nat \ {0}
  /\ PingInterval < ReadTimeout
  /\ SinkCap \in Nat \ {0} /\ UpCap \in Nat \ {0} /\ LinkCap \in Nat \ {0}
  /\ MaxSkew \in Nat /\ MaxSkew < ReadTimeout
  /\ MaxData \in Nat /\ MaxLoss \in Nat

Ends == {"client", "server"}
Peer(e) == IF e = "client" THEN "server" ELSE "client"
Frame == {"ping", "pong", "data"}

VARIABLES
  reader,    \* read task: "handshake" before it is spawned, "next", "pong",
             \*   "deliver", or the reason it ended (Reasons)
  writer,    \* write task: "recv" or "done"
  pinger,    \* ping task: "tick", "send" or "done"
  sink,      \* the frames in the sink
  link,      \* frames in the stream on their way to this end
  upstream,  \* number of data frames in the data sink
  consumer,  \* the ends whose data sink has its receiving half
  idle,      \* units since the read task started to wait for a frame
  elapsed,   \* units since the last tick of the ping interval
  skew,      \* units the server has been ahead of the client
  sent,      \* history: number of data frames sent by the owners
  lost,      \* history: number of frames lost
  stressed   \* history: "yes" once a read task was stuck upstream while time
             \*   passed, or a datagram met a full buffer

tasks == <<reader, writer, pinger>>
clock == <<idle, elapsed, skew>>
history == <<sent, lost, stressed>>
vars == <<tasks, sink, link, upstream, consumer, clock, history>>

Reasons == {"timeout", "failed", "closed", "exit"}

Ended(e) == reader[e] \in Reasons

Init ==
  /\ reader = [e \in Ends |-> IF e = "server" THEN "next" ELSE "handshake"]
  /\ writer = [e \in Ends |-> "recv"]
  /\ pinger = [e \in Ends |-> "tick"]
  /\ sink = [e \in Ends |-> <<>>]
  /\ link = [e \in Ends |-> <<>>]
  /\ upstream = [e \in Ends |-> 0]
  /\ consumer = Ends
  /\ idle = [e \in Ends |-> 0]
  /\ elapsed = [e \in Ends |-> PingInterval]  \* the first tick is immediate
  /\ skew = 0
  /\ sent = 0 /\ lost = 0 /\ stressed = "no"

Started(e) == reader[e] # "handshake"

\* The client's handshake returns after the server's: from_tls_stream().
Start(e) ==
  /\ ~ Started(e)
  /\ reader' = [reader EXCEPT ![e] = "next"]
  /\ skew' = 0
  /\ UNCHANGED <<writer, pinger, sink, link, upstream, consumer, idle, elapsed, history>>

-----------------------------------------------------------------------------
(* The sink *)

\* Mutant of CanSend: an unbounded sink.
CanAlwaysSend(e) == writer[e] \in {"recv", "done"}

\* A send waits for room, and fails at once without a receiver.
CanSend(e) == writer[e] = "done" \/ Len(sink[e]) < SinkCap

\* send(f).await on the sink, by whom CanSend(e) has let through.
Put(e, f) ==
  sink' = IF writer[e] = "done" THEN sink ELSE [sink EXCEPT ![e] = Append(@, f)]

\* Mutant of Closed: only an explicit close_sender.send() is noticed.
ClosedBySignal(e) == reader[e] = "closed"

\* The watch's changed() is ready: its sending half went with the read task.
Closed(e) == Ended(e)

-----------------------------------------------------------------------------
(* The read task *)

\* Where a frame takes the read task.
Handling(f) ==
  IF f = "ping" THEN "pong" ELSE IF f = "data" THEN "deliver" ELSE "next"

\* Mutant of ReadFrame: one timer for the whole loop.
ReadFrameOneTimer(e) ==
  /\ reader[e] = "next"
  /\ link[e] # <<>>
  /\ link' = [link EXCEPT ![e] = Tail(@)]
  /\ reader' = [reader EXCEPT ![e] = Handling(Head(link[e]))]
  /\ UNCHANGED <<writer, pinger, sink, upstream, consumer, clock, history>>

\* read_half.next() returns a frame.
ReadFrame(e) ==
  /\ reader[e] = "next"
  /\ link[e] # <<>>
  /\ link' = [link EXCEPT ![e] = Tail(@)]
  /\ reader' = [reader EXCEPT ![e] = Handling(Head(link[e]))]
  /\ idle' = [idle EXCEPT ![e] = 0]
  /\ UNCHANGED <<writer, pinger, sink, upstream, consumer, elapsed, skew, history>>

\* Mutant of SendPong: pings are not answered.
NoPong(e) ==
  /\ reader[e] = "pong"
  /\ reader' = [reader EXCEPT ![e] = "next"]
  /\ UNCHANGED <<writer, pinger, sink, link, upstream, consumer, clock, history>>

\* connection.send_frame(Frame::Pong).await
SendPong(e) ==
  /\ reader[e] = "pong"
  /\ CanSend(e)
  /\ Put(e, "pong")
  /\ reader' = [reader EXCEPT ![e] = "next"]
  /\ UNCHANGED <<writer, pinger, link, upstream, consumer, clock, history>>

\* data_sink.send(...).await succeeds
Deliver(e) ==
  /\ reader[e] = "deliver"
  /\ e \in consumer /\ upstream[e] < UpCap
  /\ upstream' = [upstream EXCEPT ![e] = @ + 1]
  /\ reader' = [reader EXCEPT ![e] = "next"]
  /\ UNCHANGED <<writer, pinger, sink, link, consumer, clock, history>>

\* The read task returns, and drops the sending half of the close watch.
EndReader(e, reason) ==
  /\ reader' = [reader EXCEPT ![e] = reason]
  /\ idle' = [idle EXCEPT ![e] = 0]
  /\ UNCHANGED <<writer, pinger, sink, link, upstream, consumer, elapsed, skew, history>>

\* Mutant of Timeout: it is logged and the loop goes on.
TimeoutIgnored(e) ==
  /\ reader[e] = "next" /\ idle[e] >= ReadTimeout
  /\ idle' = [idle EXCEPT ![e] = 0]
  /\ UNCHANGED <<tasks, sink, link, upstream, consumer, elapsed, skew, history>>

Timeout(e) == reader[e] = "next" /\ idle[e] >= ReadTimeout /\ EndReader(e, "timeout")

UpstreamClosed(e) ==
  reader[e] = "deliver" /\ e \notin consumer /\ EndReader(e, "closed")

\* End of stream (the socket was closed or the address taken over), or an error.
StreamEnds(e) == reader[e] = "next" /\ EndReader(e, "failed")

ReadTask(e) == ReadFrame(e) \/ SendPong(e) \/ Deliver(e) \/ Timeout(e) \/ UpstreamClosed(e)

-----------------------------------------------------------------------------
(* The write task *)

\* receiver.recv() and a successful write_half.send(frame).
Write(e) ==
  /\ Started(e)
  /\ writer[e] = "recv"
  /\ sink[e] # <<>>
  /\ sink' = [sink EXCEPT ![e] = Tail(@)]
  /\ IF Len(link[Peer(e)]) < LinkCap
     THEN link' = [link EXCEPT ![Peer(e)] = Append(@, Head(sink[e]))] /\ UNCHANGED stressed
     ELSE stressed' = "yes" /\ UNCHANGED link
  /\ UNCHANGED <<tasks, upstream, consumer, clock, sent, lost>>

\* The write task returns and drops the receiving half of the sink.
EndWriter(e) ==
  /\ writer' = [writer EXCEPT ![e] = "done"]
  /\ sink' = [sink EXCEPT ![e] = <<>>]
  /\ UNCHANGED <<reader, pinger, link, upstream, consumer, clock, history>>

\* write_half.send(frame) fails.
WriteError(e) ==
  Started(e) /\ writer[e] = "recv" /\ sink[e] # <<>> /\ EndWriter(e)

\* The select sees the close watch.
WriterClosed(e) == writer[e] = "recv" /\ Closed(e) /\ EndWriter(e)

\* recv() returns None once no task holds a sender any more, and no owner
\* either, which is left open here.
WriterDone(e) ==
  /\ writer[e] = "recv" /\ sink[e] = <<>>
  /\ Ended(e) /\ pinger[e] = "done"
  /\ EndWriter(e)

WriteTask(e) == Write(e) \/ WriterClosed(e) \/ WriterDone(e)

-----------------------------------------------------------------------------
(* The ping task *)

\* interval.tick()
PingTick(e) ==
  /\ Started(e)
  /\ pinger[e] = "tick" /\ elapsed[e] >= PingInterval
  /\ elapsed' = [elapsed EXCEPT ![e] = @ - PingInterval]
  /\ pinger' = [pinger EXCEPT ![e] = "send"]
  /\ UNCHANGED <<reader, writer, sink, link, upstream, consumer, idle, skew, history>>

\* connection.send_frame(Frame::Ping).await
SendPing(e) ==
  /\ pinger[e] = "send"
  /\ CanSend(e)
  /\ Put(e, "ping")
  /\ pinger' = [pinger EXCEPT ![e] = "tick"]
  /\ UNCHANGED <<reader, writer, link, upstream, consumer, clock, history>>

\* The select sees the close watch.
PingerClosed(e) ==
  /\ pinger[e] = "tick" /\ Closed(e)
  /\ pinger' = [pinger EXCEPT ![e] = "done"]
  /\ elapsed' = [elapsed EXCEPT ![e] = 0]
  /\ UNCHANGED <<reader, writer, sink, link, upstream, consumer, idle, skew, history>>

PingTask(e) == PingTick(e) \/ SendPing(e) \/ PingerClosed(e)

-----------------------------------------------------------------------------
(* The owner, the taker of the data, the network *)

\* send_data_frame() succeeds; on a sink without a receiver it changes nothing.
SendData(e) ==
  /\ Started(e) /\ e \in Senders /\ sent < MaxData
  /\ writer[e] = "recv" /\ Len(sink[e]) < SinkCap
  /\ Put(e, "data")
  /\ sent' = sent + 1
  /\ UNCHANGED <<tasks, link, upstream, consumer, clock, lost, stressed>>

\* The data loop of the socket takes a frame.
Take(e) ==
  /\ e \in consumer /\ upstream[e] > 0
  /\ upstream' = [upstream EXCEPT ![e] = @ - 1]
  /\ UNCHANGED <<tasks, sink, link, consumer, clock, history>>

CloseUpstream(e) ==
  /\ e \in consumer
  /\ consumer' = consumer \ {e}
  /\ UNCHANGED <<tasks, sink, link, upstream, clock, history>>

\* The process of e exits.
Exit(e) ==
  /\ ~ Ended(e)
  /\ reader' = [reader EXCEPT ![e] = "exit"]
  /\ writer' = [writer EXCEPT ![e] = "done"]
  /\ pinger' = [pinger EXCEPT ![e] = "done"]
  /\ sink' = [sink EXCEPT ![e] = <<>>]
  /\ idle' = [idle EXCEPT ![e] = 0] /\ elapsed' = [elapsed EXCEPT ![e] = 0]
  /\ UNCHANGED <<link, upstream, consumer, skew, history>>

Lose(e) ==
  /\ link[e] # <<>> /\ lost < MaxLoss
  /\ link' = [link EXCEPT ![e] = Tail(@)]
  /\ lost' = lost + 1
  /\ UNCHANGED <<tasks, sink, upstream, consumer, clock, sent, stressed>>

Environment(e) ==
  \/ SendData(e) \/ Take(e) \/ CloseUpstream(e)
  \/ StreamEnds(e) \/ WriteError(e) \/ Exit(e) \/ Lose(e)

-----------------------------------------------------------------------------
(* Time *)

\* Some task of e can go on now.
Busy(e) ==
  \/ reader[e] = "next" /\ (link[e] # <<>> \/ idle[e] >= ReadTimeout)
  \/ reader[e] = "pong"
  \/ reader[e] = "deliver" /\ (upstream[e] < UpCap \/ e \notin consumer)
  \/ Started(e) /\ writer[e] = "recv" /\ (sink[e] # <<>> \/ Closed(e))
  \/ pinger[e] = "send"
  \/ Started(e) /\ pinger[e] = "tick" /\ (elapsed[e] >= PingInterval \/ Closed(e))

Tick ==
  /\ \A e \in Ends : ~ Busy(e)
  /\ (\A e \in Ends : Started(e)) \/ skew < MaxSkew
  /\ idle' = [e \in Ends |-> IF reader[e] = "next" THEN idle[e] + 1 ELSE idle[e]]
  /\ elapsed' = [e \in Ends |-> IF Started(e) /\ pinger[e] # "done"
                                THEN elapsed[e] + 1 ELSE elapsed[e]]
  /\ skew' = IF \A e \in Ends : Started(e) THEN skew ELSE skew + 1
  /\ stressed' = IF \E e \in Ends : reader[e] = "deliver" THEN "yes" ELSE stressed
  /\ UNCHANGED <<tasks, sink, link, upstream, consumer, sent, lost>>

Next ==
  \/ Tick
  \/ \E e \in Ends : \/ Start(e) \/ ReadTask(e) \/ WriteTask(e) \/ PingTask(e)
                     \/ Environment(e)

Spec == Init /\ [][Next]_vars

\* The tokio scheduler runs every task that is ready, time passes, and a handshake
\* ends.  Failures, losses and what the owner does are not fair, and neither is
\* Take: the data loop waits without a limit for handshakes and for upstream.
Fairness ==
  /\ SF_vars(Tick)
  /\ \A e \in Ends :
       /\ WF_vars(Start(e))
       /\ WF_vars(ReadTask(e))
       /\ WF_vars(Write(e)) /\ WF_vars(WriterClosed(e))
       /\ WF_vars(PingTick(e) \/ SendPing(e)) /\ WF_vars(PingerClosed(e))

FairSpec == Spec /\ Fairness

-----------------------------------------------------------------------------
(* Properties *)

\* Type invariant: the tasks are at one of their await points, no channel
\* exceeds its capacity, and the sink dies with the write task.
TypeOK ==
  /\ reader \in [Ends -> {"handshake", "next", "pong", "deliver"} \cup Reasons]
  /\ writer \in [Ends -> {"recv", "done"}]
  /\ pinger \in [Ends -> {"tick", "send", "done"}]
  /\ sink \in [Ends -> Seq(Frame)] /\ link \in [Ends -> Seq(Frame)]
  /\ \A e \in Ends : Len(sink[e]) <= SinkCap /\ Len(link[e]) <= LinkCap
  /\ \A e \in Ends : writer[e] = "done" => sink[e] = <<>>
  /\ consumer \in SUBSET Ends
  /\ upstream \in [Ends -> 0 .. UpCap]
  /\ idle \in [Ends -> Nat] /\ elapsed \in [Ends -> Nat] /\ skew \in Nat
  /\ sent \in Nat /\ lost \in Nat /\ stressed \in {"yes", "no"}

\* Something at e has ended that its peer depends on.
Broken(e) == Ended(e) \/ writer[e] = "done"

\* A connection over a network that loses nothing times out only when a task
\* at the other end has ended, however slowly either end's data is taken: the
\* pings of 15 s keep the timeout of 20 s away.
HealthyNeverTimesOut ==
  \A e \in Ends : reader[e] = "timeout" => lost > 0 \/ Broken(Peer(e))

\* The ping and the answer to the other end's ping are redundant: as long as
\* the read tasks keep reading, losing any one frame never times out a connection
\* whose tasks are all running.
OneLossTolerated ==
  \A e \in Ends : reader[e] = "timeout" =>
    lost > 1 \/ stressed = "yes" \/ writer[e] = "done" \/ Broken(Peer(e))

\* All tasks of e have ended.
Gone(e) == Ended(e) /\ writer[e] = "done" /\ pinger[e] = "done"

\* No half-dead connection: when the read task of an end is over, or its write
\* task after an error, or its process, then all tasks of both ends end, although
\* nobody tells them all.  The one exception: a data loop that takes nothing any
\* more (connection.rs:78-81 has no timeout) keeps the read task for ever, and
\* with it the other two, whose pings in turn keep the peer.
NoneSurvives ==
  \/ \E e \in Ends : <>[](reader[e] = "deliver")
  \/ (\E e \in Ends : Broken(e)) ~> \A e \in Ends : Gone(e)
=============================================================================
