----------------------------- MODULE UnixState -----------------------------
(***************************************************************************)
(* The local side of the daemon: the control socket and its clients        *)
(* (src/src/unix/state.rs) and the two tasks of uipd that move frames      *)
(* between it and the network (src/src/bin/uipd.rs).                       *)
(*                                                                         *)
(* One task accepts clients and waits for the first frame of each before   *)
(* it accepts the next.  A client that binds a port gets a write task,     *)
(* reached over the channel registered for the port, and a read task that  *)
(* passes its data to the network.  Binding a port again replaces the      *)
(* channel; the write task of the replaced client ends when the last clone *)
(* of its sender is gone, and the forwarding task may hold one.            *)
(***************************************************************************)
EXTENDS Naturals, Sequences

CONSTANTS
  Clients,    \* connections of local programs to the control socket
  Listeners,  \* those that surely bind a port before they send data
  Ports, None,
  QueueCap,   \* channel::<Frame>(10) of a write task
  PumpCap,    \* channel(5) of either direction in uipd
  SocketCap,  \* frames the kernel buffers for a client that does not read
  MaxData,    \* bound on the data frames one client sends
  MaxFrames   \* bound on the frames from the network

ASSUME UnixAssumption ==
  /\ None \notin Clients \cup Ports
  /\ Listeners \subseteq Clients
  /\ QueueCap \in Nat \ {0} /\ PumpCap \in Nat \ {0} /\ SocketCap \in Nat \ {0}
  /\ MaxData \in Nat /\ MaxFrames \in Nat

VARIABLES
  client,       \* the client's end: "away", "open", "closed"
  request,      \* frames from the client not yet read by the daemon
  reply,        \* frames written to the client not yet read by it
  backlog,      \* clients waiting to be accepted
  handling,     \* the client handle_new_stream() waits for, or None
  listener,     \* open_ctl_socket(): "open", "closed" once it has returned
  port,         \* the port a client bound
  reader,       \* read task: "none", "next", "send", "done"
  writer,       \* write task: "none", "up", "done"
  queue,        \* the channel to the write task
  connections,  \* UnixState.connections: the client registered for a port
  upward,       \* frames for the network: unix_source
  sending,      \* the frame in network.send_frame(), by its client, or None
  downward,     \* frames from the network: network_source
  delivering,   \* the frame in deliver_frame() after its lookup, or None
  said,         \* history: number of data frames a client sent
  forwarded,    \* history: number of them the network took
  arrived,      \* history: number of frames from the network
  late          \* history: frames queued for a client already replaced

streams == <<client, request, reply>>
tasks == <<port, reader, writer, queue, connections>>
pumps == <<upward, sending, downward, delivering>>
history == <<said, forwarded, arrived, late>>
vars == <<streams, backlog, handling, listener, tasks, pumps, history>>

Requests == [type : {"bind"}, port : Ports] \cup [type : {"data"}]
Frames == [id : Nat, port : Ports]

Init ==
  /\ client = [k \in Clients |-> "away"]
  /\ request = [k \in Clients |-> <<>>]
  /\ reply = [k \in Clients |-> <<>>]
  /\ backlog = <<>> /\ handling = None /\ listener = "open"
  /\ port = [k \in Clients |-> None]
  /\ reader = [k \in Clients |-> "none"]
  /\ writer = [k \in Clients |-> "none"]
  /\ queue = [k \in Clients |-> <<>>]
  /\ connections = [p \in Ports |-> None]
  /\ upward = <<>> /\ sending = None
  /\ downward = <<>> /\ delivering = None
  /\ said = [k \in Clients |-> 0]
  /\ forwarded = [k \in Clients |-> 0]
  /\ arrived = 0
  /\ late = [k \in Clients |-> 0]

-----------------------------------------------------------------------------
(* The clients *)

Connect(k) ==
  /\ client[k] = "away" /\ listener = "open"
  /\ client' = [client EXCEPT ![k] = "open"]
  /\ backlog' = Append(backlog, k)
  /\ UNCHANGED <<request, reply, handling, listener, tasks, pumps, history>>

\* uipcat --listen: the first frame is Bind.
Bind(k) ==
  /\ client[k] = "open" /\ said[k] = 0
  /\ request[k] = <<>> /\ port[k] = None
  /\ \E p \in Ports :
       request' = [request EXCEPT ![k] = <<[type |-> "bind", port |-> p]>>]
  /\ UNCHANGED <<client, reply, backlog, handling, listener, tasks, pumps, history>>

\* Data from a client; uipcat without --listen sends nothing else.
Say(k) ==
  /\ client[k] = "open" /\ said[k] < MaxData
  /\ k \in Listeners => port[k] # None \/ request[k] # <<>>
  /\ request' = [request EXCEPT ![k] = Append(@, [type |-> "data"])]
  /\ said' = [said EXCEPT ![k] = @ + 1]
  /\ UNCHANGED <<client, reply, backlog, handling, listener, tasks, pumps, forwarded, arrived, late>>

\* One read may take several frames; uipcat sees the first of them only.
Hear(k) ==
  /\ \E n \in 1 .. Len(reply[k]) :
       reply' = [reply EXCEPT ![k] = SubSeq(@, n + 1, Len(@))]
  /\ UNCHANGED <<client, request, backlog, handling, listener, tasks, pumps, history>>

Close(k) ==
  /\ client[k] = "open"
  /\ client' = [client EXCEPT ![k] = "closed"]
  /\ reply' = [reply EXCEPT ![k] = <<>>]
  /\ UNCHANGED <<request, backlog, handling, listener, tasks, pumps, history>>

-----------------------------------------------------------------------------
(* open_ctl_socket() and handle_new_stream() *)

\* listener.accept()
Accept ==
  /\ listener = "open" /\ handling = None /\ backlog # <<>>
  /\ handling' = Head(backlog)
  /\ backlog' = Tail(backlog)
  /\ UNCHANGED <<streams, listener, tasks, pumps, history>>

\* An error of accept() ends open_ctl_socket(): the socket is closed, and who waits
\* to be accepted is cut off.  The tasks of accepted clients go on.
AcceptFails ==
  /\ listener = "open" /\ handling = None
  /\ listener' = "closed"
  /\ backlog' = <<>>
  /\ client' = [k \in Clients |->
                 IF \E i \in 1 .. Len(backlog) : backlog[i] = k THEN "closed" ELSE client[k]]
  /\ UNCHANGED <<request, reply, handling, tasks, pumps, history>>

\* The first frame is Bind: spawn_write_task() registers the channel, whoever
\* was registered, and spawn_read_task() follows.
HandleBind(k) ==
  /\ handling = k /\ request[k] # <<>> /\ Head(request[k]).type = "bind"
  /\ LET p == Head(request[k]).port IN
       /\ connections' = [connections EXCEPT ![p] = k]
       /\ port' = [port EXCEPT ![k] = p]
  /\ request' = [request EXCEPT ![k] = Tail(@)]
  /\ writer' = [writer EXCEPT ![k] = "up"]
  /\ reader' = [reader EXCEPT ![k] = "next"]
  /\ handling' = None
  /\ UNCHANGED <<client, reply, backlog, listener, queue, pumps, history>>

\* The first frame is data: the stream is dropped, and the frame with it.
HandleUnbound(k) ==
  /\ handling = k /\ request[k] # <<>> /\ Head(request[k]).type = "data"
  /\ handling' = None
  /\ client' = [client EXCEPT ![k] = "closed"]
  /\ request' = [request EXCEPT ![k] = <<>>]
  /\ UNCHANGED <<reply, backlog, listener, tasks, pumps, history>>

\* The client went away without a frame.
HandleClosed(k) ==
  /\ handling = k /\ request[k] = <<>> /\ client[k] = "closed"
  /\ handling' = None
  /\ UNCHANGED <<streams, backlog, listener, tasks, pumps, history>>

-----------------------------------------------------------------------------
(* The read task of a client *)

\* read_half.next() returns a frame; only data is handled.
ReadRequest(k) ==
  /\ reader[k] = "next" /\ request[k] # <<>>
  /\ request' = [request EXCEPT ![k] = Tail(@)]
  /\ reader' = [reader EXCEPT ![k] = IF Head(request[k]).type = "data" THEN "send" ELSE "done"]
  /\ UNCHANGED <<client, reply, backlog, handling, listener, port, writer, queue, connections,
                 pumps, history>>

\* Mutant of PassUp: a full channel loses the frame.
PassUpLossy(k) ==
  /\ reader[k] = "send"
  /\ upward' = IF Len(upward) < PumpCap THEN Append(upward, k) ELSE upward
  /\ reader' = [reader EXCEPT ![k] = "next"]
  /\ UNCHANGED <<streams, backlog, handling, listener, port, writer, queue, connections,
                 sending, downward, delivering, history>>

\* send_frame(): upstream.send(...).await
PassUp(k) ==
  /\ reader[k] = "send"
  /\ Len(upward) < PumpCap
  /\ upward' = Append(upward, k)
  /\ reader' = [reader EXCEPT ![k] = "next"]
  /\ UNCHANGED <<streams, backlog, handling, listener, port, writer, queue, connections,
                 sending, downward, delivering, history>>

ReadClosed(k) ==
  /\ reader[k] = "next" /\ request[k] = <<>> /\ client[k] = "closed"
  /\ reader' = [reader EXCEPT ![k] = "done"]
  /\ UNCHANGED <<streams, backlog, handling, listener, port, writer, queue, connections, pumps, history>>

-----------------------------------------------------------------------------
(* The write task of a client *)

\* The frame fits into the client's socket.
WriteReply(k) ==
  /\ writer[k] = "up" /\ queue[k] # <<>>
  /\ client[k] = "open" /\ Len(reply[k]) < SocketCap
  /\ reply' = [reply EXCEPT ![k] = Append(@, Head(queue[k]))]
  /\ queue' = [queue EXCEPT ![k] = Tail(@)]
  /\ UNCHANGED <<client, request, backlog, handling, listener, port, reader, writer, connections,
                 pumps, history>>

EndWriter(k) ==
  /\ writer' = [writer EXCEPT ![k] = "done"]
  /\ queue' = [queue EXCEPT ![k] = <<>>]
  /\ UNCHANGED <<streams, backlog, handling, listener, port, reader, connections, pumps, history>>

\* The client is gone.
WriteFails(k) ==
  writer[k] = "up" /\ queue[k] # <<>> /\ client[k] = "closed" /\ EndWriter(k)

\* Mutant of HasSender: the read task of a client keeps a clone as well.
HasSenderReader(k) ==
  \/ \E p \in Ports : connections[p] = k
  \/ delivering # None /\ delivering.to = k
  \/ reader[k] \in {"next", "send"}

\* A clone of the sender of k's channel exists.
HasSender(k) ==
  \/ \E p \in Ports : connections[p] = k
  \/ delivering # None /\ delivering.to = k

\* The channel is empty and closed.
WriterReplaced(k) ==
  writer[k] = "up" /\ queue[k] = <<>> /\ ~ HasSender(k) /\ EndWriter(k)

-----------------------------------------------------------------------------
(* uipd: frames from the network *)

\* NetworkState puts a frame for port p into the channel.
Arrive(p) ==
  /\ arrived < MaxFrames /\ Len(downward) < PumpCap
  /\ downward' = Append(downward, [id |-> arrived + 1, port |-> p])
  /\ arrived' = arrived + 1
  /\ UNCHANGED <<streams, backlog, handling, listener, tasks, upward, sending, delivering,
                 said, forwarded, late>>

\* Mutant of Lookup: any client that has bound the port will do.
LookupAny ==
  /\ delivering = None /\ downward # <<>>
  /\ downward' = Tail(downward)
  /\ LET f == Head(downward) IN
       \/ /\ connections[f.port] = None
          /\ UNCHANGED delivering
       \/ \E k \in Clients : /\ port[k] = f.port
                             /\ delivering' = [id |-> f.id, to |-> k]
  /\ UNCHANGED <<streams, backlog, handling, listener, tasks, upward, sending, history>>

\* deliver_frame() clones the sender registered for the port, if there is one.
Lookup ==
  /\ delivering = None /\ downward # <<>>
  /\ downward' = Tail(downward)
  /\ LET f == Head(downward) IN
       delivering' = IF connections[f.port] = None THEN None
                     ELSE [id |-> f.id, to |-> connections[f.port]]
  /\ UNCHANGED <<streams, backlog, handling, listener, tasks, upward, sending, history>>

\* Mutant of Enqueue: the capacity is not respected.
EnqueueUnbounded ==
  /\ delivering # None
  /\ LET k == delivering.to IN
       /\ writer[k] = "up"
       /\ queue' = [queue EXCEPT ![k] = Append(@, delivering.id)]
       /\ late' = IF connections[port[k]] = k THEN late ELSE [late EXCEPT ![k] = @ + 1]
  /\ delivering' = None
  /\ UNCHANGED <<streams, backlog, handling, listener, port, reader, writer, connections,
                 upward, sending, downward, said, forwarded, arrived>>

\* socket.send(frame).await, on a channel that may have been replaced meanwhile.
Enqueue ==
  /\ delivering # None
  /\ LET k == delivering.to IN
       /\ writer[k] = "up" /\ Len(queue[k]) < QueueCap
       /\ queue' = [queue EXCEPT ![k] = Append(@, delivering.id)]
       /\ late' = IF connections[port[k]] = k THEN late ELSE [late EXCEPT ![k] = @ + 1]
  /\ delivering' = None
  /\ UNCHANGED <<streams, backlog, handling, listener, port, reader, writer, connections,
                 upward, sending, downward, said, forwarded, arrived>>

\* Mutant of EnqueueFails: the send waits although the write task has ended.
EnqueueWaits ==
  /\ delivering # None /\ writer[delivering.to] = "none"
  /\ delivering' = None
  /\ UNCHANGED <<streams, backlog, handling, listener, tasks, upward, sending, downward, history>>

\* The write task has ended: the frame is lost, the entry stays.
EnqueueFails ==
  /\ delivering # None /\ writer[delivering.to] = "done"
  /\ delivering' = None
  /\ UNCHANGED <<streams, backlog, handling, listener, tasks, upward, sending, downward, history>>

-----------------------------------------------------------------------------
(* uipd: frames for the network *)

TakeUp ==
  /\ sending = None /\ upward # <<>>
  /\ sending' = Head(upward)
  /\ upward' = Tail(upward)
  /\ UNCHANGED <<streams, backlog, handling, listener, tasks, downward, delivering, history>>

\* network.send_frame().await returns.
Forwarded ==
  /\ sending # None
  /\ forwarded' = [forwarded EXCEPT ![sending] = @ + 1]
  /\ sending' = None
  /\ UNCHANGED <<streams, backlog, handling, listener, tasks, upward, downward, delivering,
                 said, arrived, late>>

-----------------------------------------------------------------------------

Reader(k) == ReadRequest(k) \/ PassUp(k) \/ ReadClosed(k)
Writer(k) == WriteReply(k) \/ WriteFails(k) \/ WriterReplaced(k)
Handle(k) == HandleBind(k) \/ HandleUnbound(k) \/ HandleClosed(k)
Deliver == Lookup \/ Enqueue \/ EnqueueFails

Next ==
  \/ \E k \in Clients :
       \/ Connect(k) \/ Bind(k) \/ Say(k) \/ Hear(k) \/ Close(k)
       \/ Handle(k) \/ Reader(k) \/ Writer(k)
  \/ Accept \/ AcceptFails \/ Deliver \/ TakeUp \/ Forwarded
  \/ \E p \in Ports : Arrive(p)

Spec == Init /\ [][Next]_vars

\* The daemon's tasks run when they can.  Of the clients nothing is assumed, they
\* need not send a first frame, nor read, nor leave; nor is it assumed that
\* network.send_frame() returns, which waits for a handshake without a limit.
Fairness ==
  /\ WF_vars(Accept) /\ WF_vars(Deliver) /\ WF_vars(TakeUp)
  /\ \A k \in Clients : WF_vars(Handle(k)) /\ WF_vars(Reader(k)) /\ WF_vars(Writer(k))

FairSpec == Spec /\ Fairness

-----------------------------------------------------------------------------
(* Properties *)

\* Type invariant: no channel exceeds its capacity, and the tasks of a client
\* exist once it has bound a port.
TypeOK ==
  /\ client \in [Clients -> {"away", "open", "closed"}]
  /\ request \in [Clients -> Seq(Requests)]
  /\ reply \in [Clients -> Seq(Nat)]
  /\ backlog \in Seq(Clients) /\ handling \in Clients \cup {None}
  /\ listener \in {"open", "closed"}
  /\ port \in [Clients -> Ports \cup {None}]
  /\ reader \in [Clients -> {"none", "next", "send", "done"}]
  /\ writer \in [Clients -> {"none", "up", "done"}]
  /\ queue \in [Clients -> Seq(Nat)]
  /\ connections \in [Ports -> Clients \cup {None}]
  /\ upward \in Seq(Clients) /\ sending \in Clients \cup {None}
  /\ downward \in Seq(Frames)
  /\ delivering \in {None} \cup [id : Nat, to : Clients]
  /\ \A k \in Clients :
       /\ Len(queue[k]) <= QueueCap /\ Len(reply[k]) <= SocketCap
       /\ (port[k] = None) = (writer[k] = "none")
  /\ Len(upward) <= PumpCap /\ Len(downward) <= PumpCap
  /\ said \in [Clients -> Nat] /\ forwarded \in [Clients -> Nat]
  /\ arrived \in Nat /\ late \in [Clients -> Nat]

\* When another client binds the port, at most the one frame in the forwarding
\* task's hands still goes to the client that had it.
OneLateFrame == \A k \in Clients : late[k] <= 1

\* The client has stopped reading: its socket is full.
Unread(k) == client[k] = "open" /\ Len(reply[k]) = SocketCap

\* A client whose port was bound by another is cut off in the end: its write
\* task ends, although nothing tells it to, unless the client stops reading.
ReplacedWriterEnds ==
  \A k \in Clients :
    \/ <>[]Unread(k)
    \/ port[k] # None /\ connections[port[k]] # k ~> writer[k] = "done"

\* One thing stops the task that forwards the frames from the network for good: a
\* client that stops reading.  It does, for all clients; a client that is gone, or
\* that was replaced, does not.
DeliveryProceeds ==
  \/ \E k \in Clients : <>[](delivering # None /\ delivering.to = k /\ Unread(k))
  \/ delivering # None ~> delivering = None

\* Nothing more is sent for any client once network.send_frame() does not return,
\* and none is accepted while the one at the head neither sends a frame nor leaves.
SendHangs == sending # None
FirstSilent == handling # None /\ request[handling] = <<>> /\ client[handling] = "open"

\* What k sends reaches the network, unless one of these lasts for ever, or k was
\* still waiting when accept() failed.
Reaches(k) ==
  \/ <>[]SendHangs \/ <>[]FirstSilent
  \/ \A i \in 1 .. MaxData :
       said[k] = i ~> forwarded[k] >= i \/ (listener = "closed" /\ port[k] = None)

\* What a client that binds first sends reaches the network, even when another
\* client takes its port, when it goes away, or when others send without binding.
DataForwarded == \A k \in Listeners : Reaches(k)

\* Everything a client sends reaches the network, bound or not.
AllForwarded == \A k \in Clients : Reaches(k)
=============================================================================
