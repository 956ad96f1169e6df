------------------------------ MODULE IoSocket ------------------------------
(***************************************************************************)
(* The IO layer (src/src/network/io): one UDP socket shared by many        *)
(* connections.  A map from remote address to the sending half of a        *)
(* bounded channel says where a datagram goes; a read task moves datagrams *)
(* from the UDP socket into those channels, and hands the connection it    *)
(* makes for an unknown remote to the accept task.  Local callers add      *)
(* entries with connect().                                                 *)
(*                                                                         *)
(* The read task runs on its own thread of the tokio pool: between the     *)
(* lookup, the send, the insertion and the hand-off other tasks run, so    *)
(* each is a step.  The owner of a connection (the accept task, then the   *)
(* read half of a transport connection) and the accept task are the        *)
(* environment of this module: they may read, drop or accept at any time.  *)
(***************************************************************************)
EXTENDS Naturals, Sequences

CONSTANTS
  Remotes,      \* socket addresses of peers
  Conns,        \* Connection objects; bounds how many are ever made
  None,         \* no remote, no connection
  ChanCap,      \* channel::<Bytes>(10)
  AcceptCap,    \* channel::<Connection>(10)
  MaxArrivals   \* bound on the datagrams that arrive from one remote

ASSUME IoAssumption ==
  /\ None \notin Remotes \cup Conns
  /\ ChanCap \in Nat \ {0}
  /\ AcceptCap \in Nat \ {0}
  /\ MaxArrivals \in Nat

VARIABLES
  connections,  \* Socket.connections: [Remotes -> Conns \cup {None}]
  remote,       \* Connection.remote_addr, None before the object is made
  receiver,     \* Connection.incoming: "unborn", "open" or "dropped"
  incoming,     \* the datagrams waiting in that channel
  accepts,      \* the channel of connections to the accept task
  acceptor,     \* that task: "starting", "running", or "failed" to start
  closing,      \* close() was called
  alive,        \* the Socket, and with it the map, still exists
  pc,           \* the read task: "recv", "send", "insert", "handoff", "done"
  from,         \* the read task's locals: the sender of the datagram in hand,
  datagram,     \*   the datagram itself,
  dest,         \*   the channel it goes to,
  made,         \*   and the Connection made for it, None for a known sender
  arrived,      \* history: number of datagrams received per remote
  forwarded,    \* history: newest datagram put into a channel, per remote
  inbound,      \* history: the connections made by the read task
  latest,       \* history: the connection of the last connect(), per remote
  raced         \* history: remotes whose last connect() met the read task
                \*   between its lookup and its insertion for that remote

task == <<pc, from, datagram, dest, made>>
history == <<arrived, forwarded, inbound, latest, raced>>
vars == <<connections, remote, receiver, incoming, accepts, acceptor, closing,
          alive, task, history>>

Init ==
  /\ connections = [r \in Remotes |-> None]
  /\ remote = [c \in Conns |-> None]
  /\ receiver = [c \in Conns |-> "unborn"]
  /\ incoming = [c \in Conns |-> <<>>]
  /\ accepts = <<>>
  /\ acceptor = "starting"
  /\ closing = FALSE
  /\ alive = TRUE
  /\ pc = "recv" /\ from = None /\ datagram = 0 /\ dest = None /\ made = None
  /\ arrived = [r \in Remotes |-> 0]
  /\ forwarded = [r \in Remotes |-> 0]
  /\ inbound = {}
  /\ latest = [r \in Remotes |-> None]
  /\ raced = {}

-----------------------------------------------------------------------------
(* Channels and Connection objects *)

\* The read task is between its lookup and its insertion for remote r.
InFlight(r) == pc \in {"send", "insert"} /\ from = r

\* A clone of the Sender of c exists: in the map, or in the read task's hands.
HasSender(c) ==
  \/ \E r \in Remotes : connections[r] = c
  \/ pc \in {"send", "insert"} /\ dest = c

InQueue(c) == \E i \in 1 .. Len(accepts) : accepts[i] = c

\* The Connection is with its owner, not in the read task or the accept queue.
Owned(c) ==
  /\ receiver[c] = "open"
  /\ made # c
  /\ ~ InQueue(c)

\* channel::<Bytes>(10) and Connection::new
NewConnection(c, r) ==
  /\ receiver[c] = "unborn"
  /\ receiver' = [receiver EXCEPT ![c] = "open"]
  /\ remote' = [remote EXCEPT ![c] = r]

-----------------------------------------------------------------------------
(* The read task *)

NextDatagram == pc' = "recv" /\ from' = None /\ datagram' = 0
                /\ dest' = None /\ made' = None

\* Mutant of Receive: the datagram that opens a connection is not forwarded.
ReceiveWithoutFirst(r) ==
  /\ pc = "recv"
  /\ arrived[r] < MaxArrivals
  /\ arrived' = [arrived EXCEPT ![r] = @ + 1]
  /\ pc' = IF connections[r] = None THEN "insert" ELSE "send"
  /\ from' = r
  /\ datagram' = arrived[r] + 1
  /\ \/ /\ connections[r] # None
        /\ dest' = connections[r]
        /\ made' = None
        /\ UNCHANGED <<remote, receiver, inbound>>
     \/ /\ connections[r] = None
        /\ \E c \in Conns :
             /\ NewConnection(c, r)
             /\ dest' = c
             /\ made' = c
             /\ inbound' = inbound \cup {c}
  /\ UNCHANGED <<connections, incoming, accepts, acceptor, closing, alive,
                 forwarded, latest, raced>>

\* recv_from() returns a datagram of r and forward_or_new_connection() looks
\* up its channel, or makes one together with a new Connection.
Receive(r) ==
  /\ pc = "recv"
  /\ arrived[r] < MaxArrivals
  /\ arrived' = [arrived EXCEPT ![r] = @ + 1]
  /\ pc' = "send"
  /\ from' = r
  /\ datagram' = arrived[r] + 1
  /\ \/ /\ connections[r] # None
        /\ dest' = connections[r]
        /\ made' = None
        /\ UNCHANGED <<remote, receiver, inbound>>
     \/ /\ connections[r] = None
        /\ \E c \in Conns :
             /\ NewConnection(c, r)
             /\ dest' = c
             /\ made' = c
             /\ inbound' = inbound \cup {c}
  /\ UNCHANGED <<connections, incoming, accepts, acceptor, closing, alive,
                 forwarded, latest, raced>>

\* Mutants of Forward: an unbounded channel; a send that is tried again after
\* it succeeded.
ForwardUnbounded ==
  /\ pc = "send"
  /\ receiver[dest] = "open"
  /\ incoming' = [incoming EXCEPT ![dest] = Append(@, datagram)]
  /\ forwarded' = [forwarded EXCEPT ![from] = datagram]
  /\ pc' = "insert"
  /\ UNCHANGED <<connections, remote, receiver, accepts, acceptor, closing, alive,
                 from, datagram, dest, made, arrived, inbound, latest, raced>>
ForwardTwice ==
  /\ pc = "send"
  /\ receiver[dest] = "open"
  /\ Len(incoming[dest]) < ChanCap
  /\ incoming' = [incoming EXCEPT ![dest] = Append(@, datagram)]
  /\ forwarded' = [forwarded EXCEPT ![from] = datagram]
  /\ pc' \in {"send", "insert"}
  /\ UNCHANGED <<connections, remote, receiver, accepts, acceptor, closing, alive,
                 from, datagram, dest, made, arrived, inbound, latest, raced>>

\* destination.send(buf).await succeeds once the channel has room.
Forward ==
  /\ pc = "send"
  /\ receiver[dest] = "open"
  /\ Len(incoming[dest]) < ChanCap
  /\ incoming' = [incoming EXCEPT ![dest] = Append(@, datagram)]
  /\ forwarded' = [forwarded EXCEPT ![from] = datagram]
  /\ pc' = "insert"
  /\ UNCHANGED <<connections, remote, receiver, accepts, acceptor, closing, alive,
                 from, datagram, dest, made, arrived, inbound, latest, raced>>

\* Mutants of Discard: the send is tried again; whatever is registered for the
\* address by now is removed.
DiscardRetries ==
  /\ pc = "send"
  /\ receiver[dest] = "dropped"
  /\ UNCHANGED vars
DiscardRemoves ==
  /\ pc = "send"
  /\ receiver[dest] = "dropped"
  /\ connections' = [connections EXCEPT ![from] = None]
  /\ NextDatagram
  /\ UNCHANGED <<remote, receiver, incoming, accepts, acceptor, closing, alive, history>>

\* destination.send(buf).await fails: the receiving half is gone.  The entry
\* stays in the map.
Discard ==
  /\ pc = "send"
  /\ receiver[dest] = "dropped"
  /\ NextDatagram
  /\ UNCHANGED <<connections, remote, receiver, incoming, accepts, acceptor, closing,
                 alive, history>>

\* Mutant of Insert: a new connection is handed off without being registered.
InsertKnown ==
  /\ pc = "insert"
  /\ IF made # None THEN pc' = "handoff" /\ UNCHANGED <<connections, from, datagram, dest, made>>
              ELSE connections' = [connections EXCEPT ![from] = dest] /\ NextDatagram
  /\ UNCHANGED <<remote, receiver, incoming, accepts, acceptor, closing, alive, history>>

\* connections.insert(remote, destination), for a known remote as well.
Insert ==
  /\ pc = "insert"
  /\ connections' = [connections EXCEPT ![from] = dest]
  /\ IF made # None THEN pc' = "handoff" /\ UNCHANGED <<from, datagram, dest, made>>
              ELSE NextDatagram
  /\ UNCHANGED <<remote, receiver, incoming, accepts, acceptor, closing, alive, history>>

\* connection_sender.send(connection).await succeeds once the queue has room.
Handoff ==
  /\ pc = "handoff"
  /\ acceptor # "failed"
  /\ Len(accepts) < AcceptCap
  /\ accepts' = Append(accepts, dest)
  /\ NextDatagram
  /\ UNCHANGED <<connections, remote, receiver, incoming, acceptor, closing, alive, history>>

\* It fails: the queue is gone.  The read task drops the connection and ends.
HandoffFails ==
  /\ pc = "handoff"
  /\ acceptor = "failed"
  /\ receiver' = [receiver EXCEPT ![made] = "dropped"]
  /\ incoming' = [incoming EXCEPT ![made] = <<>>]
  /\ pc' = "done" /\ from' = None /\ datagram' = 0 /\ dest' = None /\ made' = None
  /\ UNCHANGED <<connections, remote, accepts, acceptor, closing, alive, history>>

\* The select in the read task sees the close signal, or recv_from() fails.
Stop(reason) ==
  /\ pc = "recv"
  /\ reason = "closed" => closing
  /\ pc' = "done"
  /\ UNCHANGED <<connections, remote, receiver, incoming, accepts, acceptor, closing,
                 alive, from, datagram, dest, made, history>>

ReadTask ==
  \/ \E r \in Remotes : Receive(r)
  \/ Forward \/ Discard \/ Insert \/ Handoff \/ HandoffFails
  \/ Stop("closed") \/ Stop("error")

-----------------------------------------------------------------------------
(* Opening the socket, and its methods, called from other tasks *)

\* open() of the transport socket, once the read task runs: the accept task is
\* spawned with the queue, and open() returns the socket to its caller.
StartAcceptor ==
  /\ acceptor = "starting"
  /\ acceptor' = "running"
  /\ UNCHANGED <<connections, remote, receiver, incoming, accepts, closing, alive,
                 task, history>>

\* acceptor_for_id() fails: open() drops the queue, whatever is in it, and
\* every handle of the socket but the one of the read task.
FailAcceptor ==
  /\ acceptor = "starting"
  /\ acceptor' = "failed"
  /\ accepts' = <<>>
  /\ receiver' = [c \in Conns |-> IF InQueue(c) THEN "dropped" ELSE receiver[c]]
  /\ incoming' = [c \in Conns |-> IF InQueue(c) THEN <<>> ELSE incoming[c]]
  /\ UNCHANGED <<connections, remote, closing, alive, task, history>>

\* Mutant of Connect: entry(addr).or_insert() instead of insert().
ConnectIfVacant(r) ==
  /\ alive /\ acceptor = "running"
  /\ \E c \in Conns :
       /\ NewConnection(c, r)
       /\ connections' = [connections EXCEPT ![r] = IF @ = None THEN c ELSE @]
       /\ latest' = [latest EXCEPT ![r] = c]
  /\ raced' = IF InFlight(r) THEN raced \cup {r} ELSE raced \ {r}
  /\ UNCHANGED <<incoming, accepts, acceptor, closing, alive, task, arrived, forwarded, inbound>>

\* connect(): a new channel replaces whatever was registered for r.
Connect(r) ==
  /\ alive /\ acceptor = "running"
  /\ \E c \in Conns :
       /\ NewConnection(c, r)
       /\ connections' = [connections EXCEPT ![r] = c]
       /\ latest' = [latest EXCEPT ![r] = c]
  /\ raced' = IF InFlight(r) THEN raced \cup {r} ELSE raced \ {r}
  /\ UNCHANGED <<incoming, accepts, acceptor, closing, alive, task, arrived, forwarded, inbound>>

\* close(): signals the read task, touches nothing else.
Close ==
  /\ alive /\ acceptor = "running" /\ ~ closing
  /\ closing' = TRUE
  /\ UNCHANGED <<connections, remote, receiver, incoming, accepts, acceptor, alive, task, history>>

\* The last reference to the Socket goes away, and every Sender in the map.
\* The read task holds a reference until it ends, the accept task until the
\* accept queue is empty and closed, open() until it returns.
DropSocket ==
  /\ alive /\ pc = "done" /\ accepts = <<>> /\ acceptor # "starting"
  /\ alive' = FALSE
  /\ connections' = [r \in Remotes |-> None]
  /\ UNCHANGED <<remote, receiver, incoming, accepts, acceptor, closing, task, history>>

-----------------------------------------------------------------------------
(* The owners of connections *)

\* The accept task takes the next connection.
Accept ==
  /\ acceptor = "running"
  /\ accepts # <<>>
  /\ accepts' = Tail(accepts)
  /\ UNCHANGED <<connections, remote, receiver, incoming, acceptor, closing, alive, task, history>>

\* poll_read() returns a datagram.
Read(c) ==
  /\ Owned(c)
  /\ incoming[c] # <<>>
  /\ incoming' = [incoming EXCEPT ![c] = Tail(@)]
  /\ UNCHANGED <<connections, remote, receiver, accepts, acceptor, closing, alive, task, history>>

\* The owner drops the Connection: at end of file, on an error or a timeout.
DropConnection(c) ==
  /\ Owned(c)
  /\ receiver' = [receiver EXCEPT ![c] = "dropped"]
  /\ incoming' = [incoming EXCEPT ![c] = <<>>]
  /\ UNCHANGED <<connections, remote, accepts, acceptor, closing, alive, task, history>>

Next ==
  \/ ReadTask
  \/ \E r \in Remotes : Connect(r)
  \/ StartAcceptor \/ FailAcceptor \/ Close \/ DropSocket \/ Accept
  \/ \E c \in Conns : Read(c) \/ DropConnection(c)

Spec == Init /\ [][Next]_vars

-----------------------------------------------------------------------------
(* Properties *)

\* Type invariant: the map, the channels and the read task's locals hold
\* values of their types, and no channel exceeds its capacity.
TypeOK ==
  /\ connections \in [Remotes -> Conns \cup {None}]
  /\ remote \in [Conns -> Remotes \cup {None}]
  /\ receiver \in [Conns -> {"unborn", "open", "dropped"}]
  /\ incoming \in [Conns -> Seq(Nat)]
  /\ \A c \in Conns : Len(incoming[c]) <= ChanCap
  /\ accepts \in Seq(Conns)
  /\ Len(accepts) <= AcceptCap
  /\ acceptor \in {"starting", "running", "failed"}
  /\ closing \in BOOLEAN /\ alive \in BOOLEAN
  /\ pc \in {"recv", "send", "insert", "handoff", "done"}
  /\ from \in Remotes \cup {None}
  /\ dest \in Conns \cup {None}
  /\ made \in {dest, None}
  /\ pc \in {"send", "insert", "handoff"} => dest \in Conns /\ from \in Remotes
  /\ datagram \in Nat
  /\ arrived \in [Remotes -> Nat]
  /\ forwarded \in [Remotes -> Nat]
  /\ inbound \in SUBSET Conns
  /\ latest \in [Remotes -> Conns \cup {None}]
  /\ raced \in SUBSET Remotes

\* In the whole life of a socket at most one connection per remote address is
\* made for the accept task, whatever connect() and dropped connections do
\* meanwhile: an address that was registered once is never vacant again.
AcceptedOnce ==
  \A c, d \in inbound : remote[c] = remote[d] => c = d

\* Every connection waiting for the accept task already holds the datagram
\* that opened it (the ClientHello): the read task forwards before it hands off.
AcceptedHasFirstDatagram ==
  \A i \in 1 .. Len(accepts) : incoming[accepts[i]] # <<>>

\* A live connection reads end-of-file only because another connection took
\* over its address or the whole socket is gone.
CutOffOnlyWhenReplaced ==
  \A c \in Conns :
    alive /\ receiver[c] = "open" /\ ~ HasSender(c) =>
      connections[remote[c]] \notin {None, c}

\* While the socket exists, datagrams of r go to the connection that the last
\* connect(r) returned, except when that call ran between the read task's
\* lookup and its write-back for r.
ConnectWinsUnlessRaced ==
  \A r \in Remotes :
    alive /\ latest[r] # None /\ r \notin raced => connections[r] = latest[r]

\* The IO layer implements the abstract demultiplexer: datagrams stay with
\* their remote, in order, each given to at most one connection at most once.
Demux == INSTANCE DatagramDemux WITH last <- forwarded
RefinesDemux == Demux!ASpec
=============================================================================
