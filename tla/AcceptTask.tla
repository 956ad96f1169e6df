----------------------------- MODULE AcceptTask -----------------------------
(***************************************************************************)
(* IoSocket together with the accept task of the transport socket          *)
(* (src/src/network/transport/socket.rs), which performs one handshake at  *)
(* a time and, meanwhile, leaves the connections behind it in the queue    *)
(* unread.  The read task of the UDP socket waits for room in the channel  *)
(* of one connection while the datagrams of all others wait for it.        *)
(*                                                                         *)
(* Every other connection has an owner, the tasks of a connection or the   *)
(* caller of open_connection(), which need not ever read it: the read task *)
(* of a connection waits, without a limit, for room in the channel to the  *)
(* data loop.  Datagrams of DTLS are not looked into: a handshake may end, *)
(* either way, after any of them.                                          *)
(***************************************************************************)
EXTENDS IoSocket

VARIABLE serving  \* the connection whose handshake is performed, or None

tvars == <<vars, serving>>

TInit == Init /\ serving = None

\* incomming_connections.recv()
Take ==
  /\ serving = None /\ Accept
  /\ serving' = Head(accepts)

\* accept().await reads a datagram.
ReadFlight ==
  /\ serving \in Conns /\ Read(serving)
  /\ UNCHANGED serving

\* The handshake is done and the tasks of the connection take over.
Established ==
  /\ serving \in Conns
  /\ serving' = None
  /\ UNCHANGED vars

\* It fails, or reads end of stream, and the connection is dropped.
Refused ==
  /\ serving \in Conns /\ DropConnection(serving)
  /\ serving' = None

\* Reading returns at once: a datagram, or the end of the stream.
Readable(c) == incoming[c] # <<>> \/ ~ HasSender(c)

ServingTask == (StartAcceptor /\ UNCHANGED serving) \/ Take \/ ReadFlight \/ Established \/ Refused

\* The owner of another connection
Own(c) == c # serving /\ (Read(c) \/ DropConnection(c)) /\ UNCHANGED serving

Others ==
  /\ \/ \E r \in Remotes : Receive(r) \/ Connect(r)
     \/ FailAcceptor
     \/ Stop("closed") \/ Stop("error") \/ Close \/ DropSocket
  /\ UNCHANGED serving

\* The steps of the read task that follow the receipt of a datagram.
Proceed == (Forward \/ Discard \/ Insert \/ Handoff \/ HandoffFails) /\ UNCHANGED serving

TNext == ServingTask \/ (\E c \in Conns : Own(c)) \/ Others \/ Proceed

\* open() gets as far as to spawn the accept task, or fails.
Opened == (StartAcceptor \/ FailAcceptor) /\ UNCHANGED serving

\* The tasks run when they can.  The accept task need not get any further than
\* to wait for its peer, and nobody else need ever read a connection.
Fairness ==
  /\ WF_tvars(Opened)
  /\ WF_tvars(Proceed)
  /\ WF_tvars(Take \/ (serving # None /\ Readable(serving) /\ (ReadFlight \/ Established \/ Refused)))

TSpec == TInit /\ [][TNext]_tvars /\ Fairness

-----------------------------------------------------------------------------
(* Properties *)

\* Everybody waits for everybody: the accept task for a datagram of its peer,
\* which the read task would have to fetch, and the read task for a connection
\* that waits for the accept task.
Jammed ==
  /\ serving # None /\ ~ Readable(serving)
  /\ \/ pc = "handoff" /\ Len(accepts) = AcceptCap
     \/ pc = "send" /\ Len(incoming[dest]) = ChanCap /\ InQueue(dest)

\* The read task waits for room in a connection that is open and established,
\* or being established from here, and whose owner does not read it.
HeldUp ==
  pc = "send" /\ Owned(dest) /\ dest # serving /\ Len(incoming[dest]) = ChanCap

\* The read task gets back to the socket, and so to the datagrams of all other
\* remotes, unless one owner that never reads holds it up for ever, or the
\* accept task waits for a peer and the remote for the accept task
\* (io/socket.rs:68, 113).  No remote whose connection is gone, replaced or not
\* yet established, and no accept task that never started, is enough.
ReadTaskReturns ==
  \/ <>[]HeldUp
  \/ pc \in {"send", "insert", "handoff"} ~> pc \in {"recv", "done"} \/ Jammed
=============================================================================
