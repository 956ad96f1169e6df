---------------------------- MODULE PeerSession ----------------------------
(***************************************************************************)
(* How daemons reach each other: the connection tables of the network      *)
(* state and the transport socket (src/src/network/state.rs and            *)
(* transport/socket.rs) on top of the IO layer's map from addresses to     *)
(* connections.  Every daemon has one socket.  A frame for a peer goes     *)
(* over the connection the table holds for it, or over a new one; a        *)
(* handshake with a new remote is done by the accept task, one at a time.  *)
(*                                                                         *)
(* DTLS is external: a handshake takes four flights (hello, answer,        *)
(* finish, done), a connection ignores what is not of its own session or   *)
(* comes twice, and nothing is sent again or put back in order.  The       *)
(* network is UDP: datagrams arrive in any order, and one that never       *)
(* arrives is lost.  IoSocket has the IO layer in detail; here a datagram  *)
(* is routed in one step.  Timeouts stand for what TransportConnection     *)
(* shows: an established connection is given up when its other end is gone.*)
(***************************************************************************)
EXTENDS Naturals, Sequences, FiniteSets

CONSTANTS
  Nodes,        \* daemons, each with one address
  Conns,        \* Connection objects of one daemon; bounds how many it makes
  None,
  Talks,        \* the pairs <<n, m>> such that n sends frames to m
  MaxFrames,    \* bound on the frames of each pair
  MaxRestarts,  \* bound on the restarts of all daemons
  MaxRefused    \* bound on the handshakes that fail at the accept tasks

ASSUME SessionAssumption ==
  /\ None \notin Nodes \cup Conns \cup (Nodes \X Conns)
  /\ Talks \subseteq Nodes \X Nodes
  /\ \A n \in Nodes : <<n, n>> \notin Talks
  /\ MaxFrames \in Nat /\ MaxRestarts \in Nat /\ MaxRefused \in Nat

VARIABLES
  entry,      \* entry[n][m]: the connection n's IO socket has for m's address
  stage,      \* stage[n][c]: "unborn", "connect", "queued", "accept", "up",
              \*   "dropped"
  peer,       \* peer[n][c]: the remote of the connection
  session,    \* session[n][c]: its DTLS session, named by the client's end
  inbox,      \* inbox[n][c]: the datagrams waiting in its channel
  accepts,    \* accepts[n]: connections waiting for the accept task
  accepting,  \* accepting[n]: the one in the accept task's hands, also after
              \*   its tasks were started, until it is in the table
  table,      \* table[n][m]: transport::Socket.connections
  pump,       \* pump[n]: the connection the sending task waits for, or None
  wire,       \* wire[n][m]: the set of datagrams on their way from n to m
  sent,       \* history: number of frames n was asked to send to m
  delivered,  \* history: the frames n delivered from m
  restarts,   \* history: number of restarts
  refused     \* history: number of failed handshakes

conns == <<stage, peer, session, inbox>>
tables == <<entry, accepts, accepting, table, pump>>
history == <<sent, delivered, restarts, refused>>
vars == <<conns, tables, wire, history>>

Sessions == Nodes \X Conns

Init ==
  /\ entry = [n \in Nodes |-> [m \in Nodes |-> None]]
  /\ stage = [n \in Nodes |-> [c \in Conns |-> "unborn"]]
  /\ peer = [n \in Nodes |-> [c \in Conns |-> None]]
  /\ session = [n \in Nodes |-> [c \in Conns |-> None]]
  /\ inbox = [n \in Nodes |-> [c \in Conns |-> <<>>]]
  /\ accepts = [n \in Nodes |-> <<>>]
  /\ accepting = [n \in Nodes |-> None]
  /\ table = [n \in Nodes |-> [m \in Nodes |-> None]]
  /\ pump = [n \in Nodes |-> None]
  /\ wire = [n \in Nodes |-> [m \in Nodes |-> {}]]
  /\ sent = [n \in Nodes |-> [m \in Nodes |-> 0]]
  /\ delivered = [n \in Nodes |-> [m \in Nodes |-> <<>>]]
  /\ restarts = 0 /\ refused = 0

-----------------------------------------------------------------------------
(* Datagrams *)

Flight(kind, s) == [kind |-> kind, session |-> s]
Data(s, i) == [kind |-> "data", session |-> s, frame |-> i]

\* poll_write(): socket.poll_send_to(remote).
Transmit(n, m, d) == wire' = [wire EXCEPT ![n][m] = @ \cup {d}]

\* Connection c of n has the datagram d at hand.
Reads(n, c, d) == inbox[n][c] # <<>> /\ d = Head(inbox[n][c])
Consume(n, c) == inbox' = [inbox EXCEPT ![n][c] = Tail(@)]

\* Connection c of n is dropped, with what its channel holds.
Drop(n, c) ==
  /\ stage' = [stage EXCEPT ![n][c] = "dropped"]
  /\ inbox' = [inbox EXCEPT ![n][c] = <<>>]

-----------------------------------------------------------------------------
(* The IO socket *)

\* forward_or_new_connection() with a datagram of m
Receive(n, m, d) ==
  /\ d \in wire[m][n]
  /\ wire' = [wire EXCEPT ![m][n] = @ \ {d}]
  /\ \/ /\ entry[n][m] = None
        /\ \E c \in Conns :
             /\ stage[n][c] = "unborn"
             /\ stage' = [stage EXCEPT ![n][c] = "queued"]
             /\ peer' = [peer EXCEPT ![n][c] = m]
             /\ inbox' = [inbox EXCEPT ![n][c] = <<d>>]
             /\ entry' = [entry EXCEPT ![n][m] = c]
             /\ accepts' = [accepts EXCEPT ![n] = Append(@, c)]
        /\ UNCHANGED session
     \/ /\ entry[n][m] # None
        /\ inbox' = IF stage[n][entry[n][m]] = "dropped" THEN inbox
                    ELSE [inbox EXCEPT ![n][entry[n][m]] = Append(@, d)]
        /\ UNCHANGED <<stage, peer, session, entry, accepts>>
  /\ UNCHANGED <<accepting, table, pump, history>>

\* connect(): a new channel replaces the one registered for m.
Register(n, c, m) ==
  /\ stage[n][c] = "unborn"
  /\ stage' = [stage EXCEPT ![n][c] = "connect"]
  /\ peer' = [peer EXCEPT ![n][c] = m]
  /\ session' = [session EXCEPT ![n][c] = <<n, c>>]
  /\ entry' = [entry EXCEPT ![n][m] = c]

-----------------------------------------------------------------------------
(* Sending: NetworkState::send_frame(), get_connection(), open_connection() *)

\* The table has a live connection.
SendOnExisting(n, m) ==
  /\ table[n][m] # None /\ stage[n][table[n][m]] = "up"
  /\ Transmit(n, m, Data(session[n][table[n][m]], sent'[n][m]))
  /\ UNCHANGED <<conns, tables>>

\* The table has a connection whose tasks have ended: the frame is gone, the
\* connection stays in the table.
SendFails(n, m) ==
  /\ table[n][m] # None /\ stage[n][table[n][m]] = "dropped"
  /\ UNCHANGED <<conns, tables, wire>>

\* The table has none: one is opened, and the task waits for its handshake.
SendOnNew(n, m) ==
  /\ table[n][m] = None
  /\ \E c \in Conns :
       /\ Register(n, c, m)
       /\ Transmit(n, m, Flight("hello", <<n, c>>))
       /\ pump' = [pump EXCEPT ![n] = c]
  /\ UNCHANGED <<inbox, accepts, accepting, table>>

Send(n, m) ==
  /\ <<n, m>> \in Talks /\ sent[n][m] < MaxFrames
  /\ pump[n] = None
  /\ sent' = [sent EXCEPT ![n][m] = @ + 1]
  /\ SendOnExisting(n, m) \/ SendFails(n, m) \/ SendOnNew(n, m)
  /\ UNCHANGED <<delivered, restarts, refused>>

\* Mutant of ConnectFails: whoever waits for the connection is not told.
ConnectFailsUnseen(n, c) == Drop(n, c) /\ UNCHANGED pump

\* open_connection() returns an error, and the frame is gone.
ConnectFails(n, c) == Drop(n, c) /\ pump' = [pump EXCEPT ![n] = None]

\* connect().await in open_connection(): the server's flights come in.
Connecting(n, c, d) ==
  /\ stage[n][c] = "connect" /\ Reads(n, c, d)
  /\ \/ /\ d = Flight("answer", <<n, c>>)
        /\ Transmit(n, peer[n][c], Flight("finish", <<n, c>>))
        /\ Consume(n, c)
        /\ UNCHANGED <<stage, pump>>
     \/ /\ d = Flight("done", <<n, c>>)
        /\ stage' = [stage EXCEPT ![n][c] = "up"]
        /\ Transmit(n, peer[n][c], Data(<<n, c>>, sent[n][peer[n][c]]))
        /\ Consume(n, c)
        /\ pump' = [pump EXCEPT ![n] = None]
     \/ /\ d \notin {Flight("answer", <<n, c>>), Flight("done", <<n, c>>)}
        /\ Consume(n, c)
        /\ UNCHANGED <<stage, pump, wire>>
     \/ /\ d.kind = "hello"   \* unexpected message: the handshake fails
        /\ ConnectFails(n, c)
        /\ UNCHANGED wire
  /\ UNCHANGED <<peer, session, entry, accepts, accepting, table, history>>

-----------------------------------------------------------------------------
(* The accept task *)

\* incomming_connections.recv()
AcceptNext(n) ==
  /\ accepting[n] = None /\ accepts[n] # <<>>
  /\ accepting' = [accepting EXCEPT ![n] = Head(accepts[n])]
  /\ accepts' = [accepts EXCEPT ![n] = Tail(@)]
  /\ stage' = [stage EXCEPT ![n][Head(accepts[n])] = "accept"]
  /\ UNCHANGED <<peer, session, inbox, entry, table, pump, wire, history>>

\* accept().await: the handshake goes on, and with its last flight the tasks of
\* the connection start.  The accept task still has to put it into the table.
Accepting(n, c, d) ==
  /\ accepting[n] = c /\ stage[n][c] = "accept" /\ Reads(n, c, d)
  /\ Consume(n, c)
  /\ \/ /\ d.kind = "hello" /\ session[n][c] = None
        /\ session' = [session EXCEPT ![n][c] = d.session]
        /\ Transmit(n, peer[n][c], Flight("answer", d.session))
        /\ UNCHANGED stage
     \/ /\ d.kind = "finish" /\ session[n][c] = d.session
        /\ Transmit(n, peer[n][c], Flight("done", d.session))
        /\ stage' = [stage EXCEPT ![n][c] = "up"]
        /\ UNCHANGED session
     \/ /\ ~ (d.kind = "hello" /\ session[n][c] = None)
        /\ ~ (d.kind = "finish" /\ session[n][c] = d.session)
        /\ UNCHANGED <<stage, session, wire>>
  /\ UNCHANGED <<peer, entry, accepts, accepting, table, pump, history>>

\* The handshake fails, or succeeds and the peer cannot be identified: either way
\* the stream is dropped, and the peer is not told that its handshake was in vain.
Refuse(n, c, d) ==
  /\ refused < MaxRefused
  /\ accepting[n] = c /\ stage[n][c] = "accept" /\ Reads(n, c, d)
  /\ \/ UNCHANGED wire
     \/ /\ d.kind = "finish" /\ session[n][c] = d.session
        /\ Transmit(n, peer[n][c], Flight("done", d.session))
  /\ Drop(n, c)
  /\ accepting' = [accepting EXCEPT ![n] = None]
  /\ refused' = refused + 1
  /\ UNCHANGED <<peer, session, entry, accepts, table, pump, sent, delivered, restarts>>

\* Mutants of List: the connection is not put into the table; the accept task
\* keeps to the connection it has.
ListNothing(n, c) ==
  /\ accepting[n] = c /\ stage[n][c] \in {"up", "dropped"}
  /\ accepting' = [accepting EXCEPT ![n] = None]
  /\ UNCHANGED <<conns, entry, accepts, table, pump, wire, history>>
ListAndHold(n, c) ==
  /\ accepting[n] = c /\ stage[n][c] \in {"up", "dropped"}
  /\ table' = [table EXCEPT ![n][peer[n][c]] = c]
  /\ UNCHANGED <<conns, entry, accepts, accepting, pump, wire, history>>

\* socket.write().connections.insert(id, conn), whose tasks run by now, and may
\* have ended.
List(n, c) ==
  /\ accepting[n] = c /\ stage[n][c] \in {"up", "dropped"}
  /\ accepting' = [accepting EXCEPT ![n] = None]
  /\ table' = [table EXCEPT ![n][peer[n][c]] = c]
  /\ UNCHANGED <<conns, entry, accepts, pump, wire, history>>

-----------------------------------------------------------------------------
(* Established connections *)

\* Mutant of Deliver: the frame is read again.
DeliverAgain(n, c, d) ==
  /\ stage[n][c] = "up" /\ Reads(n, c, d)
  /\ d.kind = "data" /\ d.session = session[n][c]
  /\ delivered' = [delivered EXCEPT ![n][peer[n][c]] = Append(@, d.frame)]
  /\ inbox' = IF Len(delivered[n][peer[n][c]]) < 2 THEN inbox
              ELSE [inbox EXCEPT ![n][c] = Tail(@)]
  /\ UNCHANGED <<stage, peer, session, tables, wire, sent, restarts, refused>>

\* The read task takes a frame of its session and passes it on.
Deliver(n, c, d) ==
  /\ stage[n][c] = "up" /\ Reads(n, c, d)
  /\ Consume(n, c)
  /\ delivered' = IF d.kind = "data" /\ d.session = session[n][c]
                  THEN [delivered EXCEPT ![n][peer[n][c]] = Append(@, d.frame)]
                  ELSE delivered
  /\ UNCHANGED <<stage, peer, session, tables, wire, sent, restarts, refused>>

\* The channel of c is closed and empty: its address was taken over.  Whoever
\* waits for its handshake goes on.
EndOfStream(n, c) ==
  /\ stage[n][c] \in {"connect", "accept", "up"}
  /\ entry[n][peer[n][c]] # c /\ inbox[n][c] = <<>>
  /\ Drop(n, c)
  /\ accepting' = [accepting EXCEPT ![n] = IF @ = c /\ stage[n][c] = "accept" THEN None ELSE @]
  /\ pump' = [pump EXCEPT ![n] = IF @ = c THEN None ELSE @]
  /\ UNCHANGED <<peer, session, entry, accepts, table, wire, history>>

\* The other end of c's session lives: in its tasks, or in a handshake.
OtherEndLives(n, c) ==
  \E d \in Conns :
    /\ session[peer[n][c]][d] = session[n][c]
    /\ stage[peer[n][c]][d] # "dropped"

\* The read task hears nothing for 20 s.
Timeout(n, c) ==
  /\ stage[n][c] = "up" /\ inbox[n][c] = <<>>
  /\ ~ OtherEndLives(n, c)
  /\ Drop(n, c)
  /\ UNCHANGED <<peer, session, tables, wire, history>>

-----------------------------------------------------------------------------

\* The process ends and is started again on the same address.
Restart(n) ==
  /\ restarts < MaxRestarts
  /\ restarts' = restarts + 1
  /\ stage' = [stage EXCEPT ![n] = [c \in Conns |-> IF @[c] = "unborn" THEN "unborn" ELSE "dropped"]]
  /\ inbox' = [inbox EXCEPT ![n] = [c \in Conns |-> <<>>]]
  /\ entry' = [entry EXCEPT ![n] = [m \in Nodes |-> None]]
  /\ accepts' = [accepts EXCEPT ![n] = <<>>]
  /\ accepting' = [accepting EXCEPT ![n] = None]
  /\ table' = [table EXCEPT ![n] = [m \in Nodes |-> None]]
  /\ pump' = [pump EXCEPT ![n] = None]
  /\ UNCHANGED <<peer, session, wire, sent, delivered, refused>>

\* The first datagram in c's channel is handled by whoever has the connection.
Handle(n, c) ==
  inbox[n][c] # <<>> /\ LET d == Head(inbox[n][c]) IN
    Connecting(n, c, d) \/ Accepting(n, c, d) \/ Refuse(n, c, d) \/ Deliver(n, c, d)

Next ==
  \E n \in Nodes :
    \/ \E m \in Nodes : Send(n, m) \/ \E d \in wire[m][n] : Receive(n, m, d)
    \/ AcceptNext(n)
    \/ \E c \in Conns : Handle(n, c) \/ List(n, c) \/ EndOfStream(n, c) \/ Timeout(n, c)
    \/ Restart(n)

Spec == Init /\ [][Next]_vars

\* The tasks run when they can.  Sending and restarting are up to others.  The
\* network loses nothing here, which the code cannot guarantee and does not make
\* up for: as finitely many datagrams are sent, each of them is received.
Fairness ==
  \A n \in Nodes :
    /\ \A m \in Nodes : WF_vars(\E d \in wire[m][n] : Receive(n, m, d))
    /\ WF_vars(AcceptNext(n))
    /\ \A c \in Conns : /\ WF_vars(Handle(n, c)) /\ WF_vars(List(n, c))
                        /\ WF_vars(EndOfStream(n, c)) /\ WF_vars(Timeout(n, c))

FairSpec == Spec /\ Fairness

-----------------------------------------------------------------------------
(* Properties *)

Datagram ==
  [kind : {"hello", "answer", "finish", "done"}, session : Sessions]
    \cup [kind : {"data"}, session : Sessions, frame : Nat]

\* Type invariant: besides the types, a task waits only for a connection that
\* is still there and in the stage the task waits for.
TypeOK ==
  /\ entry \in [Nodes -> [Nodes -> Conns \cup {None}]]
  /\ stage \in [Nodes -> [Conns -> {"unborn", "connect", "queued", "accept", "up", "dropped"}]]
  /\ peer \in [Nodes -> [Conns -> Nodes \cup {None}]]
  /\ session \in [Nodes -> [Conns -> Sessions \cup {None}]]
  /\ inbox \in [Nodes -> [Conns -> Seq(Datagram)]]
  /\ accepts \in [Nodes -> Seq(Conns)]
  /\ accepting \in [Nodes -> Conns \cup {None}]
  /\ table \in [Nodes -> [Nodes -> Conns \cup {None}]]
  /\ pump \in [Nodes -> Conns \cup {None}]
  /\ \A n \in Nodes :
       /\ accepting[n] # None => stage[n][accepting[n]] \in {"accept", "up", "dropped"}
       /\ pump[n] # None => stage[n][pump[n]] = "connect"
  /\ wire \in [Nodes -> [Nodes -> SUBSET Datagram]]
  /\ sent \in [Nodes -> [Nodes -> Nat]]
  /\ delivered \in [Nodes -> [Nodes -> Seq(Nat)]]
  /\ restarts \in Nat /\ refused \in Nat

\* Whatever connections replace each other, daemons restart, and datagrams are
\* lost or overtake each other: no frame is delivered twice, and none that was
\* not sent.
DeliveredOnce ==
  \A n, m \in Nodes : \A i \in 1 .. Len(delivered[n][m]) :
    /\ delivered[n][m][i] <= sent[m][n]
    /\ \A j \in 1 .. Len(delivered[n][m]) : i < j => delivered[n][m][i] # delivered[n][m][j]

\* The established inbound connection with m is the one in the table, so that
\* answers to m go back over it, or the accept task is about to put it there: it
\* is never left out, nor lost to a connection that took its place.
InboundReachable ==
  \A n \in Nodes : \A c \in Conns :
    stage[n][c] = "up" /\ session[n][c] \in {peer[n][c]} \X Conns =>
      table[n][peer[n][c]] = c \/ accepting[n] = c

\* Every sending task comes back from the connection it waits for.
SendReturns == \A n \in Nodes : pump[n] # None ~> pump[n] = None

\* As long as the network loses nothing and no handshake is refused, every frame
\* sent is delivered, also to a daemon that is called by several at once.
Delivery ==
  \A n, m \in Nodes : \A i \in 1 .. MaxFrames :
    sent[n][m] = i ~> \E k \in 1 .. Len(delivered[m][n]) : delivered[m][n][k] = i
=============================================================================
