---------------------------- MODULE DatagramDemux ----------------------------
(***************************************************************************)
(* What the IO layer promises to the layer above it: one UDP socket is     *)
(* split into connections, each bound for life to one remote address.  The *)
(* datagrams of a remote are numbered by their arrival at the socket.  A   *)
(* connection receives only datagrams of its own remote, in the order of   *)
(* their arrival, and no datagram is given to two connections or twice to  *)
(* one.  Datagrams may be lost; nothing is promised about which connection *)
(* of a remote gets the next one.                                          *)
(***************************************************************************)
EXTENDS Naturals, Sequences

CONSTANTS
  Remotes,    \* socket addresses of peers
  Conns,      \* connection objects
  None        \* no remote, no connection

VARIABLES
  remote,     \* [Conns -> Remotes \cup {None}]: the address a connection is bound to
  receiver,   \* [Conns -> {"unborn", "open", "dropped"}]
  incoming,   \* [Conns -> Seq(Nat)]: datagrams waiting in a connection
  arrived,    \* [Remotes -> Nat]: datagrams that reached the socket
  last        \* [Remotes -> Nat]: the newest datagram given to a connection

avars == <<remote, receiver, incoming, arrived, last>>

AInit ==
  /\ remote = [c \in Conns |-> None]
  /\ receiver = [c \in Conns |-> "unborn"]
  /\ incoming = [c \in Conns |-> <<>>]
  /\ arrived = [r \in Remotes |-> 0]
  /\ last = [r \in Remotes |-> 0]

\* A connection object comes to life, bound to r.
Open(c, r) ==
  /\ receiver[c] = "unborn"
  /\ receiver' = [receiver EXCEPT ![c] = "open"]
  /\ remote' = [remote EXCEPT ![c] = r]

\* A datagram of r reaches the socket; it may be the one that opens a connection.
Arrive(r) ==
  /\ arrived' = [arrived EXCEPT ![r] = @ + 1]
  /\ \/ \E c \in Conns : Open(c, r)
     \/ UNCHANGED <<remote, receiver>>
  /\ UNCHANGED <<incoming, last>>

\* The local side asks for a connection to r.
Connect(r) ==
  /\ \E c \in Conns : Open(c, r)
  /\ UNCHANGED <<incoming, arrived, last>>

\* A datagram newer than every one delivered so far is given to connection c.
Deliver(c, r) ==
  /\ receiver[c] = "open"
  /\ remote[c] = r
  /\ last[r] < arrived[r]
  /\ \E n \in (last[r] + 1) .. arrived[r] :
       /\ incoming' = [incoming EXCEPT ![c] = Append(@, n)]
       /\ last' = [last EXCEPT ![r] = n]
  /\ UNCHANGED <<remote, receiver, arrived>>

\* The owner of c takes the oldest waiting datagram.
Take(c) ==
  /\ incoming[c] # <<>>
  /\ incoming' = [incoming EXCEPT ![c] = Tail(@)]
  /\ UNCHANGED <<remote, receiver, arrived, last>>

\* Some connections are given up, with whatever is still waiting in them.
Drop(C) ==
  /\ \A c \in C : receiver[c] = "open"
  /\ receiver' = [c \in Conns |-> IF c \in C THEN "dropped" ELSE receiver[c]]
  /\ incoming' = [c \in Conns |-> IF c \in C THEN <<>> ELSE incoming[c]]
  /\ UNCHANGED <<remote, arrived, last>>

ANext ==
  \/ \E r \in Remotes : Arrive(r) \/ Connect(r)
  \/ \E c \in Conns : (\E r \in Remotes : Deliver(c, r)) \/ Take(c)
  \/ \E C \in SUBSET Conns : Drop(C)

ASpec == AInit /\ [][ANext]_avars
=============================================================================
