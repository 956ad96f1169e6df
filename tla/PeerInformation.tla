--------------------------- MODULE PeerInformation ---------------------------
(***************************************************************************)
(* What daemons know of each other (src/src/data/peer_information_base.rs, *)
(* control messages in src/src/network/state.rs and protocol/mod.rs): a    *)
(* daemon tells its relay about itself over each new socket, tells those   *)
(* who connected to it after each round of changes, and answers requests.  *)
(*                                                                         *)
(* A daemon has one socket per address, and a connection is known by the   *)
(* addresses of its ends.  PeerSession has handshakes in detail; what      *)
(* matters of them here is that a socket does not accept a remote that is  *)
(* in its IO map already (the caller waits for ever), that it accepts one  *)
(* at a time (for ever, if the caller is gone), and that a second call     *)
(* over the same addresses ruins the first.  Who accepts knows the caller  *)
(* by its certificate; who calls takes the other end for whom it asked,    *)
(* and nobody checks it.  An address is used once.  Connections do not     *)
(* time out here (TransportConnection): their frames may be lost instead.  *)
(***************************************************************************)
EXTENDS Naturals

CONSTANTS
  Nodes, Addrs, None,
  Owner,     \* Owner[a]: the daemon whose address a is
  Relay,     \* Relay[n]: the relay of n, or None
  Known,     \* Known[n][m]: addresses of m in the configuration of n, right or
             \*   wrong, or None
  First,     \* addresses that are there from the start
  Plans      \* what may happen: the rounds of changes each daemon has (change), pairs
             \*   <<n, m>> such that a client of n sends a frame to m (talk), and such
             \*   that n requests information about m (ask), datagrams lost (lose)

Todo == [change : [Nodes -> Nat], talk : SUBSET (Nodes \X Nodes), ask : SUBSET (Nodes \X Nodes),
         lose : Nat]

ASSUME InformationAssumption ==
  /\ Owner \in [Addrs -> Nodes] /\ Relay \in [Nodes -> Nodes \cup {None}]
  /\ Known \in [Nodes -> [Nodes -> (SUBSET Addrs) \cup {None}]]
  /\ First \subseteq Addrs /\ Plans \subseteq Todo
  /\ None \notin Nodes \cup Addrs

VARIABLES
  sock,      \* sock[a]: "new", "open" (in the map of its daemon), "closing" until
             \*   the UDP read task sees the signal, "closed"
  met,       \* met[a]: remotes in the IO map of the socket
  link,      \* link[a][b]: the connection a opened to b: "none", "hello", "up",
             \*   "spoilt" (called again, by both sides, or a datagram lost)
  asked,     \* asked[a][b]: whom a called at b, the first time
  accepting, \* accepting[b]: whom the accept task serves, and how far it is
  table,     \* table[a][m]: remote address of the inbound connection of m
  wire,      \* frames under way, to the data loop of a socket
  upward,    \* sockets whose data loop waits in upstream.send()
  pib,       \* pib[n][m]: peer information base
  starting,  \* sockets whose relay task has not looked for the relay yet
  calls,     \* the calls of open_connection() that tasks wait for
  round,     \* round[n]: where run() is, with what it publishes
  todo,      \* what is still to happen
  lost       \* history: the pairs of addresses between which a datagram was lost

network == <<met, link, asked, accepting, table>>
sockets == <<sock, starting, round>>
frames == <<wire, upward, lost>>
vars == <<network, sockets, frames, pib, calls, todo>>

Of(n) == {a \in Addrs : Owner[a] = n}
Open(n) == {a \in Of(n) : sock[a] = "open"}
Info(m, addrs) == [kind |-> "info", of |-> m, addrs |-> addrs]
Request(m) == [kind |-> "request", of |-> m]
Data == [kind |-> "data"]
Entry(addrs, via) == [addrs |-> addrs, via |-> via]
Idle == [pc |-> "idle"]

\* my_peer_information()
MyInfo(n) == Info(n, Open(n))

\* The new sockets whose relay task does not end at once, for want of a relay
WithRelay(new) == {a \in new : Relay[Owner[a]] # None}

Init ==
  /\ sock = [a \in Addrs |-> IF a \in First THEN "open" ELSE "new"]
  /\ met = [a \in Addrs |-> {}]
  /\ link = [a \in Addrs |-> [b \in Addrs |-> "none"]]
  /\ asked = [a \in Addrs |-> [b \in Addrs |-> None]]
  /\ accepting = [a \in Addrs |-> Idle]
  /\ table = [a \in Addrs |-> [m \in Nodes |-> None]]
  /\ wire = {} /\ upward = {} /\ lost = {}
  /\ pib = [n \in Nodes |-> [m \in Nodes |->
              IF Known[n][m] = None THEN None ELSE Entry(Known[n][m], None)]]
  /\ starting = WithRelay(First)
  /\ calls = {}
  /\ round = [n \in Nodes |-> Idle]
  /\ todo \in Plans

-----------------------------------------------------------------------------
(* Connections *)

\* The UDP read task of a runs.
Reads(a) == sock[a] \in {"open", "closing"}

\* What a sends to b arrives.
Linked(a, b) == Reads(b) /\ (link[a][b] = "up" \/ link[b][a] = "up")

\* Mutant of TakenFor: the certificate of a caller is not looked at.
TakenForAsked(a, b) == asked[b][a]

\* Whom the read task at b takes a for
TakenFor(a, b) == IF link[b][a] = "up" THEN asked[b][a] ELSE Owner[a]

\* send_data_frame() on the connection of a with b, w being the frames under way.
\* They are datagrams: each may be late or lost.  Two equal ones count as one.
Frame(a, b, msg) == [from |-> a, to |-> b, as |-> TakenFor(a, b), msg |-> msg]
Put(w, a, b, msg) == IF Linked(a, b) THEN w \cup {Frame(a, b, msg)} ELSE w

\* open_connection(), up to its await, by somebody who looks for m at b: the IO map
\* of a gets a new connection for b, and what a had with b is cut off.
Connect(a, b, m) ==
  /\ met' = [met EXCEPT ![a] = @ \cup {b}]
  /\ link' = [link EXCEPT ![b][a] = IF @ = "none" THEN "none" ELSE "spoilt",
                          ![a][b] = IF link[a][b] = "none" THEN "hello" ELSE "spoilt"]
  /\ asked' = [asked EXCEPT ![a][b] = IF link[a][b] = "none" THEN m ELSE @]
  /\ accepting' = [accepting EXCEPT ![a] =
                     IF @ = [pc |-> "handshake", from |-> b] THEN Idle ELSE @]

\* A task waits for the connection from a to b, to send msg over it.  at[1] tells
\* the daemon or socket of the task, at[2] whom the data loop of one answers.
Call(task, at, a, b, msg) == [task |-> task, at |-> at, from |-> a, to |-> b, msg |-> msg]
Waits(task, x) == \E c \in calls : c.task = task /\ c.at[1] = x

\* The handshake is done: the message is sent.  A relay gets what is true now.
Called(c) ==
  /\ c \in calls /\ link[c.from][c.to] = "up"
  /\ wire' = Put(wire, c.from, c.to,
                 IF c.task = "relay" THEN MyInfo(Owner[c.from]) ELSE c.msg)
  /\ calls' = calls \ {c}
  /\ UNCHANGED <<network, sockets, upward, lost, pib, todo>>

\* A call that met another one may fail.
CallFails(c) ==
  /\ c \in calls /\ link[c.from][c.to] = "spoilt"
  /\ calls' = calls \ {c}
  /\ UNCHANGED <<network, sockets, frames, pib, todo>>

Loses(a, b) ==
  /\ todo.lose > 0 /\ todo' = [todo EXCEPT !.lose = @ - 1]
  /\ lost' = lost \cup {<<a, b>>}

\* A datagram of a handshake is lost; there is no timer to repeat it.
HandshakeLost(a, b) ==
  /\ link[a][b] = "hello"
  /\ link' = [link EXCEPT ![a][b] = "spoilt"]
  /\ Loses(a, b)
  /\ UNCHANGED <<met, asked, accepting, table, sockets, wire, upward, pib, calls>>

\* The accept task takes a new remote.
Accept(b, a) ==
  /\ Reads(b) /\ accepting[b] = Idle
  /\ link[a][b] \in {"hello", "spoilt"} /\ a \notin met[b]
  /\ accepting' = [accepting EXCEPT ![b] = [pc |-> "handshake", from |-> a]]
  /\ met' = [met EXCEPT ![b] = @ \cup {a}]
  /\ UNCHANGED <<link, asked, table, sockets, frames, pib, calls, todo>>

\* accept().await, from_tls_stream(): frames flow.
Handshake(b, a) ==
  /\ accepting[b] = [pc |-> "handshake", from |-> a]
  /\ Reads(a) /\ Reads(b) /\ link[a][b] = "hello"
  /\ link' = [link EXCEPT ![a][b] = "up"]
  /\ accepting' = [accepting EXCEPT ![b].pc = "insert"]
  /\ UNCHANGED <<met, asked, table, sockets, frames, pib, calls, todo>>

\* accept().await or the authentication fails: the next one is accepted.
HandshakeFails(b, a) ==
  /\ accepting[b] = [pc |-> "handshake", from |-> a] /\ link[a][b] = "spoilt"
  /\ accepting' = [accepting EXCEPT ![b] = Idle]
  /\ UNCHANGED <<met, link, asked, table, sockets, frames, pib, calls, todo>>

\* connections.insert(), under the lock.  Mutant: it is forgotten.
InsertForgotten(b, a) ==
  /\ accepting[b] = [pc |-> "insert", from |-> a]
  /\ accepting' = [accepting EXCEPT ![b] = Idle]
  /\ UNCHANGED <<met, link, asked, table, sockets, frames, pib, calls, todo>>

Insert(b, a) ==
  /\ accepting[b] = [pc |-> "insert", from |-> a]
  /\ accepting' = [accepting EXCEPT ![b] = Idle]
  /\ table' = [table EXCEPT ![b][Owner[a]] = a]
  /\ UNCHANGED <<met, link, asked, sockets, frames, pib, calls, todo>>

\* get_connection(m) for task, which has msg to send: a connection in a table is
\* used, else one is opened to an address known, or there is none.
Tabled(n, m) == {a \in Open(n) : table[a][m] # None}
KnownAddresses(n, m) == IF pib[n][m] = None THEN {} ELSE pib[n][m].addrs
Contact(w, n, m, task, at, msg) ==
  \/ /\ \E a \in Tabled(n, m) : wire' = Put(w, a, table[a][m], msg)
     /\ UNCHANGED <<met, link, asked, accepting, calls>>
  \/ /\ Tabled(n, m) = {} /\ wire' = w
     /\ \E a \in Open(n), b \in KnownAddresses(n, m) :
          Connect(a, b, m) /\ calls' = calls \cup {Call(task, at, a, b, msg)}
  \/ /\ Tabled(n, m) = {} /\ (Open(n) = {} \/ KnownAddresses(n, m) = {})
     /\ wire' = w
     /\ UNCHANGED <<met, link, asked, accepting, calls>>

-----------------------------------------------------------------------------
(* Rounds and relays *)

\* A round starts with close_stale_sockets(): sockets leave the map, their tables are
\* cleared, their read tasks are told.  Connections and data loops go on.
Close(n) ==
  /\ round[n] = Idle /\ todo.change[n] > 0
  /\ \E gone \in SUBSET Open(n) :
       /\ sock' = [a \in Addrs |-> IF a \in gone THEN "closing" ELSE sock[a]]
       /\ table' = [a \in Addrs |-> IF a \in gone THEN [m \in Nodes |-> None] ELSE table[a]]
  /\ round' = [round EXCEPT ![n] = [pc |-> "open"]]
  /\ todo' = [todo EXCEPT !.change[n] = @ - 1]
  /\ UNCHANGED <<met, link, asked, accepting, starting, frames, pib, calls>>

\* The UDP read task sees the signal, which it may prefer datagrams to.
ReadEnds(a) ==
  /\ sock[a] = "closing"
  /\ sock' = [sock EXCEPT ![a] = "closed"]
  /\ UNCHANGED <<network, starting, round, frames, pib, calls, todo>>

\* open_socket(), which starts the relay task.
OpenSocket(n) ==
  /\ round[n] = [pc |-> "open"]
  /\ \E a \in Of(n) :
       /\ sock[a] = "new"
       /\ sock' = [sock EXCEPT ![a] = "open"]
       /\ starting' = starting \cup WithRelay({a})
  /\ UNCHANGED <<network, round, frames, pib, calls, todo>>

\* publish_addresses(): what is told is made up once, ...
Publishing(info, at) == IF at = {} THEN Idle ELSE [pc |-> "publish", info |-> info, at |-> at]
Publish(n) ==
  /\ round[n] = [pc |-> "open"]
  /\ round' = [round EXCEPT ![n] = Publishing(MyInfo(n), Open(n))]
  /\ UNCHANGED <<network, sock, starting, frames, pib, calls, todo>>

\* ... and sent over the connections in the table of each socket.
PublishAt(n) ==
  /\ round[n].pc = "publish"
  /\ \E a \in round[n].at :
       /\ wire' = wire \cup {Frame(a, b, round[n].info) :
                    b \in {b \in Addrs : Linked(a, b) /\ \E m \in Nodes : table[a][m] = b}}
       /\ round' = [round EXCEPT ![n] = Publishing(@.info, @.at \ {a})]
  /\ UNCHANGED <<network, sock, starting, upward, lost, pib, calls, todo>>

\* connect_to_relays_on_socket(): only if the relay did not connect before.
RelayAddresses(a) ==
  IF Relay[Owner[a]] = None \/ table[a][Relay[Owner[a]]] # None THEN {}
  ELSE KnownAddresses(Owner[a], Relay[Owner[a]])
RelayTask(a) ==
  /\ a \in starting
  /\ starting' = starting \ {a}
  /\ \/ \E b \in RelayAddresses(a) :
          /\ Connect(a, b, Relay[Owner[a]])
          /\ calls' = calls \cup {Call("relay", <<a>>, a, b, Data)}
     \/ RelayAddresses(a) = {} /\ UNCHANGED <<met, link, asked, accepting, calls>>
  /\ UNCHANGED <<table, sock, round, frames, pib, todo>>

-----------------------------------------------------------------------------
(* Messages *)

\* A frame is lost on its way.
Lose(f) ==
  /\ f \in wire
  /\ wire' = wire \ {f}
  /\ Loses(f.from, f.to)
  /\ UNCHANGED <<network, sockets, upward, pib, calls>>

\* Mutants of HandleInfo: whoever sends it; only if nothing is known.
HandleInfoOfAll(f) ==
  /\ f.msg.kind = "info"
  /\ pib' = [pib EXCEPT ![Owner[f.to]][f.msg.of] = Entry(f.msg.addrs, <<f.from, f.to>>)]
  /\ wire' = wire \ {f}
  /\ UNCHANGED <<met, link, asked, accepting, calls, upward>>
HandleInfoIfVacant(f) ==
  /\ f.msg.kind = "info"
  /\ pib' = IF f.msg.of = f.as /\ pib[Owner[f.to]][f.msg.of] = None
            THEN [pib EXCEPT ![Owner[f.to]][f.msg.of] = Entry(f.msg.addrs, <<f.from, f.to>>)]
            ELSE pib
  /\ wire' = wire \ {f}
  /\ UNCHANGED <<met, link, asked, accepting, calls, upward>>

\* process_control_message(): information is stored if it is about the one the
\* sender is taken for.
HandleInfo(f) ==
  /\ f.msg.kind = "info"
  /\ pib' = IF f.msg.of = f.as
            THEN [pib EXCEPT ![Owner[f.to]][f.msg.of] = Entry(f.msg.addrs, <<f.from, f.to>>)]
            ELSE pib
  /\ wire' = wire \ {f}
  /\ UNCHANGED <<met, link, asked, accepting, calls, upward>>

\* A request is answered with what is known, whoever is the subject.
HandleRequest(f) ==
  /\ f.msg.kind = "request"
  /\ LET n == Owner[f.to]
         known == pib[n][f.msg.of]
     IN  IF known = None THEN wire' = wire \ {f} /\ UNCHANGED <<met, link, asked, accepting, calls>>
         ELSE Contact(wire \ {f}, n, f.as, "loop", <<f.to, f.from>>, Info(f.msg.of, known.addrs))
  /\ UNCHANGED <<pib, upward>>

\* A client's frame goes up: upstream.send().await
HandleData(f) ==
  /\ f.msg.kind = "data"
  /\ wire' = wire \ {f}
  /\ upward' = upward \cup {f.to}
  /\ UNCHANGED <<met, link, asked, accepting, calls, pib>>

\* The data loop of a socket, closed or not: deliver_frame()
DataLoop(f) ==
  /\ f \in wire /\ f.to \notin upward /\ ~ Waits("loop", f.to)
  /\ HandleInfo(f) \/ HandleRequest(f) \/ HandleData(f)
  /\ UNCHANGED <<table, sockets, lost, todo>>

\* There is room upstream.
GoesUp(a) ==
  /\ a \in upward
  /\ upward' = upward \ {a}
  /\ UNCHANGED <<network, sockets, wire, lost, pib, calls, todo>>

\* send_frame() for a client
Talk(n, m) ==
  /\ <<n, m>> \in todo.talk /\ ~ Waits("pump", n)
  /\ todo' = [todo EXCEPT !.talk = @ \ {<<n, m>>}]
  /\ Contact(wire, n, m, "pump", <<n>>, Data)
  /\ UNCHANGED <<table, sockets, upward, lost, pib>>

\* request_peer_info(): the subject's relay is asked, if both are known.
Ask(n, m) ==
  /\ <<n, m>> \in todo.ask /\ pib[n][m] # None /\ Relay[m] # None
  /\ todo' = [todo EXCEPT !.ask = @ \ {<<n, m>>}]
  /\ Contact(wire, n, Relay[m], "asker", <<n>>, Request(m))
  /\ UNCHANGED <<table, sockets, upward, lost, pib>>

-----------------------------------------------------------------------------

Next ==
  \/ \E c \in calls : Called(c) \/ CallFails(c)
  \/ \E a \in Addrs : RelayTask(a) \/ ReadEnds(a) \/ GoesUp(a)
  \/ \E a, b \in Addrs :
       HandshakeLost(a, b) \/ Accept(a, b) \/ Handshake(a, b) \/ HandshakeFails(a, b) \/ Insert(a, b)
  \/ \E f \in wire : Lose(f) \/ DataLoop(f)
  \/ \E n \in Nodes : Close(n) \/ OpenSocket(n) \/ Publish(n) \/ PublishAt(n)
  \/ \E n, m \in Nodes : Talk(n, m) \/ Ask(n, m)

Spec == Init /\ [][Next]_vars

\* The tasks run when they can.  Changes and clients are up to others; a call that
\* met another one, and upstream.send(), may hang; a closed socket may read or not.
\* Rounds and clients' frames being bounded, it is enough that a task of each kind runs.
Serve(b, a) ==
  \/ sock[b] = "open" /\ Accept(b, a)
  \/ sock[b] = "open" /\ sock[a] = "open" /\ Handshake(b, a)
  \/ Insert(b, a)
Fairness ==
  /\ WF_vars(\E c \in calls : Called(c))
  /\ WF_vars(\E a \in Addrs : RelayTask(a))
  /\ WF_vars(\E a, b \in Addrs : Serve(b, a))
  /\ WF_vars(\E f \in wire : DataLoop(f))

FairSpec == Spec /\ Fairness

-----------------------------------------------------------------------------
(* Properties *)

Message ==
  [kind : {"info"}, of : Nodes, addrs : SUBSET Addrs]
    \cup [kind : {"request"}, of : Nodes] \cup [kind : {"data"}]
Frames == [from : Addrs, to : Addrs, as : Nodes, msg : Message]
Entries == [addrs : SUBSET Addrs, via : {None} \cup (Addrs \X Addrs)]

\* Type invariant: whoever a frame comes from, it is taken for some daemon's.
TypeOK ==
  /\ sock \in [Addrs -> {"new", "open", "closing", "closed"}]
  /\ met \in [Addrs -> SUBSET Addrs]
  /\ link \in [Addrs -> [Addrs -> {"none", "hello", "up", "spoilt"}]]
  /\ asked \in [Addrs -> [Addrs -> Nodes \cup {None}]]
  /\ accepting \in
       [Addrs -> {Idle} \cup [pc : {"handshake", "insert"}, from : Addrs]]
  /\ table \in [Addrs -> [Nodes -> Addrs \cup {None}]]
  /\ wire \subseteq Frames
  /\ upward \subseteq Addrs /\ lost \subseteq Addrs \X Addrs
  /\ pib \in [Nodes -> [Nodes -> {None} \cup Entries]]
  /\ starting \subseteq Addrs
  /\ \A c \in calls : c.from \in Addrs /\ c.to \in Addrs /\ c.msg \in Message
  /\ round \in [Nodes -> {Idle, [pc |-> "open"]}
                  \cup [pc : {"publish"}, info : Message, at : SUBSET Addrs]]
  /\ todo \in Todo

\* What a daemon learns of m comes from m itself, never from a relay that was asked
\* (state.rs:252), unless the daemon called m at an address that is another's:
\* open_connection() does not check who answers (transport/socket.rs:149).
FirstHand ==
  [][\A n, m \in Nodes : pib'[n][m] # pib[n][m] =>
       LET from == pib'[n][m].via[1]
           at == pib'[n][m].via[2]
       IN  Owner[from] = m \/ asked[at][from] = m]_vars

\* The data loop of a socket performs a handshake, and delivers nothing meanwhile
\* (state.rs:262), only in one of three cases: its daemon called the other one itself;
\* the accept task has not put the connection into the table yet; the socket was
\* closed, and its table cleared, before the request was handled.
LoopCallsOnlyUntabled ==
  [][\A c \in calls' \ calls : c.task = "loop" =>
       LET a == c.at[1]
           b == c.at[2]
       IN  \/ link[a][b] # "none"
           \/ accepting[a] = [pc |-> "insert", from |-> b]
           \/ sock[a] \in {"closing", "closed"}]_vars

\* The accept task of b waits for one who is gone, lost or has begun anew.
AcceptStuck(b) ==
  /\ accepting[b].pc = "handshake"
  /\ sock[accepting[b].from] # "open" \/ link[accepting[b].from][b] # "hello"

\* The data loop of b waits for room upstream, or for a connection its callee will
\* not accept.
LoopStuck(b) ==
  \/ b \in upward
  \/ \E c \in calls :
       /\ c.task = "loop" /\ c.at[1] = b
       /\ link[c.from][c.to] = "spoilt" \/ c.from \in met[c.to] \/ sock[c.to] # "open"

\* A new socket is made known to the relay (state.rs:131-134, 173-200), unless a task
\* of the relay is stuck for good, either socket is closed, the relay calls it, its
\* own daemon calls the relay again over it, or a datagram is lost.
RelayInformed ==
  \A a \in Addrs : \A b \in Of(Relay[Owner[a]]) :
    LET n == Owner[a]
        relay == Relay[n]
    IN  \/ <>[]AcceptStuck(b) \/ <>[]LoopStuck(b)
        \/ (a \in starting /\ KnownAddresses(n, relay) = {b}) ~>
             \/ sock[a] # "open" \/ sock[b] # "open"
             \/ a \in KnownAddresses(relay, n) /\ pib[relay][n].via # None
             \/ link[b][a] # "none" \/ link[a][b] = "spoilt" \/ <<a, b>> \in lost
=============================================================================
