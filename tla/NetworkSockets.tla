--------------------------- MODULE NetworkSockets ---------------------------
(***************************************************************************)
(* One UDP socket per interface address (src/src/network/state.rs), kept   *)
(* up to date by the stream of network changes, which is debounced         *)
(* (src/src/network/change/debounce.rs).                                   *)
(*                                                                         *)
(* One task discovers the addresses, closes the sockets whose address is   *)
(* gone and opens the new ones.  Closing only asks: the UDP socket, and    *)
(* with it the port, is released when the last holder lets go of it.       *)
(* Holders are the map, the read task, the accept task                     *)
(* (src/src/network/transport/socket.rs), the task that connects to        *)
(* relays, the task that sends frames and dials, and the tasks of every    *)
(* established connection.  A handshake that waits for a datagram holds    *)
(* the socket without limit.                                               *)
(***************************************************************************)
EXTENDS Naturals, FiniteSets

CONSTANTS
  Addrs,       \* addresses an interface may have, with the daemon's port
  Socks,       \* sockets; bounds how many are ever opened
  None,
  AcceptCap,   \* channel::<Connection>(10)
  MaxLinks,    \* bound on the established connections of a socket
  MaxChanges,  \* bound on the changes of the interfaces
  MaxUnserved, \* bound on the sockets whose acceptor cannot be built
  MayFail      \* discovery, listen(), the change stream and recv_from() may fail

ASSUME NetworkAssumption ==
  /\ None \notin Addrs \cup Socks
  /\ AcceptCap \in Nat \ {0}
  /\ MaxLinks \in Nat /\ MaxChanges \in Nat /\ MaxUnserved \in Nat
  /\ MayFail \in BOOLEAN

VARIABLES
  present,   \* the addresses interfaces have now
  changes,   \* number of changes so far
  unread,    \* items of the change stream to come: notifications or an error
  listening, \* "no" until listen() has bound the netlink socket, "ended" after
             \*   an error of it
  window,    \* Debounce: "open" within 2 s of last_timestamp, else "past"
  pc,        \* observing task: "discover", "close", "open", "listen", "poll", "asleep",
             \*   "stopped" (run() is over), "spin" (poll_next() does not return)
  found,     \* the addresses of the last discovery
  todo,      \* new addresses not opened yet
  sockets,   \* NetworkState.sockets
  address,   \* the address a socket was opened on, None before
  closed,    \* sockets close() was called for
  io,        \* read task of the UDP socket: "up", "handoff", "done"
  waiting,   \* connections in the accept queue
  accept,    \* accept task: "idle", "handshake", "done", "none" if it was not started
  relay,     \* connect_to_relays_on_socket(): "handshake", "done"
  dialer,    \* the socket the sending task opens a connection on, or None
  links,     \* established connections whose tasks run
  failed,    \* history: addresses that could not be opened in this round
  lost       \* history: "yes" when a change since the last discovery went
             \*   unnoticed

world == <<present, changes>>
observer == <<unread, listening, window, pc, found, todo, lost>>
life == <<io, waiting, accept, relay, dialer, links>>
vars == <<world, observer, sockets, address, closed, life, failed>>

Init ==
  /\ present \in SUBSET Addrs /\ changes = 0
  /\ unread = 0 /\ listening = "no" /\ window = "open"
  /\ pc = "discover" /\ found = {} /\ todo = {}
  /\ sockets = [a \in Addrs |-> None]
  /\ address = [s \in Socks |-> None]
  /\ closed = {}
  /\ io = [s \in Socks |-> "done"]
  /\ waiting = [s \in Socks |-> 0]
  /\ accept = [s \in Socks |-> "done"]
  /\ relay = [s \in Socks |-> "done"]
  /\ dialer = None
  /\ links = [s \in Socks |-> 0]
  /\ failed = {} /\ lost = "no"

\* The addresses with a socket in the map.
Opened == {a \in Addrs : sockets[a] # None}

\* Something still refers to the UDP socket of s: the port is taken.
Bound(s) ==
  /\ address[s] # None
  /\ \/ \E a \in Addrs : sockets[a] = s
     \/ io[s] # "done" \/ accept[s] \in {"idle", "handshake"} \/ relay[s] # "done"
     \/ dialer = s \/ links[s] > 0

-----------------------------------------------------------------------------
(* The machine *)

\* An interface gains or loses an address; the kernel notifies a bound socket.
Change(a) ==
  /\ changes < MaxChanges
  /\ changes' = changes + 1
  /\ present' = IF a \in present THEN present \ {a} ELSE present \cup {a}
  /\ unread' = IF listening = "yes" THEN unread + 1 ELSE unread
  /\ lost' = IF listening # "yes" /\ pc # "discover" THEN "yes" ELSE lost
  /\ UNCHANGED <<listening, window, pc, found, todo, sockets, address, closed, life, failed>>

\* Reading the netlink socket fails, as it does when its buffer overflows.  The
\* stream has one item for the error, and none for what is unread, and ends.
\* Mutant: there is no item for the error.
StreamEndsAtOnce ==
  /\ MayFail /\ listening = "yes"
  /\ listening' = "ended" /\ unread' = 0
  /\ UNCHANGED <<world, window, pc, found, todo, lost, sockets, address, closed, life, failed>>

StreamFails ==
  /\ MayFail /\ listening = "yes"
  /\ listening' = "ended" /\ unread' = 1
  /\ UNCHANGED <<world, window, pc, found, todo, lost, sockets, address, closed, life, failed>>

WindowPasses ==
  /\ listening # "no" /\ window = "open"
  /\ window' = "past"
  /\ UNCHANGED <<world, unread, listening, pc, found, todo, lost, sockets, address,
                 closed, life, failed>>

-----------------------------------------------------------------------------
(* open_new_sockets() *)

AfterRound == IF listening = "no" THEN "listen" ELSE "poll"

Discover ==
  /\ pc = "discover"
  /\ found' = present
  /\ pc' = "close"
  /\ lost' = "no"
  /\ UNCHANGED <<world, unread, listening, window, todo, sockets, address, closed, life, failed>>

DiscoverFails ==
  /\ MayFail /\ pc = "discover"
  /\ pc' = AfterRound
  /\ lost' = IF found # present THEN "yes" ELSE lost
  /\ UNCHANGED <<world, unread, listening, window, found, todo, sockets, address,
                 closed, life, failed>>

\* Mutant of CloseStale: the socket is closed but stays in the map.
CloseStaleKeeps(a) ==
  /\ pc = "close" /\ sockets[a] # None /\ a \notin found
  /\ sockets[a] \notin closed
  /\ closed' = closed \cup {sockets[a]}
  /\ UNCHANGED <<world, observer, sockets, address, life, failed>>

\* close_stale_sockets() takes one stale socket out of the map and closes it.
CloseStale(a) ==
  /\ pc = "close" /\ sockets[a] # None /\ a \notin found
  /\ closed' = closed \cup {sockets[a]}
  /\ sockets' = [sockets EXCEPT ![a] = None]
  /\ UNCHANGED <<world, observer, address, life, failed>>

\* Mutant of StaleClosed: stale sockets are left for the next round.
StaleClosedEarly ==
  /\ pc = "close"
  /\ todo' = {a \in found : sockets[a] = None}
  /\ failed' = {}
  /\ pc' = "open"
  /\ UNCHANGED <<world, unread, listening, window, found, lost, sockets, address, closed, life>>

\* No stale socket is left; what has no socket is new.
StaleClosed ==
  /\ pc = "close"
  /\ \A a \in Addrs : sockets[a] # None => a \in found
  /\ todo' = {a \in found : sockets[a] = None}
  /\ failed' = {}
  /\ pc' = "open"
  /\ UNCHANGED <<world, unread, listening, window, found, lost, sockets, address, closed, life>>

CanBind(a) == a \in present /\ \A s \in Socks : address[s] = a => ~ Bound(s)

\* Sockets are interchangeable: a new one is any that was never opened.
Unused == {s \in Socks : address[s] = None}
New == CHOOSE s \in Unused : TRUE

\* open_socket(): bind, then the accept task, the map, the relay task, which
\* ends at once when there is no relay to connect to.
OpenSocket(a) ==
  /\ pc = "open" /\ a \in todo /\ CanBind(a) /\ Unused # {}
  /\ todo' = todo \ {a}
  /\ address' = [address EXCEPT ![New] = a]
  /\ sockets' = [sockets EXCEPT ![a] = New]
  /\ io' = [io EXCEPT ![New] = "up"]
  /\ accept' = [accept EXCEPT ![New] = "idle"]
  /\ \E r \in {"handshake", "done"} : relay' = [relay EXCEPT ![New] = r]
  /\ UNCHANGED <<world, unread, listening, window, pc, found, lost, closed, waiting,
                 dialer, links, failed>>

\* The address is gone already, or its port is not released yet.
OpenFails(a) ==
  /\ pc = "open" /\ a \in todo /\ ~ CanBind(a)
  /\ todo' = todo \ {a}
  /\ failed' = failed \cup {a}
  /\ UNCHANGED <<world, unread, listening, window, pc, found, lost, sockets, address,
                 closed, life>>

\* The sockets without an accept task.
Unserved == {s \in Socks : accept[s] = "none"}

\* The port is bound and the read task started, but acceptor_for_id() fails: the
\* socket is in no map and nobody can close it; its read task goes on.
OpenUnserved(a) ==
  /\ MayFail /\ Cardinality(Unserved) < MaxUnserved
  /\ pc = "open" /\ a \in todo /\ CanBind(a) /\ Unused # {}
  /\ todo' = todo \ {a}
  /\ failed' = failed \cup {a}
  /\ address' = [address EXCEPT ![New] = a]
  /\ io' = [io EXCEPT ![New] = "up"]
  /\ accept' = [accept EXCEPT ![New] = "none"]
  /\ UNCHANGED <<world, unread, listening, window, pc, found, lost, sockets, closed, waiting,
                 relay, dialer, links>>

\* publish_addresses() ends the round.
Publish ==
  /\ pc = "open" /\ todo = {}
  /\ pc' = AfterRound
  /\ UNCHANGED <<world, unread, listening, window, found, todo, lost, sockets, address,
                 closed, life, failed>>

-----------------------------------------------------------------------------
(* observe_network_changes() *)

\* listen(): the netlink socket is bound after the first round.
Listen ==
  /\ pc = "listen"
  /\ listening' = "yes"
  /\ window' = "open"
  /\ pc' = "poll"
  /\ UNCHANGED <<world, unread, found, todo, lost, sockets, address, closed, life, failed>>

\* It cannot be bound: run() ends with a warning, and no change is noticed.
ListenFails ==
  /\ MayFail /\ pc = "listen"
  /\ pc' = "stopped"
  /\ UNCHANGED <<world, unread, listening, window, found, todo, lost, sockets, address,
                 closed, life, failed>>

\* Debounce::poll_next() past the window: the timestamp is reset, whether or
\* not there is a notification.  The end of the stream ends the loop.
PollPast ==
  /\ pc = "poll" /\ window = "past"
  /\ window' = "open"
  /\ unread' = IF unread > 0 THEN unread - 1 ELSE 0
  /\ pc' = IF unread > 0 THEN "discover"
           ELSE IF listening = "ended" THEN "stopped" ELSE "asleep"
  /\ UNCHANGED <<world, listening, found, todo, lost, sockets, address, closed, life, failed>>

\* Mutant of PollWithin: the end of the stream is taken for Pending.
PollWithinSleeps ==
  /\ pc = "poll" /\ window = "open"
  /\ unread' = 0
  /\ pc' = "asleep"
  /\ lost' = IF unread > 0 THEN "yes" ELSE lost
  /\ UNCHANGED <<world, listening, window, found, todo, sockets, address, closed, life, failed>>

\* Within the window every notification is swallowed, and the end of the stream
\* again and again.
PollWithin ==
  /\ pc = "poll" /\ window = "open"
  /\ unread' = 0
  /\ pc' = IF listening = "ended" THEN "spin" ELSE "asleep"
  /\ lost' = IF unread > 0 THEN "yes" ELSE lost
  /\ UNCHANGED <<world, listening, window, found, todo, sockets, address, closed, life, failed>>

\* An item of the stream wakes the task.
Wake ==
  /\ pc = "asleep" /\ unread > 0
  /\ pc' = "poll"
  /\ UNCHANGED <<world, unread, listening, window, found, todo, lost, sockets, address,
                 closed, life, failed>>

Observe ==
  \/ Discover \/ DiscoverFails \/ StaleClosed \/ Publish
  \/ \E a \in Addrs : CloseStale(a) \/ OpenSocket(a) \/ OpenFails(a) \/ OpenUnserved(a)
  \/ Listen \/ ListenFails \/ PollPast \/ PollWithin \/ Wake

-----------------------------------------------------------------------------
(* The life of a socket *)

fixed == <<world, observer, sockets, address, closed, failed>>

\* The read task makes a connection for an unknown remote and hands it off.
Hello(s) ==
  /\ io[s] = "up"
  /\ io' = [io EXCEPT ![s] = "handoff"]
  /\ UNCHANGED <<fixed, waiting, accept, relay, dialer, links>>

Handoff(s) ==
  /\ io[s] = "handoff" /\ waiting[s] < AcceptCap /\ accept[s] # "none"
  /\ io' = [io EXCEPT ![s] = "up"]
  /\ waiting' = [waiting EXCEPT ![s] = @ + 1]
  /\ UNCHANGED <<fixed, accept, relay, dialer, links>>

\* There is no accept task: the hand-off fails, and the read task ends.
HandoffFails(s) ==
  /\ io[s] = "handoff" /\ accept[s] = "none"
  /\ io' = [io EXCEPT ![s] = "done"]
  /\ UNCHANGED <<fixed, waiting, accept, relay, dialer, links>>

\* The select in the read task sees the close signal, or recv_from() fails.
ReadEnds(s) ==
  /\ io[s] = "up" /\ (MayFail \/ s \in closed)
  /\ io' = [io EXCEPT ![s] = "done"]
  /\ UNCHANGED <<fixed, waiting, accept, relay, dialer, links>>

AcceptNext(s) ==
  /\ accept[s] = "idle" /\ waiting[s] > 0
  /\ accept' = [accept EXCEPT ![s] = "handshake"]
  /\ waiting' = [waiting EXCEPT ![s] = @ - 1]
  /\ UNCHANGED <<fixed, io, relay, dialer, links>>

\* A handshake on s fails, or there is one more connection.
HandshakeEnds(s) ==
  \/ UNCHANGED links
  \/ links[s] < MaxLinks /\ links' = [links EXCEPT ![s] = @ + 1]

Accepted(s) ==
  /\ accept[s] = "handshake" /\ HandshakeEnds(s)
  /\ accept' = [accept EXCEPT ![s] = "idle"]
  /\ UNCHANGED <<fixed, io, waiting, relay, dialer>>

\* Mutant of AcceptEnds: the accept task waits on although its queue is closed.
AcceptEndsNever(s) ==
  /\ accept[s] = "idle" /\ waiting[s] = 0 /\ io[s] = "done" /\ s \notin closed
  /\ accept' = [accept EXCEPT ![s] = "done"]
  /\ UNCHANGED <<fixed, io, waiting, relay, dialer, links>>

\* incomming_connections.recv() returns None.
AcceptEnds(s) ==
  /\ accept[s] = "idle" /\ waiting[s] = 0 /\ io[s] = "done"
  /\ accept' = [accept EXCEPT ![s] = "done"]
  /\ UNCHANGED <<fixed, io, waiting, relay, dialer, links>>

RelayConnected(s) ==
  /\ relay[s] = "handshake" /\ HandshakeEnds(s)
  /\ relay' = [relay EXCEPT ![s] = "done"]
  /\ UNCHANGED <<fixed, io, waiting, accept, dialer>>

\* connect_with_address() takes any socket of the map.
Dial(a) ==
  /\ dialer = None /\ sockets[a] # None
  /\ dialer' = sockets[a]
  /\ UNCHANGED <<fixed, io, waiting, accept, relay, links>>

Dialled ==
  /\ dialer # None /\ HandshakeEnds(dialer)
  /\ dialer' = None
  /\ UNCHANGED <<fixed, io, waiting, accept, relay>>

\* The tasks of a connection end: at the latest when nothing has been read for
\* 20 seconds.
LinkEnds(s) ==
  /\ links[s] > 0
  /\ links' = [links EXCEPT ![s] = @ - 1]
  /\ UNCHANGED <<fixed, io, waiting, accept, relay, dialer>>

Live(s) ==
  \/ Hello(s) \/ Handoff(s) \/ HandoffFails(s) \/ ReadEnds(s)
  \/ AcceptNext(s) \/ Accepted(s) \/ AcceptEnds(s)
  \/ RelayConnected(s) \/ LinkEnds(s)

Next ==
  \/ \E a \in Addrs : Change(a) \/ Dial(a)
  \/ StreamFails \/ WindowPasses \/ Observe \/ Dialled
  \/ \E s \in Socks : Live(s)

Spec == Init /\ [][Next]_vars

\* Tasks run when they can and time passes.  Nothing is assumed of peers, a
\* handshake may wait for ever, nor of connections: they may last.
Fairness ==
  /\ WF_vars(Observe) /\ WF_vars(WindowPasses)
  /\ \A s \in Socks :
       /\ WF_vars(Handoff(s)) /\ WF_vars(HandoffFails(s))
       /\ WF_vars(AcceptNext(s)) /\ WF_vars(AcceptEnds(s))
       /\ SF_vars(s \in closed /\ ReadEnds(s))

FairSpec == Spec /\ Fairness

-----------------------------------------------------------------------------
(* Properties *)

\* Type invariant.  Sockets in the map were opened on the address they are
\* listed under, and have not been closed.
TypeOK ==
  /\ present \subseteq Addrs /\ changes \in 0 .. MaxChanges
  /\ unread \in Nat /\ listening \in {"no", "yes", "ended"} /\ window \in {"open", "past"}
  /\ pc \in {"discover", "close", "open", "listen", "poll", "asleep", "stopped", "spin"}
  /\ found \subseteq Addrs /\ todo \subseteq found /\ failed \subseteq Addrs
  /\ sockets \in [Addrs -> Socks \cup {None}]
  /\ address \in [Socks -> Addrs \cup {None}]
  /\ closed \subseteq Socks
  /\ \A a \in Addrs : sockets[a] # None =>
       address[sockets[a]] = a /\ sockets[a] \notin closed
  /\ io \in [Socks -> {"up", "handoff", "done"}]
  /\ waiting \in [Socks -> 0 .. AcceptCap]
  /\ accept \in [Socks -> {"idle", "handshake", "done", "none"}]
  /\ relay \in [Socks -> {"handshake", "done"}]
  /\ dialer \in Socks \cup {None}
  /\ links \in [Socks -> 0 .. MaxLinks]
  /\ lost \in {"no", "yes"}

\* Between two rounds there is a socket exactly for the addresses found in the
\* last one, but for those whose port could not be bound or served.
Reconciled ==
  pc \in {"poll", "asleep", "stopped", "spin"} => Opened = found \ failed

\* A closed socket whose read task ended while no handshake was under way gives
\* its port back when its connections have ended.  They time out without input,
\* unless the data loop waits for ever and with it their read tasks.
IdleReleased ==
  \A s \in Socks :
    \/ <>[](links[s] > 0)
    \/ /\ s \in closed /\ io[s] = "done" /\ accept[s] # "handshake" /\ waiting[s] = 0
       /\ relay[s] = "done" /\ dialer # s
       ~> ~ Bound(s)

\* A change of the interfaces leads to a new discovery, unless its notification
\* fell into the debounce window or came before listen(), discovery failed, or
\* run() has ended.
\* An error of the netlink socket (rtnetlink_socket.rs:58) makes up for the
\* notifications it loses, since it counts as one; only later changes are missed.
NoticedUnlessLost == found # present ~> found = present \/ lost = "yes"

\* The task that observes changes does not outlive the change stream unnoticed:
\* run() ends, or poll_next() never returns (debounce.rs:41), which takes a worker
\* thread of the runtime.
EndSeen == listening = "ended" ~> pc \in {"stopped", "spin"}
=============================================================================
