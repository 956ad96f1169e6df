# A verification project for UIP

UIP is a daemon (`uipd`) that carries frames between programs on different
machines.  Local programs reach it over a Unix control socket; daemons reach each
other over DTLS on UDP, identified by the hash of a public key.  This directory
holds TLA+ models of the daemon, TLC configurations that check them on small
instances, and proofs that TLAPS checks.  Paths below are relative to `src/src/`.

## The system

| component | source | state | operations |
|---|---|---|---|
| IO socket | `network/io/` | map from remote address to the sender of a bounded channel; one read task; accept queue | `bind`, read loop, `forward_or_new_connection`, `connect`, `close`, `poll_read`, `poll_write` |
| Transport connection | `network/transport/connection.rs` | frame channel (the sink), close watch; read, write and ping task | `from_tls_stream`, `send_frame`, `send_data_frame`, control messages |
| Transport codec | `network/transport/codec.rs` | none; the buffer is FramedRead's | `encode`, `decode` |
| Transport socket | `network/transport/socket.rs` | table of inbound connections; accept task | `open`, accept loop, `close`, `get_connection`, `open_connection` |
| Network state | `network/state.rs` | sockets by address, peer information, relays | rounds of discovery, `send_frame`, `get_connection`, `deliver_frame`, control messages |
| Change stream | `network/change/` | debounce timestamp | `listen`, `Debounce::poll_next` |
| Unix state | `unix/state.rs` | map from port to the channel of a client; read and write task per client | accept loop, `handle_new_stream`, `send_frame`, `deliver_frame` |
| Unix codec | `unix/codec.rs` | none | `encode`, `decode` |
| Daemon | `bin/uipd.rs` | two channels of capacity 5, two forwarding tasks | start, forwarding, saving the configuration at exit |
| Client | `bin/uipcat.rs` | none | listen, send |
| Data | `data/`, `configuration.rs` | peer information base, identity | look up, add, serialise |
| Shared lock | `utils.rs` | one std `RwLock` per shared object | `read`, `write` |
| RPC | `rpc/` | none | a stub that nothing starts |

A frame from a client goes client, Unix read task, channel, forwarding task,
`NetworkState::send_frame`, sink of a connection, write task, DTLS, UDP; at the other
end UDP, IO read task, channel of an IO connection, DTLS, read task, data loop of the
socket, `NetworkState::deliver_frame`, channel, forwarding task,
`UnixState::deliver_frame`, write task, client.  Every arrow is a bounded channel or a
lock, every box a tokio task, and the runtime has several threads: between two awaits,
and between two statements that use shared state, other tasks run.

What is hard in this code:

* state that is read before an await and used after it (`forward_or_new_connection`,
  `deliver_frame`, `get_connection`);
* entries that outlive what they refer to (the IO map, the table of connections, the
  ports of clients);
* tasks that end by three different signals (channel, watch, silence of the peer);
* waits without a timeout (handshakes, sends into full channels, the first frame of a
  client, a client that does not read), and what they hold meanwhile;
* timers (20 s read timeout, 15 s ping interval, 2 s debounce window);
* restarts, address changes and simultaneous calls.

`PROJECT.json` lists these hazards line by line, with the properties that watch them.

## What makes each component correct

* IO socket: a datagram reaches at most one connection, of its own remote, in order;
  `connect()` decides where datagrams go; an inbound connection is announced once and
  with its first datagram; a remote is never cut off for good, and only a connection
  that its owner never reads holds up the others for good.
* Transport connection: no spurious timeout; all three tasks, at both ends, end when
  one does.
* Codecs: what is decoded is what was encoded, however the stream is cut.
* Transport socket and network state: a frame is delivered at most once; an inbound
  connection is found for the answers; a send comes back; dead connections are
  forgotten; sockets follow the interfaces and release their ports.
* Peer information: it is first-hand, and the relay knows the sockets of those who use
  it.
* Unix state: a port has one client; the one it replaces is cut off; delivery stops for
  good only at a client that does not read; data that is taken is forwarded.
* Daemon: identity and knowledge survive its lives; its control socket can be reached.
* Locks: the tasks never wait for each other in a circle.

## Modules

| module | models | checked by | proofs |
|---|---|---|---|
| `DatagramDemux` | abstract: what the IO layer promises | refinement, in `IoSocket.cfg` | `IoSocketProofs` |
| `IoSocket` | `network/io/socket.rs`, `connection.rs` | `IoSocket.cfg` | `IoSocketProofs` |
| `AcceptTask` | the same, with the accept task of `network/transport/socket.rs` | `IoSocket.cfg` | `IoSocketProofs` |
| `TransportConnection` | `network/transport/connection.rs`, both ends | `TransportConnection.cfg` | `TransportConnectionProofs` |
| `PeerSession` | handshakes and connection tables of several daemons | `PeerSession.cfg`, `PeerSessionFirst.cfg`, `PeerSessionSecond.cfg` | `PeerSessionProofs` |
| `PeerInformation` | control messages, rounds and relays of several daemons | `PeerInformation.cfg` | `PeerInformationProofs` |
| `NetworkSockets` | rounds of `network/state.rs`, debounce, release of ports | `NetworkSockets.cfg` | `NetworkSocketsProofs` |
| `UnixState` | `unix/state.rs`, forwarding tasks of `uipd.rs`, clients | `UnixState.cfg`, `UnixStateCaller.cfg` | `UnixStateProofs` |
| `Daemon` | the lives of `uipd`: configuration and control socket file | `Daemon.cfg` | `DaemonProofs` |
| `SharedLock` | `utils.rs` and the guards every operation takes | `SharedLock.cfg` | `SharedLockProofs` |
| `FrameCodec` | `network/transport/codec.rs`, `unix/codec.rs` | `FrameCodec.cfg` | `TransportConnectionProofs` |

`AcceptTask` composes `IoSocket` with its largest user and implements it; `IoSocket`
implements `DatagramDemux`.  `SharedLock` looks at the operations of all components
from the side of their locks, which the others take to be instantaneous.

The `MC*` modules only give the constants values.  Operators introduced as a *mutant*
in the modules are the mistakes the properties were tried against; `PROJECT.json` says
which property finds which.

### IoSocket and AcceptTask

The read task is split at every point where another task can run: `Receive` (datagram
and lookup), `Forward` or `Discard` (the send succeeds or fails), `Insert` (the
write-back), `Handoff` or, when the accept queue is gone, `HandoffFails`, which ends the
task.  `StartAcceptor` and `FailAcceptor` are the rest of `open()` in
`network/transport/socket.rs`: the read task runs before the acceptor is built, and goes
on when that fails.  `Connect` and `Close` are the methods other tasks call; `Accept`,
`Read` and `DropConnection` are the owners of connections.  Datagrams are numbers in the
order of their arrival.  `latest`, `raced`, `inbound` and `forwarded` are history.

`AcceptTask` says who the owners are: the accept task takes connections off the queue one
by one and reads only the one it serves; every other connection has an owner that may
read it or not.  A handshake ends, either way, after any datagram or waits for ever.

`IoSocket.cfg`: two remotes, three connections, channels and accept queue of one, two
datagrams per remote.  That is enough for a full channel, a full queue behind a handshake
(the two remotes), a connection replaced, and a race of `connect()` with each step of the
read task.  The proofs cover all numbers.  Three exceptions are facts of the code:

* `ConnectWinsUnlessRaced`: the write-back undoes a `connect()` that ran since the lookup,
  and the connection it returned reads end of stream.
* A failed send (`Discard`) leaves the dead connection registered, so that later datagrams
  of its remote are discarded too, until `connect()` is called for it.
* `ReadTaskReturns` has two exceptions.  `HeldUp`: an established connection that nobody
  reads, for instance since its own read task waits in `data_sink.send` for the data loop,
  fills its channel, and the one read task of the socket waits for it.  `Jammed`: the
  accept task waits for a datagram of one peer, and the read task for room in a channel
  that only the accept task would make.  Then the socket receives nothing any more.  The
  instance reaches this by a full channel of a connection in the queue; the other way, a
  full queue at the handoff, needs a third remote.  What the property says is that nothing
  else does: no connection that was dropped or replaced, and no failed acceptor.

Each connection has one owner: that is Rust's doing, and no property here.

### TransportConnection

Two ends, three tasks each.  Time advances in units of 5 s, only when no task can go on:
tasks and network are taken to be faster than a unit, the taker of the data is not.  The
constants keep the proportion of the code, four units to three.  Ends may start at
different times, write errors, an end of the stream and exits happen at any time, frames
are lost up to `MaxLoss`.  A read task of the UDP socket that another connection holds up
(`HeldUp`) is not part of it, and would count as loss.

`TransportConnection.cfg` has ends that start up to 5 s apart, two data frames,
channels of one, where blocking is most frequent, and at most one loss, which is what
`OneLossTolerated` allows.  `NoneSurvives` says that once one task of either end is gone
all six end: a stop is passed on by the watch, by the sink, by the end of the stream, or,
when none of them works, by silence.  It has one exception: a data loop that takes nothing
any more keeps a read task in `data_sink.send` for ever, and that read task keeps the
other tasks of its end, whose pings keep the peer; two data frames one way are what it
takes to reach it.  A reader that is stuck upstream with all channels full takes more data
than the instance has; for it `HealthyNeverTimesOut` rests on its theorem.  Deadlock is
checked: time can always pass.

### PeerSession

The IO layer is reduced to its map, a connection to its stage, and DTLS, which is
external, to four flights that are not repeated.  OpenSSL's retransmission timer is
driven by calls `tokio-openssl` does not make; a lost or misrouted flight is final.  The
wire is a set: datagrams overtake each other, and one that stays in it is lost.  The
accept task starts the tasks of a connection (`Accepting`) and then puts it into the table
(`List`); in between frames are delivered, and the connection may end.  A handshake may
fail, or its peer turn out unidentifiable (`Refuse`).  Each daemon has one socket and one
address.

`PeerSession.cfg` (two daemons, two frames each way, one restart, one refusal, three
connections each; daemons and connections are interchangeable) checks the safety
properties.  `InboundReachable` says that between the start of the tasks and `List`, and
only then, an established inbound connection is not in the table.  `DeliveredOnce` says
nothing of order: UDP does not keep it and the code does not restore it.
`PeerSessionFirst.cfg` has two callers and one callee, no loss and no refusal, and checks
delivery of a first frame.  `PeerSessionSecond.cfg` shows that a second
frame to the same peer blocks the sender: an outgoing connection enters no table, the new
one replaces it in the map, and the peer routes its hello to the connection it knows.
`SendFails` keeps the dead connection in the table, as the FIXME at
`network/state.rs:295` says, and every later frame over it is lost.  The runs stop when
all frames are used up, so deadlock is not checked.

### PeerInformation

Handshakes are coarser here than in `PeerSession` (a connection is called, served, up or
spoilt by a second call over the same addresses or a lost datagram), daemons have several
sockets, and frames have contents.  A round is `Close`, `OpenSocket`, `Publish`,
`PublishAt`; a new socket starts a `RelayTask`; a data loop handles what arrives, and to
answer a request (`Contact`) may have to open a connection, for which it waits, as it
waits for room upstream with a client's frame (`upward`, `GoesUp`).  A closed socket is
gone from the map and its table is empty, but its read task sees the signal later
(`ReadEnds`), and what it received is handled by its data loop in any case.  Frames are a
set: they come in any order, or are lost.  A frame carries whom the receiver takes its
sender for (`TakenFor`): for an inbound connection the owner of the certificate, for an
outbound one whoever was asked for at that address (`asked`), which nobody verifies.
Entries of the information base remember, as history, over which connection they came.

`Plans` says what may happen: rounds of changes, frames of clients, requests and losses.
`PeerInformation.cfg` has a daemon that gets a second address and may lose both, and its
relay, which knows the first from its configuration.  In two plans the relay asks the
daemon about a third one, whose relay it is, while one of the two changes its sockets and
one datagram is lost; in the third the daemon asks the relay about a fourth, and
sends that one a frame at what is really the relay's address, so that the relay is taken
for another.  Two sockets are needed for calls over different addresses; a request about
somebody the relay has no connection with is what makes its data loop dial.

The exceptions of `RelayInformed` (a task of the relay stuck, either socket closed,
crossing calls, a second call over the same addresses, a lost datagram) were left out in
turn, and TLC finds a run for each but two that a larger instance needs: a data loop that
waits for a call that was spoilt, and one that waits for a closed socket.  The exceptions
of `FirstHand` and `LoopCallsOnlyUntabled` are facts of the code: `open_connection()` does
not check who answers, the accept task inserts after it has started the tasks, and the
data loop outlives its socket.  Two things to know: nothing in the repository calls
`request_peer_info()` yet, and `Ask` is the call its user would make; what a relay answers
is dropped, since it is not the relay's own, unless the relay is taken for its subject.
The run stops when the plan is used up, so deadlock is not checked.

### UnixState

Clients connect, bind, send, receive and leave.  A client in `Listeners` binds first, as
`uipcat --listen` does; the others may start with data, as `uipcat` does otherwise.
`HasSender` says when the channel of a write task is closed: when no clone of its
sender is left, in the map or in the hands of the forwarding task.  An error of `accept()`
(`AcceptFails`) closes the listening socket, and cuts off who waits to be accepted.

Nothing is assumed of clients, nor of `network.send_frame()`.  The liveness properties
therefore say what can stop the daemon for good, and that nothing else does:
`DeliveryProceeds`, a client that stops reading, which stops delivery to all;
`ReplacedWriterEnds`, the same client for its own write task; `DataForwarded`, a send that
hangs (`SendHangs`, as in `PeerSessionSecond.cfg`), a client that neither sends its first
frame nor leaves (`FirstSilent`), or a failing `accept()` for those not yet accepted.

`UnixState.cfg`: two clients for one port, all channels of capacity one, room for two
frames in the socket of a client, so that `uipcat` may read two at once (it then looks at
the first only, which `Hear` leaves out of the daemon's account), three frames from the
network; one client binds first, the other takes the port from it, loses it to
it, or sends without binding.  `DataForwarded` is about the first, `AllForwarded`, which
`UnixStateCaller.cfg` shows to fail, about both: data sent before a bind is dropped.
Clients and frames are finite, so deadlock is not checked.

### NetworkSockets

One task goes through rounds (`Discover`, `CloseStale`, `StaleClosed`, `OpenSocket` or
`OpenFails`, `Publish`) and then polls the debounced stream (`PollPast`, `PollWithin`,
`Wake`).  An error of the netlink socket ends the stream (`StreamFails`) after one more
item, which counts as a notification, and takes those in the socket's buffer with it.  `listen()` may fail, which ends `run()` (`ListenFails`).  A
closed socket keeps its port while somebody holds it (`Bound`): the map, the read task, the
accept task, the relay task, the dialling task, a connection.  When the acceptor cannot be
built (`OpenUnserved`), the read task alone has the port, and nobody can close it; it ends
with its first hand-off (`HandoffFails`).  A handshake may end at any time but need not.

`NetworkSockets.cfg` follows one address through three changes, which needs two sockets
and a third without an acceptor, with failing discovery, `listen()`, reading and change
stream.  It checks that rounds reconcile, that an idle socket gives its port back once its
connections have ended (they need not, while a data loop waits), and that only the debounce window, the time before
`listen()` and a failed discovery hide a change.  What the exceptions say is what happens:
a hidden change stays hidden until the next, and a handshake in progress keeps the port
for ever.  `EndSeen` says what becomes of the observing task when the stream has ended: it
stops, or, if it polls within the window, spins in `poll_next()` and takes a worker thread
with it.  One relay stands for all.

### Daemon

The processes of `uipd` on one machine, one after the other or at the same time, on one
configuration file: `Generate` or `Load`, `BindSocket`, `Learn`, `Stop` at Ctrl-C,
`Truncate` and `Write` (the two halves of `fs::write`), `Leave`, and `Crash` anywhere
between.  An identity is named after the process that generated it; the name of the
control socket contains the identity, so there is one such file for each.  A file written
by two at a time may be a mixture, which cannot be read.  The tasks go on until the process
is gone, so that what is learnt after Ctrl-C is lost: `Inherited` speaks of what was known
then.  The port, which has a default, and a control socket chosen by the user are left
out; the first changes nothing here, the second only lets identities share a file.

`Daemon.cfg`: three processes, a peer to know, and a file of an earlier life or none.
Three are needed for a daemon that is refused its socket, removes the file by ending, and
lets a third bind.  `Reachable` is about the socket file only; that clients are accepted
behind it is `UnixState`'s matter.  Each exception in the properties was left out in turn, and TLC
finds a run for each.  Processes are finite, so deadlock is not checked.

### SharedLock

An operation is the list of guards it takes, each with those it holds at the time; the
length of a guard's life is Rust's (a temporary lives to the end of its statement, the
scrutinee of `if let` to the end of the `else`).  The lock is std's `RwLock` as on Linux,
which is external: a waiting writer keeps readers out, and waiting readers and writers have
no order.  Between two guards any time may pass, so that awaits need no steps of their own.
`connect_to_relays()` and `add_relay()`, which nothing calls, are left out.

`SharedLock.cfg` runs one task of each kind with the operations it really performs, except
those that take a single read guard and can disturb nobody; the proof includes them.  Any
circle of waiting tasks contains a task that reads a lock again while it holds it
(`my_peer_information()`, `connect()`, `forward_or_new_connection()`, saving the
configuration) and a
writer that came in between: locks are always taken in the order network, transport, IO,
unix.  TLC reaches such circles; a task that is not in one goes on, so that the run as
a whole never stops, and deadlock in TLC's sense is checked.

### FrameCodec

Symbols instead of bytes, a header of two instead of seven for the transport codec (the
ports are copied) and a length field of two bits instead of sixteen; MessagePack, which
writes lengths of any size, has a variant and a length.  Payloads are up to one longer than
the field of the transport codec can say, and hold symbols that look like frame types.
Two frames suffice, since a decoder has no memory but its buffer, and the proofs cover any
number of them, of any bytes and lengths.  `OnlyCutFrameFails`
says what the Unix codec does with a frame that comes in two pieces: it returns an error,
which ends the reader; every other error needs an oversized frame.  The run stops after
the last frame, so deadlock is not checked.

## Fairness

Weak fairness for a task means that the tokio runtime polls it again once what it waits
for is there.  It is assumed of the tasks of the daemon, and of nothing that may wait
without a limit: not of a data loop that takes frames (`Take` in `TransportConnection`),
not of the owners of established connections (`Own` in `AcceptTask`), not of
`network.send_frame()` or of clients (`Forwarded`, `Hear`, `Say`, `Close` in `UnixState`),
not of `upstream.send()` (`GoesUp` in `PeerInformation`), and not of the end of a
connection (`LinkEnds` in `NetworkSockets`).  Where such a wait stops something for good,
the property says so as an exception.  Time passes (`TransportConnection`: strong
fairness of `Tick`, which other steps disable for a moment; `NetworkSockets`:
`WindowPasses`).  A read task that is ready for both a datagram and the close signal sees
the signal in the end, since `select!` picks at random: strong fairness of the closing
`ReadEnds` in `NetworkSockets`; `PeerInformation` does not need it.  Nothing is assumed of
errors, losses, exits, restarts, changes of the interfaces or `connect()`.

Of the environment two things are assumed.  In `PeerSessionFirst.cfg` and
`PeerSessionSecond.cfg` every datagram arrives, which the code cannot guarantee and does
not make up for: the first shows delivery as long as nothing is lost, the second that a
send may hang even so.  In `PeerInformation` a handshake ends as long as both sockets are
open, nothing is lost and nobody called over the same addresses.  Handshakes are not
fair in `AcceptTask` and `NetworkSockets`.  `Daemon`, `SharedLock` and `FrameCodec` have
safety properties only.

## Proofs

Proofs hold for every value of the constants under the assumption named in each module:
capacities are at least one, the ping interval is shorter than the read timeout, the
ends of a handshake are less than a read timeout apart, tasks perform operations of the
daemon, bytes are numbers, names of different things differ, and no daemon sends frames to
itself.  Configurations may be wrong: `open_connection()` takes the identifier it asked
for to be that of the remote, and `PeerInformationProofs` covers what follows.

* `IoSocketProofs`: types and capacities; `AcceptedOnce`, `AcceptedHasFirstDatagram`,
  `CutOffOnlyWhenReplaced`, `ConnectWinsUnlessRaced`, and the refinement of
  `DatagramDemux`.  The strengthening `Routed` says that the connections in the map, and
  the one in the hands of the read task, are bound to the remote they are registered or
  used for, and that a connection just made is open and the destination.  `AcceptedOnce`
  needs besides that the address of an inbound connection stays in the map, but for the
  moment before `Insert` (`InboundInv`); `AcceptedHasFirstDatagram`, that nobody reads a
  connection between `Forward` and the end of its time in the queue (`FirstKept`);
  `ConnectWinsUnlessRaced`, that outside the race the read task holds the very sender
  `connect()` registered (`ConnectInv`).  `Undelivered` says that nothing is forwarded
  before it arrives and that the datagram in hand is the newest of its remote; with it
  each `Forward` is a `Deliver` of the abstract module, and all steps that only move
  entries are stutters.
  With the accept task every step is a step of `IoSocket`, which makes all of this true of
  `AcceptTask`.
* `PeerSessionProofs`: types, `InboundReachable` and `DeliveredOnce`.  `Stages` relates a
  connection's stage to the tables that hold it (what the accept queue holds is queued,
  what a task waits for is in that task's stage, an entry leads to a connection of that
  remote).  `InboundReachable` needs in addition that a daemon has at most one inbound
  connection from each peer, since the first one leaves an entry that stays
  (`OnePerPeer`), and that an established one is in the table or in the hands of the accept
  task (`Listed`).  For `DeliveredOnce`, `Fresh` says that no frame on the wire, in a
  channel or delivered has a number beyond what was sent, and `Once` that a frame is in one
  of these places at most: each datagram a daemon sends has a new number, and each step
  of the receiver moves it on.
* `PeerInformationProofs`: types, `FirstHand` and `LoopCallsOnlyUntabled`, for any
  configurations, any order of frames and any losses.  The invariant `Informed` says that
  who was called is remembered (`asked`), that a connection that is up is in the table of
  the one who was called, or about to be, or that one's socket was closed (`Served`), and
  that for every frame under way (`Good`) its sender is who it is taken for, or was asked
  for as that one, and its receiver called the sender or was `Served`.  The properties
  alone are not inductive: they say nothing of the frame a step will handle.
* `TransportConnectionProofs`: types and capacities, `HealthyNeverTimesOut` and
  `OneLossTolerated`.  For the first, the
  inductive invariant `Timers` relates the idle time of one end to the ping timer of the
  other.  `FreshTimer`: the idle time counts only while the read task waits.
  `PingerFollows`: the ping task lives as long as the read task.  `InTime`: without a
  loss, and with the other end whole, the idle time is below the timeout, and either a
  frame is coming or it is at most the time since the other end's last ping (before the
  other end starts, the skew).  Time passes only when nothing is in flight, so the idle
  time cannot reach the timeout.  Types and the property alone are not inductive: a
  timer says nothing without the frame that resets it.  `OneLossTolerated` needs more,
  `Redundant`: two chains keep an end from timing out, the other end's pings (`PingChain`)
  and its answers to this end's own pings (`PongChain`), followed through the ping task,
  the sink, the stream, the other end's read task and back.  A lost frame belongs to at
  most one chain towards an end, so that both chains hold before a loss and still one of
  them after it; either one bounds the idle time by the ping interval.
* `TransportConnectionProofs` (codecs): `PrefixDecoded`, `AllDecoded` and
  `OnlyCutFrameFails`.  The first part is about one decoder call: the bytes of a frame that
  come before others are returned as that frame, with the rest, once they are there
  (`TransportDecodes`, `UnixDecodes`), and anything else asks for more or, in the Unix
  codec, fails.  The invariant `Framing` says that the decoder is `Aligned`, or `Astray`
  behind an oversized frame.  `Aligned`: what came out is the beginning of what went in, and
  there is a function that gives, for each frame, the bytes left behind it, so that each
  frame's bytes are the first of those left behind its predecessor (`Pending`).  This
  function takes the place of an induction over the frames: encoding appends to its values,
  receiving moves bytes between its parts, decoding takes the next value.
* `NetworkSocketsProofs`: types, with `Orderly` (only opened sockets are closed, and a
  round leaves nothing to open behind), and `Reconciled` from `Rounds`, which states
  during a round which addresses are still missing.
* `UnixStateProofs`: types and capacities, and `OneLateFrame`.  The invariant `Replaced`
  says that a port's entry in the map is a client that bound it (`Registered`), that a
  client is in the backlog or in the hands of the accept loop at most once and has bound
  nothing before (`HandledOnce`), and that the late frame of a replaced client is the one
  the forwarding task looked up before (`LateOnce`): after it nothing leads back to the
  client.
* `DaemonProofs`: types, `Readable`, `Reachable`, `RefusedOnlyBehindCrash`, `Inherited`.
  All rest on `Lives` (what has ended stays as it was; processes that overlapped always
  did).  `Written` adds who may have written the file a process has open, `Files` whose
  the socket file of an identity is, and `HandedOn` that what an undisturbed daemon saved
  is in the file and in every daemon that started after it, until the next one saves it.
* `SharedLockProofs`: types, and `DeadlockOnlyByReentry`.  Every operation is
  `Disciplined`: it takes guards in the order of the locks or reads again what it reads
  already.  With `Exclusion` (a writer is alone) the last lock of a circle, in that order,
  is held by a task of the circle that asks for the same lock again, hence for reading, and
  only a waiting writer can keep it from that.

Model-checked only: the liveness properties, since the prover does not handle fairness and
ENABLED.  Nothing here needs induction over data or a RECURSIVE operator.

## Not modelled

Certificates, key generation, hashing and serialisation (`data/identity.rs`,
`data/identifier.rs`: no state that changes), TLS set-up (OpenSSL), the binding of the
netlink socket (a system call), the filter over interfaces (one expression), command lines
and logging, the RPC stub, the standard input and output of `uipcat`, and the webrtc_util
`Conn` trait of IO connections, which nothing calls.  `UnixState` takes a frame to arrive
whole; what happens to one that does not is `FrameCodec`'s matter.

## What is left

All modules of the plan exist.  Worth adding, in order of importance:

1. An instance of `IoSocket` with three remotes, for the second way into `Jammed`, and one
   of `PeerInformation` with two relays, for the two exceptions the present one does not
   need; an abstract "mailbox between daemons" that `PeerSession` implements as long as each
   peer is sent one frame.
2. Frames cut by the stream in `UnixState`; a property about the frames that `uipcat`
   reads at once with another one; several relays.
