------------------------ MODULE NetworkSocketsProofs ------------------------
(***************************************************************************)
(* Proofs about the sockets of a daemon, for every set of addresses, every *)
(* number of sockets and connections, and any number of changes.           *)
(***************************************************************************)
EXTENDS NetworkSockets, TLAPS

\* The step changes neither the round nor the map: a task of a socket, the
\* sending task, or time.
LifeStep ==
  /\ UNCHANGED <<fixed>>
  /\ io' \in [Socks -> {"up", "handoff", "done"}]
  /\ waiting' \in [Socks -> 0 .. AcceptCap]
  /\ accept' \in [Socks -> {"idle", "handshake", "done", "none"}]
  /\ relay' \in [Socks -> {"handshake", "done"}]
  /\ dialer' \in Socks \cup {None}
  /\ links' \in [Socks -> 0 .. MaxLinks]

\* Next as the list of its actions, for the case splits below.
LEMMA NextCases ==
  ASSUME [Next]_vars
  PROVE  \/ \E a \in Addrs : \/ Change(a) \/ Dial(a)
                             \/ CloseStale(a)
                             \/ OpenSocket(a) \/ OpenFails(a) \/ OpenUnserved(a)
         \/ StreamFails \/ WindowPasses \/ Dialled
         \/ Discover \/ DiscoverFails \/ StaleClosed \/ Publish
         \/ Listen \/ ListenFails \/ PollPast \/ PollWithin \/ Wake
         \/ \E s \in Socks : Live(s)
         \/ UNCHANGED vars
  BY DEF Next, Observe

\* A handshake adds at most one connection, within the bound.
LEMMA HandshakeLinks ==
  ASSUME NEW s \in Socks, links \in [Socks -> 0 .. MaxLinks], HandshakeEnds(s)
  PROVE  links' \in [Socks -> 0 .. MaxLinks]
<1> USE NetworkAssumption DEF NetworkAssumption
<1>1. CASE UNCHANGED links
  BY <1>1
<1>2. CASE links[s] < MaxLinks /\ links' = [links EXCEPT ![s] = @ + 1]
  <2>1. links[s] + 1 \in 0 .. MaxLinks
    BY <1>2
  <2> QED BY <1>2, <2>1
<1> QED BY <1>1, <1>2 DEF HandshakeEnds

\* The tasks of a socket and the sending task touch nothing but the life of
\* sockets, and keep its types.
LEMMA LifeSteps ==
  ASSUME TypeOK,
         \/ Dialled
         \/ \E a \in Addrs : Dial(a)
         \/ \E s \in Socks : Live(s)
  PROVE  LifeStep
<1> USE NetworkAssumption DEF NetworkAssumption, TypeOK, LifeStep
<1>1. CASE Dialled
  BY <1>1, HandshakeLinks DEF Dialled
<1>2. ASSUME NEW a \in Addrs, Dial(a) PROVE LifeStep
  BY <1>2 DEF Dial
<1>3. ASSUME NEW s \in Socks, Live(s) PROVE LifeStep
  <2>1. CASE Hello(s)
    BY <2>1 DEF Hello
  <2>2. CASE Handoff(s)
    <3>1. waiting[s] + 1 \in 0 .. AcceptCap
      BY <2>2 DEF Handoff
    <3> QED BY <2>2, <3>1 DEF Handoff
  <2>3. CASE ReadEnds(s) \/ HandoffFails(s)
    BY <2>3 DEF ReadEnds, HandoffFails
  <2>4. CASE AcceptNext(s)
    <3>1. waiting[s] - 1 \in 0 .. AcceptCap
      BY <2>4 DEF AcceptNext
    <3> QED BY <2>4, <3>1 DEF AcceptNext
  <2>5. CASE Accepted(s)
    BY <2>5, HandshakeLinks DEF Accepted
  <2>6. CASE AcceptEnds(s)
    BY <2>6 DEF AcceptEnds
  <2>7. CASE RelayConnected(s)
    BY <2>7, HandshakeLinks DEF RelayConnected
  <2>8. CASE LinkEnds(s)
    <3>1. links[s] - 1 \in 0 .. MaxLinks
      BY <2>8 DEF LinkEnds
    <3> QED BY <2>8, <3>1 DEF LinkEnds
  <2> QED BY <1>3, <2>1, <2>2, <2>3, <2>4, <2>5, <2>6, <2>7, <2>8 DEF Live
<1> QED BY <1>1, <1>2, <1>3

-----------------------------------------------------------------------------
(* Type correctness *)

\* A new socket is one that was never opened.
LEMMA NewUnused ==
  ASSUME Unused # {}
  PROVE  New \in Socks /\ address[New] = None
BY DEF New, Unused

\* Only sockets that were opened are ever closed; a new one is not closed yet.
\* A round leaves nothing to open behind.
Orderly ==
  /\ \A s \in closed : address[s] # None
  /\ pc # "open" => todo = {}

Typed == TypeOK /\ Orderly

LEMMA TypedInvariant == Spec => []Typed
<1> USE NetworkAssumption DEF NetworkAssumption
<1>1. Init => Typed
  BY DEF Init, Typed, TypeOK, Orderly
<1>2. Typed /\ [Next]_vars => Typed'
  <2> SUFFICES ASSUME Typed, [Next]_vars PROVE Typed'
    OBVIOUS
  <2>0. TypeOK /\ Orderly
    BY DEF Typed
  <2>1. ASSUME \/ Dialled
               \/ \E a \in Addrs : Dial(a)
               \/ \E s \in Socks : Live(s)
        PROVE Typed'
    <3>1. LifeStep
      BY <2>0, <2>1, LifeSteps
    <3> QED BY <2>0, <3>1 DEF LifeStep, Typed, TypeOK, Orderly, fixed, world, observer
  <2>2. ASSUME NEW a \in Addrs, Change(a) PROVE Typed'
    BY <2>0, <2>2 DEF Change, Typed, TypeOK, Orderly, life
  <2>3. ASSUME NEW a \in Addrs, CloseStale(a) PROVE Typed'
    BY <2>0, <2>3 DEF CloseStale, Typed, TypeOK, Orderly, life, world, observer
  <2>4. ASSUME NEW a \in Addrs, OpenSocket(a) PROVE Typed'
    <3>1. PICK s \in Socks :
            /\ address[s] = None
            /\ address' = [address EXCEPT ![s] = a]
            /\ sockets' = [sockets EXCEPT ![a] = s]
            /\ io' = [io EXCEPT ![s] = "up"]
            /\ accept' = [accept EXCEPT ![s] = "idle"]
            /\ \E r \in {"handshake", "done"} : relay' = [relay EXCEPT ![s] = r]
      BY <2>4, NewUnused DEF OpenSocket
    <3>2. s \notin closed
      BY <2>0, <3>1 DEF Orderly
    <3>3. \A b \in Addrs : sockets'[b] # None =>
            address'[sockets'[b]] = b /\ sockets'[b] \notin closed
      BY <2>0, <3>1, <3>2 DEF TypeOK
    <3> QED BY <2>0, <2>4, <3>1, <3>3
            DEF OpenSocket, Typed, TypeOK, Orderly, world
  <2>5. ASSUME NEW a \in Addrs, OpenFails(a) PROVE Typed'
    BY <2>0, <2>5 DEF OpenFails, Typed, TypeOK, Orderly, life, world
  <2>6. CASE Discover
    BY <2>0, <2>6 DEF Discover, Typed, TypeOK, Orderly, life, world
  <2>7. CASE DiscoverFails \/ Publish
    BY <2>0, <2>7 DEF DiscoverFails, Publish, AfterRound, Typed, TypeOK, Orderly,
                      life, world
  <2>8. CASE StaleClosed
    BY <2>0, <2>8 DEF StaleClosed, Typed, TypeOK, Orderly, life, world
  <2>9. CASE Listen \/ ListenFails \/ Wake \/ WindowPasses \/ StreamFails
    BY <2>0, <2>9 DEF Listen, ListenFails, Wake, WindowPasses, StreamFails, Typed, TypeOK, Orderly, life, world
  <2>10. CASE PollPast \/ PollWithin
    BY <2>0, <2>10 DEF PollPast, PollWithin, Typed, TypeOK, Orderly, life, world
  <2>11. ASSUME NEW a \in Addrs, OpenUnserved(a) PROVE Typed'
    <3>1. PICK s \in Socks :
            /\ address[s] = None
            /\ address' = [address EXCEPT ![s] = a]
            /\ io' = [io EXCEPT ![s] = "up"]
            /\ accept' = [accept EXCEPT ![s] = "none"]
      BY <2>11, NewUnused DEF OpenUnserved
    <3>2. \A b \in Addrs : sockets'[b] # None =>
            address'[sockets'[b]] = b /\ sockets'[b] \notin closed'
      BY <2>0, <2>11, <3>1 DEF TypeOK, OpenUnserved
    <3> QED BY <2>0, <2>11, <3>1, <3>2
            DEF OpenUnserved, Typed, TypeOK, Orderly, world
  <2>12. CASE UNCHANGED vars
    BY <2>0, <2>12 DEF vars, world, observer, life, Typed, TypeOK, Orderly
  <2> QED BY <2>1, <2>2, <2>3, <2>4, <2>5, <2>6, <2>7, <2>8, <2>9, <2>10, <2>11, <2>12, NextCases
<1> QED BY <1>1, <1>2, PTL DEF Spec

\* In every reachable state a socket in the map was opened on the address it is
\* listed under and has not been closed, and all variables keep their types.
THEOREM TypeCorrect == Spec => []TypeOK
<1>1. Typed => TypeOK
  BY DEF Typed
<1> QED BY <1>1, TypedInvariant, PTL

-----------------------------------------------------------------------------
(* The rounds of the observing task *)

\* While sockets are opened, those to come and those that failed are missing;
\* outside of a round only those that failed.
Rounds ==
  /\ pc = "open" => /\ Opened = found \ (todo \cup failed)
                    /\ todo \cap failed = {}
  /\ pc \notin {"close", "open"} => Opened = found \ failed

\* Between two rounds there is a socket exactly for the addresses found in the
\* last one, but for those whose port could not be bound or served.
THEOREM ReconciledHolds == Spec => []Reconciled
<1> USE NetworkAssumption DEF NetworkAssumption
<1>1. Init => Rounds
  BY DEF Init, Rounds, Opened
<1>2. TypeOK /\ Rounds /\ [Next]_vars => Rounds'
  <2> SUFFICES ASSUME TypeOK, Rounds, [Next]_vars PROVE Rounds'
    OBVIOUS
  <2>1. ASSUME \/ Dialled
               \/ \E a \in Addrs : Dial(a)
               \/ \E s \in Socks : Live(s)
        PROVE Rounds'
    <3>1. LifeStep
      BY <2>1, LifeSteps
    <3> QED BY <3>1 DEF LifeStep, Rounds, Opened, fixed, observer
  <2>2. ASSUME NEW a \in Addrs, Change(a) PROVE Rounds'
    BY <2>2 DEF Change, Rounds, Opened
  <2>3. ASSUME NEW a \in Addrs, CloseStale(a) PROVE Rounds'
    BY <2>3 DEF CloseStale, Rounds, observer
  <2>4. ASSUME NEW a \in Addrs, OpenSocket(a) PROVE Rounds'
    <3>1. PICK s \in Socks : sockets' = [sockets EXCEPT ![a] = s]
      BY <2>4, NewUnused DEF OpenSocket
    <3>2. Opened' = Opened \cup {a}
      BY <3>1 DEF Opened, TypeOK
    <3>3. todo' = todo \ {a} /\ a \in todo /\ UNCHANGED <<pc, found, failed>> /\ pc = "open"
      BY <2>4 DEF OpenSocket
    <3>4. a \in found
      BY <3>3 DEF TypeOK
    <3> QED BY <3>2, <3>3, <3>4 DEF Rounds
  <2>5. ASSUME NEW a \in Addrs, OpenFails(a) \/ OpenUnserved(a) PROVE Rounds'
    BY <2>5 DEF OpenFails, OpenUnserved, Rounds, Opened
  <2>6. CASE Discover
    BY <2>6 DEF Discover, Rounds
  <2>7. CASE DiscoverFails
    BY <2>7 DEF DiscoverFails, AfterRound, Rounds, Opened
  <2>8. CASE StaleClosed
    <3>1. Opened' = Opened /\ Opened \subseteq found /\ todo' = found \ Opened
      BY <2>8 DEF StaleClosed, Opened, TypeOK
    <3> QED BY <2>8, <3>1 DEF StaleClosed, Rounds
  <2>9. CASE Publish
    BY <2>9 DEF Publish, AfterRound, Rounds, Opened
  <2>10. CASE Listen \/ ListenFails \/ Wake \/ WindowPasses \/ StreamFails
    BY <2>10 DEF Listen, ListenFails, Wake, WindowPasses, StreamFails, Rounds, Opened
  <2>11. CASE PollPast
    BY <2>11 DEF PollPast, Rounds, Opened
  <2>12. CASE PollWithin
    BY <2>12 DEF PollWithin, Rounds, Opened
  <2>13. CASE UNCHANGED vars
    BY <2>13 DEF vars, observer, Rounds, Opened
  <2> QED BY <2>1, <2>2, <2>3, <2>4, <2>5, <2>6, <2>7, <2>8, <2>9, <2>10, <2>11, <2>12, <2>13,
             NextCases
<1>3. Rounds => Reconciled
  BY DEF Rounds, Reconciled
<1> QED BY <1>1, <1>2, <1>3, TypeCorrect, PTL DEF Spec
=============================================================================
