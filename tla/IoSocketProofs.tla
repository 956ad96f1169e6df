--------------------------- MODULE IoSocketProofs ---------------------------
(***************************************************************************)
(* Proofs about the IO layer, for every set of remotes and connections,    *)
(* every channel capacity and any number of datagrams; and, at the end,    *)
(* that with the accept task it behaves as IoSocket says.                  *)
(***************************************************************************)
EXTENDS AcceptTask, SequenceTheorems, TLAPS

\* Next as the list of its actions, for the case splits below.
LEMMA NextCases ==
  ASSUME [Next]_vars
  PROVE  \/ \E r \in Remotes : Receive(r) \/ Connect(r)
         \/ Forward \/ Discard \/ Insert \/ Handoff \/ HandoffFails
         \/ (\E reason \in {"closed", "error"} : Stop(reason))
         \/ StartAcceptor \/ FailAcceptor \/ Close \/ DropSocket \/ Accept
         \/ \E c \in Conns : Read(c) \/ DropConnection(c)
         \/ UNCHANGED vars
  BY DEF Next, ReadTask

\* A place in a sequence that became one longer is an old one or the last.
LEMMA LastOrBefore ==
  ASSUME NEW n \in Nat, NEW i \in 1 .. (n + 1)
  PROVE  i \in 1 .. n \/ i = n + 1
  OBVIOUS

-----------------------------------------------------------------------------
(* Type correctness *)

\* The map, the channels and the read task's locals keep their types, and no
\* channel exceeds its capacity, in every reachable state.
THEOREM TypeCorrect == Spec => []TypeOK
<1> USE IoAssumption DEF IoAssumption
<1>1. ASSUME Init PROVE TypeOK
  <2>1. <<>> \in Seq(Nat) /\ <<>> \in Seq(Conns) /\ Len(<<>>) = 0
    BY EmptySeq
  <2>2. /\ incoming \in [Conns -> Seq(Nat)]
        /\ \A c \in Conns : Len(incoming[c]) <= ChanCap
        /\ accepts \in Seq(Conns) /\ Len(accepts) <= AcceptCap
    BY <1>1, <2>1 DEF Init
  <2> QED BY <1>1, <2>2 DEF Init, TypeOK
<1>2. TypeOK /\ [Next]_vars => TypeOK'
  <2> SUFFICES ASSUME TypeOK, [Next]_vars PROVE TypeOK'
    OBVIOUS
  <2> USE DEF TypeOK
  <2>1. ASSUME NEW r \in Remotes, Receive(r) PROVE TypeOK'
    <3>1. /\ remote' \in [Conns -> Remotes \cup {None}]
          /\ receiver' \in [Conns -> {"unborn", "open", "dropped"}]
          /\ inbound' \in SUBSET Conns
          /\ dest' \in Conns
          /\ made' \in {dest', None}
      <4>1. CASE connections[r] # None
        BY <2>1, <4>1 DEF Receive
      <4>2. CASE connections[r] = None
        <5>1. PICK c \in Conns :
                /\ NewConnection(c, r)
                /\ dest' = c /\ made' = c
                /\ inbound' = inbound \cup {c}
          BY <2>1, <4>2 DEF Receive
        <5> QED BY <5>1 DEF NewConnection
      <4> QED BY <4>1, <4>2
    <3>2. /\ UNCHANGED <<connections, incoming, accepts, acceptor, closing, alive,
                         forwarded, latest, raced>>
          /\ pc' = "send" /\ from' = r /\ datagram' \in Nat
          /\ arrived' \in [Remotes -> Nat]
      BY <2>1 DEF Receive
    <3> QED BY <3>1, <3>2
  <2>2. ASSUME NEW r \in Remotes, Connect(r) PROVE TypeOK'
    BY <2>2 DEF Connect, NewConnection, task
  <2>3. CASE Forward
    <3>1. dest \in Conns /\ from \in Remotes /\ incoming' = [incoming EXCEPT ![dest] = Append(@, datagram)]
      BY <2>3 DEF Forward
    <3>2. /\ Append(incoming[dest], datagram) \in Seq(Nat)
          /\ Len(Append(incoming[dest], datagram)) = Len(incoming[dest]) + 1
      BY <3>1, AppendProperties
    <3>3. incoming' \in [Conns -> Seq(Nat)] /\ \A c \in Conns : Len(incoming'[c]) <= ChanCap
      BY <2>3, <3>1, <3>2 DEF Forward
    <3> QED BY <2>3, <3>1, <3>3 DEF Forward
  <2>4. CASE Discard
    BY <2>4 DEF Discard, NextDatagram, history
  <2>5. CASE Insert
    <3>1. dest \in Conns /\ from \in Remotes /\ connections' \in [Remotes -> Conns \cup {None}]
      BY <2>5 DEF Insert
    <3>2. CASE made # None
      BY <2>5, <3>1, <3>2 DEF Insert, history
    <3>3. CASE made = None
      BY <2>5, <3>1, <3>3 DEF Insert, NextDatagram, history
    <3> QED BY <3>2, <3>3
  <2>6. CASE Handoff
    <3>1. /\ Append(accepts, dest) \in Seq(Conns)
          /\ Len(Append(accepts, dest)) = Len(accepts) + 1
      BY <2>6, AppendProperties DEF Handoff
    <3>2. accepts' \in Seq(Conns) /\ Len(accepts') <= AcceptCap
      BY <2>6, <3>1, LenProperties DEF Handoff
    <3> QED BY <2>6, <3>2 DEF Handoff, NextDatagram, history
  <2>7. ASSUME NEW reason, Stop(reason) PROVE TypeOK'
    BY <2>7 DEF Stop, history
  <2>8. CASE Close
    BY <2>8 DEF Close, task, history
  <2>9. CASE DropSocket
    BY <2>9 DEF DropSocket, task, history
  <2>10. CASE Accept
    BY <2>10 DEF Accept, task, history
  <2>11. ASSUME NEW c \in Conns, Read(c) PROVE TypeOK'
    <3>1. Tail(incoming[c]) \in Seq(Nat) /\ Len(Tail(incoming[c])) = Len(incoming[c]) - 1
      BY <2>11, HeadTailProperties DEF Read
    <3> QED BY <2>11, <3>1 DEF Read, task, history
  <2>12. ASSUME NEW c \in Conns, DropConnection(c) PROVE TypeOK'
    BY <2>12 DEF DropConnection, task, history
  <2>14. CASE HandoffFails
    <3>1. incoming' \in [Conns -> Seq(Nat)] /\ \A c \in Conns : Len(incoming'[c]) <= ChanCap
      <4>1. <<>> \in Seq(Nat) /\ Len(<<>>) = 0
        BY EmptySeq
      <4>2. incoming' = [incoming EXCEPT ![made] = <<>>]
        BY <2>14 DEF HandoffFails
      <4>3. incoming' \in [Conns -> Seq(Nat)]
        BY <4>1, <4>2
      <4>4. ASSUME NEW c \in Conns PROVE incoming'[c] = incoming[c] \/ incoming'[c] = <<>>
        BY <4>2
      <4> QED BY <4>1, <4>3, <4>4
    <3> QED BY <2>14, <3>1 DEF HandoffFails, history
  <2>15. CASE StartAcceptor
    BY <2>15 DEF StartAcceptor, task, history
  <2>16. CASE FailAcceptor
    <3>1. /\ incoming' \in [Conns -> Seq(Nat)] /\ \A c \in Conns : Len(incoming'[c]) <= ChanCap
          /\ accepts' \in Seq(Conns) /\ Len(accepts') <= AcceptCap
      BY <2>16, EmptySeq DEF FailAcceptor
    <3>2. receiver' \in [Conns -> {"unborn", "open", "dropped"}]
      BY <2>16 DEF FailAcceptor
    <3> QED BY <2>16, <3>1, <3>2 DEF FailAcceptor, task, history
  <2>13. CASE UNCHANGED vars
    BY <2>13 DEF vars, task, history
  <2> QED
    BY <2>1, <2>2, <2>3, <2>4, <2>5, <2>6, <2>7, <2>8, <2>9, <2>10, <2>11,
       <2>12, <2>13, <2>14, <2>15, <2>16, NextCases
<1> QED BY <1>1, <1>2, PTL DEF Spec

-----------------------------------------------------------------------------
(* Routing: the map and the read task only pair a remote with a connection   *)
(* bound to it.                                                              *)

Routed ==
  /\ \A r \in Remotes : connections[r] # None =>
       remote[connections[r]] = r /\ receiver[connections[r]] # "unborn"
  /\ pc \in {"send", "insert"} => remote[dest] = from
  /\ pc \in {"send", "insert", "handoff"} => receiver[dest] # "unborn"
  /\ made # None => receiver[made] = "open" /\ made = dest
  /\ pc = "handoff" => made # None
  /\ \A i \in 1 .. Len(accepts) : receiver[accepts[i]] = "open" /\ accepts[i] # made

LEMMA RoutedInvariant == Spec => []Routed
<1> USE IoAssumption DEF IoAssumption
<1>1. Init => Routed
  BY EmptySeq DEF Init, Routed
<1>2. TypeOK /\ Routed /\ [Next]_vars => Routed'
  <2> SUFFICES ASSUME TypeOK, Routed, [Next]_vars PROVE Routed'
    OBVIOUS
  <2> USE DEF TypeOK, Routed
  <2>0. /\ \A i \in 1 .. Len(accepts) : accepts[i] \in Conns
        /\ Len(accepts) \in Nat
    BY ElementOfSeq, LenProperties
  <2>1. ASSUME NEW r \in Remotes, Receive(r) PROVE Routed'
    <3>1. CASE connections[r] # None
      BY <2>0, <2>1, <3>1 DEF Receive
    <3>2. CASE connections[r] = None
      <4>1. PICK c \in Conns : NewConnection(c, r) /\ dest' = c /\ made' = c
        BY <2>1, <3>2 DEF Receive
      <4> QED BY <2>0, <2>1, <4>1 DEF Receive, NewConnection
    <3> QED BY <3>1, <3>2
  <2>2. ASSUME NEW r \in Remotes, Connect(r) PROVE Routed'
    <3>1. PICK c \in Conns : NewConnection(c, r) /\ connections' = [connections EXCEPT ![r] = c]
      BY <2>2 DEF Connect
    <3> QED BY <2>0, <2>2, <3>1 DEF Connect, NewConnection, task
  <2>3. CASE Forward
    BY <2>3 DEF Forward
  <2>4. CASE Discard
    BY <2>0, <2>4 DEF Discard, NextDatagram
  <2>5. CASE Insert
    <3>1. CASE made # None
      BY <2>5, <3>1 DEF Insert
    <3>2. CASE made = None
      BY <2>0, <2>5, <3>2 DEF Insert, NextDatagram
    <3> QED BY <3>1, <3>2
  <2>6. CASE Handoff
    <3>1. made = dest /\ dest \in Conns /\ receiver[dest] = "open" /\ made' = None
      BY <2>6 DEF Handoff, NextDatagram
    <3>2. /\ Len(accepts') = Len(accepts) + 1
          /\ accepts'[Len(accepts) + 1] = dest
          /\ \A i \in 1 .. Len(accepts) : accepts'[i] = accepts[i]
      BY <2>6, <3>1, AppendProperties DEF Handoff
    <3>3. \A i \in 1 .. Len(accepts') : i \in 1 .. Len(accepts) \/ i = Len(accepts) + 1
      BY <2>0, <3>2, LastOrBefore
    <3>4. /\ pc' = "recv" /\ UNCHANGED <<connections, remote, receiver>>
      BY <2>6 DEF Handoff, NextDatagram
    <3>5. ASSUME NEW i \in 1 .. Len(accepts')
          PROVE  receiver'[accepts'[i]] = "open" /\ accepts'[i] # made'
      <4>1. CASE i \in 1 .. Len(accepts)
        <5>1. accepts'[i] = accepts[i]
          BY <3>2, <4>1
        <5>2. receiver[accepts[i]] = "open" /\ accepts[i] \in Conns
          BY <2>0, <4>1
        <5> QED BY <3>1, <3>4, <5>1, <5>2
      <4>2. CASE i = Len(accepts) + 1
        BY <3>1, <3>2, <3>4, <4>2
      <4> QED BY <3>3, <4>1, <4>2
    <3> QED BY <3>1, <3>4, <3>5
  <2>7. ASSUME NEW reason, Stop(reason) PROVE Routed'
    BY <2>7 DEF Stop
  <2>8. CASE Close
    BY <2>8 DEF Close, task
  <2>9. CASE DropSocket
    BY <2>9 DEF DropSocket, task
  <2>10. CASE Accept
    <3>1. /\ Len(accepts') = Len(accepts) - 1
          /\ \A i \in 1 .. Len(accepts') : accepts'[i] = accepts[i + 1]
      BY <2>10, HeadTailProperties DEF Accept
    <3>2. \A i \in 1 .. Len(accepts') : i + 1 \in 1 .. Len(accepts)
      BY <2>0, <3>1
    <3>3. UNCHANGED <<connections, remote, receiver, pc, from, dest, made>>
      BY <2>10 DEF Accept, task
    <3> QED BY <3>1, <3>2, <3>3
  <2>11. ASSUME NEW c \in Conns, Read(c) PROVE Routed'
    BY <2>11 DEF Read, task
  <2>12. ASSUME NEW c \in Conns, DropConnection(c) PROVE Routed'
    BY <2>0, <2>12 DEF DropConnection, Owned, InQueue, task
  <2>14. CASE HandoffFails
    BY <2>0, <2>14 DEF HandoffFails
  <2>15. CASE StartAcceptor
    BY <2>15 DEF StartAcceptor, task
  <2>16. CASE FailAcceptor
    <3>1. made # None => ~ InQueue(made)
      BY DEF InQueue
    <3> QED BY <2>16, <3>1, EmptySeq DEF FailAcceptor, task
  <2>13. CASE UNCHANGED vars
    BY <2>13 DEF vars, task
  <2> QED
    BY <2>1, <2>2, <2>3, <2>4, <2>5, <2>6, <2>7, <2>8, <2>9, <2>10, <2>11,
       <2>12, <2>13, <2>14, <2>15, <2>16, NextCases
<1> QED BY <1>1, <1>2, TypeCorrect, PTL DEF Spec

-----------------------------------------------------------------------------
(* The first datagram of an accepted connection *)

\* From the moment it is forwarded, the first datagram stays in the channel of
\* the connection the read task made, until the accept task has it.
FirstKept ==
  /\ pc = "handoff" => made # None
  /\ pc \in {"insert", "handoff"} /\ made # None => incoming[made] # <<>>
  /\ AcceptedHasFirstDatagram

LEMMA FirstKeptInvariant == Spec => []FirstKept
<1> USE IoAssumption DEF IoAssumption
<1>1. Init => FirstKept
  BY EmptySeq DEF Init, FirstKept, AcceptedHasFirstDatagram
<1>2. TypeOK /\ Routed /\ FirstKept /\ [Next]_vars => FirstKept'
  <2> SUFFICES ASSUME TypeOK, Routed, FirstKept, [Next]_vars PROVE FirstKept'
    OBVIOUS
  <2> USE DEF TypeOK, FirstKept, AcceptedHasFirstDatagram
  <2>0. \A i \in 1 .. Len(accepts) : accepts[i] \in Conns
    BY ElementOfSeq
  <2>1. ASSUME NEW r \in Remotes, Receive(r) PROVE FirstKept'
    BY <2>1 DEF Receive
  <2>2. ASSUME NEW r \in Remotes, Connect(r) PROVE FirstKept'
    BY <2>2 DEF Connect, task
  <2>3. CASE Forward
    <3>1. dest \in Conns /\ incoming' = [incoming EXCEPT ![dest] = Append(@, datagram)]
      BY <2>3 DEF Forward
    <3>2. Append(incoming[dest], datagram) # <<>>
      BY <3>1, AppendProperties
    <3>3. /\ incoming'[dest] # <<>>
          /\ \A c \in Conns : incoming[c] # <<>> => incoming'[c] # <<>>
      BY <3>1, <3>2
    <3> QED BY <2>0, <2>3, <3>3 DEF Forward
  <2>4. CASE Discard
    BY <2>4 DEF Discard, NextDatagram
  <2>5. CASE Insert
    <3>1. CASE made # None
      BY <2>5, <3>1 DEF Insert
    <3>2. CASE made = None
      BY <2>5, <3>2 DEF Insert, NextDatagram
    <3> QED BY <3>1, <3>2
  <2>6. CASE Handoff
    <3>1. incoming[dest] # <<>> /\ dest \in Conns
      BY <2>6 DEF Handoff
    <3>2. /\ Len(accepts') = Len(accepts) + 1
          /\ accepts'[Len(accepts) + 1] = dest
          /\ \A i \in 1 .. Len(accepts) : accepts'[i] = accepts[i]
      BY <2>6, <3>1, AppendProperties DEF Handoff
    <3>3. Len(accepts) \in Nat
      BY LenProperties
    <3>4. ASSUME NEW i \in 1 .. Len(accepts') PROVE incoming[accepts'[i]] # <<>>
      <4>1. i \in 1 .. Len(accepts) \/ i = Len(accepts) + 1
        BY <3>2, <3>3, LastOrBefore
      <4>2. CASE i \in 1 .. Len(accepts)
        <5>1. accepts'[i] = accepts[i]
          BY <3>2, <4>2
        <5> QED BY <4>2, <5>1
      <4>3. CASE i = Len(accepts) + 1
        BY <3>1, <3>2, <4>3
      <4> QED BY <4>1, <4>2, <4>3
    <3> QED BY <2>6, <3>4 DEF Handoff, NextDatagram
  <2>7. ASSUME NEW reason, Stop(reason) PROVE FirstKept'
    BY <2>7 DEF Stop
  <2>8. CASE Close
    BY <2>8 DEF Close, task
  <2>9. CASE DropSocket
    BY <2>9 DEF DropSocket, task
  <2>10. CASE Accept
    <3>1. /\ Len(accepts') = Len(accepts) - 1
          /\ \A i \in 1 .. Len(accepts') : accepts'[i] = accepts[i + 1]
      BY <2>10, HeadTailProperties DEF Accept
    <3>2. Len(accepts) \in Nat
      BY LenProperties
    <3>3. ASSUME NEW i \in 1 .. Len(accepts') PROVE incoming[accepts'[i]] # <<>>
      <4>1. i + 1 \in 1 .. Len(accepts)
        BY <3>1, <3>2
      <4>2. accepts'[i] = accepts[i + 1]
        BY <3>1
      <4>3. incoming[accepts[i + 1]] # <<>>
        BY <4>1
      <4> QED BY <4>2, <4>3
    <3> QED BY <2>10, <3>3 DEF Accept, task
  <2>11. ASSUME NEW c \in Conns, Read(c) PROVE FirstKept'
    <3>1. made # c /\ \A i \in 1 .. Len(accepts) : accepts[i] # c
      BY <2>11 DEF Read, Owned, InQueue
    <3>2. /\ \A d \in Conns : d # c => incoming'[d] = incoming[d]
          /\ UNCHANGED <<accepts, pc, made>>
      BY <2>11 DEF Read, task
    <3>3. made # None => made \in Conns
      OBVIOUS
    <3> QED BY <2>0, <3>1, <3>2, <3>3
  <2>12. ASSUME NEW c \in Conns, DropConnection(c) PROVE FirstKept'
    <3>1. made # c /\ \A i \in 1 .. Len(accepts) : accepts[i] # c
      BY <2>12 DEF DropConnection, Owned, InQueue
    <3>2. /\ \A d \in Conns : d # c => incoming'[d] = incoming[d]
          /\ UNCHANGED <<accepts, pc, made>>
      BY <2>12 DEF DropConnection, task
    <3>3. made # None => made \in Conns
      OBVIOUS
    <3> QED BY <2>0, <3>1, <3>2, <3>3
  <2>14. CASE HandoffFails
    <3>1. /\ made \in Conns /\ pc' = "done" /\ made' = None /\ UNCHANGED accepts
          /\ \A d \in Conns : d # made => incoming'[d] = incoming[d]
      BY <2>14 DEF HandoffFails
    <3> QED BY <2>0, <3>1 DEF Routed
  <2>15. CASE StartAcceptor
    BY <2>15 DEF StartAcceptor, task
  <2>16. CASE FailAcceptor
    <3>1. /\ accepts' = <<>> /\ UNCHANGED <<pc, made>>
          /\ \A d \in Conns : ~ InQueue(d) => incoming'[d] = incoming[d]
      BY <2>16 DEF FailAcceptor, task
    <3>2. made # None => made \in Conns /\ ~ InQueue(made)
      BY DEF Routed, InQueue
    <3> QED BY <3>1, <3>2, EmptySeq
  <2>13. CASE UNCHANGED vars
    BY <2>13 DEF vars, task
  <2> QED
    BY <2>1, <2>2, <2>3, <2>4, <2>5, <2>6, <2>7, <2>8, <2>9, <2>10, <2>11,
       <2>12, <2>13, <2>14, <2>15, <2>16, NextCases
<1> QED BY <1>1, <1>2, TypeCorrect, RoutedInvariant, PTL DEF Spec

\* Every connection in the accept queue holds the datagram that opened it: the
\* read task forwards before it hands off, and nobody reads in between.
THEOREM AcceptedHasFirstDatagramHolds == Spec => []AcceptedHasFirstDatagram
<1>1. FirstKept => AcceptedHasFirstDatagram
  BY DEF FirstKept
<1> QED BY <1>1, FirstKeptInvariant, PTL

-----------------------------------------------------------------------------
(* One accepted connection per remote                                        *)

\* While the socket exists, the remote of every connection the read task made
\* is registered, or is about to be by the read task itself.
InboundInv ==
  /\ alive \/ pc = "done"
  /\ \A c \in inbound : receiver[c] # "unborn" /\ remote[c] \in Remotes
  /\ alive => \A c \in inbound :
       connections[remote[c]] # None \/ (InFlight(remote[c]) /\ made = c)
  /\ AcceptedOnce

\* At most one connection per remote address is ever made for the accept task
\* of a socket: forward_or_new_connection() never vacates an address.
THEOREM AcceptedOnceHolds == Spec => []AcceptedOnce
<1> USE IoAssumption DEF IoAssumption
<1>1. Init => InboundInv
  BY DEF Init, InboundInv, AcceptedOnce
<1>2. TypeOK /\ Routed /\ InboundInv /\ [Next]_vars => InboundInv'
  <2> SUFFICES ASSUME TypeOK, Routed, InboundInv, [Next]_vars PROVE InboundInv'
    OBVIOUS
  <2> USE DEF TypeOK, Routed, InboundInv, InFlight, AcceptedOnce
  <2>1. ASSUME NEW r \in Remotes, Receive(r) PROVE InboundInv'
    <3>1. CASE connections[r] # None
      BY <2>1, <3>1 DEF Receive
    <3>2. CASE connections[r] = None
      <4>1. PICK c \in Conns : /\ NewConnection(c, r)
                               /\ dest' = c /\ made' = c
                               /\ inbound' = inbound \cup {c}
        BY <2>1, <3>2 DEF Receive
      <4>2. \A d \in inbound : d # c /\ remote[d] # r
        BY <2>1, <3>2, <4>1 DEF Receive, NewConnection
      <4> QED BY <2>1, <4>1, <4>2 DEF Receive, NewConnection
    <3> QED BY <3>1, <3>2
  <2>2. ASSUME NEW r \in Remotes, Connect(r) PROVE InboundInv'
    <3>1. PICK c \in Conns : NewConnection(c, r) /\ connections' = [connections EXCEPT ![r] = c]
      BY <2>2 DEF Connect
    <3>2. c \notin inbound
      BY <3>1 DEF NewConnection
    <3> QED BY <2>2, <3>1, <3>2 DEF Connect, NewConnection, task
  <2>3. CASE Forward
    BY <2>3 DEF Forward
  <2>4. CASE Discard
    BY <2>4 DEF Discard, NextDatagram, history
  <2>5. CASE Insert
    <3>1. CASE made # None
      BY <2>5, <3>1 DEF Insert, history
    <3>2. CASE made = None
      BY <2>5, <3>2 DEF Insert, NextDatagram, history
    <3> QED BY <3>1, <3>2
  <2>6. CASE Handoff
    BY <2>6 DEF Handoff, NextDatagram, history
  <2>7. ASSUME NEW reason, Stop(reason) PROVE InboundInv'
    BY <2>7 DEF Stop, history
  <2>8. CASE Close
    BY <2>8 DEF Close, task, history
  <2>9. CASE DropSocket
    BY <2>9 DEF DropSocket, task, history
  <2>10. CASE Accept
    BY <2>10 DEF Accept, task, history
  <2>11. ASSUME NEW c \in Conns, Read(c) PROVE InboundInv'
    BY <2>11 DEF Read, task, history
  <2>12. ASSUME NEW c \in Conns, DropConnection(c) PROVE InboundInv'
    BY <2>12 DEF DropConnection, Owned, task, history
  <2>14. CASE HandoffFails
    BY <2>14 DEF HandoffFails, history
  <2>15. CASE StartAcceptor
    BY <2>15 DEF StartAcceptor, task, history
  <2>16. CASE FailAcceptor
    BY <2>16 DEF FailAcceptor, task, history
  <2>13. CASE UNCHANGED vars
    BY <2>13 DEF vars, task, history
  <2> QED
    BY <2>1, <2>2, <2>3, <2>4, <2>5, <2>6, <2>7, <2>8, <2>9, <2>10, <2>11,
       <2>12, <2>13, <2>14, <2>15, <2>16, NextCases
<1>3. InboundInv => AcceptedOnce
  BY DEF InboundInv
<1> QED BY <1>1, <1>2, <1>3, TypeCorrect, RoutedInvariant, PTL DEF Spec

-----------------------------------------------------------------------------
(* The last connect() wins unless it raced with the read task                *)

\* A channel that the read task is about to write back is the one the last
\* connect() registered, unless the two overlapped.
ConnectInv ==
  /\ alive \/ pc = "done"
  /\ ConnectWinsUnlessRaced
  /\ pc \in {"send", "insert"} /\ latest[from] # None /\ from \notin raced
       => dest = latest[from]

\* A connection returned by connect() keeps receiving its remote's datagrams
\* until the next connect() to that remote, unless the call fell between the
\* read task's lookup and its write-back: that window is the only one.
THEOREM ConnectWinsUnlessRacedHolds == Spec => []ConnectWinsUnlessRaced
<1> USE IoAssumption DEF IoAssumption
<1>1. Init => ConnectInv
  BY DEF Init, ConnectInv, ConnectWinsUnlessRaced
<1>2. TypeOK /\ ConnectInv /\ [Next]_vars => ConnectInv'
  <2> SUFFICES ASSUME TypeOK, ConnectInv, [Next]_vars PROVE ConnectInv'
    OBVIOUS
  <2> USE DEF TypeOK, ConnectInv, ConnectWinsUnlessRaced, InFlight
  <2>1. ASSUME NEW r \in Remotes, Receive(r) PROVE ConnectInv'
    BY <2>1 DEF Receive
  <2>2. ASSUME NEW r \in Remotes, Connect(r) PROVE ConnectInv'
    <3>1. PICK c \in Conns : /\ connections' = [connections EXCEPT ![r] = c]
                             /\ latest' = [latest EXCEPT ![r] = c]
      BY <2>2 DEF Connect
    <3>2. raced' = IF InFlight(r) THEN raced \cup {r} ELSE raced \ {r}
      BY <2>2 DEF Connect
    <3>3. UNCHANGED <<alive, pc, from, dest>>
      BY <2>2 DEF Connect, task
    <3> QED BY <3>1, <3>2, <3>3
  <2>3. CASE Forward
    BY <2>3 DEF Forward
  <2>4. CASE Discard
    BY <2>4 DEF Discard, NextDatagram, history
  <2>5. CASE Insert
    <3>1. CASE made # None
      BY <2>5, <3>1 DEF Insert, history
    <3>2. CASE made = None
      BY <2>5, <3>2 DEF Insert, NextDatagram, history
    <3> QED BY <3>1, <3>2
  <2>6. CASE Handoff
    BY <2>6 DEF Handoff, NextDatagram, history
  <2>7. ASSUME NEW reason, Stop(reason) PROVE ConnectInv'
    BY <2>7 DEF Stop, history
  <2>8. CASE Close
    BY <2>8 DEF Close, task, history
  <2>9. CASE DropSocket
    BY <2>9 DEF DropSocket, task, history
  <2>10. CASE Accept
    BY <2>10 DEF Accept, task, history
  <2>11. ASSUME NEW c \in Conns, Read(c) PROVE ConnectInv'
    BY <2>11 DEF Read, task, history
  <2>12. ASSUME NEW c \in Conns, DropConnection(c) PROVE ConnectInv'
    BY <2>12 DEF DropConnection, task, history
  <2>14. CASE HandoffFails
    BY <2>14 DEF HandoffFails, history
  <2>15. CASE StartAcceptor
    BY <2>15 DEF StartAcceptor, task, history
  <2>16. CASE FailAcceptor
    BY <2>16 DEF FailAcceptor, task, history
  <2>13. CASE UNCHANGED vars
    BY <2>13 DEF vars, task, history
  <2> QED
    BY <2>1, <2>2, <2>3, <2>4, <2>5, <2>6, <2>7, <2>8, <2>9, <2>10, <2>11,
       <2>12, <2>13, <2>14, <2>15, <2>16, NextCases
<1>3. ConnectInv => ConnectWinsUnlessRaced
  BY DEF ConnectInv
<1> QED BY <1>1, <1>2, <1>3, TypeCorrect, PTL DEF Spec

-----------------------------------------------------------------------------
(* A live connection is cut off only when another one replaces it            *)

\* An open connection reads end-of-file only after another connection took
\* over its address: no other step of the socket drops its last Sender.
THEOREM CutOffOnlyWhenReplacedHolds == Spec => []CutOffOnlyWhenReplaced
<1> USE IoAssumption DEF IoAssumption
<1> DEFINE Inv == (alive \/ pc = "done") /\ CutOffOnlyWhenReplaced
<1>1. Init => Inv
  BY DEF Init, CutOffOnlyWhenReplaced
<1>2. TypeOK /\ Routed /\ Routed' /\ Inv /\ [Next]_vars => Inv'
  <2> SUFFICES ASSUME TypeOK, Routed, Routed', Inv, [Next]_vars PROVE Inv'
    OBVIOUS
  <2> USE DEF TypeOK, CutOffOnlyWhenReplaced, HasSender
  <2>1. ASSUME NEW r \in Remotes, Receive(r) PROVE Inv'
    <3>1. CASE connections[r] # None
      BY <2>1, <3>1 DEF Receive
    <3>2. CASE connections[r] = None
      <4>1. PICK c \in Conns : NewConnection(c, r) /\ dest' = c
        BY <2>1, <3>2 DEF Receive
      <4> QED BY <2>1, <4>1 DEF Receive, NewConnection
    <3> QED BY <3>1, <3>2
  <2>2. ASSUME NEW r \in Remotes, Connect(r) PROVE Inv'
    <3>1. PICK c \in Conns : NewConnection(c, r) /\ connections' = [connections EXCEPT ![r] = c]
      BY <2>2 DEF Connect
    <3>2. alive /\ UNCHANGED <<alive, pc, dest>>
      BY <2>2 DEF Connect, task
    <3>3. receiver' = [receiver EXCEPT ![c] = "open"] /\ remote' = [remote EXCEPT ![c] = r]
      BY <3>1 DEF NewConnection
    <3>4. HasSender(c)'
      BY <3>1
    <3>5. ASSUME NEW d \in Conns, d # c, receiver'[d] = "open", ~ HasSender(d)'
          PROVE  connections'[remote'[d]] \notin {None, d}
      <4>1. receiver[d] = "open" /\ remote'[d] = remote[d]
        BY <3>3, <3>5
      <4>2. CASE remote[d] = r
        BY <3>1, <3>5, <4>1, <4>2
      <4>3. CASE remote[d] # r
        <5>1. ~ HasSender(d)
          BY <3>1, <3>2, <3>5, <4>3 DEF Routed
        <5> QED BY <3>1, <3>2, <4>1, <4>3, <5>1
      <4> QED BY <4>2, <4>3
    <3> QED BY <3>2, <3>4, <3>5
  <2>3. CASE Forward
    BY <2>3 DEF Forward
  <2>4. CASE Discard
    BY <2>4 DEF Discard, NextDatagram
  <2>5. CASE Insert
    <3>1. /\ connections' = [connections EXCEPT ![from] = dest]
          /\ from \in Remotes /\ dest \in Conns /\ pc = "insert"
          /\ UNCHANGED <<remote, receiver, alive>>
      BY <2>5 DEF Insert
    <3>2. ASSUME NEW d \in Conns, d = dest PROVE HasSender(d)'
      BY <3>1, <3>2
    <3>3. ASSUME NEW d \in Conns, alive, d # dest, receiver'[d] = "open", ~ HasSender(d)'
          PROVE  connections'[remote'[d]] \notin {None, d}
      <4>1. CASE remote[d] = from
        BY <3>1, <3>3, <4>1
      <4>2. CASE remote[d] # from
        <5>1. ~ HasSender(d)
          BY <3>1, <3>3, <4>2 DEF Routed
        <5> QED BY <3>1, <3>3, <4>2, <5>1
      <4> QED BY <4>1, <4>2
    <3>4. alive
      BY <3>1
    <3> QED BY <3>1, <3>2, <3>3, <3>4
  <2>6. CASE Handoff
    BY <2>6 DEF Handoff, NextDatagram
  <2>7. ASSUME NEW reason, Stop(reason) PROVE Inv'
    BY <2>7 DEF Stop
  <2>8. CASE Close
    BY <2>8 DEF Close, task
  <2>9. CASE DropSocket
    BY <2>9 DEF DropSocket, task
  <2>10. CASE Accept
    BY <2>10 DEF Accept, task
  <2>11. ASSUME NEW c \in Conns, Read(c) PROVE Inv'
    BY <2>11 DEF Read, task
  <2>12. ASSUME NEW c \in Conns, DropConnection(c) PROVE Inv'
    BY <2>12 DEF DropConnection, task
  <2>14. CASE HandoffFails
    BY <2>14 DEF HandoffFails, history
  <2>15. CASE StartAcceptor
    BY <2>15 DEF StartAcceptor, task, history
  <2>16. CASE FailAcceptor
    BY <2>16 DEF FailAcceptor, task, history
  <2>13. CASE UNCHANGED vars
    BY <2>13 DEF vars, task
  <2> QED
    BY <2>1, <2>2, <2>3, <2>4, <2>5, <2>6, <2>7, <2>8, <2>9, <2>10, <2>11,
       <2>12, <2>13, <2>14, <2>15, <2>16, NextCases
<1>3. Inv => CutOffOnlyWhenReplaced
  OBVIOUS
<1> QED BY <1>1, <1>2, <1>3, TypeCorrect, RoutedInvariant, PTL DEF Spec

-----------------------------------------------------------------------------
(* Refinement                                                                *)

\* The datagram in the read task's hands is the newest of its remote and has
\* not been delivered.
Undelivered ==
  /\ \A r \in Remotes : forwarded[r] <= arrived[r]
  /\ pc = "send" => datagram = arrived[from] /\ forwarded[from] < datagram

LEMMA UndeliveredInvariant == Spec => []Undelivered
<1> USE IoAssumption DEF IoAssumption
<1>1. Init => Undelivered
  BY DEF Init, Undelivered
<1>2. TypeOK /\ Undelivered /\ [Next]_vars => Undelivered'
  <2> SUFFICES ASSUME TypeOK, Undelivered, [Next]_vars PROVE Undelivered'
    OBVIOUS
  <2> USE DEF TypeOK, Undelivered
  <2>1. ASSUME NEW r \in Remotes, Receive(r) PROVE Undelivered'
    BY <2>1 DEF Receive
  <2>2. ASSUME NEW r \in Remotes, Connect(r) PROVE Undelivered'
    BY <2>2 DEF Connect, task
  <2>3. CASE Forward
    BY <2>3 DEF Forward
  <2>4. CASE Discard
    BY <2>4 DEF Discard, NextDatagram, history
  <2>5. CASE Insert
    BY <2>5 DEF Insert, NextDatagram, history
  <2>6. CASE Handoff
    BY <2>6 DEF Handoff, NextDatagram, history
  <2>7. ASSUME NEW reason, Stop(reason) PROVE Undelivered'
    BY <2>7 DEF Stop, history
  <2>8. CASE Close
    BY <2>8 DEF Close, task, history
  <2>9. CASE DropSocket
    BY <2>9 DEF DropSocket, task, history
  <2>10. CASE Accept
    BY <2>10 DEF Accept, task, history
  <2>11. ASSUME NEW c \in Conns, Read(c) PROVE Undelivered'
    BY <2>11 DEF Read, task, history
  <2>12. ASSUME NEW c \in Conns, DropConnection(c) PROVE Undelivered'
    BY <2>12 DEF DropConnection, task, history
  <2>14. CASE HandoffFails
    BY <2>14 DEF HandoffFails, history
  <2>15. CASE StartAcceptor
    BY <2>15 DEF StartAcceptor, task, history
  <2>16. CASE FailAcceptor
    BY <2>16 DEF FailAcceptor, task, history
  <2>13. CASE UNCHANGED vars
    BY <2>13 DEF vars, task, history
  <2> QED
    BY <2>1, <2>2, <2>3, <2>4, <2>5, <2>6, <2>7, <2>8, <2>9, <2>10, <2>11,
       <2>12, <2>13, <2>14, <2>15, <2>16, NextCases
<1> QED BY <1>1, <1>2, TypeCorrect, PTL DEF Spec

\* The IO layer implements the abstract demultiplexer: datagrams reach only
\* connections of their remote, in order of arrival, and at most one of them
\* at most once, for any interleaving of the read task and its callers.
THEOREM Refinement == Spec => RefinesDemux
<1> USE IoAssumption DEF IoAssumption
<1>1. Init => Demux!AInit
  BY DEF Init, Demux!AInit
<1>2. TypeOK /\ Routed /\ Undelivered /\ [Next]_vars => [Demux!ANext]_(Demux!avars)
  <2> SUFFICES ASSUME TypeOK, Routed, Undelivered, [Next]_vars
               PROVE  Demux!ANext \/ UNCHANGED Demux!avars
    OBVIOUS
  <2> USE DEF TypeOK, Demux!avars
  <2>1. ASSUME NEW r \in Remotes, Receive(r) PROVE Demux!Arrive(r)
    BY <2>1 DEF Receive, NewConnection, Demux!Arrive, Demux!Open
  <2>2. ASSUME NEW r \in Remotes, Connect(r) PROVE Demux!Connect(r)
    BY <2>2 DEF Connect, NewConnection, Demux!Connect, Demux!Open
  <2>3. ASSUME Forward PROVE dest \in Conns /\ from \in Remotes /\ Demux!Deliver(dest, from)
    <3>1. /\ dest \in Conns /\ from \in Remotes
          /\ receiver[dest] = "open" /\ remote[dest] = from
          /\ datagram \in (forwarded[from] + 1) .. arrived[from]
          /\ forwarded[from] < arrived[from]
      BY <2>3 DEF Forward, Routed, Undelivered
    <3>2. \E n \in (forwarded[from] + 1) .. arrived[from] :
            /\ incoming' = [incoming EXCEPT ![dest] = Append(@, n)]
            /\ forwarded' = [forwarded EXCEPT ![from] = n]
      BY <2>3, <3>1 DEF Forward
    <3>3. UNCHANGED <<remote, receiver, arrived>>
      BY <2>3 DEF Forward
    <3> QED BY <3>1, <3>2, <3>3 DEF Demux!Deliver
  <2>4. ASSUME Discard PROVE UNCHANGED Demux!avars
    BY <2>4 DEF Discard, history
  <2>5. ASSUME Insert PROVE UNCHANGED Demux!avars
    BY <2>5 DEF Insert, history
  <2>6. ASSUME Handoff PROVE UNCHANGED Demux!avars
    BY <2>6 DEF Handoff, history
  <2>7. ASSUME NEW reason, Stop(reason) PROVE UNCHANGED Demux!avars
    BY <2>7 DEF Stop, history
  <2>8. ASSUME Close PROVE UNCHANGED Demux!avars
    BY <2>8 DEF Close, history
  <2>9. ASSUME DropSocket PROVE UNCHANGED Demux!avars
    BY <2>9 DEF DropSocket, history
  <2>10. ASSUME Accept PROVE UNCHANGED Demux!avars
    BY <2>10 DEF Accept, history
  <2>11. ASSUME NEW c \in Conns, Read(c) PROVE Demux!Take(c)
    BY <2>11 DEF Read, history, Demux!Take
  <2>12. ASSUME NEW c \in Conns, DropConnection(c) PROVE Demux!ANext
    <3>1. Demux!Drop({c})
      BY <2>12 DEF DropConnection, Owned, history, Demux!Drop
    <3> QED BY <3>1 DEF Demux!ANext
  <2>14. ASSUME HandoffFails PROVE Demux!ANext
    <3>1. made \in Conns /\ Demux!Drop({made})
      BY <2>14 DEF HandoffFails, Routed, history, Demux!Drop
    <3> QED BY <3>1 DEF Demux!ANext
  <2>15. ASSUME StartAcceptor PROVE UNCHANGED Demux!avars
    BY <2>15 DEF StartAcceptor, history
  <2>16. ASSUME FailAcceptor PROVE Demux!ANext
    <3>1. \A c \in Conns : InQueue(c) => receiver[c] = "open"
      BY DEF InQueue, Routed
    <3>2. Demux!Drop({c \in Conns : InQueue(c)})
      BY <2>16, <3>1 DEF FailAcceptor, history, Demux!Drop
    <3> QED BY <3>2 DEF Demux!ANext
  <2>13. CASE UNCHANGED vars
    BY <2>13 DEF vars, history
  <2> QED
    BY <2>1, <2>2, <2>3, <2>4, <2>5, <2>6, <2>7, <2>8, <2>9, <2>10, <2>11,
       <2>12, <2>13, <2>14, <2>15, <2>16, NextCases DEF Demux!ANext
<1> QED
  BY <1>1, <1>2, TypeCorrect, RoutedInvariant, UndeliveredInvariant, PTL
     DEF Spec, RefinesDemux, Demux!ASpec

-----------------------------------------------------------------------------
(* With the accept task *)

\* Every step of the system is a step of IoSocket, or leaves its state alone.
LEMMA TaskStep == ASSUME [TNext]_tvars PROVE [Next]_vars
<1>1. CASE ServingTask
  BY <1>1 DEF ServingTask, Take, ReadFlight, Established, Refused, Accept, Next, Owned,
              Read, DropConnection
<1>2. ASSUME NEW c \in Conns, Own(c) PROVE [Next]_vars
  BY <1>2 DEF Own, Next
<1>3. CASE Others
  BY <1>3 DEF Others, Next, ReadTask
<1>4. CASE Proceed
  BY <1>4 DEF Proceed, Next, ReadTask
<1>5. CASE UNCHANGED tvars
  BY <1>5 DEF tvars
<1> QED BY <1>1, <1>2, <1>3, <1>4, <1>5 DEF TNext

\* The environment IoSocket leaves open covers the accept task and the owners of
\* connections: the system implements IoSocket.
THEOREM ImplementsIoSocket == TSpec => Spec
<1>1. TInit => Init
  BY DEF TInit
<1>2. [TNext]_tvars => [Next]_vars
  BY TaskStep
<1> QED BY <1>1, <1>2, PTL DEF TSpec, Spec

=============================================================================
