--------------------------- MODULE UnixStateProofs ---------------------------
(***************************************************************************)
(* Proofs about the control socket, for all clients and ports, all         *)
(* capacities, and any number of frames.                                   *)
(***************************************************************************)
EXTENDS UnixState, SequenceTheorems, TLAPS

\* Next as the list of its actions, for the case splits below.
LEMMA NextCases ==
  ASSUME [Next]_vars
  PROVE  \/ \E k \in Clients :
              \/ Connect(k) \/ Bind(k) \/ Say(k) \/ Hear(k) \/ Close(k)
              \/ HandleBind(k) \/ HandleUnbound(k) \/ HandleClosed(k)
              \/ ReadRequest(k) \/ PassUp(k) \/ ReadClosed(k)
              \/ WriteReply(k) \/ WriteFails(k) \/ WriterReplaced(k)
         \/ Accept \/ AcceptFails \/ Lookup \/ Enqueue \/ EnqueueFails \/ TakeUp \/ Forwarded
         \/ \E p \in Ports : Arrive(p)
         \/ UNCHANGED vars
  BY DEF Next, Handle, Reader, Writer, Deliver

\* A queue one element longer or shorter.
LEMMA Longer ==
  ASSUME NEW S, NEW s \in Seq(S), NEW e \in S
  PROVE  Append(s, e) \in Seq(S) /\ Len(Append(s, e)) = Len(s) + 1 /\ Len(s) \in Nat
  BY AppendProperties, LenProperties

LEMMA Shorter ==
  ASSUME NEW S, NEW s \in Seq(S), s # <<>>
  PROVE  /\ Tail(s) \in Seq(S) /\ Head(s) \in S
         /\ Len(Tail(s)) = Len(s) - 1 /\ Len(s) \in Nat
  BY HeadTailProperties, LenProperties

LEMMA Increment ==
  ASSUME NEW S, NEW f \in [S -> Nat], NEW k \in S
  PROVE  [f EXCEPT ![k] = @ + 1] \in [S -> Nat]
  OBVIOUS

-----------------------------------------------------------------------------
(* Type correctness *)

\* All variables keep their types and all channels their capacities.
THEOREM TypeCorrect == Spec => []TypeOK
<1> USE UnixAssumption DEF UnixAssumption
<1>1. ASSUME Init PROVE TypeOK
  <2>1. \A S : <<>> \in Seq(S) /\ Len(<<>>) = 0
    BY EmptySeq
  <2> QED BY <1>1, <2>1 DEF Init, TypeOK
<1>2. TypeOK /\ [Next]_vars => TypeOK'
  <2> SUFFICES ASSUME TypeOK, [Next]_vars PROVE TypeOK'
    OBVIOUS
  <2> USE DEF TypeOK
  <2>t. /\ said \in [Clients -> Nat] /\ late \in [Clients -> Nat]
        /\ forwarded \in [Clients -> Nat] /\ arrived \in Nat
        /\ reply \in [Clients -> Seq(Nat)] /\ queue \in [Clients -> Seq(Nat)]
        /\ \A k \in Clients : Len(queue[k]) <= QueueCap /\ Len(reply[k]) <= SocketCap
        /\ delivering \in {None} \cup [id : Nat, to : Clients]
        /\ QueueCap \in Nat /\ SocketCap \in Nat
    OBVIOUS
  <2>0. \A S : <<>> \in Seq(S) /\ Len(<<>>) = 0
    BY EmptySeq
  <2>1. ASSUME NEW k \in Clients, Connect(k) PROVE TypeOK'
    <3>1. backlog' \in Seq(Clients)
      BY <2>1, Longer DEF Connect
    <3> QED BY <2>1, <3>1 DEF Connect, tasks, pumps, history
  <2>2. ASSUME NEW k \in Clients, Bind(k) PROVE TypeOK'
    <3>1. PICK p \in Ports :
            request' = [request EXCEPT ![k] = <<[type |-> "bind", port |-> p]>>]
      BY <2>2 DEF Bind
    <3>2. <<[type |-> "bind", port |-> p]>> \in Seq(Requests)
      BY DEF Requests
    <3> QED BY <2>2, <3>1, <3>2 DEF Bind, tasks, pumps, history
  <2>3. ASSUME NEW k \in Clients, Say(k) PROVE TypeOK'
    <3>1. [type |-> "data"] \in Requests
      BY DEF Requests
    <3>2. request' \in [Clients -> Seq(Requests)]
      BY <2>3, <3>1, Longer DEF Say
    <3>3. said' \in [Clients -> Nat]
      <4> HIDE UnixAssumption DEF TypeOK
      <4> QED BY <2>t, <2>3, Increment DEF Say
    <3> QED BY <2>3, <3>2, <3>3 DEF Say, tasks, pumps
  <2>4. ASSUME NEW k \in Clients, Hear(k) PROVE TypeOK'
    <3>1. PICK n \in 1 .. Len(reply[k]) :
            reply' = [reply EXCEPT ![k] = SubSeq(@, n + 1, Len(@))]
      BY <2>4 DEF Hear
    <3>2. /\ reply[k] \in Seq(Nat) /\ Len(reply[k]) \in Nat /\ Len(reply[k]) <= SocketCap
          /\ n \in Nat /\ 1 <= n /\ n <= Len(reply[k])
      <4>1. reply[k] \in Seq(Nat) /\ Len(reply[k]) <= SocketCap
        BY <2>t
      <4>2. Len(reply[k]) \in Nat
        BY <4>1, LenProperties
      <4> HIDE UnixAssumption DEF TypeOK
      <4> QED BY <4>1, <4>2
    <3>3. \A i \in n + 1 .. Len(reply[k]) : reply[k][i] \in Nat
      <4> HIDE UnixAssumption DEF TypeOK
      <4>1. \A i \in 1 .. Len(reply[k]) : reply[k][i] \in Nat
        BY <3>2, ElementOfSeq
      <4> QED BY <3>2, <4>1
    <3>4. /\ SubSeq(reply[k], n + 1, Len(reply[k])) \in Seq(Nat)
          /\ Len(SubSeq(reply[k], n + 1, Len(reply[k]))) =
               IF n + 1 <= Len(reply[k]) THEN Len(reply[k]) - (n + 1) + 1 ELSE 0
      <4> HIDE UnixAssumption DEF TypeOK
      <4> QED BY <3>2, <3>3, SubSeqProperties
    <3>5. Len(SubSeq(reply[k], n + 1, Len(reply[k]))) <= SocketCap
      BY <2>t, <3>2, <3>4
    <3>6. reply' \in [Clients -> Seq(Nat)] /\ \A c \in Clients : Len(reply'[c]) <= SocketCap
      BY <2>t, <3>1, <3>4, <3>5
    <3> QED BY <2>4, <3>6 DEF Hear, tasks, pumps, history
  <2>5. ASSUME NEW k \in Clients, Close(k) PROVE TypeOK'
    <3>1. reply' \in [Clients -> Seq(Nat)] /\ \A c \in Clients : Len(reply'[c]) <= SocketCap
      <4> HIDE UnixAssumption DEF TypeOK
      <4>1. reply' = [reply EXCEPT ![k] = <<>>]
        BY <2>5 DEF Close
      <4>2. <<>> \in Seq(Nat) /\ Len(<<>>) <= SocketCap
        BY <2>0, <2>t
      <4> QED BY <2>t, <4>1, <4>2
    <3> QED BY <2>5, <3>1 DEF Close, tasks, pumps, history
  <2>6. ASSUME NEW k \in Clients, HandleBind(k) PROVE TypeOK'
    <3>1. Head(request[k]) \in Requests /\ Tail(request[k]) \in Seq(Requests)
      BY <2>6, Shorter DEF HandleBind
    <3>2. Head(request[k]).port \in Ports
      BY <2>6, <3>1 DEF HandleBind, Requests
    <3> QED BY <2>6, <3>1, <3>2 DEF HandleBind, pumps, history
  <2>7. ASSUME NEW k \in Clients, HandleUnbound(k) PROVE TypeOK'
    BY <2>0, <2>7 DEF HandleUnbound, tasks, pumps, history
  <2>8. ASSUME NEW k \in Clients, HandleClosed(k) PROVE TypeOK'
    BY <2>8 DEF HandleClosed, streams, tasks, pumps, history
  <2>9. ASSUME NEW k \in Clients, ReadRequest(k) PROVE TypeOK'
    <3>1. Tail(request[k]) \in Seq(Requests)
      BY <2>9, Shorter DEF ReadRequest
    <3> QED BY <2>9, <3>1 DEF ReadRequest, pumps, history
  <2>10. ASSUME NEW k \in Clients, PassUp(k) PROVE TypeOK'
    <3>1. upward' \in Seq(Clients) /\ Len(upward') <= PumpCap
      BY <2>10, Longer DEF PassUp
    <3> QED BY <2>10, <3>1 DEF PassUp, streams, history
  <2>11. ASSUME NEW k \in Clients, ReadClosed(k) PROVE TypeOK'
    BY <2>11 DEF ReadClosed, streams, pumps, history
  <2>12. ASSUME NEW k \in Clients, WriteReply(k) PROVE TypeOK'
    <3>0. queue[k] \in Seq(Nat) /\ queue[k] # <<>> /\ Len(queue[k]) <= QueueCap
      BY <2>12 DEF WriteReply
    <3>1. /\ Tail(queue[k]) \in Seq(Nat) /\ Head(queue[k]) \in Nat
          /\ Len(Tail(queue[k])) <= QueueCap
      <4> HIDE UnixAssumption DEF TypeOK
      <4>1. /\ Tail(queue[k]) \in Seq(Nat) /\ Head(queue[k]) \in Nat
            /\ Len(Tail(queue[k])) = Len(queue[k]) - 1 /\ Len(queue[k]) \in Nat
        BY <3>0, Shorter
      <4> QED BY <3>0, <4>1, <2>t
    <3>2. /\ Append(reply[k], Head(queue[k])) \in Seq(Nat)
          /\ Len(Append(reply[k], Head(queue[k]))) <= SocketCap
      BY <2>12, <3>1, Longer DEF WriteReply
    <3> QED BY <2>12, <3>1, <3>2 DEF WriteReply, pumps, history
  <2>13. ASSUME NEW k \in Clients, WriteFails(k) \/ WriterReplaced(k) PROVE TypeOK'
    <3>1. EndWriter(k) /\ writer[k] = "up"
      BY <2>13 DEF WriteFails, WriterReplaced
    <3>2. queue' \in [Clients -> Seq(Nat)] /\ \A c \in Clients : Len(queue'[c]) <= QueueCap
      <4> HIDE UnixAssumption DEF TypeOK
      <4>1. queue' = [queue EXCEPT ![k] = <<>>]
        BY <3>1 DEF EndWriter
      <4>2. <<>> \in Seq(Nat) /\ Len(<<>>) <= QueueCap
        BY <2>0, <2>t
      <4> QED BY <2>t, <4>1, <4>2
    <3> QED BY <3>1, <3>2 DEF EndWriter, streams, pumps, history
  <2>14. CASE Accept
    <3>1. Head(backlog) \in Clients /\ Tail(backlog) \in Seq(Clients)
      BY <2>14, Shorter DEF Accept
    <3> QED BY <2>14, <3>1 DEF Accept, streams, tasks, pumps, history
  <2>15. CASE Lookup
    <3>1. /\ Head(downward) \in Frames /\ Tail(downward) \in Seq(Frames)
          /\ Len(Tail(downward)) <= PumpCap
      BY <2>15, Shorter DEF Lookup
    <3>2. delivering' \in {None} \cup [id : Nat, to : Clients]
      BY <2>15, <3>1 DEF Lookup, Frames
    <3> QED BY <2>15, <3>1, <3>2 DEF Lookup, streams, tasks, history
  <2>16. CASE Enqueue
    <3> DEFINE k == delivering.to
    <3>1. k \in Clients /\ delivering.id \in Nat
      BY <2>16 DEF Enqueue
    <3>2. /\ Append(queue[k], delivering.id) \in Seq(Nat)
          /\ Len(Append(queue[k], delivering.id)) <= QueueCap
      BY <2>16, <3>1, Longer DEF Enqueue
    <3>3. queue' \in [Clients -> Seq(Nat)] /\ \A c \in Clients : Len(queue'[c]) <= QueueCap
      BY <2>16, <3>1, <3>2 DEF Enqueue
    <3>4. late' \in [Clients -> Nat]
      <4> HIDE UnixAssumption DEF TypeOK
      <4>1. late' = late \/ late' = [late EXCEPT ![k] = @ + 1]
        BY <2>16 DEF Enqueue
      <4>2. [late EXCEPT ![k] = @ + 1] \in [Clients -> Nat]
        <5> HIDE DEF k
        <5> QED BY <3>1, <2>t, Increment
      <4> QED BY <4>1, <4>2, <2>t
    <3> QED BY <2>16, <3>3, <3>4 DEF Enqueue, streams
  <2>17. CASE EnqueueFails
    BY <2>17 DEF EnqueueFails, streams, tasks, history
  <2>18. CASE TakeUp
    <3>1. /\ Head(upward) \in Clients /\ Tail(upward) \in Seq(Clients)
          /\ Len(Tail(upward)) <= PumpCap
      BY <2>18, Shorter DEF TakeUp
    <3> QED BY <2>18, <3>1 DEF TakeUp, streams, tasks, history
  <2>19. CASE Forwarded
    <3>1. sending \in Clients /\ forwarded' = [forwarded EXCEPT ![sending] = @ + 1]
      BY <2>19 DEF Forwarded
    <3>2. forwarded' \in [Clients -> Nat]
      <4> HIDE UnixAssumption DEF TypeOK
      <4> QED BY <3>1, <2>t, Increment
    <3> QED BY <2>19, <3>2 DEF Forwarded, streams, tasks
  <2>20. ASSUME NEW p \in Ports, Arrive(p) PROVE TypeOK'
    <3>1. [id |-> arrived + 1, port |-> p] \in Frames
      BY DEF Frames
    <3>2. downward' \in Seq(Frames) /\ Len(downward') <= PumpCap
      BY <2>20, <3>1, Longer DEF Arrive
    <3>3. arrived' \in Nat
      <4> HIDE UnixAssumption DEF TypeOK
      <4> QED BY <2>20, <2>t DEF Arrive
    <3> QED BY <2>20, <3>2, <3>3 DEF Arrive, streams, tasks
  <2>21. CASE AcceptFails
    <3>1. /\ backlog' = <<>> /\ listener' = "closed"
          /\ client' = [k \in Clients |->
                         IF \E i \in 1 .. Len(backlog) : backlog[i] = k THEN "closed" ELSE client[k]]
      BY <2>21 DEF AcceptFails
    <3>2. client' \in [Clients -> {"away", "open", "closed"}]
      BY <3>1
    <3>3. backlog' \in Seq(Clients)
      BY <2>0, <3>1
    <3> QED BY <2>21, <3>1, <3>2, <3>3 DEF AcceptFails, tasks, pumps, history
  <2>22. CASE UNCHANGED vars
    BY <2>22 DEF vars, streams, tasks, pumps, history
  <2> QED
    BY <2>1, <2>2, <2>3, <2>4, <2>5, <2>6, <2>7, <2>8, <2>9, <2>10, <2>11, <2>12,
       <2>13, <2>14, <2>15, <2>16, <2>17, <2>18, <2>19, <2>20, <2>21, <2>22, NextCases
<1> QED BY <1>1, <1>2, PTL DEF Spec

-----------------------------------------------------------------------------
(* OneLateFrame *)

\* The registered client of a port has bound it, and so has the one a frame is
\* about to be sent to.
Registered ==
  /\ \A p \in Ports : connections[p] # None => port[connections[p]] = p
  /\ delivering # None => port[delivering.to] # None

\* A client is handled once: before it binds a port it is away, waiting or being
\* handled, afterwards it never is again.
Unhandled(k) == handling = k \/ \E i \in 1 .. Len(backlog) : backlog[i] = k
HandledOnce ==
  /\ \A k \in Clients : Unhandled(k) => client[k] # "away" /\ port[k] = None
  /\ \A k \in Clients : client[k] = "away" => port[k] = None
  /\ \A i, j \in 1 .. Len(backlog) : backlog[i] = backlog[j] => i = j
  /\ \A i \in 1 .. Len(backlog) : backlog[i] # handling

\* A client that got a frame late is replaced for good, and no other frame for
\* it is in the forwarding task's hands.
LateOnce ==
  \A k \in Clients :
    \/ late[k] = 0
    \/ /\ late[k] = 1 /\ port[k] # None /\ connections[port[k]] # k
       /\ delivering # None => delivering.to # k

Replaced == Registered /\ HandledOnce /\ LateOnce

\* The steps that neither register nor deliver.
Quiet ==
  /\ UNCHANGED <<client, backlog, handling, port, connections, late>>
  /\ delivering' = delivering \/ delivering' = None

LEMMA QuietKeeps == ASSUME Replaced, Quiet PROVE Replaced'
<1>1. Registered'
  BY DEF Replaced, Registered, Quiet
<1>2. HandledOnce'
  BY DEF Replaced, HandledOnce, Unhandled, Quiet
<1>3. LateOnce'
  BY DEF Replaced, LateOnce, Quiet
<1> QED BY <1>1, <1>2, <1>3 DEF Replaced

\* A port is taken over at most once from a client that keeps a frame coming:
\* Replaced is inductive, since a client never registers a second time.
LEMMA ReplacedStep == ASSUME TypeOK, Replaced, [Next]_vars PROVE Replaced'
<1>n. None \notin Clients /\ None \notin Ports
  BY UnixAssumption DEF UnixAssumption
<1>1. ASSUME NEW k \in Clients, Connect(k) PROVE Replaced'
  <2>1. /\ client[k] = "away" /\ client' = [client EXCEPT ![k] = "open"]
        /\ UNCHANGED <<handling, port, connections, late, delivering>>
    BY <1>1 DEF Connect, tasks, pumps, history
  <2>2. /\ backlog \in Seq(Clients) /\ backlog' \in Seq(Clients)
        /\ Len(backlog) \in Nat /\ Len(backlog') = Len(backlog) + 1
        /\ \A i \in 1 .. Len(backlog) : backlog'[i] = backlog[i]
        /\ backlog'[Len(backlog) + 1] = k
    BY <1>1, AppendProperties, LenProperties DEF Connect, TypeOK
  <2>3. ~ Unhandled(k) /\ port[k] = None
    BY <2>1 DEF Replaced, HandledOnce
  <2>4. \A c \in Clients : client'[c] = IF c = k THEN "open" ELSE client[c]
    BY <2>1 DEF TypeOK
  <2>5. \A c \in Clients : Unhandled(c)' => Unhandled(c) \/ c = k
    BY <2>1, <2>2 DEF Unhandled
  <2>6. HandledOnce'
    <3>1. \A c \in Clients : Unhandled(c)' => client'[c] # "away" /\ port'[c] = None
      BY <2>1, <2>3, <2>4, <2>5 DEF Replaced, HandledOnce
    <3>2. \A c \in Clients : client'[c] = "away" => port'[c] = None
      BY <2>1, <2>4 DEF Replaced, HandledOnce
    <3>3. \A i \in 1 .. Len(backlog) : backlog[i] # k
      BY <2>3 DEF Unhandled
    <3>4. \A i, j \in 1 .. Len(backlog') : backlog'[i] = backlog'[j] => i = j
      BY <2>2, <3>3 DEF Replaced, HandledOnce
    <3>5. \A i \in 1 .. Len(backlog') : backlog'[i] # handling'
      BY <2>1, <2>2, <2>3 DEF Replaced, HandledOnce, Unhandled
    <3> QED BY <3>1, <3>2, <3>4, <3>5 DEF HandledOnce
  <2>7. Registered' /\ LateOnce'
    BY <2>1 DEF Replaced, Registered, LateOnce
  <2> QED BY <2>6, <2>7 DEF Replaced
<1>2. CASE Accept
  <2>1. /\ handling = None /\ handling' = Head(backlog) /\ backlog' = Tail(backlog)
        /\ backlog \in Seq(Clients) /\ backlog # <<>>
        /\ UNCHANGED <<client, port, connections, late, delivering>>
    BY <1>2 DEF Accept, streams, tasks, pumps, history, TypeOK
  <2>2. /\ Len(backlog) \in Nat /\ Len(backlog) > 0 /\ Len(backlog') = Len(backlog) - 1
        /\ \A i \in 1 .. Len(backlog') : backlog'[i] = backlog[i + 1]
        /\ handling' = backlog[1]
    BY <2>1, HeadTailProperties, LenProperties, EmptySeq
  <2>3. \A c \in Clients : Unhandled(c)' => Unhandled(c)
    BY <2>2 DEF Unhandled
  <2>4. HandledOnce'
    <3>1. \A c \in Clients : Unhandled(c)' => client'[c] # "away" /\ port'[c] = None
      BY <2>1, <2>3 DEF Replaced, HandledOnce
    <3>2. \A c \in Clients : client'[c] = "away" => port'[c] = None
      BY <2>1 DEF Replaced, HandledOnce
    <3>3. \A i, j \in 1 .. Len(backlog') : backlog'[i] = backlog'[j] => i = j
      BY <2>2 DEF Replaced, HandledOnce
    <3>4. \A i \in 1 .. Len(backlog') : backlog'[i] # handling'
      BY <2>2 DEF Replaced, HandledOnce
    <3> QED BY <3>1, <3>2, <3>3, <3>4 DEF HandledOnce
  <2>5. Registered' /\ LateOnce'
    BY <2>1 DEF Replaced, Registered, LateOnce
  <2> QED BY <2>4, <2>5 DEF Replaced
<1>3. ASSUME NEW k \in Clients, HandleBind(k) PROVE Replaced'
  <2> DEFINE p == Head(request[k]).port
  <2>1. /\ handling = k /\ handling' = None
        /\ connections' = [connections EXCEPT ![p] = k] /\ port' = [port EXCEPT ![k] = p]
        /\ UNCHANGED <<client, backlog, delivering, late>>
    BY <1>3 DEF HandleBind, pumps, history
  <2>2. p \in Ports
    <3>1. Head(request[k]) \in Requests
      BY <1>3, Shorter DEF HandleBind, TypeOK
    <3> QED BY <1>3, <3>1 DEF HandleBind, Requests
  <2> HIDE DEF p
  <2>3. port[k] = None /\ client[k] # "away" /\ late[k] = 0
    BY <2>1 DEF Replaced, HandledOnce, Unhandled, LateOnce
  <2>4. /\ \A c \in Clients : port'[c] = IF c = k THEN p ELSE port[c]
        /\ \A q \in Ports : connections'[q] = IF q = p THEN k ELSE connections[q]
        /\ connections \in [Ports -> Clients \cup {None}]
        /\ port \in [Clients -> Ports \cup {None}]
        /\ delivering \in {None} \cup [id : Nat, to : Clients]
    BY <2>1, <2>2 DEF TypeOK
  <2>5. Registered'
    <3>1. \A q \in Ports : connections'[q] # None => port'[connections'[q]] = q
      BY <1>n, <2>2, <2>3, <2>4 DEF Replaced, Registered
    <3>2. delivering' # None => port'[delivering'.to] # None
      BY <1>n, <2>1, <2>2, <2>4 DEF Replaced, Registered
    <3> QED BY <3>1, <3>2 DEF Registered
  <2>6. HandledOnce'
    <3>1. \A c \in Clients : Unhandled(c)' => Unhandled(c) /\ c # k
      BY <1>n, <2>1 DEF Replaced, HandledOnce, Unhandled
    <3>2. \A c \in Clients : Unhandled(c)' => client'[c] # "away" /\ port'[c] = None
      BY <2>1, <2>4, <3>1 DEF Replaced, HandledOnce
    <3>3. \A c \in Clients : client'[c] = "away" => port'[c] = None
      BY <2>1, <2>3, <2>4 DEF Replaced, HandledOnce
    <3>4. \A i, j \in 1 .. Len(backlog') : backlog'[i] = backlog'[j] => i = j
      BY <2>1 DEF Replaced, HandledOnce
    <3>5. \A i \in 1 .. Len(backlog') : backlog'[i] # handling'
      <4>1. \A i \in 1 .. Len(backlog) : backlog[i] \in Clients
        BY ElementOfSeq DEF TypeOK
      <4> QED BY <1>n, <2>1, <4>1
    <3> QED BY <3>2, <3>3, <3>4, <3>5 DEF HandledOnce
  <2>7. LateOnce'
    BY <1>n, <2>1, <2>2, <2>3, <2>4 DEF Replaced, LateOnce
  <2> QED BY <2>5, <2>6, <2>7 DEF Replaced
<1>4. ASSUME NEW k \in Clients, HandleUnbound(k) \/ HandleClosed(k) \/ Close(k)
      PROVE  Replaced'
  <2>1. /\ UNCHANGED <<backlog, port, connections, late, delivering>>
        /\ client' = client \/ client' = [client EXCEPT ![k] = "closed"]
        /\ handling' = handling \/ handling' = None
    BY <1>4 DEF HandleUnbound, HandleClosed, Close, streams, tasks, pumps, history
  <2>2. \A c \in Clients : client'[c] = "away" => client[c] = "away"
    BY <2>1 DEF TypeOK
  <2>3. \A c \in Clients : client'[c] = client[c] \/ client'[c] = "closed"
    BY <2>1 DEF TypeOK
  <2>4. HandledOnce'
    <3>1. \A c \in Clients : Unhandled(c)' => client'[c] # "away" /\ port'[c] = None
      BY <1>n, <2>1, <2>2 DEF Replaced, HandledOnce, Unhandled
    <3>2. \A c \in Clients : client'[c] = "away" => port'[c] = None
      BY <2>1, <2>2 DEF Replaced, HandledOnce
    <3>3. \A i \in 1 .. Len(backlog) : backlog[i] \in Clients
      BY ElementOfSeq DEF TypeOK
    <3>4. /\ \A i, j \in 1 .. Len(backlog') : backlog'[i] = backlog'[j] => i = j
          /\ \A i \in 1 .. Len(backlog') : backlog'[i] # handling'
      BY <1>n, <2>1, <3>3 DEF Replaced, HandledOnce
    <3> QED BY <3>1, <3>2, <3>4 DEF HandledOnce
  <2>5. Registered' /\ LateOnce'
    BY <2>1 DEF Replaced, Registered, LateOnce
  <2> QED BY <2>4, <2>5 DEF Replaced
<1>5. CASE Lookup
  <2>1. /\ delivering = None /\ downward # <<>>
        /\ UNCHANGED <<client, backlog, handling, port, connections, late>>
    BY <1>5 DEF Lookup, streams, tasks, history
  <2>2. delivering' = None \/ \E q \in Ports :
          connections[q] # None /\ delivering'.to = connections[q]
    <3>1. Head(downward) \in Frames
      BY <2>1, Shorter DEF TypeOK
    <3> QED BY <1>5, <3>1 DEF Lookup, Frames
  <2>3. HandledOnce'
    BY <2>1 DEF Replaced, HandledOnce, Unhandled
  <2>4. Registered'
    BY <1>n, <2>1, <2>2 DEF Replaced, Registered
  <2>5. LateOnce'
    BY <2>1, <2>2 DEF Replaced, Registered, LateOnce
  <2> QED BY <2>3, <2>4, <2>5 DEF Replaced
<1>6. CASE Enqueue
  <2> DEFINE k == delivering.to
  <2>1. /\ delivering # None /\ delivering' = None
        /\ UNCHANGED <<client, backlog, handling, port, connections>>
        /\ late' = IF connections[port[k]] = k THEN late ELSE [late EXCEPT ![k] = @ + 1]
    BY <1>6 DEF Enqueue, streams
  <2>2. (k \in Clients /\ port[k] # None /\ late[k] = 0) \/ late' = late
    BY <2>1 DEF Replaced, Registered, LateOnce, TypeOK
  <2>3. Registered' /\ HandledOnce'
    BY <2>1 DEF Replaced, Registered, HandledOnce, Unhandled
  <2>4. LateOnce'
    <3>1. CASE late' = late
      BY <2>1, <3>1 DEF Replaced, LateOnce
    <3>2. CASE late' # late
      <4>1. /\ k \in Clients /\ port[k] # None /\ late[k] = 0 /\ connections[port[k]] # k
            /\ late' = [late EXCEPT ![k] = @ + 1]
        BY <2>1, <2>2, <3>2
      <4>2. \A c \in Clients : late'[c] = IF c = k THEN 1 ELSE late[c]
        BY <4>1 DEF TypeOK
      <4> HIDE DEF k
      <4> QED BY <2>1, <4>1, <4>2 DEF Replaced, LateOnce
    <3> QED BY <3>1, <3>2
  <2> QED BY <2>3, <2>4 DEF Replaced
<1>7. ASSUME NEW k \in Clients,
             \/ Bind(k) \/ Say(k) \/ Hear(k) \/ ReadRequest(k) \/ PassUp(k) \/ ReadClosed(k)
             \/ WriteReply(k) \/ WriteFails(k) \/ WriterReplaced(k)
      PROVE  Replaced'
  <2>1. CASE Bind(k) \/ Say(k) \/ Hear(k)
    BY <2>1, QuietKeeps DEF Bind, Say, Hear, Quiet, tasks, pumps, history
  <2>2. CASE ReadRequest(k) \/ PassUp(k) \/ ReadClosed(k)
    BY <2>2, QuietKeeps DEF ReadRequest, PassUp, ReadClosed, Quiet, streams, pumps, history
  <2>3. CASE WriteReply(k) \/ WriteFails(k) \/ WriterReplaced(k)
    BY <2>3, QuietKeeps
       DEF WriteReply, WriteFails, WriterReplaced, EndWriter, Quiet, streams, pumps, history
  <2> QED BY <1>7, <2>1, <2>2, <2>3
<1>8. CASE EnqueueFails \/ TakeUp \/ Forwarded \/ \E p \in Ports : Arrive(p)
  BY <1>8, QuietKeeps DEF EnqueueFails, TakeUp, Forwarded, Arrive, Quiet, streams, tasks, history
<1>9. CASE AcceptFails
  <2>1. /\ backlog' = <<>> /\ handling = None
        /\ UNCHANGED <<handling, port, connections, late, delivering>>
        /\ \A k \in Clients : client'[k] = client[k] \/ client'[k] = "closed"
    BY <1>9 DEF AcceptFails, tasks, pumps, history
  <2>2. Len(backlog') = 0
    BY <2>1, EmptySeq
  <2>3. \A k \in Clients : ~ Unhandled(k)'
    BY <1>n, <2>1, <2>2 DEF Unhandled
  <2>4. HandledOnce'
    BY <2>1, <2>2, <2>3 DEF Replaced, HandledOnce
  <2>5. Registered' /\ LateOnce'
    BY <2>1 DEF Replaced, Registered, LateOnce
  <2> QED BY <2>4, <2>5 DEF Replaced
<1>10. CASE UNCHANGED vars
  BY <1>10, QuietKeeps DEF Quiet, vars, streams, tasks, pumps, history
<1> QED
  BY <1>1, <1>2, <1>3, <1>4, <1>5, <1>6, <1>7, <1>8, <1>9, <1>10, NextCases

\* After a port is taken over, at most the frame deliver_frame() holds still goes
\* to the client that had it.
THEOREM OneLateFrameHolds == Spec => []OneLateFrame
<1>1. ASSUME Init PROVE Replaced
  <2>1. Len(backlog) = 0 /\ handling = None /\ None \notin Clients
    BY <1>1, UnixAssumption, EmptySeq DEF Init, UnixAssumption
  <2>2. HandledOnce
    BY <1>1, <2>1 DEF Init, HandledOnce, Unhandled
  <2>3. Registered /\ LateOnce
    BY <1>1 DEF Init, Registered, LateOnce
  <2> QED BY <2>2, <2>3 DEF Replaced
<1>2. TypeOK /\ Replaced /\ [Next]_vars => Replaced'
  BY ReplacedStep
<1>3. TypeOK /\ Replaced => OneLateFrame
  <2>1. ASSUME Replaced, NEW k \in Clients PROVE late[k] <= 1
    <3>1. late[k] = 0 \/ late[k] = 1
      BY <2>1 DEF Replaced, LateOnce
    <3> QED BY <3>1
  <2> QED BY <2>1 DEF OneLateFrame
<1> QED BY <1>1, <1>2, <1>3, TypeCorrect, PTL DEF Spec
=============================================================================
