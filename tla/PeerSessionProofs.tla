------------------------- MODULE PeerSessionProofs -------------------------
(***************************************************************************)
(* Proofs about the connections between daemons, for any number of daemons *)
(* and connections, any frames and restarts.                               *)
(***************************************************************************)
EXTENDS PeerSession, SequenceTheorems, TLAPS

\* Next as the list of its actions, for the case splits below.
LEMMA NextCases ==
  ASSUME [Next]_vars
  PROVE  \/ \E n, m \in Nodes : Send(n, m) \/ \E d \in wire[m][n] : Receive(n, m, d)
         \/ \E n \in Nodes : AcceptNext(n) \/ Restart(n)
         \/ \E n \in Nodes, c \in Conns :
              \/ \E d \in {Head(inbox[n][c])} :
                   Connecting(n, c, d) \/ Accepting(n, c, d) \/ Refuse(n, c, d) \/ Deliver(n, c, d)
              \/ List(n, c) \/ EndOfStream(n, c) \/ Timeout(n, c)
         \/ UNCHANGED vars
  BY DEF Next, Handle

\* Datagrams, and what is read from them.
LEMMA Datagrams ==
  /\ \A k \in {"hello", "answer", "finish", "done"}, s \in Sessions : Flight(k, s) \in Datagram
  /\ \A s \in Sessions, i \in Nat : Data(s, i) \in Datagram
  /\ \A d \in Datagram : d.session \in Sessions /\ (d.kind = "data" => d.frame \in Nat)
  BY DEF Flight, Data, Datagram

LEMMA OwnSessions == \A n \in Nodes, c \in Conns : <<n, c>> \in Sessions
  BY DEF Sessions

\* A queue one element longer or shorter.
LEMMA Longer ==
  ASSUME NEW S, NEW s \in Seq(S), NEW e \in S
  PROVE  /\ Append(s, e) \in Seq(S) /\ Len(Append(s, e)) = Len(s) + 1 /\ Len(s) \in Nat
         /\ Append(s, e) # <<>>
         /\ \A i \in 1 .. Len(s) : Append(s, e)[i] = s[i]
         /\ Append(s, e)[Len(s) + 1] = e
<1>1. Append(s, e) \in Seq(S) /\ Len(Append(s, e)) = Len(s) + 1 /\ Len(s) \in Nat
  BY AppendProperties, LenProperties
<1>2. /\ \A i \in 1 .. Len(s) : Append(s, e)[i] = s[i]
      /\ Append(s, e)[Len(s) + 1] = e
  BY AppendProperties
<1>3. Append(s, e) # <<>>
  BY AppendProperties
<1> QED BY <1>1, <1>2, <1>3

LEMMA Shorter ==
  ASSUME NEW S, NEW s \in Seq(S), s # <<>>
  PROVE  /\ Tail(s) \in Seq(S) /\ Head(s) \in S /\ Head(s) = s[1]
         /\ Len(Tail(s)) = Len(s) - 1 /\ Len(s) \in Nat /\ Len(s) >= 1
         /\ \A i \in 1 .. Len(Tail(s)) : Tail(s)[i] = s[i + 1]
<1>1. /\ Tail(s) \in Seq(S) /\ Head(s) \in S
      /\ Len(Tail(s)) = Len(s) - 1 /\ Len(s) \in Nat
  BY HeadTailProperties, LenProperties
<1>2. Len(s) # 0
  BY EmptySeq
<1>3. \A i \in 1 .. Len(Tail(s)) : Tail(s)[i] = s[i + 1]
  BY HeadTailProperties
<1>4. Head(s) = s[1]
  OBVIOUS
<1> QED BY <1>1, <1>2, <1>3, <1>4

LEMMA Empty ==
  ASSUME NEW S
  PROVE  <<>> \in Seq(S) /\ Len(<<>>) = 0
  BY EmptySeq

-----------------------------------------------------------------------------
(* The stages of connections *)

\* Whose a connection is, and what the tables point to.
Linked(n, c) ==
  /\ stage[n][c] = "unborn" => inbox[n][c] = <<>>
  /\ stage[n][c] # "unborn" => peer[n][c] \in Nodes /\ peer[n][c] # n
  /\ stage[n][c] = "connect" => session[n][c] = <<n, c>> /\ pump[n] = c
  /\ stage[n][c] = "up" => session[n][c] \in Sessions
PointsTo(n, m, c) == c # None => peer[n][c] = m /\ stage[n][c] # "unborn"
Queued(n) ==
  /\ \A i \in 1 .. Len(accepts[n]) : stage[n][accepts[n][i]] = "queued"
  /\ \A i, j \in 1 .. Len(accepts[n]) : accepts[n][i] = accepts[n][j] => i = j
Stages ==
  /\ \A n \in Nodes, c \in Conns : Linked(n, c)
  /\ \A n, m \in Nodes : PointsTo(n, m, entry[n][m]) /\ PointsTo(n, m, table[n][m])
  /\ \A n \in Nodes : Queued(n) /\ wire[n][n] = {}

\* What the steps below use of the types.
LEMMA Typed ==
  ASSUME TypeOK
  PROVE  /\ entry \in [Nodes -> [Nodes -> Conns \cup {None}]]
         /\ peer \in [Nodes -> [Conns -> Nodes \cup {None}]]
         /\ session \in [Nodes -> [Conns -> Sessions \cup {None}]]
         /\ inbox \in [Nodes -> [Conns -> Seq(Datagram)]]
         /\ accepts \in [Nodes -> Seq(Conns)]
         /\ wire \in [Nodes -> [Nodes -> SUBSET Datagram]]
         /\ sent \in [Nodes -> [Nodes -> Nat]]
         /\ delivered \in [Nodes -> [Nodes -> Seq(Nat)]]
  BY DEF TypeOK

\* Queues of datagrams keep their type.
LEMMA Transmits ==
  ASSUME TypeOK, NEW n \in Nodes, NEW m \in Nodes, NEW d \in Datagram, Transmit(n, m, d)
  PROVE  wire' \in [Nodes -> [Nodes -> SUBSET Datagram]]
  BY Typed DEF Transmit

LEMMA Consumes ==
  ASSUME TypeOK, NEW n \in Nodes, NEW c \in Conns, NEW d, Reads(n, c, d), Consume(n, c)
  PROVE  inbox' \in [Nodes -> [Conns -> Seq(Datagram)]] /\ d \in Datagram
<1>1. Tail(inbox[n][c]) \in Seq(Datagram) /\ Head(inbox[n][c]) \in Datagram
  BY Typed, Shorter DEF Reads
<1> QED BY Typed, <1>1 DEF Reads, Consume

LEMMA Drops ==
  ASSUME TypeOK, NEW n \in Nodes, NEW c \in Conns, Drop(n, c)
  PROVE  /\ inbox' \in [Nodes -> [Conns -> Seq(Datagram)]]
         /\ stage' \in [Nodes -> [Conns -> {"unborn", "connect", "queued", "accept", "up", "dropped"}]]
<1>1. <<>> \in Seq(Datagram)
  BY Empty
<1> QED BY <1>1 DEF Drop, TypeOK

LEMMA TypeStep == ASSUME TypeOK, Stages, [Next]_vars PROVE TypeOK'
<1> USE SessionAssumption DEF SessionAssumption
<1> USE DEF TypeOK, conns, tables, history
<1>1. ASSUME NEW n \in Nodes, NEW m \in Nodes, NEW d \in wire[m][n], Receive(n, m, d) PROVE TypeOK'
  <2>1. d \in Datagram
    BY Typed
  <2>2. wire' \in [Nodes -> [Nodes -> SUBSET Datagram]]
    <3> HIDE SessionAssumption DEF TypeOK
    <3>1. wire' = [wire EXCEPT ![m][n] = @ \ {d}]
      BY <1>1 DEF Receive
    <3> QED BY <3>1, Typed
  <2>3. CASE entry[n][m] = None
    <3>1. PICK c \in Conns :
             /\ stage[n][c] = "unborn"
             /\ stage' = [stage EXCEPT ![n][c] = "queued"]
             /\ peer' = [peer EXCEPT ![n][c] = m]
             /\ inbox' = [inbox EXCEPT ![n][c] = <<d>>]
             /\ entry' = [entry EXCEPT ![n][m] = c]
             /\ accepts' = [accepts EXCEPT ![n] = Append(@, c)]
      BY <1>1, <2>3 DEF Receive
    <3>2. <<d>> \in Seq(Datagram)
      BY <2>1
    <3>3. inbox' \in [Nodes -> [Conns -> Seq(Datagram)]]
      BY <3>1, <3>2, Typed
    <3>4. Append(accepts[n], c) \in Seq(Conns)
      BY Typed, Longer
    <3>5. accepts' \in [Nodes -> Seq(Conns)]
      BY <3>1, <3>4, Typed
    <3>6. /\ stage' = [stage EXCEPT ![n][c] = "queued"] /\ peer' = [peer EXCEPT ![n][c] = m]
          /\ entry' = [entry EXCEPT ![n][m] = c]
      BY <3>1
    <3>7. UNCHANGED <<session, accepting, table, pump, sent, delivered, restarts, refused>>
      BY <1>1, <2>3 DEF Receive
    <3>8. stage[n][c] = "unborn"
      BY <3>1
    <3>9. stage' \in [Nodes -> [Conns -> {"unborn", "connect", "queued", "accept", "up", "dropped"}]]
      BY <3>6
    <3>10. /\ peer' \in [Nodes -> [Conns -> Nodes \cup {None}]]
           /\ entry' \in [Nodes -> [Nodes -> Conns \cup {None}]]
      BY <3>6, Typed
    <3>11. \A k \in Nodes : /\ accepting'[k] # None => stage'[k][accepting'[k]] \in {"accept", "up", "dropped"}
                            /\ pump'[k] # None => stage'[k][pump'[k]] = "connect"
      <4>1. \A k \in Nodes, x \in Conns : stage'[k][x] # stage[k][x] => stage[k][x] = "unborn"
        BY <3>6, <3>8
      <4>2. \A k \in Nodes : /\ accepting[k] \in Conns \cup {None} /\ pump[k] \in Conns \cup {None}
                             /\ accepting[k] # None => stage[k][accepting[k]] \in {"accept", "up", "dropped"}
                             /\ pump[k] # None => stage[k][pump[k]] = "connect"
        OBVIOUS
      <4>3. accepting' = accepting /\ pump' = pump
        BY <3>7
      <4> HIDE SessionAssumption DEF TypeOK
      <4> QED BY <4>1, <4>2, <4>3
    <3>12. /\ session' \in [Nodes -> [Conns -> Sessions \cup {None}]]
           /\ accepting' \in [Nodes -> Conns \cup {None}] /\ pump' \in [Nodes -> Conns \cup {None}]
           /\ table' \in [Nodes -> [Nodes -> Conns \cup {None}]]
           /\ sent' \in [Nodes -> [Nodes -> Nat]] /\ restarts' \in Nat /\ refused' \in Nat
           /\ delivered' \in [Nodes -> [Nodes -> Seq(Nat)]]
      BY <3>7
    <3> HIDE SessionAssumption DEF TypeOK
    <3> QED BY <2>2, <3>3, <3>5, <3>9, <3>10, <3>11, <3>12 DEF TypeOK
  <2>4. CASE entry[n][m] # None
    <3>1. Append(inbox[n][entry[n][m]], d) \in Seq(Datagram)
      BY <2>1, <2>4, Typed, Longer
    <3>2. inbox' \in [Nodes -> [Conns -> Seq(Datagram)]]
      <4> HIDE SessionAssumption DEF TypeOK
      <4>1. inbox' = IF stage[n][entry[n][m]] = "dropped" THEN inbox
                     ELSE [inbox EXCEPT ![n][entry[n][m]] = Append(@, d)]
        BY <1>1, <2>4 DEF Receive
      <4>2. inbox \in [Nodes -> [Conns -> Seq(Datagram)]]
        BY Typed
      <4> QED BY <3>1, <4>1, <4>2
    <3>3. /\ UNCHANGED <<stage, peer, session, entry, accepts>>
          /\ UNCHANGED <<accepting, table, pump, sent, delivered, restarts, refused>>
      BY <1>1, <2>4 DEF Receive
    <3> QED BY <2>2, <3>2, <3>3
  <2> QED BY <2>3, <2>4
<1>2. ASSUME NEW n \in Nodes, NEW m \in Nodes, Send(n, m) PROVE TypeOK'
  <2>1. sent' \in [Nodes -> [Nodes -> Nat]]
    <3> HIDE SessionAssumption DEF TypeOK
    <3>1. sent' = [sent EXCEPT ![n][m] = sent[n][m] + 1]
      BY <1>2 DEF Send
    <3>2. sent \in [Nodes -> [Nodes -> Nat]]
      BY Typed
    <3> QED BY <3>1, <3>2
  <2>2. CASE SendOnExisting(n, m)
    <3>1. session[n][table[n][m]] \in Sessions
      BY <2>2 DEF SendOnExisting, Stages, Linked
    <3>2. Data(session[n][table[n][m]], sent'[n][m]) \in Datagram
      <4> HIDE SessionAssumption DEF TypeOK
      <4>1. sent'[n][m] \in Nat
        BY <2>1
      <4> QED BY <3>1, <4>1, Datagrams
    <3>3. wire' \in [Nodes -> [Nodes -> SUBSET Datagram]]
      BY <2>2, <3>2, Transmits DEF SendOnExisting
    <3> QED BY <1>2, <2>1, <2>2, <3>3 DEF SendOnExisting, Send
  <2>3. CASE SendFails(n, m)
    BY <1>2, <2>1, <2>3 DEF SendFails, Send
  <2>4. CASE SendOnNew(n, m)
    <3>1. PICK c \in Conns : /\ Register(n, c, m)
                             /\ Transmit(n, m, Flight("hello", <<n, c>>))
                             /\ pump' = [pump EXCEPT ![n] = c]
      BY <2>4 DEF SendOnNew
    <3>2. wire' \in [Nodes -> [Nodes -> SUBSET Datagram]]
      BY <3>1, Datagrams, OwnSessions, Transmits
    <3>3. session' \in [Nodes -> [Conns -> Sessions \cup {None}]]
      BY <3>1, OwnSessions, Typed DEF Register
    <3>4. pump[n] = None
      BY <1>2 DEF Send
    <3>5. /\ UNCHANGED <<inbox, accepts, accepting, table, delivered, restarts, refused>>
          /\ stage[n][c] = "unborn"
          /\ stage' = [stage EXCEPT ![n][c] = "connect"] /\ peer' = [peer EXCEPT ![n][c] = m]
          /\ entry' = [entry EXCEPT ![n][m] = c] /\ pump' = [pump EXCEPT ![n] = c]
      BY <1>2, <2>4, <3>1 DEF SendOnNew, Send, Register
    <3> QED BY <2>1, <3>2, <3>3, <3>4, <3>5
  <2> QED BY <1>2, <2>2, <2>3, <2>4 DEF Send
<1>3. ASSUME NEW n \in Nodes, AcceptNext(n) PROVE TypeOK'
  <2>1. Head(accepts[n]) \in Conns /\ Tail(accepts[n]) \in Seq(Conns)
    BY <1>3, Typed, Shorter DEF AcceptNext
  <2>2. stage[n][Head(accepts[n])] = "queued"
    <3>1. accepts[n] # <<>> /\ accepts[n] \in Seq(Conns)
      BY <1>3, Typed DEF AcceptNext
    <3> HIDE SessionAssumption DEF TypeOK
    <3>2. Head(accepts[n]) = accepts[n][1] /\ 1 \in 1 .. Len(accepts[n])
      BY <3>1, Shorter
    <3>3. Queued(n)
      BY DEF Stages
    <3> QED BY <3>2, <3>3 DEF Queued
  <2>3. accepts' \in [Nodes -> Seq(Conns)]
    BY <1>3, <2>1, Typed DEF AcceptNext
  <2>4. /\ accepting' = [accepting EXCEPT ![n] = Head(accepts[n])]
        /\ stage' = [stage EXCEPT ![n][Head(accepts[n])] = "accept"]
        /\ UNCHANGED <<peer, session, inbox, entry, table, pump, wire, sent, delivered, restarts, refused>>
    BY <1>3 DEF AcceptNext
  <2>5. /\ stage' \in [Nodes -> [Conns -> {"unborn", "connect", "queued", "accept", "up", "dropped"}]]
        /\ accepting' \in [Nodes -> Conns \cup {None}]
    BY <2>1, <2>4
  <2>6. \A k \in Nodes : /\ accepting'[k] # None => stage'[k][accepting'[k]] \in {"accept", "up", "dropped"}
                         /\ pump'[k] # None => stage'[k][pump'[k]] = "connect"
    <3>1. \A k \in Nodes, x \in Conns : stage'[k][x] =
            IF k = n /\ x = Head(accepts[n]) THEN "accept" ELSE stage[k][x]
      BY <2>1, <2>4
    <3>2. \A k \in Nodes : accepting'[k] = IF k = n THEN Head(accepts[n]) ELSE accepting[k]
      BY <2>1, <2>4
    <3>3. \A k \in Nodes : accepting[k] \in Conns \cup {None} /\ pump[k] \in Conns \cup {None}
      OBVIOUS
    <3>4. \A k \in Nodes : /\ accepting[k] # None => stage[k][accepting[k]] \in {"accept", "up", "dropped"}
                           /\ pump[k] # None => stage[k][pump[k]] = "connect"
      OBVIOUS
    <3> HIDE SessionAssumption DEF TypeOK
    <3> QED BY <2>1, <2>2, <2>4, <3>1, <3>2, <3>3, <3>4
  <2>7. /\ peer' \in [Nodes -> [Conns -> Nodes \cup {None}]]
        /\ session' \in [Nodes -> [Conns -> Sessions \cup {None}]]
        /\ inbox' \in [Nodes -> [Conns -> Seq(Datagram)]]
        /\ entry' \in [Nodes -> [Nodes -> Conns \cup {None}]]
        /\ table' \in [Nodes -> [Nodes -> Conns \cup {None}]]
        /\ pump' \in [Nodes -> Conns \cup {None}]
        /\ wire' \in [Nodes -> [Nodes -> SUBSET Datagram]]
        /\ sent' \in [Nodes -> [Nodes -> Nat]] /\ restarts' \in Nat /\ refused' \in Nat
        /\ delivered' \in [Nodes -> [Nodes -> Seq(Nat)]]
    BY <2>4
  <2> HIDE SessionAssumption DEF TypeOK
  <2> QED BY <2>3, <2>5, <2>6, <2>7 DEF TypeOK
<1>4. ASSUME NEW n \in Nodes, Restart(n) PROVE TypeOK'
  <2>1. <<>> \in Seq(Datagram) /\ <<>> \in Seq(Conns)
    BY Empty
  <2>2. inbox' \in [Nodes -> [Conns -> Seq(Datagram)]] /\ accepts' \in [Nodes -> Seq(Conns)]
    BY <1>4, <2>1, Typed DEF Restart
  <2>3. /\ stage' = [stage EXCEPT ![n] = [c \in Conns |-> IF @[c] = "unborn" THEN "unborn" ELSE "dropped"]]
        /\ accepting' = [accepting EXCEPT ![n] = None]
        /\ pump' = [pump EXCEPT ![n] = None]
        /\ entry' = [entry EXCEPT ![n] = [m \in Nodes |-> None]]
        /\ table' = [table EXCEPT ![n] = [m \in Nodes |-> None]]
        /\ UNCHANGED <<peer, session, wire, sent, delivered, refused>> /\ restarts' = restarts + 1
    BY <1>4 DEF Restart
  <2>4. /\ stage' \in [Nodes -> [Conns -> {"unborn", "connect", "queued", "accept", "up", "dropped"}]]
        /\ accepting' \in [Nodes -> Conns \cup {None}] /\ pump' \in [Nodes -> Conns \cup {None}]
    BY <2>3
  <2>5. /\ entry' \in [Nodes -> [Nodes -> Conns \cup {None}]]
        /\ table' \in [Nodes -> [Nodes -> Conns \cup {None}]]
    BY <2>3
  <2>6. \A k \in Nodes : /\ accepting'[k] # None => stage'[k][accepting'[k]] \in {"accept", "up", "dropped"}
                         /\ pump'[k] # None => stage'[k][pump'[k]] = "connect"
    <3>1. \A k \in Nodes : k # n => /\ stage'[k] = stage[k] /\ pump'[k] = pump[k]
                                    /\ accepting'[k] = accepting[k]
      BY <2>3
    <3>2. accepting'[n] = None /\ pump'[n] = None
      BY <2>3
    <3>3. \A k \in Nodes : /\ accepting[k] # None => stage[k][accepting[k]] \in {"accept", "up", "dropped"}
                           /\ pump[k] # None => stage[k][pump[k]] = "connect"
      OBVIOUS
    <3> HIDE SessionAssumption DEF TypeOK
    <3> QED BY <3>1, <3>2, <3>3
  <2>7. /\ peer' \in [Nodes -> [Conns -> Nodes \cup {None}]]
        /\ session' \in [Nodes -> [Conns -> Sessions \cup {None}]]
        /\ wire' \in [Nodes -> [Nodes -> SUBSET Datagram]]
        /\ sent' \in [Nodes -> [Nodes -> Nat]] /\ restarts' \in Nat /\ refused' \in Nat
        /\ delivered' \in [Nodes -> [Nodes -> Seq(Nat)]]
    BY <2>3
  <2> HIDE SessionAssumption DEF TypeOK
  <2> QED BY <2>2, <2>4, <2>5, <2>6, <2>7 DEF TypeOK
<1>5. ASSUME NEW n \in Nodes, NEW c \in Conns, NEW d, Connecting(n, c, d) PROVE TypeOK'
  <2>0. peer[n][c] \in Nodes /\ sent[n][peer[n][c]] \in Nat /\ pump[n] = c
    BY <1>5 DEF Connecting, ConnectFails, Stages, Linked
  <2>1. CASE Consume(n, c) /\ stage' = stage /\ pump' = pump
    <3>1. inbox' \in [Nodes -> [Conns -> Seq(Datagram)]]
      BY <1>5, <2>1, Consumes DEF Connecting, ConnectFails
    <3>2. wire' \in [Nodes -> [Nodes -> SUBSET Datagram]]
      BY <1>5, <2>0, Datagrams, OwnSessions, Transmits, Typed DEF Connecting, ConnectFails
    <3> QED BY <1>5, <2>1, <3>1, <3>2 DEF Connecting, ConnectFails
  <2>2. CASE /\ stage' = [stage EXCEPT ![n][c] = "up"]
             /\ Transmit(n, peer[n][c], Data(<<n, c>>, sent[n][peer[n][c]]))
             /\ Consume(n, c)
             /\ pump' = [pump EXCEPT ![n] = None]
    <3>1. inbox' \in [Nodes -> [Conns -> Seq(Datagram)]]
      BY <1>5, <2>2, Consumes DEF Connecting, ConnectFails
    <3>2. wire' \in [Nodes -> [Nodes -> SUBSET Datagram]]
      BY <2>0, <2>2, Datagrams, OwnSessions, Transmits
    <3> QED BY <1>5, <2>2, <3>1, <3>2 DEF Connecting, ConnectFails
  <2>3. CASE Drop(n, c) /\ pump' = [pump EXCEPT ![n] = None] /\ UNCHANGED wire
    BY <1>5, <2>3, Drops DEF Connecting, ConnectFails, Drop
  <2> QED BY <1>5, <2>1, <2>2, <2>3 DEF Connecting, ConnectFails
<1>6. ASSUME NEW n \in Nodes, NEW c \in Conns, NEW d, Accepting(n, c, d) PROVE TypeOK'
  <2>1. inbox' \in [Nodes -> [Conns -> Seq(Datagram)]] /\ d.session \in Sessions
    BY <1>6, Consumes, Datagrams DEF Accepting
  <2>2. peer[n][c] \in Nodes /\ stage[n][c] = "accept"
    BY <1>6 DEF Accepting, Stages, Linked
  <2>3. wire' \in [Nodes -> [Nodes -> SUBSET Datagram]]
    BY <1>6, <2>1, <2>2, Datagrams, Transmits, Typed DEF Accepting
  <2>4. PICK s \in Sessions : session' \in {session, [session EXCEPT ![n][c] = s]}
    BY <1>6, <2>1 DEF Accepting
  <2>5. /\ UNCHANGED <<peer, entry, accepts, accepting, table, pump, sent, delivered, restarts, refused>>
        /\ accepting[n] = c
    BY <1>6 DEF Accepting
  <2>6. stage' = stage \/ stage' = [stage EXCEPT ![n][c] = "up"]
    BY <1>6 DEF Accepting
  <2>7. session' \in [Nodes -> [Conns -> Sessions \cup {None}]]
    <3> HIDE SessionAssumption DEF TypeOK
    <3>1. CASE session' = session
      BY <3>1, Typed
    <3>2. CASE session' = [session EXCEPT ![n][c] = s]
      BY <3>2, Typed
    <3> QED BY <2>4, <3>1, <3>2
  <2>8. stage' \in [Nodes -> [Conns -> {"unborn", "connect", "queued", "accept", "up", "dropped"}]]
    <3>1. stage \in [Nodes -> [Conns -> {"unborn", "connect", "queued", "accept", "up", "dropped"}]]
      OBVIOUS
    <3> HIDE SessionAssumption DEF TypeOK
    <3> QED BY <2>6, <3>1
  <2>9. \A k \in Nodes : /\ accepting'[k] # None => stage'[k][accepting'[k]] \in {"accept", "up", "dropped"}
                         /\ pump'[k] # None => stage'[k][pump'[k]] = "connect"
    <3>1. \A k \in Nodes, x \in Conns :
            stage'[k][x] = stage[k][x] \/ (stage[k][x] = "accept" /\ stage'[k][x] = "up")
      <4>1. stage \in [Nodes -> [Conns -> {"unborn", "connect", "queued", "accept", "up", "dropped"}]]
        OBVIOUS
      <4> HIDE SessionAssumption DEF TypeOK
      <4> QED BY <2>2, <2>6, <4>1
    <3>2. \A k \in Nodes : /\ accepting[k] \in Conns \cup {None} /\ pump[k] \in Conns \cup {None}
                           /\ accepting[k] # None => stage[k][accepting[k]] \in {"accept", "up", "dropped"}
                           /\ pump[k] # None => stage[k][pump[k]] = "connect"
      OBVIOUS
    <3>3. accepting' = accepting /\ pump' = pump
      BY <2>5
    <3> HIDE SessionAssumption DEF TypeOK
    <3> QED BY <3>1, <3>2, <3>3
  <2>10. /\ entry' \in [Nodes -> [Nodes -> Conns \cup {None}]]
         /\ peer' \in [Nodes -> [Conns -> Nodes \cup {None}]]
         /\ accepts' \in [Nodes -> Seq(Conns)] /\ pump' \in [Nodes -> Conns \cup {None}]
         /\ accepting' \in [Nodes -> Conns \cup {None}]
         /\ table' \in [Nodes -> [Nodes -> Conns \cup {None}]]
         /\ sent' \in [Nodes -> [Nodes -> Nat]] /\ restarts' \in Nat /\ refused' \in Nat
         /\ delivered' \in [Nodes -> [Nodes -> Seq(Nat)]]
    BY <2>5
  <2> HIDE SessionAssumption DEF TypeOK
  <2> QED BY <2>1, <2>3, <2>7, <2>8, <2>9, <2>10 DEF TypeOK
<1>7. ASSUME NEW n \in Nodes, NEW c \in Conns, NEW d, Deliver(n, c, d) PROVE TypeOK'
  <2>1. inbox' \in [Nodes -> [Conns -> Seq(Datagram)]] /\ (d.kind = "data" => d.frame \in Nat)
    BY <1>7, Consumes, Datagrams DEF Deliver
  <2>2. peer[n][c] \in Nodes
    BY <1>7 DEF Deliver, Stages, Linked
  <2>3. d.kind = "data" => Append(delivered[n][peer[n][c]], d.frame) \in Seq(Nat)
    BY <2>1, <2>2, Typed, Longer
  <2>4. delivered' \in [Nodes -> [Nodes -> Seq(Nat)]]
    BY <1>7, <2>2, <2>3, Typed DEF Deliver
  <2> QED BY <1>7, <2>1, <2>4 DEF Deliver
<1>8. ASSUME NEW n \in Nodes, NEW c \in Conns, EndOfStream(n, c) \/ Timeout(n, c) PROVE TypeOK'
  <2>1. Drop(n, c)
    BY <1>8 DEF EndOfStream, Timeout
  <2>2. CASE EndOfStream(n, c)
    <3>1. /\ UNCHANGED <<peer, session, entry, accepts, table, wire, sent, delivered, restarts, refused>>
          /\ accepting' = [accepting EXCEPT ![n] = IF @ = c /\ stage[n][c] = "accept" THEN None ELSE @]
          /\ pump' = [pump EXCEPT ![n] = IF @ = c THEN None ELSE @]
      BY <2>2 DEF EndOfStream
    <3>2. stage' = [stage EXCEPT ![n][c] = "dropped"]
      BY <2>1 DEF Drop
    <3>3. /\ inbox' \in [Nodes -> [Conns -> Seq(Datagram)]]
          /\ stage' \in [Nodes -> [Conns -> {"unborn", "connect", "queued", "accept", "up", "dropped"}]]
      BY <2>1, Drops
    <3>4. accepting' \in [Nodes -> Conns \cup {None}] /\ pump' \in [Nodes -> Conns \cup {None}]
      BY <3>1
    <3>5. \A k \in Nodes : /\ accepting'[k] # None => stage'[k][accepting'[k]] \in {"accept", "up", "dropped"}
                           /\ pump'[k] # None => stage'[k][pump'[k]] = "connect"
      <4>1. \A k \in Nodes, x \in Conns : stage'[k][x] =
              IF k = n /\ x = c THEN "dropped" ELSE stage[k][x]
        BY <3>2
      <4>2. \A k \in Nodes :
              /\ accepting'[k] \in {accepting[k], None}
              /\ pump'[k] = IF k = n /\ pump[k] = c THEN None ELSE pump[k]
        BY <3>1
      <4>3. \A k \in Nodes : /\ accepting[k] \in Conns \cup {None} /\ pump[k] \in Conns \cup {None}
                             /\ accepting[k] # None => stage[k][accepting[k]] \in {"accept", "up", "dropped"}
                             /\ pump[k] # None => stage[k][pump[k]] = "connect"
        OBVIOUS
      <4> HIDE SessionAssumption DEF TypeOK
      <4>4. \A k \in Nodes : accepting'[k] # None => stage'[k][accepting'[k]] \in {"accept", "up", "dropped"}
        BY <4>1, <4>2, <4>3
      <4>5. \A k \in Nodes : pump'[k] # None => stage'[k][pump'[k]] = "connect"
        BY <4>1, <4>2, <4>3
      <4> QED BY <4>4, <4>5
    <3>6. /\ peer' \in [Nodes -> [Conns -> Nodes \cup {None}]]
          /\ session' \in [Nodes -> [Conns -> Sessions \cup {None}]]
          /\ entry' \in [Nodes -> [Nodes -> Conns \cup {None}]]
          /\ accepts' \in [Nodes -> Seq(Conns)]
          /\ table' \in [Nodes -> [Nodes -> Conns \cup {None}]]
          /\ wire' \in [Nodes -> [Nodes -> SUBSET Datagram]]
          /\ sent' \in [Nodes -> [Nodes -> Nat]] /\ restarts' \in Nat /\ refused' \in Nat
          /\ delivered' \in [Nodes -> [Nodes -> Seq(Nat)]]
      BY <3>1
    <3> HIDE SessionAssumption DEF TypeOK
    <3> QED BY <3>3, <3>4, <3>5, <3>6 DEF TypeOK
  <2>3. CASE Timeout(n, c)
    <3>1. UNCHANGED <<peer, session, tables, wire, history>>
      BY <2>3 DEF Timeout
    <3>2. stage' = [stage EXCEPT ![n][c] = "dropped"] /\ stage[n][c] = "up"
      BY <2>1, <2>3 DEF Drop, Timeout
    <3>3. /\ inbox' \in [Nodes -> [Conns -> Seq(Datagram)]]
          /\ stage' \in [Nodes -> [Conns -> {"unborn", "connect", "queued", "accept", "up", "dropped"}]]
      BY <2>1, Drops
    <3>4. \A k \in Nodes : /\ accepting'[k] # None => stage'[k][accepting'[k]] \in {"accept", "up", "dropped"}
                           /\ pump'[k] # None => stage'[k][pump'[k]] = "connect"
      <4>1. \A k \in Nodes, x \in Conns : stage'[k][x] # stage[k][x] => stage[k][x] = "up"
        BY <3>2
      <4>2. \A k \in Nodes : /\ accepting[k] \in Conns \cup {None} /\ pump[k] \in Conns \cup {None}
                             /\ accepting[k] # None => stage[k][accepting[k]] \in {"accept", "up", "dropped"}
                             /\ pump[k] # None => stage[k][pump[k]] = "connect"
        OBVIOUS
      <4>3. accepting' = accepting /\ pump' = pump
        BY <3>1
      <4>4. \A k \in Nodes, x \in Conns : stage'[k][x] # stage[k][x] => stage'[k][x] = "dropped"
        BY <3>2
      <4> HIDE SessionAssumption DEF TypeOK
      <4>5. \A k \in Nodes : accepting'[k] # None => stage'[k][accepting'[k]] \in {"accept", "up", "dropped"}
        BY <4>2, <4>3, <4>4
      <4>6. \A k \in Nodes : pump'[k] # None => stage'[k][pump'[k]] = "connect"
        BY <4>1, <4>2, <4>3
      <4> QED BY <4>5, <4>6
    <3>5. /\ peer' = peer /\ session' = session /\ entry' = entry /\ accepts' = accepts
          /\ accepting' = accepting /\ pump' = pump /\ table' = table /\ wire' = wire
          /\ sent' = sent /\ restarts' = restarts /\ refused' = refused /\ delivered' = delivered
      BY <3>1
    <3> HIDE SessionAssumption
    <3> QED BY <3>3, <3>4, <3>5
  <2> QED BY <1>8, <2>2, <2>3
<1>9. ASSUME NEW n \in Nodes, NEW c \in Conns, NEW d, Refuse(n, c, d) PROVE TypeOK'
  <2>1. /\ Drop(n, c) /\ Reads(n, c, d) /\ accepting[n] = c /\ stage[n][c] = "accept"
        /\ accepting' = [accepting EXCEPT ![n] = None] /\ refused' = refused + 1
        /\ UNCHANGED <<peer, session, entry, accepts, table, pump, sent, delivered, restarts>>
    BY <1>9 DEF Refuse
  <2>2. d.session \in Sessions
    <3>1. Head(inbox[n][c]) \in Datagram
      BY <2>1, Typed, Shorter DEF Reads
    <3> QED BY <2>1, <3>1, Datagrams DEF Reads
  <2>3. peer[n][c] \in Nodes
    BY <2>1 DEF Stages, Linked
  <2>4. wire' \in [Nodes -> [Nodes -> SUBSET Datagram]]
    BY <1>9, <2>2, <2>3, Datagrams, Transmits, Typed DEF Refuse
  <2>5. /\ inbox' \in [Nodes -> [Conns -> Seq(Datagram)]]
        /\ stage' \in [Nodes -> [Conns -> {"unborn", "connect", "queued", "accept", "up", "dropped"}]]
    BY <2>1, Drops
  <2>6. accepting' \in [Nodes -> Conns \cup {None}]
    BY <2>1
  <2>7. \A k \in Nodes : /\ accepting'[k] # None => stage'[k][accepting'[k]] \in {"accept", "up", "dropped"}
                         /\ pump'[k] # None => stage'[k][pump'[k]] = "connect"
    <3>1. \A k \in Nodes, x \in Conns :
            stage'[k][x] = stage[k][x] \/ (stage[k][x] = "accept" /\ stage'[k][x] = "dropped")
      BY <2>1 DEF Drop
    <3>2. \A k \in Nodes : /\ accepting[k] \in Conns \cup {None} /\ pump[k] \in Conns \cup {None}
                           /\ accepting[k] # None => stage[k][accepting[k]] \in {"accept", "up", "dropped"}
                           /\ pump[k] # None => stage[k][pump[k]] = "connect"
      OBVIOUS
    <3>3. (\A k \in Nodes : accepting'[k] \in {accepting[k], None}) /\ pump' = pump
      BY <2>1
    <3> HIDE SessionAssumption DEF TypeOK
    <3> QED BY <3>1, <3>2, <3>3
  <2>8. /\ entry' \in [Nodes -> [Nodes -> Conns \cup {None}]]
        /\ peer' \in [Nodes -> [Conns -> Nodes \cup {None}]]
        /\ session' \in [Nodes -> [Conns -> Sessions \cup {None}]]
        /\ accepts' \in [Nodes -> Seq(Conns)] /\ pump' \in [Nodes -> Conns \cup {None}]
        /\ table' \in [Nodes -> [Nodes -> Conns \cup {None}]]
        /\ sent' \in [Nodes -> [Nodes -> Nat]] /\ restarts' \in Nat /\ refused' \in Nat
        /\ delivered' \in [Nodes -> [Nodes -> Seq(Nat)]]
    BY <2>1
  <2> HIDE SessionAssumption DEF TypeOK
  <2> QED BY <2>4, <2>5, <2>6, <2>7, <2>8 DEF TypeOK
<1>10. ASSUME NEW n \in Nodes, NEW c \in Conns, List(n, c) PROVE TypeOK'
  <2>1. /\ accepting' = [accepting EXCEPT ![n] = None]
        /\ table' = [table EXCEPT ![n][peer[n][c]] = c]
        /\ UNCHANGED <<stage, peer, session, inbox, entry, accepts, pump, wire>>
        /\ UNCHANGED <<sent, delivered, restarts, refused>>
    BY <1>10 DEF List
  <2>2. /\ accepting' \in [Nodes -> Conns \cup {None}]
        /\ table' \in [Nodes -> [Nodes -> Conns \cup {None}]]
    BY <2>1
  <2>3. \A k \in Nodes : accepting'[k] # None => stage'[k][accepting'[k]] \in {"accept", "up", "dropped"}
    BY <2>1
  <2> QED BY <2>1, <2>2, <2>3
<1>11. ASSUME UNCHANGED vars PROVE TypeOK'
  BY <1>11 DEF vars
<1> QED
  BY <1>1, <1>2, <1>3, <1>4, <1>5, <1>6, <1>7, <1>8, <1>9, <1>10, <1>11, NextCases

-----------------------------------------------------------------------------
(* What a step does *)

\* A datagram from m opens connection c, or goes into the channel m's address has.
Opened(n, m, c) ==
  /\ entry[n][m] = None /\ stage[n][c] = "unborn"
  /\ \E d \in wire[m][n] : /\ wire' = [wire EXCEPT ![m][n] = @ \ {d}]
                           /\ inbox' = [inbox EXCEPT ![n][c] = <<d>>]
  /\ stage' = [stage EXCEPT ![n][c] = "queued"]
  /\ peer' = [peer EXCEPT ![n][c] = m]
  /\ entry' = [entry EXCEPT ![n][m] = c]
  /\ accepts' = [accepts EXCEPT ![n] = Append(@, c)]
  /\ UNCHANGED <<session, accepting, table, pump, sent, delivered, restarts, refused>>
Forwarded(n, m) ==
  /\ entry[n][m] # None
  /\ \E d \in wire[m][n] :
       /\ wire' = [wire EXCEPT ![m][n] = @ \ {d}]
       /\ inbox' = IF stage[n][entry[n][m]] = "dropped" THEN inbox
                   ELSE [inbox EXCEPT ![n][entry[n][m]] = Append(@, d)]
  /\ UNCHANGED <<stage, peer, session, entry, accepts>>
  /\ UNCHANGED <<accepting, table, pump, sent, delivered, restarts, refused>>

\* A frame for m goes over an established connection, or nowhere, or waits for
\* the new connection c.
Asked(n, m) ==
  /\ <<n, m>> \in Talks /\ pump[n] = None
  /\ sent' = [sent EXCEPT ![n][m] = @ + 1]
  /\ UNCHANGED <<inbox, accepts, accepting, table, delivered, restarts, refused>>
Sent(n, m) ==
  /\ Asked(n, m)
  /\ table[n][m] # None /\ stage[n][table[n][m]] = "up"
  /\ wire' = [wire EXCEPT ![n][m] = @ \cup {Data(session[n][table[n][m]], sent'[n][m])}]
  /\ UNCHANGED <<stage, peer, session, entry, pump>>
Failed(n, m) == Asked(n, m) /\ UNCHANGED <<stage, peer, session, entry, pump, wire>>
Called(n, m, c) ==
  /\ Asked(n, m)
  /\ table[n][m] = None /\ stage[n][c] = "unborn"
  /\ stage' = [stage EXCEPT ![n][c] = "connect"]
  /\ peer' = [peer EXCEPT ![n][c] = m]
  /\ session' = [session EXCEPT ![n][c] = <<n, c>>]
  /\ entry' = [entry EXCEPT ![n][m] = c]
  /\ pump' = [pump EXCEPT ![n] = c]
  /\ wire' = [wire EXCEPT ![n][m] = @ \cup {Flight("hello", <<n, c>>)}]

\* Connection c takes a datagram from its channel: and nothing more, or it sends
\* the next flight, or its handshake is complete, or it delivers the frame i.
Taken(n, c) ==
  /\ inbox[n][c] # <<>> /\ inbox' = [inbox EXCEPT ![n][c] = Tail(@)]
  /\ peer[n][c] \in Nodes /\ peer[n][c] # n
  /\ UNCHANGED <<peer, entry, accepts, sent, restarts, refused>>
Skipped(n, c) ==
  Taken(n, c) /\ UNCHANGED <<stage, session, accepting, table, pump, wire, delivered>>
Answered(n, c) ==
  /\ Taken(n, c)
  /\ stage[n][c] = "connect"
  /\ wire' = [wire EXCEPT ![n][peer[n][c]] = @ \cup {Flight("finish", <<n, c>>)}]
  /\ UNCHANGED <<stage, session, accepting, table, pump, delivered>>
Established(n, c) ==
  /\ Taken(n, c)
  /\ stage[n][c] = "connect" /\ session[n][c] = <<n, c>> /\ pump[n] = c
  /\ Head(inbox[n][c]) = Flight("done", <<n, c>>)
  /\ stage' = [stage EXCEPT ![n][c] = "up"]
  /\ pump' = [pump EXCEPT ![n] = None]
  /\ wire' = [wire EXCEPT ![n][peer[n][c]] = @ \cup {Data(<<n, c>>, sent[n][peer[n][c]])}]
  /\ UNCHANGED <<session, accepting, table, delivered>>
Greeted(n, c, s) ==
  /\ Taken(n, c)
  /\ accepting[n] = c /\ stage[n][c] = "accept" /\ session[n][c] = None
  /\ Head(inbox[n][c]).kind = "hello" /\ Head(inbox[n][c]).session = s
  /\ session' = [session EXCEPT ![n][c] = s]
  /\ wire' = [wire EXCEPT ![n][peer[n][c]] = @ \cup {Flight("answer", s)}]
  /\ UNCHANGED <<stage, accepting, table, pump, delivered>>
Completed(n, c) ==
  /\ Taken(n, c)
  /\ accepting[n] = c /\ stage[n][c] = "accept" /\ session[n][c] \in Sessions
  /\ stage' = [stage EXCEPT ![n][c] = "up"]
  /\ wire' = [wire EXCEPT ![n][peer[n][c]] = @ \cup {Flight("done", session[n][c])}]
  /\ UNCHANGED <<session, accepting, table, pump, delivered>>
Delivered(n, c, i) ==
  /\ Taken(n, c)
  /\ stage[n][c] = "up"
  /\ Head(inbox[n][c]).kind = "data" /\ Head(inbox[n][c]).frame = i
  /\ delivered' = [delivered EXCEPT ![n][peer[n][c]] = Append(@, i)]
  /\ UNCHANGED <<stage, session, accepting, table, pump, wire>>

\* Connection c ends, and a task that waits for it goes on.
Ended(n, c) ==
  /\ stage[n][c] \in {"connect", "accept", "up"}
  /\ stage' = [stage EXCEPT ![n][c] = "dropped"]
  /\ inbox' = [inbox EXCEPT ![n][c] = <<>>]
  /\ accepting' = accepting \/ accepting' = [accepting EXCEPT ![n] = IF @ = c THEN None ELSE @]
  /\ pump' = [pump EXCEPT ![n] = IF @ = c THEN None ELSE @]
  /\ \/ wire' = wire
     \/ \E s \in Sessions : wire' = [wire EXCEPT ![n][peer[n][c]] = @ \cup {Flight("done", s)}]
  /\ UNCHANGED <<peer, session, entry, accepts, table, sent, delivered, restarts>>

\* Connection c, in the accept task's hands, is put into the table.
ListedIn(n, c) ==
  /\ accepting[n] = c /\ stage[n][c] \in {"up", "dropped"}
  /\ accepting' = [accepting EXCEPT ![n] = None]
  /\ table' = [table EXCEPT ![n][peer[n][c]] = c]
  /\ UNCHANGED <<stage, peer, session, inbox, entry, accepts, pump, wire>>
  /\ UNCHANGED <<sent, delivered, restarts, refused>>

\* The accept task takes connection c, the first in its queue.
TakenUp(n, c) ==
  /\ accepting[n] = None /\ accepts[n] # <<>> /\ stage[n][c] = "queued"
  /\ accepting' = [accepting EXCEPT ![n] = c]
  /\ accepts' = [accepts EXCEPT ![n] = Tail(@)]
  /\ stage' = [stage EXCEPT ![n][c] = "accept"] /\ c = Head(accepts[n])
  /\ UNCHANGED <<peer, session, inbox, entry, table, pump, wire, sent, delivered, restarts, refused>>

\* Every step is one of these, a restart, or none.
LEMMA StepCases ==
  ASSUME TypeOK, Stages, [Next]_vars
  PROVE  \/ \E n, m \in Nodes : Forwarded(n, m) \/ Sent(n, m) \/ Failed(n, m)
         \/ \E n, m \in Nodes : \E c \in Conns : Opened(n, m, c) \/ Called(n, m, c)
         \/ \E n \in Nodes : \E c \in Conns :
              \/ Skipped(n, c) \/ Answered(n, c) \/ Established(n, c) \/ Completed(n, c)
              \/ \E s \in Sessions : Greeted(n, c, s)
              \/ \E i \in Nat : Delivered(n, c, i)
              \/ Ended(n, c) \/ TakenUp(n, c) \/ ListedIn(n, c)
         \/ \E n \in Nodes : Restart(n)
         \/ UNCHANGED vars
<1> USE SessionAssumption DEF SessionAssumption, conns, tables, history
<1> DEFINE Goal ==
      \/ \E n, m \in Nodes : Forwarded(n, m) \/ Sent(n, m) \/ Failed(n, m)
      \/ \E n, m \in Nodes : \E c \in Conns : Opened(n, m, c) \/ Called(n, m, c)
      \/ \E n \in Nodes : \E c \in Conns :
           \/ Skipped(n, c) \/ Answered(n, c) \/ Established(n, c) \/ Completed(n, c)
           \/ \E s \in Sessions : Greeted(n, c, s)
           \/ \E i \in Nat : Delivered(n, c, i)
           \/ Ended(n, c) \/ TakenUp(n, c) \/ ListedIn(n, c)
      \/ \E n \in Nodes : Restart(n)
      \/ UNCHANGED vars
<1> HIDE DEF Goal
<1>t. /\ stage \in [Nodes -> [Conns -> {"unborn", "connect", "queued", "accept", "up", "dropped"}]]
      /\ accepting \in [Nodes -> Conns \cup {None}] /\ pump \in [Nodes -> Conns \cup {None}]
      /\ inbox \in [Nodes -> [Conns -> Seq(Datagram)]]
      /\ \A n \in Nodes : accepting[n] # None => stage[n][accepting[n]] \in {"accept", "up", "dropped"}
      /\ \A n \in Nodes : pump[n] # None => stage[n][pump[n]] = "connect"
  BY DEF TypeOK
<1>l. \A n \in Nodes, c \in Conns : Linked(n, c)
  BY DEF Stages
<1>1. ASSUME NEW n \in Nodes, NEW m \in Nodes, NEW d \in wire[m][n], Receive(n, m, d) PROVE Goal
  <2>1. CASE entry[n][m] = None
    <3>1. PICK c \in Conns : /\ stage[n][c] = "unborn"
                             /\ stage' = [stage EXCEPT ![n][c] = "queued"]
                             /\ peer' = [peer EXCEPT ![n][c] = m]
                             /\ inbox' = [inbox EXCEPT ![n][c] = <<d>>]
                             /\ entry' = [entry EXCEPT ![n][m] = c]
                             /\ accepts' = [accepts EXCEPT ![n] = Append(@, c)]
      BY <1>1, <2>1 DEF Receive
    <3>2. Opened(n, m, c)
      BY <1>1, <2>1, <3>1 DEF Receive, Opened
    <3> QED BY <3>2 DEF Goal
  <2>2. CASE entry[n][m] # None
    <3>1. Forwarded(n, m)
      BY <1>1, <2>2 DEF Receive, Forwarded
    <3> QED BY <3>1 DEF Goal
  <2> QED BY <2>1, <2>2
<1>2. ASSUME NEW n \in Nodes, NEW m \in Nodes, Send(n, m) PROVE Goal
  <2>1. CASE SendOnExisting(n, m)
    <3>1. Sent(n, m)
      BY <1>2, <2>1 DEF Send, SendOnExisting, Sent, Asked, Transmit
    <3> QED BY <3>1 DEF Goal
  <2>2. CASE SendFails(n, m)
    <3>1. Failed(n, m)
      BY <1>2, <2>2 DEF Send, SendFails, Failed, Asked
    <3> QED BY <3>1 DEF Goal
  <2>3. CASE SendOnNew(n, m)
    <3>1. PICK c \in Conns : /\ Register(n, c, m)
                             /\ Transmit(n, m, Flight("hello", <<n, c>>))
                             /\ pump' = [pump EXCEPT ![n] = c]
      BY <2>3 DEF SendOnNew
    <3>2. Called(n, m, c)
      BY <1>2, <2>3, <3>1 DEF Send, SendOnNew, Register, Transmit, Called, Asked
    <3> QED BY <3>2 DEF Goal
  <2> QED BY <1>2, <2>1, <2>2, <2>3 DEF Send
<1>3. ASSUME NEW n \in Nodes, AcceptNext(n) PROVE Goal
  <2>1. accepts[n] \in Seq(Conns) /\ accepts[n] # <<>>
    BY <1>3 DEF AcceptNext, TypeOK
  <2>2. Head(accepts[n]) \in Conns /\ stage[n][Head(accepts[n])] = "queued"
    BY <2>1, Shorter DEF Stages, Queued
  <2>3. TakenUp(n, Head(accepts[n]))
    BY <1>3, <2>2 DEF AcceptNext, TakenUp
  <2> QED BY <2>2, <2>3 DEF Goal
<1>4. ASSUME NEW n \in Nodes, Restart(n) PROVE Goal
  BY <1>4 DEF Goal
<1>5. ASSUME NEW n \in Nodes, NEW c \in Conns, NEW d, Connecting(n, c, d) PROVE Goal
  <2>1. /\ stage[n][c] = "connect" /\ inbox[n][c] # <<>> /\ d = Head(inbox[n][c])
        /\ peer[n][c] \in Nodes /\ peer[n][c] # n /\ session[n][c] = <<n, c>> /\ pump[n] = c
        /\ accepting[n] # c
        /\ UNCHANGED <<peer, session, entry, accepts, accepting, table, sent, delivered, restarts, refused>>
    <3>1. stage[n][c] = "connect" /\ inbox[n][c] # <<>> /\ d = Head(inbox[n][c])
      BY <1>5 DEF Connecting, Reads
    <3>2. accepting[n] # c
      BY <3>1, <1>t
    <3> QED BY <1>5, <3>1, <3>2, <1>l DEF Connecting, ConnectFails, Linked
  <2>2. CASE Skipped(n, c)
    BY <2>2 DEF Goal
  <2>3. CASE Answered(n, c)
    BY <2>3 DEF Goal
  <2>4. CASE Established(n, c)
    BY <2>4 DEF Goal
  <2>5. CASE Ended(n, c)
    BY <2>5 DEF Goal
  <2>6. CASE Drop(n, c) /\ pump' = [pump EXCEPT ![n] = None] /\ UNCHANGED wire
    <3>1. pump' = [pump EXCEPT ![n] = IF @ = c THEN None ELSE @]
      BY <2>1, <2>6, <1>t
    <3>2. Ended(n, c)
      BY <2>1, <2>6, <3>1 DEF Drop, Ended
    <3> QED BY <2>5, <3>2
  <2>7. CASE Consume(n, c)
    <3>1. Taken(n, c)
      BY <2>1, <2>7 DEF Taken, Consume
    <3>2. \/ /\ d = Flight("answer", <<n, c>>)
             /\ Transmit(n, peer[n][c], Flight("finish", <<n, c>>))
             /\ UNCHANGED <<stage, pump>>
          \/ /\ d = Flight("done", <<n, c>>)
             /\ stage' = [stage EXCEPT ![n][c] = "up"]
             /\ Transmit(n, peer[n][c], Data(<<n, c>>, sent[n][peer[n][c]]))
             /\ pump' = [pump EXCEPT ![n] = None]
          \/ UNCHANGED <<stage, pump, wire>>
          \/ Drop(n, c) /\ pump' = [pump EXCEPT ![n] = None] /\ UNCHANGED wire
      BY <1>5 DEF Connecting, ConnectFails
    <3>3. ASSUME d = Flight("answer", <<n, c>>), UNCHANGED <<stage, pump>>,
                 Transmit(n, peer[n][c], Flight("finish", <<n, c>>))
          PROVE  Answered(n, c)
      BY <2>1, <3>1, <3>3 DEF Answered, Transmit
    <3>4. ASSUME d = Flight("done", <<n, c>>), stage' = [stage EXCEPT ![n][c] = "up"],
                 Transmit(n, peer[n][c], Data(<<n, c>>, sent[n][peer[n][c]])),
                 pump' = [pump EXCEPT ![n] = None]
          PROVE  Established(n, c)
      BY <2>1, <3>1, <3>4 DEF Established, Transmit
    <3>5. ASSUME UNCHANGED <<stage, pump, wire>> PROVE Skipped(n, c)
      BY <2>1, <3>1, <3>5 DEF Skipped
    <3> QED BY <2>2, <2>3, <2>4, <2>6, <3>2, <3>3, <3>4, <3>5
  <2> QED BY <1>5, <2>6, <2>7 DEF Connecting, ConnectFails
<1>6. ASSUME NEW n \in Nodes, NEW c \in Conns, NEW d, Accepting(n, c, d) PROVE Goal
  <2>1. /\ stage[n][c] = "accept" /\ accepting[n] = c
        /\ d = Head(inbox[n][c]) /\ d.session \in Sessions
    BY <1>6, <1>t, Consumes, Datagrams DEF Accepting, Reads
  <2>2. Taken(n, c)
    BY <1>6, <2>1, <1>l DEF Accepting, Reads, Taken, Consume, Linked
  <2>3. \/ /\ d.kind = "hello" /\ session[n][c] = None
           /\ session' = [session EXCEPT ![n][c] = d.session]
           /\ Transmit(n, peer[n][c], Flight("answer", d.session))
           /\ UNCHANGED stage
        \/ /\ session[n][c] = d.session
           /\ Transmit(n, peer[n][c], Flight("done", d.session))
           /\ stage' = [stage EXCEPT ![n][c] = "up"]
           /\ UNCHANGED session
        \/ UNCHANGED <<stage, session, wire>>
    BY <1>6 DEF Accepting
  <2>4. UNCHANGED <<accepting, table, pump, delivered>>
    BY <1>6 DEF Accepting
  <2>6. ASSUME d.kind = "hello", session[n][c] = None,
               session' = [session EXCEPT ![n][c] = d.session],
               Transmit(n, peer[n][c], Flight("answer", d.session)),
               UNCHANGED stage
        PROVE  Greeted(n, c, d.session)
    BY <2>1, <2>2, <2>4, <2>6 DEF Greeted, Transmit
  <2>7. ASSUME session[n][c] = d.session,
               Transmit(n, peer[n][c], Flight("done", d.session)),
               stage' = [stage EXCEPT ![n][c] = "up"],
               UNCHANGED session
        PROVE  Completed(n, c)
    BY <2>1, <2>2, <2>4, <2>7 DEF Completed, Transmit
  <2>8. ASSUME UNCHANGED <<stage, session, wire>> PROVE Skipped(n, c)
    BY <2>2, <2>4, <2>8 DEF Skipped
  <2>5. Greeted(n, c, d.session) \/ Completed(n, c) \/ Skipped(n, c)
    BY <2>3, <2>6, <2>7, <2>8
  <2> QED BY <2>1, <2>5 DEF Goal
<1>7. ASSUME NEW n \in Nodes, NEW c \in Conns, NEW d, Deliver(n, c, d) PROVE Goal
  <2>1. Taken(n, c) /\ stage[n][c] = "up" /\ d = Head(inbox[n][c])
    BY <1>7, <1>l DEF Deliver, Reads, Taken, Consume, Linked
  <2>2. d.kind = "data" => d.frame \in Nat
    BY <1>7, Consumes, Datagrams DEF Deliver
  <2>3. UNCHANGED <<stage, session, accepting, table, pump, wire>>
    BY <1>7 DEF Deliver
  <2>4. CASE d.kind = "data" /\ d.session = session[n][c]
    <3>1. Delivered(n, c, d.frame)
      BY <1>7, <2>1, <2>3, <2>4 DEF Deliver, Delivered
    <3> QED BY <2>2, <2>4, <3>1 DEF Goal
  <2>5. CASE ~ (d.kind = "data" /\ d.session = session[n][c])
    <3>1. Skipped(n, c)
      BY <1>7, <2>1, <2>3, <2>5 DEF Deliver, Skipped
    <3> QED BY <3>1 DEF Goal
  <2> QED BY <2>4, <2>5
<1>8. ASSUME NEW n \in Nodes, NEW c \in Conns, EndOfStream(n, c) \/ Timeout(n, c) PROVE Goal
  <2>1. Drop(n, c) /\ stage[n][c] \in {"connect", "accept", "up"}
    BY <1>8 DEF EndOfStream, Timeout
  <2>2. CASE EndOfStream(n, c)
    <3>1. accepting' = accepting \/ accepting' = [accepting EXCEPT ![n] = IF @ = c THEN None ELSE @]
      <4>1. CASE stage[n][c] = "accept"
        BY <2>2, <4>1 DEF EndOfStream
      <4>2. CASE stage[n][c] # "accept"
        BY <2>2, <4>2, <1>t DEF EndOfStream
      <4> QED BY <4>1, <4>2
    <3>2. Ended(n, c)
      BY <2>1, <2>2, <3>1 DEF EndOfStream, Drop, Ended
    <3> QED BY <3>2 DEF Goal
  <2>3. CASE Timeout(n, c)
    <3>1. pump[n] # c
      BY <2>3, <1>t DEF Timeout
    <3>2. pump = [pump EXCEPT ![n] = IF @ = c THEN None ELSE @]
      BY <3>1, <1>t
    <3>3. Ended(n, c)
      BY <2>1, <2>3, <3>2 DEF Timeout, Drop, Ended
    <3> QED BY <3>3 DEF Goal
  <2> QED BY <1>8, <2>2, <2>3
<1>9. ASSUME NEW n \in Nodes, NEW c \in Conns, NEW d, Refuse(n, c, d) PROVE Goal
  <2>1. /\ Drop(n, c) /\ Reads(n, c, d) /\ accepting[n] = c /\ stage[n][c] = "accept"
        /\ accepting' = [accepting EXCEPT ![n] = None]
        /\ UNCHANGED <<peer, session, entry, accepts, table, pump, sent, delivered, restarts>>
    BY <1>9 DEF Refuse
  <2>2. d.session \in Sessions
    <3>1. Head(inbox[n][c]) \in Datagram
      BY <2>1, <1>t, Shorter DEF Reads
    <3> QED BY <2>1, <3>1, Datagrams DEF Reads
  <2>3. \/ wire' = wire
        \/ \E s \in Sessions : wire' = [wire EXCEPT ![n][peer[n][c]] = @ \cup {Flight("done", s)}]
    BY <1>9, <2>2 DEF Refuse, Transmit
  <2>4. /\ accepting' = [accepting EXCEPT ![n] = IF @ = c THEN None ELSE @]
        /\ pump = [pump EXCEPT ![n] = IF @ = c THEN None ELSE @]
    BY <2>1, <1>t
  <2>5. Ended(n, c)
    BY <2>1, <2>3, <2>4 DEF Drop, Ended
  <2> QED BY <2>5 DEF Goal
<1>10. ASSUME NEW n \in Nodes, NEW c \in Conns, List(n, c) PROVE Goal
  <2>1. ListedIn(n, c)
    BY <1>10 DEF List, ListedIn
  <2> QED BY <2>1 DEF Goal
<1>11. ASSUME UNCHANGED vars PROVE Goal
  BY <1>11 DEF Goal
<1>12. Goal
  BY <1>1, <1>2, <1>3, <1>4, <1>5, <1>6, <1>7, <1>8, <1>9, <1>10, <1>11, NextCases
<1> QED BY <1>12 DEF Goal

\* A connection keeps its peer, and its session once it has one.
Steady(n, c) == stage[n][c] # "unborn" =>
  /\ stage'[n][c] # "unborn" /\ peer'[n][c] = peer[n][c]
  /\ session[n][c] # None => session'[n][c] = session[n][c]

LEMMA SteadyStep ==
  ASSUME TypeOK, Stages, [Next]_vars
  PROVE  \A n \in Nodes, c \in Conns : Steady(n, c)
<1> USE SessionAssumption DEF SessionAssumption, Steady, conns, tables, history
<1>t. /\ stage \in [Nodes -> [Conns -> {"unborn", "connect", "queued", "accept", "up", "dropped"}]]
      /\ peer \in [Nodes -> [Conns -> Nodes \cup {None}]]
      /\ session \in [Nodes -> [Conns -> Sessions \cup {None}]]
      /\ accepts \in [Nodes -> Seq(Conns)]
  BY DEF TypeOK
<1> SUFFICES ASSUME NEW k \in Nodes, NEW x \in Conns PROVE Steady(k, x)
  OBVIOUS
<1>1. ASSUME NEW n \in Nodes, NEW m \in Nodes, NEW c \in Conns, Opened(n, m, c) \/ Called(n, m, c)
      PROVE  Steady(k, x)
  <2>1. /\ stage[n][c] = "unborn"
        /\ \/ stage' = [stage EXCEPT ![n][c] = "queued"]
           \/ stage' = [stage EXCEPT ![n][c] = "connect"]
    BY <1>1 DEF Opened, Called
  <2>2. /\ peer' = [peer EXCEPT ![n][c] = m]
        /\ session' = session \/ session' = [session EXCEPT ![n][c] = <<n, c>>]
    BY <1>1 DEF Opened, Called
  <2>3. CASE k = n /\ x = c
    BY <2>1, <2>3
  <2>4. CASE ~ (k = n /\ x = c)
    BY <2>1, <2>2, <2>4, <1>t
  <2> QED BY <2>3, <2>4
<1>2. ASSUME NEW n \in Nodes, NEW m \in Nodes, Forwarded(n, m) \/ Sent(n, m) \/ Failed(n, m)
      PROVE  Steady(k, x)
  BY <1>2 DEF Forwarded, Sent, Failed
<1>3. ASSUME NEW n \in Nodes, NEW c \in Conns,
             \/ Skipped(n, c) \/ Answered(n, c) \/ Established(n, c) \/ Completed(n, c)
             \/ Ended(n, c) \/ TakenUp(n, c) \/ ListedIn(n, c)
      PROVE  Steady(k, x)
  <2>1. UNCHANGED <<peer, session>>
    BY <1>3 DEF Skipped, Answered, Established, Completed, Ended, TakenUp, ListedIn, Taken
  <2>2. \/ stage' = stage
        \/ \E s \in {"up", "accept", "dropped"} : stage' = [stage EXCEPT ![n][c] = s]
    BY <1>3 DEF Skipped, Answered, Established, Completed, Ended, TakenUp, ListedIn
  <2>3. stage[k][x] # "unborn" => stage'[k][x] # "unborn"
    <3>1. ASSUME NEW s \in {"up", "accept", "dropped"}, stage' = [stage EXCEPT ![n][c] = s]
          PROVE  stage[k][x] # "unborn" => stage'[k][x] # "unborn"
      BY <3>1, <1>t
    <3> QED BY <2>2, <3>1
  <2> QED BY <2>1, <2>3
<1>4. ASSUME NEW n \in Nodes, NEW c \in Conns, NEW s \in Sessions, Greeted(n, c, s)
      PROVE  Steady(k, x)
  BY <1>4, <1>t DEF Greeted, Taken
<1>5. ASSUME NEW n \in Nodes, NEW c \in Conns, NEW i \in Nat, Delivered(n, c, i)
      PROVE  Steady(k, x)
  BY <1>5 DEF Delivered, Taken
<1>6. ASSUME NEW n \in Nodes, Restart(n) PROVE Steady(k, x)
  BY <1>6, <1>t DEF Restart
<1>7. ASSUME UNCHANGED vars PROVE Steady(k, x)
  BY <1>7 DEF vars
<1> QED BY <1>1, <1>2, <1>3, <1>4, <1>5, <1>6, <1>7, StepCases

LEMMA PointsStep ==
  ASSUME TypeOK, Stages, [Next]_vars
  PROVE  \A n, m \in Nodes : PointsTo(n, m, entry[n][m])' /\ PointsTo(n, m, table[n][m])'
<1> USE SessionAssumption DEF SessionAssumption, PointsTo, conns, tables, history
<1>t. /\ entry \in [Nodes -> [Nodes -> Conns \cup {None}]]
      /\ table \in [Nodes -> [Nodes -> Conns \cup {None}]]
      /\ stage \in [Nodes -> [Conns -> {"unborn", "connect", "queued", "accept", "up", "dropped"}]]
      /\ peer \in [Nodes -> [Conns -> Nodes \cup {None}]]
  BY DEF TypeOK
<1>s. \A n \in Nodes, c \in Conns : Steady(n, c)
  BY SteadyStep
<1>p. \A n, m \in Nodes : PointsTo(n, m, entry[n][m]) /\ PointsTo(n, m, table[n][m])
  BY DEF Stages
<1> SUFFICES ASSUME NEW k \in Nodes, NEW j \in Nodes
             PROVE  PointsTo(k, j, entry[k][j])' /\ PointsTo(k, j, table[k][j])'
  OBVIOUS
<1> DEFINE Kept == PointsTo(k, j, entry[k][j])' /\ PointsTo(k, j, table[k][j])'
<1>0. ASSUME /\ entry'[k][j] \in {entry[k][j], None}
             /\ table'[k][j] \in {table[k][j], None}
      PROVE  Kept
  BY <1>0, <1>t, <1>s, <1>p DEF Steady
<1>1. ASSUME NEW n \in Nodes, NEW m \in Nodes, NEW c \in Conns, Opened(n, m, c) \/ Called(n, m, c)
      PROVE  Kept
  <2>1. stage'[n][c] # "unborn" /\ peer'[n][c] = m
    BY <1>1, <1>t DEF Opened, Called
  <2>2. entry' = [entry EXCEPT ![n][m] = c] /\ table' = table
    BY <1>1 DEF Opened, Called, Asked
  <2> QED BY <2>1, <2>2, <1>t, <1>s, <1>p DEF Steady
<1>2. ASSUME NEW n \in Nodes, NEW c \in Conns, ListedIn(n, c) PROVE Kept
  <2>1. entry' = entry /\ table' = [table EXCEPT ![n][peer[n][c]] = c] /\ stage[n][c] # "unborn"
    BY <1>2 DEF ListedIn
  <2> QED BY <2>1, <1>t, <1>s, <1>p DEF Steady
<1>3. ASSUME NEW n \in Nodes, Restart(n) PROVE Kept
  BY <1>3, <1>t, <1>0 DEF Restart
<1>4. ASSUME UNCHANGED <<entry, table>> PROVE Kept
  BY <1>4, <1>0
<1> HIDE DEF Kept
<1>5. ASSUME NEW n \in Nodes, NEW m \in Nodes, Forwarded(n, m) \/ Sent(n, m) \/ Failed(n, m)
      PROVE  Kept
  BY <1>5, <1>4 DEF Forwarded, Sent, Failed, Asked
<1>6. ASSUME NEW n \in Nodes, NEW c \in Conns,
             \/ Skipped(n, c) \/ Answered(n, c) \/ Established(n, c) \/ Completed(n, c)
             \/ \E s \in Sessions : Greeted(n, c, s)
             \/ \E i \in Nat : Delivered(n, c, i)
             \/ Ended(n, c) \/ TakenUp(n, c)
      PROVE  Kept
  BY <1>6, <1>4 DEF Skipped, Answered, Established, Completed, Greeted, Delivered, Taken, Ended, TakenUp
<1>7. ASSUME UNCHANGED vars PROVE Kept
  BY <1>7, <1>4 DEF vars
<1>8. Kept
  BY <1>1, <1>2, <1>3, <1>5, <1>6, <1>7, StepCases
<1> QED BY <1>8 DEF Kept

LEMMA QueuedStep ==
  ASSUME TypeOK, Stages, [Next]_vars
  PROVE  \A n \in Nodes : Queued(n)'
<1> USE SessionAssumption DEF SessionAssumption, conns, tables, history
<1>t. /\ stage \in [Nodes -> [Conns -> {"unborn", "connect", "queued", "accept", "up", "dropped"}]]
      /\ accepts \in [Nodes -> Seq(Conns)]
  BY DEF TypeOK
<1> SUFFICES ASSUME NEW k \in Nodes PROVE Queued(k)'
  OBVIOUS
<1>q. /\ Queued(k)
      /\ Len(accepts[k]) \in Nat
      /\ \A i \in 1 .. Len(accepts[k]) : accepts[k][i] \in Conns
  BY <1>t, ElementOfSeq, LenProperties DEF Stages
<1>0. ASSUME accepts'[k] = accepts[k],
             \A c \in Conns : stage[k][c] = "queued" => stage'[k][c] = "queued"
      PROVE  Queued(k)'
  BY <1>0, <1>q DEF Queued
<1>1. ASSUME NEW n \in Nodes, NEW m \in Nodes, NEW c \in Conns, Opened(n, m, c)
      PROVE  Queued(k)'
  <2>1. /\ stage[n][c] = "unborn"
        /\ stage' = [stage EXCEPT ![n][c] = "queued"]
        /\ accepts' = [accepts EXCEPT ![n] = Append(@, c)]
    BY <1>1 DEF Opened
  <2>2. \A x \in Conns : stage[k][x] = "queued" => stage'[k][x] = "queued"
    BY <2>1, <1>t
  <2>3. CASE k # n
    BY <2>1, <2>2, <2>3, <1>0, <1>t
  <2>4. CASE k = n
    <3>1. accepts'[k] = Append(accepts[k], c) /\ stage'[k][c] = "queued"
      BY <2>1, <2>4, <1>t
    <3>2. /\ Len(accepts'[k]) = Len(accepts[k]) + 1
          /\ \A i \in 1 .. Len(accepts[k]) : accepts'[k][i] = accepts[k][i]
          /\ accepts'[k][Len(accepts[k]) + 1] = c
      BY <3>1, <1>t, Longer
    <3>3. \A i \in 1 .. Len(accepts[k]) : accepts[k][i] # c
      BY <2>1, <2>4, <1>q DEF Queued
    <3> HIDE SessionAssumption
    <3>4. \A i \in 1 .. Len(accepts'[k]) : stage'[k][accepts'[k][i]] = "queued"
      BY <3>1, <3>2, <2>2, <1>q DEF Queued
    <3>5. \A i, l \in 1 .. Len(accepts'[k]) : accepts'[k][i] = accepts'[k][l] => i = l
      <4>1. \A i \in 1 .. Len(accepts'[k]) : i \in 1 .. Len(accepts[k]) \/ i = Len(accepts[k]) + 1
        BY <3>2, <1>q
      <4> QED BY <3>2, <3>3, <4>1, <1>q DEF Queued
    <3> QED BY <3>4, <3>5 DEF Queued
  <2> QED BY <2>3, <2>4
<1>3. ASSUME NEW n \in Nodes, NEW c \in Conns, TakenUp(n, c) PROVE Queued(k)'
  <2>1. /\ accepts[n] # <<>>
        /\ accepts' = [accepts EXCEPT ![n] = Tail(@)]
        /\ stage' = [stage EXCEPT ![n][c] = "accept"] /\ c = Head(accepts[n])
    BY <1>3 DEF TakenUp
  <2>2. CASE k # n
    BY <2>1, <2>2, <1>0, <1>t
  <2>3. CASE k = n
    <3>1. accepts[k] \in Seq(Conns) /\ accepts[k] # <<>>
      BY <2>1, <2>3, <1>t
    <3>2. /\ Head(accepts[k]) \in Conns /\ Head(accepts[k]) = accepts[k][1]
          /\ Len(Tail(accepts[k])) = Len(accepts[k]) - 1 /\ Len(accepts[k]) >= 1
          /\ \A i \in 1 .. Len(Tail(accepts[k])) : Tail(accepts[k])[i] = accepts[k][i + 1]
      BY <3>1, Shorter
    <3>3. accepts'[k] = Tail(accepts[k])
      BY <2>1, <2>3, <1>t
    <3>4. \A y \in Conns : y # accepts[k][1] => stage'[k][y] = stage[k][y]
      BY <2>1, <2>3, <3>2, <1>t
    <3>5. \A i \in 1 .. Len(accepts'[k]) :
             /\ i + 1 \in 1 .. Len(accepts[k]) /\ i + 1 # 1
             /\ accepts'[k][i] = accepts[k][i + 1]
      <4> HIDE SessionAssumption
      <4> QED BY <3>2, <3>3, <1>q
    <3>6. 1 \in 1 .. Len(accepts[k])
      BY <3>2, <1>q
    <3> HIDE SessionAssumption
    <3>q. /\ \A i \in 1 .. Len(accepts[k]) : stage[k][accepts[k][i]] = "queued"
          /\ \A i, l \in 1 .. Len(accepts[k]) : accepts[k][i] = accepts[k][l] => i = l
      BY <1>q DEF Queued
    <3>7. ASSUME NEW i \in 1 .. Len(accepts'[k]) PROVE stage'[k][accepts'[k][i]] = "queued"
      <4>1. /\ i + 1 \in 1 .. Len(accepts[k]) /\ i + 1 # 1
            /\ accepts'[k][i] = accepts[k][i + 1]
        BY <3>5
      <4> DEFINE x == i + 1
      <4>2. x \in 1 .. Len(accepts[k]) /\ x # 1 /\ accepts'[k][i] = accepts[k][x]
        BY <4>1
      <4> HIDE DEF x
      <4>3. accepts[k][x] # accepts[k][1] /\ accepts[k][x] \in Conns
        BY <3>6, <3>q, <4>2, <1>q
      <4> QED BY <3>4, <3>q, <4>2, <4>3
    <3>8. \A i, l \in 1 .. Len(accepts'[k]) : accepts'[k][i] = accepts'[k][l] => i = l
      <4> SUFFICES ASSUME NEW i \in 1 .. Len(accepts'[k]), NEW l \in 1 .. Len(accepts'[k]),
                          accepts'[k][i] = accepts'[k][l]
                   PROVE  i = l
        OBVIOUS
      <4>1. /\ i + 1 \in 1 .. Len(accepts[k]) /\ l + 1 \in 1 .. Len(accepts[k])
            /\ accepts[k][i + 1] = accepts[k][l + 1]
        BY <3>5
      <4>2. i + 1 = l + 1
        BY <3>q, <4>1
      <4> QED BY <4>2
    <3> QED BY <3>7, <3>8 DEF Queued
  <2> QED BY <2>2, <2>3
<1>4. ASSUME NEW n \in Nodes, Restart(n) PROVE Queued(k)'
  <2>1. CASE k # n
    BY <1>4, <2>1, <1>0, <1>t DEF Restart
  <2>2. CASE k = n
    <3>1. accepts'[k] = <<>>
      BY <1>4, <2>2, <1>t DEF Restart
    <3>2. Len(accepts'[k]) = 0
      BY <3>1, Empty
    <3> QED BY <3>2 DEF Queued
  <2> QED BY <2>1, <2>2
<1>5. ASSUME NEW n \in Nodes, NEW c \in Conns, NEW s \in {"connect", "up", "dropped"},
             accepts' = accepts, stage[n][c] # "queued", stage' = [stage EXCEPT ![n][c] = s]
      PROVE  Queued(k)'
  BY <1>5, <1>0, <1>t
<1>6. ASSUME NEW n \in Nodes, NEW m \in Nodes, NEW c \in Conns, Called(n, m, c) PROVE Queued(k)'
  BY <1>6, <1>5 DEF Called, Asked
<1>7. ASSUME NEW n \in Nodes, NEW c \in Conns, Established(n, c) \/ Completed(n, c) \/ Ended(n, c)
      PROVE  Queued(k)'
  BY <1>7, <1>5 DEF Established, Completed, Taken, Ended
<1>8. ASSUME UNCHANGED <<accepts, stage>> PROVE Queued(k)'
  BY <1>8, <1>0
<1>9. ASSUME NEW n \in Nodes, NEW m \in Nodes, Forwarded(n, m) \/ Sent(n, m) \/ Failed(n, m)
      PROVE  Queued(k)'
  BY <1>9, <1>8 DEF Forwarded, Sent, Failed, Asked
<1>10. ASSUME NEW n \in Nodes, NEW c \in Conns,
             \/ Skipped(n, c) \/ Answered(n, c) \/ ListedIn(n, c)
             \/ \E s \in Sessions : Greeted(n, c, s)
             \/ \E i \in Nat : Delivered(n, c, i)
      PROVE  Queued(k)'
  BY <1>10, <1>8 DEF Skipped, Answered, ListedIn, Greeted, Delivered, Taken
<1>11. ASSUME UNCHANGED vars PROVE Queued(k)'
  BY <1>11, <1>8 DEF vars
<1> QED BY <1>1, <1>3, <1>4, <1>6, <1>7, <1>9, <1>10, <1>11, StepCases

LEMMA LinkedStep ==
  ASSUME TypeOK, Stages, [Next]_vars
  PROVE  \A n \in Nodes, c \in Conns : Linked(n, c)'
<1> USE SessionAssumption DEF SessionAssumption, conns, tables, history
<1>t. /\ entry \in [Nodes -> [Nodes -> Conns \cup {None}]]
      /\ stage \in [Nodes -> [Conns -> {"unborn", "connect", "queued", "accept", "up", "dropped"}]]
      /\ peer \in [Nodes -> [Conns -> Nodes \cup {None}]]
      /\ session \in [Nodes -> [Conns -> Sessions \cup {None}]]
      /\ inbox \in [Nodes -> [Conns -> Seq(Datagram)]]
      /\ pump \in [Nodes -> Conns \cup {None}]
  BY DEF TypeOK
<1>l. \A n \in Nodes, c \in Conns : Linked(n, c)
  BY DEF Stages
<1> SUFFICES ASSUME NEW k \in Nodes, NEW x \in Conns PROVE Linked(k, x)'
  OBVIOUS
<1>1. ASSUME NEW n \in Nodes, NEW m \in Nodes, NEW c \in Conns, Opened(n, m, c)
      PROVE  Linked(k, x)'
  <2>0. n # m
    BY <1>1 DEF Opened, Stages
  <2>1. /\ stage' = [stage EXCEPT ![n][c] = "queued"]
        /\ peer' = [peer EXCEPT ![n][c] = m]
        /\ UNCHANGED <<session, pump>>
        /\ \E d : inbox' = [inbox EXCEPT ![n][c] = <<d>>]
    BY <1>1 DEF Opened
  <2>2. CASE k = n /\ x = c
    BY <2>0, <2>1, <2>2, <1>t DEF Linked
  <2>3. CASE ~ (k = n /\ x = c)
    BY <2>1, <2>3, <1>t, <1>l DEF Linked
  <2> QED BY <2>2, <2>3
<1>2. ASSUME NEW n \in Nodes, NEW m \in Nodes, Forwarded(n, m) PROVE Linked(k, x)'
  <2>1. UNCHANGED <<stage, peer, session, pump>>
    BY <1>2 DEF Forwarded
  <2>2. stage[k][x] = "unborn" => inbox'[k][x] = inbox[k][x]
    <3>1. PICK d : inbox' = IF stage[n][entry[n][m]] = "dropped" THEN inbox
                            ELSE [inbox EXCEPT ![n][entry[n][m]] = Append(@, d)]
      BY <1>2 DEF Forwarded
    <3>2. stage[n][entry[n][m]] # "unborn"
      BY <1>2 DEF Forwarded, Stages, PointsTo
    <3> QED BY <3>1, <3>2, <1>t
  <2> QED BY <2>1, <2>2, <1>l DEF Linked
<1>3. ASSUME NEW n \in Nodes, NEW m \in Nodes, NEW c \in Conns, Called(n, m, c)
      PROVE  Linked(k, x)'
  <2>1. /\ n # m /\ pump[n] = None /\ inbox' = inbox
        /\ stage' = [stage EXCEPT ![n][c] = "connect"]
        /\ peer' = [peer EXCEPT ![n][c] = m]
        /\ session' = [session EXCEPT ![n][c] = <<n, c>>]
        /\ pump' = [pump EXCEPT ![n] = c] /\ stage[n][c] = "unborn"
    BY <1>3 DEF Called, Asked
  <2>2. CASE k = n /\ x = c
    BY <2>1, <2>2, <1>t DEF Linked
  <2>3. CASE ~ (k = n /\ x = c)
    <3>1. /\ stage'[k][x] = stage[k][x] /\ peer'[k][x] = peer[k][x]
          /\ session'[k][x] = session[k][x] /\ inbox'[k][x] = inbox[k][x]
          /\ k # n => pump'[k] = pump[k]
      BY <2>1, <2>3, <1>t
    <3>2. k = n => stage[k][x] # "connect"
      BY <2>1, <1>l DEF Linked
    <3> QED BY <3>1, <3>2, <1>l DEF Linked
  <2> QED BY <2>2, <2>3
<1>4. ASSUME NEW n \in Nodes, NEW c \in Conns, TakenUp(n, c) PROVE Linked(k, x)'
  BY <1>4, <1>t, <1>l DEF TakenUp, Linked
<1>5. ASSUME NEW n \in Nodes, NEW c \in Conns, Established(n, c) PROVE Linked(k, x)'
  <2>1. /\ inbox' = [inbox EXCEPT ![n][c] = Tail(@)] /\ peer' = peer /\ session' = session
        /\ stage[n][c] = "connect" /\ session[n][c] = <<n, c>> /\ pump[n] = c
        /\ stage' = [stage EXCEPT ![n][c] = "up"]
        /\ pump' = [pump EXCEPT ![n] = None]
    BY <1>5 DEF Established, Taken
  <2>2. CASE k = n /\ x = c
    <3>1. stage'[k][x] = "up"
      BY <2>1, <2>2, <1>t
    <3>3. session'[k][x] \in Sessions
      BY <2>1, <2>2, OwnSessions
    <3>2. peer'[k][x] \in Nodes /\ peer'[k][x] # k
      BY <2>1, <2>2, <1>l DEF Linked
    <3> QED BY <3>1, <3>2, <3>3 DEF Linked
  <2>3. CASE ~ (k = n /\ x = c)
    <3>1. /\ stage'[k][x] = stage[k][x] /\ inbox'[k][x] = inbox[k][x]
          /\ k # n => pump'[k] = pump[k]
      BY <2>1, <2>3, <1>t
    <3>2. k = n => stage[k][x] # "connect"
      BY <2>1, <2>3, <1>l DEF Linked
    <3> QED BY <2>1, <3>1, <3>2, <1>l DEF Linked
  <2> QED BY <2>2, <2>3
<1>6. ASSUME NEW n \in Nodes, NEW c \in Conns, Completed(n, c) PROVE Linked(k, x)'
  <2>1. /\ inbox' = [inbox EXCEPT ![n][c] = Tail(@)] /\ UNCHANGED <<peer, session, pump>>
        /\ stage[n][c] = "accept" /\ session[n][c] \in Sessions
        /\ stage' = [stage EXCEPT ![n][c] = "up"]
    BY <1>6 DEF Completed, Taken
  <2> QED BY <2>1, <1>t, <1>l DEF Linked
<1>7. ASSUME NEW n \in Nodes, NEW c \in Conns, NEW s \in Sessions, Greeted(n, c, s)
      PROVE  Linked(k, x)'
  <2>1. /\ inbox' = [inbox EXCEPT ![n][c] = Tail(@)] /\ UNCHANGED <<peer, pump, stage>>
        /\ stage[n][c] = "accept" /\ session' = [session EXCEPT ![n][c] = s]
    BY <1>7 DEF Greeted, Taken
  <2> QED BY <2>1, <1>t, <1>l DEF Linked
<1>8. ASSUME NEW n \in Nodes, NEW c \in Conns,
             Skipped(n, c) \/ Answered(n, c) \/ \E i \in Nat : Delivered(n, c, i)
      PROVE  Linked(k, x)'
  <2>1. /\ inbox[n][c] # <<>> /\ inbox' = [inbox EXCEPT ![n][c] = Tail(@)]
        /\ UNCHANGED <<peer, pump, stage, session>>
    BY <1>8 DEF Skipped, Answered, Delivered, Taken
  <2> QED BY <2>1, <1>t, <1>l DEF Linked
<1>9. ASSUME NEW n \in Nodes, NEW c \in Conns, Ended(n, c) PROVE Linked(k, x)'
  <2>1. /\ stage[n][c] # "unborn" /\ UNCHANGED <<peer, session>>
        /\ stage' = [stage EXCEPT ![n][c] = "dropped"]
        /\ inbox' = [inbox EXCEPT ![n][c] = <<>>]
        /\ pump' = [pump EXCEPT ![n] = IF @ = c THEN None ELSE @]
    BY <1>9 DEF Ended
  <2>2. pump'[k] = pump[k] \/ (k = n /\ pump[k] = c)
    BY <2>1, <1>t
  <2> QED BY <2>1, <2>2, <1>t, <1>l DEF Linked
<1>10. ASSUME NEW n \in Nodes, Restart(n) PROVE Linked(k, x)'
  <2>1. CASE k # n
    <3>1. /\ stage'[k] = stage[k] /\ inbox'[k] = inbox[k] /\ pump'[k] = pump[k]
          /\ UNCHANGED <<peer, session>>
      BY <1>10, <2>1, <1>t DEF Restart
    <3> QED BY <3>1, <1>l DEF Linked
  <2>2. CASE k = n
    <3>1. /\ stage'[k][x] = IF stage[k][x] = "unborn" THEN "unborn" ELSE "dropped"
          /\ inbox'[k][x] = <<>> /\ UNCHANGED <<peer, session>>
      BY <1>10, <2>2, <1>t DEF Restart
    <3> QED BY <3>1, <1>l DEF Linked
  <2> QED BY <2>1, <2>2
<1>11. ASSUME UNCHANGED <<stage, peer, session, inbox, pump>> PROVE Linked(k, x)'
  BY <1>11, <1>l DEF Linked
<1> QED
  BY <1>1, <1>2, <1>3, <1>4, <1>5, <1>6, <1>7, <1>8, <1>9, <1>10, <1>11, StepCases
     DEF Sent, Failed, Asked, ListedIn, vars

\* Nobody sends to itself.
LEMMA ApartStep ==
  ASSUME TypeOK, Stages, [Next]_vars
  PROVE  \A n \in Nodes : wire'[n][n] = {}
<1> USE SessionAssumption DEF SessionAssumption, conns, tables, history
<1>t. wire \in [Nodes -> [Nodes -> SUBSET Datagram]] /\ \A n \in Nodes : wire[n][n] = {}
  BY DEF TypeOK, Stages
<1> SUFFICES ASSUME NEW k \in Nodes PROVE wire'[k][k] = {}
  OBVIOUS
<1>0. ASSUME NEW n \in Nodes, NEW m \in Nodes, n # m, NEW s, wire' = [wire EXCEPT ![n][m] = s]
      PROVE  wire'[k][k] = {}
  BY <1>0, <1>t
<1>1. ASSUME NEW n \in Nodes, NEW m \in Nodes, Forwarded(n, m) \/ \E c \in Conns : Opened(n, m, c)
      PROVE  wire'[k][k] = {}
  <2>1. PICK d \in wire[m][n] : wire' = [wire EXCEPT ![m][n] = @ \ {d}]
    BY <1>1 DEF Forwarded, Opened
  <2> QED BY <2>1, <1>t, <1>0
<1>2. ASSUME NEW n \in Nodes, NEW m \in Nodes, Sent(n, m) \/ \E c \in Conns : Called(n, m, c)
      PROVE  wire'[k][k] = {}
  <2>1. n # m
    BY <1>2 DEF Sent, Called, Asked
  <2>2. \E s : wire' = [wire EXCEPT ![n][m] = s]
    BY <1>2 DEF Sent, Called
  <2> QED BY <2>1, <2>2, <1>0
<1>3. ASSUME NEW n \in Nodes, NEW c \in Conns,
             \/ Answered(n, c) \/ Established(n, c) \/ Completed(n, c) \/ Ended(n, c)
             \/ \E s \in Sessions : Greeted(n, c, s)
      PROVE  wire'[k][k] = {}
  <2>1. peer[n][c] \in Nodes /\ peer[n][c] # n
    BY <1>3 DEF Answered, Established, Completed, Greeted, Taken, Ended, Stages, Linked
  <2>2. wire' = wire \/ \E s : wire' = [wire EXCEPT ![n][peer[n][c]] = s]
    BY <1>3 DEF Answered, Established, Completed, Greeted, Ended
  <2> QED BY <2>1, <2>2, <1>0, <1>t
<1>4. ASSUME wire' = wire PROVE wire'[k][k] = {}
  BY <1>4, <1>t
<1> QED
  BY <1>1, <1>2, <1>3, <1>4, StepCases
     DEF Failed, Skipped, Delivered, TakenUp, ListedIn, Restart, vars

LEMMA StagesStep == ASSUME TypeOK, Stages, [Next]_vars PROVE Stages'
  BY LinkedStep, PointsStep, QueuedStep, ApartStep DEF Stages

LEMMA InitStages == Init => TypeOK /\ Stages
<1> SUFFICES ASSUME Init PROVE TypeOK /\ Stages
  OBVIOUS
<1> USE SessionAssumption DEF SessionAssumption
<1>1. \A S : <<>> \in Seq(S) /\ Len(<<>>) = 0
  BY EmptySeq
<1>2. TypeOK
  BY <1>1 DEF Init, TypeOK
<1>3. \A n \in Nodes, c \in Conns : Linked(n, c)
  BY DEF Init, Linked
<1>4. \A n, m \in Nodes : PointsTo(n, m, entry[n][m]) /\ PointsTo(n, m, table[n][m])
  BY DEF Init, PointsTo
<1>5. \A n \in Nodes : Queued(n) /\ wire[n][n] = {}
  BY <1>1 DEF Init, Queued
<1> QED BY <1>2, <1>3, <1>4, <1>5 DEF Stages

LEMMA Staged == Spec => [](TypeOK /\ Stages)
<1>1. TypeOK /\ Stages /\ [Next]_vars => (TypeOK /\ Stages)'
  BY TypeStep, StagesStep
<1> QED BY InitStages, <1>1, PTL DEF Spec

\* All variables keep their types, and a task that waits for a connection finds
\* it in the stage it waits for: nobody else takes it from the task.
THEOREM TypeCorrect == Spec => []TypeOK
BY Staged, PTL

-----------------------------------------------------------------------------
(* Connections from others *)

\* Connection c of n is from its peer: established, or from its first datagram on,
\* and as long as the accept task has it in its hands.
FromPeer(n, c) == stage[n][c] = "up" /\ session[n][c] \in {peer[n][c]} \X Conns
Inbound(n, c) ==
  stage[n][c] \in {"queued", "accept"} \/ accepting[n] = c \/ FromPeer(n, c)

\* Daemon n has at most one from each peer, and no other can come: the address
\* keeps its entry.
OnePerPeer(n) ==
  \A c, d \in Conns : Inbound(n, c) =>
    /\ entry[n][peer[n][c]] # None
    /\ Inbound(n, d) /\ peer[n][d] = peer[n][c] => c = d
Listed(n) ==
  \A c \in Conns : FromPeer(n, c) => table[n][peer[n][c]] = c \/ accepting[n] = c
OneInbound == \A n \in Nodes : OnePerPeer(n) /\ Listed(n)

\* The connections of n from others are those they were, or fewer.
Fewer(n) ==
  /\ \A c \in Conns : Inbound(n, c)' => /\ Inbound(n, c) /\ peer'[n][c] = peer[n][c]
                                        /\ FromPeer(n, c)' => /\ FromPeer(n, c)
                                                              /\ accepting[n] = c => accepting'[n] = c
                                        /\ entry'[n][peer[n][c]] = entry[n][peer[n][c]]
                                        /\ table'[n][peer[n][c]] = table[n][peer[n][c]]

LEMMA FewerKeeps ==
  ASSUME NEW n \in Nodes, OnePerPeer(n), Listed(n), Fewer(n)
  PROVE  OnePerPeer(n)' /\ Listed(n)'
<1>1. \A c \in Conns : FromPeer(n, c)' => Inbound(n, c)'
  BY DEF Inbound
<1> QED BY <1>1 DEF OnePerPeer, Listed, Fewer

LEMMA OneInboundStep ==
  ASSUME TypeOK, Stages, OneInbound, [Next]_vars, NEW k \in Nodes
  PROVE  OnePerPeer(k)' /\ Listed(k)'
<1> USE SessionAssumption DEF SessionAssumption
<1>t. /\ entry \in [Nodes -> [Nodes -> Conns \cup {None}]]
      /\ stage \in [Nodes -> [Conns -> {"unborn", "connect", "queued", "accept", "up", "dropped"}]]
      /\ peer \in [Nodes -> [Conns -> Nodes \cup {None}]]
      /\ session \in [Nodes -> [Conns -> Sessions \cup {None}]]
      /\ table \in [Nodes -> [Nodes -> Conns \cup {None}]]
      /\ accepting \in [Nodes -> Conns \cup {None}]
  BY DEF TypeOK
<1>a. \A n \in Nodes : accepting[n] # None => stage[n][accepting[n]] \in {"accept", "up", "dropped"}
  BY DEF TypeOK
<1>l. \A n \in Nodes, c \in Conns : stage[n][c] # "unborn" => peer[n][c] \in Nodes /\ peer[n][c] # n
  BY DEF Stages, Linked
<1>o. OnePerPeer(k) /\ Listed(k)
  BY DEF OneInbound
<1> DEFINE Good == OnePerPeer(k)' /\ Listed(k)'
<1>0. ASSUME Fewer(k) PROVE Good
  BY <1>o, <1>0, FewerKeeps
<1>u. ASSUME /\ stage'[k] = stage[k] /\ peer'[k] = peer[k] /\ session'[k] = session[k]
             /\ entry'[k] = entry[k] /\ table'[k] = table[k] /\ accepting'[k] = accepting[k]
      PROVE  Good
  BY <1>0, <1>u DEF Fewer, Inbound, FromPeer
<1> HIDE DEF Good
<1>1. ASSUME NEW n \in Nodes, NEW m \in Nodes, NEW c \in Conns, Opened(n, m, c) PROVE Good
  <2>1. /\ entry[n][m] = None /\ stage[n][c] = "unborn"
        /\ stage' = [stage EXCEPT ![n][c] = "queued"]
        /\ peer' = [peer EXCEPT ![n][c] = m]
        /\ entry' = [entry EXCEPT ![n][m] = c]
        /\ UNCHANGED <<session, table, accepting>>
    BY <1>1 DEF Opened
  <2>2. CASE k # n
    BY <2>1, <2>2, <1>u, <1>t
  <2>3. CASE k = n
    <3>1. /\ \A d \in Conns : d # c => /\ stage'[k][d] = stage[k][d] /\ peer'[k][d] = peer[k][d]
                                       /\ session'[k][d] = session[k][d]
          /\ stage'[k][c] = "queued" /\ peer'[k][c] = m
          /\ entry'[k][m] = c
          /\ \A j \in Nodes : j # m => entry'[k][j] = entry[k][j]
          /\ table'[k] = table[k] /\ accepting' = accepting
      BY <2>1, <2>3, <1>t
    <3>2. \A d \in Conns : d # c => (Inbound(k, d)' <=> Inbound(k, d)) /\ (FromPeer(k, d)' <=> FromPeer(k, d))
      BY <3>1 DEF Inbound, FromPeer
    <3>3. \A d \in Conns : Inbound(k, d) => peer[k][d] # m
      BY <2>1, <2>3, <1>o DEF OnePerPeer
    <3>4. ~ FromPeer(k, c)'
      BY <3>1 DEF FromPeer
    <3>5. Listed(k)'
      BY <3>1, <3>2, <3>4, <1>o DEF Listed
    <3>6. \A d \in Conns : Inbound(k, d) => entry'[k][peer[k][d]] # None /\ peer[k][d] \in Nodes
      BY <3>1, <3>3, <1>o, <1>l, <1>a DEF OnePerPeer, Inbound, FromPeer
    <3>7. OnePerPeer(k)'
      BY <3>1, <3>2, <3>3, <3>6, <1>o DEF OnePerPeer
    <3> QED BY <3>5, <3>7 DEF Good
  <2> QED BY <2>2, <2>3
<1>2. ASSUME NEW n \in Nodes, NEW m \in Nodes, NEW c \in Conns, Called(n, m, c) PROVE Good
  <2>1. /\ stage[n][c] = "unborn"
        /\ stage' = [stage EXCEPT ![n][c] = "connect"]
        /\ peer' = [peer EXCEPT ![n][c] = m]
        /\ session' = [session EXCEPT ![n][c] = <<n, c>>]
        /\ entry' = [entry EXCEPT ![n][m] = c]
        /\ table' = table /\ accepting' = accepting
    BY <1>2 DEF Called, Asked
  <2>2. CASE k # n
    BY <2>1, <2>2, <1>u, <1>t
  <2>3. CASE k = n
    <3>1. /\ \A d \in Conns : d # c => /\ stage'[k][d] = stage[k][d] /\ peer'[k][d] = peer[k][d]
                                       /\ session'[k][d] = session[k][d]
          /\ stage'[k][c] = "connect"
          /\ \A j \in Nodes : entry'[k][j] = IF j = m THEN c ELSE entry[k][j]
          /\ table'[k] = table[k] /\ accepting' = accepting /\ stage[k][c] = "unborn"
      BY <2>1, <2>3, <1>t
    <3>2. \A d \in Conns : d # c => (Inbound(k, d)' <=> Inbound(k, d)) /\ (FromPeer(k, d)' <=> FromPeer(k, d))
      BY <3>1 DEF Inbound, FromPeer
    <3>3. ~ Inbound(k, c)' /\ ~ FromPeer(k, c)'
      BY <3>1, <1>a DEF Inbound, FromPeer
    <3>4. Listed(k)'
      BY <3>1, <3>2, <3>3, <1>o DEF Listed
    <3>5. \A d \in Conns : Inbound(k, d) => entry'[k][peer[k][d]] # None
      BY <3>1, <1>o, <1>l, <1>a DEF OnePerPeer, Inbound, FromPeer
    <3>6. OnePerPeer(k)'
      BY <3>1, <3>2, <3>3, <3>5, <1>o DEF OnePerPeer
    <3> QED BY <3>4, <3>6 DEF Good
  <2> QED BY <2>2, <2>3
<1>3. ASSUME NEW n \in Nodes, NEW c \in Conns, Established(n, c) \/ Ended(n, c) PROVE Good
  <2>1. /\ stage[n][c] # "unborn"
        /\ UNCHANGED <<peer, session, entry, table>>
        /\ \/ stage' = [stage EXCEPT ![n][c] = "dropped"]
           \/ stage' = [stage EXCEPT ![n][c] = "up"] /\ session[n][c] = <<n, c>>
    BY <1>3 DEF Established, Ended, Taken
  <2>2. ~ FromPeer(n, c)' /\ stage'[n][c] \in {"up", "dropped"}
    <3>1. CASE stage' = [stage EXCEPT ![n][c] = "dropped"]
      BY <3>1, <1>t DEF FromPeer
    <3>2. CASE stage' = [stage EXCEPT ![n][c] = "up"] /\ session[n][c] = <<n, c>>
      BY <2>1, <3>2, <1>t, <1>l DEF FromPeer
    <3> QED BY <2>1, <3>1, <3>2
  <2>3. \A d \in Conns : ~ (k = n /\ d = c) => stage'[k][d] = stage[k][d]
    BY <2>1, <1>t
  <2>4. \A d \in Conns : /\ accepting'[k] = d => accepting[k] = d
                         /\ accepting[k] = d => accepting'[k] = d \/ (k = n /\ d = c)
    BY <1>3, <1>t DEF Established, Taken, Ended
  <2>5. \A d \in Conns : Inbound(k, d)' => Inbound(k, d)
    BY <2>1, <2>2, <2>3, <2>4 DEF Inbound, FromPeer
  <2>6. \A d \in Conns : FromPeer(k, d)' => ~ (k = n /\ d = c) /\ FromPeer(k, d)
    BY <2>1, <2>2, <2>3 DEF FromPeer
  <2>7. Fewer(k)
    BY <2>1, <2>4, <2>5, <2>6 DEF Fewer
  <2> QED BY <2>7, <1>0
<1>4. ASSUME NEW n \in Nodes, NEW c \in Conns, NEW s \in Sessions, Greeted(n, c, s) PROVE Good
  <2>1. /\ stage[n][c] = "accept" /\ session' = [session EXCEPT ![n][c] = s]
        /\ UNCHANGED <<peer, stage, entry, table, accepting>>
    BY <1>4 DEF Greeted, Taken
  <2>2. \A d \in Conns : ~ (k = n /\ d = c) => session'[k][d] = session[k][d]
    BY <2>1, <1>t
  <2>3. Fewer(k)
    BY <2>1, <2>2 DEF Fewer, Inbound, FromPeer
  <2> QED BY <2>3, <1>0
<1>5. ASSUME NEW n \in Nodes, NEW c \in Conns, TakenUp(n, c) PROVE Good
  <2>1. /\ stage[n][c] = "queued" /\ stage' = [stage EXCEPT ![n][c] = "accept"]
        /\ accepting[n] = None /\ accepting' = [accepting EXCEPT ![n] = c]
        /\ UNCHANGED <<peer, session, entry, table>>
    BY <1>5 DEF TakenUp
  <2>2. \A d \in Conns : \/ stage'[k][d] = stage[k][d]
                         \/ stage[k][d] = "queued" /\ stage'[k][d] = "accept"
    BY <2>1, <1>t
  <2>3. \A d \in Conns : /\ accepting'[k] = d => accepting[k] = d \/ stage[k][d] = "queued"
                         /\ accepting[k] = d => accepting'[k] = d
    BY <2>1, <1>t
  <2>4. Fewer(k)
    BY <2>1, <2>2, <2>3 DEF Fewer, Inbound, FromPeer
  <2> QED BY <2>4, <1>0
<1>6. ASSUME NEW n \in Nodes, NEW c \in Conns, Completed(n, c) PROVE Good
  <2>1. /\ stage[n][c] = "accept" /\ peer[n][c] \in Nodes /\ accepting[n] = c
        /\ stage' = [stage EXCEPT ![n][c] = "up"]
        /\ UNCHANGED <<peer, session, entry, table, accepting>>
    BY <1>6 DEF Completed, Taken
  <2>2. CASE k # n
    BY <2>1, <2>2, <1>u, <1>t
  <2>3. CASE k = n
    <3>1. \A d \in Conns : d # c => stage'[k][d] = stage[k][d]
      BY <2>1, <2>3, <1>t
    <3>2. \A d \in Conns : /\ Inbound(k, d)' => Inbound(k, d)
                           /\ d # c /\ FromPeer(k, d)' => FromPeer(k, d)
      BY <2>1, <2>3, <3>1 DEF Inbound, FromPeer
    <3>3. OnePerPeer(k)'
      BY <2>1, <3>2, <1>o DEF OnePerPeer
    <3>4. Listed(k)'
      BY <2>1, <2>3, <3>2, <1>o DEF Listed
    <3> QED BY <3>3, <3>4 DEF Good
  <2> QED BY <2>2, <2>3
<1>12. ASSUME NEW n \in Nodes, NEW c \in Conns, ListedIn(n, c) PROVE Good
  <2>1. /\ accepting[n] = c /\ stage[n][c] \in {"up", "dropped"}
        /\ accepting' = [accepting EXCEPT ![n] = None]
        /\ table' = [table EXCEPT ![n][peer[n][c]] = c]
        /\ UNCHANGED <<stage, peer, session, entry>>
    BY <1>12 DEF ListedIn
  <2>2. CASE k # n
    BY <2>1, <2>2, <1>u, <1>t
  <2>3. CASE k = n
    <3>0. peer[k][c] \in Nodes
      BY <2>1, <2>3, <1>l
    <3>1. /\ \A j \in Nodes : table'[k][j] = IF j = peer[k][c] THEN c ELSE table[k][j]
          /\ \A d \in Conns : accepting'[k] # d
      BY <2>1, <2>3, <1>t
    <3>2. \A d \in Conns : /\ Inbound(k, d)' => Inbound(k, d)
                           /\ FromPeer(k, d)' => FromPeer(k, d) /\ Inbound(k, d)
      BY <2>1, <3>1 DEF Inbound, FromPeer
    <3>3. Inbound(k, c)
      BY <2>1, <2>3 DEF Inbound
    <3>4. OnePerPeer(k)'
      BY <2>1, <3>2, <1>o DEF OnePerPeer
    <3>5. \A d \in Conns : d # c /\ FromPeer(k, d)' =>
            peer[k][d] # peer[k][c] /\ peer[k][d] \in Nodes /\ table[k][peer[k][d]] = d
      BY <2>1, <2>3, <3>2, <3>3, <1>o, <1>l DEF OnePerPeer, Listed, FromPeer
    <3>6. Listed(k)'
      BY <2>1, <3>0, <3>1, <3>5 DEF Listed
    <3> QED BY <3>4, <3>6 DEF Good
  <2> QED BY <2>2, <2>3
<1>7. ASSUME NEW n \in Nodes, Restart(n) PROVE Good
  <2>1. CASE k # n
    BY <1>7, <2>1, <1>u, <1>t DEF Restart
  <2>2. CASE k = n
    <3>1. \A c \in Conns : stage'[k][c] \in {"unborn", "dropped"} /\ accepting'[k] # c
      BY <1>7, <2>2, <1>t DEF Restart
    <3>2. Fewer(k)
      BY <3>1 DEF Fewer, Inbound, FromPeer
    <3> QED BY <3>2, <1>0
  <2> QED BY <2>1, <2>2
<1>8. ASSUME UNCHANGED <<stage, peer, session, entry, table, accepting>> PROVE Good
  BY <1>8, <1>u
<1>9. ASSUME NEW n \in Nodes, NEW m \in Nodes, Forwarded(n, m) \/ Sent(n, m) \/ Failed(n, m)
      PROVE  Good
  BY <1>9, <1>8 DEF Forwarded, Sent, Failed, Asked
<1>10. ASSUME NEW n \in Nodes, NEW c \in Conns,
              Skipped(n, c) \/ Answered(n, c) \/ \E i \in Nat : Delivered(n, c, i)
       PROVE  Good
  BY <1>10, <1>8 DEF Skipped, Answered, Delivered, Taken
<1>11. ASSUME UNCHANGED vars PROVE Good
  BY <1>11, <1>8 DEF vars, conns, tables
<1>13. Good
  BY <1>1, <1>2, <1>3, <1>4, <1>5, <1>6, <1>7, <1>9, <1>10, <1>11, <1>12, StepCases
<1> QED BY <1>13 DEF Good

\* An established connection with a peer that called is the one in the table, as
\* long as it lives, or the accept task still has to put it there: whatever other
\* connections with that peer there are.
THEOREM InboundReachableHolds == Spec => []InboundReachable
<1>1. Init => OneInbound
  BY SessionAssumption DEF SessionAssumption, Init, OneInbound, OnePerPeer, Listed, Inbound, FromPeer
<1>2. TypeOK /\ Stages /\ OneInbound /\ [Next]_vars => OneInbound'
  BY OneInboundStep DEF OneInbound
<1>3. OneInbound => InboundReachable
  BY DEF OneInbound, Listed, FromPeer, InboundReachable
<1> QED BY Staged, <1>1, <1>2, <1>3, PTL DEF Spec

-----------------------------------------------------------------------------
(* Frames *)

\* The data frames among the datagrams of a channel, and whether no frame is
\* there twice; and the same of a set of datagrams.
IsData(d) == d.kind = "data"
Frame(d) == IF IsData(d) THEN {d.frame} ELSE {}
Frames(s) == {s[i].frame : i \in {j \in 1 .. Len(s) : IsData(s[j])}}
Single(s) ==
  \A i, j \in 1 .. Len(s) : i < j /\ IsData(s[i]) /\ IsData(s[j]) => s[i].frame # s[j].frame
Carried(W) == {d.frame : d \in {e \in W : IsData(e)}}
Alone(W) == \A d, e \in W : IsData(d) /\ IsData(e) /\ d.frame = e.frame => d = e
Values(s) == {s[i] : i \in 1 .. Len(s)}
Distinct(s) == \A i, j \in 1 .. Len(s) : i < j => s[i] # s[j]

LEMMA NoFrames == Frames(<<>>) = {} /\ Single(<<>>)
<1>1. Len(<<>>) = 0
  BY EmptySeq
<1> QED BY <1>1 DEF Frames, Single

LEMMA FrameTypes ==
  /\ \A s \in Seq(Datagram) : Frames(s) \subseteq Nat
  /\ \A d \in Datagram : Frame(d) \subseteq Nat
<1>1. ASSUME NEW s \in Seq(Datagram), NEW i \in 1 .. Len(s), IsData(s[i]) PROVE s[i].frame \in Nat
  <2>1. s[i] \in Datagram
    BY ElementOfSeq
  <2> QED BY <1>1, <2>1, Datagrams DEF IsData
<1> QED BY <1>1, Datagrams DEF Frames, Frame, IsData

LEMMA OneFrame ==
  ASSUME NEW d \in Datagram
  PROVE  Frames(<<d>>) = Frame(d) /\ Single(<<d>>)
<1>1. Len(<<d>>) = 1 /\ <<d>>[1] = d
  OBVIOUS
<1>2. \A i \in 1 .. Len(<<d>>) : i = 1
  BY <1>1
<1>3. 1 \in 1 .. Len(<<d>>)
  BY <1>1
<1>4. Frames(<<d>>) = Frame(d)
  BY <1>1, <1>2, <1>3 DEF Frames, Frame
<1>5. Single(<<d>>)
  BY <1>2 DEF Single
<1> QED BY <1>4, <1>5

\* A frame more at the end.
LEMMA FramesAppend ==
  ASSUME NEW s \in Seq(Datagram), NEW d \in Datagram
  PROVE  /\ Frames(Append(s, d)) = Frames(s) \cup Frame(d)
         /\ Single(s) /\ Frames(s) \cap Frame(d) = {} => Single(Append(s, d))
<1> DEFINE t == Append(s, d)
<1>1. /\ Len(t) = Len(s) + 1 /\ Len(s) \in Nat
      /\ \A i \in 1 .. Len(s) : t[i] = s[i]
      /\ t[Len(s) + 1] = d
  BY Longer
<1> HIDE DEF t
<1>2. \A i \in 1 .. Len(t) : i \in 1 .. Len(s) \/ i = Len(s) + 1
  BY <1>1
<1>3. \A i \in 1 .. Len(s) : i \in 1 .. Len(t)
  BY <1>1
<1>4. Len(s) + 1 \in 1 .. Len(t)
  BY <1>1
<1>5. Frames(t) \subseteq Frames(s) \cup Frame(d)
  BY <1>1, <1>2 DEF Frames, Frame
<1>6. Frames(s) \subseteq Frames(t)
  BY <1>1, <1>3 DEF Frames
<1>7. Frame(d) \subseteq Frames(t)
  BY <1>1, <1>4 DEF Frames, Frame
<1>8. ASSUME Single(s), Frames(s) \cap Frame(d) = {} PROVE Single(t)
  <2> SUFFICES ASSUME NEW i \in 1 .. Len(t), NEW j \in 1 .. Len(t), i < j,
                      IsData(t[i]), IsData(t[j])
               PROVE  t[i].frame # t[j].frame
    BY DEF Single
  <2>1. i \in 1 .. Len(s)
    BY <1>1
  <2>2. CASE j \in 1 .. Len(s)
    BY <1>1, <1>8, <2>1, <2>2 DEF Single
  <2>3. CASE j = Len(s) + 1
    <3>1. t[i].frame \in Frames(s)
      BY <1>1, <2>1 DEF Frames
    <3>2. t[j].frame \in Frame(d)
      BY <1>1, <2>3 DEF Frame
    <3> QED BY <1>8, <3>1, <3>2
  <2> QED BY <1>2, <2>2, <2>3
<1> QED BY <1>5, <1>6, <1>7, <1>8 DEF t

\* A frame less at the front.
LEMMA FramesTail ==
  ASSUME NEW s \in Seq(Datagram), s # <<>>
  PROVE  /\ Frames(s) = Frames(Tail(s)) \cup Frame(Head(s))
         /\ Single(s) => /\ Single(Tail(s))
                             /\ Frames(Tail(s)) \cap Frame(Head(s)) = {}
<1> DEFINE t == Tail(s)
           d == Head(s)
<1>1. /\ d = s[1] /\ Len(t) = Len(s) - 1 /\ Len(s) \in Nat /\ Len(s) >= 1
      /\ \A i \in 1 .. Len(t) : t[i] = s[i + 1]
  BY Shorter
<1> HIDE DEF t, d
<1>2. \A i \in 1 .. Len(s) : i = 1 \/ (i - 1 \in 1 .. Len(t) /\ t[i - 1] = s[i])
  BY <1>1
<1>3. \A i \in 1 .. Len(t) : i + 1 \in 1 .. Len(s) /\ 1 < i + 1
  BY <1>1
<1>4. 1 \in 1 .. Len(s)
  BY <1>1
<1>5. Frames(s) \subseteq Frames(t) \cup Frame(d)
  BY <1>1, <1>2 DEF Frames, Frame
<1>6. Frames(t) \subseteq Frames(s)
  BY <1>1, <1>3 DEF Frames
<1>7. Frame(d) \subseteq Frames(s)
  BY <1>1, <1>4 DEF Frames, Frame
<1>8. ASSUME Single(s) PROVE Single(t)
  <2> SUFFICES ASSUME NEW i \in 1 .. Len(t), NEW j \in 1 .. Len(t), i < j,
                      IsData(t[i]), IsData(t[j])
               PROVE  t[i].frame # t[j].frame
    BY DEF Single
  <2>1. /\ i + 1 \in 1 .. Len(s) /\ j + 1 \in 1 .. Len(s) /\ i + 1 < j + 1
        /\ t[i] = s[i + 1] /\ t[j] = s[j + 1]
    BY <1>1
  <2> QED BY <1>8, <2>1 DEF Single
<1>9. ASSUME Single(s), NEW x \in Frames(t), NEW y \in Frame(d) PROVE y # x
  <2>1. PICK i \in 1 .. Len(t) : IsData(t[i]) /\ x = t[i].frame
    BY <1>9 DEF Frames
  <2>2. IsData(s[1]) /\ y = s[1].frame
    BY <1>1, <1>9 DEF Frame
  <2>3. i + 1 \in 1 .. Len(s) /\ 1 < i + 1 /\ t[i] = s[i + 1]
    BY <1>1, <1>3
  <2> QED BY <1>4, <1>9, <2>1, <2>2, <2>3 DEF Single
<1> QED BY <1>5, <1>6, <1>7, <1>8, <1>9 DEF t, d

\* A datagram more on the way, or one less.
LEMMA CarriedAdd ==
  ASSUME NEW W, NEW d
  PROVE  /\ Carried(W \cup {d}) = Carried(W) \cup Frame(d)
         /\ Alone(W) /\ Carried(W) \cap Frame(d) = {} => Alone(W \cup {d})
<1>1. Carried(W \cup {d}) = Carried(W) \cup Frame(d)
  BY DEF Carried, Frame
<1>2. ASSUME Alone(W), Carried(W) \cap Frame(d) = {} PROVE Alone(W \cup {d})
  BY <1>2 DEF Alone, Carried, Frame
<1> QED BY <1>1, <1>2

LEMMA CarriedTake ==
  ASSUME NEW W, NEW d \in W
  PROVE  /\ Carried(W) = Carried(W \ {d}) \cup Frame(d)
         /\ Alone(W) => Alone(W \ {d}) /\ Carried(W \ {d}) \cap Frame(d) = {}
<1>1. Carried(W) = Carried(W \ {d}) \cup Frame(d)
  BY DEF Carried, Frame
<1>2. ASSUME Alone(W) PROVE Alone(W \ {d}) /\ Carried(W \ {d}) \cap Frame(d) = {}
  BY <1>2 DEF Alone, Carried, Frame
<1> QED BY <1>1, <1>2

LEMMA ValuesAppend ==
  ASSUME NEW s \in Seq(Nat), NEW v \in Nat
  PROVE  /\ Values(Append(s, v)) = Values(s) \cup {v} /\ Values(s) \subseteq Nat
         /\ Distinct(s) /\ v \notin Values(s) => Distinct(Append(s, v))
<1> DEFINE t == Append(s, v)
<1>1. /\ Len(t) = Len(s) + 1 /\ Len(s) \in Nat
      /\ \A i \in 1 .. Len(s) : t[i] = s[i]
      /\ t[Len(s) + 1] = v
  BY Longer
<1>0. \A i \in 1 .. Len(s) : s[i] \in Nat
  BY ElementOfSeq
<1> HIDE DEF t
<1>2. \A i \in 1 .. Len(t) : i \in 1 .. Len(s) \/ i = Len(s) + 1
  BY <1>1
<1>3. \A i \in 1 .. Len(s) : i \in 1 .. Len(t)
  BY <1>1
<1>4. Len(s) + 1 \in 1 .. Len(t)
  BY <1>1
<1>5. Values(t) \subseteq Values(s) \cup {v}
  BY <1>1, <1>2 DEF Values
<1>6. Values(s) \cup {v} \subseteq Values(t)
  BY <1>1, <1>3, <1>4 DEF Values
<1>7. Values(s) \subseteq Nat
  BY <1>0 DEF Values
<1>8. ASSUME Distinct(s), v \notin Values(s) PROVE Distinct(t)
  <2> SUFFICES ASSUME NEW i \in 1 .. Len(t), NEW j \in 1 .. Len(t), i < j
               PROVE  t[i] # t[j]
    BY DEF Distinct
  <2>1. i \in 1 .. Len(s) /\ t[i] = s[i]
    BY <1>1
  <2>2. CASE j \in 1 .. Len(s)
    BY <1>1, <1>8, <2>1, <2>2 DEF Distinct
  <2>3. CASE j = Len(s) + 1
    BY <1>1, <1>8, <2>1, <2>3 DEF Values
  <2> QED BY <1>2, <2>2, <2>3
<1> QED BY <1>5, <1>6, <1>7, <1>8 DEF t

\* What has come to n from m: delivered, or in a channel.
Received(n, m) ==
  Values(delivered[n][m]) \cup UNION {Frames(inbox[n][c]) : c \in {d \in Conns : peer[n][d] = m}}

\* The last frame of n for m has not been transmitted: its task waits.
Pending(n, m) == pump[n] # None /\ peer[n][pump[n]] = m

\* A frame from m on the way to n is there once, and has not come yet.  It is not
\* the one m is asked to send next, which is after all of them.
FreshFrom(n, m) ==
  /\ Alone(wire[m][n])
  /\ \A x \in Carried(wire[m][n]) \cup Received(n, m) :
       x <= sent[m][n] /\ (Pending(m, n) => x < sent[m][n])
  /\ Carried(wire[m][n]) \cap Received(n, m) = {}
Fresh == \A n, m \in Nodes : FreshFrom(n, m)

\* A frame that has come to n is in one place: in one channel, or delivered once.
OnceAt(n, c) ==
  /\ Single(inbox[n][c])
  /\ stage[n][c] # "unborn" => Frames(inbox[n][c]) \cap Values(delivered[n][peer[n][c]]) = {}
  /\ \A d \in Conns : c # d /\ peer[n][c] = peer[n][d] =>
       Frames(inbox[n][c]) \cap Frames(inbox[n][d]) = {}
Once ==
  /\ \A n \in Nodes, c \in Conns : OnceAt(n, c)
  /\ \A n, m \in Nodes : Distinct(delivered[n][m])

LEMMA ReceivedTypes ==
  ASSUME TypeOK, NEW n \in Nodes, NEW m \in Nodes
  PROVE  /\ Received(n, m) \subseteq Nat /\ Carried(wire[m][n]) \subseteq Nat
         /\ sent[m][n] \in Nat
<1>1. delivered[n][m] \in Seq(Nat) /\ wire[m][n] \subseteq Datagram /\ sent[m][n] \in Nat
  BY Typed
<1>2. Values(delivered[n][m]) \subseteq Nat
  BY <1>1, ElementOfSeq DEF Values
<1>3. \A c \in Conns : Frames(inbox[n][c]) \subseteq Nat
  BY Typed, FrameTypes
<1>4. Carried(wire[m][n]) \subseteq Nat
  BY <1>1, Datagrams DEF Carried, IsData
<1> QED BY <1>1, <1>2, <1>3, <1>4 DEF Received

\* The steps in which channels lose datagrams, if anything, and no frame is
\* delivered.
Less(n, c) ==
  \/ inbox'[n][c] = inbox[n][c]
  \/ inbox'[n][c] = <<>>
  \/ inbox[n][c] # <<>> /\ inbox'[n][c] = Tail(inbox[n][c])
Quiet == delivered' = delivered /\ \A n \in Nodes, c \in Conns : Less(n, c)

LEMMA LessFrames ==
  ASSUME TypeOK, Stages, Once, NEW n \in Nodes, NEW c \in Conns, Less(n, c), Steady(n, c)
  PROVE  /\ Frames(inbox'[n][c]) \subseteq Frames(inbox[n][c])
         /\ Single(inbox'[n][c])
         /\ Frames(inbox'[n][c]) # {} => stage[n][c] # "unborn" /\ peer'[n][c] = peer[n][c]
<1>1. inbox[n][c] \in Seq(Datagram) /\ Single(inbox[n][c])
  BY Typed DEF Once, OnceAt
<1>2. Frames(inbox'[n][c]) \subseteq Frames(inbox[n][c]) /\ Single(inbox'[n][c])
  <2>1. CASE inbox'[n][c] = inbox[n][c]
    BY <2>1, <1>1
  <2>2. CASE inbox'[n][c] = <<>>
    BY <2>2, NoFrames
  <2>3. CASE inbox[n][c] # <<>> /\ inbox'[n][c] = Tail(inbox[n][c])
    BY <2>3, <1>1, FramesTail
  <2> QED BY <2>1, <2>2, <2>3 DEF Less
<1>3. stage[n][c] = "unborn" => Frames(inbox[n][c]) = {}
  BY NoFrames DEF Stages, Linked
<1> QED BY <1>2, <1>3 DEF Steady

LEMMA QuietReceived ==
  ASSUME TypeOK, Stages, Once, [Next]_vars, NEW n \in Nodes, NEW m \in Nodes,
         delivered'[n][m] = delivered[n][m], \A c \in Conns : Less(n, c)
  PROVE  Received(n, m)' \subseteq Received(n, m)
<1>1. \A c \in Conns : /\ Frames(inbox'[n][c]) \subseteq Frames(inbox[n][c])
                       /\ Frames(inbox'[n][c]) # {} => peer'[n][c] = peer[n][c]
  BY SteadyStep, LessFrames
<1> QED BY <1>1 DEF Received

LEMMA QuietOnce ==
  ASSUME TypeOK, Stages, Once, [Next]_vars, Quiet
  PROVE  Once'
<1>1. ASSUME NEW n \in Nodes, NEW c \in Conns
      PROVE  /\ Frames(inbox'[n][c]) \subseteq Frames(inbox[n][c])
             /\ Single(inbox'[n][c])
             /\ Frames(inbox'[n][c]) # {} => stage[n][c] # "unborn" /\ peer'[n][c] = peer[n][c]
  BY SteadyStep, LessFrames DEF Quiet
<1>2. ASSUME NEW n \in Nodes, NEW c \in Conns PROVE OnceAt(n, c)'
  <2>1. stage'[n][c] # "unborn" =>
          Frames(inbox'[n][c]) \cap Values(delivered'[n][peer'[n][c]]) = {}
    BY <1>1 DEF Once, OnceAt, Quiet
  <2>2. \A d \in Conns : c # d /\ peer'[n][c] = peer'[n][d] =>
          Frames(inbox'[n][c]) \cap Frames(inbox'[n][d]) = {}
    BY <1>1 DEF Once, OnceAt
  <2> QED BY <1>1, <2>1, <2>2 DEF OnceAt
<1>3. \A n, m \in Nodes : Distinct(delivered'[n][m])
  BY DEF Once, Quiet
<1> QED BY <1>2, <1>3 DEF Once

\* The steps that are quiet: all but those that put a datagram into a channel,
\* and deliveries.
LEMMA QuietSteps ==
  ASSUME TypeOK
  PROVE  /\ \A n, m \in Nodes : Sent(n, m) \/ Failed(n, m) => Quiet
         /\ \A n, m \in Nodes, c \in Conns : Called(n, m, c) => Quiet
         /\ \A n \in Nodes, c \in Conns :
              /\ Skipped(n, c) \/ Answered(n, c) \/ Established(n, c) \/ Completed(n, c) => Quiet
              /\ \A s \in Sessions : Greeted(n, c, s) => Quiet
              /\ Ended(n, c) \/ TakenUp(n, c) \/ ListedIn(n, c) => Quiet
         /\ \A n \in Nodes : Restart(n) => Quiet
         /\ UNCHANGED vars => Quiet
<1>t. inbox \in [Nodes -> [Conns -> Seq(Datagram)]]
  BY Typed
<1>0. ASSUME delivered' = delivered, inbox' = inbox PROVE Quiet
  BY <1>0 DEF Quiet, Less
<1>1. ASSUME NEW n \in Nodes, NEW c \in Conns, Taken(n, c), delivered' = delivered PROVE Quiet
  BY <1>1, <1>t DEF Taken, Quiet, Less
<1>2. ASSUME NEW n \in Nodes, NEW c \in Conns, Ended(n, c) PROVE Quiet
  BY <1>2, <1>t DEF Ended, Quiet, Less
<1>3. ASSUME NEW n \in Nodes, Restart(n) PROVE Quiet
  BY <1>3, <1>t DEF Restart, Quiet, Less
<1>4. \A n, m \in Nodes : Sent(n, m) \/ Failed(n, m) => Quiet
  BY <1>0 DEF Sent, Failed, Asked
<1>5. \A n, m \in Nodes, c \in Conns : Called(n, m, c) => Quiet
  BY <1>0 DEF Called, Asked
<1>6. ASSUME NEW n \in Nodes, NEW c \in Conns
      PROVE  /\ Skipped(n, c) \/ Answered(n, c) \/ Established(n, c) \/ Completed(n, c) => Quiet
             /\ \A s \in Sessions : Greeted(n, c, s) => Quiet
             /\ Ended(n, c) \/ TakenUp(n, c) \/ ListedIn(n, c) => Quiet
  BY <1>0, <1>1, <1>2 DEF Skipped, Answered, Established, Completed, Greeted, TakenUp, ListedIn
<1>7. UNCHANGED vars => Quiet
  BY <1>0 DEF vars, conns, history
<1> QED BY <1>3, <1>4, <1>5, <1>6, <1>7

\* Datagram d of m comes into channel c of n, or gets lost.
Comes(n, m, c, d) ==
  /\ d \in wire[m][n] /\ wire' = [wire EXCEPT ![m][n] = @ \ {d}]
  /\ inbox'[n][c] \in {Append(inbox[n][c], d), inbox[n][c]}
  /\ peer'[n][c] = m /\ stage'[n][c] # "unborn"
  /\ stage[n][c] = "unborn" => inbox[n][c] = <<>>
  /\ stage[n][c] # "unborn" => peer[n][c] = m
  /\ \A k \in Nodes, x \in Conns : ~ (k = n /\ x = c) => inbox'[k][x] = inbox[k][x]
  /\ UNCHANGED <<pump, sent, delivered>>

LEMMA Coming ==
  ASSUME TypeOK, Stages, [Next]_vars, NEW n \in Nodes, NEW m \in Nodes,
         Forwarded(n, m) \/ \E c \in Conns : Opened(n, m, c)
  PROVE  \E c \in Conns, d \in Datagram : Comes(n, m, c, d)
<1>t. /\ inbox \in [Nodes -> [Conns -> Seq(Datagram)]]
      /\ wire \in [Nodes -> [Nodes -> SUBSET Datagram]]
      /\ entry \in [Nodes -> [Nodes -> Conns \cup {None}]]
      /\ stage \in [Nodes -> [Conns -> {"unborn", "connect", "queued", "accept", "up", "dropped"}]]
      /\ peer \in [Nodes -> [Conns -> Nodes \cup {None}]]
  BY DEF TypeOK
<1>1. CASE Forwarded(n, m)
  <2>1. /\ entry[n][m] \in Conns /\ stage[n][entry[n][m]] # "unborn" /\ peer[n][entry[n][m]] = m
    BY <1>1, <1>t DEF Forwarded, Stages, PointsTo
  <2>2. PICK d \in wire[m][n] :
          /\ wire' = [wire EXCEPT ![m][n] = @ \ {d}]
          /\ inbox' = IF stage[n][entry[n][m]] = "dropped" THEN inbox
                      ELSE [inbox EXCEPT ![n][entry[n][m]] = Append(@, d)]
    BY <1>1 DEF Forwarded
  <2>3. /\ inbox'[n][entry[n][m]] \in {Append(inbox[n][entry[n][m]], d), inbox[n][entry[n][m]]}
        /\ \A k \in Nodes, x \in Conns : ~ (k = n /\ x = entry[n][m]) => inbox'[k][x] = inbox[k][x]
    BY <2>1, <2>2, <1>t
  <2>4. UNCHANGED <<stage, peer, pump, sent, delivered>>
    BY <1>1 DEF Forwarded
  <2>5. Comes(n, m, entry[n][m], d)
    BY <2>1, <2>2, <2>3, <2>4 DEF Comes
  <2>6. d \in Datagram
    BY <1>t
  <2> QED BY <2>1, <2>5, <2>6
<1>2. ASSUME NEW c \in Conns, Opened(n, m, c) PROVE \E x \in Conns, d \in Datagram : Comes(n, m, x, d)
  <2>1. stage[n][c] = "unborn" /\ inbox[n][c] = <<>>
    BY <1>2 DEF Opened, Stages, Linked
  <2>2. PICK d \in wire[m][n] : /\ wire' = [wire EXCEPT ![m][n] = @ \ {d}]
                               /\ inbox' = [inbox EXCEPT ![n][c] = <<d>>]
    BY <1>2 DEF Opened
  <2>3. Append(<<>>, d) = <<d>>
    OBVIOUS
  <2>4. /\ inbox'[n][c] = Append(inbox[n][c], d)
        /\ \A k \in Nodes, x \in Conns : ~ (k = n /\ x = c) => inbox'[k][x] = inbox[k][x]
    BY <2>1, <2>2, <2>3, <1>t
  <2>5. UNCHANGED <<pump, sent, delivered>> /\ peer'[n][c] = m /\ stage'[n][c] # "unborn"
    BY <1>2, <1>t DEF Opened
  <2>6. Comes(n, m, c, d)
    BY <2>1, <2>2, <2>4, <2>5 DEF Comes
  <2>7. d \in Datagram
    BY <1>t
  <2> QED BY <2>6, <2>7
<1> QED BY <1>1, <1>2

LEMMA ComingFrames ==
  ASSUME TypeOK, Once, NEW n \in Nodes, NEW m \in Nodes, NEW c \in Conns, NEW d \in Datagram,
         Comes(n, m, c, d)
  PROVE  /\ Frames(inbox'[n][c]) \subseteq Frames(inbox[n][c]) \cup Frame(d)
         /\ Frames(inbox[n][c]) \cap Frame(d) = {} => Single(inbox'[n][c])
         /\ stage[n][c] = "unborn" => Frames(inbox[n][c]) = {}
         /\ Carried(wire[m][n]) = Carried(wire'[m][n]) \cup Frame(d)
         /\ Alone(wire[m][n]) => /\ Alone(wire'[m][n])
                                 /\ Carried(wire'[m][n]) \cap Frame(d) = {}
<1>1. inbox[n][c] \in Seq(Datagram) /\ Single(inbox[n][c])
  BY Typed DEF Once, OnceAt
<1>2. wire'[m][n] = wire[m][n] \ {d} /\ d \in wire[m][n]
  BY Typed DEF Comes
<1>3. /\ Carried(wire[m][n]) = Carried(wire'[m][n]) \cup Frame(d)
      /\ Alone(wire[m][n]) => Alone(wire'[m][n]) /\ Carried(wire'[m][n]) \cap Frame(d) = {}
  <2> DEFINE W == wire[m][n]
  <2>1. /\ Carried(W) = Carried(W \ {d}) \cup Frame(d)
        /\ Alone(W) => Alone(W \ {d}) /\ Carried(W \ {d}) \cap Frame(d) = {}
    <3> HIDE DEF W
    <3> SUFFICES ASSUME d \in W
                 PROVE  /\ Carried(W) = Carried(W \ {d}) \cup Frame(d)
                        /\ Alone(W) => Alone(W \ {d}) /\ Carried(W \ {d}) \cap Frame(d) = {}
      BY <1>2 DEF W
    <3> QED BY CarriedTake
  <2>2. wire'[m][n] = W \ {d}
    BY <1>2
  <2> QED BY <2>1, <2>2
<1>4. stage[n][c] = "unborn" => Frames(inbox[n][c]) = {}
  BY NoFrames DEF Comes
<1>5. CASE inbox'[n][c] = inbox[n][c]
  BY <1>1, <1>3, <1>4, <1>5
<1>6. CASE inbox'[n][c] = Append(inbox[n][c], d)
  BY <1>1, <1>3, <1>4, <1>6, FramesAppend
<1> QED BY <1>5, <1>6 DEF Comes

\* What comes was not there before.
LEMMA ComingOnce ==
  ASSUME TypeOK, Stages, Fresh, Once, [Next]_vars, NEW n \in Nodes, NEW m \in Nodes,
         NEW c \in Conns, NEW d \in Datagram, Comes(n, m, c, d)
  PROVE  Once'
<1> DEFINE F(k, x) == Frames(inbox[k][x])
           G(k, x) == Frames(inbox'[k][x])
<1>1. Frame(d) \cap Received(n, m) = {}
  <2>1. Carried(wire[m][n]) = Carried(wire'[m][n]) \cup Frame(d)
    BY ComingFrames
  <2> QED BY <2>1 DEF Fresh, FreshFrom
<1>2. G(n, c) \subseteq F(n, c) \cup Frame(d)
  BY ComingFrames
<1>3. \A k \in Nodes, x \in Conns : ~ (k = n /\ x = c) => inbox'[k][x] = inbox[k][x]
  BY DEF Comes
<1>4. \A k \in Nodes, x \in Conns :
        /\ stage[k][x] # "unborn" => peer'[k][x] = peer[k][x]
        /\ stage[k][x] = "unborn" => F(k, x) = {}
  BY SteadyStep, NoFrames DEF Steady, Stages, Linked
<1>5. peer'[n][c] = m /\ (stage[n][c] # "unborn" => peer[n][c] = m) /\ delivered' = delivered
  BY DEF Comes
<1>6. \A y \in F(n, c) : y \in Received(n, m)
  BY <1>4, <1>5 DEF Received
<1>7. \A k \in Nodes, x \in Conns : Single(inbox'[k][x])
  <2>1. \A k \in Nodes, x \in Conns : Single(inbox[k][x])
    BY DEF Once, OnceAt
  <2>2. Single(inbox'[n][c])
    BY <1>1, <1>6, ComingFrames
  <2> QED BY <2>1, <2>2, <1>3
<1>8. ASSUME NEW k \in Nodes, NEW x \in Conns, stage'[k][x] # "unborn"
      PROVE  G(k, x) \cap Values(delivered'[k][peer'[k][x]]) = {}
  <2>1. CASE k = n /\ x = c
    <3>1. F(n, c) \cap Values(delivered[n][m]) = {}
      BY <1>4, <1>5 DEF Once, OnceAt
    <3>2. Frame(d) \cap Values(delivered[n][m]) = {}
      BY <1>1 DEF Received
    <3> QED BY <2>1, <3>1, <3>2, <1>2, <1>5
  <2>2. CASE ~ (k = n /\ x = c)
    BY <2>2, <1>3, <1>4, <1>5 DEF Once, OnceAt
  <2> QED BY <2>1, <2>2
<1>9. ASSUME NEW k \in Nodes, NEW x \in Conns, NEW y \in Conns, x # y, peer'[k][x] = peer'[k][y]
      PROVE  G(k, x) \cap G(k, y) = {}
  <2>1. ASSUME NEW z \in Conns, z # c, peer'[n][z] = m PROVE G(n, c) \cap G(n, z) = {}
    <3>1. G(n, z) = F(n, z) /\ (F(n, z) # {} => peer[n][z] = m)
      BY <2>1, <1>3, <1>4
    <3>2. F(n, z) \cap Frame(d) = {}
      BY <3>1, <1>1 DEF Received
    <3>3. F(n, c) \cap F(n, z) = {}
      BY <2>1, <3>1, <1>4, <1>5 DEF Once, OnceAt
    <3> QED BY <3>1, <3>2, <3>3, <1>2
  <2>2. CASE k = n /\ x = c
    BY <2>1, <2>2, <1>5, <1>9
  <2>3. CASE k = n /\ y = c
    BY <2>1, <2>3, <1>5, <1>9
  <2>4. CASE ~ (k = n /\ x = c) /\ ~ (k = n /\ y = c)
    <3>1. G(k, x) = F(k, x) /\ G(k, y) = F(k, y)
      BY <2>4, <1>3
    <3> QED BY <1>9, <3>1, <1>4 DEF Once, OnceAt
  <2> QED BY <2>2, <2>3, <2>4
<1>10. \A k, j \in Nodes : Distinct(delivered'[k][j])
  BY <1>5 DEF Once
<1> QED BY <1>7, <1>8, <1>9, <1>10 DEF Once, OnceAt

\* A frame that is delivered leaves its channel, and was in no other.
LEMMA DeliversOnce ==
  ASSUME TypeOK, Stages, Once, [Next]_vars, NEW n \in Nodes, NEW c \in Conns, NEW i \in Nat,
         Delivered(n, c, i)
  PROVE  Once' /\ \A m \in Nodes : Received(n, m)' \subseteq Received(n, m)
<1> DEFINE F(k, x) == Frames(inbox[k][x])
           G(k, x) == Frames(inbox'[k][x])
           p == peer[n][c]
<1>1. /\ stage[n][c] = "up" /\ p \in Nodes /\ inbox[n][c] # <<>>
      /\ inbox' = [inbox EXCEPT ![n][c] = Tail(@)]
      /\ IsData(Head(inbox[n][c])) /\ Head(inbox[n][c]).frame = i
      /\ delivered' = [delivered EXCEPT ![n][p] = Append(@, i)]
      /\ UNCHANGED <<stage, peer>>
  BY DEF Delivered, Taken, IsData
<1>2. /\ inbox[n][c] \in Seq(Datagram) /\ Single(inbox[n][c])
      /\ delivered[n][p] \in Seq(Nat)
  BY <1>1, Typed DEF Once, OnceAt
<1>3. Frame(Head(inbox[n][c])) = {i}
  BY <1>1 DEF Frame
<1>4. inbox'[n][c] = Tail(inbox[n][c])
  BY <1>1, Typed
<1>5. F(n, c) = G(n, c) \cup {i} /\ Single(inbox'[n][c]) /\ G(n, c) \cap {i} = {}
  BY <1>1, <1>2, <1>3, <1>4, FramesTail
<1>6. i \notin G(n, c)
  BY <1>5
<1>7. \A k \in Nodes, x \in Conns : ~ (k = n /\ x = c) => inbox'[k][x] = inbox[k][x]
  BY <1>1, Typed
<1>8. /\ delivered'[n][p] = Append(delivered[n][p], i)
      /\ \A k, j \in Nodes : ~ (k = n /\ j = p) => delivered'[k][j] = delivered[k][j]
  BY <1>1, Typed
<1>9. i \notin Values(delivered[n][p])
  BY <1>1, <1>5 DEF Once, OnceAt
<1>10. Values(delivered'[n][p]) = Values(delivered[n][p]) \cup {i} /\ Distinct(delivered'[n][p])
  BY <1>1, <1>2, <1>8, <1>9, ValuesAppend DEF Once
<1>11. \A k, j \in Nodes : Distinct(delivered'[k][j])
  BY <1>8, <1>10 DEF Once
<1>12. \A k \in Nodes, x \in Conns : G(k, x) \subseteq F(k, x) /\ Single(inbox'[k][x])
  BY <1>5, <1>7 DEF Once, OnceAt
<1>13. ASSUME NEW k \in Nodes, NEW x \in Conns, stage[k][x] # "unborn"
       PROVE  G(k, x) \cap Values(delivered'[k][peer[k][x]]) = {}
  <2>0. peer[k][x] \in Nodes /\ F(k, x) \cap Values(delivered[k][peer[k][x]]) = {}
    BY <1>13 DEF Once, OnceAt, Stages, Linked
  <2>1. CASE k = n /\ x = c
    BY <2>0, <2>1, <1>6, <1>10, <1>12
  <2>2. CASE k = n /\ x # c /\ peer[k][x] = p
    <3>1. i \notin F(n, x)
      BY <2>2, <1>5 DEF Once, OnceAt
    <3> QED BY <2>0, <2>2, <3>1, <1>10, <1>12
  <2>3. CASE ~ (k = n /\ peer[k][x] = p)
    BY <2>0, <2>3, <1>8, <1>12
  <2> QED BY <2>1, <2>2, <2>3
<1>14. ASSUME NEW k \in Nodes, NEW x \in Conns, NEW y \in Conns, x # y, peer[k][x] = peer[k][y]
       PROVE  G(k, x) \cap G(k, y) = {}
  <2>1. F(k, x) \cap F(k, y) = {}
    BY <1>14 DEF Once, OnceAt
  <2> QED BY <2>1, <1>12
<1>15. Once'
  <2>1. peer' = peer /\ stage' = stage
    BY <1>1
  <2>2. ASSUME NEW k \in Nodes, NEW x \in Conns PROVE OnceAt(k, x)'
    BY <2>1, <2>2, <1>12, <1>13, <1>14 DEF OnceAt
  <2> QED BY <2>2, <1>11 DEF Once
<1>16. ASSUME NEW m \in Nodes PROVE Received(n, m)' \subseteq Received(n, m)
  <2>1. CASE m = p
    BY <2>1, <1>1, <1>5, <1>10, <1>12 DEF Received
  <2>2. CASE m # p
    BY <2>2, <1>1, <1>8, <1>12 DEF Received
  <2> QED BY <2>1, <2>2
<1> QED BY <1>15, <1>16


\* The frames under way and received from j to k, and the number asked for, when
\* no frame is sent; when one comes; and when one is sent.
LEMMA FreshCalm ==
  ASSUME TypeOK, NEW k \in Nodes, NEW j \in Nodes, FreshFrom(k, j),
         sent'[j][k] \in Nat,
         Carried(wire'[j][k]) \subseteq Carried(wire[j][k]), Alone(wire'[j][k]),
         Received(k, j)' \subseteq Received(k, j),
         sent'[j][k] >= sent[j][k],
         Pending(j, k)' => Pending(j, k) \/ sent'[j][k] > sent[j][k]
  PROVE  FreshFrom(k, j)'
<1>1. /\ Received(k, j) \subseteq Nat /\ Carried(wire[j][k]) \subseteq Nat
      /\ sent[j][k] \in Nat
  BY ReceivedTypes
<1>2. ASSUME NEW x \in Carried(wire'[j][k]) \cup Received(k, j)'
      PROVE  x <= sent'[j][k] /\ (Pending(j, k)' => x < sent'[j][k])
  <2>1. x \in Nat /\ x <= sent[j][k] /\ (Pending(j, k) => x < sent[j][k])
    BY <1>1 DEF FreshFrom
  <2> QED BY <2>1, <1>1
<1> QED BY <1>2 DEF FreshFrom

LEMMA FreshComes ==
  ASSUME TypeOK, Stages, Fresh, Once, [Next]_vars, NEW n \in Nodes, NEW m \in Nodes,
         NEW c \in Conns, NEW d \in Datagram, Comes(n, m, c, d)
  PROVE  Fresh'
<1> DEFINE F(k, x) == Frames(inbox[k][x])
           G(k, x) == Frames(inbox'[k][x])
<1>1. /\ G(n, c) \subseteq F(n, c) \cup Frame(d)
      /\ Carried(wire[m][n]) = Carried(wire'[m][n]) \cup Frame(d)
      /\ Alone(wire'[m][n])
      /\ Carried(wire'[m][n]) \cap Frame(d) = {}
  <2>1. Alone(wire[m][n])
    BY DEF Fresh, FreshFrom
  <2> QED BY <2>1, ComingFrames
<1>2. \A k \in Nodes, x \in Conns : ~ (k = n /\ x = c) => G(k, x) = F(k, x)
  BY DEF Comes
<1>3. \A k \in Nodes, x \in Conns :
        /\ stage[k][x] # "unborn" => peer'[k][x] = peer[k][x]
        /\ stage[k][x] = "unborn" => F(k, x) = {}
  BY SteadyStep, NoFrames DEF Steady, Stages, Linked
<1>4. /\ peer'[n][c] = m /\ (stage[n][c] # "unborn" => peer[n][c] = m)
      /\ delivered' = delivered /\ sent' = sent /\ pump' = pump
      /\ \A k, j \in Nodes : ~ (k = n /\ j = m) => wire'[j][k] = wire[j][k]
  BY Typed DEF Comes
<1>5. ASSUME NEW k \in Nodes, NEW j \in Nodes PROVE Pending(j, k)' <=> Pending(j, k)
  <2>1. pump[j] # None => pump[j] \in Conns /\ stage[j][pump[j]] # "unborn"
    BY DEF TypeOK
  <2> QED BY <2>1, <1>3, <1>4 DEF Pending
<1>6. ASSUME NEW k \in Nodes, NEW j \in Nodes, ~ (k = n /\ j = m) PROVE FreshFrom(k, j)'
  <2>1. Received(k, j)' \subseteq Received(k, j)
    <3>1. ASSUME NEW x \in Conns, peer'[k][x] = j
          PROVE  G(k, x) = F(k, x) /\ (F(k, x) # {} => peer[k][x] = j)
      <4>1. ~ (k = n /\ x = c)
        BY <3>1, <1>4, <1>6
      <4> QED BY <3>1, <4>1, <1>2, <1>3
    <3> QED BY <3>1, <1>4 DEF Received
  <2>2. sent[j][k] \in Nat /\ sent[j][k] >= sent[j][k]
    BY Typed
  <2>3. FreshFrom(k, j) /\ wire'[j][k] = wire[j][k] /\ sent' = sent
    BY <1>4, <1>6 DEF Fresh
  <2>4. Alone(wire[j][k])
    BY <2>3 DEF FreshFrom
  <2> QED BY <2>1, <2>2, <2>3, <2>4, <1>5, FreshCalm
<1>7. FreshFrom(n, m)'
  <2>1. Received(n, m)' \subseteq Received(n, m) \cup Frame(d)
    BY <1>1, <1>2, <1>3, <1>4 DEF Received
  <2>2. FreshFrom(n, m)
    BY DEF Fresh
  <2>3. \A x \in Carried(wire'[m][n]) \cup Received(n, m)' :
          x <= sent'[m][n] /\ (Pending(m, n)' => x < sent'[m][n])
    BY <2>1, <2>2, <1>1, <1>4, <1>5 DEF FreshFrom
  <2>4. Carried(wire'[m][n]) \cap Received(n, m)' = {}
    BY <2>1, <2>2, <1>1 DEF FreshFrom
  <2> QED BY <2>3, <2>4, <1>1 DEF FreshFrom
<1> QED BY <1>6, <1>7 DEF Fresh

LEMMA FreshSends ==
  ASSUME TypeOK, NEW k \in Nodes, NEW j \in Nodes, FreshFrom(k, j), NEW s \in Sessions,
         NEW x \in Nat, wire'[j][k] = wire[j][k] \cup {Data(s, x)},
         Received(k, j)' \subseteq Received(k, j),
         \A y \in Carried(wire[j][k]) \cup Received(k, j) : y < x,
         sent'[j][k] = x, ~ Pending(j, k)'
  PROVE  FreshFrom(k, j)'
<1>1. /\ Received(k, j) \subseteq Nat /\ Carried(wire[j][k]) \subseteq Nat
  BY ReceivedTypes
<1>2. Frame(Data(s, x)) = {x}
  BY DEF Frame, IsData, Data
<1>3. x \notin Carried(wire[j][k]) \cup Received(k, j)
  <2>1. ~ (x < x)
    OBVIOUS
  <2> QED BY <2>1
<1>4. Carried(wire'[j][k]) = Carried(wire[j][k]) \cup {x} /\ Alone(wire'[j][k])
  <2> DEFINE W == wire[j][k]
             d == Data(s, x)
  <2>1. /\ Carried(W \cup {d}) = Carried(W) \cup Frame(d)
        /\ Alone(W) /\ Carried(W) \cap Frame(d) = {} => Alone(W \cup {d})
    BY CarriedAdd
  <2>2. Alone(W) /\ Carried(W) \cap Frame(d) = {} /\ wire'[j][k] = W \cup {d}
    BY <1>2, <1>3 DEF FreshFrom
  <2> QED BY <1>2, <2>1, <2>2
<1>5. \A y \in Carried(wire'[j][k]) \cup Received(k, j)' : y <= sent'[j][k]
  BY <1>1, <1>4
<1>6. Carried(wire'[j][k]) \cap Received(k, j)' = {}
  BY <1>3, <1>4 DEF FreshFrom
<1> QED BY <1>4, <1>5, <1>6 DEF FreshFrom

\* Everything else leaves the frames from j to k where they are.
LEMMA FreshStep ==
  ASSUME TypeOK, Stages, Fresh, Once, [Next]_vars
  PROVE  Fresh' /\ Once'
<1> USE SessionAssumption DEF SessionAssumption
<1> DEFINE Good == Fresh' /\ Once'
<1>t. /\ wire \in [Nodes -> [Nodes -> SUBSET Datagram]] /\ sent \in [Nodes -> [Nodes -> Nat]]
      /\ pump \in [Nodes -> Conns \cup {None}]
      /\ peer \in [Nodes -> [Conns -> Nodes \cup {None}]]
  BY DEF TypeOK
<1>r. ASSUME Quiet, NEW k \in Nodes, NEW j \in Nodes PROVE Received(k, j)' \subseteq Received(k, j)
  BY <1>r, QuietReceived DEF Quiet
<1>p. \A j \in Nodes : pump[j] # None => stage[j][pump[j]] # "unborn"
  BY DEF TypeOK
<1>o. \A k, j \in Nodes : FreshFrom(k, j) /\ Alone(wire[j][k])
  BY DEF Fresh, FreshFrom
\* The steps in which nothing is sent.
<1>0. ASSUME NEW k \in Nodes, NEW j \in Nodes, wire'[j][k] = wire[j][k], sent'[j][k] = sent[j][k],
             pump'[j] \in {pump[j], None}, peer' = peer,
             Received(k, j)' \subseteq Received(k, j)
      PROVE  FreshFrom(k, j)'
  <2>1. Pending(j, k)' => Pending(j, k)
    BY <1>0 DEF Pending
  <2>2. sent[j][k] \in Nat /\ sent[j][k] >= sent[j][k]
    BY <1>t
  <2> QED BY <1>0, <1>o, <2>1, <2>2, FreshCalm
\* And those in which a flight of a handshake is.
<1>f. ASSUME NEW n \in Nodes, NEW m \in Nodes, NEW d \in Datagram, Frame(d) = {}, Quiet,
             wire' = [wire EXCEPT ![n][m] = @ \cup {d}],
             UNCHANGED <<sent, peer>>, \A j \in Nodes : pump'[j] \in {pump[j], None}
      PROVE  Good
  <2>1. ASSUME NEW k \in Nodes, NEW j \in Nodes PROVE FreshFrom(k, j)'
    <3>1. Carried(wire'[j][k]) = Carried(wire[j][k]) /\ Alone(wire'[j][k])
      <4>1. CASE j = n /\ k = m
        <5>1. wire'[j][k] = wire[j][k] \cup {d}
          BY <1>f, <1>t, <4>1
        <5>2. /\ Carried(wire[j][k] \cup {d}) = Carried(wire[j][k]) \cup Frame(d)
              /\ Alone(wire[j][k]) /\ Carried(wire[j][k]) \cap Frame(d) = {} =>
                   Alone(wire[j][k] \cup {d})
          BY CarriedAdd
        <5> QED BY <1>f, <1>o, <5>1, <5>2
      <4>2. CASE ~ (j = n /\ k = m)
        BY <1>f, <1>t, <1>o, <4>2
      <4> QED BY <4>1, <4>2
    <3>2. Pending(j, k)' => Pending(j, k)
      BY <1>f DEF Pending
    <3>3. sent'[j][k] \in Nat /\ sent'[j][k] >= sent[j][k]
      BY <1>f, <1>t
    <3> QED BY <1>f, <1>r, <1>o, <3>1, <3>2, <3>3, FreshCalm
  <2> QED BY <1>f, <2>1, QuietOnce DEF Fresh
<1>1. ASSUME NEW n \in Nodes, NEW m \in Nodes, Forwarded(n, m) \/ \E c \in Conns : Opened(n, m, c)
      PROVE  Good
  <2>1. PICK c \in Conns, d \in Datagram : Comes(n, m, c, d)
    BY <1>1, Coming
  <2> QED BY <2>1, ComingOnce, FreshComes
<1>2. ASSUME NEW n \in Nodes, NEW m \in Nodes, Sent(n, m) PROVE Good
  <2>1. /\ sent' = [sent EXCEPT ![n][m] = @ + 1] /\ pump[n] = None
        /\ wire' = [wire EXCEPT ![n][m] = @ \cup {Data(session[n][table[n][m]], sent'[n][m])}]
        /\ UNCHANGED <<pump, peer>> /\ session[n][table[n][m]] \in Sessions
    BY <1>2 DEF Sent, Asked, Stages, Linked, TypeOK
  <2>2. Quiet
    BY <1>2, QuietSteps
  <2>3. FreshFrom(m, n)'
    <3>1. sent'[n][m] = sent[n][m] + 1 /\ sent[n][m] \in Nat
      BY <2>1, <1>t
    <3>2. wire'[n][m] = wire[n][m] \cup {Data(session[n][table[n][m]], sent'[n][m])}
      BY <2>1, <1>t
    <3>3. Received(m, n) \subseteq Nat /\ Carried(wire[n][m]) \subseteq Nat
      BY ReceivedTypes
    <3>4. \A y \in Carried(wire[n][m]) \cup Received(m, n) : y < sent'[n][m]
      <4>1. \A y \in Carried(wire[n][m]) \cup Received(m, n) : y \in Nat /\ y <= sent[n][m]
        BY <3>3, <1>o DEF FreshFrom
      <4> QED BY <3>1, <4>1
    <3>5. ~ Pending(n, m)'
      BY <2>1 DEF Pending
    <3>6. sent'[n][m] \in Nat
      BY <3>1
    <3>7. Received(m, n)' \subseteq Received(m, n)
      BY <2>2, <1>r
    <3>8. FreshFrom(m, n)
      BY <1>o
    <3> HIDE SessionAssumption
    <3> QED BY <2>1, <3>2, <3>4, <3>5, <3>6, <3>7, <3>8, FreshSends
  <2>4. ASSUME NEW k \in Nodes, NEW j \in Nodes, ~ (j = n /\ k = m) PROVE FreshFrom(k, j)'
    <3>1. wire'[j][k] = wire[j][k] /\ sent'[j][k] = sent[j][k]
      BY <2>1, <2>4, <1>t
    <3> QED BY <2>1, <2>2, <3>1, <1>r, <1>0
  <2> QED BY <2>2, <2>3, <2>4, QuietOnce DEF Fresh
<1>3. ASSUME NEW n \in Nodes, NEW m \in Nodes,
             Failed(n, m) \/ \E c \in Conns : Called(n, m, c)
      PROVE  Good
  <2>1. Quiet
    BY <1>3, QuietSteps
  <2>2. sent' = [sent EXCEPT ![n][m] = @ + 1] /\ pump[n] = None
    BY <1>3 DEF Failed, Called, Asked
  <2>3. \A k, j \in Nodes : /\ sent'[j][k] \in Nat /\ sent'[j][k] >= sent[j][k]
                            /\ j = n /\ k = m => sent'[j][k] > sent[j][k]
    <3>1. \A k, j \in Nodes :
            sent'[j][k] = IF j = n /\ k = m THEN sent[j][k] + 1 ELSE sent[j][k]
      BY <2>2, <1>t
    <3>2. \A k, j \in Nodes : sent[j][k] \in Nat
      BY <1>t
    <3> HIDE SessionAssumption
    <3> QED BY <3>1, <3>2
  <2>4. ASSUME NEW k \in Nodes, NEW j \in Nodes
        PROVE  Carried(wire'[j][k]) = Carried(wire[j][k]) /\ Alone(wire'[j][k])
    <3>1. CASE wire' = wire
      BY <3>1, <1>o
    <3>2. ASSUME NEW c \in Conns, wire' = [wire EXCEPT ![n][m] = @ \cup {Flight("hello", <<n, c>>)}]
          PROVE  Carried(wire'[j][k]) = Carried(wire[j][k]) /\ Alone(wire'[j][k])
      <4>1. Flight("hello", <<n, c>>) \in Datagram /\ Frame(Flight("hello", <<n, c>>)) = {}
        BY Datagrams, OwnSessions DEF Frame, IsData, Flight
      <4>2. CASE j = n /\ k = m
        <5>1. wire'[j][k] = wire[j][k] \cup {Flight("hello", <<n, c>>)}
          BY <3>2, <4>2, <1>t
        <5> DEFINE d == Flight("hello", <<n, c>>)
        <5>2. /\ Carried(wire[j][k] \cup {d}) = Carried(wire[j][k]) \cup Frame(d)
              /\ Alone(wire[j][k]) /\ Carried(wire[j][k]) \cap Frame(d) = {} =>
                   Alone(wire[j][k] \cup {d})
          BY CarriedAdd
        <5> QED BY <4>1, <5>1, <5>2, <1>o
      <4>3. CASE ~ (j = n /\ k = m)
        BY <3>2, <4>3, <1>t, <1>o
      <4> QED BY <4>2, <4>3
    <3> QED BY <1>3, <3>1, <3>2 DEF Failed, Called
  <2>5. ASSUME NEW k \in Nodes, NEW j \in Nodes, Pending(j, k)'
        PROVE  Pending(j, k) \/ (j = n /\ k = m)
    <3>1. CASE Failed(n, m)
      BY <2>5, <3>1 DEF Failed, Pending
    <3>2. ASSUME NEW c \in Conns, Called(n, m, c) PROVE Pending(j, k) \/ (j = n /\ k = m)
      <4>1. /\ pump' = [pump EXCEPT ![n] = c] /\ peer' = [peer EXCEPT ![n][c] = m]
            /\ stage[n][c] = "unborn"
        BY <3>2 DEF Called
      <4>2. j # n => pump'[j] = pump[j] /\ peer'[j] = peer[j]
        BY <4>1, <1>t
      <4>3. j = n => pump'[j] = c /\ peer'[j][c] = m
        BY <4>1, <1>t
      <4> QED BY <2>5, <4>2, <4>3 DEF Pending
    <3> QED BY <1>3, <3>1, <3>2
  <2>6. ASSUME NEW k \in Nodes, NEW j \in Nodes PROVE FreshFrom(k, j)'
    BY <2>1, <2>3, <2>4, <2>5, <1>o, <1>r, FreshCalm
  <2> QED BY <2>1, <2>6, QuietOnce DEF Fresh
<1>4. ASSUME NEW n \in Nodes, NEW c \in Conns, Established(n, c) PROVE Good
  <2>1. /\ pump[n] = c /\ pump' = [pump EXCEPT ![n] = None] /\ UNCHANGED <<peer, sent>>
        /\ peer[n][c] \in Nodes
        /\ wire' = [wire EXCEPT ![n][peer[n][c]] = @ \cup {Data(<<n, c>>, sent[n][peer[n][c]])}]
    BY <1>4 DEF Established, Taken
  <2>2. Quiet
    BY <1>4, QuietSteps
  <2>3. FreshFrom(peer[n][c], n)'
    <3>1. sent'[n][peer[n][c]] = sent[n][peer[n][c]] /\ sent[n][peer[n][c]] \in Nat
      BY <2>1, <1>t
    <3>2. wire'[n][peer[n][c]] = wire[n][peer[n][c]] \cup {Data(<<n, c>>, sent[n][peer[n][c]])}
      BY <2>1, <1>t
    <3>3. Pending(n, peer[n][c])
      BY <2>1 DEF Pending
    <3>4. \A y \in Carried(wire[n][peer[n][c]]) \cup Received(peer[n][c], n) : y < sent[n][peer[n][c]]
      BY <2>1, <3>3, <1>o DEF FreshFrom
    <3>5. ~ Pending(n, peer[n][c])'
      BY <2>1, <1>t DEF Pending
    <3>6. Received(peer[n][c], n)' \subseteq Received(peer[n][c], n)
      BY <2>1, <2>2, <1>r
    <3>7. FreshFrom(peer[n][c], n) /\ <<n, c>> \in Sessions
      BY <2>1, <1>o, OwnSessions
    <3> HIDE SessionAssumption
    <3> QED BY <2>1, <3>1, <3>2, <3>4, <3>5, <3>6, <3>7, FreshSends
  <2>4. ASSUME NEW k \in Nodes, NEW j \in Nodes, ~ (j = n /\ k = peer[n][c]) PROVE FreshFrom(k, j)'
    <3>1. pump'[j] \in {pump[j], None} /\ wire'[j][k] = wire[j][k]
      BY <2>1, <2>4, <1>t
    <3> QED BY <2>1, <2>2, <3>1, <1>r, <1>0
  <2> QED BY <2>1, <2>2, <2>3, <2>4, QuietOnce DEF Fresh
<1>5. ASSUME NEW n \in Nodes, NEW c \in Conns,
             Answered(n, c) \/ Completed(n, c) \/ \E s \in Sessions : Greeted(n, c, s)
      PROVE  Good
  <2>1. peer[n][c] \in Nodes /\ UNCHANGED <<sent, pump, peer>>
    BY <1>5 DEF Answered, Completed, Greeted, Taken
  <2>2. \A q \in {"finish", "answer", "done"}, s \in Sessions :
          Flight(q, s) \in Datagram /\ Frame(Flight(q, s)) = {}
    BY Datagrams DEF Frame, IsData, Flight
  <2>3. \E q \in {"finish", "answer", "done"}, s \in Sessions :
          wire' = [wire EXCEPT ![n][peer[n][c]] = @ \cup {Flight(q, s)}]
    BY <1>5, OwnSessions DEF Answered, Completed, Greeted
  <2>4. Quiet
    BY <1>5, QuietSteps
  <2> HIDE DEF Good
  <2> QED BY <2>1, <2>2, <2>3, <2>4, <1>f
<1>6. ASSUME Quiet, UNCHANGED <<wire, sent, peer>>, \A j \in Nodes : pump'[j] \in {pump[j], None}
      PROVE  Good
  BY <1>6, <1>r, <1>0, QuietOnce DEF Fresh
<1>12. ASSUME NEW n \in Nodes, NEW c \in Conns, Ended(n, c) PROVE Good
  <2>1. /\ UNCHANGED <<sent, peer>> /\ \A j \in Nodes : pump'[j] \in {pump[j], None}
        /\ peer[n][c] \in Nodes
    BY <1>12, <1>t DEF Ended, Stages, Linked
  <2>2. \A s \in Sessions : Flight("done", s) \in Datagram /\ Frame(Flight("done", s)) = {}
    BY Datagrams DEF Frame, IsData, Flight
  <2>3. Quiet
    BY <1>12, QuietSteps
  <2>4. \/ wire' = wire
        \/ \E s \in Sessions : wire' = [wire EXCEPT ![n][peer[n][c]] = @ \cup {Flight("done", s)}]
    BY <1>12 DEF Ended
  <2> HIDE DEF Good
  <2> QED BY <2>1, <2>2, <2>3, <2>4, <1>f, <1>6
<1>7. ASSUME NEW n \in Nodes, NEW c \in Conns, Skipped(n, c) \/ TakenUp(n, c) \/ ListedIn(n, c)
      PROVE  Good
  <2>1. UNCHANGED <<wire, sent, peer>> /\ \A j \in Nodes : pump'[j] \in {pump[j], None}
    BY <1>7, <1>t DEF Skipped, Taken, TakenUp, ListedIn
  <2> QED BY <1>7, <2>1, <1>6, QuietSteps
<1>8. ASSUME NEW n \in Nodes, NEW c \in Conns, NEW i \in Nat, Delivered(n, c, i) PROVE Good
  <2>1. UNCHANGED <<wire, sent, peer, pump>>
    BY <1>8 DEF Delivered, Taken
  <2>2. Once' /\ \A m \in Nodes : Received(n, m)' \subseteq Received(n, m)
    BY <1>8, DeliversOnce
  <2>3. \A k, m \in Nodes : k # n => Received(k, m)' = Received(k, m)
    <3>1. \A k \in Nodes : k # n => inbox'[k] = inbox[k] /\ delivered'[k] = delivered[k]
      BY <1>8, Typed DEF Delivered, Taken
    <3> QED BY <2>1, <3>1 DEF Received
  <2> QED BY <2>1, <2>2, <2>3, <1>0 DEF Fresh
<1>9. ASSUME NEW n \in Nodes, Restart(n) PROVE Good
  <2>1. UNCHANGED <<wire, sent, peer>> /\ \A j \in Nodes : pump'[j] \in {pump[j], None}
    BY <1>9, <1>t DEF Restart
  <2> QED BY <1>9, <2>1, <1>6, QuietSteps
<1>10. ASSUME UNCHANGED vars PROVE Good
  <2>1. UNCHANGED <<wire, sent, peer>> /\ \A j \in Nodes : pump'[j] \in {pump[j], None}
    BY <1>10 DEF vars, conns, tables, history
  <2> QED BY <1>10, <2>1, <1>6, QuietSteps
<1> HIDE DEF Good
<1>13. Good
  BY <1>1, <1>2, <1>3, <1>4, <1>5, <1>7, <1>8, <1>9, <1>10, <1>12, StepCases
<1> QED BY <1>13 DEF Good

LEMMA InitFresh == Init => Fresh /\ Once
<1> SUFFICES ASSUME Init PROVE Fresh /\ Once
  OBVIOUS
<1>1. Len(<<>>) = 0
  BY EmptySeq
<1>2. Values(<<>>) = {} /\ Distinct(<<>>) /\ Carried({}) = {} /\ Alone({})
  BY <1>1 DEF Values, Distinct, Carried, Alone
<1>3. \A n, m \in Nodes : /\ Carried(wire[m][n]) = {} /\ Alone(wire[m][n])
                          /\ Values(delivered[n][m]) = {} /\ Distinct(delivered[n][m])
  BY <1>2, NoFrames DEF Init
<1>4. \A n \in Nodes, c \in Conns : Frames(inbox[n][c]) = {} /\ Single(inbox[n][c])
  BY NoFrames DEF Init
<1>5. \A n, m \in Nodes : Received(n, m) = {}
  BY <1>3, <1>4 DEF Received
<1> QED BY <1>3, <1>4, <1>5 DEF Fresh, FreshFrom, Once, OnceAt

\* Whatever connections replace each other, daemons restart, and datagrams are
\* lost or overtake each other: no frame is delivered twice, and none that was
\* not sent.
THEOREM DeliveredOnceHolds == Spec => []DeliveredOnce
<1>1. TypeOK /\ Stages /\ Fresh /\ Once /\ [Next]_vars => (Fresh /\ Once)'
  BY FreshStep
<1>2. ASSUME Fresh, Once PROVE DeliveredOnce
  <2> SUFFICES ASSUME NEW n \in Nodes, NEW m \in Nodes, NEW i \in 1 .. Len(delivered[n][m])
               PROVE  /\ delivered[n][m][i] <= sent[m][n]
                      /\ \A j \in 1 .. Len(delivered[n][m]) :
                           i < j => delivered[n][m][i] # delivered[n][m][j]
    BY DEF DeliveredOnce
  <2>1. delivered[n][m][i] \in Received(n, m)
    BY DEF Received, Values
  <2> QED BY <1>2, <2>1 DEF Fresh, FreshFrom, Once, Distinct
<1> QED BY Staged, InitFresh, <1>1, <1>2, PTL DEF Spec
=============================================================================
