----------------------- MODULE PeerInformationProofs -----------------------
(***************************************************************************)
(* Proofs about what daemons know of each other, for any daemons, addresses *)
(* and configurations, right or wrong, any changes of addresses, any frames *)
(* of clients, and any loss and order of frames.                            *)
(***************************************************************************)
EXTENDS PeerInformation, TLAPS

\* Next as the list of its actions, for the case splits below.
LEMMA NextCases ==
  ASSUME [Next]_vars
  PROVE  \/ \E c \in calls : Called(c) \/ CallFails(c)
         \/ \E a \in Addrs : RelayTask(a) \/ ReadEnds(a) \/ GoesUp(a)
         \/ \E a, b \in Addrs : \/ HandshakeLost(a, b) \/ Accept(a, b) \/ Handshake(a, b)
                                \/ HandshakeFails(a, b) \/ Insert(a, b)
         \/ \E f \in wire : Lose(f)
         \/ \E f \in wire : /\ UNCHANGED <<table, sockets, lost, todo>>
                            /\ HandleInfo(f) \/ HandleRequest(f) \/ HandleData(f)
         \/ \E n \in Nodes : Close(n) \/ OpenSocket(n) \/ Publish(n) \/ PublishAt(n)
         \/ \E n, m \in Nodes : Talk(n, m) \/ Ask(n, m)
         \/ UNCHANGED vars
  BY DEF Next, DataLoop

\* Messages, and what is read from them.
LEMMA Messages ==
  /\ \A m \in Nodes, s \in SUBSET Addrs : Info(m, s) \in Message
  /\ \A m \in Nodes : Request(m) \in Message
  /\ Data \in Message
  /\ \A msg \in Message :
       /\ msg.kind \in {"info", "request"} => msg.of \in Nodes
       /\ msg.kind = "info" => msg.addrs \in SUBSET Addrs
  BY DEF Info, Request, Data, Message

-----------------------------------------------------------------------------
(* The invariant *)

Links == {"none", "hello", "up", "spoilt"}
Acceptings == {Idle} \cup [pc : {"handshake", "insert"}, from : Addrs]
Rounds == {Idle, [pc |-> "open"]} \cup [pc : {"publish"}, info : Message, at : SUBSET Addrs]

\* The socket was closed.
Gone(a) == sock[a] \in {"closing", "closed"}

\* The connection x opened to y is in y's table, or about to be, or the table of y
\* was cleared.
Tabling(x, y) == accepting[y] = [pc |-> "insert", from |-> x] \/ table[y][Owner[x]] # None
Served(x, y) == Gone(y) \/ (sock[y] = "open" /\ Tabling(x, y))

\* The sender of a frame is who it is taken for, or was called as that one; who gets
\* the frame called the sender, or accepted its connection.
Good(f) ==
  /\ f.as = Owner[f.from] \/ asked[f.to][f.from] = f.as
  /\ link[f.to][f.from] # "none" \/ Served(f.from, f.to)

Kept ==
  /\ \A x, y \in Addrs : (link[x][y] = "none") = (asked[x][y] = None)
  /\ \A x, y \in Addrs : link[x][y] = "up" => Served(x, y)
  /\ \A f \in wire : Good(f)

Informed == TypeOK /\ Kept

-----------------------------------------------------------------------------
(* What a step may do to connections *)

\* Connections are called or spoilt.
Relinked ==
  /\ met' \in [Addrs -> SUBSET Addrs]
  /\ link' \in [Addrs -> [Addrs -> Links]]
  /\ asked' \in [Addrs -> [Addrs -> Nodes \cup {None}]]
  /\ accepting' \in [Addrs -> Acceptings]
  /\ \A x, y \in Addrs :
       /\ link[x][y] # "none" => link'[x][y] # "none" /\ asked'[x][y] = asked[x][y]
       /\ (link'[x][y] = "none") = (asked'[x][y] = None)
       /\ link'[x][y] = "up" => link[x][y] = "up"
       /\ accepting[x] = [pc |-> "insert", from |-> y] =>
            accepting'[x] = [pc |-> "insert", from |-> y]

\* Connections are called, spoilt or established; what is served stays so; new
\* frames are good ones.
Progress ==
  /\ \A x, y \in Addrs :
       /\ link[x][y] # "none" => link'[x][y] # "none" /\ asked'[x][y] = asked[x][y]
       /\ (link'[x][y] = "none") = (asked'[x][y] = None)
       /\ link'[x][y] = "up" => link[x][y] = "up" \/ Served(x, y)'
       /\ Served(x, y) => Served(x, y)'
  /\ \A f \in wire' : f \in wire \/ Good(f)

LEMMA Typed ==
  ASSUME TypeOK
  PROVE  /\ met \in [Addrs -> SUBSET Addrs]
         /\ link \in [Addrs -> [Addrs -> Links]]
         /\ asked \in [Addrs -> [Addrs -> Nodes \cup {None}]]
         /\ accepting \in [Addrs -> Acceptings]
         /\ table \in [Addrs -> [Nodes -> Addrs \cup {None}]]
         /\ wire \subseteq Frames
         /\ pib \in [Nodes -> [Nodes -> {None} \cup Entries]]
         /\ round \in [Nodes -> Rounds]
         /\ sock \in [Addrs -> {"new", "open", "closing", "closed"}]
         /\ \A c \in calls : c.from \in Addrs /\ c.to \in Addrs /\ c.msg \in Message
         /\ Owner \in [Addrs -> Nodes] /\ Relay \in [Nodes -> Nodes \cup {None}]
         /\ None \notin Nodes /\ None \notin Addrs
  BY InformationAssumption DEF InformationAssumption, TypeOK, Links, Acceptings, Rounds

\* A frame keeps being good.
LEMMA ProgressKeeps ==
  ASSUME TypeOK, Kept, Progress, wire' \subseteq Frames
  PROVE  Kept'
<1>1. \A x, y \in Addrs : (link'[x][y] = "none") = (asked'[x][y] = None)
  BY DEF Progress
<1>2. \A x, y \in Addrs : link'[x][y] = "up" => Served(x, y)'
  BY DEF Progress, Kept
<1>3. ASSUME NEW f \in wire' PROVE Good(f)'
  <2>1. f.from \in Addrs /\ f.to \in Addrs /\ f.as \in Nodes
    BY DEF Frames
  <2>2. Good(f)
    BY DEF Progress, Kept
  <2>3. f.as = Owner[f.from] \/ asked'[f.to][f.from] = f.as
    BY <2>1, <2>2, Typed DEF Good, Kept, Progress
  <2>4. link'[f.to][f.from] # "none" \/ Served(f.from, f.to)'
    BY <2>1, <2>2 DEF Good, Progress
  <2> QED BY <2>3, <2>4 DEF Good
<1> QED BY <1>1, <1>2, <1>3 DEF Kept

\* Calls do not touch tables and sockets.
LEMMA RelinkedProgress ==
  ASSUME TypeOK, Kept, Relinked, UNCHANGED <<table, sock>>,
         \A f \in wire' : f \in wire \/ Good(f)
  PROVE  Progress
<1>1. \A x, y \in Addrs : Served(x, y) => Served(x, y)'
  BY DEF Relinked, Served, Gone, Tabling
<1> QED BY <1>1 DEF Relinked, Progress

LEMMA Still ==
  ASSUME TypeOK, Kept, UNCHANGED <<met, link, asked, accepting>>
  PROVE  Relinked
  BY Typed DEF Kept, Relinked

LEMMA Connects ==
  ASSUME TypeOK, Kept, NEW a \in Addrs, NEW b \in Addrs, NEW m \in Nodes, Connect(a, b, m)
  PROVE  Relinked
<1>1. met' \in [Addrs -> SUBSET Addrs]
  BY Typed DEF Connect
<1> DEFINE cut == [link EXCEPT ![b][a] = IF @ = "none" THEN "none" ELSE "spoilt"]
<1>2. /\ cut \in [Addrs -> [Addrs -> Links]]
      /\ \A x, y \in Addrs :
           cut[x][y] = IF x = b /\ y = a /\ link[x][y] # "none" THEN "spoilt" ELSE link[x][y]
  BY Typed DEF Links
<1>3. link' = [cut EXCEPT ![a][b] = IF link[a][b] = "none" THEN "hello" ELSE "spoilt"]
  BY DEF Connect
<1> HIDE DEF cut
<1>4. /\ link' \in [Addrs -> [Addrs -> Links]]
      /\ \A x, y \in Addrs :
           link'[x][y] = IF x = a /\ y = b THEN IF link[a][b] = "none" THEN "hello" ELSE "spoilt"
                         ELSE cut[x][y]
  BY <1>2, <1>3 DEF Links
<1>5. /\ asked' \in [Addrs -> [Addrs -> Nodes \cup {None}]]
      /\ \A x, y \in Addrs :
           asked'[x][y] = IF x = a /\ y = b /\ link[x][y] = "none" THEN m ELSE asked[x][y]
  BY Typed DEF Connect
<1>6. \A x, y \in Addrs :
        /\ link[x][y] # "none" => link'[x][y] # "none"
        /\ link'[x][y] = "none" => link[x][y] = "none" /\ ~ (x = a /\ y = b)
        /\ link'[x][y] # "none" => link[x][y] # "none" \/ (x = a /\ y = b)
        /\ link'[x][y] = "up" => link[x][y] = "up"
  BY <1>2, <1>4
<1>7. \A x, y \in Addrs :
        /\ link[x][y] # "none" => asked'[x][y] = asked[x][y]
        /\ (link'[x][y] = "none") = (asked'[x][y] = None)
  <2>1. ASSUME NEW x \in Addrs, NEW y \in Addrs, link'[x][y] = "none"
        PROVE  asked'[x][y] = None
    BY <1>5, <1>6, <2>1 DEF Kept
  <2>2. ASSUME NEW x \in Addrs, NEW y \in Addrs, link'[x][y] # "none"
        PROVE  asked'[x][y] # None
    <3>1. CASE link[x][y] # "none"
      BY <1>5, <3>1 DEF Kept
    <3>2. CASE link[x][y] = "none"
      <4>1. x = a /\ y = b
        BY <1>6, <2>2, <3>2
      <4> QED BY <1>5, <3>2, <4>1, Typed
    <3> QED BY <3>1, <3>2
  <2>3. \A x, y \in Addrs : link[x][y] # "none" => asked'[x][y] = asked[x][y]
    BY <1>5
  <2> QED BY <2>1, <2>2, <2>3
<1>8. /\ accepting' \in [Addrs -> Acceptings]
      /\ \A x \in Addrs : accepting'[x] = accepting[x]
                          \/ accepting[x] = [pc |-> "handshake", from |-> b]
  BY Typed DEF Connect, Acceptings
<1>9. \A y \in Addrs : [pc |-> "handshake", from |-> b] # [pc |-> "insert", from |-> y]
  OBVIOUS
<1>10. \A x, y \in Addrs : accepting[x] = [pc |-> "insert", from |-> y] =>
                            accepting'[x] = [pc |-> "insert", from |-> y]
  BY <1>8, <1>9
<1>11. \A x, y \in Addrs :
         /\ link[x][y] # "none" => link'[x][y] # "none" /\ asked'[x][y] = asked[x][y]
         /\ (link'[x][y] = "none") = (asked'[x][y] = None)
         /\ link'[x][y] = "up" => link[x][y] = "up"
         /\ accepting[x] = [pc |-> "insert", from |-> y] =>
              accepting'[x] = [pc |-> "insert", from |-> y]
  BY <1>6, <1>7, <1>10
<1> QED BY <1>1, <1>4, <1>5, <1>8, <1>11 DEF Relinked

-----------------------------------------------------------------------------
(* What a step may do to frames *)

\* A frame that is sent over a connection is a good one.
LEMMA FrameGood ==
  ASSUME TypeOK, Kept, NEW a \in Addrs, NEW b \in Addrs, NEW msg \in Message, Linked(a, b)
  PROVE  Frame(a, b, msg) \in Frames /\ Good(Frame(a, b, msg))
<1> DEFINE f == Frame(a, b, msg)
<1>1. f = [from |-> a, to |-> b, as |-> TakenFor(a, b), msg |-> msg]
  BY DEF Frame
<1>2. CASE link[b][a] = "up"
  <2>1. TakenFor(a, b) = asked[b][a] /\ asked[b][a] # None
    BY <1>2 DEF TakenFor, Kept
  <2>2. TakenFor(a, b) \in Nodes
    BY <2>1, Typed
  <2> QED BY <1>1, <1>2, <2>1, <2>2 DEF Frames, Good
<1>3. CASE link[b][a] # "up"
  <2>1. TakenFor(a, b) = Owner[a] /\ Owner[a] \in Nodes
    BY <1>3, Typed DEF TakenFor
  <2>2. Served(a, b)
    BY <1>3 DEF Linked, Kept
  <2> QED BY <1>1, <2>1, <2>2 DEF Frames, Good
<1> QED BY <1>2, <1>3

LEMMA Puts ==
  ASSUME TypeOK, Kept, NEW w \in SUBSET wire, NEW a \in Addrs, NEW b \in Addrs, NEW msg \in Message,
         wire' = Put(w, a, b, msg)
  PROVE  wire' \subseteq Frames /\ \A f \in wire' : f \in wire \/ Good(f)
<1>1. w \subseteq Frames
  BY Typed
<1>2. CASE Linked(a, b)
  BY <1>1, <1>2, FrameGood DEF Put
<1>3. CASE ~ Linked(a, b)
  BY <1>1, <1>3 DEF Put
<1> QED BY <1>2, <1>3

CallsTyped == \A c \in calls' : c.from \in Addrs /\ c.to \in Addrs /\ c.msg \in Message

LEMMA NewCall ==
  ASSUME TypeOK, NEW task, NEW at, NEW a \in Addrs, NEW b \in Addrs, NEW msg \in Message,
         calls' = calls \cup {Call(task, at, a, b, msg)}
  PROVE  CallsTyped
<1>1. \A c \in calls : c.from \in Addrs /\ c.to \in Addrs /\ c.msg \in Message
  BY Typed
<1>2. /\ Call(task, at, a, b, msg).from = a /\ Call(task, at, a, b, msg).to = b
      /\ Call(task, at, a, b, msg).msg = msg
  BY DEF Call
<1> QED BY <1>1, <1>2 DEF CallsTyped

\* Known addresses are addresses.
LEMMA KnownTyped ==
  ASSUME TypeOK, NEW n \in Nodes, NEW m \in Nodes
  PROVE  KnownAddresses(n, m) \subseteq Addrs
<1>1. pib[n][m] # None => pib[n][m] \in Entries
  BY Typed
<1> QED BY <1>1 DEF KnownAddresses, Entries

LEMMA Contacts ==
  ASSUME TypeOK, Kept, NEW w \in SUBSET wire, NEW n \in Nodes, NEW m \in Nodes, NEW task, NEW at,
         NEW msg \in Message, Contact(w, n, m, task, at, msg)
  PROVE  /\ Relinked /\ CallsTyped
         /\ wire' \subseteq Frames /\ \A f \in wire' : f \in wire \/ Good(f)
         /\ \/ calls' = calls
            \/ /\ Tabled(n, m) = {}
               /\ \E a, b \in Addrs : calls' = calls \cup {Call(task, at, a, b, msg)}
<1>0. w \subseteq Frames /\ (calls' = calls => CallsTyped)
  BY Typed DEF CallsTyped
<1>1. CASE /\ \E a \in Tabled(n, m) : wire' = Put(w, a, table[a][m], msg)
           /\ UNCHANGED <<met, link, asked, accepting, calls>>
  <2>1. PICK a \in Tabled(n, m) : wire' = Put(w, a, table[a][m], msg)
    BY <1>1
  <2>2. a \in Addrs /\ table[a][m] \in Addrs
    BY Typed DEF Tabled, Open, Of
  <2> DEFINE b == table[a][m]
  <2>3. wire' = Put(w, a, b, msg) /\ b \in Addrs
    BY <2>1, <2>2
  <2> HIDE DEF b
  <2>4. wire' \subseteq Frames /\ \A f \in wire' : f \in wire \/ Good(f)
    BY <2>2, <2>3, Puts
  <2> QED BY <1>0, <1>1, <2>4, Still
<1>2. CASE /\ Tabled(n, m) = {} /\ wire' = w
           /\ \E a \in Open(n), b \in KnownAddresses(n, m) :
                Connect(a, b, m) /\ calls' = calls \cup {Call(task, at, a, b, msg)}
  <2>1. PICK a \in Open(n), b \in KnownAddresses(n, m) :
               Connect(a, b, m) /\ calls' = calls \cup {Call(task, at, a, b, msg)}
    BY <1>2
  <2>2. a \in Addrs /\ b \in Addrs
    BY KnownTyped DEF Open, Of
  <2>3. Relinked /\ CallsTyped
    BY <2>1, <2>2, Connects, NewCall
  <2> QED BY <1>0, <1>2, <2>1, <2>2, <2>3
<1>3. CASE wire' = w /\ UNCHANGED <<met, link, asked, accepting, calls>>
  BY <1>0, <1>3, Still
<1> QED BY <1>1, <1>2, <1>3 DEF Contact

\* The answer to a request is what is known of its subject.
LEMMA Requests ==
  ASSUME TypeOK, Kept, NEW f \in wire, HandleRequest(f)
  PROVE  /\ Relinked /\ CallsTyped
         /\ wire' \subseteq Frames /\ \A g \in wire' : g \in wire \/ Good(g)
         /\ \/ calls' = calls
            \/ /\ Tabled(Owner[f.to], f.as) = {}
               /\ \E a, b \in Addrs, msg \in Message :
                    calls' = calls \cup {Call("loop", <<f.to, f.from>>, a, b, msg)}
<1> DEFINE n == Owner[f.to]
           known == pib[n][f.msg.of]
           w == wire \ {f}
           at == <<f.to, f.from>>
<1>1. f \in Frames /\ w \in SUBSET wire /\ w \subseteq Frames
  BY Typed
<1>2. f.to \in Addrs /\ f.as \in Nodes /\ f.msg \in Message
  BY <1>1 DEF Frames
<1>3. n \in Nodes /\ f.msg.of \in Nodes
  BY <1>2, Typed, Messages DEF HandleRequest
<1>4. CASE wire' = w /\ UNCHANGED <<met, link, asked, accepting, calls>>
  <2>1. CallsTyped
    BY <1>4, Typed DEF CallsTyped
  <2> QED BY <1>1, <1>4, <2>1, Still
<1>5. CASE known # None /\ Contact(w, n, f.as, "loop", at, Info(f.msg.of, known.addrs))
  <2>1. known \in Entries
    BY <1>3, <1>5, Typed
  <2>2. known.addrs \in SUBSET Addrs
    BY <2>1 DEF Entries
  <2> DEFINE msg == Info(f.msg.of, known.addrs)
             task == "loop"
             m == f.as
  <2>3. msg \in Message
    BY <1>3, <2>2, Messages
  <2>4. m \in Nodes /\ Contact(w, n, m, task, at, msg)
    BY <1>2, <1>5
  <2>5. w \in SUBSET wire /\ n \in Nodes
    BY <1>1, <1>3
  <2> HIDE DEF w, n, known, at, msg, task, m
  <2>6. /\ Relinked /\ CallsTyped
        /\ wire' \subseteq Frames /\ \A g \in wire' : g \in wire \/ Good(g)
        /\ \/ calls' = calls
           \/ /\ Tabled(n, m) = {}
              /\ \E a, b \in Addrs : calls' = calls \cup {Call(task, at, a, b, msg)}
    BY <2>3, <2>4, <2>5, Contacts
  <2>7. CASE calls' = calls
    BY <2>6, <2>7
  <2>8. CASE /\ Tabled(n, m) = {}
             /\ \E a, b \in Addrs : calls' = calls \cup {Call(task, at, a, b, msg)}
    BY <2>3, <2>6, <2>8 DEF n, at, task, m
  <2> QED BY <2>6, <2>7, <2>8
<1> QED BY <1>4, <1>5 DEF HandleRequest
-----------------------------------------------------------------------------
(* The steps *)

LEMMA Holds ==
  ASSUME Informed, TypeOK', Progress
  PROVE  Informed'
<1>1. wire' \subseteq Frames
  BY DEF TypeOK
<1> QED BY <1>1, ProgressKeeps DEF Informed

\* Steps that leave tables and sockets alone
LEMMA Steady ==
  ASSUME Informed, Relinked, CallsTyped, UNCHANGED <<table, sock>>,
         wire' \subseteq Frames, \A f \in wire' : f \in wire \/ Good(f),
         starting' \subseteq Addrs, upward' \subseteq Addrs, lost' \subseteq Addrs \X Addrs,
         pib' \in [Nodes -> [Nodes -> {None} \cup Entries]],
         round' \in [Nodes -> Rounds], todo' \in Todo
  PROVE  Informed'
<1>1. Progress
  BY RelinkedProgress DEF Informed
<1>2. TypeOK'
  BY DEF Informed, TypeOK, Relinked, CallsTyped, Links, Acceptings, Rounds
<1> QED BY <1>1, <1>2, Holds

\* What most steps leave alone, ready for Steady.
LEMMA Rest ==
  ASSUME TypeOK
  PROVE  /\ UNCHANGED calls => CallsTyped
         /\ UNCHANGED wire => wire' \subseteq Frames /\ \A f \in wire' : f \in wire \/ Good(f)
         /\ UNCHANGED starting => starting' \subseteq Addrs
         /\ UNCHANGED upward => upward' \subseteq Addrs
         /\ UNCHANGED lost => lost' \subseteq Addrs \X Addrs
         /\ UNCHANGED pib => pib' \in [Nodes -> [Nodes -> {None} \cup Entries]]
         /\ UNCHANGED round => round' \in [Nodes -> Rounds]
         /\ UNCHANGED todo => todo' \in Todo
  BY DEF TypeOK, CallsTyped, Rounds

LEMMA OpenTyped ==
  ASSUME TypeOK, NEW n \in Nodes
  PROVE  Open(n) \subseteq Addrs /\ MyInfo(n) \in Message
  BY Messages DEF Open, Of, MyInfo

LEMMA CalledHolds ==
  ASSUME Informed, NEW c \in calls, Called(c)
  PROVE  Informed'
<1>1. TypeOK /\ Kept
  BY DEF Informed
<1>2. c.from \in Addrs /\ c.to \in Addrs /\ c.msg \in Message /\ Owner[c.from] \in Nodes
  BY <1>1, Typed
<1> DEFINE msg == IF c.task = "relay" THEN MyInfo(Owner[c.from]) ELSE c.msg
           a == c.from
           b == c.to
<1>3. msg \in Message /\ a \in Addrs /\ b \in Addrs
  BY <1>1, <1>2, OpenTyped
<1>4. wire' = Put(wire, a, b, msg)
  BY DEF Called
<1> HIDE DEF msg, a, b
<1>5. wire' \subseteq Frames /\ \A f \in wire' : f \in wire \/ Good(f)
  BY <1>1, <1>3, <1>4, Puts
<1>6. CallsTyped
  BY <1>1, Typed DEF Called, CallsTyped
<1>7. Relinked
  BY <1>1, Still DEF Called, network
<1> QED BY <1>1, <1>5, <1>6, <1>7, Rest, Steady DEF Called, network, sockets

LEMMA CallFailsHolds ==
  ASSUME Informed, NEW c \in calls, CallFails(c)
  PROVE  Informed'
<1>1. TypeOK /\ Kept
  BY DEF Informed
<1>2. CallsTyped
  BY <1>1, Typed DEF CallFails, CallsTyped
<1>3. Relinked
  BY <1>1, Still DEF CallFails, network
<1> QED BY <1>1, <1>2, <1>3, Rest, Steady DEF CallFails, network, sockets, frames

LEMMA RelayTaskHolds ==
  ASSUME Informed, NEW a \in Addrs, RelayTask(a)
  PROVE  Informed'
<1>1. TypeOK /\ Kept
  BY DEF Informed
<1>2. Relinked /\ CallsTyped
  <2>1. CASE \E b \in RelayAddresses(a) :
               /\ Connect(a, b, Relay[Owner[a]])
               /\ calls' = calls \cup {Call("relay", <<a>>, a, b, Data)}
    <3>1. PICK b \in RelayAddresses(a) :
                 /\ Connect(a, b, Relay[Owner[a]])
                 /\ calls' = calls \cup {Call("relay", <<a>>, a, b, Data)}
      BY <2>1
    <3>2. Relay[Owner[a]] \in Nodes /\ Owner[a] \in Nodes
      BY <1>1, Typed DEF RelayAddresses
    <3>3. b \in Addrs
      BY <1>1, <3>2, KnownTyped DEF RelayAddresses
    <3>4. Relinked
      BY <1>1, <3>1, <3>2, <3>3, Connects
    <3>5. CallsTyped
      BY <1>1, <3>1, <3>3, NewCall, Messages
    <3> QED BY <3>4, <3>5
  <2>2. CASE UNCHANGED <<met, link, asked, accepting, calls>>
    BY <1>1, <2>2, Still, Rest
  <2> QED BY <2>1, <2>2 DEF RelayTask
<1>3. starting' \subseteq Addrs
  BY <1>1 DEF RelayTask, TypeOK
<1> QED BY <1>1, <1>2, <1>3, Rest, Steady DEF RelayTask, frames

\* The socket does not come back.
LEMMA ReadEndsHolds ==
  ASSUME Informed, NEW a \in Addrs, ReadEnds(a)
  PROVE  Informed'
<1>1. TypeOK /\ Kept
  BY DEF Informed
<1>2. /\ sock[a] = "closing" /\ sock' \in [Addrs -> {"new", "open", "closing", "closed"}]
      /\ \A x \in Addrs : sock'[x] = IF x = a THEN "closed" ELSE sock[x]
  BY <1>1, Typed DEF ReadEnds
<1>3. \A x, y \in Addrs : Served(x, y) => Served(x, y)'
  BY <1>2 DEF Served, Gone, Tabling, ReadEnds, network
<1>4. Progress
  BY <1>1, <1>3, Typed DEF Progress, Kept, ReadEnds, network, frames
<1>5. TypeOK'
  BY <1>1, <1>2 DEF TypeOK, ReadEnds, network, frames
<1> QED BY <1>4, <1>5, Holds

LEMMA GoesUpHolds ==
  ASSUME Informed, NEW a \in Addrs, GoesUp(a)
  PROVE  Informed'
<1>1. TypeOK /\ Kept
  BY DEF Informed
<1>2. upward' \subseteq Addrs
  BY <1>1 DEF GoesUp, TypeOK
<1>3. Relinked
  BY <1>1, Still DEF GoesUp, network
<1> QED BY <1>1, <1>2, <1>3, Rest, Steady DEF GoesUp, network, sockets

LEMMA LosesTyped ==
  ASSUME TypeOK, NEW a \in Addrs, NEW b \in Addrs, Loses(a, b)
  PROVE  lost' \subseteq Addrs \X Addrs /\ todo' \in Todo
<1> DEFINE left == todo.lose - 1
<1>1. todo \in Todo /\ todo.lose \in Nat /\ todo.lose > 0
  BY DEF Loses, TypeOK, Todo
<1>2. left \in Nat
  BY <1>1
<1>3. todo' = [todo EXCEPT !.lose = left]
  BY DEF Loses
<1> HIDE DEF left
<1>4. todo' \in Todo
  BY <1>1, <1>2, <1>3 DEF Todo
<1> QED BY <1>4 DEF Loses, TypeOK

LEMMA HandshakeLostHolds ==
  ASSUME Informed, NEW a \in Addrs, NEW b \in Addrs, HandshakeLost(a, b)
  PROVE  Informed'
<1>1. TypeOK /\ Kept
  BY DEF Informed
<1>2. /\ link[a][b] = "hello" /\ link' \in [Addrs -> [Addrs -> Links]]
      /\ \A x, y \in Addrs : link'[x][y] = IF x = a /\ y = b THEN "spoilt" ELSE link[x][y]
  BY <1>1, Typed DEF HandshakeLost, Links
<1>3. Relinked
  BY <1>1, <1>2, Typed DEF Relinked, Kept, HandshakeLost
<1>4. lost' \subseteq Addrs \X Addrs /\ todo' \in Todo
  BY <1>1, LosesTyped DEF HandshakeLost
<1> QED BY <1>1, <1>3, <1>4, Rest, Steady DEF HandshakeLost, sockets

LEMMA AcceptHolds ==
  ASSUME Informed, NEW a \in Addrs, NEW b \in Addrs, Accept(b, a)
  PROVE  Informed'
<1>1. TypeOK /\ Kept
  BY DEF Informed
<1>2. /\ accepting' \in [Addrs -> Acceptings]
      /\ \A x, y \in Addrs : accepting[x] = [pc |-> "insert", from |-> y] =>
                              accepting'[x] = [pc |-> "insert", from |-> y]
  BY <1>1, Typed DEF Accept, Acceptings, Idle
<1>3. met' \in [Addrs -> SUBSET Addrs]
  BY <1>1, Typed DEF Accept
<1>4. Relinked
  BY <1>1, <1>2, <1>3, Typed DEF Relinked, Kept, Accept
<1> QED BY <1>1, <1>4, Rest, Steady DEF Accept, sockets, frames

\* A connection is established: its acceptor is about to put it into its table, unless
\* its socket was closed.
LEMMA HandshakeHolds ==
  ASSUME Informed, NEW a \in Addrs, NEW b \in Addrs, Handshake(b, a)
  PROVE  Informed'
<1>1. TypeOK /\ Kept
  BY DEF Informed
<1>2. /\ link[a][b] = "hello" /\ link' \in [Addrs -> [Addrs -> Links]]
      /\ \A x, y \in Addrs : link'[x][y] = IF x = a /\ y = b THEN "up" ELSE link[x][y]
  BY <1>1, Typed DEF Handshake, Links
<1>3. /\ accepting' \in [Addrs -> Acceptings]
      /\ accepting'[b] = [pc |-> "insert", from |-> a]
      /\ \A y \in Addrs : accepting'[y] = accepting[y] \/ y = b
      /\ \A x \in Addrs : accepting[b] # [pc |-> "insert", from |-> x]
  BY <1>1, Typed DEF Handshake, Acceptings
<1>4. Served(a, b)'
  BY <1>3 DEF Handshake, Reads, sockets, Served, Gone, Tabling
<1>5. ASSUME NEW x \in Addrs, NEW y \in Addrs, Served(x, y) PROVE Served(x, y)'
  BY <1>3, <1>5 DEF Handshake, sockets, Served, Gone, Tabling
<1>6. \A x, y \in Addrs :
        /\ link[x][y] # "none" => link'[x][y] # "none" /\ asked'[x][y] = asked[x][y]
        /\ (link'[x][y] = "none") = (asked'[x][y] = None)
        /\ link'[x][y] = "up" => link[x][y] = "up" \/ (x = a /\ y = b)
  BY <1>1, <1>2 DEF Handshake, Kept
<1>7. Progress
  BY <1>1, <1>4, <1>5, <1>6, Rest DEF Progress, Handshake, frames
<1>8. TypeOK'
  BY <1>1, <1>2, <1>3 DEF TypeOK, Handshake, sockets, frames, Links, Acceptings
<1> QED BY <1>7, <1>8, Holds

LEMMA HandshakeFailsHolds ==
  ASSUME Informed, NEW a \in Addrs, NEW b \in Addrs, HandshakeFails(b, a)
  PROVE  Informed'
<1>1. TypeOK /\ Kept
  BY DEF Informed
<1>2. /\ accepting' \in [Addrs -> Acceptings]
      /\ \A x, y \in Addrs : accepting[x] = [pc |-> "insert", from |-> y] =>
                              accepting'[x] = [pc |-> "insert", from |-> y]
  BY <1>1, Typed DEF HandshakeFails, Acceptings, Idle
<1>3. Relinked
  BY <1>1, <1>2, Typed DEF Relinked, Kept, HandshakeFails
<1> QED BY <1>1, <1>3, Rest, Steady DEF HandshakeFails, sockets, frames

LEMMA InsertHolds ==
  ASSUME Informed, NEW a \in Addrs, NEW b \in Addrs, Insert(b, a)
  PROVE  Informed'
<1>1. TypeOK /\ Kept
  BY DEF Informed
<1>2. a # None /\ Owner[a] \in Nodes
  BY <1>1, Typed
<1>3. /\ accepting' \in [Addrs -> Acceptings]
      /\ \A y \in Addrs : accepting'[y] = accepting[y] \/ y = b
      /\ \A x \in Addrs : accepting[b] = [pc |-> "insert", from |-> x] => x = a
  BY <1>1, Typed DEF Insert, Acceptings
<1>4. /\ table' \in [Addrs -> [Nodes -> Addrs \cup {None}]]
      /\ \A y \in Addrs, m \in Nodes :
           table'[y][m] = IF y = b /\ m = Owner[a] THEN a ELSE table[y][m]
  BY <1>1, <1>2, Typed DEF Insert
<1>5. ASSUME NEW x \in Addrs, NEW y \in Addrs, Tabling(x, y) PROVE Tabling(x, y)'
  <2>1. Owner[x] \in Nodes
    BY <1>1, Typed
  <2>2. CASE table[y][Owner[x]] # None
    BY <1>2, <1>4, <2>1, <2>2 DEF Tabling
  <2>3. CASE accepting[y] = [pc |-> "insert", from |-> x]
    BY <1>2, <1>3, <1>4, <2>1, <2>3 DEF Tabling
  <2> QED BY <1>5, <2>2, <2>3 DEF Tabling
<1>6. \A x, y \in Addrs : Served(x, y) => Served(x, y)'
  BY <1>5 DEF Served, Gone, Insert, sockets
<1>7. Progress
  BY <1>1, <1>6, Rest DEF Progress, Kept, Insert, frames
<1>8. TypeOK'
  BY <1>1, <1>3, <1>4 DEF TypeOK, Insert, sockets, frames, Acceptings
<1> QED BY <1>7, <1>8, Holds

LEMMA LoseHolds ==
  ASSUME Informed, NEW f \in wire, Lose(f)
  PROVE  Informed'
<1>1. TypeOK /\ Kept
  BY DEF Informed
<1>2. wire' \subseteq Frames /\ \A g \in wire' : g \in wire \/ Good(g)
  BY <1>1 DEF Lose, TypeOK
<1>3. f.from \in Addrs /\ f.to \in Addrs
  BY <1>1 DEF TypeOK, Frames
<1>4. lost' \subseteq Addrs \X Addrs /\ todo' \in Todo
  BY <1>1, <1>3, LosesTyped DEF Lose
<1>5. Relinked
  BY <1>1, Still DEF Lose, network
<1> QED BY <1>1, <1>2, <1>4, <1>5, Rest, Steady DEF Lose, network, sockets

\* What is known is changed by information only, as it came in a frame.
LEMMA Stores ==
  ASSUME TypeOK, NEW f \in wire, HandleInfo(f)
  PROVE  /\ pib' \in [Nodes -> [Nodes -> {None} \cup Entries]]
         /\ Owner[f.to] \in Nodes /\ f.as \in Nodes /\ f.from \in Addrs /\ f.to \in Addrs
         /\ \A n, m \in Nodes : pib'[n][m] # pib[n][m] =>
              /\ n = Owner[f.to] /\ m = f.as
              /\ pib'[n][m].via = <<f.from, f.to>>
<1>1. f \in Frames
  BY Typed
<1>2. f.from \in Addrs /\ f.to \in Addrs /\ f.as \in Nodes /\ f.msg \in Message
  BY <1>1 DEF Frames
<1>3. f.msg.of \in Nodes /\ f.msg.addrs \in SUBSET Addrs /\ Owner[f.to] \in Nodes
  BY <1>2, Messages, Typed DEF HandleInfo
<1> DEFINE new == Entry(f.msg.addrs, <<f.from, f.to>>)
           n == Owner[f.to]
<1>4. new \in Entries /\ new.via = <<f.from, f.to>> /\ n \in Nodes
  BY <1>2, <1>3 DEF Entry, Entries
<1>5. CASE f.msg.of = f.as
  <2>1. pib' = [pib EXCEPT ![n][f.as] = new]
    BY <1>5 DEF HandleInfo
  <2> HIDE DEF new, n
  <2>2. /\ pib' \in [Nodes -> [Nodes -> {None} \cup Entries]]
        /\ \A x, y \in Nodes : pib'[x][y] = IF x = n /\ y = f.as THEN new ELSE pib[x][y]
    BY <1>2, <1>4, <2>1, Typed
  <2> QED BY <1>2, <1>4, <2>2 DEF n
<1>6. CASE f.msg.of # f.as
  BY <1>2, <1>3, <1>6, Typed DEF HandleInfo
<1> QED BY <1>5, <1>6

LEMMA DataLoopHolds ==
  ASSUME Informed, NEW f \in wire, UNCHANGED <<table, sockets, lost, todo>>,
         HandleInfo(f) \/ HandleRequest(f) \/ HandleData(f)
  PROVE  Informed'
<1>1. TypeOK /\ Kept
  BY DEF Informed
<1>2. wire \ {f} \subseteq Frames /\ f.to \in Addrs
  BY <1>1 DEF TypeOK, Frames
<1>3. CASE HandleInfo(f)
  <2>1. Relinked
    BY <1>1, <1>3, Still DEF HandleInfo
  <2>2. pib' \in [Nodes -> [Nodes -> {None} \cup Entries]]
    BY <1>1, <1>3, Stores
  <2> QED BY <1>1, <1>2, <1>3, <2>1, <2>2, Rest, Steady DEF HandleInfo, sockets
<1>4. CASE HandleRequest(f)
  <2>1. /\ Relinked /\ CallsTyped
        /\ wire' \subseteq Frames /\ \A g \in wire' : g \in wire \/ Good(g)
    BY <1>1, <1>4, Requests
  <2> QED BY <1>1, <1>4, <2>1, Rest, Steady DEF HandleRequest, sockets
<1>5. CASE HandleData(f)
  <2>1. Relinked
    BY <1>1, <1>5, Still DEF HandleData
  <2>2. upward' \subseteq Addrs
    BY <1>1, <1>2, <1>5 DEF HandleData, TypeOK
  <2> QED BY <1>1, <1>2, <1>5, <2>1, <2>2, Rest, Steady DEF HandleData, sockets
<1> QED BY <1>3, <1>4, <1>5

\* Tables are cleared with their sockets only.
LEMMA CloseHolds ==
  ASSUME Informed, NEW n \in Nodes, Close(n)
  PROVE  Informed'
<1>1. TypeOK /\ Kept
  BY DEF Informed
<1>2. PICK gone \in SUBSET Open(n) :
        /\ sock' = [a \in Addrs |-> IF a \in gone THEN "closing" ELSE sock[a]]
        /\ table' = [a \in Addrs |-> IF a \in gone THEN [m \in Nodes |-> None] ELSE table[a]]
  BY DEF Close
<1>3. /\ sock' \in [Addrs -> {"new", "open", "closing", "closed"}]
      /\ table' \in [Addrs -> [Nodes -> Addrs \cup {None}]]
      /\ \A y \in Addrs : \/ sock[y] = "open" /\ sock'[y] = "closing"
                          \/ sock'[y] = sock[y] /\ table'[y] = table[y]
  BY <1>1, <1>2, Typed DEF Open, Of
<1>4. \A x, y \in Addrs : Served(x, y) => Served(x, y)'
  <2>1. UNCHANGED accepting
    BY DEF Close
  <2>2. ASSUME NEW x \in Addrs, NEW y \in Addrs, Served(x, y) PROVE Served(x, y)'
    <3>1. CASE sock[y] = "open" /\ sock'[y] = "closing"
      BY <3>1 DEF Served, Gone
    <3>2. CASE sock'[y] = sock[y] /\ table'[y] = table[y]
      BY <2>1, <2>2, <3>2 DEF Served, Gone, Tabling
    <3> QED BY <1>3, <3>1, <3>2
  <2> QED BY <2>2
<1>5. Progress
  BY <1>1, <1>4, Rest DEF Progress, Kept, Close, frames
<1>6. round' \in [Nodes -> Rounds]
  BY <1>1, Typed DEF Close, Rounds
<1>7. todo' \in Todo
  <2> DEFINE left == [todo.change EXCEPT ![n] = @ - 1]
  <2>1. todo \in Todo /\ todo.change \in [Nodes -> Nat] /\ todo.change[n] > 0
    BY <1>1 DEF Close, TypeOK, Todo
  <2>2. left \in [Nodes -> Nat]
    BY <2>1
  <2>3. todo' = [todo EXCEPT !.change = left]
    BY DEF Close
  <2> HIDE DEF left
  <2> QED BY <2>1, <2>2, <2>3 DEF Todo
<1>8. TypeOK'
  BY <1>1, <1>3, <1>6, <1>7 DEF TypeOK, Close, frames, Rounds
<1> QED BY <1>5, <1>8, Holds

LEMMA OpenSocketHolds ==
  ASSUME Informed, NEW n \in Nodes, OpenSocket(n)
  PROVE  Informed'
<1>1. TypeOK /\ Kept
  BY DEF Informed
<1>2. PICK a \in Of(n) : /\ sock[a] = "new" /\ sock' = [sock EXCEPT ![a] = "open"]
                         /\ starting' = starting \cup WithRelay({a})
  BY DEF OpenSocket
<1>3. /\ a \in Addrs /\ sock' \in [Addrs -> {"new", "open", "closing", "closed"}]
      /\ \A y \in Addrs : y = a \/ sock'[y] = sock[y]
  BY <1>1, <1>2, Typed DEF Of
<1>4. \A x, y \in Addrs : Served(x, y) => Served(x, y)'
  BY <1>2, <1>3 DEF Served, Gone, Tabling, OpenSocket, network
<1>5. Progress
  BY <1>1, <1>4, Rest DEF Progress, Kept, OpenSocket, network, frames
<1>6. starting' \subseteq Addrs
  BY <1>1, <1>2, <1>3 DEF WithRelay, TypeOK
<1>7. TypeOK'
  BY <1>1, <1>3, <1>6 DEF TypeOK, OpenSocket, network, frames
<1> QED BY <1>5, <1>7, Holds

LEMMA PublishingTyped ==
  ASSUME NEW info \in Message, NEW at \in SUBSET Addrs
  PROVE  Publishing(info, at) \in Rounds
  BY DEF Publishing, Rounds

LEMMA PublishHolds ==
  ASSUME Informed, NEW n \in Nodes, Publish(n)
  PROVE  Informed'
<1>1. TypeOK /\ Kept
  BY DEF Informed
<1>2. Publishing(MyInfo(n), Open(n)) \in Rounds
  BY <1>1, OpenTyped, PublishingTyped
<1>3. round' \in [Nodes -> Rounds]
  BY <1>1, <1>2, Typed DEF Publish
<1>4. Relinked
  BY <1>1, Still DEF Publish, network
<1> QED BY <1>1, <1>3, <1>4, Rest, Steady DEF Publish, network, frames

LEMMA PublishAtHolds ==
  ASSUME Informed, NEW n \in Nodes, PublishAt(n)
  PROVE  Informed'
<1>1. TypeOK /\ Kept
  BY DEF Informed
<1>2. round[n].pc = "publish" /\ round[n] \in Rounds
  BY <1>1, Typed DEF PublishAt
<1>3. round[n].info \in Message /\ round[n].at \in SUBSET Addrs
  BY <1>2 DEF Rounds, Idle
<1>4. PICK a \in round[n].at :
        /\ wire' = wire \cup {Frame(a, b, round[n].info) :
                     b \in {b \in Addrs : Linked(a, b) /\ \E m \in Nodes : table[a][m] = b}}
        /\ round' = [round EXCEPT ![n] = Publishing(@.info, @.at \ {a})]
  BY DEF PublishAt
<1> DEFINE info == round[n].info
<1>5. \A b \in Addrs : Linked(a, b) => Frame(a, b, info) \in Frames /\ Good(Frame(a, b, info))
  BY <1>1, <1>3, <1>4, FrameGood
<1>6. wire' \subseteq Frames /\ \A f \in wire' : f \in wire \/ Good(f)
  BY <1>1, <1>4, <1>5, Typed
<1>7. Publishing(info, round[n].at \ {a}) \in Rounds
  BY <1>3, PublishingTyped
<1>8. round' \in [Nodes -> Rounds]
  BY <1>1, <1>4, <1>7, Typed
<1>9. Relinked
  BY <1>1, Still DEF PublishAt, network
<1> QED BY <1>1, <1>6, <1>8, <1>9, Rest, Steady DEF PublishAt, network

LEMMA TalkHolds ==
  ASSUME Informed, NEW n \in Nodes, NEW m \in Nodes, Talk(n, m)
  PROVE  Informed'
<1>1. TypeOK /\ Kept
  BY DEF Informed
<1> DEFINE at == <<n>>
           task == "pump"
           w == wire
<1>2. Contact(w, n, m, task, at, Data) /\ w \in SUBSET wire /\ Data \in Message
  BY Messages DEF Talk
<1> HIDE DEF at, task, w
<1>3. /\ Relinked /\ CallsTyped
      /\ wire' \subseteq Frames /\ \A g \in wire' : g \in wire \/ Good(g)
  BY <1>1, <1>2, Contacts
<1>4. todo' \in Todo
  BY <1>1 DEF Talk, TypeOK, Todo
<1> QED BY <1>1, <1>3, <1>4, Rest, Steady DEF Talk, sockets

LEMMA AskHolds ==
  ASSUME Informed, NEW n \in Nodes, NEW m \in Nodes, Ask(n, m)
  PROVE  Informed'
<1>1. TypeOK /\ Kept
  BY DEF Informed
<1> DEFINE at == <<n>>
           task == "asker"
           w == wire
           relay == Relay[m]
           msg == Request(m)
<1>2. relay \in Nodes
  BY <1>1, Typed DEF Ask
<1>3. Contact(w, n, relay, task, at, msg) /\ w \in SUBSET wire /\ msg \in Message
  BY Messages DEF Ask
<1> HIDE DEF at, task, w, relay, msg
<1>4. /\ Relinked /\ CallsTyped
      /\ wire' \subseteq Frames /\ \A g \in wire' : g \in wire \/ Good(g)
  BY <1>1, <1>2, <1>3, Contacts
<1>5. todo' \in Todo
  BY <1>1 DEF Ask, TypeOK, Todo
<1> QED BY <1>1, <1>4, <1>5, Rest, Steady DEF Ask, sockets

LEMMA StutterHolds ==
  ASSUME Informed, UNCHANGED vars
  PROVE  Informed'
<1>1. TypeOK /\ Kept
  BY DEF Informed
<1>2. Relinked
  BY <1>1, Still DEF vars, network
<1> QED BY <1>1, <1>2, Rest, Steady DEF vars, network, sockets, frames

LEMMA InitHolds ==
  ASSUME Init
  PROVE  Informed
<1> USE InformationAssumption DEF InformationAssumption
<1>1. pib \in [Nodes -> [Nodes -> {None} \cup Entries]]
  <2>1. \A n, m \in Nodes : Known[n][m] # None => Entry(Known[n][m], None) \in Entries
    BY DEF Entry, Entries
  <2> QED BY <2>1 DEF Init
<1>2. /\ sock \in [Addrs -> {"new", "open", "closing", "closed"}]
      /\ met \in [Addrs -> SUBSET Addrs]
      /\ link \in [Addrs -> [Addrs -> {"none", "hello", "up", "spoilt"}]]
      /\ asked \in [Addrs -> [Addrs -> Nodes \cup {None}]]
  BY DEF Init
<1>3. /\ accepting \in [Addrs -> {Idle} \cup [pc : {"handshake", "insert"}, from : Addrs]]
      /\ table \in [Addrs -> [Nodes -> Addrs \cup {None}]]
      /\ wire \subseteq Frames /\ upward \subseteq Addrs /\ lost \subseteq Addrs \X Addrs
      /\ starting \subseteq Addrs
      /\ \A c \in calls : c.from \in Addrs /\ c.to \in Addrs /\ c.msg \in Message
  BY DEF Init, WithRelay
<1>4. /\ round \in [Nodes -> {Idle, [pc |-> "open"]}
                      \cup [pc : {"publish"}, info : Message, at : SUBSET Addrs]]
      /\ todo \in Todo
  BY DEF Init
<1>5. Kept
  BY DEF Init, Kept
<1> QED BY <1>1, <1>2, <1>3, <1>4, <1>5 DEF Informed, TypeOK

LEMMA NextHolds ==
  ASSUME Informed, [Next]_vars
  PROVE  Informed'
  BY NextCases, CalledHolds, CallFailsHolds, RelayTaskHolds, ReadEndsHolds, GoesUpHolds,
     HandshakeLostHolds, AcceptHolds, HandshakeHolds, HandshakeFailsHolds, InsertHolds,
     LoseHolds, DataLoopHolds, CloseHolds, OpenSocketHolds, PublishHolds, PublishAtHolds,
     TalkHolds, AskHolds, StutterHolds

LEMMA Invariance == Spec => []Informed
  BY InitHolds, NextHolds, PTL DEF Spec

-----------------------------------------------------------------------------
(* The theorems *)

\* Whoever a frame comes from, it is taken for some daemon's, and every variable has
\* its type: a read task knows whom it takes the sender for.
THEOREM TypeCorrect == Spec => []TypeOK
<1>1. Informed => TypeOK
  BY DEF Informed
<1> QED BY Invariance, <1>1, PTL

\* Only HandleInfo changes what is known.
LEMMA Writers ==
  ASSUME [Next]_vars
  PROVE  UNCHANGED pib \/ \E f \in wire : HandleInfo(f)
  BY NextCases DEF Called, CallFails, RelayTask, ReadEnds, GoesUp, HandshakeLost, Accept, Handshake,
     HandshakeFails, Insert, Lose, HandleRequest, HandleData, Close, OpenSocket, Publish, PublishAt,
     Talk, Ask, network, sockets, frames, vars

\* What a daemon learns of m comes from m itself, or from whoever answers where it
\* called m: from no relay, however frames are lost, delayed or overtaken, and whatever
\* the configurations say.
THEOREM FirstHandHolds == Spec => FirstHand
<1> DEFINE A == \A n, m \in Nodes : pib'[n][m] # pib[n][m] =>
                  LET from == pib'[n][m].via[1]
                      at == pib'[n][m].via[2]
                  IN  Owner[from] = m \/ asked[at][from] = m
<1>1. ASSUME Informed, [Next]_vars PROVE [A]_vars
  <2>1. TypeOK /\ Kept
    BY <1>1 DEF Informed
  <2>2. CASE UNCHANGED pib
    BY <2>2
  <2>3. ASSUME NEW f \in wire, HandleInfo(f), NEW n \in Nodes, NEW m \in Nodes,
               pib'[n][m] # pib[n][m]
        PROVE  LET from == pib'[n][m].via[1]
                   at == pib'[n][m].via[2]
               IN  Owner[from] = m \/ asked[at][from] = m
    <3>1. m = f.as /\ pib'[n][m].via = <<f.from, f.to>>
      BY <2>1, <2>3, Stores
    <3>2. f.as = Owner[f.from] \/ asked[f.to][f.from] = f.as
      BY <2>1 DEF Kept, Good
    <3> QED BY <3>1, <3>2
  <2> QED BY <1>1, <2>2, <2>3, Writers
<1> QED BY Invariance, <1>1, PTL DEF Spec, FirstHand

\* Only the answer to a request adds a call of a data loop.
LEMMA Callers ==
  ASSUME [Next]_vars
  PROVE  \/ calls' \subseteq calls
         \/ \E f \in wire : HandleRequest(f)
         \/ \E task \in {"relay", "pump", "asker"} : \A c \in calls' \ calls : c.task = task
<1>1. ASSUME NEW a \in Addrs, RelayTask(a)
      PROVE  \A c \in calls' \ calls : c.task = "relay"
  BY <1>1 DEF RelayTask, Call
<1>2. ASSUME NEW n \in Nodes, NEW m \in Nodes, Talk(n, m)
      PROVE  \A c \in calls' \ calls : c.task = "pump"
  BY <1>2 DEF Talk, Contact, Call
<1>3. ASSUME NEW n \in Nodes, NEW m \in Nodes, Ask(n, m)
      PROVE  \A c \in calls' \ calls : c.task = "asker"
  BY <1>3 DEF Ask, Contact, Call
<1>4. ASSUME NEW c \in calls, Called(c) \/ CallFails(c) PROVE calls' \subseteq calls
  BY <1>4 DEF Called, CallFails
<1>5. ASSUME NEW a \in Addrs, ReadEnds(a) \/ GoesUp(a) PROVE calls' \subseteq calls
  BY <1>5 DEF ReadEnds, GoesUp
<1>6. ASSUME NEW a \in Addrs, NEW b \in Addrs,
             HandshakeLost(a, b) \/ Accept(a, b) \/ Handshake(a, b) \/ HandshakeFails(a, b) \/ Insert(a, b)
      PROVE  calls' \subseteq calls
  BY <1>6 DEF HandshakeLost, Accept, Handshake, HandshakeFails, Insert
<1>7. ASSUME NEW f \in wire, Lose(f) \/ HandleInfo(f) \/ HandleData(f) PROVE calls' \subseteq calls
  BY <1>7 DEF Lose, HandleInfo, HandleData
<1>8. ASSUME NEW n \in Nodes, Close(n) \/ OpenSocket(n) \/ Publish(n) \/ PublishAt(n)
      PROVE  calls' \subseteq calls
  BY <1>8 DEF Close, OpenSocket, Publish, PublishAt
<1>9. CASE UNCHANGED vars
  BY <1>9 DEF vars
<1> QED BY NextCases, <1>1, <1>2, <1>3, <1>4, <1>5, <1>6, <1>7, <1>8, <1>9

\* A data loop performs a handshake only with somebody its daemon called itself, or
\* before the connection is in the table, or after the table was cleared.
THEOREM LoopCallsOnlyUntabledHolds == Spec => LoopCallsOnlyUntabled
<1> DEFINE A == \A c \in calls' \ calls : c.task = "loop" =>
                  LET a == c.at[1]
                      b == c.at[2]
                  IN  \/ link[a][b] # "none"
                      \/ accepting[a] = [pc |-> "insert", from |-> b]
                      \/ sock[a] \in {"closing", "closed"}
<1>1. ASSUME Informed, [Next]_vars PROVE [A]_vars
  <2>1. TypeOK /\ Kept
    BY <1>1 DEF Informed
  <2>2. CASE calls' \subseteq calls
    BY <2>2
  <2>3. CASE \E task \in {"relay", "pump", "asker"} : \A c \in calls' \ calls : c.task = task
    BY <2>3
  <2>4. ASSUME NEW f \in wire, HandleRequest(f), NEW c \in calls' \ calls
        PROVE  LET a == c.at[1]
                   b == c.at[2]
               IN  \/ link[a][b] # "none"
                   \/ accepting[a] = [pc |-> "insert", from |-> b]
                   \/ sock[a] \in {"closing", "closed"}
    <3> DEFINE a == f.to
               b == f.from
    <3>1. Tabled(Owner[a], f.as) = {} /\ c.at = <<a, b>>
      <4>1. \/ calls' = calls
            \/ /\ Tabled(Owner[f.to], f.as) = {}
               /\ \E x, y \in Addrs, msg \in Message :
                    calls' = calls \cup {Call("loop", <<f.to, f.from>>, x, y, msg)}
        BY <2>1, <2>4, Requests
      <4> QED BY <2>4, <4>1 DEF Call
    <3>2. Good(f) /\ a \in Addrs /\ b \in Addrs /\ f.as \in Nodes
      BY <2>1 DEF Kept, TypeOK, Frames
    <3>3. CASE link[a][b] = "none" /\ ~ Gone(a)
      <4>1. asked[a][b] = None
        BY <2>1, <3>2, <3>3 DEF Kept
      <4>2. f.as = Owner[b]
        BY <2>1, <3>2, <4>1, Typed DEF Good
      <4>3. sock[a] = "open" /\ Tabling(b, a)
        BY <3>2, <3>3 DEF Good, Served
      <4>4. table[a][f.as] = None
        BY <3>1, <3>2, <4>3 DEF Tabled, Open, Of
      <4> QED BY <3>1, <4>2, <4>3, <4>4 DEF Tabling
    <3> QED BY <3>1, <3>3 DEF Gone
  <2> QED BY <1>1, <2>2, <2>3, <2>4, Callers
<1> QED BY Invariance, <1>1, PTL DEF Spec, LoopCallsOnlyUntabled
=============================================================================
