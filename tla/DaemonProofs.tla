---------------------------- MODULE DaemonProofs ----------------------------
(***************************************************************************)
(* Proofs about the lives of the daemon, for any number of processes that  *)
(* run one after the other or at the same time, and any peers.             *)
(***************************************************************************)
EXTENDS Daemon, TLAPS

Step(p) ==
  \/ Generate(p) \/ Load(p) \/ LoadFails(p)
  \/ BindSocket(p) \/ (\E x \in Peers : Learn(p, x)) \/ Crash(p)
  \/ Stop(p) \/ Truncate(p) \/ Write(p) \/ WriteFails(p) \/ Leave(p)

-----------------------------------------------------------------------------
(* Type correctness *)

\* The file, the sockets and the processes keep their types.
THEOREM TypeCorrect == Spec => []TypeOK
<1>1. ASSUME Init PROVE TypeOK
  BY <1>1, DaemonAssumption DEF Init, TypeOK, Config, Ids
<1>2. ASSUME TypeOK, NEW p \in Procs, Step(p) PROVE TypeOK'
  <2> USE <1>2 DEF TypeOK
  <2>0. {q \in Procs : Ended(q)} \subseteq Procs
    OBVIOUS
  <2>1. CASE Generate(p)
    <3>1. [id |-> p, known |-> {}] \in Config
      BY DEF Config, Ids
    <3> QED BY <2>0, <2>1, <3>1 DEF Generate, Starts, Goes
  <2>2. CASE Load(p)
    BY <2>0, <2>2 DEF Load, Starts, Goes
  <2>3. CASE LoadFails(p)
    BY <2>0, <2>3 DEF LoadFails, Starts, Goes
  <2>4. CASE BindSocket(p)
    <3>1. memory[p].id \in Ids
      BY <2>4 DEF BindSocket, Config
    <3> QED BY <2>4, <3>1 DEF BindSocket, history
  <2>5. ASSUME NEW x \in Peers, Learn(p, x) PROVE TypeOK'
    <3>1. [memory[p] EXCEPT !.known = @ \cup {x}] \in Config
      BY <2>5 DEF Learn, Config
    <3>2. memory' = [memory EXCEPT ![p] = [memory[p] EXCEPT !.known = @ \cup {x}]]
      BY <2>5, <3>1 DEF Learn
    <3> QED BY <2>5, <3>1, <3>2 DEF Learn, history
  <2>6. CASE Crash(p)
    BY <2>6 DEF Crash, Goes, history
  <2>7. CASE Stop(p)
    <3>1. memory[p] \in Config /\ memory[p].known \subseteq Peers
      BY <2>7 DEF Stop, Config
    <3> QED BY <2>7, <3>1 DEF Stop, Goes
  <2>8. CASE Truncate(p)
    BY <2>8 DEF Truncate, Goes, history
  <2>9. CASE Write(p)
    BY <2>9 DEF Write, Goes, history
  <2>10. CASE WriteFails(p)
    BY <2>10 DEF WriteFails, Goes, history
  <2>11. CASE Leave(p)
    BY <2>11 DEF Leave, Goes, history
  <2> QED
    BY <2>1, <2>2, <2>3, <2>4, <2>5, <2>6, <2>7, <2>8, <2>9, <2>10, <2>11 DEF Step
<1>3. TypeOK /\ UNCHANGED vars => TypeOK'
  BY DEF TypeOK, vars, history
<1>4. TypeOK /\ [Next]_vars => TypeOK'
  BY <1>2, <1>3 DEF Next, Step
<1> QED BY <1>1, <1>4, PTL DEF Spec
-----------------------------------------------------------------------------
(* What a step leaves alone *)

\* A process that has not started has no states; one before another had ended.
Lives ==
  \A p \in Procs :
    /\ phase[p] = "new" =>
         control[p] = "none" /\ memory[p] = None /\ saving[p] = None /\ before[p] = {}
    /\ \A q \in before[p] : Ended(q)

\* A step of p changes nothing of another process.
LEMMA OthersKeep ==
  ASSUME TypeOK, NEW p \in Procs, Step(p), NEW q \in Procs, q # p
  PROVE  /\ phase'[q] = phase[q] /\ control'[q] = control[q] /\ memory'[q] = memory[q]
         /\ saving'[q] = saving[q] /\ before'[q] = before[q] /\ knew'[q] = knew[q]
<1> USE DEF TypeOK
<1>1. CASE Generate(p)
  BY <1>1 DEF Generate, Starts, Goes
<1>2. CASE Load(p) \/ LoadFails(p)
  BY <1>2 DEF Load, LoadFails, Starts, Goes
<1>3. CASE BindSocket(p)
  BY <1>3 DEF BindSocket, history
<1>4. ASSUME NEW x \in Peers, Learn(p, x)
      PROVE  /\ phase'[q] = phase[q] /\ control'[q] = control[q] /\ memory'[q] = memory[q]
             /\ saving'[q] = saving[q] /\ before'[q] = before[q] /\ knew'[q] = knew[q]
  BY <1>4 DEF Learn, history
<1>5. CASE Crash(p) \/ Truncate(p) \/ Write(p) \/ WriteFails(p) \/ Leave(p)
  BY <1>5 DEF Crash, Truncate, Write, WriteFails, Leave, Goes, history
<1>6. CASE Stop(p)
  BY <1>6 DEF Stop, Goes
<1> QED BY <1>1, <1>2, <1>3, <1>4, <1>5, <1>6 DEF Step

\* What a step of p does to p itself: it starts, or goes on.
Begins(p) ==
  /\ phase[p] = "new" /\ phase'[p] # "new"
  /\ before'[p] = {q \in Procs : Ended(q)}
  /\ control'[p] \in {"none", "unbound"} /\ knew'[p] = knew[p]
GoesOn(p) ==
  /\ Running(p) /\ phase'[p] # "new" /\ before'[p] = before[p]
  /\ (control'[p] = "none") = (control[p] = "none")
  /\ control[p] \in {"bound", "refused"} => control'[p] = control[p]
  /\ memory[p] # None =>
       /\ memory'[p] # None /\ memory'[p].id = memory[p].id
       /\ memory[p].known \subseteq memory'[p].known
  /\ saving[p] # None => saving'[p] # None

LEMMA OwnStep ==
  ASSUME TypeOK, Lives, NEW p \in Procs, Step(p)
  PROVE  Begins(p) \/ GoesOn(p)
<1> USE DEF TypeOK
<1>n. \A q \in Procs : memory[q] # None => memory[q] \in Config
  OBVIOUS
<1>c. \A c \in Config : c # None
  BY DaemonAssumption DEF Config, Ids
<1>1. CASE Generate(p) \/ Load(p) \/ LoadFails(p)
  <2>1. /\ phase[p] = "new" /\ phase'[p] # "new" /\ knew' = knew
        /\ before'[p] = {q \in Procs : Ended(q)}
    BY <1>1 DEF Generate, Load, LoadFails, Starts, Goes
  <2>2. control'[p] \in {"none", "unbound"}
    BY <1>1, <2>1 DEF Generate, Load, LoadFails, Starts, Goes, Lives
  <2> QED BY <2>1, <2>2 DEF Begins
<1>2. CASE BindSocket(p)
  BY <1>2 DEF BindSocket, history, GoesOn, Running, Ended
<1>3. ASSUME NEW x \in Peers, Learn(p, x) PROVE GoesOn(p)
  <2>1. memory[p] \in Config
    BY <1>3 DEF Learn
  <2>2. /\ memory'[p] = [memory[p] EXCEPT !.known = @ \cup {x}]
        /\ memory'[p].id = memory[p].id /\ memory'[p].known = memory[p].known \cup {x}
        /\ memory'[p] \in Config
    BY <1>3, <2>1 DEF Learn, Config
  <2> QED BY <1>3, <1>c, <2>2 DEF Learn, history, GoesOn, Running, Ended
<1>4. CASE Crash(p) \/ Truncate(p) \/ Write(p) \/ WriteFails(p) \/ Leave(p)
  <2>1. Running(p) /\ phase'[p] # "new"
    BY <1>4 DEF Crash, Truncate, Write, WriteFails, Leave, Goes, Running, Ended
  <2>2. UNCHANGED <<control, memory, saving, before, knew>>
    BY <1>4 DEF Crash, Truncate, Write, WriteFails, Leave, history
  <2> QED BY <2>1, <2>2 DEF GoesOn
<1>5. CASE Stop(p)
  <2>1. memory[p] \in Config /\ saving'[p] = memory[p]
    BY <1>5 DEF Stop
  <2>2. Running(p) /\ phase'[p] = "saving"
    BY <1>5 DEF Stop, Goes, Running, Ended
  <2>3. UNCHANGED <<control, memory, before>>
    BY <1>5 DEF Stop
  <2> QED BY <1>c, <2>1, <2>2, <2>3 DEF GoesOn
<1> QED BY <1>1, <1>2, <1>3, <1>4, <1>5 DEF Step

\* Lives is inductive, what has ended stays as it is, and processes that ran at
\* the same time always did.
LEMMA LivesStep ==
  ASSUME TypeOK, Lives, NEW p \in Procs, Step(p)
  PROVE  /\ Lives'
         /\ \A q \in Procs : Ended(q) =>
              /\ q # p /\ Ended(q)' /\ phase'[q] = phase[q] /\ control'[q] = control[q]
              /\ memory'[q] = memory[q] /\ saving'[q] = saving[q]
              /\ before'[q] = before[q] /\ knew'[q] = knew[q]
         /\ \A q, r \in Procs : Overlap(q, r) => Overlap(q, r)'
         /\ \A q \in Procs : Running(q) /\ q # p /\ phase'[p] # "new" => Overlap(p, q)'
<1>1. Begins(p) \/ GoesOn(p)
  BY OwnStep
<1>2. \A q \in Procs : q # p =>
        /\ phase'[q] = phase[q] /\ control'[q] = control[q] /\ memory'[q] = memory[q]
        /\ saving'[q] = saving[q] /\ before'[q] = before[q] /\ knew'[q] = knew[q]
  BY OthersKeep
<1>3. ~ Ended(p)
  BY <1>1 DEF Begins, GoesOn, Running, Ended
<1>4. \A q \in Procs : Ended(q) =>
        /\ q # p /\ Ended(q)' /\ phase'[q] = phase[q] /\ control'[q] = control[q]
        /\ memory'[q] = memory[q] /\ saving'[q] = saving[q]
        /\ before'[q] = before[q] /\ knew'[q] = knew[q]
  BY <1>2, <1>3 DEF Ended
<1>5. phase'[p] # "new"
  BY <1>1 DEF Begins, GoesOn
<1>6. \A q \in Procs : before[q] \subseteq Procs
  BY DEF TypeOK
<1>7. Lives'
  <2>1. \A q \in Procs : phase'[q] = "new" =>
          control'[q] = "none" /\ memory'[q] = None /\ saving'[q] = None /\ before'[q] = {}
    BY <1>2, <1>5 DEF Lives
  <2>2. \A q \in Procs : \A r \in before'[q] : Ended(r)'
    <3>1. \A q \in Procs : q # p => \A r \in before'[q] : Ended(r)'
      BY <1>2, <1>4, <1>6 DEF Lives
    <3>2. \A r \in before'[p] : r \in Procs /\ Ended(r)
      BY <1>1, <1>6 DEF Begins, GoesOn, Lives
    <3> QED BY <1>4, <3>1, <3>2
  <2> QED BY <2>1, <2>2 DEF Lives
<1>8. \A q, r \in Procs : Overlap(q, r) => Overlap(q, r)'
  <2>1. \A q \in Procs : phase[q] # "new" => phase'[q] # "new" /\ before'[q] = before[q]
    BY <1>1, <1>2 DEF Begins, GoesOn
  <2> QED BY <2>1 DEF Overlap
<1>9. \A q \in Procs : Running(q) /\ q # p => Overlap(p, q)'
  <2> SUFFICES ASSUME NEW q \in Procs, Running(q), q # p PROVE Overlap(p, q)'
    OBVIOUS
  <2>1. phase'[q] # "new" /\ before'[q] = before[q] /\ ~ Ended(q)
    BY <1>2 DEF Running
  <2>2. p \notin before'[q]
    BY <1>3, <2>1 DEF Lives
  <2>3. q \notin before'[p]
    BY <1>1, <2>1 DEF Begins, GoesOn, Lives
  <2> QED BY <1>5, <2>1, <2>2, <2>3 DEF Overlap
<1> QED BY <1>4, <1>7, <1>8, <1>9

LEMMA Started == Init => Lives
  BY DEF Init, Lives

-----------------------------------------------------------------------------
(* Readable *)

\* A process that opened the file finds it written by another only if the two ran
\* at the same time.
Met(p) == \E q \in Procs : Overlap(p, q) /\ saving[q] # None
Written ==
  /\ Readable
  /\ \A p \in Procs : phase[p] = "open" /\ disk # Empty => Met(p)

LEMMA WrittenStep ==
  ASSUME TypeOK, Lives, Written, NEW p \in Procs, Step(p)
  PROVE  Written'
<1> USE DEF TypeOK
<1>c. \A c \in Config : c # None /\ c # Empty /\ c # Torn
  BY DaemonAssumption DEF Config, Ids
<1>d. None # Empty /\ None # Torn /\ Empty # Torn
  BY DaemonAssumption
<1>1. \A q, r \in Procs : Overlap(q, r) => Overlap(q, r)'
  BY LivesStep
<1>2. \A q \in Procs : q # p => phase'[q] = phase[q] /\ saving'[q] = saving[q]
  BY OthersKeep
<1>3. \A q \in Procs : saving[q] # None => saving'[q] # None
  <2>1. saving[p] # None => saving'[p] # None
    BY OwnStep DEF Begins, GoesOn, Lives
  <2> QED BY <1>2, <2>1
<1>4. \A q \in Procs : Met(q) => Met(q)'
  BY <1>1, <1>3 DEF Met
<1>5. CASE Truncate(p)
  <2>1. /\ disk' = Empty /\ phase'[p] = "open" /\ saving'[p] # None
    BY <1>5, <1>c DEF Truncate, Goes
  <2> QED BY <1>d, <2>1 DEF Written, Readable
<1>6. CASE Write(p)
  <2>1. /\ phase[p] = "open" /\ phase'[p] = "saved" /\ saving' = saving
        /\ saving[p] # None /\ saving[p] # Empty /\ saving[p] # Torn
        /\ disk' = saving[p] \/ (disk # Empty /\ disk' = Torn)
    BY <1>6, <1>c DEF Write, Goes
  <2>2. disk' = Torn => Met(p)'
    BY <1>4, <2>1 DEF Written
  <2>3. ASSUME NEW q \in Procs, phase'[q] = "open" PROVE Met(q)'
    <3>1. q # p /\ phase[q] = "open"
      BY <1>2, <2>1, <2>3
    <3>2. Overlap(p, q)'
      BY <2>1, <3>1, LivesStep DEF Running, Ended
    <3> QED BY <1>3, <2>1, <3>1, <3>2 DEF Met, Overlap
  <2>4. Readable'
    BY <1>d, <2>1, <2>2 DEF Readable, Met
  <2> QED BY <2>3, <2>4 DEF Written
<1>7. CASE /\ disk' = disk /\ (phase'[p] = "open" => phase[p] = "open")
           /\ phase[p] = "open" => phase'[p] \in {"open", "failed", "dead"}
  <2>1. phase[p] \notin {"failed", "dead"} \/ ~ saving[p] # None
    BY OwnStep DEF Begins, GoesOn, Running, Ended
  <2>2. disk' = Empty => \E q \in Procs : saving'[q] # None /\ phase'[q] \in {"open", "failed", "dead"}
    BY <1>2, <1>3, <1>7, <2>1 DEF Written, Readable
  <2>3. disk' = Torn => \E q, r \in Procs : Overlap(q, r)' /\ saving'[q] # None /\ saving'[r] # None
    BY <1>1, <1>3, <1>7 DEF Written, Readable
  <2>4. \A q \in Procs : phase'[q] = "open" /\ disk' # Empty => Met(q)'
    BY <1>2, <1>4, <1>7 DEF Written
  <2> QED BY <2>2, <2>3, <2>4 DEF Written, Readable
<1>8. \/ Truncate(p) \/ Write(p)
      \/ /\ disk' = disk /\ (phase'[p] = "open" => phase[p] = "open")
         /\ phase[p] = "open" => phase'[p] \in {"open", "failed", "dead"}
  <2>1. CASE Generate(p) \/ Load(p) \/ LoadFails(p) \/ Stop(p)
    BY <2>1 DEF Generate, Load, LoadFails, Starts, Stop, Goes
  <2>2. CASE BindSocket(p) \/ \E x \in Peers : Learn(p, x)
    BY <2>2 DEF BindSocket, Learn
  <2>3. CASE Crash(p) \/ WriteFails(p) \/ Leave(p)
    BY <2>3 DEF Crash, WriteFails, Leave, Goes
  <2> QED BY <2>1, <2>2, <2>3 DEF Step
<1> QED BY <1>5, <1>6, <1>7, <1>8

-----------------------------------------------------------------------------
(* Reachable and RefusedOnlyBehindCrash *)

\* The socket file of an identity is that of a daemon of it that runs or crashed,
\* and has not outlived a daemon that stopped after it.
Stopped(q) == phase[q] \in {"done", "failed"} /\ Daemon(q)
Files ==
  \A i \in Ids : socket[i] # None =>
    LET q == socket[i] IN
      /\ control[q] = "bound" /\ memory[q].id = i /\ phase[q] \notin {"done", "failed"}
      /\ \A r \in Procs : Stopped(r) /\ memory[r].id = i => q \notin before[r]

Sockets == Files /\ Reachable /\ RefusedOnlyBehindCrash

\* The facts about processes that the proofs below share.
LEMMA Fixed ==
  ASSUME TypeOK, Lives, NEW p \in Procs, Step(p)
  PROVE  \A q \in Procs :
           /\ Daemon(q) => memory[q] \in Config /\ memory[q].id \in Ids /\ Daemon(q)'
                             /\ memory'[q].id = memory[q].id
           /\ phase[q] # "new" => before'[q] = before[q] /\ (Daemon(q)' => Daemon(q))
           /\ control[q] \in {"bound", "refused"} => control'[q] = control[q] /\ phase[q] # "new"
<1>c. \A c \in Config : c # None /\ c.id \in Ids
  BY DaemonAssumption DEF Config, Ids
<1>1. \A q \in Procs : Daemon(q) => memory[q] \in Config /\ phase[q] # "new"
  BY DEF TypeOK, Daemon, Lives
<1>2. ASSUME NEW q \in Procs, q # p
      PROVE  /\ phase'[q] = phase[q] /\ control'[q] = control[q] /\ memory'[q] = memory[q]
             /\ before'[q] = before[q]
  BY <1>2, OthersKeep
<1>3. CASE Begins(p)
  BY <1>c, <1>1, <1>2, <1>3 DEF Begins, Daemon
<1>4. CASE GoesOn(p)
  BY <1>c, <1>1, <1>2, <1>4 DEF GoesOn, Daemon, Running
<1> QED BY <1>3, <1>4, OwnStep

LEMMA SocketsStep ==
  ASSUME TypeOK, Lives, Sockets, NEW p \in Procs, Step(p)
  PROVE  Sockets'
<1> USE DEF TypeOK
<1>n. None \notin Procs
  BY DaemonAssumption
<1>1. \A q, r \in Procs : Overlap(q, r) => Overlap(q, r)'
  BY LivesStep
<1>2. \A q \in Procs : Ended(q) =>
        /\ q # p /\ Ended(q)' /\ phase'[q] = phase[q] /\ control'[q] = control[q]
        /\ memory'[q] = memory[q] /\ before'[q] = before[q]
  BY LivesStep
<1>3. \A q \in Procs : q # p =>
        /\ phase'[q] = phase[q] /\ control'[q] = control[q] /\ memory'[q] = memory[q]
        /\ before'[q] = before[q]
  BY OthersKeep
<1>4. \A q \in Procs :
        /\ Daemon(q) => memory[q].id \in Ids /\ Daemon(q)' /\ memory'[q].id = memory[q].id
        /\ phase[q] # "new" => before'[q] = before[q] /\ (Daemon(q)' => Daemon(q))
        /\ control[q] \in {"bound", "refused"} => control'[q] = control[q] /\ phase[q] # "new"
  BY Fixed
<1>5. \A q \in Procs : Stopped(q) => Stopped(q)'
  BY <1>2 DEF Stopped, Ended, Daemon
<1>6. \A q \in Procs : before[q] \subseteq Procs /\ \A r \in before[q] : Ended(r)
  BY DEF Lives
\* What the exceptions of the properties rest on stays true.
<1>7. ASSUME NEW q \in Procs, control[q] = "refused"
      PROVE  \E r \in Procs :
               /\ r # q /\ control'[r] = "bound" /\ memory'[r].id = memory'[q].id
               /\ \/ Overlap(q, r)'
                  \/ phase'[r] = "dead" /\ \A t \in before'[q] :
                       Daemon(t)' /\ memory'[t].id = memory'[q].id /\ phase'[t] # "dead"
                         => r \notin before'[t]
  <2>1. PICK r \in Procs :
          /\ r # q /\ control[r] = "bound" /\ memory[r].id = memory[q].id
          /\ \/ Overlap(q, r)
             \/ phase[r] = "dead" /\ \A t \in before[q] :
                  Daemon(t) /\ memory[t].id = memory[q].id /\ phase[t] # "dead" => r \notin before[t]
    BY <1>7 DEF Sockets, RefusedOnlyBehindCrash
  <2>2. control'[r] = "bound" /\ memory'[r].id = memory'[q].id /\ memory'[q].id = memory[q].id
    BY <1>4, <1>7, <2>1 DEF Daemon
  <2>3. CASE Overlap(q, r)
    BY <1>1, <2>1, <2>2, <2>3
  <2>4. CASE phase[r] = "dead" /\ \A t \in before[q] :
               Daemon(t) /\ memory[t].id = memory[q].id /\ phase[t] # "dead" => r \notin before[t]
    <3>1. phase'[r] = "dead"
      BY <1>2, <2>4 DEF Ended
    <3>2. before'[q] = before[q]
      BY <1>4, <1>7
    <3>3. \A t \in before[q] : t \in Procs /\ Ended(t)
      BY <1>6
    <3>4. \A t \in before'[q] :
            Daemon(t)' /\ memory'[t].id = memory'[q].id /\ phase'[t] # "dead" => r \notin before'[t]
      BY <1>2, <2>2, <2>4, <3>2, <3>3 DEF Daemon
    <3> QED BY <2>1, <2>2, <3>1, <3>4
  <2> QED BY <2>1, <2>3, <2>4
<1>8. ASSUME NEW q \in Procs, Running(q), control[q] = "bound"
      PROVE  \/ socket[memory[q].id] = q
             \/ \E r \in Procs : Stopped(r)' /\ Overlap(q, r)' /\ memory'[r].id = memory'[q].id
  <2>1. \/ socket[memory[q].id] = q
        \/ \E r \in Procs : Stopped(r) /\ Overlap(q, r) /\ memory[r].id = memory[q].id
    BY <1>8 DEF Sockets, Reachable, Stopped
  <2> QED BY <1>1, <1>4, <1>5, <1>8, <2>1 DEF Stopped, Daemon
\* The steps that leave the files and stop nobody with states.
<1>9. ASSUME socket' = socket, control' = control \/ control'[p] = "unbound",
             Stopped(p)' => FALSE
      PROVE  Sockets'
  <2>1. \A q \in Procs : control'[q] \in {"bound", "refused"} => control[q] = control'[q]
    BY <1>3, <1>9
  <2>2. Files'
    <3> SUFFICES ASSUME NEW i \in Ids, socket'[i] # None
                 PROVE  /\ control'[socket'[i]] = "bound" /\ memory'[socket'[i]].id = i
                        /\ phase'[socket'[i]] \notin {"done", "failed"}
                        /\ \A r \in Procs : Stopped(r)' /\ memory'[r].id = i => socket'[i] \notin before'[r]
      BY DEF Files
    <3> DEFINE q == socket[i]
    <3>1. /\ q \in Procs /\ socket'[i] = q /\ control[q] = "bound" /\ memory[q].id = i
          /\ phase[q] \notin {"done", "failed"}
          /\ \A r \in Procs : Stopped(r) /\ memory[r].id = i => q \notin before[r]
      BY <1>9 DEF Sockets, Files
    <3>2. control'[q] = "bound" /\ memory'[q].id = i
      BY <1>4, <3>1 DEF Daemon
    <3>3. phase'[q] \notin {"done", "failed"}
      BY <1>3, <1>9, <3>1, <3>2 DEF Stopped, Daemon
    <3>4. \A r \in Procs : Stopped(r)' /\ memory'[r].id = i => q \notin before'[r]
      BY <1>3, <1>9, <3>1 DEF Stopped, Daemon
    <3> QED BY <3>1, <3>2, <3>3, <3>4
  <2>3. Reachable'
    <3> SUFFICES ASSUME NEW q \in Procs, Running(q)', control'[q] = "bound"
                 PROVE  \/ socket'[memory'[q].id] = q
                        \/ \E r \in Procs : Stopped(r)' /\ Overlap(q, r)' /\ memory'[r].id = memory'[q].id
      BY DEF Reachable, Stopped
    <3>1. control[q] = "bound" /\ phase[q] # "new"
      BY <1>4, <2>1
    <3>2. Running(q)
      BY <1>2, <3>1 DEF Running
    <3> QED BY <1>4, <1>8, <1>9, <3>1, <3>2 DEF Daemon
  <2>4. RefusedOnlyBehindCrash'
    BY <1>7, <2>1 DEF RefusedOnlyBehindCrash
  <2> QED BY <2>2, <2>3, <2>4 DEF Sockets
<1>10. CASE Generate(p) \/ Load(p) \/ LoadFails(p)
  <2>1. phase[p] = "new" /\ socket' = socket /\ control[p] = "none"
    BY <1>10 DEF Generate, Load, LoadFails, Starts, Lives
  <2>2. control' = control \/ control'[p] = "unbound"
    BY <1>10 DEF Generate, Load, LoadFails
  <2>3. Stopped(p)' => FALSE
    BY <1>10, <2>1 DEF Generate, Load, LoadFails, Starts, Goes, Stopped, Daemon
  <2> QED BY <1>9, <2>1, <2>2, <2>3
<1>11. CASE (\E x \in Peers : Learn(p, x)) \/ Crash(p) \/ Stop(p) \/ Truncate(p) \/ Write(p)
  <2>1. socket' = socket /\ control' = control /\ phase'[p] \notin {"done", "failed"}
    BY <1>11 DEF Learn, Crash, Stop, Truncate, Write, Goes, Running, Ended
  <2> QED BY <1>9, <2>1 DEF Stopped
<1>12. CASE WriteFails(p) \/ Leave(p)
  <2>1. /\ control' = control /\ memory' = memory /\ Running(p)
        /\ phase'[p] \in {"done", "failed"}
        /\ socket' = IF control[p] = "none" THEN socket ELSE [socket EXCEPT ![memory[p].id] = None]
    BY <1>12 DEF WriteFails, Leave, Goes, Running, Ended
  <2>2. CASE control[p] = "none"
    BY <1>9, <2>1, <2>2 DEF Stopped, Daemon
  <2>3. CASE control[p] # "none"
    <3>1. /\ memory[p].id \in Ids /\ Stopped(p)'
          /\ \A i \in Ids : socket'[i] = IF i = memory[p].id THEN None ELSE socket[i]
      BY <1>4, <2>1, <2>3 DEF Daemon, Stopped
    <3>2. Files'
      <4> SUFFICES ASSUME NEW i \in Ids, socket'[i] # None
                   PROVE  /\ control'[socket'[i]] = "bound" /\ memory'[socket'[i]].id = i
                          /\ phase'[socket'[i]] \notin {"done", "failed"}
                          /\ \A r \in Procs : Stopped(r)' /\ memory'[r].id = i => socket'[i] \notin before'[r]
        BY DEF Files
      <4> DEFINE q == socket[i]
      <4>1. /\ i # memory[p].id /\ q \in Procs /\ socket'[i] = q
            /\ control[q] = "bound" /\ memory[q].id = i /\ phase[q] \notin {"done", "failed"}
            /\ \A r \in Procs : Stopped(r) /\ memory[r].id = i => q \notin before[r]
        BY <3>1 DEF Sockets, Files
      <4>2. q # p /\ phase'[q] = phase[q]
        BY <1>3, <4>1
      <4>3. \A r \in Procs : Stopped(r)' /\ memory'[r].id = i => q \notin before'[r]
        BY <1>3, <2>1, <4>1 DEF Stopped, Daemon
      <4> QED BY <2>1, <4>1, <4>2, <4>3
    <3>3. Reachable'
      <4> SUFFICES ASSUME NEW q \in Procs, Running(q)', control'[q] = "bound"
                   PROVE  \/ socket'[memory'[q].id] = q
                          \/ \E r \in Procs : Stopped(r)' /\ Overlap(q, r)' /\ memory'[r].id = memory'[q].id
        BY DEF Reachable, Stopped
      <4>1. q # p /\ Running(q) /\ control[q] = "bound"
        BY <1>3, <2>1 DEF Running, Ended
      <4>2. Overlap(p, q)'
        BY <2>1, <4>1, LivesStep
      <4>3. Overlap(q, p)'
        BY <4>2 DEF Overlap
      <4>4. CASE memory[q].id = memory[p].id
        BY <2>1, <3>1, <4>3, <4>4
      <4>5. CASE memory[q].id # memory[p].id
        BY <1>4, <1>8, <2>1, <3>1, <4>1, <4>5 DEF Daemon
      <4> QED BY <4>4, <4>5
    <3>4. RefusedOnlyBehindCrash'
      BY <1>7, <2>1 DEF RefusedOnlyBehindCrash
    <3> QED BY <3>2, <3>3, <3>4 DEF Sockets
  <2> QED BY <2>2, <2>3
<1> DEFINE i == memory[p].id
<1>13. ASSUME BindSocket(p) PROVE Sockets'
  <2>1. /\ Running(p) /\ control[p] = "unbound" /\ i \in Ids /\ memory' = memory
        /\ phase' = phase /\ before' = before
    BY <1>4, <1>13 DEF BindSocket, history, Daemon
  <2>2. CASE socket[i] = None /\ socket' = [socket EXCEPT ![i] = p]
             /\ control' = [control EXCEPT ![p] = "bound"]
    <3>1. /\ \A j \in Ids : socket'[j] = IF j = i THEN p ELSE socket[j]
          /\ \A q \in Procs : control'[q] = IF q = p THEN "bound" ELSE control[q]
      BY <2>1, <2>2
    <3>2. \A q \in Procs : Stopped(q)' => Stopped(q)
      BY <2>1, <3>1 DEF Stopped, Daemon
    <3>3. \A q \in Procs : p \notin before[q]
      BY <1>6, <2>1 DEF Running
    <3>4. phase[p] \notin {"done", "failed"}
      BY <2>1 DEF Running, Ended
    <3>5. Files'
      <4> SUFFICES ASSUME NEW j \in Ids, socket'[j] # None
                   PROVE  /\ control'[socket'[j]] = "bound" /\ memory'[socket'[j]].id = j
                          /\ phase'[socket'[j]] \notin {"done", "failed"}
                          /\ \A r \in Procs : Stopped(r)' /\ memory'[r].id = j => socket'[j] \notin before'[r]
        BY DEF Files
      <4>1. CASE j = i
        BY <2>1, <3>1, <3>3, <3>4, <4>1
      <4>2. CASE j # i
        <5> HIDE DEF i
        <5>1. /\ socket[j] \in Procs /\ socket'[j] = socket[j] /\ control[socket[j]] = "bound"
              /\ memory[socket[j]].id = j /\ phase[socket[j]] \notin {"done", "failed"}
              /\ \A r \in Procs : Stopped(r) /\ memory[r].id = j => socket[j] \notin before[r]
          BY <3>1, <4>2 DEF Sockets, Files
        <5> QED BY <2>1, <3>1, <3>2, <5>1
      <4> QED BY <4>1, <4>2
    <3>6. Reachable'
      <4> SUFFICES ASSUME NEW q \in Procs, Running(q)', control'[q] = "bound"
                   PROVE  \/ socket'[memory'[q].id] = q
                          \/ \E r \in Procs : Stopped(r)' /\ Overlap(q, r)' /\ memory'[r].id = memory'[q].id
        BY DEF Reachable, Stopped
      <4>1. Running(q)
        BY <2>1 DEF Running, Ended
      <4>2. CASE q = p
        BY <2>1, <3>1, <4>2
      <4>3. CASE q # p
        <5>1. control[q] = "bound" /\ memory[q].id \in Ids
          BY <1>4, <3>1, <4>3 DEF Daemon
        <5> QED BY <1>n, <1>8, <2>1, <2>2, <3>1, <4>1, <4>3, <5>1
      <4> QED BY <4>2, <4>3
    <3>7. RefusedOnlyBehindCrash'
      <4>1. \A q \in Procs : control'[q] = "refused" => control[q] = "refused"
        BY <3>1
      <4> QED BY <1>7, <4>1 DEF RefusedOnlyBehindCrash
    <3> QED BY <3>5, <3>6, <3>7 DEF Sockets
  <2>3. CASE socket[i] # None /\ socket' = socket /\ control' = [control EXCEPT ![p] = "refused"]
    <3>1. \A q \in Procs : control'[q] = IF q = p THEN "refused" ELSE control[q]
      BY <2>3
    <3>2. \A q \in Procs : Stopped(q)' => Stopped(q)
      BY <2>1, <3>1 DEF Stopped, Daemon
    <3>3. Files'
      <4> HIDE DEF i
      <4> SUFFICES ASSUME NEW j \in Ids, socket'[j] # None
                   PROVE  /\ control'[socket'[j]] = "bound" /\ memory'[socket'[j]].id = j
                          /\ phase'[socket'[j]] \notin {"done", "failed"}
                          /\ \A r \in Procs : Stopped(r)' /\ memory'[r].id = j => socket'[j] \notin before'[r]
        BY DEF Files
      <4>1. /\ socket[j] \in Procs /\ socket'[j] = socket[j] /\ control[socket[j]] = "bound"
            /\ memory[socket[j]].id = j /\ phase[socket[j]] \notin {"done", "failed"}
            /\ \A r \in Procs : Stopped(r) /\ memory[r].id = j => socket[j] \notin before[r]
        BY <2>3 DEF Sockets, Files
      <4> QED BY <2>1, <3>1, <3>2, <4>1
    <3>4. Reachable'
      <4> SUFFICES ASSUME NEW q \in Procs, Running(q)', control'[q] = "bound"
                   PROVE  \/ socket'[memory'[q].id] = q
                          \/ \E r \in Procs : Stopped(r)' /\ Overlap(q, r)' /\ memory'[r].id = memory'[q].id
        BY DEF Reachable, Stopped
      <4>1. Running(q) /\ control[q] = "bound"
        BY <2>1, <3>1 DEF Running, Ended
      <4> QED BY <1>8, <2>1, <2>3, <4>1
    <3>5. RefusedOnlyBehindCrash'
      <4> SUFFICES ASSUME NEW q \in Procs, control'[q] = "refused"
                   PROVE  \E r \in Procs :
                            /\ r # q /\ control'[r] = "bound" /\ memory'[r].id = memory'[q].id
                            /\ \/ Overlap(q, r)'
                               \/ phase'[r] = "dead" /\ \A t \in before'[q] :
                                    Daemon(t)' /\ memory'[t].id = memory'[q].id /\ phase'[t] # "dead"
                                      => r \notin before'[t]
        BY DEF RefusedOnlyBehindCrash
      <4>1. CASE q # p
        BY <1>7, <3>1, <4>1
      <4>2. CASE q = p
        <5>1. PICK r \in Procs :
                /\ control[r] = "bound" /\ memory[r].id = i /\ phase[r] \notin {"done", "failed"}
                /\ \A t \in Procs : Stopped(t) /\ memory[t].id = i => r \notin before[t]
          BY <2>1, <2>3 DEF Sockets, Files
        <5>2. r # p /\ control'[r] = "bound" /\ phase[r] # "new"
          BY <1>4, <2>1, <3>1, <5>1
        <5>3. CASE Running(r)
          <6>1. Overlap(p, r)'
            BY <2>1, <5>1, <5>2, <5>3, LivesStep DEF Running
          <6> QED BY <2>1, <4>2, <5>1, <5>2, <6>1
        <5>4. CASE phase[r] = "dead"
          <6>1. \A t \in before[p] : t \in Procs /\ Ended(t)
            BY <1>6
          <6>2. \A t \in before'[p] :
                  Daemon(t)' /\ memory'[t].id = memory'[p].id /\ phase'[t] # "dead" => r \notin before'[t]
            <7> SUFFICES ASSUME NEW t \in before[p], Daemon(t)', memory[t].id = i, phase[t] # "dead"
                         PROVE  r \notin before[t]
              BY <2>1
            <7>1. t \in Procs /\ phase[t] \in {"done", "failed"} /\ control'[t] = control[t]
              BY <1>2, <6>1 DEF Ended
            <7>2. Stopped(t)
              BY <7>1 DEF Stopped, Daemon
            <7> QED BY <5>1, <7>1, <7>2
          <6>3. phase'[r] = "dead" /\ memory'[r].id = memory'[p].id
            BY <2>1, <5>1, <5>4
          <6> QED BY <4>2, <5>1, <5>2, <6>2, <6>3
        <5> QED BY <5>1, <5>2, <5>3, <5>4 DEF Running, Ended
      <4> QED BY <4>1, <4>2
    <3> QED BY <3>3, <3>4, <3>5 DEF Sockets
  <2> QED BY <1>13, <2>2, <2>3 DEF BindSocket
<1> QED BY <1>10, <1>11, <1>12, <1>13 DEF Step

-----------------------------------------------------------------------------
(* Inherited *)

Disturbed(q) ==
  \E r \in Procs : Overlap(r, q) \/ (Generator(r) /\ r \notin before[q])

\* A configuration that hands on what q knew.
From(q, config) == config.id = saving[q].id /\ knew[q] \subseteq config.known

\* Once q has written the file, it is in the file and in every daemon that
\* started after q ended, in its memory and in what it writes itself.
Handed(q) ==
  \/ Disturbed(q)
  \/ /\ disk \in Config => From(q, disk)
     /\ \A p \in Procs : q \in before[p] /\ Daemon(p) =>
          From(q, memory[p]) /\ (saving[p] # None => From(q, saving[p]))

HandedOn ==
  /\ \A q \in Procs : Daemon(q) /\ saving[q] # None => knew[q] = saving[q].known
  /\ \A q \in Procs : Daemon(q) /\ phase[q] \in {"saved", "done"} => Handed(q)

LEMMA HandedOnStep ==
  ASSUME TypeOK, Lives, HandedOn, NEW p \in Procs, Step(p)
  PROVE  HandedOn'
<1>c. \A c \in Config : c # None /\ c # Empty /\ c # Torn
  BY DaemonAssumption DEF Config, Ids
<1>1. \A q, r \in Procs : Overlap(q, r) => Overlap(q, r)'
  BY LivesStep
<1>2. \A q \in Procs : q # p =>
        /\ phase'[q] = phase[q] /\ control'[q] = control[q] /\ memory'[q] = memory[q]
        /\ saving'[q] = saving[q] /\ before'[q] = before[q] /\ knew'[q] = knew[q]
  BY OthersKeep
<1>3. Begins(p) \/ GoesOn(p)
  BY OwnStep
<1>4. \A q \in Procs : before[q] \subseteq Procs /\ \A r \in before[q] : Ended(r)
  BY DEF Lives, TypeOK
<1>5. \A q \in Procs : phase[q] # "new" /\ Disturbed(q) => Disturbed(q)'
  <2> SUFFICES ASSUME NEW q \in Procs, phase[q] # "new", Disturbed(q) PROVE Disturbed(q)'
    OBVIOUS
  <2>1. before'[q] = before[q]
    BY Fixed
  <2>2. \A r \in Procs : Generator(r) => Generator(r)'
    BY <1>2, <1>3 DEF Generator, Begins, GoesOn, Lives
  <2> QED BY <1>1, <2>1, <2>2 DEF Disturbed
\* What was known is what is saved.
<1>6. \A q \in Procs : Daemon(q)' /\ saving'[q] # None => knew'[q] = saving'[q].known
  <2>1. \A q \in Procs : q # p /\ Daemon(q)' /\ saving'[q] # None => knew'[q] = saving'[q].known
    BY <1>2 DEF HandedOn, Daemon
  <2>2. Daemon(p)' /\ saving'[p] # None => knew'[p] = saving'[p].known
    <3>1. CASE Generate(p)
      BY <3>1 DEF Generate, Starts, Lives, Daemon
    <3>2. CASE Load(p) \/ LoadFails(p)
      BY <3>2 DEF Load, LoadFails, Starts, Lives
    <3>3. CASE Stop(p)
      BY <3>3 DEF Stop, TypeOK
    <3>4. CASE \/ BindSocket(p) \/ (\E x \in Peers : Learn(p, x)) \/ Crash(p)
               \/ Truncate(p) \/ Write(p) \/ WriteFails(p) \/ Leave(p)
      <4>1. saving' = saving /\ knew' = knew /\ (Daemon(p)' => Daemon(p))
        BY <3>4 DEF BindSocket, Learn, Crash, Truncate, Write, WriteFails, Leave, history, Daemon
      <4> QED BY <4>1 DEF HandedOn
    <3> QED BY <3>1, <3>2, <3>3, <3>4 DEF Step
  <2> QED BY <2>1, <2>2
<1>7. ASSUME NEW q \in Procs, Daemon(q)', phase'[q] \in {"saved", "done"}
      PROVE  Handed(q)'
  \* q itself writes the file.
  <2>1. CASE phase[q] \notin {"saved", "done"}
    <3>1. p = q /\ Write(p)
      <4>1. p = q
        BY <1>2, <1>7, <2>1
      <4>2. CASE Generate(p) \/ Load(p) \/ LoadFails(p) \/ Crash(p) \/ Stop(p) \/ Truncate(p) \/ WriteFails(p)
        BY <1>7, <4>1, <4>2 DEF Generate, Load, LoadFails, Starts, Crash, Stop, Truncate,
           WriteFails, Goes, TypeOK
      <4>3. CASE BindSocket(p) \/ (\E x \in Peers : Learn(p, x))
        BY <1>7, <2>1, <4>1, <4>3 DEF BindSocket, Learn
      <4>4. CASE Leave(p)
        BY <2>1, <4>1, <4>4 DEF Leave
      <4> QED BY <4>1, <4>2, <4>3, <4>4 DEF Step
    <3>2. /\ phase[q] = "open" /\ saving' = saving /\ knew' = knew /\ before' = before
          /\ saving[q] \in Config /\ Daemon(q)
          /\ disk' = saving[q] \/ disk' = Torn
      BY <1>7, <3>1 DEF Write, history, TypeOK, Daemon
    <3>3. disk' \in Config => From(q, disk)'
      BY <1>c, <3>2 DEF HandedOn, From
    <3>4. \A r \in Procs : q \notin before'[r]
      BY <1>4, <3>2 DEF Ended
    <3> QED BY <3>3, <3>4 DEF Handed
  <2>2. CASE phase[q] \in {"saved", "done"} /\ Disturbed(q)
    BY <1>5, <2>2 DEF Handed
  \* Whoever runs while q leaves disturbs it.
  <2>3. CASE phase[q] = "saved" /\ q # p
    <3>1. Overlap(p, q)'
      BY <1>3, <2>3, LivesStep DEF Running, Ended, Begins, GoesOn
    <3> QED BY <3>1 DEF Handed, Disturbed
  <2>4. CASE phase[q] = "saved" /\ q = p /\ ~ Disturbed(q)
    <3>1. /\ disk' = disk /\ saving' = saving /\ knew' = knew /\ before' = before /\ Daemon(q)
      <4>1. CASE \/ Generate(p) \/ Load(p) \/ LoadFails(p) \/ Stop(p)
                 \/ Truncate(p) \/ Write(p) \/ WriteFails(p)
        BY <2>4, <4>1 DEF Generate, Load, LoadFails, Starts, Stop, Truncate, Write, WriteFails
      <4>2. CASE \/ BindSocket(p) \/ (\E x \in Peers : Learn(p, x)) \/ Crash(p) \/ Leave(p)
        BY <1>7, <2>4, <4>2 DEF BindSocket, Learn, Crash, Leave, history, Daemon
      <4> QED BY <4>1, <4>2 DEF Step
    <3>2. disk \in Config => From(q, disk)
      BY <2>4, <3>1 DEF HandedOn, Handed
    <3>3. \A r \in Procs : q \notin before'[r]
      BY <1>4, <2>4, <3>1 DEF Ended
    <3> QED BY <3>1, <3>2, <3>3 DEF Handed, From
  <2>5. CASE phase[q] = "done" /\ ~ Disturbed(q)
    <3>1. q # p /\ Ended(q) /\ ~ Ended(p) /\ Daemon(q)
          /\ saving'[q] = saving[q] /\ knew'[q] = knew[q] /\ before'[q] = before[q]
      <4>1. Ended(q)
        BY <2>5 DEF Ended
      <4>2. ~ Ended(p)
        BY <1>3 DEF Begins, GoesOn, Running, Ended
      <4> QED BY <1>2, <1>7, <4>1, <4>2 DEF Daemon
    <3>2. /\ disk \in Config => From(q, disk)
          /\ \A r \in Procs : q \in before[r] /\ Daemon(r) =>
               From(q, memory[r]) /\ (saving[r] # None => From(q, saving[r]))
      BY <2>5, <3>1 DEF HandedOn, Handed
    <3>3. \A c : From(q, c)' <=> c' .id = saving[q].id /\ knew[q] \subseteq c' .known
      BY <3>1 DEF From
    <3>4. p \notin before[q]
      BY <1>4, <3>1
    \* Others are not touched by a step of p.
    <3>5. \A r \in Procs : r # p /\ q \in before'[r] /\ Daemon(r)' =>
            From(q, memory[r])' /\ (saving'[r] # None => From(q, saving[r])')
      BY <1>2, <3>1, <3>2 DEF From, Daemon
    <3>6. CASE Generate(p)
      <4>1. Generator(p)'
        <5>1. memory'[p] = [id |-> p, known |-> {}] /\ control'[p] = "none"
          BY <3>6 DEF Generate, Starts, Lives, TypeOK
        <5>2. [id |-> p, known |-> {}] \in Config
          BY DEF Config, Ids
        <5> QED BY <1>c, <5>1, <5>2 DEF Generator
      <4> QED BY <3>1, <3>4, <4>1 DEF Handed, Disturbed
    <3>7. CASE Load(p)
      <4>1. disk' = disk /\ disk \in Config /\ memory'[p] = disk /\ saving'[p] = None
        BY <3>7 DEF Load, Starts, Lives, TypeOK
      <4> QED BY <3>1, <3>2, <3>5, <4>1 DEF Handed, From
    <3>8. CASE LoadFails(p)
      <4>1. disk' = disk /\ ~ Daemon(p)'
        BY <3>8 DEF LoadFails, Starts, Lives, Daemon
      <4> QED BY <3>1, <3>2, <3>5, <4>1 DEF Handed, From
    <3>9. CASE Write(p)
      <4>1. /\ phase[p] = "open" /\ saving' = saving /\ memory' = memory /\ before' = before
            /\ control' = control /\ saving[p] # None /\ memory[p] # None
            /\ disk' = saving[p] \/ disk' = Torn
        BY <1>c, <3>9 DEF Write, history, TypeOK
      <4>2. CASE q \notin before[p]
        <5>1. Overlap(p, q)
          BY <2>5, <3>1, <3>4, <4>1, <4>2 DEF Overlap
        <5> QED BY <2>5, <5>1 DEF Disturbed
      <4>3. CASE q \in before[p] /\ ~ Daemon(p)
        <5>1. Generator(p)
          BY <4>1, <4>3 DEF Generator, Daemon
        <5> QED BY <2>5, <3>4, <5>1 DEF Disturbed
      <4>4. CASE q \in before[p] /\ Daemon(p)
        <5>1. From(q, memory[p]) /\ From(q, saving[p])
          BY <3>2, <4>1, <4>4
        <5>2. disk' \in Config => From(q, disk)'
          BY <1>c, <3>1, <4>1, <5>1 DEF From
        <5>3. From(q, memory[p])' /\ From(q, saving[p])'
          BY <3>1, <4>1, <5>1 DEF From
        <5> QED BY <3>5, <5>2, <5>3 DEF Handed
      <4> QED BY <4>2, <4>3, <4>4
    <3>10. CASE \/ BindSocket(p) \/ (\E x \in Peers : Learn(p, x)) \/ Crash(p) \/ Stop(p)
                \/ Truncate(p) \/ WriteFails(p) \/ Leave(p)
      <4>1. disk' = disk \/ disk' = Empty
        BY <3>10 DEF BindSocket, Learn, Crash, Stop, Truncate, WriteFails, Leave
      <4>2. GoesOn(p) /\ (Daemon(p)' => Daemon(p)) /\ before'[p] = before[p]
        <5>1. phase[p] # "new"
          BY <3>10 DEF BindSocket, Learn, Crash, Stop, Truncate, WriteFails, Leave, Running
        <5> QED BY <1>3, <5>1 DEF Begins, GoesOn, Daemon
      <4>3. Daemon(p) => memory[p] # None
        BY <1>c DEF TypeOK, Daemon
      <4>4. saving'[p] = saving[p] \/ saving'[p] = memory[p]
        BY <3>10 DEF BindSocket, Learn, Crash, Stop, Truncate, WriteFails, Leave, TypeOK
      <4>5. q \in before'[p] /\ Daemon(p)' =>
              From(q, memory[p])' /\ (saving'[p] # None => From(q, saving[p])')
        <5> SUFFICES ASSUME q \in before[p], Daemon(p)
                     PROVE  From(q, memory[p])' /\ (saving'[p] # None => From(q, saving[p])')
          BY <4>2
        <5>1. From(q, memory[p]) /\ (saving[p] # None => From(q, saving[p]))
          BY <3>2
        <5>2. memory'[p].id = memory[p].id /\ memory[p].known \subseteq memory'[p].known
          BY <4>2, <4>3 DEF GoesOn
        <5>3. From(q, memory[p])'
          BY <3>1, <5>1, <5>2 DEF From
        <5>4. saving'[p] # None => From(q, saving[p])'
          BY <3>1, <4>4, <5>1 DEF From
        <5> QED BY <5>3, <5>4
      <4>6. disk' \in Config => From(q, disk)'
        BY <1>c, <3>1, <3>2, <4>1 DEF From
      <4> QED BY <3>5, <4>5, <4>6 DEF Handed
    <3> QED BY <3>6, <3>7, <3>8, <3>9, <3>10 DEF Step
  <2> QED BY <2>1, <2>2, <2>3, <2>4, <2>5
<1> QED BY <1>6, <1>7 DEF HandedOn

-----------------------------------------------------------------------------
(* The theorems *)

\* What all proofs rest on together.
Invariant == Lives /\ Written /\ Sockets /\ HandedOn

LEMMA InvariantHolds == Spec => []Invariant
<1>1. ASSUME Init PROVE Invariant
  <2>1. Lives
    BY <1>1, Started
  <2>2. Written
    <3>1. disk # Empty /\ disk # Torn
      BY <1>1, DaemonAssumption DEF Init, Ids
    <3> QED BY <1>1, <3>1 DEF Init, Written, Readable
  <2>3. Sockets
    BY <1>1 DEF Init, Sockets, Files, Reachable, RefusedOnlyBehindCrash
  <2>4. HandedOn
    BY <1>1 DEF Init, HandedOn, Daemon
  <2> QED BY <2>1, <2>2, <2>3, <2>4 DEF Invariant
<1>2. ASSUME TypeOK, Invariant, [Next]_vars PROVE Invariant'
  <2>1. ASSUME NEW p \in Procs, Step(p) PROVE Invariant'
    BY <1>2, <2>1, LivesStep, WrittenStep, SocketsStep, HandedOnStep DEF Invariant
  <2>2. CASE UNCHANGED vars
    <3> USE <1>2, <2>2 DEF vars, history
    <3>1. Lives'
      BY DEF Invariant, Lives, Ended
    <3>2. Written'
      BY DEF Invariant, Written, Readable, Met, Overlap
    <3>3. Files'
      BY DEF Invariant, Sockets, Files, Stopped, Daemon
    <3>4. Reachable'
      BY DEF Invariant, Sockets, Reachable, Running, Ended, Daemon, Overlap
    <3>5. RefusedOnlyBehindCrash'
      BY DEF Invariant, Sockets, RefusedOnlyBehindCrash, Daemon, Overlap
    <3>6. HandedOn'
      BY DEF Invariant, HandedOn, Handed, Disturbed, From, Daemon, Generator, Overlap
    <3> QED BY <3>1, <3>2, <3>3, <3>4, <3>5, <3>6 DEF Invariant, Sockets
  <2> QED BY <1>2, <2>1, <2>2 DEF Next, Step
<1> QED BY <1>1, <1>2, TypeCorrect, PTL DEF Spec

\* The file is lost only to a death or an error in the middle of writing, or to two
\* writers at once.
THEOREM ReadableHolds == Spec => []Readable
<1>1. Invariant => Readable
  BY DEF Invariant, Written
<1> QED BY <1>1, InvariantHolds, PTL

\* A running daemon keeps its control socket unless another of its identity, that
\* ran at the same time, has stopped.
THEOREM ReachableHolds == Spec => []Reachable
<1>1. Invariant => Reachable
  BY DEF Invariant, Sockets
<1> QED BY <1>1, InvariantHolds, PTL

\* Only another running daemon, or a crash that no daemon has cleaned up after,
\* keeps a daemon from its control socket.
THEOREM RefusedOnlyBehindCrashHolds == Spec => []RefusedOnlyBehindCrash
<1>1. Invariant => RefusedOnlyBehindCrash
  BY DEF Invariant, Sockets
<1> QED BY <1>1, InvariantHolds, PTL

\* An undisturbed daemon hands on its identity and what it knew at Ctrl-C to all
\* later ones, through any number of lives and crashes between.
THEOREM InheritedHolds == Spec => []Inherited
<1>1. Invariant => Inherited
  BY DEF Invariant, HandedOn, Handed, Disturbed, From, Inherited
<1> QED BY <1>1, InvariantHolds, PTL
=============================================================================
