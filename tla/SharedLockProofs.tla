-------------------------- MODULE SharedLockProofs --------------------------
(* Proofs about SharedLock, for any tasks and any operations of theirs. *)
EXTENDS SharedLock, TLAPS

\* The order in which the daemon takes its locks.
Rank(l) ==
  IF l = "network" THEN 1 ELSE IF l = "transport" THEN 2 ELSE IF l = "io" THEN 3 ELSE 4

\* A guard is asked for in the order of the locks, or is a second reading.
InOrder(take) ==
  \A g \in take.held :
    \/ Rank(g.lock) < Rank(take.guard.lock)
    \/ /\ g = take.guard /\ g.mode = "read" /\ g.lock \in {"network", "io"}

\* What the text of an operation guarantees: it begins with no guard, holds only
\* guards it took before, and takes them in order.
Disciplined(program) ==
  /\ Len(program) \in Nat \ {0}
  /\ \A k \in 1 .. Len(program) :
       /\ program[k].guard \in Guard /\ program[k].held \subseteq Guard
       /\ k = 1 => program[k].held = {}
       /\ k < Len(program) =>
            program[k + 1].held \subseteq program[k].held \cup {program[k].guard}
       /\ InOrder(program[k])

LEMMA ShortDisciplined ==
  /\ Disciplined(ReadNetwork) /\ Disciplined(WriteNetwork)
  /\ Disciplined(ReadUnix) /\ Disciplined(WriteUnix)
  /\ Disciplined(Publish) /\ Disciplined(GetConnection)
  /\ Disciplined(Accept) /\ Disciplined(ForwardKnown)
<1>1. Disciplined(ReadNetwork)
  BY DEF Disciplined, InOrder, Rank, Guard, Take, R, W, ReadNetwork
<1>2. Disciplined(WriteNetwork)
  BY DEF Disciplined, InOrder, Rank, Guard, Take, R, W, WriteNetwork
<1>3. Disciplined(ReadUnix)
  BY DEF Disciplined, InOrder, Rank, Guard, Take, R, W, ReadUnix
<1>4. Disciplined(WriteUnix)
  BY DEF Disciplined, InOrder, Rank, Guard, Take, R, W, WriteUnix
<1>5. Disciplined(Publish)
  BY DEF Disciplined, InOrder, Rank, Guard, Take, R, W, Publish
<1>6. Disciplined(GetConnection)
  BY DEF Disciplined, InOrder, Rank, Guard, Take, R, W, GetConnection
<1>7. Disciplined(Accept)
  BY DEF Disciplined, InOrder, Rank, Guard, Take, R, W, Accept
<1>8. Disciplined(ForwardKnown)
  BY DEF Disciplined, InOrder, Rank, Guard, Take, R, W, ForwardKnown
<1> QED
  BY <1>1, <1>2, <1>3, <1>4, <1>5, <1>6, <1>7, <1>8

LEMMA LongDisciplined ==
  /\ Disciplined(CloseStale) /\ Disciplined(MyPeerInformation)
  /\ Disciplined(OpenConnection) /\ Disciplined(ForwardNew)
  /\ Disciplined(SaveConfiguration)
<1>1. Disciplined(CloseStale)
  BY DEF Disciplined, InOrder, Rank, Guard, Take, R, W, CloseStale
<1>2. Disciplined(MyPeerInformation)
  BY DEF Disciplined, InOrder, Rank, Guard, Take, R, W, MyPeerInformation
<1>3. Disciplined(OpenConnection)
  BY DEF Disciplined, InOrder, Rank, Guard, Take, R, W, OpenConnection
<1>4. Disciplined(ForwardNew)
  BY DEF Disciplined, InOrder, Rank, Guard, Take, R, W, ForwardNew
<1>5. Disciplined(SaveConfiguration)
  BY DEF Disciplined, InOrder, Rank, Guard, Take, R, W, SaveConfiguration
<1> QED
  BY <1>1, <1>2, <1>3, <1>4, <1>5

LEMMA ProgramsDisciplined == \A op \in DOMAIN Program : Disciplined(Program[op])
BY ShortDisciplined, LongDisciplined DEF Program

-----------------------------------------------------------------------------
(* Types and mutual exclusion *)

\* The place of a task that asks or has: one of its operations, at one guard.
LEMMA Placed ==
  ASSUME TypeOK, NEW t \in Tasks, at[t] # Idle
  PROVE  /\ at[t].op \in DOMAIN Program /\ at[t].step \in 1 .. Len(Program[at[t].op])
         /\ Disciplined(Program[at[t].op])
         /\ Current(t).guard \in Guard /\ Current(t).held \subseteq Guard
         /\ InOrder(Current(t))
<1>1. at[t].op \in DOMAIN Program /\ at[t].step \in 1 .. Len(Program[at[t].op])
  BY OpsAssumption DEF TypeOK
<1>2. Disciplined(Program[at[t].op])
  BY <1>1, ProgramsDisciplined
<1> QED
  BY <1>1, <1>2 DEF Disciplined, Current

\* State functions of a task that only reads its own place.
LEMMA HeldGuards ==
  ASSUME TypeOK, NEW t \in Tasks
  PROVE  Held(t) \subseteq Guard
BY Placed DEF Held, Asks, Has, Idle

\* A lock that is held for writing is held by one task only.
Exclusion ==
  \A t, u \in Tasks : \A g \in Held(t) : \A h \in Held(u) :
    g.mode = "write" /\ h.lock = g.lock => t = u

\* What a task holds and asks for is seen from its own place only.
LEMMA Local ==
  ASSUME NEW t \in Tasks, at'[t] = at[t]
  PROVE  /\ Held(t)' = Held(t) /\ Asks(t)' = Asks(t) /\ Has(t)' = Has(t)
         /\ Current(t)' = Current(t)
BY DEF Held, Asks, Has, Current

\* Type invariant: tasks are at a guard of one of their operations, and only
\* writers wait (TypeOK).
THEOREM TypeCorrect == Spec => []TypeOK
<1>1. Init => TypeOK
  BY DEF Init, TypeOK, Idle, Places
<1>2. TypeOK /\ [Next]_vars => TypeOK'
  <2> SUFFICES ASSUME TypeOK, [Next]_vars PROVE TypeOK'
    OBVIOUS
  <2> USE OpsAssumption
  <2>1. ASSUME NEW t \in Tasks, Begin(t) PROVE TypeOK'
    <3>1. PICK op \in Ops[t] :
            at' = [at EXCEPT ![t] = [op |-> op, step |-> 1, phase |-> "asks"]]
      BY <2>1 DEF Begin
    <3>2. op \in DOMAIN Program /\ 1 \in 1 .. Len(Program[op])
      BY ProgramsDisciplined DEF Disciplined
    <3>3. at' \in [Tasks -> Places]
      BY <3>1, <3>2 DEF TypeOK, Places
    <3>4. ~ Asks(t)
      BY <2>1 DEF Begin, Asks, Idle
    <3>5. \A u \in queued : at'[u] = at[u]
      BY <3>1, <3>4 DEF TypeOK
    <3>6. queued' \subseteq {u \in Tasks : Asks(u)' /\ Current(u)'.guard.mode = "write"}
      BY <2>1, <3>5, Local DEF TypeOK, Begin
    <3> QED
      BY <3>1, <3>2, <3>3, <3>6 DEF TypeOK
  <2>2. ASSUME NEW t \in Tasks, Acquire(t) PROVE TypeOK'
    <3>1. at' \in [Tasks -> Places]
      BY <2>2 DEF Acquire, TypeOK, Places
    <3>2. \A u \in queued' : at'[u] = at[u] /\ u \in queued
      BY <2>2 DEF TypeOK, Acquire
    <3>3. queued' \subseteq {u \in Tasks : Asks(u)' /\ Current(u)'.guard.mode = "write"}
      BY <3>2, Local DEF TypeOK
    <3>4. at[t] # Idle
      BY <2>2 DEF Acquire, Asks, Idle
    <3> QED
      BY <2>2, <3>1, <3>3, <3>4 DEF TypeOK, Acquire
  <2>3. ASSUME NEW t \in Tasks, Wait(t) PROVE TypeOK'
    <3>1. queued' \subseteq {u \in Tasks : Asks(u)' /\ Current(u)'.guard.mode = "write"}
      BY <2>3, Local DEF TypeOK, Wait
    <3> QED
      BY <2>3, <3>1 DEF TypeOK, Wait
  <2>4. ASSUME NEW t \in Tasks, Advance(t) PROVE TypeOK'
    <3>1. at[t] # Idle /\ ~ Asks(t)
      BY <2>4 DEF Advance, Has, Asks, Idle
    <3>2. at[t].op \in Ops[t] /\ at[t].step \in 1 .. Len(Program[at[t].op])
      BY <3>1 DEF TypeOK
    <3>3. at[t].op \in DOMAIN Program /\ Len(Program[at[t].op]) \in Nat
      BY <3>1, Placed DEF Disciplined
    <3>4. \/ at'[t] = Idle
          \/ /\ at'[t] = [op |-> at[t].op, step |-> at[t].step + 1, phase |-> "asks"]
             /\ at[t].step + 1 \in 1 .. Len(Program[at[t].op])
      BY <2>4, <3>2, <3>3 DEF Advance, TypeOK
    <3>5. \A u \in Tasks \ {t} : at'[u] = at[u]
      BY <2>4 DEF Advance, TypeOK
    <3>6. at'[t] \in Places
      BY <3>3, <3>4 DEF Places, Idle
    <3>7. at' \in [Tasks -> Places]
      BY <2>4, <3>5, <3>6 DEF Advance, TypeOK
    <3>8. \A u \in queued' : u \in queued /\ u # t
      BY <2>4, <3>1 DEF Advance, TypeOK
    <3>9. queued' \subseteq {u \in Tasks : Asks(u)' /\ Current(u)'.guard.mode = "write"}
      BY <3>5, <3>8, Local DEF TypeOK
    <3>10. \A u \in Tasks :
             \/ at'[u] = Idle
             \/ /\ at'[u].op \in Ops[u] /\ at'[u].phase \in {"asks", "has"}
                /\ at'[u].step \in 1 .. Len(Program[at'[u].op])
      BY <3>2, <3>4, <3>5 DEF TypeOK
    <3> QED
      BY <3>7, <3>9, <3>10 DEF TypeOK
  <2>5. CASE UNCHANGED vars
    <3>1. queued' \subseteq {u \in Tasks : Asks(u)' /\ Current(u)'.guard.mode = "write"}
      BY <2>5, Local DEF TypeOK, vars
    <3> QED
      BY <2>5, <3>1 DEF TypeOK, vars
  <2> QED
    BY <2>1, <2>2, <2>3, <2>4, <2>5 DEF Next
<1> QED
  BY <1>1, <1>2, PTL DEF Spec

LEMMA ExclusionStep ==
  ASSUME TypeOK, Exclusion, [Next]_vars
  PROVE  Exclusion'
<1>1. ASSUME NEW t \in Tasks, \A u \in Tasks \ {t} : at'[u] = at[u],
             Held(t)' \subseteq Held(t)
      PROVE  Exclusion'
  <2>1. \A u \in Tasks : Held(u)' \subseteq Held(u)
    BY <1>1, Local
  <2> QED
    BY <2>1 DEF Exclusion
<1>2. ASSUME NEW t \in Tasks, Begin(t) PROVE Exclusion'
  <2>1. PICK op \in Ops[t] :
          at' = [at EXCEPT ![t] = [op |-> op, step |-> 1, phase |-> "asks"]]
    BY <1>2 DEF Begin
  <2>2. Disciplined(Program[op])
    BY OpsAssumption, ProgramsDisciplined
  <2>3. at'[t] = [op |-> op, step |-> 1, phase |-> "asks"]
    BY <2>1 DEF TypeOK
  <2>4. Held(t)' = {}
    BY <2>2, <2>3 DEF Held, Asks, Current, Disciplined
  <2> QED
    BY <1>1, <2>1, <2>4 DEF TypeOK
<1>3. ASSUME NEW t \in Tasks, Acquire(t) PROVE Exclusion'
  <2> DEFINE g == Current(t).guard
  <2>1. at[t] # Idle /\ Asks(t) /\ \A u \in Tasks : ~ Blocks(u, t)
    BY <1>3 DEF Acquire, Asks, Idle
  <2>2. at'[t] = [at[t] EXCEPT !.phase = "has"] /\ \A u \in Tasks \ {t} : at'[u] = at[u]
    BY <1>3 DEF Acquire, TypeOK
  <2>3. Held(t) = Current(t).held
    BY <2>1 DEF Held
  <2>4. at[t] \in Places
    BY DEF TypeOK
  <2>5. at'[t].op = at[t].op /\ at'[t].step = at[t].step /\ at'[t].phase = "has"
    BY <2>2, <2>4 DEF Places
  <2>6. Held(t)' = Held(t) \cup {g}
    BY <2>3, <2>5 DEF Held, Asks, Has, Current
  <2>7. \A u \in Tasks \ {t} : Held(u)' = Held(u)
    BY <2>2, Local
  <2>8. g \in Guard /\ \A u \in Tasks : Held(u) \subseteq Guard
    BY <2>1, Placed, HeldGuards
  <2>9. \A u \in Tasks : \A h \in Held(u) :
          h.lock = g.lock => h.mode = "read" /\ g.mode = "read"
    <3>1. SUFFICES ASSUME NEW u \in Tasks, NEW h \in Held(u), h.lock = g.lock
                   PROVE  h.mode = "read" /\ g.mode = "read"
      OBVIOUS
    <3>2. h \in Guard
      BY <2>8
    <3>3. h = R(g.lock) \/ h = W(g.lock)
      BY <3>1, <3>2 DEF Guard, R, W
    <3>4. h = R(g.lock) /\ g.mode # "write"
      BY <2>1, <3>3 DEF Blocks
    <3> QED
      BY <2>8, <3>4 DEF Guard, R
  <2> QED
    BY <2>6, <2>7, <2>8, <2>9 DEF Exclusion, Guard
<1>4. ASSUME NEW t \in Tasks, Wait(t) PROVE Exclusion'
  BY <1>1, <1>4, Local DEF Wait
<1>5. ASSUME NEW t \in Tasks, Advance(t) PROVE Exclusion'
  <2>1. at[t] # Idle /\ Has(t) /\ ~ Asks(t)
    BY <1>5 DEF Advance, Has, Asks, Idle
  <2>2. /\ at[t].op \in DOMAIN Program /\ at[t].step \in 1 .. Len(Program[at[t].op])
        /\ Disciplined(Program[at[t].op])
    BY <2>1, Placed
  <2>3. Held(t) = Current(t).held \cup {Current(t).guard}
    BY <2>1 DEF Held
  <2>4. \A u \in Tasks \ {t} : at'[u] = at[u]
    BY <1>5 DEF Advance, TypeOK
  <2>5. CASE at[t].step < Len(Program[at[t].op])
    <3>1. at'[t] = [op |-> at[t].op, step |-> at[t].step + 1, phase |-> "asks"]
      BY <1>5, <2>5 DEF Advance, TypeOK
    <3>2. Held(t)' = Program[at[t].op][at[t].step + 1].held
      BY <3>1 DEF Held, Asks, Current
    <3>3. Held(t)' \subseteq Held(t)
      BY <2>2, <2>3, <2>5, <3>2 DEF Disciplined, Current
    <3> QED
      BY <1>1, <2>4, <3>3
  <2>6. CASE ~ (at[t].step < Len(Program[at[t].op]))
    <3>1. at'[t] = Idle
      BY <1>5, <2>6 DEF Advance, TypeOK
    <3>2. Held(t)' = {}
      BY <3>1 DEF Held, Asks, Has, Idle
    <3> QED
      BY <1>1, <2>4, <3>2
  <2> QED
    BY <2>5, <2>6
<1>6. CASE UNCHANGED vars
  BY <1>6, Local DEF Exclusion, vars
<1> QED
  BY <1>2, <1>3, <1>4, <1>5, <1>6 DEF Next

-----------------------------------------------------------------------------
(* Deadlock *)

LockOf(t) == Current(t).guard.lock

\* A holder of a lock that asks for nothing above it reads that lock again.
LEMMA HolderRereads ==
  ASSUME TypeOK, NEW t \in Tasks, Asks(t),
         NEW g \in Held(t), Rank(LockOf(t)) <= Rank(g.lock)
  PROVE  /\ Rereads(t) /\ g = Current(t).guard /\ g = R(LockOf(t))
         /\ LockOf(t) \in {"network", "io"}
<1>1. at[t] # Idle
  BY DEF Asks, Idle
<1>2. g \in Current(t).held /\ Held(t) = Current(t).held
  BY DEF Held
<1>3. InOrder(Current(t)) /\ Current(t).guard \in Guard
  BY <1>1, Placed
<1>4. Rank(g.lock) \in Nat /\ Rank(LockOf(t)) \in Nat
  BY DEF Rank
<1>5. g = Current(t).guard /\ g.mode = "read" /\ g.lock \in {"network", "io"}
  BY <1>2, <1>3, <1>4 DEF InOrder, LockOf
<1>6. g = R(g.lock)
  BY <1>3, <1>5 DEF Guard, R
<1> QED
  BY <1>2, <1>5, <1>6 DEF Rereads, LockOf

\* A task that reads again is kept from it by a waiting writer only.
LEMMA ReaderWaitsForWriter ==
  ASSUME TypeOK, Exclusion, NEW t \in Tasks, NEW u \in Tasks, Rereads(t), Blocks(u, t),
         Current(t).guard = R(LockOf(t))
  PROVE  u \in queued /\ LockOf(u) = LockOf(t)
<1>1. R(LockOf(t)) \in Held(t) /\ Current(t).guard.mode = "read"
  BY DEF Rereads
<1>2. ASSUME W(LockOf(t)) \in Held(u) PROVE FALSE
  <2>1. t = u
    BY <1>1, <1>2 DEF Exclusion, R, W
  <2>2. W(LockOf(t)) \in Held(t) /\ Asks(t)
    BY <1>2, <2>1 DEF Rereads
  <2>3. Rank(LockOf(t)) \in Nat /\ W(LockOf(t)).lock = LockOf(t)
    BY DEF Rank, W
  <2>4. W(LockOf(t)) = R(LockOf(t))
    BY <2>2, <2>3, HolderRereads
  <2> QED
    BY <2>4 DEF R, W
<1> QED
  BY <1>1, <1>2 DEF Blocks, LockOf

\* A set of tasks with a member that holds a lock no other member asks above.
LEMMA TopHolder ==
  ASSUME TypeOK, Exclusion, NEW S \in SUBSET Tasks, Deadlocked(S),
         NEW v \in S, NEW g \in Held(v), \A t \in S : Rank(LockOf(t)) <= Rank(g.lock)
  PROVE  \E t, u \in S :
           /\ Rereads(t) /\ LockOf(t) \in {"network", "io"}
           /\ u \in queued /\ LockOf(u) = LockOf(t)
<1>1. PICK w \in S : Blocks(w, v)
  BY DEF Deadlocked
<1>2. v \in Tasks /\ w \in Tasks /\ Asks(v)
  BY <1>1 DEF Blocks
<1>3. Rereads(v) /\ Current(v).guard = R(LockOf(v)) /\ LockOf(v) \in {"network", "io"}
  BY <1>2, HolderRereads
<1>4. w \in queued /\ LockOf(w) = LockOf(v)
  BY <1>1, <1>2, <1>3, ReaderWaitsForWriter
<1> QED
  BY <1>3, <1>4

LEMMA OnlyByReentry ==
  ASSUME TypeOK, Exclusion
  PROVE  DeadlockOnlyByReentry
<1> SUFFICES ASSUME NEW S \in SUBSET Tasks, Deadlocked(S)
             PROVE  \E t, u \in S :
                      /\ Rereads(t) /\ LockOf(t) \in {"network", "io"}
                      /\ u \in queued /\ LockOf(u) = LockOf(t)
  BY DEF DeadlockOnlyByReentry, LockOf
<1>1. \A t \in S : Rank(LockOf(t)) \in 1 .. 4
  BY DEF Rank
<1>2. \E t \in S : TRUE
  BY DEF Deadlocked
<1>3. PICK top \in S : \A t \in S : Rank(LockOf(t)) <= Rank(LockOf(top))
  <2>1. CASE \E t \in S : Rank(LockOf(t)) = 4
    BY <1>1, <2>1
  <2>2. CASE ~ (\E t \in S : Rank(LockOf(t)) = 4) /\ \E t \in S : Rank(LockOf(t)) = 3
    BY <1>1, <2>2
  <2>3. CASE ~ (\E t \in S : Rank(LockOf(t)) \in {3, 4}) /\ \E t \in S : Rank(LockOf(t)) = 2
    BY <1>1, <2>3
  <2>4. CASE ~ (\E t \in S : Rank(LockOf(t)) \in {2, 3, 4})
    BY <1>1, <1>2, <2>4
  <2> QED
    BY <2>1, <2>2, <2>3, <2>4
<1>4. PICK u \in S : Blocks(u, top)
  BY DEF Deadlocked
<1>5. CASE \E g \in Held(u) : g.lock = LockOf(top)
  BY <1>3, <1>5, TopHolder
<1>6. CASE u \in queued /\ LockOf(u) = LockOf(top)
  <2>1. Current(u).guard.mode = "write" /\ Asks(u)
    BY <1>6 DEF TypeOK
  <2>2. PICK v \in S : Blocks(v, u)
    BY DEF Deadlocked
  <2>3. PICK g \in Held(v) : g.lock = LockOf(top)
    BY <1>6, <2>1, <2>2 DEF Blocks, LockOf, R, W
  <2> QED
    BY <1>3, <2>3, TopHolder
<1> QED
  BY <1>4, <1>5, <1>6 DEF Blocks, LockOf, R, W

\* The daemon stops only at a second reading of the network state or of an IO
\* socket under a waiting writer (DeadlockOnlyByReentry), whatever tasks there are
\* and whichever of the operations they perform.
THEOREM DeadlockOnlyByReentryHolds == Spec => []DeadlockOnlyByReentry
<1>1. Init => Exclusion
  BY DEF Init, Exclusion, Held, Asks, Has, Idle
<1>2. TypeOK /\ Exclusion /\ [Next]_vars => Exclusion'
  BY ExclusionStep
<1>3. TypeOK /\ Exclusion => DeadlockOnlyByReentry
  BY OnlyByReentry
<1> QED
  BY <1>1, <1>2, <1>3, TypeCorrect, PTL DEF Spec
=============================================================================
