----------------------------- MODULE SharedLock -----------------------------
(***************************************************************************)
(* The locks of the daemon (src/src/utils.rs): network state, transport    *)
(* socket, IO socket and unix state are each behind one std RwLock, which  *)
(* blocks the thread and lets no reader in while a writer waits.           *)
(*                                                                         *)
(* An operation is the sequence of the guards it takes, each with the      *)
(* guards the code still holds at that point: a guard that is a temporary  *)
(* lives to the end of its statement, one in the condition of an `if let`  *)
(* or `match` to the end of its last branch.  What happens between two     *)
(* guards, awaits included, takes any time.  There is one socket.          *)
(***************************************************************************)
EXTENDS Naturals, Sequences

CONSTANTS
  Tasks,  \* the threads of execution
  Ops     \* Ops[t]: names of the operations t performs

VARIABLES
  at,       \* at[t]: the operation, the guard it asks for or just took; or Idle
  queued    \* tasks that wait in write(); they keep new readers out

vars == <<at, queued>>

-----------------------------------------------------------------------------
(* The operations *)

Guard == [mode : {"read", "write"}, lock : {"network", "transport", "io", "unix"}]
R(l) == [mode |-> "read", lock |-> l]
W(l) == [mode |-> "write", lock |-> l]
Take(g, held) == [guard |-> g, held |-> held]

ReadNetwork == << Take(R("network"), {}) >>
WriteNetwork == << Take(W("network"), {}) >>

\* close_stale_sockets(): the guard of `if let` is held while the socket closes.
CloseStale == <<
  Take(R("network"), {}),
  Take(W("network"), {}),
  Take(W("transport"), {W("network")}),
  Take(W("io"), {W("network"), W("transport")}) >>

\* my_peer_information(): three reads in one expression.
MyPeerInformation == <<
  Take(R("network"), {}),
  Take(R("network"), {R("network")}),
  Take(R("network"), {R("network")}) >>

Publish == << Take(R("network"), {}), Take(R("transport"), {}) >>

\* get_connection() of the network state asks each socket under its own guard.
GetConnection == <<
  Take(R("network"), {}),
  Take(R("transport"), {R("network")}) >>

\* open_connection() and, under the guard of the transport socket, connect().
OpenConnection == <<
  Take(R("transport"), {}),
  Take(R("transport"), {}),
  Take(W("io"), {R("transport")}),
  Take(R("io"), {R("transport")}),
  Take(R("io"), {R("transport"), R("io")}),
  Take(R("transport"), {}) >>

\* The accept task.  Mutant: the connection is made in the expression that
\* inserts it.
AcceptInOneExpression ==
  << Take(W("transport"), {}), Take(R("transport"), {W("transport")}) >>
Accept == << Take(R("transport"), {}), Take(W("transport"), {}) >>

\* forward_or_new_connection() for a known and for a new remote: the guard of
\* `if let` is held in its else branch.
ForwardKnown == << Take(R("io"), {}), Take(W("io"), {}) >>
ForwardNew == <<
  Take(R("io"), {}),
  Take(R("io"), {R("io")}),
  Take(R("io"), {R("io")}),
  Take(W("io"), {}) >>

\* main(): the configuration is read in one expression.
SaveConfiguration == <<
  Take(R("network"), {}),
  Take(R("network"), {R("network")}),
  Take(R("network"), {R("network")}),
  Take(R("unix"), {R("network")}) >>

ReadUnix == << Take(R("unix"), {}) >>
WriteUnix == << Take(W("unix"), {}) >>

Program == [
  ReadNetwork |-> ReadNetwork, WriteNetwork |-> WriteNetwork,
  CloseStale |-> CloseStale, MyPeerInformation |-> MyPeerInformation,
  Publish |-> Publish, GetConnection |-> GetConnection,
  OpenConnection |-> OpenConnection, Accept |-> Accept,
  ForwardKnown |-> ForwardKnown, ForwardNew |-> ForwardNew,
  SaveConfiguration |-> SaveConfiguration,
  ReadUnix |-> ReadUnix, WriteUnix |-> WriteUnix]

ASSUME OpsAssumption == Ops \in [Tasks -> SUBSET DOMAIN Program]

-----------------------------------------------------------------------------
(* The lock *)

Idle == [op |-> "none", step |-> 0, phase |-> "idle"]
Asks(t) == at[t].phase = "asks"
Has(t) == at[t].phase = "has"
Current(t) == Program[at[t].op][at[t].step]

Held(t) ==
  IF Asks(t) THEN Current(t).held
  ELSE IF Has(t) THEN Current(t).held \cup {Current(t).guard}
  ELSE {}

\* u keeps t from the guard it asks for; a task may block itself.
Blocks(u, t) ==
  /\ Asks(t)
  /\ LET g == Current(t).guard IN
       \/ W(g.lock) \in Held(u)
       \/ g.mode = "write" /\ R(g.lock) \in Held(u)
       \/ g.mode = "read" /\ u \in queued /\ Current(u).guard.lock = g.lock

-----------------------------------------------------------------------------

Init == at = [t \in Tasks |-> Idle] /\ queued = {}

Begin(t) ==
  /\ at[t] = Idle
  /\ \E op \in Ops[t] : at' = [at EXCEPT ![t] = [op |-> op, step |-> 1, phase |-> "asks"]]
  /\ UNCHANGED queued

\* read() and write() return.
Acquire(t) ==
  /\ Asks(t) /\ \A u \in Tasks : ~ Blocks(u, t)
  /\ at' = [at EXCEPT ![t].phase = "has"]
  /\ queued' = queued \ {t}

\* write() goes to sleep and makes itself known to readers.  Mutant: read() too.
WaitAny(t) ==
  /\ Asks(t) /\ t \notin queued
  /\ \E u \in Tasks : Blocks(u, t)
  /\ queued' = queued \cup {t}
  /\ UNCHANGED at

Wait(t) ==
  /\ Asks(t) /\ Current(t).guard.mode = "write" /\ t \notin queued
  /\ \E u \in Tasks : Blocks(u, t)
  /\ queued' = queued \cup {t}
  /\ UNCHANGED at

\* The task goes on to its next guard, or ends its operation, and drops what it
\* holds no longer.  Of a lock that gets free the waiting writers are woken, and
\* have to ask again.
Advance(t) ==
  /\ Has(t)
  /\ at' = [at EXCEPT ![t] =
              IF at[t].step < Len(Program[at[t].op])
              THEN [op |-> at[t].op, step |-> at[t].step + 1, phase |-> "asks"]
              ELSE Idle]
  /\ queued' = {u \in queued : \E v \in Tasks : Blocks(v, u)'}

Next == \E t \in Tasks : Begin(t) \/ Acquire(t) \/ Wait(t) \/ Advance(t)
Spec == Init /\ [][Next]_vars

-----------------------------------------------------------------------------
(* Properties *)

\* Type invariant: tasks are at a guard of one of their operations, and only
\* writers wait.
Places ==
  [op : DOMAIN Program \cup {"none"}, step : Nat, phase : {"idle", "asks", "has"}]
TypeOK ==
  /\ at \in [Tasks -> Places]
  /\ \A t \in Tasks :
       \/ at[t] = Idle
       \/ /\ at[t].op \in Ops[t] /\ at[t].phase \in {"asks", "has"}
          /\ at[t].step \in 1 .. Len(Program[at[t].op])
  /\ queued \in SUBSET {t \in Tasks : Asks(t) /\ Current(t).guard.mode = "write"}

\* t reads a lock it already holds for reading.
Rereads(t) == Asks(t) /\ Current(t).guard.mode = "read" /\ Current(t).guard \in Held(t)

\* Nobody in S gets on: each waits for another one of S (or for itself).
Deadlocked(S) == S # {} /\ \A t \in S : \E u \in S : Blocks(u, t)

\* The daemon takes its locks in one order (network, transport, io), so that only
\* one thing can bring it to a halt: a task that reads the network state or the IO
\* socket a second time (state.rs:104-110, io/socket.rs:87-92, 101-112,
\* uipd.rs:108-114)
\* while a writer of the same lock waits, and it stops with that writer.
DeadlockOnlyByReentry ==
  \A S \in SUBSET {t \in Tasks : Asks(t)} : Deadlocked(S) =>
    \E t, u \in S :
      /\ Rereads(t) /\ Current(t).guard.lock \in {"network", "io"}
      /\ u \in queued /\ Current(u).guard.lock = Current(t).guard.lock
=============================================================================
