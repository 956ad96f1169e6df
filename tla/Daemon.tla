------------------------------- MODULE Daemon -------------------------------
(***************************************************************************)
(* Lives of uipd (src/src/bin/uipd.rs): generating a configuration,        *)
(* starting from it, binding the control socket, stopping at Ctrl-C with   *)
(* the configuration written back, and crashing, over and over and several *)
(* at a time, on one configuration file.                                   *)
(*                                                                         *)
(* std::fs::write() truncates the file and then writes it.  The control    *)
(* socket is a file that its name in the configuration stands for; the     *)
(* name contains the identifier, so that there is one for each identity.   *)
(* Whoever drops a UnixState removes that file, and a crash leaves it.     *)
(***************************************************************************)
EXTENDS FiniteSets

CONSTANTS
  Procs,  \* processes; the identity a process generates is called like it
  Old,    \* the identity of an earlier configuration
  Peers,  \* whose information the daemon may come to know
  None, Empty, Torn  \* no process or file; an empty file; one of two pieces

ASSUME DaemonAssumption ==
  /\ None \notin Procs /\ Old \notin Procs /\ None # Empty /\ None # Torn /\ Empty # Torn
  /\ {None, Empty, Torn} \cap [id : Procs \cup {Old}, known : SUBSET Peers] = {}

VARIABLES
  disk,    \* the configuration file: a Config, None, Empty or Torn
  socket,  \* the process that bound the control socket of an identity, or None
  phase,   \* "new", "up", "saving", "open", "saved", "done", "failed", "dead"
  control, \* "none": no UnixState; "unbound", "bound", "refused"
  memory,  \* the Configuration as the process knows it
  saving,  \* the Configuration it writes
  before,  \* history: the processes that had ended when this one started
  knew     \* history: the peers the process knew at Ctrl-C

history == <<before, knew>>
vars == <<disk, socket, phase, control, memory, saving, history>>

Ids == Procs \cup {Old}
Config == [id : Ids, known : SUBSET Peers]

Ended(p) == phase[p] \in {"done", "failed", "dead"}
Running(p) == ~ Ended(p) /\ phase[p] # "new"

Init ==
  /\ disk \in {None, [id |-> Old, known |-> {}]}
  /\ socket = [i \in Ids |-> None]
  /\ phase = [p \in Procs |-> "new"]
  /\ control = [p \in Procs |-> "none"]
  /\ memory = [p \in Procs |-> None]
  /\ saving = [p \in Procs |-> None]
  /\ before = [p \in Procs |-> {}] /\ knew = [p \in Procs |-> {}]

Goes(p, to) == phase' = [phase EXCEPT ![p] = to]
Starts(p) == phase[p] = "new" /\ before' = [before EXCEPT ![p] = {q \in Procs : Ended(q)}]

-----------------------------------------------------------------------------
(* Starting *)

\* uipd generate-config writes a new identity, whatever the file holds.
Generate(p) ==
  /\ Starts(p) /\ Goes(p, "saving")
  /\ LET new == [id |-> p, known |-> {}] IN
       /\ memory' = [memory EXCEPT ![p] = new]
       /\ saving' = [saving EXCEPT ![p] = new]
  /\ UNCHANGED <<disk, socket, control, knew>>

\* Mutant of Load: what cannot be read is not refused.
LoadAnything(p) ==
  /\ Starts(p) /\ Goes(p, "up")
  /\ memory' = [memory EXCEPT ![p] = disk]
  /\ control' = [control EXCEPT ![p] = "unbound"]
  /\ UNCHANGED <<disk, socket, saving, knew>>

\* read_configuration(), and the states made of it.
Load(p) ==
  /\ Starts(p) /\ disk \in Config /\ Goes(p, "up")
  /\ memory' = [memory EXCEPT ![p] = disk]
  /\ control' = [control EXCEPT ![p] = "unbound"]
  /\ UNCHANGED <<disk, socket, saving, knew>>

\* There is no file, or no configuration in it.
LoadFails(p) ==
  /\ Starts(p) /\ disk \notin Config /\ Goes(p, "failed")
  /\ UNCHANGED <<disk, socket, control, memory, saving, knew>>

-----------------------------------------------------------------------------
(* Running; the tasks go on until the process ends *)

\* Mutant of BindSocket: the file is removed first, whose ever it is.
BindSocketAnyway(p) ==
  /\ Running(p) /\ control[p] = "unbound"
  /\ socket' = [socket EXCEPT ![memory[p].id] = p]
  /\ control' = [control EXCEPT ![p] = "bound"]
  /\ UNCHANGED <<disk, phase, memory, saving, history>>

\* UnixListener::bind() fails if the file exists; the daemon runs on without.
BindSocket(p) ==
  /\ Running(p) /\ control[p] = "unbound"
  /\ \/ /\ socket[memory[p].id] = None
        /\ socket' = [socket EXCEPT ![memory[p].id] = p]
        /\ control' = [control EXCEPT ![p] = "bound"]
     \/ /\ socket[memory[p].id] # None
        /\ control' = [control EXCEPT ![p] = "refused"]
        /\ UNCHANGED socket
  /\ UNCHANGED <<disk, phase, memory, saving, history>>

\* pib.add_peer()
Learn(p, x) ==
  /\ Running(p) /\ control[p] # "none"
  /\ memory' = [memory EXCEPT ![p].known = @ \cup {x}]
  /\ UNCHANGED <<disk, socket, phase, control, saving, history>>

\* The process is killed.
Crash(p) ==
  /\ Running(p) /\ Goes(p, "dead")
  /\ UNCHANGED <<disk, socket, control, memory, saving, history>>

-----------------------------------------------------------------------------
(* Stopping *)

\* Mutant of Stop: with a new base, as generate_configuration() has it.
StopNewBase(p) ==
  /\ phase[p] = "up" /\ Goes(p, "saving")
  /\ saving' = [saving EXCEPT ![p] = [memory[p] EXCEPT !.known = {}]]
  /\ knew' = [knew EXCEPT ![p] = memory[p].known]
  /\ UNCHANGED <<disk, socket, control, memory, before>>

\* Ctrl-C: the configuration is put together from the states.
Stop(p) ==
  /\ phase[p] = "up" /\ Goes(p, "saving")
  /\ saving' = [saving EXCEPT ![p] = memory[p]]
  /\ knew' = [knew EXCEPT ![p] = memory[p].known]
  /\ UNCHANGED <<disk, socket, control, memory, before>>

Truncate(p) ==
  /\ phase[p] = "saving" /\ Goes(p, "open")
  /\ disk' = Empty
  /\ UNCHANGED <<socket, control, memory, saving, history>>

\* Mutant of Write: the data stays in a buffer that is dropped.
WriteUnflushed(p) ==
  /\ phase[p] = "open" /\ Goes(p, "saved")
  /\ UNCHANGED <<disk, socket, control, memory, saving, history>>

\* Over what another process wrote meanwhile, the end of that may stay.
Write(p) ==
  /\ phase[p] = "open" /\ Goes(p, "saved")
  /\ disk' \in {saving[p]} \cup (IF disk = Empty THEN {} ELSE {Torn})
  /\ UNCHANGED <<socket, control, memory, saving, history>>

\* An error of fs::write(), before or after it opened the file, is ignored.
WriteFails(p) ==
  /\ phase[p] \in {"saving", "open"} /\ Goes(p, "failed")
  /\ socket' = IF control[p] = "none" THEN socket ELSE [socket EXCEPT ![memory[p].id] = None]
  /\ UNCHANGED <<disk, control, memory, saving, history>>

\* Mutant of Leave: the file stays.
LeaveFile(p) ==
  /\ phase[p] = "saved" /\ Goes(p, "done")
  /\ UNCHANGED <<disk, socket, control, memory, saving, history>>

\* The states are dropped, and UnixState::drop() removes the control socket.
Leave(p) ==
  /\ phase[p] = "saved" /\ Goes(p, "done")
  /\ socket' = IF control[p] = "none" THEN socket ELSE [socket EXCEPT ![memory[p].id] = None]
  /\ UNCHANGED <<disk, control, memory, saving, history>>

Next ==
  \E p \in Procs :
    \/ Generate(p) \/ Load(p) \/ LoadFails(p)
    \/ BindSocket(p) \/ (\E x \in Peers : Learn(p, x)) \/ Crash(p)
    \/ Stop(p) \/ Truncate(p) \/ Write(p) \/ WriteFails(p) \/ Leave(p)

Spec == Init /\ [][Next]_vars

-----------------------------------------------------------------------------
(* Properties *)

\* Type invariant: a process has the configuration its phase calls for.
TypeOK ==
  /\ disk \in {None, Empty, Torn} \cup Config
  /\ socket \in [Ids -> Procs \cup {None}]
  /\ phase \in [Procs -> {"new", "up", "saving", "open", "saved", "done", "failed", "dead"}]
  /\ control \in [Procs -> {"none", "unbound", "bound", "refused"}]
  /\ memory \in [Procs -> Config \cup {None}] /\ saving \in [Procs -> Config \cup {None}]
  /\ \A p \in Procs :
       /\ control[p] # "none" \/ phase[p] \in {"up", "saving", "open", "saved", "done"} =>
            memory[p] \in Config
       /\ phase[p] \in {"saving", "open", "saved", "done"} => saving[p] \in Config
       /\ phase[p] = "up" => control[p] # "none"
  /\ before \in [Procs -> SUBSET Procs] /\ knew \in [Procs -> SUBSET Peers]

Daemon(p) == control[p] # "none"
Generator(p) == memory[p] # None /\ control[p] = "none"

\* The two were running at the same time.
Overlap(p, q) ==
  /\ p # q /\ phase[p] # "new" /\ phase[q] # "new"
  /\ p \notin before[q] /\ q \notin before[p]

\* What a daemon knew when it was stopped, and who it was, every later one
\* knows and is, unless another process ran at the same time or a new identity
\* was generated since.
Inherited ==
  \A q, p \in Procs :
    phase[q] = "done" /\ Daemon(q) /\ Daemon(p) /\ q \in before[p] =>
      \/ memory[p].id = saving[q].id /\ knew[q] \subseteq memory[p].known
      \/ \E r \in Procs : Overlap(r, q) \/ (Generator(r) /\ r \notin before[q])

\* The file cannot be read only while a process is writing it or after one died
\* or failed in doing so, or when two that ran at the same time wrote it.
Readable ==
  /\ disk = Empty =>
       \E p \in Procs : saving[p] # None /\ phase[p] \in {"open", "failed", "dead"}
  /\ disk = Torn =>
       \E p, q \in Procs : Overlap(p, q) /\ saving[p] # None /\ saving[q] # None

\* The socket file of a daemon that bound it stays its own as long as the daemon runs,
\* unless another daemon of its identity that ran at the same time has stopped and
\* removed the file (unix/state.rs:24-31).  Whether clients are still accepted behind
\* the file is a matter of UnixState.
Reachable ==
  \A p \in Procs :
    Running(p) /\ control[p] = "bound" =>
      \/ socket[memory[p].id] = p
      \/ \E q \in Procs : phase[q] \in {"done", "failed"} /\ Daemon(q) /\ Overlap(p, q) /\ memory[q].id = memory[p].id

\* A daemon is refused its control socket only if another one holds it at the
\* time, or crashed and no daemon of the identity was stopped since.
RefusedOnlyBehindCrash ==
  \A p \in Procs :
    control[p] = "refused" =>
      \E q \in Procs :
        /\ q # p /\ control[q] = "bound" /\ memory[q].id = memory[p].id
        /\ \/ Overlap(p, q)
           \/ phase[q] = "dead" /\ \A r \in before[p] :
                Daemon(r) /\ memory[r].id = memory[p].id /\ phase[r] # "dead" => q \notin before[r]
=============================================================================
