---------------------------- MODULE MCSharedLock ----------------------------
(* One thread for each task of the daemon that takes locks: the rounds, the data
   loop of the socket, its accept and read task, main and a unix client.  Operations
   that take a single read guard are left to the proof. *)
EXTENDS SharedLock

MCTasks == {"run", "loop", "accept", "read", "main", "client"}
MCOps == [
  run |-> {"CloseStale", "MyPeerInformation", "Publish", "WriteNetwork"},
  loop |-> {"WriteNetwork", "GetConnection", "OpenConnection"},
  accept |-> {"Accept"},
  read |-> {"ForwardKnown", "ForwardNew"},
  main |-> {"SaveConfiguration"},
  client |-> {"WriteUnix"}]
=============================================================================
