---------------------------- MODULE MCIoSocket ----------------------------
(* TLC instance of IoSocket with its accept task: two remotes, three connection objects. *)
EXTENDS AcceptTask

CONSTANTS r1, r2, c1, c2, c3

MCRemotes == {r1, r2}
MCConns == {c1, c2, c3}
=============================================================================
