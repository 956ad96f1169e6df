---------------------------- MODULE MCUnixState ----------------------------
(* Clients of one port: one binds it first, the other binds or just sends. *)
EXTENDS UnixState

CONSTANTS k1, k2, p1

MCOne == {k1}
MCTwo == {k1, k2}
MCPort == {p1}
=============================================================================
