-------------------------- MODULE MCNetworkSockets --------------------------
(* One address.  A socket is opened at most once per appearance of an  *)
(* address: three changes need at most two sockets, and one more whose *)
(* acceptor fails.                                                     *)
EXTENDS NetworkSockets

CONSTANTS a1, s1, s2, s3

MCAddr == {a1}
MCSocks == {s1, s2, s3}
=============================================================================
