-------------------------- MODULE MCPeerInformation --------------------------
(* A daemon p that gets a second address and may lose both, and its relay r, which
   knows p's first address and may lose its own.  Either r asks p about a third
   daemon o, whose relay p is; or p asks r about a fourth, q, and sends a frame to q
   at what is r's address. *)
EXTENDS PeerInformation

CONSTANTS p, o, q, r, p1, p2, r1

MCNodes == {p, o, q, r}
MCAddrs == {p1, p2, r1}
MCOwner == [a \in MCAddrs |-> IF a = r1 THEN r ELSE p]
MCRelay == [n \in MCNodes |-> CASE n = r -> None [] n = o -> p [] OTHER -> r]
MCKnown == [n \in MCNodes |-> [m \in MCNodes |->
  CASE n = p /\ m \in {q, r} -> {r1} [] n = r /\ m = p -> {p1}
    [] <<n, m>> \in {<<p, o>>, <<r, o>>, <<r, q>>} -> {} [] OTHER -> None]]
MCFirst == {p1, r1}
MCRounds(n) == [m \in MCNodes |-> IF m = n THEN 1 ELSE 0]
MCPlans ==
  {[change |-> MCRounds(n), talk |-> {}, ask |-> {<<r, o>>}, lose |-> 1] : n \in {p, r}}
  \cup {[change |-> MCRounds(p), talk |-> {<<p, q>>}, ask |-> {<<p, q>>}, lose |-> 0]}
=============================================================================
