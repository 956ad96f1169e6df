----------------------- MODULE MCTransportConnection -----------------------
(* Bounds for model checking TransportConnection. *)
EXTENDS TransportConnection

MCSenders == {"client"}
=============================================================================
