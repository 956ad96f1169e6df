---------------------------- MODULE MCFrameCodec ----------------------------
(* Payload bytes that look like frame types, and a length field of two bits. *)
EXTENDS FrameCodec

MCBytes == {1, 3}
=============================================================================
