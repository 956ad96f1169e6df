----------------------------- MODULE FrameCodec -----------------------------
(***************************************************************************)
(* The two codecs of the daemon between a FramedWrite and a FramedRead:    *)
(* frames are encoded to bytes, the bytes arrive in pieces that need not   *)
(* end at a frame, and are decoded.                                        *)
(*                                                                         *)
(* "transport" (src/src/network/transport/codec.rs): a data frame has a    *)
(* header of its type and its length, which is written modulo LengthMod;   *)
(* the ports, which are copied, are left out, so that it has 2 bytes here  *)
(* and 7 in the code.  A frame that is not complete is waited for.         *)
(*                                                                         *)
(* "unix" (src/src/unix/codec.rs): MessagePack, which marks the variant    *)
(* and writes lengths of any size (one symbol here).  A frame that is not  *)
(* complete is an error; one that is, is encoded again to know its length. *)
(***************************************************************************)
EXTENDS Naturals, Sequences

CONSTANTS
  LengthMod,  \* 2^16: the length field is a u16
  Bytes,      \* the bytes a payload may hold
  MaxLength,  \* bound on the length of a payload
  MaxFrames   \* bound on the number of frames

ASSUME CodecAssumption ==
  /\ LengthMod \in Nat \ {0} /\ Bytes \subseteq Nat
  /\ MaxLength \in Nat /\ MaxFrames \in Nat

VARIABLES
  codec,    \* the codec at both ends of the stream: "transport" or "unix"
  encoded,  \* history: the frames given to the encoder
  wire,     \* encoded, not received yet
  buffer,   \* FramedRead's buffer: received, not decoded yet
  decoded,  \* the frames the decoder returned
  reading   \* "yes" until the decoder returns an error

codecVars == <<codec, encoded, wire, buffer, decoded, reading>>

HeaderLength == 2
Payloads == UNION {[1 .. n -> Bytes] : n \in 0 .. MaxLength}
Frames ==
  [transport |-> [type : {"ping", "pong"}] \cup [type : {"data"}, data : Payloads],
   unix |-> [type : {"bind", "error"}, data : {<<>>}] \cup [type : {"data"}, data : Payloads]]

\* Mutant of encode: the length counts the header.
encodeWhole(frame) ==
  IF frame.type = "ping" THEN <<1>>
  ELSE IF frame.type = "pong" THEN <<2>>
  ELSE <<3, (HeaderLength + Len(frame.data)) % LengthMod>> \o frame.data

encode(frame) ==
  IF frame.type = "ping" THEN <<1>>
  ELSE IF frame.type = "pong" THEN <<2>>
  ELSE <<3, Len(frame.data) % LengthMod>> \o frame.data

Incomplete == [result |-> "none"]
Invalid == [result |-> "error"]
Decoded(frame, rest) == [result |-> "frame", frame |-> frame, rest |-> rest]

\* src starts with a data frame whose payload has n bytes.
DataDecoded(src, n) ==
  Decoded([type |-> "data", data |-> SubSeq(src, HeaderLength + 1, HeaderLength + n)],
          SubSeq(src, HeaderLength + n + 1, Len(src)))

\* Mutant of decode: one byte more than the frame is waited for.
decodeLate(src) ==
  IF src = <<>> THEN Incomplete
  ELSE IF src[1] \in {1, 2} THEN Decoded([type |-> <<"ping", "pong">>[src[1]]], Tail(src))
  ELSE IF src[1] # 3 THEN Invalid
  ELSE IF Len(src) < HeaderLength \/ Len(src) <= HeaderLength + src[HeaderLength] THEN Incomplete
  ELSE DataDecoded(src, src[HeaderLength])

decode(src) ==
  IF src = <<>> THEN Incomplete
  ELSE IF src[1] \in {1, 2} THEN Decoded([type |-> <<"ping", "pong">>[src[1]]], Tail(src))
  ELSE IF src[1] # 3 THEN Invalid
  ELSE IF Len(src) < HeaderLength \/ Len(src) < HeaderLength + src[HeaderLength] THEN Incomplete
  ELSE DataDecoded(src, src[HeaderLength])

\* Encoder of the unix codec: the variant, its length, its payload.  The port of
\* a Bind and the code of an Error are the second symbol, which is 0 here.
UnixTypes == <<"bind", "error", "data">>
unixEncode(frame) ==
  LET variant == CHOOSE i \in 1 .. 3 : UnixTypes[i] = frame.type
  IN  <<variant, Len(frame.data)>> \o frame.data

\* from_slice(): src starts with a whole frame.
Whole(src) == src[1] \in 1 .. 3 /\ Len(src) >= HeaderLength + src[HeaderLength]
UnixFrame(src) ==
  [type |-> UnixTypes[src[1]],
   data |-> SubSeq(src, HeaderLength + 1, HeaderLength + src[HeaderLength])]

\* Mutant of unixDecode: the header is not skipped.
unixDecodeNoHeader(src) ==
  IF src = <<>> THEN Incomplete
  ELSE IF Len(src) < HeaderLength \/ ~ Whole(src) THEN Invalid
  ELSE Decoded(UnixFrame(src), SubSeq(src, Len(UnixFrame(src).data) + 1, Len(src)))

unixDecode(src) ==
  IF src = <<>> THEN Incomplete
  ELSE IF Len(src) < HeaderLength \/ ~ Whole(src) THEN Invalid
  ELSE Decoded(UnixFrame(src), SubSeq(src, Len(unixEncode(UnixFrame(src))) + 1, Len(src)))

Encoding(frame) == IF codec = "unix" THEN unixEncode(frame) ELSE encode(frame)
Decoding(src) == IF codec = "unix" THEN unixDecode(src) ELSE decode(src)

-----------------------------------------------------------------------------

CodecInit ==
  /\ codec \in {"transport", "unix"}
  /\ encoded = <<>> /\ wire = <<>> /\ buffer = <<>> /\ decoded = <<>> /\ reading = "yes"

Encode ==
  /\ Len(encoded) < MaxFrames
  /\ \E frame \in Frames[codec] :
       /\ encoded' = Append(encoded, frame)
       /\ wire' = wire \o Encoding(frame)
  /\ UNCHANGED <<codec, buffer, decoded, reading>>

\* FramedRead reads once the decoder asks for more.
Receive ==
  /\ reading = "yes" /\ Decoding(buffer).result = "none"
  /\ \E n \in 1 .. Len(wire) :
       /\ buffer' = buffer \o SubSeq(wire, 1, n)
       /\ wire' = SubSeq(wire, n + 1, Len(wire))
  /\ UNCHANGED <<codec, encoded, decoded, reading>>

Decode ==
  /\ reading = "yes"
  /\ LET d == Decoding(buffer) IN
       \/ /\ d.result = "frame"
          /\ decoded' = Append(decoded, d.frame)
          /\ buffer' = d.rest
          /\ UNCHANGED reading
       \/ /\ d.result = "error"
          /\ reading' = "no"
          /\ UNCHANGED <<buffer, decoded>>
  /\ UNCHANGED <<codec, encoded, wire>>

CodecNext == Encode \/ Receive \/ Decode
CodecSpec == CodecInit /\ [][CodecNext]_codecVars

-----------------------------------------------------------------------------
(* Properties *)

\* A frame the length field cannot express: it is written truncated.
Oversized(frame) ==
  codec = "transport" /\ frame.type = "data" /\ Len(frame.data) >= LengthMod
Faultless == \A i \in 1 .. Len(encoded) : ~ Oversized(encoded[i])

\* However the bytes are cut, the frames before the first oversized one come
\* out as they went in (transport/codec.rs:35-67, unix/codec.rs:27-45).
PrefixDecoded ==
  \A i \in 1 .. Len(decoded) :
    (\A j \in 1 .. i : j <= Len(encoded) => ~ Oversized(encoded[j])) =>
      i <= Len(encoded) /\ decoded[i] = encoded[i]

\* Nothing is kept back: when every byte was received and the decoder asks for
\* more, all frames have come out.
AllDecoded ==
  Faultless /\ reading = "yes" /\ wire = <<>> /\ Decoding(buffer).result = "none" =>
    decoded = encoded

\* Reading ends with an error for one reason only, besides an oversized frame:
\* the unix codec got a frame in two pieces (unix/codec.rs:32).  Then the buffer
\* holds the first piece of the frame that was next.
OnlyCutFrameFails ==
  Faultless /\ reading = "no" =>
    /\ codec = "unix" /\ Len(decoded) < Len(encoded)
    /\ LET next == Encoding(encoded[Len(decoded) + 1]) IN
         Len(buffer) < Len(next) /\ buffer = SubSeq(next, 1, Len(buffer))
=============================================================================
