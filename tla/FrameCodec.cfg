SPECIFICATION CodecSpec
CONSTANTS
  LengthMod = 4
  Bytes <- MCBytes
  MaxLength = 4
  MaxFrames = 2
INVARIANTS
  PrefixDecoded
  AllDecoded
  OnlyCutFrameFails
CHECK_DEADLOCK FALSE
