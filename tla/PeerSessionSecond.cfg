SPECIFICATION FairSpec
CONSTANTS
  a = a
  b = b
  c = c
  c1 = c1  c2 = c2  c3 = c3
  None = None
  Nodes <- Two
  Conns <- MCFewConns
  Talks <- OneWay
  MaxFrames = 2
  MaxRestarts = 0
  MaxRefused = 0
PROPERTIES
  SendReturns
CHECK_DEADLOCK FALSE
