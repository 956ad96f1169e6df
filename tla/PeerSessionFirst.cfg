SPECIFICATION FairSpec
CONSTANTS
  a = a
  b = b
  c = c
  c1 = c1  c2 = c2  c3 = c3
  None = None
  Nodes <- Three
  Conns <- MCFewConns
  Talks <- Callers
  MaxFrames = 1
  MaxRestarts = 0
  MaxRefused = 0
PROPERTIES
  Delivery
CHECK_DEADLOCK FALSE
