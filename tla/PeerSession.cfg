SPECIFICATION Spec
CONSTANTS
  a = a
  b = b
  c = c
  c1 = c1  c2 = c2  c3 = c3
  None = None
  Nodes <- Two
  Conns <- MCConns
  Talks <- BothWays
  MaxFrames = 2
  MaxRestarts = 1
  MaxRefused = 1
INVARIANTS
  TypeOK
  DeliveredOnce
  InboundReachable
SYMMETRY Alike
CHECK_DEADLOCK FALSE
