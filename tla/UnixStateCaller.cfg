SPECIFICATION FairSpec
CONSTANTS
  k1 = k1
  k2 = k2
  p1 = p1
  None = None
  Clients <- MCTwo
  Listeners <- MCOne
  Ports <- MCPort
  QueueCap = 1
  PumpCap = 1
  SocketCap = 2
  MaxData = 1
  MaxFrames = 3
PROPERTY AllForwarded
CHECK_DEADLOCK FALSE
