SPECIFICATION FairSpec
CONSTANTS
  p = p
  o = o
  q = q
  r = r
  p1 = p1
  p2 = p2
  r1 = r1
  None = None
  Nodes <- MCNodes
  Addrs <- MCAddrs
  Owner <- MCOwner
  Relay <- MCRelay
  Known <- MCKnown
  First <- MCFirst
  Plans <- MCPlans
INVARIANT TypeOK
PROPERTIES
  RelayInformed
  FirstHand
  LoopCallsOnlyUntabled
CHECK_DEADLOCK FALSE
