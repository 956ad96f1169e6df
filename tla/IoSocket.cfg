CONSTANTS
  r1 = r1  r2 = r2
  c1 = c1  c2 = c2  c3 = c3
  None = None
  Remotes <- MCRemotes
  Conns <- MCConns
  ChanCap = 1
  AcceptCap = 1
  MaxArrivals = 2
SPECIFICATION TSpec
INVARIANTS
  TypeOK
  AcceptedOnce
  AcceptedHasFirstDatagram
  CutOffOnlyWhenReplaced
  ConnectWinsUnlessRaced
PROPERTIES
  RefinesDemux
  ReadTaskReturns
CHECK_DEADLOCK FALSE
