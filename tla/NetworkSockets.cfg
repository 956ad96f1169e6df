SPECIFICATION FairSpec
CONSTANTS
  a1 = a1
  s1 = s1
  s2 = s2
  s3 = s3
  None = None
  Addrs <- MCAddr
  Socks <- MCSocks
  AcceptCap = 1
  MaxLinks = 1
  MaxChanges = 3
  MaxUnserved = 1
  MayFail = TRUE
INVARIANTS
  TypeOK
  Reconciled
PROPERTIES
  IdleReleased
  NoticedUnlessLost
  EndSeen
CHECK_DEADLOCK FALSE
