SPECIFICATION FairSpec
CONSTANTS
  ReadTimeout = 4
  PingInterval = 3
  SinkCap = 1
  UpCap = 1
  LinkCap = 1
  MaxSkew = 1
  Senders <- MCSenders
  MaxData = 2
  MaxLoss = 1
INVARIANTS
  TypeOK
  HealthyNeverTimesOut
  OneLossTolerated
PROPERTIES
  NoneSurvives
