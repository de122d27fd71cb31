SPECIFICATION FairSpec
CONSTANTS
  Rates = {0, 1}
  BindRate = 1
  CycleInterval <- CycleIntervalDef
  RxLockTimeout = 1
  Disconnect = 1
  Slow = 2
  MinLqForChaos = 2
  Administered = FALSE
  LockOnFirst = TRUE
  MaxPass = 1
INVARIANTS
  ConnectedIsReal
PROPERTIES
  ListensAgain
  SilenceIsNoticed
