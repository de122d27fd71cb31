CONSTANTS
  NonceRange = 4
  FhssRange = 2
  SequenceCount = 2
  HopTable <- Short
  HopInterval = 2
  Denoms = {1, 2}
  SyncSpamAmount = 1
  SyncSpamAfter = 1
  MaxCommitTicks = 0
  Stale = {FALSE}
SPECIFICATION FairSpec
PROPERTY Acquires
