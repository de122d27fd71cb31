\* Commits, a handset that may fall silent, and the unlucky tick.
CONSTANTS
  NonceRange = 4
  FhssRange = 4
  SequenceCount = 3
  HopTable <- PaddedThree
  HopInterval = 2
  Denoms = {1, 2}
  SyncSpamAmount = 1
  SyncSpamAfter = 1
  MaxCommitTicks = 3
  Stale = {TRUE, FALSE}
SPECIFICATION StormSpec
INVARIANT InStepUnlessLapsed
