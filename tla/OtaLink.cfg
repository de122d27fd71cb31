\* Losses on the air, and a connection that is lost and found again.
CONSTANTS
  NonceRange = 4
  FhssRange = 6
  SequenceCount = 3
  HopTable <- Padded
  HopInterval = 4
  Denoms = {1, 2, 4}
  SyncSpamAmount = 1
  SyncSpamAfter = 1
  MaxCommitTicks = 0
  Stale = {FALSE}
SPECIFICATION Spec
INVARIANTS OtaInv InStep
PROPERTY MeetAtHop TelemetryMeets
