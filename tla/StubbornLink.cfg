\* Losses, aborts, restarts of either end and rate changes; packages of two
\* sizes, and a message longer than the receiver's buffer.
CONSTANTS
  MaxMsg = 3
  MsgLen <- MixedLens
  MaxIndex = 5
  MaxWaits = {0, 2}
  Capacity = 3
  PayloadLens = {1, 2}
  TlmDenom = 2
SPECIFICATION FairSpec
INVARIANTS
  Integrity
  LinkInv
PROPERTY
  ImplementsChannel
  SenderGetsFree
