\* A sync packet that comes while the commit is held.
CONSTANTS
  Params = {0, 1}
  MaxFrames = 1
  ReadOnly = {}
  QueueSize = 4
  PayloadUnits = 3
  MaxRequests = 3
SPECIFICATION Spec
PROPERTY ReplyGoesFirst
CHECK_DEADLOCK FALSE
