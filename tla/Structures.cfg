\* FIFO, link quality, hop sequence, MSP chunks, start-up counter, error correction,
\* telemetry queue, parameters of receiver and transmitter, the handset's page of them,
\* one at a time.
CONSTANTS
  FifoSize = 4
  Byte = 2
  Periods = 7
  WordBits = 3
  FreqCount = 4
  SequenceLen = 9
  SyncChannel = 2
  HopInterval = 2
  Window = 11
  MspLength <- ShortToLong
  ChunkLen = 2
  MaxLength = 6
  SeqRange = 4
  Kinds = {"battery", "info", "ping", "msp"}
  Replaceable = {"battery", "info"}
  Prioritised = {"info", "ping"}
  Sizes = {1, 2}
  TelemetrySize = 9
  CountRange = 4
  MaxForwards = 5
  RxParams = {0, 1, 2}
  ReadOnly = {2}
  QueueSize = 4
  PayloadUnits = 3
  MaxRequests = 2
  TxFrames = 4
  MaxWrites = 3
  Chunks <- TwoThree
  StatusChunks <- OneOrTwo
  MaxOnWay = 2
  MaxLosses = 2
SPECIFICATION FairSpec
INVARIANTS
  SequenceServes
  BurstsRepaired
  ToldWhatChanged
  PageIsTrue
PROPERTIES
  ImplementsQueueAndWindow
  PageLoads
  ChunksJoin
  OnlyAfterPlugs
  ImplementsMailbox
  OnlyNewDriverLoses
CHECK_DEADLOCK FALSE
