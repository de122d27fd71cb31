\* Uplink queue on one core, serial queue, VTX administrator, devices and output power on two cores.
CONSTANTS
  TwoCores = FALSE
  QueueLength = 2
  MaxForwards = 5
  QueueSize = 8
  MaxWrite = 8
  SyncByte = 8
  Frames = {2, 3}
  FrameLen <- FrameNumber
  Devices = {"led", "vtx"}
  CoreOf <- OwnCore
  Events = {"a"}
  Subscribes <- EveryEvent
  TakenFirst = TRUE
  MinPower = 0
  MaxPower = 2
  PrimaryLimit = 1
  Configurable = {1, 3}
SPECIFICATION SharedSpec
INVARIANTS
  Delivers
  WholeFrames
  InOrder
PROPERTIES
  QueueDrains
  PortIsServed
  Settles
  EventsReachDevices
  FliesAtItsPower
  FullPowerUnheard
