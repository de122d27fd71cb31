-------------------------------- MODULE MCShared --------------------------------
(***************************************************************************)
(* What threads and cores share, and the machines that must come to rest,  *)
(* model-checked side by side like those of MCStructures: the uplink       *)
(* queue, the serial queue, the VTX administrator, the device framework,   *)
(* the output power.                                                       *)
(***************************************************************************)
EXTENDS UplinkQueue

CONSTANTS
  QueueSize, MaxWrite, SyncByte, Frames, FrameLen,          \* of the serial queue
  Devices, CoreOf, Events, Subscribes, TakenFirst,          \* of the devices
  MinPower, MaxPower, PrimaryLimit, Configurable            \* of the output power

VARIABLES
  component,
  guarded, waiting, needed, coming, written, sendingFrames, port, overfull,
  vtxSendState, sendEepromWrite, connectionState, band, vtxEvents,
  deviceTimeout, vtxPc, edited,
  at, semBegin, semComplete, setUp, initialized, started,
  eventFired, events, todo, trigger, owed, collided,
  power, primaryBand, config, modified, ModelUpdatePending, isArmed, linkState,
  dynpower_updated, powerAt, taken, start, headroom, quiet, meddled

\* A frame is as long as its number says; both devices ask for every event.
FrameNumber == [f \in {2, 3} |-> f]
OwnCore == [led |-> 0, vtx |-> 1]
EveryEvent == [led |-> {"a"}, vtx |-> {"a"}]

Q == INSTANCE SerialQueue WITH sending <- sendingFrames

V == INSTANCE VtxAdmin WITH TwoCores <- FALSE, pc <- vtxPc, eventFired <- vtxEvents

D == INSTANCE DeviceEvents

P == INSTANCE DynamicPower WITH at <- powerAt, connectionState <- linkState

ASSUME SharedAssumption ==
  Q!SerialAssumption /\ V!VtxAdminAssumption /\ D!DeviceAssumption /\ P!PowerAssumption

serialVars ==
  <<guarded, waiting, needed, coming, written, sendingFrames, port, overfull>>
vtxVars == <<vtxSendState, sendEepromWrite, connectionState, band, vtxEvents,
             deviceTimeout, vtxPc, edited>>
deviceVars == <<at, semBegin, semComplete, setUp, initialized, started,
                eventFired, events, todo, trigger, owed, collided>>
powerVars == <<power, primaryBand, config, modified, ModelUpdatePending, isArmed, linkState,
               dynpower_updated, powerAt, taken, start, headroom, quiet, meddled>>
sharedVars == <<component, vars, serialVars, vtxVars, deviceVars, powerVars>>

SharedInit ==
  /\ component \in {"uplink", "serial", "vtx", "devices", "power"}
  /\ Init /\ Q!Init /\ V!Init /\ D!Init /\ P!Init
  /\ component # "serial" => ~guarded /\ coming = CHOOSE f \in Frames : TRUE
  /\ component # "vtx" => band
  /\ component # "power" =>
       ~primaryBand /\ power = MinPower /\ config = CHOOSE c \in P!Configs : TRUE

Picked(name, Act, others) == component = name /\ Act /\ UNCHANGED <<component, others>>

Uplink(Act) == Picked("uplink", Act, <<serialVars, vtxVars, deviceVars, powerVars>>)
Serial(Act) == Picked("serial", Act, <<vars, vtxVars, deviceVars, powerVars>>)
Vtx(Act) == Picked("vtx", Act, <<vars, serialVars, deviceVars, powerVars>>)
OnDevices(Act) == Picked("devices", Act, <<vars, serialVars, vtxVars, powerVars>>)
Power(Act) == Picked("power", Act, <<vars, serialVars, vtxVars, deviceVars>>)

SharedNext ==
  Uplink(Next) \/ Serial(Q!Next) \/ Vtx(V!Next) \/ OnDevices(D!Next) \/ Power(P!Next)

\* The fairness of the FairSpec of each.
\* The component picked stays, so that fairness to actions of different ones may be
\* stated of their disjunction.
ThreadStep(t) == Uplink(Copy(t) \/ SetLength(t) \/ Enqueue(t))

SharedSpec ==
  /\ SharedInit /\ [][SharedNext]_sharedVars
  /\ SF_sharedVars(\/ Uplink(SendPart) \/ Serial(Q!SendQueuedData) \/ Vtx(V!Timeout)
                   \/ OnDevices(D!Startup))
  /\ SF_sharedVars(OnDevices(D!WakeUp))
  /\ \A c \in D!Cores : SF_sharedVars(OnDevices(D!Update(c)))
  /\ WF_sharedVars(\/ Uplink(PumpSender) \/ Serial(Q!SendFrame) \/ Vtx(V!ReadEvents)
                   \/ OnDevices(D!TriggerStep(0))
                   \/ Power(P!MainLoop))
  /\ WF_sharedVars(\/ Uplink(ResetLength) \/ Serial(Q!SendDone)
                   \/ Vtx(V!SkipEvent \/ V!Event) \/ OnDevices(D!TriggerStep(1)))
  /\ WF_sharedVars(ThreadStep("loop") \/ Serial(Q!DropOldest))
  /\ WF_sharedVars(ThreadStep("vtx") \/ Serial(Q!QueueFrame))

-------------------------------------------------------------------------------
\* The serial queue: frames leave whole; room is made and what waits is sent.
WholeFrames == Q!WholeFrames
PortIsServed == Q!PortIsServed

\* The VTX administrator comes to rest: no loop of EEPROM writes.
Settles == V!Settles

\* Devices on two cores: started in order, and every event reaches those that
\* ask for it, unless two threads change the flags at once.
InOrder == D!InOrder
EventsReachDevices == D!EventsReachDevices

\* The output power, of a transmitter with two cores: an armed aircraft keeps it, and
\* is called at full power when it does not answer.
FliesAtItsPower == P!FliesAtItsPower
FullPowerUnheard == P!FullPowerUnheard
===============================================================================
