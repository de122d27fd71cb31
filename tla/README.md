# TitanLRS: TLA+ models and proofs

TitanLRS is the firmware of a radio-control link. A transmitter module (TX)
takes stick positions from a handset and sends one packet per time slot to a
receiver (RX), which drives servos or a flight controller; both hop over the
same pseudo-random channel sequence, and telemetry comes back in some of the
slots. This directory holds models of the parts of it where the ordering of
interrupts, main loops, cores and lost packets decides whether the code is
right, the TLC configurations that check them on small instances, and proofs
checked by TLAPS for every value of the constants. Paths below are relative to
`src/src/` in the repository (`lib/...`, `src/tx_main.cpp`, `src/rx_main.cpp`).

1. [Inventory](#1-inventory)
2. [Modules](#2-modules)
3. [Runs](#3-runs)
4. [Proofs](#4-proofs)
5. [What the models found](#5-what-the-models-found)
6. [What is not modelled](#6-what-is-not-modelled)
7. [Plan](#7-plan)

To check: `tlc -config OtaLink.cfg MCOtaLink.tla` (and so on, see the table of
runs), `tlapm Ota_proofs.tla`.

## 1. Inventory

### The slot clock: TX and RX RF loops

* **State (TX)**: the slot counter `OtaNonce` (a byte), the hop index
  `FHSSptr`, the tuned channel, `TelemetryRcvPhase`, `busyTransmitting`,
  `commitInProgress`, the counters that force sync packets
  (`syncSpamCounter`, `syncSpamCounterAfterRateChange`, `syncSlot`), the
  telemetry ratio and its boost.
* **State (RX)**: its own `OtaNonce`, `FHSSptr` and channel, `connectionState`,
  whether the timer runs, the telemetry ratio, `alreadyTLMresp`.
* **Operations**: `timerCallback` (TX timer interrupt), `TXdoneISR` (TX radio
  interrupt), `HWtimerCallbackTick/Tock` (RX timer interrupt), `RXdoneISR` ->
  `ProcessRFPacket` (RX radio interrupt), `CheckConfigChangePending` and
  `ModelUpdateReq`/`SetSyncSpam` (TX main loop), `LostConnection`,
  `GotConnection` (RX main loop).
* **Interaction**: only by packets. A sync packet carries nonce, hop index and
  telemetry ratio; any other packet is accepted only if its CRC, which is
  salted with the nonce, matches. Interrupts and main loops of one end share
  the variables above without locks.
* **Hard**: the TX decides to hop and to turn to receive at the end of a
  transmission, for the *next* slot, with the old nonce; the RX decides at its
  tock, with the new one. A slot may carry nothing (telemetry slot, silent
  handset, commit in progress). The RX must hop by its own count through any
  number of lost packets. `LostConnection` in the main loop changes four
  variables one at a time while both interrupts go on.
* **Correct when**: a receiver that follows has the transmitter's slot count
  and place in the hop sequence; every hop lands on the transmitter's channel;
  one end listens when the other sends telemetry; a receiver that has lost the
  link finds it again.

### The receiver's timer: phase lock

* **State**: the last tock's and packet's time (`lib/PFD/PFD.h`), two
  fixed-point low-pass filters (`include/LowPassFilter.h`), the hardware
  timer's phase shift, for one half period, and frequency offset, for all
  (`lib/HWTIMER/ESP32_hwTimer.cpp`).
* **Operations**: `updatePhaseLock` at each tock; `TentativeConnection`, `LostConnection`,
  and the two conditions on the filters in `loop()`, for "connected" and for
  "locked".
* **Hard**: two integer loops on one measurement, of which one stops when the
  connection is lost and the other when nothing is heard; gaps of over a second
  with no measurement at all.
* **Correct when**: it comes to rest near the packets, and a locked receiver is
  carried through a gap by what it learnt.

### Connection state machines and binding

* **RX** (`src/rx_main.cpp`): disconnected, tentative, connected; time-outs of
  each; `cycleRfMode` through the rates, with the link quality that rules out
  chance (`minLqForChaos`); binding mode, asked for by a button, a command, the
  power-on counter or the lack of a UID; loans; a configuration that any
  interrupt modifies and the main loop saves. *Hard*: `LostConnection` waits
  for a tock with interrupts on; `now` is read at the top of `loop()` and time
  stamps are written by interrupts after it; each path that stops the radio
  relies on a later one to start it.
* **TX** (`src/tx_main.cpp`): no handset, awaiting model id, disconnected,
  connected; changes of rate by handset, model, parameter and binding, which
  come into force after enough sync packets have named the new rate; binding
  mode. *Hard*: sync and data packets count in the timer interrupt what the main
  loop arms and reads.
* **Three plugs** (`setupConfigAndPocCheck`): a bound receiver counts its starts
  in EEPROM. *Hard*: power goes at any time.

### What the receiver puts out

* **Switch modes and channels** (`src/rx_main.cpp`, `lib/OTA/OTA.cpp`): what a
  packet means depends on a mode that sync packets name and the main loop
  adopts after two of the same; a set of four channels arrives at a time.
* **Servos** (`lib/ServoOutput/devServoOutput.cpp`): follow, fail safe at once
  when disconnected, or after an absolute time-out.
* **Flight controller** (`src/rx-serial/devSerialIO.cpp`): frames go out when
  channels are complete, the model matches and the team race selects it.
* **Serial queue** (`src/rx-serial/SerialIO.cpp`, `SerialCRSF.cpp`): frames with
  their length in front in a byte FIFO, filled by several producers.
* *Correct when*: nothing from an old mode or an old connection goes out,
  fail-safe comes, whole frames leave.

### The stubborn link: `StubbornSender`, `StubbornReceiver`

* **State**: sender state machine (idle, resync, sending, wait for confirm),
  current offset and package number, size of the last package, wait counters;
  receiver's buffer, offset, expected package number, confirm bit, finished
  flag.
* **Operations**: `SetDataToTransmit`, `GetCurrentPayload`,
  `ConfirmCurrentPayload`, `UpdateTelemetryRate`, `ReceiveData`, `Unlock`,
  `HasFinishedData`, `ResetState`/`setMaxPackageIndex`.
* **Interaction**: the sender's main loop hands messages over when the sender
  is idle (telemetry) or at any time (an abort); radio interrupts read
  packages out of the caller's buffer and bring acknowledge bits; the
  receiver's main loop takes finished messages.
* **Hard**: a one-bit acknowledgement over a link that loses either direction;
  resynchronisation after a time-out or an abort; restarts of one end; the
  payload size that differs from call to call.
* **Correct when**: what is handed over was queued, in order and none twice; it is
  whole whatever was lost, but for two causes that spoil one message each, see
  section 5; and the sender always becomes free again.

### Queues in front of it

* **Telemetry queue of the RX** (`lib/rx-crsf/RXOTAConnector.cpp`): a byte FIFO
  of frames; a newer reading overwrites a waiting one; some types go first,
  found by a search that a counter guards. `forwardMessage` runs in whatever
  thread brings a message, `GetNextPayload` in the main loop; on two cores a
  mutex makes each atomic. *Correct when* it drops only what a newer reading
  replaces or what there is no room for, and keeps the order of the rest.
* **Uplink queue of the TX** (`lib/tx-crsf/TXOTAConnector.cpp`): one buffer the
  sender reads from, and a FIFO behind it. `forwardMessage` runs in the main
  loop (handset) and in the device task (VTX administrator), `pumpSender` in
  the main loop, `resetOutputQueue` in the device task. Only FIFO accesses are
  locked. *Correct when* each accepted message arrives whole, once and in
  order, unless it is dropped for room or cleared.

### VTX administrator and device framework

* **VTX administrator** (`lib/VTX/devVTX.cpp`): `VtxSendState`,
  `sendEepromWrite`; `event()`, `timeout()`, `VtxTriggerSend`,
  `VtxPitmodeSwitchUpdate`. *Hard*: it must neither miss an edit nor loop
  through connect, send, EEPROM write and disconnect.
* **Device framework** (`lib/DEVICE/device.cpp`): event flags per core, one
  timeout per device, a task on the other core. *Hard*: flags are set, read and
  cleared on two cores without a lock; a semaphore serves both the start-up
  interlock and the wake-up.

### MAVLink parameters

* **Server** (`lib/MAVLinkParams/MavParamServer.cpp`), one on each end: a ground
  station reads and writes settings. One slot for each kind of answer, a bit
  for each value to be sent, one pending reply to a write with the values before
  it (`snapshot_`); `handleGcsMessage`, `tick`.
* **Transmitter** (`src/tx_mavlink.cpp`): writes applied by functions that are
  deferred (`src/rxtx_common.cpp`, three slots for the whole firmware), a reply
  after 100 ms. *Hard*: a second write before the reply to the first.
* **Receiver** (`src/rx-serial/rx_mavlink.cpp`, `SerialMavlink.cpp`): answers go
  into the queue of the flight controller's frames; a commit of the
  configuration drops the link and is held for the reply. *Hard*: the radio interrupt
  reads the same "modified" flag while it is held.
* *Correct when*: once nothing waits, the ground station knows each setting as it is.

### Output power

* **State**: `POWERMGNT`'s level, the model's configured level and whether it is
  dynamic, `isArmed`, what the radio interrupt has left in `dynpower_updated`.
* **Operations**: `DynamicPower_Update` in the main loop, `ResetPower` when
  parameters change, the motion sensor, the power button.
* **Hard**: the interrupt's report is read and cleared in two steps; six paths set
  the power, of which some look at `isArmed` first, on two cores.
* *Correct when*: an armed aircraft's power falls for a reading only, and it is called at
  full power when it does not answer.

### The page of parameters

* **Handset** (`lua/elrs.lua`): a stack of fields to load (`loadQ`), the field that is
  being put together (`fieldChunk`, `fieldData`, `expectChunksRemain`), the
  pop-up of a command.
* **Device** (`lib/CrsfProtocol/CRSFEndpoint.cpp`): sends a field in chunks;
  keeps a command's step and the next chunk of its status.
* **Hard**: requests and answers get lost or come twice, and an answer carries only
  its field and how many chunks remain; a command's status shares both with the page.
* *Correct when*: each field is made of its own chunks, and the page is loaded to its end.

### Structures and algorithms

| Part | Where | State and hazards |
|---|---|---|
| FIFO | `lib/FIFO/FIFO.h` | ring indices and count; full, empty, end of the ring |
| LQCALC | `lib/LQCALC/LQCALC.h` | sliding bit window in words; wrap at N |
| FHSS tables | `lib/FHSS/FHSS.cpp` | shuffled blocks, each starting at the sync channel |
| CRSF2MSP | `lib/CRSF2MSP` | chunks with a four-bit sequence number |
| FEC | `lib/FEC` | Hamming(7,4), bits interleaved over the packet |

### Other parts

| Part | Where | State and hazards |
|---|---|---|
| LBT | `lib/LBT/LBT.cpp` | clear-channel check before sending |
| CONFIG | `lib/CONFIG/config.cpp` | modified flags, commit to flash |
| CRSF parser, router | `lib/CrsfProtocol` | byte parser, routes |
| MAVLink | `lib/MAVLink` | framing |
| Handset | `lib/Handset` | half-duplex UART, baud detection |
| Deferred functions | `src/rxtx_common.cpp` | a table shared by interrupts and loop |
| Radio drivers, PWM, WiFi, BLE, screen, LEDs, sensors | `lib/*` | hardware and user interface |

`PROJECT.json` lists them all with their status.

## 2. Modules

Conventions: variables keep the names of the code (with `tx`/`rx` in front
where both ends have one). A comment marks the few operators that are *mutants*:
plausible mistakes, not part of any specification, with which the properties
are tested.

### Stubborn link

| Module | Models |
|---|---|
| `StubbornPackage` | what both halves agree on: packages, padding |
| `StubbornSender` | `lib/StubbornSender`; one operator per method |
| `StubbornReceiver` | `lib/StubbornReceiver`; one per branch of `ReceiveData` |
| `StubbornLink` | the two, a slotted half-duplex radio, both main loops |
| `MessageChannel` | the abstract promise: queued messages taken once, in order |
| `StubbornLink_proofs` | proofs |
| `MCStubbornLink` | message lengths for TLC |

A message is a number and its byte at `p` is `<<m, p>>`, so a receiver's buffer
shows exactly which bytes of which message it holds. A package takes
`TlmDenom`-th slots, the other slots carry the acknowledge bit the other way.
Both packages and acknowledgements may be lost. `QueueMessage` may abort a
transfer in progress, as the code allows. Each package is sent in any of `PayloadLens`, as
LINKSTATS and DATA packets alternate within one transfer on the downlink (`rx_main.cpp`, 517-572).
`ReceiverReboot`, `SenderReboot` and `PacketSizeChanged` restart one or both ends.
Two causes spoil a message, and a history variable, `spoiled`, notes them: the sender
restarts in its midst, or repeats a package in another size although the receiver has
taken it (`SendPackage`), so that `bytesLastPayload` is that of another copy. It is cleared
when the receiver begins a message anew. `Integrity` says that nothing else spoils one; that what
is handed over was queued, once and in order, holds without exception (`ImplementsChannel`).

### Slot clock

| Module | Models |
|---|---|
| `Fhss` | hop index, sync channel, the slots that hop and that carry telemetry |
| `OtaTransmitter` | timer interrupt, TXdone, choice of packet, commit of a configuration |
| `OtaReceiver` | tick/tock, sync packets, `GotConnection`, `LostConnection` step by step |
| `OtaLink` | one slot as timer, air, sent, tock; both main loops in between |
| `OtaCommit` | the same with commits of the configuration and a silent handset; its hop table for TLC |
| `Ota_proofs` | proofs about `OtaLink` and `OtaCommit` |
| `MCOtaLink` | hop tables for TLC |
| `PhaseLock` | the receiver's timer against the transmitter's, in microseconds and ticks |

In `OtaLink` a slot is four steps (`turn`): the TX timer interrupt puts a packet on the air
or none; it is heard or missed; TXdone; the RX tock. That this order holds is
what `PhaseLock` is about. Main-loop actions of both ends may come
between any two of these. `Stale` says whether the handset may fall silent
(then `SendRCdataToRF` sends nothing and there is no TXdone). A team race may mute the receiver's
telemetry (`teamraceHasModelMatch`) or let it speak again at any moment (`RxSelects`);
`RxOutputs` has what selects it.
`CheckConfigChangePending` is five steps, between any two of which a timer
interrupt may fall. `OtaCommit` adds a history variable, `lapsed`: since the
receiver began to follow, the handset was silent in a slot to be sent in
(`Silence`), the timer interrupt fell between the last read of
`busyTransmitting` and the store to `commitInProgress` (`UnclaimedTick`), or a
commit lasted until `nonceAdvance` wrapped the byte of the hop index and the
sequence's length does not divide 256 (`IndexWraps`). Its receiver does not give a connection up, which
`OtaLink` has and which would multiply the states by thirteen. Commits are of changes that leave the
air rate, IQ and switch mode alone, for which `SetRFLinkRate` returns early.

In `PhaseLock` a step is a slot, `x` the time from a tock to where its packet says
the tock belongs, and the numbers are those of a rate of the code. A slot's
packet comes (`Packet`) or `Gaps` slots in a row bring none (`Missed`). `inStep`
is whether each packet comes in the slot of its nonce; a receiver that has left
its slot is only followed until it loses the connection. `leftOver` notes that
the connection began with a phase shift that the one before left in the timer.

### Connections, binding and outputs

| Module | Models |
|---|---|
| `RxConnection`, `MCRxConnection` | the receiver's `loop()`: connection, rate cycling, configuration, binding, loan |
| `TxConnection` | the transmitter's `loop()`: handset, model, rate, commit, sync spam, binding |
| `RxOutputs` | switch modes, channels, servos, frames to the flight controller, team race |
| `BootCounter` | three plugs: the power-on counter in RAM and EEPROM |
| `RxConnection_proofs`, `TxConnection_proofs`, `RxOutputs_proofs` | inductive invariants, proofs |

In the first three `pc` names the section of `loop()` that runs next, and an interrupt (a
packet, a tick, a tock) may come between any two sections. `LostConnection` is
two steps, before and after its wait for a tock. Time is kept as ages, capped
just beyond the time-out each is compared with; `behind` in `RxConnection` is
how stale the `now` of this pass is, so that an interrupt's stamp can be newer than
`now` and the unsigned difference huge, as in the code. What the other end sends is arbitrary in
each. `ConfigChangeCommit` of the transmitter is two steps, between which the
timer interrupt finds `commitInProgress`. `told` is a history variable: a sync
packet has named the configured rate since it was configured. `SetRFLinkRate` returns early
when rate, IQ inversion and switch mode are set already (`IsSet`): `newSwitches` is that the
configured switch mode is not the one in use, and only binding has an inversion of its own.
In `RxOutputs` a group of four channels holds the switch mode it was unpacked
in, so old data shows. In `BootCounter` power may go between any two steps;
`quick` counts short starts as a history.

### Queues

`TelemetryQueue` keeps a sequence of frames (kind, stamp, size, deleted);
sizes are what the FIFO's room depends on, and a frame takes its size byte as
well. "Kind" stands for what a comparator tells apart: type and, where the
comparator looks at them, source id, origin and destination. `Mailbox` is the
abstract promise: the newest reading of each replaceable kind, events in order,
prioritised ones first, drops allowed on posting. `Pending`, the frames not
deleted, is the refinement mapping's set of waiting messages.

`UplinkQueue` has two threads, `loop` and `vtx`. With `TwoCores = FALSE` an
operation runs to its end before the other thread's begins (one core's loop
calls both); with `TRUE` their steps interleave. The current buffer is in two
parts, the first package and the rest, each of which holds a message's number:
enough to see a transfer whose packages come from two messages. The radio
interrupt (`SendPart`) reads a part at a time. `DataUlSender` is taken as what
`StubbornLink` shows it to be: it delivers what it reads, or goes on.

`SerialQueue` is the receiver's output FIFO byte by byte, each byte tagged as a
length or a body, its two kinds of producers and the port that takes what it has room for.

### MAVLink parameters

| Module | Models |
|---|---|
| `MavParamServer` | the server: operators on its variables, over any table of settings |
| `TxMavlink` | its owner on the transmitter: packet rate, antenna mode, link mode, deferred functions |
| `RxMavlink` | its owner on the receiver: downlink queue, sender, held commit, sync packets, the serial driver |

A parameter is its index and `get` the function of all values. `tick` sends any
answers and a prefix of the values that fit its budget, as any frame may be
refused by the owner's queue. `known` is what the ground station has been told
last, `overlooked` and `lost` are histories: values that changed with a write
whose reply another write overtook, and values deleted with a queue. In
`RxMavlink` the queue holds units, of which a value's frame takes two: payloads
are cut without regard to frames.

### Structures, algorithms, devices

`MCStructures` and `MCShared` run these side by side: `Init` picks one
`component`, and only it moves, so the states add up instead of multiplying.
`MCStructures` has those whose properties are safety, `TelemetryQueue` and the
MAVLink parameters among them, and `ParameterPage`; `MCShared` has `UplinkQueue`,
`SerialQueue`, `VtxAdmin`, `DeviceEvents` and `DynamicPower`, and their fairness. The sizes
of both are CONSTANTs, so that `Shared_proofs`, `Structures_proofs` and `Ground_proofs` prove
about these components for any of them; what `MCShared` fixes is that the uplink queue is on
one core, and what `MCStructures` fixes is a user of the page who waits, and
saves no value that is `lcsQuery` as well.

| Module | Models | Against |
|---|---|---|
| `Fifo` | every method of `FIFO.h` on a ring of bytes | refines `ByteQueue` |
| `LqCalc` | every method of `LQCALC.h` on an array of words | refines `LqWindow` |
| `FhssSequence` | the shuffle of the hop table, one swap a step, any random numbers | the table it should be |
| `MspChunks` | both halves of `CRSF2MSP`, any chunks lost | whole messages |
| `VtxAdmin` | `devVTX.cpp` under `_devicesUpdate` | |
| `DynamicPower` | `dynpower.cpp`, `POWERMGNT`'s levels, all that changes them | |
| `ParameterPage` | `elrs.lua`, `CRSFEndpoint`, the commands' dialogues | |
| `DeviceEvents` | start-up of two cores, event flags as load and store, sleep of core 0 | |
| `BootCounter` | see above | |
| `Fec` | the code tables and the interleaving | sixteen packets, any burst |

`VtxAdmin` has the states of `VtxSendState_e`, the connection, the band
(enabled or not) and the framework's calls; how long a timeout
takes is left open. `edited` is a history variable: the last edit has not been
sent. In `DynamicPower` a reading is what RSSI, SNR and
link quality amount to against averages and thresholds, any combination of it.
`DynamicPower_Update` goes call by call (`at`): it reads the report (`taken`) and clears it,
judges, and sets the power once or several times; the interrupt, and the devices of the other core,
the motion sensor and the button, come between any two of these steps. `meddled`, a history, notes that
a device has set the power in the midst of an update. The transmitter is one with two cores:
with one there is no sensor. `setPower` has the limit of the primary band that EU_CE builds have
(`Limited`), which a new rate may turn on or off (`SetRFLinkRate`); a `PrimaryLimit` of `MaxPower` is a
build without it. In
`ParameterPage` a reply says, beside what is sent, which chunk it is and of what;
`torn`, a history, is the fields ever made of chunks that do not belong together.
`Patient` says that the user waits until a page is loaded, `DialogueLost` whether
what is said for a command may be lost too. In `DeviceEvents`, `collided` notes that a store wrote over a flag that
was set since its load; `owed` which devices have still to be told of what.

## 3. Runs

The "violation" runs check one statement each that a comment of the code makes
and that the code does not keep; see section 5.

| Run | Module, cfg | Shows |
|---|---|---|
| `stubborn_link` | `MCStubbornLink`, `StubbornLink` | `Integrity`: messages are whole but for the two named causes; `ImplementsChannel`: none twice nor out of order; `LinkInv`, the invariant the proof uses; `SenderGetsFree` once the link recovers |
| `ota_link` | `MCOtaLink`, `OtaLink` | `InStep`, `MeetAtHop`; `TelemetryMeets`: the receiver answers in exactly the slots the transmitter listens in, unless a team race mutes it; `OtaInv`, the invariant the proof uses |
| `ota_acquire` | `MCOtaLink`, `OtaAcquire` | `Acquires`: on a good link every receiver comes to follow |
| `ota_commit` | `OtaCommit`, `OtaCommit` | `InStepUnlessLapsed`, through commits, a silent handset and a hop index that wraps |
| `phase_lock` | `PhaseLock`, `PhaseLock` | `CoastsInStep`: a locked receiver keeps its slot through a gap; `Locks`: phase and frequency come to rest together |
| `rx_connection` | `MCRxConnection`, `RxConnection` | `ConnectedIsReal`: a connected receiver is clocked, and has heard something lately; `SilenceIsNoticed`, `ListensAgain` |
| `rx_deaf` | `MCRxConnection`, `RxConnectionDeaf` | violation: administered binding, and the radio is left in standby |
| `rx_outputs` | `RxOutputs`, `RxOutputs` | `OutputsAreFresh`: nothing of an old mode or connection goes out; `FailsafeComes`; `SelectedIsServed` |
| `tx_connection` | `TxConnection`, `TxConnection` | `RateFollowsConfig`, `RateAnnounced`, `ConfigApplied` |
| `rx_mavlink` | `RxMavlink`, `RxMavlink` | violation: a sync packet destroys the reply a commit is held for |
| `shared` | `MCShared`, `Shared` | `Delivers`: messages arrive as sent and are lost to a clearing only, and `QueueDrains` (uplink queue); `WholeFrames` and `PortIsServed` (serial queue), `Settles` (VTX administrator), `InOrder` and `EventsReachDevices` (devices on two cores), `FliesAtItsPower` and `FullPowerUnheard` (output power, sensor and button on the other core) |
| `structures` | `MCStructures`, `Structures` | `ImplementsQueueAndWindow` (FIFO and link quality), `SequenceServes` (hop table), `ChunksJoin` (MSP), `OnlyAfterPlugs` (three plugs), `BurstsRepaired` (FEC), `ImplementsMailbox` (telemetry queue, which loses for want of room only), `ToldWhatChanged` and `OnlyNewDriverLoses` (MAVLink parameters), `PageIsTrue` and `PageLoads` (the page of parameters) |

Section 5 names further definitions that are refuted when they are checked. Unless it
says otherwise, with the constants of the module's run; these differ:

| Refuted | Module, specification | Constants changed |
|---|---|---|
| `Whole`: a restart of the sender | `MCStubbornLink`, `Spec` | `MaxMsg = 2`, `MsgLen <- TwoLens`, `MaxWaits = {2}`, `PayloadLens = {1}` |
| `Whole`: sizes | `MCStubbornLink`, `Spec` without `SenderReboot` | |
| `QuietCommit`, `HopIndexInRange` | `OtaCommit`, `StormSpec` | `Stale = {FALSE}` |
| `PriorityFirst` | `TelemetryQueue`, `OutageSpec` | as in `MCStructures`, but kinds `msp` and `info`, `Sizes = {1}`, `FifoSize = 5`, `CountRange = 256`, `MaxForwards = 257` |
| `NothingLost` | `UplinkQueue`, `Spec` | `MaxForwards = 3` |
| `AllGetThrough` | `UplinkQueue`, `FairSpec` | `MaxForwards = 3`, `TwoCores = TRUE` |
| `UnracedIsServed` | `RxOutputs`, `FairSpec` | `Modes = {0, 2}`, `Teamrace = "5-8"`, `AbsTimeout = 1` |
| `FliesAtItsPower` without `GoQuiet`, `cyclePower` or `meddled` | `DynamicPower`, `Spec` | as in `MCShared` |
| `LimitedInPrimary` | `DynamicPower`, `Spec` | as in `MCShared` |
| `WritesTaken` | `ParameterPage`, `Spec` | as in `MCStructures`, but `Values = {"value", "query"}` |
| `PageIsTrue`, `PageLoads` | `ParameterPage`, `FairSpec` | as in `MCStructures`, but `Patient = FALSE` and `MaxLosses = 0`, or `DialogueLost = TRUE`; `PageIsTrue` also with the `Values` above |
| `BindsAtItsRate`, `ConnectedAgain` | `TxConnection`, `Spec` | `LostTimeout = 1`, `Disconnect = 1` |

The modules have a `TypeOK` each where their state is not plain; it is proved for the
stubborn link and the connections, binding and outputs, part of `OtaInv` and `StormInv`
for the slot clock, and else a definition to check while the model is changed.

### Bounds, and why they are enough

* *Stubborn link*: three messages, of one byte, of as many as the receiver's buffer holds
  and of one more; package sizes 1 and 2, so that a package may be repeated longer or shorter. Three
  messages are one being read, one aborted and one after it. Wait limits 0 and
  2 put the time-out both before and after the acknowledgement. The theorem
  covers any number and size.
* *Slot clock*: the main run has hop interval 4, a sequence of three channels,
  denominators 1, 2 and 4 and nonces modulo 4, so that hops and telemetry slots
  fall on each other in every way and both counters wrap; a longer nonce repeats
  this, since the byte's 256 is a multiple of every interval and denominator.
  The theorem covers the rest. The commit run uses interval 2, three channels
  and up to 3 ticks in one commit, more than a whole hop. The table is padded
  past its end as the array in the code is, to four, where the index wraps: four is no
  multiple of three, as 256 is none of the sequences of some domains. `ota_acquire` has two slots per hop,
  two channels.
* *Phase lock*: the real numbers of 250 Hz LoRa on 2.4 GHz: an interval of
  4000 us, five ticks to the microsecond, a packet 200 us before its tock,
  clocks up to 50 ppm apart (`MaxDrift` is one tick per slot). A gap is one slot
  or 300 of them, longer than the time after which the link quality is empty;
  one gap in a connection (`MaxGaps`), see section 5 for two. `GoodSlots` is 30,
  shorter than the code's second, which only locks earlier. `Latency`, from a
  sync packet to the first tock, is 20 us; `PhaseShift`'s limit of a quarter
  period is kept.
* *RxConnection*: two rates, of which one is visited in less than
  `RxLockTimeoutMs` and one in more; the time-outs are one tick, the slow
  cycling takes twice as long, a pass of `loop()` up to a tick, so that each
  time-out can fall before, in and after each pass. A link quality of up to one more than
  `minLqForChaos` (2 here) counts.
* *TxConnection*: two rates, counters of two for the spam and the spam after a
  change, one bind packet, time-outs of 0: each counter is seen full, partly
  used and spent.
* *RxOutputs*: all three full-resolution modes, two positions that a pilot
  selects, an own position that may become either of them or "off", and the team
  race channel in the third group, which not every mode carries.
* *Telemetry queue*: one kind of each sort (replaceable or not, prioritised or
  not), two sizes, a FIFO of 9 bytes for two to four frames, five messages: the
  FIFO fills up, with deleted frames in it. `CountedSpec` leaves out the steps
  that would wrap the count (its width is 4 there); the wrap itself shows at the
  code's width of 256.
* *Uplink queue*: a queue of two, and five messages, so it overflows while a
  transfer is under way, and again after it was cleared.
* *MAVLink parameters*: on the transmitter a rate, the antenna mode it brings
  along and the link mode, two values each, three requests: a write, one that
  overtakes its reply, and one that fills the deferred functions. On the
  receiver two settings and one that is read-only, two requests of the ground
  station or frames of the flight controller or changes from Lua, a queue of
  four units and payloads of three, so that a frame is cut in two. Three
  requests pass as well, with two settings.
* *Output power*: three levels, of which the one in between is the primary band's limit, and a
  configured level of that one or one beyond the highest; any reading at any time.
* *Page of parameters*: fields of two and three chunks and a command whose status takes
  one or two; two requests and two answers on their way, so that a chunk asked for twice is
  answered twice, and two losses.
* *Structures*: a FIFO of 4 bytes with two values; a serial queue of 8 bytes with frames of two
  and three; a window of 7 in words of 3 bits, so that it ends inside a word; a
  hop table of two blocks of four channels and one channel more; MSP messages
  shorter than a chunk, one and a half, two, and too long, with a sequence
  number of 4; two devices, one event; three plugs and the FEC at their real sizes.

### Fairness, and why the code justifies it

* `StubbornLink!FairSpec`: the slot timer goes on, so packages and
  acknowledgements are sent and, if not lost, processed (weak fairness), and
  the main loop takes a finished message. `LinkRecovers` says that from some
  moment on nothing is lost and nobody restarts: the code retries for ever, so
  this is the promise that can be made.
* `OtaLink!FairSpec`: the timers tick; the sync interval passes; the receiver's
  main loop finishes `LostConnection` (strongly fair: `LostStop` waits for the
  slot's tock, which comes again and again) and gives up a tentative connection
  whose timer never started, by `RxLockTimeoutMs`. `LinkGood` adds that from
  some moment on no packet that could be heard is lost.
* `PhaseLock!FairSpec`: packets go on to come, and `loop()` sees its conditions;
  `Locks` assumes that the connection is lost no more.
* `RxConnection!FairSpec`: `loop()` goes on (weak); the clock does (strong, as a
  pass that has become too long waits for it to end).
* `RxOutputs!FairSpec`: the same, and the timer interrupt, which is weakly fair
  while the timer is on. `LostConnectionEnd` is strongly fair: its wait polls
  for the time after a tock, which comes again and again.
* `TxConnection!FairSpec`: `loop()` and the clock go on. The timer's slots are
  for a sync packet again and again while there is spam, and for data in
  binding mode (strong: other slots come in between). A pass of `loop()` takes
  less than a sync interval (`synced`). `ConfigApplied` assumes that the handset does not
  flap and that nobody keeps changing the configuration.
* `UplinkQueue!FairSpec`: both threads run on; the radio gets packages through
  again and again (strong fairness, as the link may be down in between).
* `VtxAdmin!FairSpec`: the framework's loop runs on; a timeout that is set
  expires (strong fairness, as it comes due between two rounds of events).
* `DeviceEvents!FairSpec`: both cores run. Their steps are strongly fair because a
  running `devicesTriggerEvent` of the same thread disables them for a while.
  Core 0 is only woken by the semaphore, never by a time-out.
* `SerialQueue!FairSpec`: the driver is called again and again; the port takes something
  while it has room.
* `DynamicPower!FairSpec`: the main loop runs on.
* `ParameterPage!FairSpec`: both ends run on, the script asks again and again (strong, as
  it may have to wait for room), and what it asks again and again is answered some time.
* `MCShared!SharedSpec` has the fairness of its five components. As the picked
  component stays, what is fair to an action of one and to an action of another is stated
  of their disjunction.

Deadlock is checked in every run but two: the timers, radios and loops of this
firmware never stop, and neither may the models, also when the numbered messages
run out. `structures` and `rx_mavlink` may stop, when their requests are spent.

## 4. Proofs

`StubbornLink_proofs`, for any messages, package sizes, wait limits and telemetry
denominator, with packages of different sizes in one transfer and restarts of either end:

* `LinkInvariant`: `LinkInv` is inductive. What it adds to the property is
  where each state of the sender allows a receiver in the middle of a message
  to be: waiting for the package being repeated (`Abreast`), having it already
  (`Ahead`), or due for a resync, with the acknowledge bit telling them apart;
  and what a package still in the air, perhaps from before an abort, may do. What orders the messages
  (`ReceiverInv`, `InOrderAir`) holds always; where the two ends are in one message (`BufferInv`, `Agree`,
  `FitsAir`) unless that one is spoiled.
* `TypeCorrect`, `IntegrityHolds`, and `LinkImplementsChannel` (initial states
  map to initial states, `ReadMessage` to `Take`, `QueueMessage` to `Queue`,
  every other step to a stutter).

`Ota_proofs`, for any hop table, nonce range, hop interval and
denominators that satisfy the named assumptions, under `HandsetAlive` (data
keeps coming from the handset) and without commits:

* `OtaInvariant`: `OtaInv` is inductive. `InStep` speaks of the moment between
  two slots only; the invariant says where the two ends are at each step of a
  slot, that a slot without a transmission has an even nonce (so that none is
  the last before a hop, which is why nothing is lost when no TXdone comes),
  and that a packet in the air tells where the transmitter is.
* `StaysInStep`, `TelemetryIsHeard`, `HopsMeet`: the three properties of
  `ota_link`.

`Ota_proofs` also has, for the same constants and commits of any number of slots, with a
handset that falls silent at any time:

* `StormInvariant`: `StormInv` is inductive. `CountsAlike` needs nothing else: the nonces
  agree through everything. The place in the sequence is compared modulo its length, as the
  transmitter's index may be past the end (`SamePlace`), and by turns: the transmitter hops
  as its packet ends, but in a commit, where nothing ends, as the slot begins, and the
  receiver at the tock (`HopDue`). `BusySlot` says that a transmission which goes on during a
  commit began with the unlucky tick, `OddGap` that the commit, which takes the
  radio out of receive mode in any slot, does not take a hop with it.
* `PlaceIsKept`: `InStepUnlessLapsed`.

`TxConnection_proofs`, for any rates, spam counts and time-outs:

* `TxInvariant`: `TxInv` is inductive. `SpamAnnounces` is why a change is
  announced: once the spam of a pending change is spent, a sync packet has named the new
  rate, except in the pass of `loop()` in which the handset came (`CameInThisPass`), which
  changes the rate without spam when nobody is connected.
* `TxTypeCorrect`, `RadioFollows` (`RateFollowsConfig`), `ChangesAreAnnounced`
  (`RateAnnounced`, an action property).

`RxConnection_proofs`, for any finite set of rates and any time-outs. The assumption that
`minLqForChaos` is at least 2 is the code's (it is a multiple of the hop interval, which is
2 or more in every rate); it is needed:

* `RxInvariant`: `RxInv` is inductive. A receiver gets connected because its link quality is
  good enough, which says something of the time since it heard a packet only because
  `LostConnection` clears the count, because no more than two packets count while the
  timer stands still (`UnclockedCounts`: hence the 2), and because a packet counts
  only together with `LastSyncPacket` or a scan that was put off (`SyncIsNoNewer`). The ages
  grow in a pass of `loop()` by `behind`, section by section (`TentativeHasHeard`,
  `ConnectedWasHeard`, `BoundWasHeard`).
* `RxTypeCorrect`, `ConnectionIsReal` (`ConnectedIsReal`).

`RxOutputs_proofs`, for any switch modes, team race positions and time-outs:

* `OutputsInvariant`: `OutputsInv` is inductive. In a connection all groups are of the
  current mode or unset (`OneMode`), and a frame waits for its tock in the slot it came in, with
  no mode pending, so nothing can change its channels before (`FrameIsOfThisSlot`).
* `OutputsTypeCorrect`, `FreshOutputs` (`OutputsAreFresh`).

`Shared_proofs`, about the components of `MCShared`, for every value of its
constants:

* `UplinkInvariant`, `QueueDelivers` (`Delivers`): any number of messages and any size of the
  queue, when both threads share a core. `Order` says that what has arrived, the sender, the buffer
  and the FIFO hold messages in the order of acceptance, in this order; `Whole`, which
  a clearing during a transfer ends, that none is missing in between and that the
  buffer has one message's parts. `Threading` has what half an operation may leave. With
  two cores the property is false (`AllGetThrough` in the table above) and nothing is claimed.
* `SerialInvariant`, `FramesLeaveWhole` (`WholeFrames`): any frames, any FIFO. Unless it was
  overfull, the FIFO is a sequence of whole frames (`Framed`), and this is stated byte by byte:
  a byte that is a length has its frame behind it and a length after that, so
  that taking a frame, and dropping one at the head, leave one.
* `DevicesInvariant`, `StartsInOrder` (`InOrder`): any devices on either core. One
  semaphore serves three handshakes; `Handshake` says which stages of the two cores go together
  and with which value of it, `BroughtUp` what each core has done by its stage. It does not
  need `TakenFirst`: deleting the semaphore too early is another matter.
* `PowerInvariant`, `KeepsItsPower` (`FliesAtItsPower`, an action property): any levels of
  the hardware, of the configuration and of the primary band's limit, on two cores, call by call.
  `Room` says what a step up in the midst of an update rests on: the headroom taken at its
  beginning does not lead beyond the configured level, however many of its levels are added;
  this is lost, until the update ends, when the other core sets the power (`meddled`).

`Structures_proofs`, about six components of `MCStructures`, for every value of its
constants:

* `BootInvariant`, `PlugsOnly` (`OnlyAfterPlugs`, an action property). `CountsQuick` says
  that both counters are at most the number of short starts, `SavedInTime` that EEPROM has the
  counter of RAM or a pass of `loop()` is still to save it, `ClearedInTime` that the counter
  is clear once the transmitter was heard or two seconds have passed.
* `ServerInvariant`, `TellsWhatChanged` (`ToldWhatChanged`): any number of writes of the three
  settings and any number of frames in one go. `Covered` says, of each setting that the ground
  station does not know, that it is in the mask to be told, was overlooked, or will be found by
  comparing with the snapshot. Comparing can miss a value that changes and changes
  back; `SinceSnapshot` and `ChangesOnce` say why none does: the functions that
  wait for the rate change it once, and what they bring along is always Gemini
  (`DualBandIsGemini`). `UnservedStays` is that nothing is written in a mode that is not served.
* `SequenceInvariant`, `SequenceIsServed` (`SequenceServes`): any number of channels, length of
  the table, hop interval and window, and any random numbers. The entry drawn is of the
  same block and not its first (`DrawnEntry`), so an exchange keeps `SyncEachBlock` and
  `BlocksAreFair`. That a window has no more than `minLqForChaos()` slots on the sync channel is
  counted: such a slot is known by the period it is in, from the window's first slot on, and
  by its place in the hop (`SlotsDiffer`, `PeriodsInWindow`).
* `MspInvariant`, `ChunksAreJoined` (`ChunksJoin`, two action properties): messages of any length,
  longer than the buffer or not, any size of a chunk, any range of sequence numbers of two or
  more, any losses. `NumberTells` says that the number of the next chunk is the
  receiver's last one and one more for each chunk lost since, as long as those are less than a
  whole turn; so a chunk that follows on is one with nothing lost in front of it, and
  `HasPrefix`, that a frame which goes on is the message's beginning byte by byte, survives.
  `NotYetHanded` and `IntactGoesOn` are what "once" and "at all" need.
* `FifoInvariant` (`FifoInv`, which has `RingAgrees`): a ring of any size. Positions stay within two
  rounds of the ring, where the remainder is a subtraction (`WrapFacts`), and a byte
  pushed lands in no slot that waits (`PushFacts`).
* `LqInvariant`: the total is the number of bits of the window (`Seen`), and those lie within
  the `count` periods recorded, a reset that keeps `count` included; hence a percentage. An
  increment drops one period of the window and moves the others (`ShiftFacts`); each
  period has one place in the words, also when the last word is not full (`BitPlaces`).
* `QueueAndWindow` (`ImplementsQueueAndWindow`), from these two, `FifoIsQueue` and
  `LqIsWindow`: initial states map to initial states, each method to a step of `ByteQueue` or
  of `LqWindow`. `PartsRun` is that a run of `MCStructures` is one of each part.

`Ground_proofs`, about what reaches the ground station and the handset, four further components of
`MCStructures`, for every value of its constants:

* `MailboxInvariant`, `QueueIsMailbox` (`ImplementsMailbox`): any kinds of messages, whichever of
  them are replaceable and prioritised, any sizes and FIFO, in the behaviours in which the count of
  prioritised messages, a byte, is not incremented past its end (`Wraps`; `PriorityFirst` in section 3
  shows what happens then, and it is why `CountRange` is 2 or more). `InOrder` says that, of the frames
  which are not deleted, there is one at most of each replaceable kind, so that the scan for a match
  finds the one there is, and that the others are in the order in which they came. The
  refinement needs that `prioritizedCount` is at least the number of prioritised messages
  that wait: it may be too large, as a dropped one stays counted, and `GetPrioritised` finds
  nothing then.
* `RxServerInvariant`, `NewDriverOnly` (`OnlyNewDriverLoses`, an action property): any parameters,
  length of the queue and size of a payload. `KnownInTheEnd` follows a value through the mask, the queue
  and the sender: what the ground station does not know of a parameter is told truly by the last of the
  frames on their way that mention it (`EndsTrue`), or is in the mask, or went with a driver.
  `KnownSinceCommit` carries it past the commit: as long as nothing is written, the ground station
  knows every setting and what is still on its way says the same. `AheadReaches` is why the hold
  may count down `downlinkAhead` and not look at the queue.
* `PageInvariant`, `PageStaysTrue` (`PageIsTrue`): any number of fields, of chunks of each and of a
  command's status, any number of requests under way and of losses, a patient user. A field is asked
  for again after each time-out, so an answer may be an old one. `InTurn` says why none is put where
  it does not belong: what is on its way is about the field on top of the stack, or one that is already
  done; behind what is about the top is nothing else; no answer is of a later chunk than the next;
  and with a chunk there, all of it is about the top. An older chunk is then told by what it says
  remains (`DataFollows`, `NextChunk`), as one field's chunks all differ in that. A command has chunks of one status or
  another and nothing of this holds for it, so `StackInOrder` says that it is loaded last, and
  `LeftIsThrownAway` that what a closed pop-up leaves in `fieldData` is dropped when its
  cancel is answered.
* `EachWordRepaired`, `BurstsAreRepaired` (`BurstsRepaired`): any sixteen nibbles, any error of
  one bit at most in each code word. The fold that `FECDecode` puts a word together with is
  the number its seven bits write (`WordSum`), in whatever order the places are chosen; the tables
  are gone through nibble by nibble (`OneBitRepaired`); and no two of sixteen bits in a row are of one word.
* `GroundIsTold`: in every run of `MCStructures` all four hold.

Two induction principles that take an operator are replaced by the least element of a set of
numbers (`LeastExists`): with it `Min` and `SelectInSeq`, which choose, return what they should.

Each inductive invariant was model-checked, on the run of its module, before it was proved.
Two of the models changed on the way: `OtaCommit` got the wrap of the hop index, which its
earlier bounds had hidden, and `RxConnection` the two assumptions above.

Only model-checked:

* Liveness, which is outside the prover, and what is stated with fairness: `SenderGetsFree`,
  `Acquires`, `Locks`, `SilenceIsNoticed`, `ListensAgain`, `FailsafeComes`, `SelectedIsServed`,
  `ConfigApplied`, `QueueDrains`, `PortIsServed`, `Settles`, `EventsReachDevices`,
  `FullPowerUnheard`, `PageLoads`.
* `CoastsInStep`: it is true of the rates' numbers (an interval, a filter's shifts, clocks' drift),
  and false of others; there is no general statement of it short of those numbers.

Every proof step is checked; the assumptions are the named `ASSUME`s of the modules, which the
runs evaluate, and the hypotheses given here.

## 5. What the models found

For `rx_deaf` and `rx_mavlink`, `PROJECT.json` quotes the comment that says
otherwise. The others name the definition that is refuted, see the table in section 3.

### The link

* A package sent again with another size than the copy that was acknowledged
  advances the sender by the wrong amount (`stubborn_sender.cpp`, 108;
  `Whole`). The downlink's LINKSTATS and DATA packets do differ in size. It spoils
  the message in transfer and no other (`Integrity`).
* A sender restarted to idle sends index 0, which a receiver half way through a
  message takes for its end (`stubborn_receiver.cpp`, 62; `Whole`; the test
  `test_stubborn_link_forlorn_receiver`, `test_stubborn.cpp`, 450: "Make sure Receiver will fast-resync
  if it sees the sender has reset", starts the next message before the first package).
* A timer interrupt between the wait for `busyTransmitting` and
  `commitInProgress = true` has a packet on the air during the commit
  (`tx_main.cpp`, 863; `QuietCommit`). `InStepUnlessLapsed` says that this, a silent handset
  and the next one are the only ways to miss a hop.
* `nonceAdvance` takes the hop index past the end of the sequence
  (`tx_main.cpp`, 694; `HopIndexInRange`), until the next hop. It is a byte: a commit that
  lasts long enough wraps it at 256, and in a domain whose sequence does not divide
  256 (EU433's has 255 entries, others 240 or 247) the transmitter then goes on at another
  place than the receiver. The attempt to prove that a commit never loses the place
  showed it; without `IndexWraps` in `Lapse`, `InStepUnlessLapsed` is refuted.
* `hwTimer::stop` and `LostConnection` leave `PhaseShift` in the timer, and the
  first tock of the next connection applies it: with a short enough `Latency`
  that connection is out of step from its first slot (`leftOver` in `CoastsInStep`).
* A receiver that has heard two gaps of more than a second since it locked can
  slip (`PhaseLock.cfg` with `MaxGaps = 2`): the first gap disturbs the frequency
  offset. `Near` is the width of the dead zone: 4 us hold, 3 us do not.
* `GotConnection` tests `LPF_Offset` without `abs` (2253), so an offset of any
  size to one side passes.

### The receiver

* `rx_deaf`: with administered binding a request to bind drops the link, stops the
  radio and starts nothing (`rx_main.cpp`, 1878, 1767).
* A bind packet within two seconds of the third plug: `ExitBindingMode` saves
  the UID with the counter still at 3, `updateBindingMode` (1857) enters binding
  mode again at once, and when the deferred function has cleared the counter
  nothing ends it. The receiver is bound and stays in binding mode until it is
  switched off (`LeavesForGood` of `BootCounter`; 1832: "Exit binding mode if the
  config has been modified, indicating UID has been set").
* In a regulatory domain with so few channels that a table is visited in less
  than `RxLockTimeoutMs`, `cycleRfMode` (1737) resets `LastSyncPacket` of a
  tentative receiver before "Bad sync" can fire (`SilenceIsNoticed` in
  `RxConnection.cfg` with `CycleInterval <- CycleIntervalShort`).
* `now` is older than stamps set since, so `now - LastSyncPacket` (2237) and
  `now - RFmodeLastCycled` (1734) can be huge and a connection just begun be given up at once
  (`GivesTime` in `RxConnection.cfg`).
* "Force RF cycling to start at the beginning immediately" (1812): the time
  since 0 is compared with an interval that may be multiplied by ten.
* A receiver that its loan has made inert (`noCrossfire`) is below
  `NO_CONFIG_SAVE_STATES`: a later change of its configuration turns the radio
  on again, against the comments at 1882 and 1886.
* `ConnectedIsClocked` rests on `minLqForChaos` being at least 2.
* A receiver taken out of the team race while it is muted is muted for good:
  `confirmFrameAvailable` returns early with the position off and never sets
  `teamraceHasModelMatch` (`devSerialIO.cpp`, 139; `UnracedIsServed`;
  `common.cpp`, 238: "true if isTx or teamrace disabled or ..."). Servos fail safe and
  telemetry stays off until the next start.
* A full CRSF output FIFO loses the length of a frame and cuts what follows at wrong places
  (`StaysInFrame` of `SerialQueue`).
* An MSP message whose length is a multiple of the chunk is handed on by the
  chunk that completes it and again by the empty one after it (`NeverTwice` of
  `MspChunks`).

### The transmitter

* A configuration committed in binding mode (a change of model or rate) leaves
  the binding rate (`tx_main.cpp`, 1045: "Lock the RF rate and freq while
  binding"; `BindsAtItsRate`). `ExitBindingMode` (1067) then "returns to the original rate"
  that is the new one.
* Telemetry from before a change of rate counts as a connection after it and
  ends the sync spam (430; `ConnectedAgain`).
* "Force sync spam on first packets" (773) has no effect on a transmitter that starts
  without a change of model.
* When the handset goes away after a button has started to bind, the transmitter stays in
  binding mode: with stale data no bind packet is sent (the condition on `rc` in `ConfigApplied`).
* On LR1121 and LR2021, `BindingSendCount == BindingSpamAmount / 2` (1750), which
  turns to the other band, is tested for equality by a loop that may miss it.
* The byte that counts prioritised telemetry wraps when 256 of them overwrite
  each other during an outage (`RXOTAConnector.cpp`, 170; `PriorityFirst`).
* Clearing the uplink queue during a transfer loses the next message
  (`TXOTAConnector.cpp`, 40; `NothingLost`); two cores can strand one (72;
  `AllGetThrough`).
* A short loss of the link turns an unsent VTX edit into a confirmed one
  (`devVTX.cpp`, 133; `ConfirmedIsSent` of `VtxAdmin`), one set to Disabled is
  still sent (162; `SendsOnlyEnabled`), and with the device on the other core
  (`TwoCores = TRUE`) `Settles` fails, as an event may be lost.
* An event raised between the read and the clear of the flags is lost
  (`device.cpp`, 147; `collided` of `DeviceEvents`). Core 0 may delete the
  semaphore that core 1 was just woken by (200, 201; `NoLongerNeeded` with
  `TakenFirst = FALSE`).

* On two cores the motion sensor may see that nobody has armed, and set the lowest
  power after somebody has (`devGsensor.cpp`, 49; `GoQuiet` in `FliesAtItsPower`), and when it
  or the button sets the power in the midst of an update, that may go on to a level beyond the
  configured one (`meddled`).
* `ChangeRadioParams` sets the power before the rate (`tx_main.cpp`, 815), so that the limit of the
  primary band is judged by the band that is left, and nothing sets the same level again
  (`POWERMGNT.cpp`, 179); binding (1046, 1067) does not set it at all. The transmitter goes into the
  primary band above its limit (`LimitedInPrimary`; `POWERMGNT.cpp`, 183: "When using SubHGz with
  CE, limit to a max of 25mW.").

### Parameters

* A write to any field of a value that is `lcsQuery` (6) while chunks of a status are left
  is taken for a question about it: the setting is not made, and the handset is sent a chunk
  of that field (`CRSFEndpoint.cpp`, 331; `WritesTaken`).
* `reloadRelatedFields` and a pop-up leave `fieldChunk` and `fieldData` alone,
  which `reloadCurField` does not: a field that is edited while another is loading may be
  made of both, or be asked for for ever (`elrs.lua`, 663, 478; `PageIsTrue`,
  `PageLoads`).
* The chunks of a command's status carry no number and no step: when one is lost, the
  dialogue may be made of two, and a pop-up may wait for ever.
* `rx_mavlink`: while a commit is held, the flag it leaves set makes a sync packet
  replace the serial driver (`rx_main.cpp`, 1102), whose queue held the reply.
  `OnlyNewDriverLoses` says that nothing else loses it, except the time-out.
* A second write, also a refused one, overwrites the snapshot that the reply to
  the first would be compared with (`MavParamServer.cpp`, 187): a value the first
  brought along is not told (`NothingOverlooked` of `TxMavlink`;
  `MavParamServer.h`, 112: "The reply to a PARAM_SET covers every parameter whose
  value changed with it"). `ToldWhatChanged` says that nothing else is missed.
* Two writes of the link mode within 300 ms store -1 in its two bits
  (`tx_mavlink.cpp`, 146; `LinkModeExists` of `TxMavlink`): neither MAVLink nor normal.

### Seen while reading

These are outside the models:

* `executeDeferredFunction` subtracts a start that an interrupt may have set
  after `now` was read, so the function runs at once; and a full table drops
  one without a sign (`rxtx_common.cpp`, 76-105).
* `m_modified` is cleared after `Put` (`config.cpp`, 1225-1229): what another
  thread sets in between is never saved.
* Buttons and the screen call `EnterBindingMode` on core 0 while `loop()` of core 1 uses the
  same state.

Not a finding, but worth knowing: a prioritised frame taken from the middle of
the telemetry FIFO stays there as deleted bytes until the head reaches it, so a
burst of them can push ordinary messages out of a queue that is nearly empty.
A burst of 17 bits hits one code word of the FEC twice.

## 6. What is not modelled

* In the slot clock: Gemini and dual-band, LBT, DVDA repeats, the STM32 build's
  commit (which does not wait at all), and changes of the air rate (in
  `TxConnection` and `RxConnection` instead, each with an arbitrary other end).
* In the connection machines: WiFi, BLE and MAVLink modes, the alternation of
  binding rates on LR1121 and LR2021, and `RxMavlink_HoldCommit`, which is in
  `RxMavlink`.
* In `RxOutputs`: DVDA rates, polled ports (`devSerialIO.cpp`, 216-229), a
  second serial port, PWM and DShot pulses. The values of channels are not there, except for what the
  team race channel selects.
* In `PhaseLock`: the timers of other platforms, jitter of a packet's time
  stamp and of interrupts; a receiver out of its slot is not followed.
* In `DeviceEvents`, how long time-outs are.
* In the uplink queue, a `flush` of the FIFO is atomic; the MAVLink stream,
  binding and WiFi requests that take `DataUlSender` over are left out.
* In the stubborn link, `ReadMessage` takes the message in one step; each
  direction is modelled alone.
* In the MAVLink parameters: frames, system ids and heartbeats' times, link
  reports; on the transmitter the other settings and when `queuedFrames` are
  flushed, on the receiver losses of payloads. Other users of the deferred
  functions than these.
* In `DynamicPower`: averages and thresholds, the trimming of the SX1280's output. Each call of
  `POWERMGNT` is one step, also where two cores could be in it at once.
* In `ParameterPage`: folders, other devices, link statistics, what a field says.
* Not begun: the CRSF byte parser and router, the handset's UART and its baud
  detection, LBT, the fields of the configuration and their migration.
* Bytes: channel packing, CRC polynomials, encodings.
* Hardware and user-interface parts, listed in `PROJECT.json`. Most lines of the
  repository are these: generated web pages, vendored protocol headers,
  bitmaps, fonts, screen and web handlers, and driver register tables, which
  keep no state that a model could say anything about.

## 7. Plan

1. Stubborn link, slot clock, queues and devices, with the first proofs: done.
2. Connection machines of both ends, binding, outputs, phase lock, three plugs;
   structures and algorithms against their references: done.
3. MAVLink parameters of both ends, output power, the page of parameters: done.
4. Proofs of the safety properties of both links, the slot clocks through commits, both
   connection machines, the outputs, what threads and cores share, three plugs, the hop
   table, MAVLink parameters of both ends, MSP chunks, the FIFO and the link quality, the
   telemetry queue and the page of parameters: done.
5. Models: the CRSF parser, the handset; the stubborn link in both directions
   with both queues and `ReadMessage` byte by byte.
