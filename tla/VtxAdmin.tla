-------------------------------- MODULE VtxAdmin -------------------------------
(***************************************************************************)
(* The VTX administrator of the transmitter (devVTX.cpp): it sends the     *)
(* video transmitter's configuration after a connection or an edit, three  *)
(* times, then has it written to EEPROM.  The device framework             *)
(* (device.cpp) calls it for events and timeouts.  How long a timeout      *)
(* takes is left open.                                                     *)
(***************************************************************************)
EXTENDS Naturals

CONSTANT
  TwoCores    \* whether the device runs on another core than the main loop

VtxAdminAssumption == TwoCores \in BOOLEAN

VARIABLES
  vtxSendState,       \* VtxSendState
  sendEepromWrite,
  connectionState,    \* with "awaiting" for noCrossfire and awaitingModelId
  band,               \* config.GetVtxBand() != 0: the administrator is enabled
  eventFired,         \* an event the device subscribes to is pending
  deviceTimeout,      \* whether a timeout is set
  pc,                 \* where _devicesUpdate is
  edited              \* an edit has not been sent over the link since it was made

linkVars == <<connectionState, band>>
vars == <<vtxSendState, sendEepromWrite, linkVars, eventFired, deviceTimeout, pc, edited>>

Sending == {"sending1", "sending2", "sending3"}

Init ==
  /\ vtxSendState = "unknown" /\ sendEepromWrite = TRUE
  /\ connectionState = "awaiting" /\ band \in BOOLEAN
  /\ eventFired = FALSE /\ deviceTimeout = FALSE /\ pc = "idle"
  /\ edited = FALSE

-------------------------------------------------------------------------------
(* What happens around the device, on the main loop's core.                *)
Around == TwoCores \/ pc = "idle"

\* setConnectionState.
SetConnectionState(new) ==
  /\ Around
  /\ connectionState # new /\ connectionState' = new
  /\ new = "connected" => connectionState \in {"disconnected", "awaiting"}
  /\ eventFired' = TRUE
  /\ UNCHANGED <<vtxSendState, sendEepromWrite, band, deviceTimeout, pc, edited>>

\* VtxTriggerSend for an edit, or for the pitmode switch, which is not saved.
VtxTriggerSend(save) ==
  /\ Around
  /\ vtxSendState' = "modified"
  /\ sendEepromWrite' = save
  /\ eventFired' = TRUE
  /\ edited' = TRUE
  /\ UNCHANGED <<linkVars, deviceTimeout, pc>>

\* The band is switched on or off, which is not an event for this device.
SetVtxBand ==
  /\ Around
  /\ band' = ~band
  /\ UNCHANGED <<vtxSendState, sendEepromWrite, connectionState, eventFired, deviceTimeout,
                 pc, edited>>

-------------------------------------------------------------------------------
(* event().                                                                *)
\* An edit made while the administrator is disabled is not to be sent.
EventDisabled ==
  /\ ~band
  /\ vtxSendState' = "confirmed" /\ deviceTimeout' = FALSE
  /\ edited' = FALSE

MustSend ==
  \/ vtxSendState = "modified"
  \/ vtxSendState = "unknown" /\ connectionState = "connected"

EventSend ==
  /\ band /\ MustSend
  /\ vtxSendState' = "sending1" /\ deviceTimeout' = TRUE
  /\ UNCHANGED edited

LinkGone ==
  /\ connectionState = "disconnected"
  /\ vtxSendState \notin {"debouncing", "unknown"}

EventDebounce ==
  /\ band /\ ~MustSend /\ LinkGone
  /\ vtxSendState' = "debouncing" /\ deviceTimeout' = TRUE
  /\ UNCHANGED edited

EventIgnored ==
  /\ band /\ ~MustSend /\ ~LinkGone
  /\ UNCHANGED <<vtxSendState, deviceTimeout, edited>>

\* _devicesUpdate reads the events,
ReadEvents ==
  /\ pc = "idle" /\ pc' = (IF eventFired THEN "handle" ELSE "skip")
  /\ UNCHANGED <<vtxSendState, sendEepromWrite, linkVars, eventFired, deviceTimeout, edited>>

\* ... clears them, and calls event() for those it has read.
SkipEvent ==
  /\ pc = "skip" /\ pc' = "idle"
  /\ eventFired' = FALSE
  /\ UNCHANGED <<vtxSendState, sendEepromWrite, linkVars, deviceTimeout, edited>>

Event ==
  /\ pc = "handle" /\ pc' = "idle"
  /\ eventFired' = FALSE
  /\ EventDisabled \/ EventSend \/ EventDebounce \/ EventIgnored
  /\ UNCHANGED <<sendEepromWrite, linkVars>>

-------------------------------------------------------------------------------
(* timeout().                                                              *)
\* Mutant: only an expired debounce is looked at.
DebounceLeft ==
  /\ vtxSendState = "debouncing"
  /\ deviceTimeout' = FALSE
  /\ IF connectionState = "disconnected"
       THEN vtxSendState' = "unknown" /\ sendEepromWrite' = TRUE
       ELSE UNCHANGED <<vtxSendState, sendEepromWrite>>
  /\ UNCHANGED edited

DebounceOver ==
  /\ vtxSendState = "debouncing"
  /\ deviceTimeout' = FALSE
  /\ IF connectionState = "disconnected"
       THEN vtxSendState' = "unknown" /\ sendEepromWrite' = TRUE
       ELSE vtxSendState' = "confirmed" /\ UNCHANGED sendEepromWrite
  /\ UNCHANGED edited

NothingToSend ==
  /\ vtxSendState \in {"unknown", "modified", "confirmed"}
  /\ deviceTimeout' = FALSE
  /\ UNCHANGED <<vtxSendState, sendEepromWrite, edited>>

\* VtxConfigToMSPOut: the uplink takes the message only while connected.
VtxConfigToMSPOut == edited' = (edited /\ connectionState # "connected")

SendAgain ==
  /\ vtxSendState \in {"sending1", "sending2"}
  /\ VtxConfigToMSPOut
  /\ vtxSendState' = IF vtxSendState = "sending1" THEN "sending2" ELSE "sending3"
  /\ deviceTimeout' = TRUE
  /\ UNCHANGED sendEepromWrite

\* The third time: done if connected, else the uplink's queue is cleared.
SendLast ==
  /\ vtxSendState = "sending3"
  /\ VtxConfigToMSPOut
  /\ deviceTimeout' = FALSE
  /\ IF connectionState = "connected"
       THEN /\ vtxSendState' = "confirmed"
            /\ sendEepromWrite' = TRUE
       ELSE vtxSendState' = "unknown" /\ UNCHANGED sendEepromWrite

Timeout ==
  /\ pc = "idle" /\ deviceTimeout
  /\ DebounceOver \/ NothingToSend \/ SendAgain \/ SendLast
  /\ UNCHANGED <<linkVars, eventFired, pc>>

Trigger == \E save \in BOOLEAN : VtxTriggerSend(save)

Next ==
  \/ \E new \in {"connected", "disconnected", "awaiting"} : SetConnectionState(new)
  \/ Trigger \/ SetVtxBand \/ ReadEvents \/ SkipEvent \/ Event \/ Timeout

Spec == Init /\ [][Next]_vars

\* The framework goes on calling the device; a timeout comes due in between
\* two rounds of events, hence the strong fairness.
FairSpec == Spec /\ WF_vars(ReadEvents) /\ WF_vars(SkipEvent \/ Event) /\ SF_vars(Timeout)

-------------------------------------------------------------------------------
\* VtxSendState never rests at VTXSS_SENDINGDONE: timeout() leaves it at once.
TypeOK ==
  /\ vtxSendState \in Sending \cup {"unknown", "modified", "confirmed", "debouncing"}
  /\ connectionState \in {"connected", "disconnected", "awaiting"}
  /\ pc \in {"idle", "skip", "handle"}
  /\ {sendEepromWrite, band, eventFired, deviceTimeout, edited} \subseteq BOOLEAN

\* While the link stays up and nothing is edited, the configuration is settled.
Settles ==
  /\ <>[](connectionState = "connected" /\ band)
  /\ <>[][~Trigger]_vars
  => <>[](vtxSendState = "confirmed")

\* A confirmed state means that the last edit has been sent.
ConfirmedIsSent == vtxSendState = "confirmed" /\ band => ~edited

\* Nothing is sent while the administrator is disabled.
SendsOnlyEnabled == [][Timeout /\ vtxSendState \in Sending => band]_vars
===============================================================================
