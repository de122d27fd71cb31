------------------------------ MODULE TxConnection ------------------------------
(***************************************************************************)
(* tx_main.cpp: the transmitter's connection state, its changes of         *)
(* configuration and binding.  loop() runs one section of its body after   *)
(* another, pc naming the next; the timer and the radio interrupt it       *)
(* between any two, and while a configuration is committed.  Slots and the *)
(* contents of packets are OtaTransmitter's.  Times are kept as ages.      *)
(***************************************************************************)
EXTENDS Integers

CONSTANTS
  Rates,         \* the indices of the supported rates, slower with the index
  BindRate,      \* RATE_BINDING
  SpamAmount,    \* syncSpamAmount
  SpamAfter,     \* syncSpamAmountAfterRateChange
  BindingSpam,   \* BindingSpamAmount
  LostTimeout,   \* msConnectionLostTimeout
  Disconnect     \* DisconnectTimeoutMs

ASSUME TxConnectionAssumption ==
  /\ Rates \subseteq Nat /\ BindRate \in Rates
  /\ {SpamAmount, SpamAfter, BindingSpam} \subseteq Nat \ {0}
  /\ {LostTimeout, Disconnect} \subseteq Nat

VARIABLES
  pc,                 \* where loop() is
  connectionState,
  timer,              \* hwTimer::running
  rate,               \* ExpressLRS_currAirRate_Modparams
  configRate,         \* config.GetRate()
  newSwitches,        \* config.GetSwitchMode() is not OtaSwitchModeCurrent
  modified,           \* config.IsModified()
  modelPending,       \* ModelUpdatePending
  commitInProgress,
  spam, spamAfter,    \* syncSpamCounter, syncSpamCounterAfterRateChange
  boost,              \* syncTelemBoostState
  synced,             \* a sync packet was sent since the last look at spam
  InBinding, bindCount,    \* InBindingMode, BindingSendCount
  controller,         \* controllerConnected of the handset
  rc,                 \* its channels: "never" came, are "fresh" or "stale"
  sinceTlm,           \* the age of LastTLMpacketRecv_Ms, Never when that is 0
  sinceChange,        \* the age of rfModeLastChangedMS
  told                \* history: a sync packet named the configured rate

configVars == <<configRate, newSwitches, modified, modelPending>>
spamVars == <<spam, spamAfter, boost>>
bindVars == <<InBinding, bindCount>>
handsetVars == <<controller, rc>>
radioVars == <<rate, sinceChange>>
vars == <<pc, connectionState, timer, configVars, commitInProgress, spamVars, synced,
          bindVars, handsetVars, radioVars, sinceTlm, told>>

Never == -1

TypeOK ==
  /\ pc \in {"status", "devices", "serve", "commit", "committing", "bind"}
  /\ connectionState \in {"connected", "awaitingModelId", "disconnected", "noCrossfire"}
  /\ {timer, newSwitches, modified, modelPending, commitInProgress, synced,
      InBinding, controller, told} \subseteq BOOLEAN
  /\ {rate, configRate} \subseteq Rates
  /\ spam \in 0 .. SpamAmount /\ spamAfter \in 0 .. SpamAfter
  /\ boost \in {"idle", "requested", "boosting"}
  /\ bindCount \in 0 .. BindingSpam + 1
  /\ rc \in {"never", "fresh", "stale"}
  /\ sinceTlm \in Never .. LostTimeout + 1 /\ sinceChange \in 0 .. Disconnect + 1

Init ==
  /\ pc = "status" /\ connectionState = "noCrossfire" /\ timer = FALSE
  /\ rate \in Rates /\ configRate = rate
  /\ newSwitches = FALSE
  /\ modified = FALSE /\ modelPending = FALSE /\ commitInProgress = FALSE
  /\ spam = 0 /\ spamAfter = 0 /\ boost = "idle"
  /\ synced = FALSE
  /\ InBinding = FALSE /\ bindCount = 0
  /\ controller = FALSE /\ rc = "never"
  /\ sinceTlm = Never /\ sinceChange = 0
  /\ told = FALSE

-------------------------------------------------------------------------------
\* Nothing to do for a rate, an IQ inversion and a switch mode that are set already,
\* except in binding mode.
IsSet(new, sameIQ, binding) == new = rate /\ sameIQ /\ ~newSwitches /\ ~binding

\* Only binding has an inversion of its own, which not every band heeds.
SetRFLinkRate(new, sameIQ, binding) ==
  /\ rate' = new /\ newSwitches' = FALSE
  /\ sinceChange' = IF IsSet(new, sameIQ, binding) THEN sinceChange ELSE 0
  /\ connectionState' = IF IsSet(new, sameIQ, binding) THEN connectionState
                        ELSE "disconnected"

SetRate(new) ==
  /\ configRate' = new
  /\ modified' = (modified \/ new # configRate)
  /\ told' = (told /\ new = configRate)

\* A switch mode for the rate, or that the user chose.
MaySwitch == newSwitches' \in IF modified' THEN BOOLEAN ELSE {newSwitches}

SetSyncSpam == spam' = SpamAmount /\ spamAfter' = SpamAfter

\* adjustPacketRateForBaud: the handset may be too slow for the configured rate.
Adjusted == {r \in Rates : r >= configRate}

-------------------------------------------------------------------------------
(* The timer's and the radio's interrupts.                                 *)
Transmits ==
  /\ timer /\ ~commitInProgress /\ connectionState # "awaitingModelId"
  /\ rc # "stale"

\* UpdateTlmRatioEffective: a higher ratio while connected counts as telemetry.
UpdateTlmRatioEffective ==
  /\ boost' = IF boost = "requested" THEN "boosting" ELSE "idle"
  /\ sinceTlm' \in IF connectionState = "connected" THEN {0, sinceTlm} ELSE {sinceTlm}

GenerateSyncPacketData ==
  LET index == IF spam > 0 THEN configRate ELSE rate
  IN /\ spam' = IF spam > 0 THEN spam - 1 ELSE 0
     /\ spamAfter' = IF spamAfter = 0 \/ index # rate THEN spamAfter
                     ELSE IF connectionState = "connected" THEN 0 ELSE spamAfter - 1
     /\ told' = (told \/ index = configRate)
     /\ UpdateTlmRatioEffective

\* A pass of loop() takes less than SyncInterval: without spam there is no
\* second sync packet in it.
SendSync ==
  /\ Transmits /\ ~InBinding
  /\ spam > 0 \/ spamAfter > 0 \/ ~synced
  /\ GenerateSyncPacketData
  /\ synced' = TRUE
  /\ UNCHANGED <<pc, connectionState, timer, configVars, commitInProgress, bindVars,
                 handsetVars, radioVars>>

\* Mutant: the count of binding packets stops one short of what ends binding.
SendDataShort ==
  /\ Transmits
  /\ bindCount' = IF InBinding /\ bindCount < BindingSpam THEN bindCount + 1 ELSE bindCount
  /\ spam' = IF boost = "idle" THEN 1 ELSE spam
  /\ boost' = "requested"
  /\ UNCHANGED <<pc, connectionState, timer, configVars, commitInProgress, spamAfter,
                 synced, InBinding, handsetVars, radioVars, sinceTlm, told>>

\* In binding mode the sender always has data.
SendData ==
  /\ Transmits
  /\ bindCount' = IF InBinding /\ bindCount <= BindingSpam THEN bindCount + 1 ELSE bindCount
  /\ spam' = IF boost = "idle" THEN 1 ELSE spam
  /\ boost' = "requested"
  /\ UNCHANGED <<pc, connectionState, timer, configVars, commitInProgress, spamAfter,
                 synced, InBinding, handsetVars, radioVars, sinceTlm, told>>

\* In binding mode the nonce is locked and no slot is for telemetry.
ProcessDownlinkPacket ==
  /\ ~commitInProgress /\ ~InBinding
  /\ sinceTlm' = 0
  /\ UNCHANGED <<pc, connectionState, timer, configVars, commitInProgress, spamVars,
                 synced, bindVars, handsetVars, radioVars, told>>

-------------------------------------------------------------------------------
(* loop()                                                                  *)
Goes(from, to) == pc = from /\ pc' = to

TlmIsRecent == sinceTlm \in 0 .. LostTimeout

UpdateConnectDisconnectStatus ==
  /\ Goes("status", "devices")
  /\ connectionState' =
       IF connectionState # "noCrossfire" /\ TlmIsRecent THEN "connected"
       ELSE IF \/ connectionState = "connected"
               \/ connectionState = "awaitingModelId" /\ sinceChange > Disconnect
              THEN "disconnected"
       ELSE connectionState
  /\ UNCHANGED <<timer, configVars, commitInProgress, spamVars, synced, bindVars,
                 handsetVars, radioVars, sinceTlm, told>>

\* What the handset, the user or a device asks for in between.
Devices == Goes("devices", "serve") /\ UNCHANGED <<commitInProgress, synced, rc>>

NothingAsked ==
  /\ Devices
  /\ UNCHANGED <<connectionState, timer, configVars, spamVars, bindVars, controller,
                 radioVars, sinceTlm, told>>

UARTconnected ==
  /\ Devices
  /\ ~controller /\ controller' = TRUE
  /\ \E r \in Adjusted : SetRate(r)
  /\ connectionState' = "awaitingModelId" /\ timer' = TRUE /\ sinceChange' = 0
  /\ UNCHANGED <<newSwitches, modelPending, spamVars, bindVars, rate, sinceTlm>>

UARTdisconnected ==
  /\ Devices
  /\ controller /\ controller' = FALSE
  /\ timer' = FALSE /\ connectionState' = "noCrossfire"
  /\ UNCHANGED <<configVars, spamVars, bindVars, radioVars, sinceTlm, told>>

\* The handset names the model, another one perhaps with another rate
\* and switch mode.
ModelUpdateReq ==
  /\ Devices
  /\ controller
  /\ connectionState' = IF connectionState = "awaitingModelId" THEN "disconnected"
                        ELSE connectionState
  /\ \/ UNCHANGED <<configVars, spam, spamAfter, told>>
     \/ /\ configRate' \in Rates /\ told' = (told /\ configRate' = configRate)
        /\ SetSyncSpam /\ modelPending' = TRUE /\ UNCHANGED modified
        /\ newSwitches' \in BOOLEAN
  /\ UNCHANGED <<timer, boost, bindVars, controller, radioVars, sinceTlm>>

\* Mutant: only the first change in a row spams.
SetPacketRateIdxOnce(new) ==
  /\ Devices
  /\ SetRate(new) /\ MaySwitch
  /\ IF modified' /\ ~modified THEN SetSyncSpam ELSE UNCHANGED <<spam, spamAfter>>
  /\ UNCHANGED <<connectionState, timer, modelPending, boost, bindVars, controller,
                 radioVars, sinceTlm>>

\* SetPacketRateIdx, the part that is deferred to the loop.
SetPacketRateIdx(new) ==
  /\ Devices
  /\ SetRate(new) /\ MaySwitch
  /\ IF modified' THEN SetSyncSpam ELSE UNCHANGED <<spam, spamAfter>>
  /\ UNCHANGED <<connectionState, timer, modelPending, boost, bindVars, controller,
                 radioVars, sinceTlm>>

\* A parameter that the receiver need not know, the telemetry ratio, the link or the
\* switch mode.
SetOther(spams) ==
  /\ Devices
  /\ modified' = TRUE /\ MaySwitch
  /\ IF spams THEN SetSyncSpam ELSE UNCHANGED <<spam, spamAfter>>
  /\ UNCHANGED <<connectionState, timer, configRate, modelPending, boost, bindVars,
                 controller, radioVars, sinceTlm, told>>

\* The uplink message that is under way gives way to the binding message.
EnterBindingMode ==
  /\ Devices
  /\ ~InBinding /\ InBinding' = TRUE /\ bindCount' = 0
  /\ SetRFLinkRate(BindRate, FALSE, TRUE)
  /\ timer' = TRUE
  /\ UNCHANGED <<configRate, modified, modelPending, spamVars, controller, sinceTlm, told>>

\* Without a handset the spam would never drain: the change is committed at once,
\* and the rest of the pass is not for this state.
Serve ==
  /\ Goes("serve", IF connectionState = "noCrossfire" THEN "status" ELSE "commit")
  /\ IF connectionState = "noCrossfire" /\ modified
       THEN /\ spam' = 0 /\ modified' = FALSE /\ modelPending' = FALSE
            /\ rate' = configRate /\ newSwitches' = FALSE
            /\ sinceChange' = IF IsSet(configRate, TRUE, InBinding) THEN sinceChange ELSE 0
       ELSE UNCHANGED <<spam, newSwitches, modified, modelPending, radioVars>>
  /\ UNCHANGED <<connectionState, timer, configRate, commitInProgress, spamAfter, boost,
                 synced, bindVars, handsetVars, sinceTlm, told>>

\* CheckConfigChangePending as far as commitInProgress.  That an interrupt may
\* come between its wait and its claim is in OtaCommit.
CheckConfigChangePending ==
  /\ pc = "commit"
  /\ synced' = FALSE
  /\ IF (modified \/ modelPending) /\ spam = 0
       THEN commitInProgress' = TRUE /\ pc' = "committing"
       ELSE UNCHANGED commitInProgress /\ pc' = "bind"
  /\ UNCHANGED <<connectionState, timer, configVars, spamVars, bindVars,
                 handsetVars, radioVars, sinceTlm, told>>

ConfigChangeCommit ==
  /\ Goes("committing", "bind")
  /\ commitInProgress' = FALSE
  /\ modified' = FALSE /\ modelPending' = FALSE
  /\ SetRFLinkRate(configRate, TRUE, InBinding)
  /\ UNCHANGED <<timer, configRate, spamVars, synced, bindVars, handsetVars, sinceTlm, told>>

KeepBindingMode ==
  /\ Goes("bind", "status")
  /\ ~(InBinding /\ bindCount > BindingSpam)
  /\ UNCHANGED <<connectionState, timer, configVars, commitInProgress, spamVars, synced,
                 bindVars, handsetVars, radioVars, sinceTlm, told>>

\* Mutant: it stays at the rate of binding.
ExitBindingModeThere ==
  /\ Goes("bind", "status")
  /\ InBinding /\ bindCount > BindingSpam
  /\ InBinding' = FALSE
  /\ \E r \in Adjusted : SetRate(r)
  /\ sinceChange' = 0 /\ timer' = TRUE /\ connectionState' = "awaitingModelId"
  /\ UNCHANGED <<newSwitches, modelPending, commitInProgress, spamVars, synced,
                 bindCount, handsetVars, sinceTlm, rate>>

\* With UARTconnected once more.
ExitBindingMode ==
  /\ Goes("bind", "status")
  /\ InBinding /\ bindCount > BindingSpam
  /\ InBinding' = FALSE
  /\ \E r \in Adjusted, sameIQ \in BOOLEAN :
       /\ SetRate(r) /\ rate' = r /\ newSwitches' = FALSE
       /\ connectionState' = IF IsSet(r, sameIQ, FALSE) THEN "awaitingModelId"
                             ELSE "disconnected"
  /\ sinceChange' = 0 /\ timer' = TRUE
  /\ UNCHANGED <<modelPending, commitInProgress, spamVars, synced, bindCount,
                 handsetVars, sinceTlm>>

-------------------------------------------------------------------------------
\* Channels come from the handset, or stop coming.
HandsetSends ==
  /\ controller /\ rc # "fresh" /\ rc' = "fresh"
  /\ UNCHANGED <<pc, connectionState, timer, configVars, commitInProgress, spamVars,
                 synced, bindVars, controller, radioVars, sinceTlm, told>>

HandsetFallsSilent ==
  /\ rc = "fresh" /\ rc' = "stale"
  /\ UNCHANGED <<pc, connectionState, timer, configVars, commitInProgress, spamVars,
                 synced, bindVars, controller, radioVars, sinceTlm, told>>

ClockTick ==
  /\ sinceTlm' = IF sinceTlm \in 0 .. LostTimeout THEN sinceTlm + 1 ELSE sinceTlm
  /\ sinceChange' = IF sinceChange <= Disconnect THEN sinceChange + 1 ELSE sinceChange
  /\ <<sinceTlm, sinceChange>>' # <<sinceTlm, sinceChange>>
  /\ UNCHANGED <<pc, connectionState, timer, configVars, commitInProgress, spamVars,
                 synced, bindVars, handsetVars, rate, told>>

Asked ==
  \/ ModelUpdateReq
  \/ \E r \in Rates : SetPacketRateIdx(r)
  \/ \E spams \in BOOLEAN : SetOther(spams)
  \/ EnterBindingMode

Loop ==
  \/ UpdateConnectDisconnectStatus
  \/ NothingAsked \/ UARTconnected \/ UARTdisconnected \/ Asked
  \/ Serve
  \/ CheckConfigChangePending \/ ConfigChangeCommit
  \/ KeepBindingMode \/ ExitBindingMode

Interrupt == SendSync \/ SendData \/ ProcessDownlinkPacket

Next == Loop \/ Interrupt \/ HandsetSends \/ HandsetFallsSilent \/ ClockTick

Spec == Init /\ [][Next]_vars

\* loop() and the clock go on, the timer ticks, its slots are for sync packets
\* again and again while there is spam, and for data in binding mode.
FairSpec ==
  /\ Spec
  /\ WF_vars(Loop) /\ WF_vars(ClockTick)
  /\ SF_vars(SendSync /\ spam > 0) /\ SF_vars(SendData /\ InBinding)

-------------------------------------------------------------------------------
\* The radio is at the configured rate unless a change is pending or it binds,
\* whatever order commits, handsets, models and binding come in.
RateFollowsConfig == ~modified /\ ~modelPending /\ ~InBinding => rate = configRate

\* A transmitter that is connected never leaves its rate for one that no sync
\* packet has named since it was configured.
RateAnnounced ==
  [][rate' # rate /\ connectionState = "connected" /\ ~InBinding /\ ~InBinding' => told]_vars

\* When nobody asks for anything more that would change something and the handset
\* neither flaps nor falls silent for good, every change comes into force and
\* binding mode ends.
ConfigApplied ==
  /\ <>[][Asked \/ UARTconnected => NothingAsked]_vars /\ <>[](rc # "stale")
  => <>[](connectionState # "noCrossfire" => ~InBinding /\ ~modified /\ ~modelPending)

\* tx_main.cpp, 1045: "Lock the RF rate and freq while binding".
BindsAtItsRate == InBinding => rate = BindRate

\* tx_main.cpp, 430: "We are connected again after a rate change".
ConnectedAgain == connectionState = "connected" => sinceTlm <= sinceChange
===============================================================================
