------------------------------ MODULE OtaReceiver ------------------------------
(***************************************************************************)
(* The slot clock of the receiver: the timer interrupt that counts slots,  *)
(* hops and answers with telemetry, the sync packets that set it, and the  *)
(* main loop that gives a connection up (rx_main.cpp).                     *)
(***************************************************************************)
EXTENDS Fhss

VARIABLES
  rxState,          \* connectionState
  rxTimer,          \* hwTimer::running
  rxNonce,          \* OtaNonce
  rxFhss,           \* FHSSptr
  rxFreq,           \* the channel the radio is tuned to
  rxDenom,          \* ExpressLRS_currTlmDenom
  alreadyTLMresp,   \* this slot carries telemetry
  lostPc,           \* where LostConnection is
  teamraceHasModelMatch   \* no other receiver of a team race is selected

clockVars == <<rxNonce, rxFhss, rxFreq>>
rxVars == <<clockVars, rxState, rxTimer, rxDenom, alreadyTLMresp, lostPc,
            teamraceHasModelMatch>>

RxInit ==
  /\ rxState = "disconnected" /\ rxTimer = FALSE
  /\ rxNonce = 0 /\ rxFhss = 0 /\ rxFreq = SyncChannel
  /\ rxDenom = 1 /\ alreadyTLMresp = FALSE
  /\ lostPc = "idle"
  /\ teamraceHasModelMatch = TRUE

-------------------------------------------------------------------------------
(* The radio interrupt.                                                    *)
OutOfStep(pkt) ==
  \/ rxState = "disconnected"
  \/ rxNonce # pkt.nonce
  \/ rxFhss # pkt.fhss

\* modelChanged: the model match of the packet is not the one we had.
\* TentativeConnection, then RXdoneISR resumes the timer.
ProcessSync(pkt, modelChanged) ==
  /\ rxDenom' = pkt.denom
  /\ IF OutOfStep(pkt) \/ modelChanged
       THEN /\ rxFhss' = SetCurrIndex(pkt.fhss)
            /\ rxNonce' = pkt.nonce
            /\ rxState' = "tentative"
            /\ rxTimer' = TRUE
       ELSE UNCHANGED <<rxFhss, rxNonce, rxState, rxTimer>>
  /\ UNCHANGED <<rxFreq, lostPc, teamraceHasModelMatch>>

\* Channels and data change no part of the slot clock.
ProcessRc(pkt) ==
  UNCHANGED <<clockVars, rxState, rxTimer, rxDenom, lostPc, teamraceHasModelMatch>>

-------------------------------------------------------------------------------
(* The timer interrupt.  The tick in the middle of the slot clears         *)
(* alreadyTLMresp, the tock at its end starts the next slot.               *)
\* Mutant: the hop is decided before the nonce advances.
HandleFHSSLate ==
  IF HopSlot(rxNonce) /\ rxState # "disconnected"
    THEN rxFhss' = NextIndex(rxFhss) /\ rxFreq' = HopTable[rxFhss']
    ELSE UNCHANGED <<rxFhss, rxFreq>>

HandleFHSS ==
  IF HopSlot(rxNonce') /\ rxState # "disconnected"
    THEN rxFhss' = NextIndex(rxFhss) /\ rxFreq' = HopTable[rxFhss']
    ELSE UNCHANGED <<rxFhss, rxFreq>>

HandleSendDataDl ==
  alreadyTLMresp' =
    (/\ rxState # "disconnected" /\ teamraceHasModelMatch
     /\ TelemetrySlot(rxNonce', rxDenom))

Tock ==
  /\ rxTimer
  /\ rxNonce' = NextNonce(rxNonce)
  /\ HandleFHSS
  /\ HandleSendDataDl
  /\ UNCHANGED <<rxState, rxTimer, rxDenom, lostPc, teamraceHasModelMatch>>

-------------------------------------------------------------------------------
(* The main loop.                                                          *)
\* Link quality above what chance alone gives, and a settled timer.
GotConnection ==
  /\ lostPc = "idle" /\ rxState = "tentative" /\ rxTimer
  /\ rxState' = "connected"
  /\ UNCHANGED <<clockVars, rxTimer, rxDenom, alreadyTLMresp, lostPc,
                 teamraceHasModelMatch>>

\* confirmFrameAvailable: the pilot selects this model of the race or another.
\* RxOutputs has the switch; here it turns at any moment.
TeamraceSelects ==
  /\ teamraceHasModelMatch' = ~teamraceHasModelMatch
  /\ UNCHANGED <<clockVars, rxState, rxTimer, rxDenom, alreadyTLMresp, lostPc>>

\* No lock in time, no valid packet in time, or another air rate asked for.
LostConnection ==
  /\ lostPc = "idle" /\ rxState # "disconnected"
  /\ rxState' = "disconnected"
  /\ alreadyTLMresp' = FALSE
  /\ lostPc' = "stop"
  /\ UNCHANGED <<clockVars, rxTimer, rxDenom, teamraceHasModelMatch>>

\* ... the timer stops, just after a tock if it runs,
LostStop ==
  /\ lostPc = "stop" /\ lostPc' = "retune"
  /\ rxTimer' = FALSE
  /\ UNCHANGED <<clockVars, rxState, rxDenom, alreadyTLMresp,
                 teamraceHasModelMatch>>

\* ... and SetRFLinkRate retunes the radio to the sync channel.
LostRetune ==
  /\ lostPc = "retune" /\ lostPc' = "idle"
  /\ rxFreq' = SyncChannel
  /\ UNCHANGED <<rxNonce, rxFhss, rxState, rxTimer, rxDenom, alreadyTLMresp,
                 teamraceHasModelMatch>>

RxTypeOK ==
  /\ rxState \in {"disconnected", "tentative", "connected"}
  /\ rxTimer \in BOOLEAN
  /\ rxNonce \in Nonce /\ rxFhss \in 0 .. SequenceCount - 1 /\ rxFreq \in Channels
  /\ rxDenom \in Denoms /\ alreadyTLMresp \in BOOLEAN
  /\ teamraceHasModelMatch \in BOOLEAN
  /\ lostPc \in {"idle", "stop", "retune"}
===============================================================================
