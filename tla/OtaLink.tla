-------------------------------- MODULE OtaLink --------------------------------
(***************************************************************************)
(* The two slot clocks on one radio link.  A slot is: the transmitter's    *)
(* timer interrupt, the packet in the air, its end at both radios, and the *)
(* receiver's tock, which the phase lock keeps between two of the          *)
(* transmitter's.  Both main loops run at any moment in between.           *)
(***************************************************************************)
EXTENDS OtaTransmitter, OtaReceiver

CONSTANT
  Stale    \* whether the handset may fall silent: {FALSE} or BOOLEAN

ASSUME OtaLinkAssumption == Stale # {} /\ Stale \subseteq BOOLEAN

VARIABLES
  turn,    \* what comes next in the slot
  air      \* the packet in the air: {} or {packet}

vars == <<txVars, rxVars, turn, air>>

Init ==
  /\ TxInit /\ RxInit
  /\ turn = "timer" /\ air = {}

Turn(from, to) == turn = from /\ turn' = to

-------------------------------------------------------------------------------
(* The interrupts.                                                         *)
TxTimer ==
  /\ Turn("timer", "air")
  /\ \E stale \in Stale : TimerCallback(stale, air')
  /\ UNCHANGED rxVars

\* A radio that is sending telemetry, or tuned elsewhere, hears nothing, and a
\* packet other than sync passes the CRC only with its sender's nonce.
Hearable(pkt) ==
  /\ ~alreadyTLMresp
  /\ rxFreq = pkt.freq
  /\ pkt.type = "sync" \/ rxNonce = pkt.nonce

RxHears ==
  /\ Turn("air", "sent")
  /\ \E pkt \in air :
       /\ Hearable(pkt)
       /\ \/ pkt.type = "rc" /\ ProcessRc(pkt)
          \/ pkt.type = "sync" /\ \E changed \in BOOLEAN : ProcessSync(pkt, changed)
  /\ air' = {} /\ alreadyTLMresp' = FALSE
  /\ UNCHANGED txVars

\* Nothing was sent, nothing could be heard, or the packet is lost.
RxMisses ==
  /\ Turn("air", "sent")
  /\ air' = {} /\ alreadyTLMresp' = FALSE
  /\ UNCHANGED <<txVars, clockVars, rxState, rxTimer, rxDenom, lostPc,
                 teamraceHasModelMatch>>

TxDone ==
  /\ Turn("sent", "tock")
  /\ TXdoneISR \/ (~busy /\ UNCHANGED txVars)
  /\ UNCHANGED <<rxVars, air>>

RxTock ==
  /\ Turn("tock", "timer")
  /\ Tock \/ (~rxTimer /\ UNCHANGED rxVars)
  /\ UNCHANGED <<txVars, air>>

-------------------------------------------------------------------------------
(* The main loops.                                                         *)
TxLoop ==
  /\ SyncInterval
  /\ UNCHANGED <<rxVars, turn, air>>

RxConnects ==
  /\ GotConnection
  /\ UNCHANGED <<txVars, turn, air>>

RxSelects ==
  /\ TeamraceSelects
  /\ UNCHANGED <<txVars, turn, air>>

RxLoses ==
  /\ LostConnection
  /\ UNCHANGED <<txVars, turn, air>>

\* `while(micros() - PFDloop.getIntEventTime() > 250);` waits for the tock.
RxLostRest ==
  /\ (LostStop /\ (rxTimer => turn = "timer")) \/ LostRetune
  /\ UNCHANGED <<txVars, turn, air>>

Next ==
  \/ TxTimer \/ RxHears \/ RxMisses \/ TxDone \/ RxTock
  \/ TxLoop \/ RxConnects \/ RxSelects \/ RxLoses \/ RxLostRest

Spec == Init /\ [][Next]_vars

-------------------------------------------------------------------------------
(* The timers of both ends keep running, the sync interval passes, and the *)
(* main loop of the receiver finishes what it began and gives up a         *)
(* connection whose timer does not run (RxLockTimeoutMs).  From some       *)
(* moment on the radio link is good: no packet that could be heard is      *)
(* lost, a receiver that follows has no reason to give up, no packet ends  *)
(* in the one slot that LostConnection takes, and no sync packet is        *)
(* withheld because the model is armed with telemetry "Disarmed".          *)
Slot == TxTimer \/ RxHears \/ RxMisses \/ TxDone \/ RxTock

\* Hearing a packet may change nothing: then missing it is no loss.
Lost == RxMisses /\ ~RxHears /\ \E pkt \in air : Hearable(pkt)

Interrupted == RxHears /\ ~RxMisses /\ lostPc # "idle"

FairSpec ==
  /\ Spec
  /\ WF_vars(Slot) /\ WF_vars(TxLoop) /\ SF_vars(RxLostRest)
  /\ WF_vars(RxLoses /\ ~rxTimer)

Withheld ==
  TxTimer /\ RegularSyncNow(txNonce') /\ \E pkt \in air' : pkt.type = "rc"

LinkGood ==
  <>[][~Lost /\ ~(RxLoses /\ rxTimer) /\ ~Interrupted /\ ~Withheld]_vars

-------------------------------------------------------------------------------
\* The variables range over what their fields can hold.
TypeOK ==
  /\ TxTypeOK /\ RxTypeOK
  /\ turn \in {"timer", "air", "sent", "tock"}

\* The receiver follows the transmitter.
Following == rxState # "disconnected" /\ rxTimer

\* Between two slots a receiver that follows has counted the slot to come and
\* is at the transmitter's place of the hop sequence, whatever was lost, however
\* the two disagree on telemetry, and however a lost connection and a late sync
\* packet interleave.  A transmitter in a commit may have gone past the end of
\* the sequence, where the receiver starts over.
InStep ==
  turn = "timer" /\ Following =>
    /\ rxNonce = NextNonce(txNonce)
    /\ rxFhss = SetCurrIndex(txFhss)

\* Every hop of a receiver that follows lands on the transmitter's channel, and
\* so it hears again even if the main loop retuned the radio behind its back.
MeetAtHop ==
  [][RxTock /\ Following /\ HopSlot(rxNonce') => rxFreq' = txFreq']_vars

\* Where both ends agree on the telemetry ratio, the receiver answers in the slots
\* in which the transmitter is silent and listens and in no other; it answers in
\* each of them unless a team race mutes it, and a muted one never.
TelemetryMeets ==
  [][RxTock /\ Following /\ rxDenom = txDenom =>
       (alreadyTLMresp' <=>
          teamraceHasModelMatch /\ tlmPhase' = "preReceiveGap")]_vars

\* On a good link every receiver, wherever the disturbance left it, comes to
\* follow the transmitter, and does so for good.
Acquires == LinkGood => <>[]Following

-------------------------------------------------------------------------------
(* The inductive invariant, for a handset that never falls silent and      *)
(* without a commit of the configuration.                                  *)
HandsetAlive == Stale = {FALSE}

\* No commit, and a hop index and a channel that belong together.
TxClock ==
  /\ ~committing
  /\ txFhss < SequenceCount
  /\ txFreq = HopTable[txFhss]

\* A slot without transmission is a telemetry slot: its nonce is even, so that
\* none is the last slot before a hop.
TxSlot ==
  /\ turn \in {"timer", "tock"} => ~busy
  /\ turn = "air" => (busy <=> air # {})
  /\ turn \in {"air", "sent"} /\ ~busy => txNonce % 2 = 0
  /\ turn \in {"timer", "tock"} =>
       (tlmPhase = "preReceiveGap" <=> TelemetrySlot(txNonce + 1, txDenom))
  /\ turn \in {"air", "sent"} => tlmPhase # "preReceiveGap"

\* A packet in the air tells where the transmitter is.
AirSlot ==
  /\ turn # "air" => air = {}
  /\ \A pkt \in air :
       /\ pkt.type \in {"sync", "rc"}
       /\ pkt.nonce = txNonce
       /\ pkt.type = "sync" => pkt.fhss = txFhss /\ pkt.denom \in Denoms

\* The transmitter hops as the packet ends, the receiver at the tock.
InStepNow ==
  /\ turn = "timer" =>
       rxNonce = NextNonce(txNonce) /\ rxFhss = txFhss
  /\ turn \in {"air", "sent"} =>
       rxNonce = txNonce /\ rxFhss = txFhss
  /\ turn = "tock" =>
       /\ rxNonce = txNonce
       /\ txFhss = IF HopSlot(txNonce + 1) THEN NextIndex(rxFhss) ELSE rxFhss

RxSlot ==
  Following =>
    /\ InStepNow
    /\ turn = "timer" /\ alreadyTLMresp => TelemetrySlot(rxNonce, rxDenom)

\* Inductive.  It holds more than InStep does: the places within a slot, the
\* parity of silent slots, and what the packet in the air says.
OtaInv == TypeOK /\ TxClock /\ TxSlot /\ AirSlot /\ RxSlot
===============================================================================
