---------------------------- MODULE OtaTransmitter ----------------------------
(***************************************************************************)
(* The slot clock of the transmitter: the timer interrupt that sends one   *)
(* packet per slot, the TXdone interrupt that hops and turns to receive,   *)
(* the choice of sync packets, and the main loop that commits the          *)
(* configuration while both interrupts go on (tx_main.cpp).                *)
(***************************************************************************)
EXTENDS Fhss

CONSTANTS
  SyncSpamAmount,      \* syncSpamAmount
  SyncSpamAfter,       \* syncSpamAmountAfterRateChange
  MaxCommitTicks       \* bound: timer ticks that fall into one config commit

ASSUME TransmitterAssumption ==
  /\ 2 \in Denoms    \* TLM_RATIO_1_2, the boost
  /\ SyncSpamAmount \in Nat \ {0} /\ SyncSpamAfter \in Nat
  /\ MaxCommitTicks \in Nat

VARIABLES
  txNonce,           \* OtaNonce
  txFhss,            \* FHSSptr
  txFreq,            \* the channel the radio is tuned to
  txDenom,           \* ExpressLRS_currTlmDenom
  boost,             \* syncTelemBoostState
  tlmPhase,          \* TelemetryRcvPhase
  busy,              \* busyTransmitting
  syncSpam,          \* syncSpamCounter
  syncSpamAfter,     \* syncSpamCounterAfterRateChange
  syncSlot,          \* syncSlot of SendRCdataToRF
  syncDue,           \* now - SyncPacketLastSent > SyncInterval
  configModified,    \* config.IsModified() || ModelUpdatePending
  committing,        \* commitInProgress
  commitPc,          \* where CheckConfigChangePending is
  commitTicks        \* ticks in this commit, up to MaxCommitTicks

hopVars == <<txNonce, txFhss, txFreq, tlmPhase, busy>>
syncVars == <<txDenom, boost, syncSpam, syncSpamAfter, syncSlot, syncDue>>
commitVars == <<configModified, committing, commitPc, commitTicks>>
txVars == <<hopVars, syncVars, commitVars>>

TxInit ==
  /\ txNonce = 0 /\ txFhss = 0 /\ txFreq = SyncChannel
  /\ txDenom = 1 /\ boost = "idle"
  /\ tlmPhase = "transmitting" /\ busy = FALSE
  /\ syncSpam = 0 /\ syncSpamAfter = 0 /\ syncSlot = 0 /\ syncDue = FALSE
  /\ configModified = FALSE /\ committing = FALSE
  /\ commitPc = "idle" /\ commitTicks = 0

-------------------------------------------------------------------------------
(* SendRCdataToRF: what the slot with nonce n carries.                     *)
SpamNow(n) ==
  /\ syncSpam > 0 \/ (syncSpamAfter > 0 /\ OnSyncChannel(txFhss))
  /\ n % HopInterval \in {1, 2}

RegularSyncNow(n) ==
  /\ ~SpamNow(n)
  /\ syncSlot \div 2 <= n % HopInterval
  /\ syncDue
  /\ OnSyncChannel(txFhss)

\* UpdateTlmRatioEffective: a requested boost; else the configured or default
\* ratio, or armed with telemetry off, which tells the receiver first and leaves
\* the transmitter listening on the old ratio.
UpdateTlmRatio(told) ==
  IF boost = "requested"
    THEN boost' = "boosting" /\ told = 2 /\ txDenom' = 2
    ELSE /\ boost' = "idle"
         /\ txDenom' = told \/ (told = 1 /\ UNCHANGED txDenom)

SyncPacket(n, told) ==
  [type |-> "sync", nonce |-> n, fhss |-> txFhss, denom |-> told, freq |-> txFreq]

RcPacket(n) == [type |-> "rc", nonce |-> n, freq |-> txFreq]

\* Whether the rate in the packet is the current one and the receiver is back
\* decides what becomes of the spam that follows a rate change.
GenerateSyncPacketData(told) ==
  /\ syncSpam' = IF syncSpam > 0 THEN syncSpam - 1 ELSE 0
  /\ \/ syncSpamAfter' \in {syncSpamAfter, 0}
     \/ syncSpamAfter > 0 /\ syncSpamAfter' = syncSpamAfter - 1
  /\ syncDue' = FALSE
  /\ UpdateTlmRatio(told)

SendSync(n, pkt) ==
  /\ SpamNow(n) \/ RegularSyncNow(n)
  /\ \E told \in Denoms :
       /\ GenerateSyncPacketData(told)
       /\ pkt = {SyncPacket(n, told)}
  /\ syncSlot' = IF SpamNow(n) THEN 0 ELSE (syncSlot + 1) % (2 * HopInterval)

\* skipSync: telemetry is off while armed, and the receiver knows.
SkipSync == txDenom = 1

\* Mutant: every data packet asks for a sync packet at once.
SendDataSpams(n, pkt) ==
  /\ ~SpamNow(n) /\ (RegularSyncNow(n) => SkipSync)
  /\ pkt = {RcPacket(n)}
  /\ \/ UNCHANGED <<syncSpam, boost>>
     \/ syncSpam' = 1 /\ boost' = "requested"
  /\ UNCHANGED <<txDenom, syncSpamAfter, syncSlot, syncDue>>

\* Channels, or uplink data: it asks for the boosted telemetry ratio, and for a
\* sync packet at once unless a boost is already under way.
SendData(n, pkt) ==
  /\ ~SpamNow(n) /\ (RegularSyncNow(n) => SkipSync)
  /\ pkt = {RcPacket(n)}
  /\ \/ UNCHANGED <<syncSpam, boost>>
     \/ /\ syncSpam' = IF boost = "idle" THEN 1 ELSE syncSpam
        /\ boost' = "requested"
  /\ UNCHANGED <<txDenom, syncSpamAfter, syncSlot, syncDue>>

\* stale: the handset has been silent for a second, so nothing is sent.
SendRCdataToRF(n, stale, pkt) ==
  \/ stale /\ pkt = {} /\ UNCHANGED <<busy, syncVars>>
  \/ ~stale /\ busy' = TRUE /\ (SendSync(n, pkt) \/ SendData(n, pkt))

-------------------------------------------------------------------------------
(* The timer interrupt.  pkt is the set of packets it puts on the air.     *)
\* A commit blocks the radio: the tick only counts, hops included.
NonceAdvance(pkt) ==
  /\ committing /\ commitTicks < MaxCommitTicks
  /\ pkt = {}
  /\ txNonce' = NextNonce(txNonce)
  /\ txFhss' = IF HopSlot(txNonce' + 1) THEN (txFhss + 1) % FhssRange ELSE txFhss
  /\ commitTicks' = commitTicks + 1
  /\ UNCHANGED <<txFreq, tlmPhase, busy, syncVars, configModified, committing, commitPc>>

Listen(pkt) ==
  /\ ~committing /\ tlmPhase = "preReceiveGap"
  /\ pkt = {}
  /\ txNonce' = NextNonce(txNonce)
  /\ tlmPhase' = "expectingTelem"
  /\ UNCHANGED <<txFhss, txFreq, busy, syncVars, commitVars>>

Transmit(stale, pkt) ==
  /\ ~committing /\ tlmPhase # "preReceiveGap"
  /\ txNonce' = NextNonce(txNonce)
  /\ tlmPhase' = "transmitting"
  /\ SendRCdataToRF(txNonce', stale, pkt)
  /\ UNCHANGED <<txFhss, txFreq, commitVars>>

TimerCallback(stale, pkt) == NonceAdvance(pkt) \/ Listen(pkt) \/ Transmit(stale, pkt)

\* Mutants: the current slot taken for the next one, the frequency read before
\* the index advances.
HopBySlotNow ==
  IF HopSlot(txNonce)
    THEN txFhss' = NextIndex(txFhss) /\ txFreq' = HopTable[txFhss']
    ELSE UNCHANGED <<txFhss, txFreq>>

HopToOldIndex ==
  IF HopSlot(txNonce + 1)
    THEN txFhss' = NextIndex(txFhss) /\ txFreq' = HopTable[txFhss]
    ELSE UNCHANGED <<txFhss, txFreq>>

\* The hop to the frequency of the next slot.
HopForNextSlot ==
  IF HopSlot(txNonce + 1)
    THEN txFhss' = NextIndex(txFhss) /\ txFreq' = HopTable[txFhss']
    ELSE UNCHANGED <<txFhss, txFreq>>

\* Mutant: the current slot taken for the next one.
NowIsTLM == TelemetrySlot(txNonce, txDenom)

NextIsTLM == TelemetrySlot(txNonce + 1, txDenom)

\* TXdoneISR: the hop, and the turn to receive before a telemetry slot.
TXdoneISR ==
  /\ busy
  /\ busy' = FALSE
  /\ HopForNextSlot
  /\ tlmPhase' = IF NextIsTLM THEN "preReceiveGap" ELSE tlmPhase
  /\ UNCHANGED <<txNonce, syncVars, commitVars>>

-------------------------------------------------------------------------------
(* The main loop.                                                          *)
\* The configured interval since the last sync packet has passed.
SyncInterval ==
  /\ ~syncDue /\ syncDue' = TRUE
  /\ UNCHANGED <<hopVars, txDenom, boost, syncSpam, syncSpamAfter, syncSlot, commitVars>>

\* A user interface has changed the configuration and asked for sync spam:
\* SetSyncSpam, and ModelUpdateReq for a model with another configuration.
SetSyncSpam ==
  /\ commitPc = "idle"
  /\ configModified' = TRUE
  /\ syncSpam' = SyncSpamAmount /\ syncSpamAfter' = SyncSpamAfter
  /\ UNCHANGED <<hopVars, txDenom, boost, syncSlot, syncDue,
                 committing, commitPc, commitTicks>>

CommitStep(from, to) ==
  /\ commitPc = from /\ commitPc' = to
  /\ UNCHANGED <<txNonce, txFhss, txFreq, busy, syncVars, configModified>>

\* CheckConfigChangePending: the sync spam has run out,
CommitBegin ==
  /\ configModified /\ syncSpam = 0
  /\ CommitStep("idle", "wait")
  /\ UNCHANGED <<tlmPhase, committing, commitTicks>>

\* ... `while (busyTransmitting);` has ended,
CommitWait ==
  /\ ~busy
  /\ CommitStep("wait", "claim")
  /\ UNCHANGED <<tlmPhase, committing, commitTicks>>

\* ... `commitInProgress = true;`
CommitClaim ==
  /\ CommitStep("claim", "settle")
  /\ committing' = TRUE /\ commitTicks' = 0
  /\ UNCHANGED tlmPhase

\* Mutant: the radio stays in receive mode.
CommitKeepsPhase ==
  /\ CommitStep("settle", "commit")
  /\ UNCHANGED <<tlmPhase, committing, commitTicks>>

\* ... and a radio in receive mode goes back to the normal send mode.
CommitSettle ==
  /\ CommitStep("settle", "commit")
  /\ tlmPhase' = "transmitting"
  /\ UNCHANGED <<committing, commitTicks>>

\* ConfigChangeCommit, for changes that leave the rate, the IQ and the switch
\* mode as they are: SetRFLinkRate returns early.
ConfigChangeCommit ==
  /\ commitPc = "commit" /\ commitPc' = "idle"
  /\ configModified' = FALSE /\ committing' = FALSE /\ commitTicks' = 0
  /\ UNCHANGED <<hopVars, syncVars>>

TxTypeOK ==
  /\ txNonce \in Nonce /\ txFhss \in HopIndex /\ txFreq \in Channels
  /\ txDenom \in Denoms /\ boost \in {"idle", "requested", "boosting"}
  /\ tlmPhase \in {"transmitting", "preReceiveGap", "expectingTelem"}
  /\ busy \in BOOLEAN
  /\ syncSpam \in Nat /\ syncSpamAfter \in Nat
  /\ syncSlot \in 0 .. 2 * HopInterval - 1 /\ syncDue \in BOOLEAN
  /\ configModified \in BOOLEAN /\ committing \in BOOLEAN
  /\ commitPc \in {"idle", "wait", "claim", "settle", "commit"}
  /\ commitTicks \in 0 .. MaxCommitTicks
===============================================================================
