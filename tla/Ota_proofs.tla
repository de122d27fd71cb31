------------------------------ MODULE Ota_proofs -------------------------------
(***************************************************************************)
(* Proofs about the two slot clocks, for every hop sequence, hop interval  *)
(* and set of telemetry ratios that FhssAssumption allows: a receiver that *)
(* follows is in step with the transmitter, lands on its channel with      *)
(* every hop, and answers in the slots in which it listens.  Through       *)
(* commits of any number of slots and a silent handset both ends count     *)
(* slots alike, and only a lapse makes a receiver that follows lose its    *)
(* place.                                                                  *)
(***************************************************************************)
EXTENDS OtaCommit, TLAPS

-------------------------------------------------------------------------------
(* Arithmetic of slots.                                                    *)
LEMMA EvenMultiple ==
  ASSUME NEW n \in Nat, NEW d \in Nat \ {0}, d % 2 = 0, n % d = 0
  PROVE  n % 2 = 0
<1>1. PICK k \in Nat : d = 2 * k
  BY SMT
<1>2. PICK q \in Nat : n = d * q
  BY SMT
<1>3. n = 2 * (k * q)
  BY <1>1, <1>2, SMT
<1> QED BY <1>3, SMT

\* Counting around a range keeps the remainder by its divisors.
LEMMA WrapMod ==
  ASSUME NEW r \in Nat \ {0}, NEW n \in 0 .. r - 1, NEW d \in Nat \ {0}, r % d = 0
  PROVE  ((n + 1) % r) % d = (n + 1) % d
<1>1. CASE n + 1 < r
  <2>1. (n + 1) % r = n + 1
    BY <1>1, SMT
  <2> QED BY <2>1
<1>2. CASE n + 1 = r
  <2>1. (n + 1) % r = 0 /\ 0 % d = 0
    BY <1>2, SMT
  <2> QED BY <2>1, <1>2
<1> QED BY <1>1, <1>2, SMT

\* A remainder is below its divisor.
LEMMA ModRange ==
  ASSUME NEW r \in Nat \ {0}, NEW n \in Nat
  PROVE  n % r \in 0 .. r - 1 /\ (n < r => n % r = n)
BY SMT

\* The slots that the next nonce names.
LEMMA NonceFacts ==
  ASSUME NEW n \in Nonce
  PROVE  /\ n \in Nat /\ NextNonce(n) \in Nonce
         /\ HopSlot(NextNonce(n)) <=> HopSlot(n + 1)
         /\ \A d \in Denoms :
              TelemetrySlot(NextNonce(n), d) <=> TelemetrySlot(n + 1, d)
<1>1. NonceRange \in Nat \ {0} /\ n \in 0 .. NonceRange - 1
  BY FhssAssumption DEF FhssAssumption, Nonce
<1>2. NextNonce(n) \in Nonce
  BY <1>1, ModRange DEF NextNonce, Nonce
<1>3. HopSlot(NextNonce(n)) <=> HopSlot(n + 1)
  <2>1. HopInterval \in Nat \ {0} /\ NonceRange % HopInterval = 0
    BY FhssAssumption DEF FhssAssumption
  <2>2. ((n + 1) % NonceRange) % HopInterval = (n + 1) % HopInterval
    BY <1>1, <2>1, WrapMod, Zenon
  <2> QED BY <2>2 DEF HopSlot, NextNonce
<1>4. ASSUME NEW d \in Denoms
      PROVE  TelemetrySlot(NextNonce(n), d) <=> TelemetrySlot(n + 1, d)
  <2>1. CASE d = 1
    BY <2>1 DEF TelemetrySlot
  <2>2. CASE d # 1
    <3>1. NonceRange % d = 0
      BY <2>2, FhssAssumption DEF FhssAssumption
    <3>2. d \in Nat \ {0}
      BY FhssAssumption DEF FhssAssumption
    <3>3. ((n + 1) % NonceRange) % d = (n + 1) % d
      BY <1>1, <3>1, <3>2, WrapMod
    <3> QED BY <3>3 DEF TelemetrySlot, NextNonce
  <2> QED BY <2>1, <2>2
<1> QED BY <1>1, <1>2, <1>3, <1>4

\* A telemetry slot has an even nonce; the last slot before a hop an odd one.
LEMMA Parity ==
  ASSUME NEW n \in Nat
  PROVE  /\ HopSlot(n) => n % 2 = 0
         /\ \A d \in Denoms : TelemetrySlot(n, d) => n % 2 = 0
         /\ n % 2 = 0 => (n + 1) % 2 # 0
<1>1. HopSlot(n) => n % 2 = 0
  BY EvenMultiple, FhssAssumption DEF FhssAssumption, HopSlot
<1>2. ASSUME NEW d \in Denoms, TelemetrySlot(n, d) PROVE n % 2 = 0
  <2>1. d \in Nat \ {0} /\ d % 2 = 0 /\ n % d = 0
    BY <1>2, FhssAssumption DEF FhssAssumption, TelemetrySlot
  <2> QED BY <2>1, EvenMultiple
<1>3. n % 2 = 0 => (n + 1) % 2 # 0
  BY SMT
<1> QED BY <1>1, <1>2, <1>3

\* Every index that a hop reaches is one of the table.
LEMMA HopFacts ==
  /\ SequenceCount \in Nat \ {0} /\ FhssRange \in Nat /\ SequenceCount <= FhssRange
  /\ 0 \in HopIndex
  /\ \A i \in 0 .. SequenceCount - 1 :
       /\ i \in HopIndex /\ HopTable[i] \in Channels
       /\ NextIndex(i) \in 0 .. SequenceCount - 1 /\ SetCurrIndex(i) = i
<1>1. /\ SequenceCount \in Nat \ {0} /\ FhssRange \in Nat
      /\ SequenceCount <= FhssRange
  BY FhssAssumption DEF FhssAssumption
<1>2. 0 \in HopIndex
  BY <1>1 DEF HopIndex
<1>3. ASSUME NEW i \in 0 .. SequenceCount - 1
      PROVE  /\ i \in HopIndex /\ HopTable[i] \in Channels
             /\ NextIndex(i) \in 0 .. SequenceCount - 1 /\ SetCurrIndex(i) = i
  <2>1. i \in HopIndex
    BY <1>1 DEF HopIndex
  <2>2. HopTable[i] \in Channels
    BY <2>1 DEF Channels
  <2>3. NextIndex(i) \in 0 .. SequenceCount - 1 /\ SetCurrIndex(i) = i
    <3>1. i \in Nat /\ i + 1 \in Nat /\ i < SequenceCount
      BY <1>1
    <3>2. (i + 1) % SequenceCount \in 0 .. SequenceCount - 1
      BY <3>1, <1>1, ModRange, Zenon
    <3>3. i % SequenceCount = i
      BY <3>1, <1>1, ModRange, Zenon
    <3> QED BY <3>2, <3>3 DEF NextIndex, SetCurrIndex
  <2> QED BY <2>1, <2>2, <2>3
<1> QED BY <1>1, <1>2, <1>3

-------------------------------------------------------------------------------
\* At power on.
LEMMA InitInv ==
  ASSUME Init
  PROVE  OtaInv
<1> USE DEF Init, TxInit, RxInit
<1>1. 0 \in Nonce /\ 1 \in Denoms /\ 2 * HopInterval - 1 \in Nat
  BY FhssAssumption, SMT DEF FhssAssumption, Nonce
<1>2. SyncChannel \in Channels /\ 0 \in 0 .. SequenceCount - 1
  BY HopFacts DEF SyncChannel, Channels
<1>3. TypeOK
  <2>1. 0 .. 2 * HopInterval - 1 # {} /\ 0 \in 0 .. 2 * HopInterval - 1
    BY <1>1
  <2>2. 0 \in 0 .. MaxCommitTicks
    BY TransmitterAssumption DEF TransmitterAssumption
  <2>3. TxTypeOK
    BY <1>1, <1>2, <2>1, <2>2, HopFacts, Zenon DEF TxTypeOK
  <2>4. RxTypeOK
    BY <1>1, <1>2, Zenon DEF RxTypeOK
  <2> QED BY <2>3, <2>4 DEF TypeOK
<1>4. TxClock
  <2>1. 0 < SequenceCount
    BY HopFacts
  <2> QED BY <2>1, Zenon DEF TxClock, SyncChannel
<1>5. TxSlot
  BY DEF TxSlot, TelemetrySlot
<1>6. AirSlot /\ RxSlot
  BY DEF AirSlot, RxSlot, Following
<1> QED BY <1>3, <1>4, <1>5, <1>6 DEF OtaInv

-------------------------------------------------------------------------------
(* The transmitter's timer: the nonce advances, and a silent slot is a     *)
(* telemetry slot.                                                         *)
LEMMA TimerFrame ==
  ASSUME HandsetAlive, OtaInv, TxTimer
  PROVE  /\ Listen(air') \/ Transmit(FALSE, air')
         /\ turn = "timer" /\ turn' = "air"
         /\ txNonce' = NextNonce(txNonce)
         /\ UNCHANGED <<txFhss, txFreq, configModified, committing, commitPc,
                        commitTicks>>
         /\ UNCHANGED <<rxState, rxTimer, rxNonce, rxFhss, rxFreq, rxDenom,
                        alreadyTLMresp, lostPc, teamraceHasModelMatch>>
<1>1. Listen(air') \/ Transmit(FALSE, air')
  <2>1. PICK stale \in Stale : TimerCallback(stale, air')
    BY DEF TxTimer
  <2>2. stale = FALSE
    BY <2>1 DEF HandsetAlive
  <2>3. ~NonceAdvance(air')
    BY DEF OtaInv, TxClock, NonceAdvance
  <2> QED BY <2>1, <2>2, <2>3 DEF TimerCallback
<1>2. turn = "timer" /\ turn' = "air" /\ UNCHANGED rxVars
  BY DEF TxTimer, Turn
<1>3. txNonce' = NextNonce(txNonce) /\ UNCHANGED <<txFhss, txFreq, commitVars>>
  BY <1>1 DEF Listen, Transmit
<1> QED BY <1>1, <1>2, <1>3 DEF rxVars, clockVars, commitVars

\* What a slot of the transmitter sends.
LEMMA SendFacts ==
  ASSUME NEW n, TxTypeOK, SendSync(n, air') \/ SendData(n, air')
  PROVE  /\ txDenom' \in Denoms /\ boost' \in {"idle", "requested", "boosting"}
         /\ syncSpam' \in Nat /\ syncSpamAfter' \in Nat
         /\ syncSlot' \in 0 .. 2 * HopInterval - 1 /\ syncDue' \in BOOLEAN
         /\ \/ \E told \in Denoms : air' = {SyncPacket(n, told)}
            \/ air' = {RcPacket(n)}
<1>1. HopInterval \in Nat \ {0} /\ 1 \in Denoms /\ 2 \in Denoms
  BY FhssAssumption, TransmitterAssumption
  DEF FhssAssumption, TransmitterAssumption
<1>2. CASE SendSync(n, air')
  <2>1. PICK told \in Denoms : /\ GenerateSyncPacketData(told)
                               /\ air' = {SyncPacket(n, told)}
    BY <1>2 DEF SendSync
  <2>2. txDenom' \in Denoms /\ boost' \in {"idle", "requested", "boosting"}
    BY <1>1, <2>1 DEF GenerateSyncPacketData, UpdateTlmRatio, TxTypeOK
  <2>3. syncSpam' \in Nat /\ syncSpamAfter' \in Nat
    BY <2>1 DEF GenerateSyncPacketData, TxTypeOK
  <2>4. syncSlot' \in 0 .. 2 * HopInterval - 1
    <3>1. 2 * HopInterval \in Nat \ {0} /\ syncSlot + 1 \in Nat
      BY <1>1 DEF TxTypeOK
    <3>2. (syncSlot + 1) % (2 * HopInterval) \in 0 .. 2 * HopInterval - 1
      BY <3>1, ModRange, Zenon
    <3>3. 0 \in 0 .. 2 * HopInterval - 1
      BY <3>1
    <3> QED BY <1>2, <3>2, <3>3, Zenon DEF SendSync
  <2>5. syncDue' \in BOOLEAN
    BY <2>1, Zenon DEF GenerateSyncPacketData
  <2> QED BY <2>1, <2>2, <2>3, <2>4, <2>5
<1>3. CASE SendData(n, air')
  <2>1. syncSpam' \in Nat /\ boost' \in {"idle", "requested", "boosting"}
    BY <1>3 DEF SendData, TxTypeOK
  <2>2. /\ UNCHANGED <<txDenom, syncSpamAfter, syncSlot, syncDue>>
        /\ air' = {RcPacket(n)}
    BY <1>3 DEF SendData
  <2> QED BY <2>1, <2>2 DEF TxTypeOK
<1> QED BY <1>2, <1>3

\* The timer's interrupt of the transmitter.
LEMMA TimerInv ==
  ASSUME HandsetAlive, OtaInv, TxTimer
  PROVE  OtaInv'
<1> USE TimerFrame
<1>1. txNonce \in Nonce /\ ~busy /\ TxTypeOK /\ RxTypeOK
  BY DEF OtaInv, TypeOK, TxTypeOK, TxSlot
<1>2. txNonce' \in Nonce /\ txNonce' \in Nat
  BY <1>1, NonceFacts
<1>3. RxTypeOK'
  BY <1>1 DEF RxTypeOK
<1>4. TxClock'
  BY DEF OtaInv, TxClock
<1>5. RxSlot'
  BY DEF OtaInv, RxSlot, InStepNow, Following
<1>6. CASE Listen(air')
  <2>1. /\ air' = {} /\ tlmPhase = "preReceiveGap" /\ tlmPhase' = "expectingTelem"
        /\ UNCHANGED <<busy, txDenom, boost, syncSpam, syncSpamAfter, syncSlot,
                       syncDue>>
    BY <1>6 DEF Listen, syncVars
  <2>2. txNonce' % 2 = 0
    <3>1. TelemetrySlot(txNonce + 1, txDenom) /\ txDenom \in Denoms
      BY <2>1 DEF OtaInv, TxSlot, TypeOK, TxTypeOK
    <3>2. TelemetrySlot(txNonce', txDenom)
      BY <3>1, <1>1, NonceFacts
    <3> QED BY <3>1, <3>2, <1>2, Parity
  <2>3. TxTypeOK'
    BY <1>1, <1>2, <2>1 DEF TxTypeOK
  <2>4. TxSlot' /\ AirSlot'
    BY <1>1, <2>1, <2>2 DEF TxSlot, AirSlot
  <2> QED BY <1>3, <1>4, <1>5, <2>3, <2>4 DEF OtaInv, TypeOK
<1>7. CASE Transmit(FALSE, air')
  <2>1. /\ busy' = TRUE /\ tlmPhase' = "transmitting"
        /\ SendSync(txNonce', air') \/ SendData(txNonce', air')
    BY <1>7 DEF Transmit, SendRCdataToRF
  <2>2. TxTypeOK'
    BY <1>1, <1>2, <2>1, SendFacts DEF TxTypeOK
  <2>3. \/ \E told \in Denoms : air' = {SyncPacket(txNonce', told)}
        \/ air' = {RcPacket(txNonce')}
    BY <1>1, <2>1, SendFacts
  <2>4. AirSlot'
    BY <2>3 DEF AirSlot, SyncPacket, RcPacket
  <2>5. TxSlot'
    BY <2>1, <2>3 DEF TxSlot
  <2> QED BY <1>3, <1>4, <1>5, <2>2, <2>4, <2>5 DEF OtaInv, TypeOK
<1> QED BY <1>6, <1>7

-------------------------------------------------------------------------------
(* The end of the packet at the receiver.                                  *)
LEMMA MissesInv ==
  ASSUME OtaInv, RxMisses
  PROVE  OtaInv'
<1>1. /\ turn = "air" /\ turn' = "sent" /\ air' = {} /\ alreadyTLMresp' = FALSE
      /\ UNCHANGED txVars
      /\ UNCHANGED <<rxNonce, rxFhss, rxFreq, rxState, rxTimer, rxDenom, lostPc,
                     teamraceHasModelMatch>>
  BY DEF RxMisses, Turn, clockVars
<1>2. UNCHANGED <<txNonce, txFhss, txFreq, tlmPhase, busy, txDenom, boost, syncSpam,
                  syncSpamAfter, syncSlot, syncDue, configModified, committing,
                  commitPc, commitTicks>>
  BY <1>1 DEF txVars, hopVars, syncVars, commitVars
<1>3. TypeOK'
  <2>1. TxTypeOK'
    BY <1>2 DEF OtaInv, TypeOK, TxTypeOK
  <2>2. RxTypeOK'
    BY <1>1 DEF OtaInv, TypeOK, RxTypeOK
  <2> QED BY <1>1, <2>1, <2>2 DEF TypeOK
<1>4. TxClock' /\ TxSlot' /\ AirSlot'
  BY <1>1, <1>2 DEF OtaInv, TxClock, TxSlot, AirSlot
<1>5. RxSlot'
  BY <1>1, <1>2 DEF OtaInv, RxSlot, InStepNow, Following
<1> QED BY <1>3, <1>4, <1>5 DEF OtaInv

\* A sync packet brings the receiver to the transmitter's place.
LEMMA HearsInv ==
  ASSUME OtaInv, RxHears
  PROVE  OtaInv'
<1>1. PICK pkt \in air :
        \/ pkt.type = "rc" /\ ProcessRc(pkt)
        \/ pkt.type = "sync" /\ \E changed \in BOOLEAN : ProcessSync(pkt, changed)
  BY DEF RxHears
<1>2. /\ turn = "air" /\ turn' = "sent" /\ air' = {} /\ alreadyTLMresp' = FALSE
      /\ UNCHANGED txVars
  BY DEF RxHears, Turn
<1>3. UNCHANGED <<txNonce, txFhss, txFreq, tlmPhase, busy, txDenom, boost, syncSpam,
                  syncSpamAfter, syncSlot, syncDue, configModified, committing,
                  commitPc, commitTicks>>
  BY <1>2 DEF txVars, hopVars, syncVars, commitVars
<1>4. TxTypeOK' /\ TxClock' /\ TxSlot' /\ AirSlot'
  BY <1>2, <1>3 DEF OtaInv, TypeOK, TxTypeOK, TxClock, TxSlot, AirSlot
<1>5. CASE pkt.type = "rc" /\ ProcessRc(pkt)
  <2>1. UNCHANGED <<rxNonce, rxFhss, rxFreq, rxState, rxTimer, rxDenom, lostPc,
                    teamraceHasModelMatch>>
    BY <1>5 DEF ProcessRc, clockVars
  <2>2. RxTypeOK'
    BY <2>1, <1>2 DEF OtaInv, TypeOK, RxTypeOK
  <2>3. RxSlot'
    BY <2>1, <1>2, <1>3 DEF OtaInv, RxSlot, InStepNow, Following
  <2> QED BY <1>2, <1>4, <2>2, <2>3 DEF OtaInv, TypeOK
<1>6. CASE pkt.type = "sync" /\ \E changed \in BOOLEAN : ProcessSync(pkt, changed)
  <2>1. /\ pkt.nonce = txNonce /\ pkt.fhss = txFhss /\ pkt.denom \in Denoms
        /\ txFhss \in 0 .. SequenceCount - 1 /\ txNonce \in Nonce
    BY <1>6, HopFacts DEF OtaInv, AirSlot, TypeOK, TxTypeOK, TxClock, HopIndex
  <2>2. PICK changed \in BOOLEAN : ProcessSync(pkt, changed)
    BY <1>6
  <2>3. SetCurrIndex(pkt.fhss) = txFhss
    BY <2>1, HopFacts
  <2>4. rxDenom' \in Denoms /\ UNCHANGED <<rxFreq, lostPc, teamraceHasModelMatch>>
    BY <2>1, <2>2 DEF ProcessSync
  <2>5. CASE OutOfStep(pkt) \/ changed
    <3>1. /\ rxFhss' = txFhss /\ rxNonce' = txNonce
          /\ rxState' = "tentative" /\ rxTimer' = TRUE
      BY <2>1, <2>2, <2>3, <2>5 DEF ProcessSync
    <3>2. RxTypeOK'
      BY <1>2, <2>1, <2>4, <3>1 DEF OtaInv, TypeOK, RxTypeOK
    <3>3. RxSlot'
      BY <1>2, <1>3, <3>1 DEF RxSlot, InStepNow
    <3> QED BY <1>2, <1>4, <3>2, <3>3 DEF OtaInv, TypeOK
  <2>6. CASE ~(OutOfStep(pkt) \/ changed)
    <3>1. UNCHANGED <<rxFhss, rxNonce, rxState, rxTimer>>
      BY <2>2, <2>6 DEF ProcessSync
    <3>2. RxTypeOK'
      BY <1>2, <2>4, <3>1 DEF OtaInv, TypeOK, RxTypeOK
    <3>3. RxSlot'
      BY <1>2, <1>3, <3>1 DEF OtaInv, RxSlot, InStepNow, Following
    <3> QED BY <1>2, <1>4, <3>2, <3>3 DEF OtaInv, TypeOK
  <2> QED BY <2>5, <2>6
<1> QED BY <1>1, <1>5, <1>6

-------------------------------------------------------------------------------
(* The end of the packet at the transmitter: the one place where it hops.  *)
LEMMA DoneInv ==
  ASSUME OtaInv, TxDone
  PROVE  OtaInv'
<1>1. /\ turn = "sent" /\ turn' = "tock" /\ air' = air /\ UNCHANGED rxVars
      /\ TXdoneISR \/ (~busy /\ UNCHANGED txVars)
  BY DEF TxDone, Turn
<1>2. UNCHANGED <<rxNonce, rxFhss, rxFreq, rxState, rxTimer, rxDenom,
                  alreadyTLMresp, lostPc, teamraceHasModelMatch>>
  BY <1>1 DEF rxVars, clockVars
<1>3. RxTypeOK' /\ AirSlot'
  BY <1>1, <1>2 DEF OtaInv, TypeOK, RxTypeOK, AirSlot
<1>4. /\ txNonce \in Nat /\ txDenom \in Denoms /\ txFhss \in 0 .. SequenceCount - 1
      /\ tlmPhase # "preReceiveGap"
  BY <1>1, NonceFacts, HopFacts
  DEF OtaInv, TypeOK, TxTypeOK, TxClock, TxSlot, HopIndex
<1>5. CASE TXdoneISR
  <2>1. /\ busy' = FALSE
        /\ txFhss' = IF HopSlot(txNonce + 1) THEN NextIndex(txFhss) ELSE txFhss
        /\ txFreq' = IF HopSlot(txNonce + 1) THEN HopTable[txFhss'] ELSE txFreq
        /\ tlmPhase' = IF TelemetrySlot(txNonce + 1, txDenom)
                         THEN "preReceiveGap" ELSE tlmPhase
        /\ UNCHANGED <<txNonce, txDenom, boost, syncSpam, syncSpamAfter, syncSlot,
                       syncDue, configModified, committing, commitPc, commitTicks>>
    BY <1>5 DEF TXdoneISR, HopForNextSlot, NextIsTLM, syncVars, commitVars
  <2>2. txFhss' \in 0 .. SequenceCount - 1 /\ txFhss' \in HopIndex
    BY <1>4, <2>1, HopFacts
  <2>3. txFreq' = HopTable[txFhss'] /\ txFreq' \in Channels
    BY <2>1, <2>2, HopFacts DEF OtaInv, TxClock
  <2>4. TxTypeOK'
    BY <2>1, <2>2, <2>3 DEF OtaInv, TypeOK, TxTypeOK
  <2>5. TxClock'
    BY <2>1, <2>2, <2>3, HopFacts DEF OtaInv, TxClock
  <2>6. TxSlot'
    BY <1>1, <1>4, <2>1 DEF TxSlot
  <2>7. RxSlot'
    BY <1>1, <1>2, <2>1 DEF OtaInv, RxSlot, InStepNow, Following
  <2> QED BY <1>1, <1>3, <2>4, <2>5, <2>6, <2>7 DEF OtaInv, TypeOK
<1>6. CASE ~busy /\ UNCHANGED txVars
  <2>1. UNCHANGED <<txNonce, txFhss, txFreq, tlmPhase, busy, txDenom, boost,
                    syncSpam, syncSpamAfter, syncSlot, syncDue, configModified,
                    committing, commitPc, commitTicks>>
    BY <1>6 DEF txVars, hopVars, syncVars, commitVars
  <2>2. txNonce % 2 = 0
    BY <1>1, <1>6 DEF OtaInv, TxSlot
  <2>3. ~HopSlot(txNonce + 1) /\ ~TelemetrySlot(txNonce + 1, txDenom)
    <3>1. (txNonce + 1) % 2 # 0 /\ txNonce + 1 \in Nat
      BY <1>4, <2>2, Parity
    <3> QED BY <1>4, <3>1, Parity
  <2>4. TxTypeOK' /\ TxClock'
    BY <2>1 DEF OtaInv, TypeOK, TxTypeOK, TxClock
  <2>5. TxSlot'
    BY <1>1, <1>4, <1>6, <2>1, <2>3 DEF TxSlot
  <2>6. RxSlot'
    BY <1>1, <1>2, <2>1, <2>3 DEF OtaInv, RxSlot, InStepNow, Following
  <2> QED BY <1>1, <1>3, <2>4, <2>5, <2>6 DEF OtaInv, TypeOK
<1> QED BY <1>1, <1>5, <1>6

-------------------------------------------------------------------------------
(* The receiver's tock: it counts the next slot and hops where the         *)
(* transmitter has just hopped.                                            *)
LEMMA TockInv ==
  ASSUME OtaInv, RxTock
  PROVE  OtaInv'
<1>1. /\ turn = "tock" /\ turn' = "timer" /\ air' = air /\ UNCHANGED txVars
      /\ Tock \/ (~rxTimer /\ UNCHANGED rxVars)
  BY DEF RxTock, Turn
<1>2. UNCHANGED <<txNonce, txFhss, txFreq, tlmPhase, busy, txDenom, boost, syncSpam,
                  syncSpamAfter, syncSlot, syncDue, configModified, committing,
                  commitPc, commitTicks>>
  BY <1>1 DEF txVars, hopVars, syncVars, commitVars
<1>3. TxTypeOK' /\ TxClock' /\ TxSlot' /\ AirSlot'
  BY <1>1, <1>2 DEF OtaInv, TypeOK, TxTypeOK, TxClock, TxSlot, AirSlot
<1>4. CASE Tock
  <2>1. /\ rxNonce' = NextNonce(rxNonce)
        /\ alreadyTLMresp' = (/\ rxState # "disconnected" /\ teamraceHasModelMatch
                              /\ TelemetrySlot(rxNonce', rxDenom))
        /\ UNCHANGED <<rxState, rxTimer, rxDenom, lostPc, teamraceHasModelMatch>>
    BY <1>4 DEF Tock, HandleSendDataDl
  <2>2. rxNonce \in Nonce /\ rxNonce' \in Nonce /\ rxFhss \in 0 .. SequenceCount - 1
    BY <2>1, NonceFacts DEF OtaInv, TypeOK, RxTypeOK
  <2>3. /\ rxFhss' = IF HopSlot(rxNonce') /\ rxState # "disconnected"
                       THEN NextIndex(rxFhss) ELSE rxFhss
        /\ rxFhss' \in 0 .. SequenceCount - 1
    BY <1>4, <2>2, HopFacts DEF Tock, HandleFHSS
  <2>4. rxFreq' \in Channels
    BY <1>4, <2>3, HopFacts DEF Tock, HandleFHSS, OtaInv, TypeOK, RxTypeOK
  <2>5. alreadyTLMresp' \in BOOLEAN
    BY <2>1
  <2>6. RxTypeOK'
    BY <2>1, <2>2, <2>3, <2>4, <2>5 DEF OtaInv, TypeOK, RxTypeOK
  <2>7. RxSlot'
    <3> SUFFICES ASSUME Following PROVE RxSlot'
      BY <2>1 DEF RxSlot, Following
    <3>1. /\ rxNonce = txNonce
          /\ txFhss = IF HopSlot(txNonce + 1) THEN NextIndex(rxFhss) ELSE rxFhss
      BY <1>1 DEF OtaInv, RxSlot, InStepNow
    <3>2. HopSlot(rxNonce') <=> HopSlot(txNonce + 1)
      BY <2>1, <2>2, <3>1, NonceFacts
    <3>3. rxFhss' = txFhss
      BY <2>3, <3>1, <3>2 DEF Following
    <3>4. alreadyTLMresp' => TelemetrySlot(rxNonce', rxDenom)
      BY <2>1, Zenon
    <3>5. InStepNow'
      BY <1>1, <1>2, <2>1, <3>1, <3>3 DEF InStepNow
    <3> QED BY <2>1, <3>4, <3>5 DEF RxSlot
  <2> QED BY <1>1, <1>3, <2>6, <2>7 DEF OtaInv, TypeOK
<1>5. CASE ~rxTimer /\ UNCHANGED rxVars
  <2>1. UNCHANGED <<rxNonce, rxFhss, rxFreq, rxState, rxTimer, rxDenom,
                    alreadyTLMresp, lostPc, teamraceHasModelMatch>>
    BY <1>5 DEF rxVars, clockVars
  <2>2. RxTypeOK' /\ RxSlot'
    BY <1>5, <2>1 DEF OtaInv, TypeOK, RxTypeOK, RxSlot, Following
  <2> QED BY <1>1, <1>3, <2>2 DEF OtaInv, TypeOK
<1> QED BY <1>1, <1>4, <1>5

-------------------------------------------------------------------------------
(* The main loops.                                                         *)
LEMMA LoopFrame ==
  ASSUME OtaInv, TxTypeOK', RxTypeOK', RxSlot',
         UNCHANGED <<txNonce, txFhss, txFreq, tlmPhase, busy, txDenom, committing,
                     turn, air>>
  PROVE  OtaInv'
BY DEF OtaInv, TypeOK, TxClock, TxSlot, AirSlot

\* The main loop, when a sync is due.
LEMMA TxLoopInv ==
  ASSUME OtaInv, TxLoop
  PROVE  OtaInv'
<1>1. /\ syncDue' = TRUE
      /\ UNCHANGED <<txNonce, txFhss, txFreq, tlmPhase, busy, txDenom, boost,
                     syncSpam, syncSpamAfter, syncSlot, configModified, committing,
                     commitPc, commitTicks, turn, air>>
  BY DEF TxLoop, SyncInterval, hopVars, commitVars
<1>2. UNCHANGED <<rxNonce, rxFhss, rxFreq, rxState, rxTimer, rxDenom,
                  alreadyTLMresp, lostPc, teamraceHasModelMatch>>
  BY DEF TxLoop, rxVars, clockVars
<1>3. TxTypeOK' /\ RxTypeOK'
  BY <1>1, <1>2 DEF OtaInv, TypeOK, TxTypeOK, RxTypeOK
<1>4. RxSlot'
  BY <1>1, <1>2 DEF OtaInv, RxSlot, InStepNow, Following
<1> QED BY <1>1, <1>3, <1>4, LoopFrame

\* The main loop may stop the receiver's timer or retune its radio: it never
\* makes a receiver follow that did not, nor touches what it has counted.
LEMMA RxLoopInv ==
  ASSUME OtaInv, RxConnects \/ RxSelects \/ RxLoses \/ RxLostRest
  PROVE  OtaInv'
<1>1. UNCHANGED <<txVars, turn, air>>
  BY DEF RxConnects, RxSelects, RxLoses, RxLostRest
<1>2. UNCHANGED <<txNonce, txFhss, txFreq, tlmPhase, busy, txDenom, boost, syncSpam,
                  syncSpamAfter, syncSlot, syncDue, configModified, committing,
                  commitPc, commitTicks, turn, air>>
  BY <1>1 DEF txVars, hopVars, syncVars, commitVars
<1>3. TxTypeOK'
  BY <1>2 DEF OtaInv, TypeOK, TxTypeOK
<1>4. UNCHANGED <<rxNonce, rxFhss, rxDenom>>
  BY DEF RxConnects, RxSelects, RxLoses, RxLostRest, GotConnection, TeamraceSelects,
         LostConnection, LostStop, LostRetune, clockVars
<1>5. RxTypeOK'
  <2>1. rxFreq' \in Channels
    BY HopFacts DEF RxConnects, RxSelects, RxLoses, RxLostRest, GotConnection,
       TeamraceSelects, LostConnection, LostStop, LostRetune, clockVars, OtaInv, TypeOK,
       RxTypeOK, SyncChannel, Channels
  <2>2. /\ rxState' \in {"disconnected", "tentative", "connected"}
        /\ lostPc' \in {"idle", "stop", "retune"}
    BY DEF RxConnects, RxSelects, RxLoses, RxLostRest, GotConnection, TeamraceSelects,
       LostConnection, LostStop, LostRetune, OtaInv, TypeOK, RxTypeOK
  <2>3. /\ rxTimer' \in BOOLEAN /\ alreadyTLMresp' \in BOOLEAN
        /\ teamraceHasModelMatch' \in BOOLEAN
    BY DEF RxConnects, RxSelects, RxLoses, RxLostRest, GotConnection, TeamraceSelects,
       LostConnection, LostStop, LostRetune, OtaInv, TypeOK, RxTypeOK
  <2> QED BY <1>4, <2>1, <2>2, <2>3 DEF OtaInv, TypeOK, RxTypeOK
<1>6. RxSlot'
  <2> SUFFICES ASSUME Following' PROVE RxSlot'
    BY DEF RxSlot
  <2>1. Following /\ UNCHANGED alreadyTLMresp
    BY DEF Following, RxConnects, RxSelects, RxLoses, RxLostRest, GotConnection,
       TeamraceSelects, LostConnection, LostStop, LostRetune
  <2> QED BY <1>2, <1>4, <2>1 DEF OtaInv, RxSlot, InStepNow
<1> QED BY <1>2, <1>3, <1>5, <1>6, LoopFrame

\* No step of the link breaks its invariant.
LEMMA NextInv ==
  ASSUME HandsetAlive, OtaInv, [Next]_vars
  PROVE  OtaInv'
<1>1. CASE TxTimer
  BY <1>1, TimerInv
<1>2. CASE RxHears
  BY <1>2, HearsInv
<1>3. CASE RxMisses
  BY <1>3, MissesInv
<1>4. CASE TxDone
  BY <1>4, DoneInv
<1>5. CASE RxTock
  BY <1>5, TockInv
<1>6. CASE TxLoop
  BY <1>6, TxLoopInv
<1>7. CASE RxConnects \/ RxSelects \/ RxLoses \/ RxLostRest
  BY <1>7, RxLoopInv
<1>8. CASE UNCHANGED vars
  <2>1. UNCHANGED <<txNonce, txFhss, txFreq, tlmPhase, busy, txDenom, boost,
                    syncSpam, syncSpamAfter, syncSlot, syncDue, configModified,
                    committing, commitPc, commitTicks, turn, air>>
    BY <1>8 DEF vars, txVars, hopVars, syncVars, commitVars
  <2>2. UNCHANGED <<rxNonce, rxFhss, rxFreq, rxState, rxTimer, rxDenom,
                    alreadyTLMresp, lostPc, teamraceHasModelMatch>>
    BY <1>8 DEF vars, rxVars, clockVars
  <2>3. TxTypeOK' /\ RxTypeOK'
    BY <2>1, <2>2 DEF OtaInv, TypeOK, TxTypeOK, RxTypeOK
  <2>4. RxSlot'
    BY <2>1, <2>2 DEF OtaInv, RxSlot, InStepNow, Following
  <2> QED BY <2>1, <2>3, <2>4, LoopFrame
<1> QED BY <1>1, <1>2, <1>3, <1>4, <1>5, <1>6, <1>7, <1>8 DEF Next

-------------------------------------------------------------------------------
\* The inductive invariant of the two slot clocks: where each is within a slot,
\* and why a silent slot never costs a hop.
THEOREM OtaInvariant ==
  ASSUME HandsetAlive
  PROVE  Spec => []OtaInv
<1>1. Init => OtaInv
  BY InitInv
<1>2. OtaInv /\ [Next]_vars => OtaInv'
  BY NextInv
<1> QED BY <1>1, <1>2, PTL DEF Spec

\* A receiver that follows is in step: it expects the transmitter's next nonce
\* at the transmitter's place of the hop sequence.
THEOREM StaysInStep ==
  ASSUME HandsetAlive
  PROVE  Spec => []InStep
<1>1. OtaInv => InStep
  <2> SUFFICES ASSUME OtaInv, turn = "timer", Following PROVE
        rxNonce = NextNonce(txNonce) /\ rxFhss = SetCurrIndex(txFhss)
    BY DEF InStep
  <2>1. rxNonce = NextNonce(txNonce) /\ rxFhss = txFhss
    BY DEF OtaInv, RxSlot, InStepNow
  <2>2. SetCurrIndex(txFhss) = txFhss
    BY HopFacts DEF OtaInv, TypeOK, TxTypeOK, TxClock, HopIndex
  <2> QED BY <2>1, <2>2
<1> QED BY <1>1, OtaInvariant, PTL

\* While both ends use one ratio the receiver answers in the very slots in which the
\* transmitter is silent and listens, unless a team race mutes it: then in none.
THEOREM TelemetryIsHeard ==
  ASSUME HandsetAlive
  PROVE  Spec => TelemetryMeets
<1> DEFINE Meets == alreadyTLMresp' <=>
                      teamraceHasModelMatch /\ tlmPhase' = "preReceiveGap"
<1>1. OtaInv /\ [Next]_vars => [RxTock /\ Following /\ rxDenom = txDenom => Meets]_vars
  <2> SUFFICES ASSUME OtaInv, RxTock, Following, rxDenom = txDenom PROVE Meets
    OBVIOUS
  <2>1. /\ turn = "tock" /\ UNCHANGED tlmPhase
        /\ rxNonce' = NextNonce(rxNonce) /\ HandleSendDataDl
    <3>1. turn = "tock" /\ Tock /\ UNCHANGED txVars
      BY DEF RxTock, Turn, Following
    <3>2. HandleSendDataDl
      BY <3>1, Zenon DEF Tock
    <3>3. UNCHANGED tlmPhase /\ rxNonce' = NextNonce(rxNonce)
      BY <3>1 DEF Tock, txVars, hopVars
    <3> QED BY <3>1, <3>2, <3>3, Zenon
  <2>2. /\ rxNonce = txNonce /\ txNonce \in Nonce /\ txDenom \in Denoms
        /\ tlmPhase = "preReceiveGap" <=> TelemetrySlot(txNonce + 1, txDenom)
    BY <2>1 DEF OtaInv, TypeOK, TxTypeOK, TxSlot, RxSlot, InStepNow
  <2>3. TelemetrySlot(rxNonce', rxDenom) <=> tlmPhase' = "preReceiveGap"
    BY <2>1, <2>2, NonceFacts
  <2> QED BY <2>1, <2>3, Zenon DEF HandleSendDataDl, Following
<1> QED BY <1>1, OtaInvariant, PTL DEF Spec, TelemetryMeets

\* Every hop of a receiver that follows lands on the transmitter's channel.
THEOREM HopsMeet ==
  ASSUME HandsetAlive
  PROVE  Spec => MeetAtHop
<1>1. OtaInv /\ [Next]_vars
        => [RxTock /\ Following /\ HopSlot(rxNonce') => rxFreq' = txFreq']_vars
  <2> SUFFICES ASSUME OtaInv, RxTock, Following, HopSlot(rxNonce')
               PROVE  rxFreq' = txFreq'
    OBVIOUS
  <2>1. /\ turn = "tock" /\ UNCHANGED <<txFhss, txFreq>>
        /\ rxFhss' = NextIndex(rxFhss) /\ rxFreq' = HopTable[rxFhss']
        /\ rxNonce' = NextNonce(rxNonce)
    BY DEF RxTock, Turn, Tock, HandleFHSS, Following, txVars, hopVars
  <2>2. /\ rxNonce = txNonce /\ txNonce \in Nonce /\ txFreq = HopTable[txFhss]
        /\ txFhss = IF HopSlot(txNonce + 1) THEN NextIndex(rxFhss) ELSE rxFhss
    BY <2>1 DEF OtaInv, TypeOK, TxTypeOK, TxClock, RxSlot, InStepNow
  <2>3. HopSlot(txNonce + 1)
    BY <2>1, <2>2, NonceFacts
  <2> QED BY <2>1, <2>2, <2>3
<1> QED BY <1>1, OtaInvariant, PTL DEF Spec, MeetAtHop

-------------------------------------------------------------------------------
(* Commits and silence.                                                    *)
CommitClock == committing <=> commitPc \in {"settle", "commit"}

\* A packet in the air tells where the transmitter is, and its end is to come.
AirTells ==
  /\ turn # "air" => air = {}
  /\ air # {} => busy
  /\ \A pkt \in air :
       /\ pkt.nonce = txNonce
       /\ pkt.type = "sync" => pkt.fhss = txFhss /\ pkt.denom \in Denoms

\* A transmission ends within its slot.  One that goes on while the configuration
\* is committed began with the unlucky tick.
BusySlot ==
  busy => /\ turn \in {"air", "sent"}
          /\ tlmPhase # "preReceiveGap"
          /\ commitPc \in {"claim", "settle", "commit"} => lapsed

CountsAlike ==
  Following => rxNonce = IF turn = "timer" THEN NextNonce(txNonce) ELSE txNonce

\* The transmitter hops as its packet ends; in a commit, as the slot begins; and in a
\* telemetry slot not at all.  The receiver hops at the tock.
HopDue == turn = "tock" \/ (turn # "timer" /\ ~busy)

SamePlace ==
  SetCurrIndex(txFhss) =
    IF HopDue /\ HopSlot(txNonce + 1) THEN NextIndex(rxFhss) ELSE rxFhss

\* The transmitter is to listen in a slot in which no hop is due, unless the commit
\* has still to take the radio out of receive mode.
OddGap ==
  tlmPhase = "preReceiveGap" =>
    \/ commitPc = "settle"
    \/ commitPc # "commit" /\ turn \in {"timer", "tock"} /\ txNonce % 2 = 1

Place == Following /\ ~lapsed => SamePlace /\ OddGap

\* Inductive.
StormInv == TypeOK /\ CommitClock /\ AirTells /\ BusySlot /\ CountsAlike /\ Place

-------------------------------------------------------------------------------
(* Arithmetic of the hop index, a byte that may be past the sequence.      *)
\* Adding one and taking the remainder again.
LEMMA ModNext ==
  ASSUME NEW m \in Nat \ {0}, NEW n \in Nat
  PROVE  ((n % m) + 1) % m = (n + 1) % m
<1> DEFINE q == n \div m
           r == n % m
<1>1. q \in Nat /\ r \in 0 .. m - 1 /\ n = m * q + r
  BY SMT
<1> HIDE DEF q, r
<1>2. CASE r + 1 < m
  <2>1. (r + 1) % m = r + 1
    BY <1>1, <1>2, SMT
  <2>2. n + 1 = m * q + (r + 1) /\ r + 1 \in 0 .. m - 1
    BY <1>1, <1>2, SMT
  <2>3. (n + 1) % m = r + 1
    BY <1>1, <2>2, SMT
  <2> QED BY <2>1, <2>3 DEF r
<1>3. CASE r + 1 = m
  <2>1. (r + 1) % m = 0
    BY <1>3, SMT
  <2>2. n + 1 = m * (q + 1)
    BY <1>1, <1>3, SMT
  <2>3. (n + 1) % m = 0
    BY <1>1, <2>2, SMT
  <2> QED BY <2>1, <2>3 DEF r
<1> QED BY <1>1, <1>2, <1>3, SMT

\* Wherever the index is, the next one is the next in the sequence.
LEMMA IndexFacts ==
  ASSUME NEW i \in HopIndex
  PROVE  /\ SetCurrIndex(i) \in 0 .. SequenceCount - 1
         /\ NextIndex(i) \in 0 .. SequenceCount - 1
         /\ SetCurrIndex(NextIndex(i)) = NextIndex(SetCurrIndex(i))
<1>1. SequenceCount \in Nat \ {0} /\ i \in Nat /\ i + 1 \in Nat
  BY HopFacts DEF HopIndex
<1>2. i % SequenceCount \in 0 .. SequenceCount - 1
  BY <1>1, ModRange, Zenon
<1>3. (i + 1) % SequenceCount \in 0 .. SequenceCount - 1
  BY <1>1, ModRange, Zenon
<1>4. ((i + 1) % SequenceCount) % SequenceCount = (i + 1) % SequenceCount
  BY <1>3, HopFacts, Zenon DEF SetCurrIndex
<1>5. ((i % SequenceCount) + 1) % SequenceCount = (i + 1) % SequenceCount
  BY <1>1, ModNext, Zenon
<1> QED BY <1>2, <1>3, <1>4, <1>5, Zenon DEF SetCurrIndex, NextIndex

\* nonceAdvance does as well, unless the byte wraps.
LEMMA ByteFacts ==
  ASSUME NEW i \in HopIndex
  PROVE  /\ (i + 1) % FhssRange \in HopIndex
         /\ \/ i = FhssRange - 1 /\ FhssRange % SequenceCount # 0
            \/ SetCurrIndex((i + 1) % FhssRange) = NextIndex(SetCurrIndex(i))
<1>1. /\ SequenceCount \in Nat \ {0} /\ FhssRange \in Nat \ {0}
      /\ i \in Nat /\ i + 1 \in Nat /\ i < FhssRange
  BY HopFacts, FhssAssumption DEF HopIndex, FhssAssumption
<1>2. (i + 1) % FhssRange \in 0 .. FhssRange - 1
  BY <1>1, ModRange, Zenon
<1>3. ((i % SequenceCount) + 1) % SequenceCount = (i + 1) % SequenceCount
  BY <1>1, ModNext, Zenon
<1>4. CASE i + 1 < FhssRange
  <2>1. (i + 1) % FhssRange = i + 1
    BY <1>1, <1>4, ModRange, Zenon
  <2> QED BY <1>2, <1>3, <2>1, Zenon DEF HopIndex, SetCurrIndex, NextIndex
<1>5. CASE i + 1 = FhssRange /\ FhssRange % SequenceCount = 0
  <2>1. FhssRange % FhssRange = 0 /\ 0 % SequenceCount = 0
    BY <1>1, SMT
  <2> QED BY <1>2, <1>3, <1>5, <2>1, Zenon DEF HopIndex, SetCurrIndex, NextIndex
<1>6. CASE i + 1 = FhssRange /\ FhssRange % SequenceCount # 0
  BY <1>1, <1>2, <1>6 DEF HopIndex
<1> QED BY <1>1, <1>4, <1>5, <1>6

\* After an odd nonce comes an even one, which is not the last before a hop.
LEMMA OddNext ==
  ASSUME NEW n \in Nonce, n % 2 = 1
  PROVE  ~HopSlot(NextNonce(n) + 1)
<1>1. /\ NonceRange \in Nat \ {0} /\ n \in 0 .. NonceRange - 1
      /\ HopInterval \in Nat \ {0} /\ HopInterval % 2 = 0 /\ NonceRange % HopInterval = 0
  BY FhssAssumption DEF FhssAssumption, Nonce
<1>2. NonceRange % 2 = 0
  BY <1>1, EvenMultiple
<1>3. NextNonce(n) % 2 = (n + 1) % 2
  BY <1>1, <1>2, WrapMod DEF NextNonce
<1>4. (n + 1) % 2 = 0
  BY <1>1, SMT
<1>5. NextNonce(n) \in Nat /\ NextNonce(n) + 1 \in Nat
  BY NonceFacts
<1>6. (NextNonce(n) + 1) % 2 # 0
  BY <1>3, <1>4, <1>5, Parity, Zenon
<1> QED BY <1>5, <1>6, Parity, Zenon

\* A telemetry slot follows an odd nonce.
LEMMA GapIsOdd ==
  ASSUME NEW n \in Nonce, NEW d \in Denoms, TelemetrySlot(n + 1, d)
  PROVE  n % 2 = 1
<1>1. n \in Nat /\ n + 1 \in Nat
  BY NonceFacts
<1>2. (n + 1) % 2 = 0
  BY <1>1, Parity, Zenon
<1> QED BY <1>1, <1>2, SMT

-------------------------------------------------------------------------------
\* At power on, after the numbers have agreed.
LEMMA StormInitInv == StormInit => StormInv
<1> SUFFICES ASSUME StormInit PROVE StormInv
  OBVIOUS
<1>1. TypeOK
  BY InitInv DEF StormInit, OtaInv
<1>2. CommitClock /\ AirTells /\ BusySlot
  BY DEF StormInit, Init, TxInit, CommitClock, AirTells, BusySlot
<1>3. CountsAlike /\ Place
  BY DEF StormInit, Init, RxInit, CountsAlike, Place, Following
<1> QED BY <1>1, <1>2, <1>3 DEF StormInv

\* Where there is no lapse now, there was none.
LEMMA NoLapse ==
  ASSUME Lapse, Following', ~lapsed'
  PROVE  ~lapsed /\ ~Silence /\ ~UnclaimedTick /\ ~IndexWraps
BY DEF Lapse

-------------------------------------------------------------------------------
(* The transmitter's timer.                                                *)
LEMMA StormTimer ==
  ASSUME StormInv, TxTimer, Lapse
  PROVE  StormInv'
<1>1. /\ turn = "timer" /\ turn' = "air"
      /\ UNCHANGED <<rxState, rxTimer, rxNonce, rxFhss, rxFreq, rxDenom,
                     alreadyTLMresp, lostPc, teamraceHasModelMatch>>
  BY DEF TxTimer, Turn, rxVars, clockVars
<1>2. PICK stale \in Stale : TimerCallback(stale, air')
  BY DEF TxTimer
<1>3. /\ txNonce' = NextNonce(txNonce)
      /\ UNCHANGED <<txFreq, configModified, committing, commitPc>>
  BY <1>2 DEF TimerCallback, NonceAdvance, Listen, Transmit, commitVars
<1>4. /\ txNonce \in Nonce /\ txNonce' \in Nonce /\ txNonce' \in Nat /\ txFhss \in HopIndex
      /\ ~busy /\ TxTypeOK /\ RxTypeOK /\ txDenom \in Denoms
  BY <1>1, <1>3, NonceFacts DEF StormInv, TypeOK, TxTypeOK, BusySlot
<1>5. RxTypeOK'
  BY <1>1, <1>4 DEF RxTypeOK
<1>6. CommitClock' /\ CountsAlike'
  BY <1>1, <1>3 DEF StormInv, CommitClock, CountsAlike, Following
<1>7. ASSUME Following', ~lapsed'
      PROVE  /\ SamePlace /\ OddGap /\ SetCurrIndex(txFhss) = rxFhss
             /\ ~Silence /\ ~UnclaimedTick /\ ~IndexWraps
  <2>1. Following /\ ~lapsed /\ ~Silence /\ ~UnclaimedTick /\ ~IndexWraps
    BY <1>1, <1>7, NoLapse DEF Following
  <2>2. SamePlace /\ OddGap
    BY <2>1 DEF StormInv, Place
  <2> QED BY <1>1, <2>1, <2>2 DEF SamePlace, HopDue
<1>8. CASE NonceAdvance(air')
  <2>1. /\ committing /\ commitTicks < MaxCommitTicks /\ commitTicks' = commitTicks + 1
        /\ air' = {}
        /\ txFhss' = IF HopSlot(txNonce' + 1) THEN (txFhss + 1) % FhssRange ELSE txFhss
        /\ UNCHANGED <<tlmPhase, busy, txDenom, boost, syncSpam, syncSpamAfter,
                       syncSlot, syncDue>>
    BY <1>8 DEF NonceAdvance, syncVars
  <2>2. txFhss' \in HopIndex
    BY <1>4, <2>1, ByteFacts
  <2>3. commitTicks' \in 0 .. MaxCommitTicks
    BY <1>4, <2>1, TransmitterAssumption DEF TxTypeOK, TransmitterAssumption
  <2>4. TxTypeOK'
    BY <1>3, <1>4, <2>1, <2>2, <2>3 DEF TxTypeOK
  <2>5. AirTells' /\ BusySlot'
    BY <1>4, <2>1 DEF AirTells, BusySlot
  <2>6. ASSUME Following', ~lapsed' PROVE SamePlace' /\ OddGap'
    <3>1. HopDue'
      BY <1>1, <1>4, <2>1 DEF HopDue
    <3>2. HopSlot(txNonce' + 1) =>
            SetCurrIndex(txFhss') = NextIndex(SetCurrIndex(txFhss))
      <4>1. SUFFICES ASSUME HopSlot(txNonce' + 1)
                     PROVE  SetCurrIndex(txFhss') = NextIndex(SetCurrIndex(txFhss))
        OBVIOUS
      <4>2. txFhss' = (txFhss + 1) % FhssRange
        BY <2>1, <4>1
      <4>3. CASE txFhss = FhssRange - 1 /\ FhssRange % SequenceCount # 0
        <5>1. txFhss' = txFhss
          BY <1>7, <2>1, <2>6, <4>3 DEF IndexWraps
        <5>2. (txFhss + 1) % FhssRange = 0 /\ FhssRange % 1 = 0
          BY <4>3, FhssAssumption, SMT DEF FhssAssumption
        <5>3. FhssRange = 1
          BY <4>2, <4>3, <5>1, <5>2, FhssAssumption DEF FhssAssumption
        <5> QED BY <4>3, <5>2, <5>3, FhssAssumption DEF FhssAssumption
      <4> QED BY <1>4, <4>2, <4>3, ByteFacts
    <3>3. SamePlace'
      BY <1>1, <1>7, <2>1, <2>6, <3>1, <3>2 DEF SamePlace
    <3>4. OddGap'
      BY <1>1, <1>3, <1>7, <2>1, <2>6 DEF OddGap, StormInv, CommitClock
    <3> QED BY <3>3, <3>4
  <2> QED BY <1>1, <1>5, <1>6, <2>4, <2>5, <2>6 DEF StormInv, TypeOK, Place
<1>9. CASE Listen(air')
  <2>1. /\ ~committing /\ air' = {}
        /\ tlmPhase = "preReceiveGap" /\ tlmPhase' = "expectingTelem"
        /\ UNCHANGED <<txFhss, busy, txDenom, boost, syncSpam, syncSpamAfter,
                       syncSlot, syncDue, commitTicks>>
    BY <1>9 DEF Listen, syncVars, commitVars
  <2>2. TxTypeOK'
    BY <1>3, <1>4, <2>1 DEF TxTypeOK
  <2>3. AirTells' /\ BusySlot'
    BY <1>4, <2>1 DEF AirTells, BusySlot
  <2>4. ASSUME Following', ~lapsed' PROVE SamePlace' /\ OddGap'
    <3>1. txNonce % 2 = 1
      BY <1>7, <2>1, <2>4 DEF OddGap, StormInv, CommitClock
    <3>2. ~HopSlot(txNonce' + 1)
      BY <1>3, <1>4, <3>1, OddNext, Zenon
    <3> QED BY <1>1, <1>7, <2>1, <2>4, <3>2 DEF SamePlace, OddGap
  <2> QED BY <1>1, <1>5, <1>6, <2>2, <2>3, <2>4 DEF StormInv, TypeOK, Place
<1>10. CASE Transmit(stale, air')
  <2>1. /\ ~committing /\ tlmPhase # "preReceiveGap" /\ tlmPhase' = "transmitting"
        /\ UNCHANGED <<txFhss, commitTicks>>
        /\ SendRCdataToRF(txNonce', stale, air')
    BY <1>10 DEF Transmit, commitVars
  <2>2. CASE stale /\ air' = {} /\ UNCHANGED <<busy, syncVars>>
    <3>1. TxTypeOK'
      BY <1>3, <1>4, <2>1, <2>2 DEF TxTypeOK, syncVars
    <3>2. AirTells' /\ BusySlot'
      BY <1>4, <2>2 DEF AirTells, BusySlot
    <3>3. ~(Following' /\ ~lapsed')
      BY <1>4, <1>7, <2>1, <2>2 DEF Silence
    <3> QED BY <1>1, <1>5, <1>6, <3>1, <3>2, <3>3 DEF StormInv, TypeOK, Place
  <2>3. CASE /\ ~stale /\ busy' = TRUE
             /\ SendSync(txNonce', air') \/ SendData(txNonce', air')
    <3>1. /\ TxTypeOK'
          /\ \/ \E told \in Denoms : air' = {SyncPacket(txNonce', told)}
             \/ air' = {RcPacket(txNonce')}
      BY <1>3, <1>4, <2>1, <2>3, SendFacts DEF TxTypeOK
    <3>2. AirTells'
      BY <1>1, <2>1, <2>3, <3>1 DEF AirTells, SyncPacket, RcPacket
    <3>3. BusySlot'
      <4>1. commitPc \notin {"settle", "commit"}
        BY <2>1 DEF StormInv, CommitClock
      <4>2. commitPc = "claim" => lapsed'
        BY DEF Lapse, UnclaimedTick
      <4> QED BY <1>1, <1>3, <2>1, <4>1, <4>2 DEF BusySlot
    <3>4. ASSUME Following', ~lapsed' PROVE SamePlace' /\ OddGap'
      BY <1>1, <1>7, <2>1, <2>3, <3>4 DEF SamePlace, OddGap, HopDue
    <3> QED BY <1>1, <1>5, <1>6, <3>1, <3>2, <3>3, <3>4 DEF StormInv, TypeOK, Place
  <2> QED BY <2>1, <2>2, <2>3 DEF SendRCdataToRF
<1> QED BY <1>2, <1>8, <1>9, <1>10 DEF TimerCallback

-------------------------------------------------------------------------------
(* The end of the packet at the receiver.                                  *)
LEMMA StormMisses ==
  ASSUME StormInv, RxMisses, Lapse
  PROVE  StormInv'
<1>1. /\ turn = "air" /\ turn' = "sent" /\ air' = {} /\ alreadyTLMresp' = FALSE
      /\ UNCHANGED <<rxNonce, rxFhss, rxFreq, rxState, rxTimer, rxDenom, lostPc,
                     teamraceHasModelMatch>>
      /\ UNCHANGED <<txNonce, txFhss, txFreq, tlmPhase, busy, txDenom, boost, syncSpam,
                     syncSpamAfter, syncSlot, syncDue, configModified, committing,
                     commitPc, commitTicks>>
  BY DEF RxMisses, Turn, clockVars, txVars, hopVars, syncVars, commitVars
<1>2. TypeOK'
  <2>1. TxTypeOK'
    BY <1>1 DEF StormInv, TypeOK, TxTypeOK
  <2>2. RxTypeOK'
    BY <1>1 DEF StormInv, TypeOK, RxTypeOK
  <2> QED BY <1>1, <2>1, <2>2 DEF TypeOK
<1>3. CommitClock' /\ AirTells' /\ CountsAlike'
  BY <1>1 DEF StormInv, CommitClock, AirTells, CountsAlike, Following
<1>4. BusySlot'
  BY <1>1 DEF StormInv, BusySlot, Lapse
<1>5. ASSUME Following', ~lapsed' PROVE SamePlace' /\ OddGap'
  <2>1. Following /\ ~lapsed
    BY <1>1, <1>5, NoLapse DEF Following
  <2> QED BY <1>1, <2>1 DEF StormInv, Place, SamePlace, HopDue, OddGap
<1> QED BY <1>2, <1>3, <1>4, <1>5 DEF StormInv, Place

\* A sync packet brings the receiver to the transmitter's place, for the hop is still
\* to come.
LEMMA StormHears ==
  ASSUME StormInv, RxHears, Lapse
  PROVE  StormInv'
<1>1. PICK pkt \in air :
        \/ pkt.type = "rc" /\ ProcessRc(pkt)
        \/ pkt.type = "sync" /\ \E changed \in BOOLEAN : ProcessSync(pkt, changed)
  BY DEF RxHears
<1>2. /\ turn = "air" /\ turn' = "sent" /\ air' = {} /\ alreadyTLMresp' = FALSE
      /\ UNCHANGED <<txNonce, txFhss, txFreq, tlmPhase, busy, txDenom, boost, syncSpam,
                     syncSpamAfter, syncSlot, syncDue, configModified, committing,
                     commitPc, commitTicks>>
  BY DEF RxHears, Turn, txVars, hopVars, syncVars, commitVars
<1>3. busy /\ pkt.nonce = txNonce /\ txNonce \in Nonce /\ txFhss \in HopIndex
  BY DEF StormInv, AirTells, TypeOK, TxTypeOK
<1>4. TxTypeOK' /\ CommitClock' /\ AirTells'
  BY <1>2 DEF StormInv, TypeOK, TxTypeOK, CommitClock, AirTells
<1>5. BusySlot'
  BY <1>2 DEF StormInv, BusySlot, Lapse
<1>6. (~lapsed' => ~lapsed) /\ ~HopDue /\ ~HopDue'
  BY <1>2, <1>3 DEF Lapse, HopDue
<1>7. OddGap'
  BY <1>2, <1>3 DEF OddGap, StormInv, BusySlot
<1>8. CASE /\ UNCHANGED <<rxNonce, rxFhss, rxFreq, rxState, rxTimer, lostPc,
                          teamraceHasModelMatch>>
           /\ rxDenom' \in Denoms
  <2>1. RxTypeOK' /\ CountsAlike'
    BY <1>2, <1>8 DEF StormInv, TypeOK, RxTypeOK, CountsAlike, Following
  <2>2. Place'
    BY <1>2, <1>6, <1>7, <1>8 DEF StormInv, Place, SamePlace, Following
  <2> QED BY <1>2, <1>4, <1>5, <2>1, <2>2 DEF StormInv, TypeOK
<1>9. CASE pkt.type = "rc" /\ ProcessRc(pkt)
  BY <1>8, <1>9 DEF ProcessRc, clockVars, StormInv, TypeOK, RxTypeOK
<1>10. CASE pkt.type = "sync" /\ \E changed \in BOOLEAN : ProcessSync(pkt, changed)
  <2>1. pkt.fhss = txFhss /\ pkt.denom \in Denoms
    BY <1>10 DEF StormInv, AirTells
  <2>2. PICK changed \in BOOLEAN : ProcessSync(pkt, changed)
    BY <1>10
  <2>3. rxDenom' \in Denoms /\ UNCHANGED <<rxFreq, lostPc, teamraceHasModelMatch>>
    BY <2>1, <2>2 DEF ProcessSync
  <2>4. CASE ~(OutOfStep(pkt) \/ changed)
    BY <1>8, <2>2, <2>3, <2>4 DEF ProcessSync
  <2>5. CASE OutOfStep(pkt) \/ changed
    <3>1. /\ rxFhss' = SetCurrIndex(txFhss) /\ rxNonce' = txNonce
          /\ rxState' = "tentative" /\ rxTimer' = TRUE
      BY <1>3, <2>1, <2>2, <2>5 DEF ProcessSync
    <3>2. RxTypeOK'
      BY <1>2, <1>3, <2>3, <3>1, IndexFacts DEF StormInv, TypeOK, RxTypeOK
    <3>3. CountsAlike' /\ Place'
      BY <1>2, <1>6, <1>7, <3>1 DEF CountsAlike, Place, SamePlace
    <3> QED BY <1>2, <1>4, <1>5, <3>2, <3>3 DEF StormInv, TypeOK
  <2> QED BY <2>4, <2>5
<1> QED BY <1>1, <1>9, <1>10

-------------------------------------------------------------------------------
(* The end of the packet at the transmitter, which hops then.              *)
LEMMA StormDone ==
  ASSUME StormInv, TxDone, Lapse
  PROVE  StormInv'
<1>1. /\ turn = "sent" /\ turn' = "tock" /\ air' = air /\ air = {}
      /\ UNCHANGED <<rxNonce, rxFhss, rxFreq, rxState, rxTimer, rxDenom,
                     alreadyTLMresp, lostPc, teamraceHasModelMatch>>
  BY DEF TxDone, Turn, rxVars, clockVars, StormInv, AirTells
<1>2. /\ UNCHANGED <<txNonce, txDenom, boost, syncSpam, syncSpamAfter, syncSlot, syncDue,
                     configModified, committing, commitPc, commitTicks>>
      /\ ~busy'
  <2>1. CASE TXdoneISR
    BY <2>1 DEF TXdoneISR, syncVars, commitVars
  <2>2. CASE ~busy /\ UNCHANGED txVars
    BY <2>2 DEF txVars, hopVars, syncVars, commitVars
  <2> QED BY <2>1, <2>2 DEF TxDone
<1>3. /\ txNonce \in Nonce /\ txFhss \in HopIndex /\ TxTypeOK /\ RxTypeOK
      /\ txDenom \in Denoms
  BY DEF StormInv, TypeOK, TxTypeOK
<1>4. RxTypeOK' /\ CommitClock' /\ AirTells' /\ BusySlot' /\ CountsAlike'
  BY <1>1, <1>2 DEF StormInv, TypeOK, RxTypeOK, CommitClock, AirTells, BusySlot,
                    CountsAlike, Following
<1>5. ASSUME Following', ~lapsed' PROVE Following /\ ~lapsed /\ SamePlace /\ OddGap
  BY <1>1, <1>5, NoLapse DEF Following, StormInv, Place
<1>6. HopDue'
  BY <1>1 DEF HopDue
<1>7. CASE TXdoneISR
  <2>1. /\ busy /\ busy' = FALSE
        /\ txFhss' = IF HopSlot(txNonce + 1) THEN NextIndex(txFhss) ELSE txFhss
        /\ txFreq' = IF HopSlot(txNonce + 1) THEN HopTable[txFhss'] ELSE txFreq
        /\ tlmPhase' = IF NextIsTLM THEN "preReceiveGap" ELSE tlmPhase
    BY <1>7 DEF TXdoneISR, HopForNextSlot
  <2>2. txFhss' \in HopIndex /\ HopTable[txFhss'] \in Channels
    BY <1>3, <2>1, IndexFacts, HopFacts DEF Channels
  <2>3. TxTypeOK'
    BY <1>2, <1>3, <2>1, <2>2 DEF TxTypeOK
  <2>4. ASSUME Following', ~lapsed' PROVE SamePlace' /\ OddGap'
    <3>1. SetCurrIndex(txFhss) = rxFhss
      BY <1>1, <1>5, <2>1, <2>4 DEF SamePlace, HopDue
    <3>2. SamePlace'
      <4>1. HopSlot(txNonce + 1) =>
              SetCurrIndex(NextIndex(txFhss)) = NextIndex(SetCurrIndex(txFhss))
        BY <1>3, IndexFacts
      <4> QED BY <1>1, <1>2, <1>6, <2>1, <3>1, <4>1 DEF SamePlace
    <3>3. OddGap'
      <4>1. commitPc \notin {"claim", "settle", "commit"} /\ tlmPhase # "preReceiveGap"
        BY <1>5, <2>1, <2>4 DEF StormInv, BusySlot
      <4>2. NextIsTLM => txNonce % 2 = 1
        BY <1>3, GapIsOdd DEF NextIsTLM
      <4> QED BY <1>1, <1>2, <2>1, <4>1, <4>2 DEF OddGap
    <3> QED BY <3>2, <3>3
  <2> QED BY <1>1, <1>4, <2>3, <2>4 DEF StormInv, TypeOK, Place
<1>8. CASE ~busy /\ UNCHANGED txVars
  <2>1. UNCHANGED <<txFhss, txFreq, tlmPhase, busy>>
    BY <1>8 DEF txVars, hopVars
  <2>2. TxTypeOK'
    BY <1>2, <1>3, <2>1 DEF TxTypeOK
  <2>3. ASSUME Following', ~lapsed' PROVE SamePlace' /\ OddGap'
    <3>1. HopDue
      BY <1>1, <1>8 DEF HopDue
    <3> QED BY <1>1, <1>2, <1>5, <1>6, <2>1, <2>3, <3>1 DEF SamePlace, OddGap
  <2> QED BY <1>1, <1>4, <2>2, <2>3 DEF StormInv, TypeOK, Place
<1> QED BY <1>7, <1>8 DEF TxDone

-------------------------------------------------------------------------------
(* The receiver's tock: it hops for the slot to come.                      *)
LEMMA StormTock ==
  ASSUME StormInv, RxTock, Lapse
  PROVE  StormInv'
<1>1. /\ turn = "tock" /\ turn' = "timer" /\ air' = air
      /\ UNCHANGED <<txNonce, txFhss, txFreq, tlmPhase, busy, txDenom, boost, syncSpam,
                     syncSpamAfter, syncSlot, syncDue, configModified, committing,
                     commitPc, commitTicks>>
  BY DEF RxTock, Turn, txVars, hopVars, syncVars, commitVars
<1>2. TxTypeOK' /\ CommitClock' /\ AirTells' /\ BusySlot'
  BY <1>1 DEF StormInv, TypeOK, TxTypeOK, CommitClock, AirTells, BusySlot
<1>3. UNCHANGED <<rxState, rxTimer, rxDenom, lostPc, teamraceHasModelMatch>>
  BY DEF RxTock, Tock, rxVars
<1>4. txNonce \in Nonce /\ RxTypeOK
  BY DEF StormInv, TypeOK, TxTypeOK
<1>5. ASSUME Following', ~lapsed' PROVE Following /\ SamePlace /\ OddGap
  <2>1. Following /\ ~lapsed
    BY <1>3, <1>5, NoLapse DEF Following
  <2> QED BY <2>1 DEF StormInv, Place
<1>6. CASE Tock
  <2>1. rxNonce' = NextNonce(rxNonce) /\ HandleFHSS /\ HandleSendDataDl
    BY <1>6 DEF Tock
  <2>2. rxFhss' \in 0 .. SequenceCount - 1 /\ rxFreq' \in Channels
    BY <1>4, <2>1, HopFacts DEF HandleFHSS, RxTypeOK
  <2>3. rxNonce' \in Nonce
    BY <1>4, <2>1, NonceFacts DEF RxTypeOK
  <2>4. alreadyTLMresp' \in BOOLEAN
    <3>1. (/\ rxState # "disconnected" /\ teamraceHasModelMatch
           /\ TelemetrySlot(rxNonce', rxDenom)) \in BOOLEAN
      OBVIOUS
    <3> QED BY <2>1, <3>1, Zenon DEF HandleSendDataDl
  <2>5. RxTypeOK'
    BY <1>3, <1>4, <2>2, <2>3, <2>4 DEF RxTypeOK
  <2>6. CountsAlike'
    BY <1>1, <1>3, <2>1 DEF StormInv, CountsAlike, Following
  <2>7. ASSUME Following', ~lapsed' PROVE SamePlace' /\ OddGap'
    <3>1. rxNonce = txNonce /\ rxState # "disconnected"
      BY <1>1, <1>5, <2>7 DEF StormInv, CountsAlike, Following
    <3>2. HopSlot(rxNonce') <=> HopSlot(txNonce + 1)
      BY <1>4, <2>1, <3>1, NonceFacts
    <3>3. rxFhss' = IF HopSlot(txNonce + 1) THEN NextIndex(rxFhss) ELSE rxFhss
      BY <2>1, <3>1, <3>2 DEF HandleFHSS
    <3>4. SamePlace'
      BY <1>1, <1>5, <2>7, <3>3 DEF SamePlace, HopDue
    <3> QED BY <1>1, <1>5, <2>7, <3>4 DEF OddGap
  <2> QED BY <1>1, <1>2, <2>5, <2>6, <2>7 DEF StormInv, TypeOK, Place
<1>7. CASE ~rxTimer /\ UNCHANGED rxVars
  <2>1. UNCHANGED <<rxNonce, rxFhss, rxFreq, alreadyTLMresp>> /\ ~Following'
    BY <1>3, <1>7 DEF rxVars, clockVars, Following
  <2> QED BY <1>1, <1>2, <1>3, <1>4, <2>1 DEF StormInv, TypeOK, RxTypeOK, CountsAlike, Place
<1> QED BY <1>6, <1>7 DEF RxTock

-------------------------------------------------------------------------------
(* The main loops.                                                         *)
\* They leave both clocks and what is in the air alone.
LEMMA StormLoop ==
  ASSUME StormInv, Lapse, TypeOK', CommitClock', BusySlot', OddGap => OddGap',
         UNCHANGED <<txNonce, txFhss, busy, rxNonce, rxFhss, turn, air>>,
         Following' => Following
  PROVE  StormInv'
<1>1. AirTells' /\ CountsAlike'
  BY DEF StormInv, AirTells, CountsAlike
<1>2. ASSUME Following', ~lapsed' PROVE SamePlace' /\ OddGap'
  <2>1. Following /\ ~lapsed
    BY <1>2, NoLapse
  <2> QED BY <2>1 DEF StormInv, Place, SamePlace, HopDue
<1> QED BY <1>1, <1>2 DEF StormInv, Place

\* A pass of a loop that no slot ends in leaves a lapse as it is.
LEMMA LapseStays ==
  ASSUME StormInv, Lapse, UNCHANGED <<turn, busy>>
  PROVE  busy => (lapsed => lapsed')
BY DEF Lapse, StormInv, BusySlot

\* The receiver calls itself connected: nothing of the clocks moves.
LEMMA StormRxConnects ==
  ASSUME StormInv, RxConnects, Lapse
  PROVE  StormInv'
<1>1. /\ rxState = "tentative" /\ rxTimer /\ rxState' = "connected"
      /\ UNCHANGED <<rxNonce, rxFhss, rxFreq, rxTimer, rxDenom, alreadyTLMresp, lostPc,
                     teamraceHasModelMatch>>
      /\ UNCHANGED <<turn, air>>
      /\ UNCHANGED <<txNonce, txFhss, txFreq, tlmPhase, busy, txDenom, boost, syncSpam,
                     syncSpamAfter, syncSlot, syncDue, configModified, committing,
                     commitPc, commitTicks>>
  BY DEF RxConnects, GotConnection, clockVars, txVars, hopVars, syncVars, commitVars
<1>2. TypeOK'
  <2>1. TxTypeOK'
    BY <1>1 DEF StormInv, TypeOK, TxTypeOK
  <2>2. RxTypeOK'
    BY <1>1 DEF StormInv, TypeOK, RxTypeOK
  <2> QED BY <1>1, <2>1, <2>2 DEF StormInv, TypeOK
<1>3. CommitClock' /\ BusySlot' /\ (OddGap => OddGap')
  BY <1>1, LapseStays DEF StormInv, CommitClock, BusySlot, OddGap
<1>4. Following' => Following
  BY <1>1 DEF Following
<1> QED BY <1>1, <1>2, <1>3, <1>4, StormLoop

\* A team race mutes the receiver or lets it speak: neither clock minds.
LEMMA StormRxSelects ==
  ASSUME StormInv, RxSelects, Lapse
  PROVE  StormInv'
<1>1. /\ teamraceHasModelMatch' = ~teamraceHasModelMatch
      /\ UNCHANGED <<rxNonce, rxFhss, rxFreq, rxState, rxTimer, rxDenom, alreadyTLMresp,
                     lostPc, turn, air>>
      /\ UNCHANGED <<txNonce, txFhss, txFreq, tlmPhase, busy, txDenom, boost, syncSpam,
                     syncSpamAfter, syncSlot, syncDue, configModified, committing,
                     commitPc, commitTicks>>
  BY DEF RxSelects, TeamraceSelects, clockVars, txVars, hopVars, syncVars, commitVars
<1>2. TypeOK'
  <2>1. TxTypeOK'
    BY <1>1 DEF StormInv, TypeOK, TxTypeOK
  <2>2. teamraceHasModelMatch' \in BOOLEAN
    BY <1>1, Zenon
  <2>3. RxTypeOK'
    BY <1>1, <2>2 DEF StormInv, TypeOK, RxTypeOK
  <2> QED BY <1>1, <2>1, <2>3 DEF StormInv, TypeOK
<1>3. CommitClock' /\ BusySlot' /\ (OddGap => OddGap')
  BY <1>1, LapseStays DEF StormInv, CommitClock, BusySlot, OddGap
<1>4. Following' => Following
  BY <1>1 DEF Following
<1> QED BY <1>1, <1>2, <1>3, <1>4, StormLoop

\* The sync interval passes, or the configuration is changed.
LEMMA StormSpam ==
  ASSUME StormInv, TxLoop \/ Modify, Lapse
  PROVE  StormInv'
<1>1. /\ UNCHANGED <<rxState, rxTimer, rxNonce, rxFhss, rxFreq, rxDenom, alreadyTLMresp,
                     lostPc, teamraceHasModelMatch, turn, air>>
      /\ UNCHANGED <<txNonce, txFhss, txFreq, tlmPhase, busy, txDenom, boost, syncSlot,
                     committing, commitPc, commitTicks>>
  BY DEF TxLoop, Modify, SyncInterval, SetSyncSpam, rxVars, clockVars, hopVars, commitVars
<1>2. TxTypeOK'
  <2>1. CASE TxLoop
    <3>1. syncDue' = TRUE /\ UNCHANGED <<syncSpam, syncSpamAfter, configModified>>
      BY <2>1 DEF TxLoop, SyncInterval, commitVars
    <3> QED BY <1>1, <3>1 DEF StormInv, TypeOK, TxTypeOK
  <2>2. CASE Modify
    <3>1. /\ configModified' = TRUE /\ syncSpam' = SyncSpamAmount
          /\ syncSpamAfter' = SyncSpamAfter /\ UNCHANGED syncDue
      BY <2>2 DEF Modify, SetSyncSpam
    <3>2. syncSpam' \in Nat /\ syncSpamAfter' \in Nat
      BY <3>1, TransmitterAssumption DEF TransmitterAssumption
    <3> QED BY <1>1, <3>1, <3>2 DEF StormInv, TypeOK, TxTypeOK
  <2> QED BY <2>1, <2>2
<1>3. TypeOK'
  <2>1. RxTypeOK'
    BY <1>1 DEF StormInv, TypeOK, RxTypeOK
  <2> QED BY <1>1, <1>2, <2>1 DEF StormInv, TypeOK
<1>4. CommitClock' /\ BusySlot' /\ (OddGap => OddGap')
  BY <1>1, LapseStays DEF StormInv, CommitClock, BusySlot, OddGap
<1>5. Following' => Following
  BY <1>1 DEF Following
<1> QED BY <1>1, <1>3, <1>4, <1>5, StormLoop

\* A commit is claimed while nothing is on the air, unless a tick comes first; and it
\* ends with a radio that is to send.
LEMMA StormCommit ==
  ASSUME StormInv, Commit, Lapse
  PROVE  StormInv'
<1>1. /\ UNCHANGED <<rxState, rxTimer, rxNonce, rxFhss, rxFreq, rxDenom, alreadyTLMresp,
                     lostPc, teamraceHasModelMatch, turn, air>>
      /\ UNCHANGED <<txNonce, txFhss, txFreq, busy, txDenom, boost, syncSpam,
                     syncSpamAfter, syncSlot, syncDue>>
  BY DEF Commit, CommitBegin, CommitWait, CommitClaim, CommitSettle, ConfigChangeCommit,
         CommitStep, rxVars, clockVars, hopVars, syncVars
<1>2. TxTypeOK /\ RxTypeOK
  BY DEF StormInv, TypeOK
<1>3. RxTypeOK' /\ turn' \in {"timer", "air", "sent", "tock"}
  BY <1>1, <1>2 DEF RxTypeOK, StormInv, TypeOK
<1>4. Following' => Following
  BY <1>1 DEF Following
<1>5. busy => (lapsed => lapsed')
  BY <1>1, LapseStays
<1> DEFINE To(from, to) == commitPc = from /\ commitPc' = to
<1>6. CASE CommitBegin \/ CommitWait
  <2>1. /\ To("idle", "wait") \/ (To("wait", "claim") /\ ~busy)
        /\ UNCHANGED <<tlmPhase, configModified, committing, commitTicks>>
    BY <1>6 DEF CommitBegin, CommitWait, CommitStep
  <2>2. TxTypeOK'
    BY <1>1, <1>2, <2>1 DEF TxTypeOK
  <2>3. CommitClock' /\ BusySlot' /\ (OddGap => OddGap')
    BY <1>1, <2>1 DEF StormInv, CommitClock, BusySlot, OddGap
  <2> QED BY <1>1, <1>3, <1>4, <2>2, <2>3, StormLoop DEF TypeOK
<1>7. CASE CommitClaim
  <2>1. /\ To("claim", "settle") /\ committing' = TRUE /\ commitTicks' = 0
        /\ UNCHANGED <<tlmPhase, configModified>>
    BY <1>7 DEF CommitClaim, CommitStep
  <2>2. 0 \in 0 .. MaxCommitTicks
    BY TransmitterAssumption DEF TransmitterAssumption
  <2>3. TxTypeOK'
    BY <1>1, <1>2, <2>1, <2>2 DEF TxTypeOK
  <2>4. CommitClock' /\ BusySlot' /\ OddGap'
    BY <1>1, <1>5, <2>1 DEF StormInv, CommitClock, BusySlot, OddGap
  <2> QED BY <1>1, <1>3, <1>4, <2>3, <2>4, StormLoop DEF TypeOK
<1>8. CASE CommitSettle
  <2>1. /\ To("settle", "commit") /\ tlmPhase' = "transmitting"
        /\ UNCHANGED <<committing, commitTicks, configModified>>
    BY <1>8 DEF CommitSettle, CommitStep
  <2>2. TxTypeOK'
    BY <1>1, <1>2, <2>1 DEF TxTypeOK
  <2>3. CommitClock' /\ BusySlot' /\ OddGap'
    BY <1>1, <1>5, <2>1 DEF StormInv, CommitClock, BusySlot, OddGap
  <2> QED BY <1>1, <1>3, <1>4, <2>2, <2>3, StormLoop DEF TypeOK
<1>9. CASE ConfigChangeCommit
  <2>1. /\ To("commit", "idle")
        /\ configModified' = FALSE /\ committing' = FALSE /\ commitTicks' = 0
        /\ UNCHANGED tlmPhase
    BY <1>9 DEF ConfigChangeCommit, hopVars
  <2>2. 0 \in 0 .. MaxCommitTicks
    BY TransmitterAssumption DEF TransmitterAssumption
  <2>3. TxTypeOK'
    BY <1>1, <1>2, <2>1, <2>2 DEF TxTypeOK
  <2>4. CommitClock' /\ BusySlot' /\ (OddGap => OddGap')
    BY <1>1, <2>1 DEF StormInv, CommitClock, BusySlot, OddGap
  <2> QED BY <1>1, <1>3, <1>4, <2>3, <2>4, StormLoop DEF TypeOK
<1> QED BY <1>6, <1>7, <1>8, <1>9 DEF Commit

-------------------------------------------------------------------------------
\* The inductive step, with the steps that change nothing.
LEMMA StormStep == StormInv /\ [StormNext]_stormVars => StormInv'
<1> SUFFICES ASSUME StormInv, [StormNext]_stormVars PROVE StormInv'
  OBVIOUS
<1>1. CASE StormNext
  <2>1. Lapse
    BY <1>1 DEF StormNext
  <2>2. CASE Slot
    BY <2>1, <2>2, StormTimer, StormHears, StormMisses, StormDone, StormTock DEF Slot
  <2>3. CASE TxLoop \/ Modify
    BY <2>1, <2>3, StormSpam
  <2>4. CASE RxConnects
    BY <2>1, <2>4, StormRxConnects
  <2>5. CASE RxSelects
    BY <2>1, <2>5, StormRxSelects
  <2>6. CASE Commit
    BY <2>1, <2>6, StormCommit
  <2> QED BY <1>1, <2>2, <2>3, <2>4, <2>5, <2>6 DEF StormNext
<1>2. CASE UNCHANGED stormVars
  <2>1. /\ UNCHANGED <<txNonce, txFhss, txFreq, tlmPhase, busy, txDenom, boost, syncSpam,
                       syncSpamAfter, syncSlot, syncDue, configModified, committing,
                       commitPc, commitTicks>>
        /\ UNCHANGED <<rxNonce, rxFhss, rxFreq, rxState, rxTimer, rxDenom, alreadyTLMresp,
                       lostPc, teamraceHasModelMatch, turn, air, lapsed>>
    BY <1>2 DEF stormVars, vars, txVars, hopVars, syncVars, commitVars, rxVars, clockVars
  <2>2. TxTypeOK' /\ CommitClock' /\ AirTells' /\ BusySlot'
    BY <2>1 DEF StormInv, TypeOK, TxTypeOK, CommitClock, AirTells, BusySlot
  <2>3. RxTypeOK' /\ CountsAlike'
    BY <2>1 DEF StormInv, TypeOK, RxTypeOK, CountsAlike, Following
  <2>4. Place'
    BY <2>1 DEF StormInv, Place, Following, SamePlace, HopDue, OddGap
  <2> QED BY <2>1, <2>2, <2>3, <2>4 DEF StormInv, TypeOK
<1> QED BY <1>1, <1>2

\* The inductive invariant holds in every behaviour.
THEOREM StormInvariant == StormSpec => []StormInv
<1>1. StormInit => StormInv
  BY StormInitInv
<1>2. StormInv /\ [StormNext]_stormVars => StormInv'
  BY StormStep
<1> QED BY <1>1, <1>2, PTL DEF StormSpec

\* Through any number of commits of any length and however often the handset falls
\* silent, both ends count slots alike; and a receiver that follows keeps its place in
\* the hop sequence unless a slot was silent, a tick fell between the last read of
\* busyTransmitting and commitInProgress, or nonceAdvance wrapped the hop index.
THEOREM PlaceIsKept == StormSpec => []InStepUnlessLapsed
<1>1. StormInv => InStepUnlessLapsed
  BY DEF StormInv, CountsAlike, Place, SamePlace, HopDue, InStepUnlessLapsed, NonceInStep,
         InStep, Following
<1> QED BY <1>1, StormInvariant, PTL
===============================================================================
