-------------------------- MODULE StubbornLink_proofs --------------------------
(***************************************************************************)
(* Proofs about the stubborn link.  LinkInv is an inductive invariant, for *)
(* packages of any sizes and whichever end restarts; from it follow that a *)
(* message read is one that was queued, byte for byte, unless it was       *)
(* spoiled, and that the link implements MessageChannel.  Neither depends  *)
(* on MaxIndex, on the wait counts or on the slots.                        *)
(***************************************************************************)
EXTENDS StubbornLink, TLAPS

\* The assumptions on the constants, in the form the steps use them.
LEMMA ConstantFacts ==
  /\ PayloadLens \subseteq Nat \ {0}
  /\ MaxMsg \in Nat /\ MaxIndex \in Nat /\ Capacity \in Nat \ {0}
  /\ TlmDenom \in Nat \ {0, 1}
  /\ \A m \in 1 .. MaxMsg : MsgLen[m] \in Nat \ {0}
  /\ MaxWaits \subseteq Nat
BY SenderAssumption, ReceiverAssumption, LinkAssumption, PackageAssumption
   DEF SenderAssumption, ReceiverAssumption, LinkAssumption, PackageAssumption

\* Slots count around.
LEMMA SlotType ==
  ASSUME TlmDenom \in Nat \ {0, 1}, slot \in 0 .. TlmDenom - 1, NextSlot
  PROVE  slot' \in 0 .. TlmDenom - 1
BY DEF NextSlot

\* What lies below the least of three bounds lies below each.
LEMMA BelowAll ==
  ASSUME NEW a \in Nat, NEW b \in Nat, NEW c \in Nat,
         NEW q \in 0 .. Lesser(Lesser(a, b), c) - 1
  PROVE  q \in 0 .. c - 1 /\ q < a /\ q < b
BY DEF Lesser

\* At power on.
LEMMA InitInv ==
  ASSUME Init
  PROVE  LinkInv
<1> USE ConstantFacts DEF Init, SenderInit, ReceiverInit
<1>1. TypeOK
  <2>1. SenderTypeOK
    BY DEF SenderTypeOK, States
  <2>2. rBuf \in [0 .. Capacity - 1 -> Nat \X Nat]
    BY DEF Padding
  <2>3. rOffset \in 0 .. Capacity /\ rPackage \in Nat \ {0}
    OBVIOUS
  <2>4. rConfirm \in BOOLEAN /\ finishedData \in BOOLEAN
    BY Zenon
  <2>5. slot \in 0 .. TlmDenom - 1
    OBVIOUS
  <2>6. got \in Seq(1 .. MaxMsg)
    OBVIOUS
  <2>7. spoiled \in BOOLEAN
    BY Zenon
  <2> QED BY <2>1, <2>2, <2>3, <2>4, <2>5, <2>6, <2>7, Zenon DEF TypeOK, ReceiverTypeOK
<1>2. SenderInv
  BY DEF SenderInv
<1>3. ReceiverInv
  BY DEF ReceiverInv, Mid, LatestRead, Channel!Latest
<1>4. BufferInv /\ Agree /\ AirInv
  BY DEF BufferInv, Agree, Mid, AirInv
<1> QED BY <1>1, <1>2, <1>3, <1>4 DEF LinkInv

-------------------------------------------------------------------------------
\* An acknowledgement arrives.
LEMMA AckInv ==
  ASSUME LinkInv, AckArrives
  PROVE  LinkInv'
<1> USE ConstantFacts
<1>1. PICK bit \in up : /\ ConfirmCurrentPayload(bit)
                        /\ up' = {}
                        /\ UNCHANGED <<receiverVars, slot, down, got, spoiled>>
  BY DEF AckArrives
<1>2. bit = rConfirm /\ bit \in BOOLEAN /\ down = {}
  BY DEF LinkInv, TypeOK, AirInv
<1>3. UNCHANGED <<rBuf, rOffset, rPackage, rConfirm, finishedData, slot, down,
                  got, spoiled, sMsg, sBytes, maxWaitCount>>
  BY <1>1 DEF receiverVars, ConfirmCurrentPayload, PackageConfirmed,
              ResyncConfirmed, ConfirmMissed, ConfirmIgnored, senderVars
<1> USE DEF ConfirmCurrentPayload, PackageConfirmed, ResyncConfirmed,
            ConfirmMissed, ConfirmIgnored, senderVars
<1>4. TypeOK'
  <2>1. SenderTypeOK'
    <3> USE <1>1, <1>2, <1>3 DEF LinkInv, TypeOK, SenderTypeOK, ReceiverTypeOK,
                                 States
    <3>1. CASE PackageConfirmed(bit)
      BY <3>1
    <3>2. CASE ResyncConfirmed(bit)
      BY <3>2
    <3>3. CASE ConfirmMissed(bit)
      <4>1. CASE waitCount' > maxWaitCount
        BY <3>3, <4>1
      <4>2. CASE ~(waitCount' > maxWaitCount)
        BY <3>3, <4>2
      <4> QED BY <4>1, <4>2
    <3>4. CASE ConfirmIgnored(bit)
      BY <3>4
    <3> QED BY <3>1, <3>2, <3>3, <3>4
  <2> QED BY <1>1, <1>3, <2>1 DEF LinkInv, TypeOK, ReceiverTypeOK, Packages
<1>5. SenderInv'
  BY <1>1, <1>2, <1>3
  DEF LinkInv, TypeOK, SenderTypeOK, SenderInv
<1>6. ReceiverInv' /\ BufferInv'
  <2>1. \A m : Past(m) => Past(m)'
    BY <1>1, <1>2, <1>3 DEF LinkInv, TypeOK, SenderTypeOK, SenderInv, Past
  <2> QED BY <2>1, <1>3 DEF LinkInv, ReceiverInv, BufferInv, Mid, RMsg, Holds,
                            LatestRead, Channel!Latest
<1>7. Agree'
  <2> SUFFICES ASSUME Mid, ~spoiled PROVE Agree'
    BY <1>3 DEF Agree, Mid
  <2> USE <1>1, <1>2, <1>3 DEF LinkInv, TypeOK, SenderTypeOK, SenderInv, Agree,
                               Abreast, Ahead, Taken, Mid, RMsg
  <2>1. CASE PackageConfirmed(bit)
    BY <2>1
  <2>2. CASE ResyncConfirmed(bit)
    BY <2>2
  <2>3. CASE ConfirmMissed(bit)
    BY <2>3
  <2>4. CASE ConfirmIgnored(bit)
    BY <2>4
  <2> QED BY <2>1, <2>2, <2>3, <2>4
<1>8. AirInv'
  BY <1>1, <1>2, <1>3 DEF AirInv
<1> QED BY <1>4, <1>5, <1>6, <1>7, <1>8 DEF LinkInv

\* Steps that leave both halves and the histories alone.
LEMMA QuietInv ==
  ASSUME LinkInv,
         UNCHANGED <<senderState, sMsg, sOffset, sBytes, sPackage, sExpected,
                     waitCount, receiverVars, got, spoiled>>,
         maxWaitCount' \in MaxWaits,
         slot' \in 0 .. TlmDenom - 1,
         down' \subseteq down, up' \subseteq {rConfirm}, down' = {} \/ up' = {}
  PROVE  LinkInv'
<1> USE DEF LinkInv, receiverVars
<1>1. TypeOK'
  BY Zenon DEF TypeOK, SenderTypeOK, ReceiverTypeOK, States, Packages
<1>2. SenderInv' /\ ReceiverInv'
  BY DEF SenderInv, ReceiverInv, Mid, Past, RMsg, LatestRead, Channel!Latest
<1>3. BufferInv' /\ Agree'
  BY DEF BufferInv, Mid, RMsg, Holds, Agree, Abreast, Ahead, Taken
<1>4. AirInv'
  BY DEF AirInv, InOrderAir, FitsAir, Mid, Past, RMsg, LatestRead,
         Channel!Latest, Package, PackageIndex, PayloadBytes, Transmitting
<1> QED BY <1>1, <1>2, <1>3, <1>4

\* Steps that leave sender and receiver alone.
LEMMA QuietSteps ==
  ASSUME LinkInv, SendAck \/ PacketLost \/ RateUpdated \/ UNCHANGED vars
  PROVE  LinkInv'
<1>1. CASE SendAck
  <2>1. slot' \in 0 .. TlmDenom - 1
    BY <1>1, ConstantFacts, SlotType DEF SendAck, LinkInv, TypeOK
  <2> QED BY <1>1, <2>1, QuietInv
          DEF SendAck, senderVars, LinkInv, TypeOK, SenderTypeOK, Quiet
<1>2. CASE PacketLost
  BY <1>2, QuietInv
  DEF PacketLost, senderVars, LinkInv, TypeOK, SenderTypeOK
<1>3. CASE RateUpdated
  BY <1>3, QuietInv
  DEF RateUpdated, UpdateTelemetryRate, airVars, LinkInv, TypeOK, AirInv
<1>4. CASE UNCHANGED vars
  BY <1>4, QuietInv
  DEF vars, senderVars, airVars, LinkInv, TypeOK, SenderTypeOK, AirInv
<1> QED BY <1>1, <1>2, <1>3, <1>4

\* The resets: both of the receiver leave it at the start of a message, the
\* sender's own spoils what the receiver has of one.
LEMMA ResetInv ==
  ASSUME LinkInv, ReceiverReboot \/ SenderReboot \/ PacketSizeChanged
  PROVE  LinkInv'
<1> USE ConstantFacts
    DEF LinkInv, ReceiverReboot, SenderReboot, PacketSizeChanged, SenderReset,
        ReceiverReset
<1>1. /\ down' = {} /\ up' = {} /\ UNCHANGED <<got, sMsg, slot>>
      /\ Mid' => Mid /\ spoiled' /\ UNCHANGED <<rBuf, rOffset, rPackage>>
      /\ finishedData' => finishedData /\ UNCHANGED rBuf
                          /\ (spoiled' <=> spoiled)
      /\ \/ rPackage' = 1 /\ rOffset' = 0
         \/ UNCHANGED <<finishedData, rOffset, rPackage>>
  <2>1. CASE ReceiverReboot
    BY <2>1 DEF Mid, senderVars
  <2>2. CASE SenderReboot
    BY <2>2 DEF Mid, receiverVars
  <2>3. CASE PacketSizeChanged
    <3>1. rPackage' = 1 /\ rOffset' = 0 /\ down' = {} /\ up' = {}
          /\ UNCHANGED <<got, sMsg, slot>>
      BY <2>3
    <3>2. ~Mid'
      BY <3>1 DEF Mid
    <3>3. UNCHANGED <<rBuf, finishedData>> /\ spoiled' = (spoiled /\ finishedData)
      BY <2>3
    <3>4. finishedData' => finishedData /\ UNCHANGED rBuf /\ (spoiled' <=> spoiled)
      BY <3>3, Zenon
    <3> QED BY <3>1, <3>2, <3>4
  <2> QED BY <2>1, <2>2, <2>3
<1>2. TypeOK'
  <2>1. SenderTypeOK'
    <3>1. CASE ReceiverReboot
      BY <3>1 DEF TypeOK, SenderTypeOK, senderVars
    <3>2. CASE SenderReboot
      BY <3>2 DEF TypeOK, SenderTypeOK, States
    <3>3. CASE PacketSizeChanged
      BY <3>3 DEF TypeOK, SenderTypeOK, States
    <3> QED BY <3>1, <3>2, <3>3
  <2>2. rBuf' \in [0 .. Capacity - 1 -> Nat \X Nat]
    <3>1. CASE ReceiverReboot
      BY <3>1 DEF Padding
    <3>2. CASE SenderReboot \/ PacketSizeChanged
      <4>1. rBuf' = rBuf
        BY <3>2 DEF receiverVars
      <4> QED BY <4>1, Zenon DEF TypeOK, ReceiverTypeOK
    <3> QED BY <3>1, <3>2
  <2>3. rOffset' \in 0 .. Capacity /\ rPackage' \in Nat \ {0}
    BY <1>1 DEF TypeOK, ReceiverTypeOK
  <2>4. rConfirm' \in BOOLEAN /\ finishedData' \in BOOLEAN /\ spoiled' \in BOOLEAN
    BY Zenon DEF TypeOK, ReceiverTypeOK, receiverVars
  <2> QED BY <1>1, <2>1, <2>2, <2>3, <2>4, Zenon DEF TypeOK, ReceiverTypeOK
<1>3. SenderInv'
  BY DEF SenderInv, senderVars
<1>4. ReceiverInv' /\ BufferInv'
  <2>1. \A m : Past(m) => Past(m)'
    BY DEF Past, senderVars
  <2> QED BY <1>1, <2>1 DEF ReceiverInv, BufferInv, Mid, RMsg, Holds, LatestRead,
                            Channel!Latest
<1>5. Agree' /\ AirInv'
  BY <1>1 DEF Agree, AirInv
<1> QED BY <1>2, <1>3, <1>4, <1>5

\* SetDataToTransmit.
LEMMA QueueInv ==
  ASSUME LinkInv, QueueMessage
  PROVE  LinkInv'
<1> USE ConstantFacts DEF LinkInv, QueueMessage, SetDataToTransmit
<1>1. UNCHANGED <<rBuf, rOffset, rPackage, rConfirm, finishedData, slot, down,
                  up, got, spoiled, sBytes, sExpected, maxWaitCount>>
  BY DEF receiverVars, airVars
<1>2. /\ sMsg' = sMsg + 1 /\ sMsg' \in 1 .. MaxMsg /\ sMsg \in Nat
      /\ MsgLen[sMsg'] \in Nat \ {0}
  BY DEF TypeOK, SenderTypeOK
<1>3. TypeOK'
  <2>1. SenderTypeOK'
    BY <1>1, <1>2 DEF TypeOK, SenderTypeOK, States
  <2> QED BY <1>1, <2>1, Zenon DEF TypeOK, ReceiverTypeOK, Packages
<1>4. SenderInv'
  BY <1>1, <1>2 DEF SenderInv
<1>5. ReceiverInv' /\ BufferInv'
  BY <1>1, <1>2 DEF ReceiverInv, BufferInv, Mid, RMsg, Holds, LatestRead,
                    Channel!Latest, Past
<1>6. Agree'
  BY <1>1, <1>2 DEF Agree, Mid
<1>7. AirInv'
  <2>1. SUFFICES ASSUME NEW pkt \in down PROVE InOrderAir(pkt)' /\ FitsAir(pkt)'
    BY <1>1 DEF AirInv
  <2>2. InOrderAir(pkt) /\ FitsAir(pkt)
    BY DEF AirInv
  <2>3. senderState = "IDLE" => pkt.index = 0
    BY <2>2 DEF InOrderAir, Package, PackageOf, PackageIndex, Transmitting
  <2>4. InOrderAir(pkt)'
    BY <1>1, <1>2, <2>2, <2>3
    DEF InOrderAir, Past, Mid, RMsg, LatestRead, Channel!Latest, ReceiverInv
  <2> QED BY <1>1, <2>2, <2>4 DEF FitsAir, Mid, RMsg
<1> QED BY <1>3, <1>4, <1>5, <1>6, <1>7

\* The last message read is the latest.
LEMMA LatestAppend ==
  ASSUME NEW S, NEW s \in Seq(S), NEW m \in S, got' = Append(s, m)
  PROVE  LatestRead' = m
BY DEF LatestRead, Channel!Latest

\* Unlock, once the message is read.
LEMMA ReadInv ==
  ASSUME LinkInv, ReadMessage
  PROVE  LinkInv'
<1> USE ConstantFacts DEF LinkInv, ReadMessage, Unlock
<1>1. UNCHANGED <<senderState, sMsg, sOffset, sBytes, sPackage, sExpected,
                  waitCount, maxWaitCount, rBuf, rConfirm, slot, down, up>>
  BY DEF senderVars, airVars
<1>2. /\ RMsg \in 1 .. sMsg /\ sMsg \in 0 .. MaxMsg
      /\ got \in Seq(1 .. MaxMsg) /\ Past(RMsg)
  BY DEF ReceiverInv, TypeOK, SenderTypeOK
<1>3. RMsg \in 1 .. MaxMsg /\ got' = Append(got, RMsg)
  BY <1>2
<1>4. LatestRead' = RMsg /\ got' \in Seq(1 .. MaxMsg)
  <2>1. LatestRead' = RMsg
    BY ONLY <1>2, <1>3, LatestAppend
  <2>2. got' \in Seq(1 .. MaxMsg)
    BY ONLY <1>2, <1>3
  <2> QED BY ONLY <2>1, <2>2
<1>5. TypeOK'
  <2>1. rOffset' \in 0 .. Capacity /\ rPackage' \in Nat \ {0}
    OBVIOUS
  <2>2. spoiled' \in BOOLEAN /\ finishedData' \in BOOLEAN
    OBVIOUS
  <2> QED BY <1>1, <1>4, <2>1, <2>2, Zenon
          DEF TypeOK, SenderTypeOK, ReceiverTypeOK, Packages
<1>6. SenderInv'
  BY <1>1 DEF SenderInv
<1>7. ReceiverInv'
  BY <1>1, <1>2, <1>4 DEF ReceiverInv, Mid, Past
<1>8. BufferInv' /\ Agree'
  BY DEF BufferInv, Agree, Mid
<1>9. AirInv'
  <2>1. SUFFICES ASSUME NEW pkt \in down PROVE InOrderAir(pkt)' /\ FitsAir(pkt)'
    BY <1>1 DEF AirInv
  <2>2. InOrderAir(pkt)
    BY DEF AirInv
  <2>3. InOrderAir(pkt)'
    BY <1>1, <1>4, <2>2
    DEF InOrderAir, Mid, Package, PackageIndex, PayloadBytes, Transmitting
  <2> QED BY <2>3 DEF FitsAir, Mid
<1> QED BY <1>5, <1>6, <1>7, <1>8, <1>9

\* GetCurrentPayload.
LEMMA SendInv ==
  ASSUME LinkInv, NEW maxLen \in PayloadLens, SendPackage(maxLen)
  PROVE  LinkInv'
<1> DEFINE pkt == Package(maxLen)
<1> USE ConstantFacts DEF LinkInv, SendPackage, GetCurrentPayload
<1>1. maxLen \in Nat \ {0}
  OBVIOUS
<1>2. /\ UNCHANGED <<sMsg, sOffset, sPackage, sExpected, waitCount, maxWaitCount,
                     rBuf, rOffset, rPackage, rConfirm, finishedData, up, got>>
      /\ down' = {pkt} /\ up = {}
      /\ sBytes' = PayloadBytes(maxLen)
      /\ senderState' = IF senderState = "SEND_PENDING" THEN "SENDING"
                        ELSE senderState
      /\ ~spoiled' => ~spoiled /\ (Taken => PayloadBytes(maxLen) = sBytes)
      /\ spoiled' \in BOOLEAN
  BY DEF receiverVars, Quiet, TypeOK
<1>3. sMsg \in 0 .. MaxMsg /\ sOffset \in Nat /\ sPackage \in Nat \ {0}
      /\ rPackage \in Nat \ {0}
  BY DEF TypeOK, SenderTypeOK, ReceiverTypeOK
<1>4. Transmitting =>
        /\ sMsg \in 1 .. MaxMsg /\ sOffset < MsgLen[sMsg]
        /\ MsgLen[sMsg] \in Nat
  <2> SUFFICES ASSUME Transmitting PROVE sMsg \in 1 .. MaxMsg /\ sOffset < MsgLen[sMsg]
                                         /\ MsgLen[sMsg] \in Nat
    OBVIOUS
  <2>1. sMsg \in 1 .. MaxMsg
    BY <1>3 DEF SenderInv, Transmitting
  <2> QED BY <1>3, <2>1 DEF SenderInv, Transmitting
<1>5. PayloadBytes(maxLen) \in Nat /\ PayloadBytes(maxLen) <= maxLen
      /\ (Transmitting => sOffset + PayloadBytes(maxLen) <= MsgLen[sMsg]
                          /\ PayloadBytes(maxLen) =
                                Lesser(MsgLen[sMsg] - sOffset, maxLen))
  BY <1>1, <1>3, <1>4 DEF PayloadBytes, Lesser
<1>6. Package(maxLen)' = pkt /\ PayloadBytes(maxLen)' = PayloadBytes(maxLen)
      /\ pkt.index = PackageIndex(maxLen) /\ pkt.msg = sMsg
      /\ pkt.off = sOffset /\ pkt.len = PayloadBytes(maxLen)
      /\ pkt.size = maxLen
  BY <1>2 DEF Package, PackageOf, PackageIndex, PayloadBytes, Transmitting
<1>7. TypeOK'
  <2>1. SenderTypeOK'
    BY <1>2, <1>5 DEF TypeOK, SenderTypeOK, States
  <2>2. PackageIndex(maxLen) \in Nat
    BY <1>3 DEF PackageIndex
  <2>3. pkt \in Packages
    BY <1>3, <1>5, <2>2 DEF Package, PackageOf, Packages
  <2>4. slot' \in 0 .. TlmDenom - 1
    BY SlotType DEF TypeOK
  <2>5. down' \subseteq Packages
    BY <1>2, <2>3
  <2> QED BY <1>2, <2>1, <2>4, <2>5, Zenon DEF TypeOK, ReceiverTypeOK, Packages
<1>8. SenderInv'
  BY <1>2, <1>4 DEF SenderInv, Transmitting
<1>9. ReceiverInv' /\ BufferInv'
  BY <1>2 DEF ReceiverInv, BufferInv, Mid, RMsg, Holds, LatestRead,
              Channel!Latest, Past
<1>10. Agree'
  <2>1. ~spoiled' /\ Ahead => Ahead'
    BY <1>2 DEF Ahead, Taken, Mid, RMsg
  <2> QED BY <1>2, <2>1 DEF Agree, Mid, RMsg, Abreast
<1>11. Mid' = Mid /\ RMsg' = RMsg /\ LatestRead' = LatestRead
  BY <1>2 DEF Mid, RMsg, LatestRead, Channel!Latest
<1>12. InOrderAir(pkt)'
  <2>1. (senderState \notin {"SEND_PENDING", "RESYNC_THEN_SEND"} =>
           pkt = Package(pkt.size) /\ sBytes = pkt.len)'
    BY <1>2, <1>6
  <2>2. ASSUME pkt.index = 1, pkt.index # MaxIndex
        PROVE  /\ pkt.msg \in 1 .. sMsg /\ pkt.off = 0
               /\ pkt.len = Lesser(MsgLen[pkt.msg], pkt.size)
               /\ LatestRead < pkt.msg
               /\ finishedData => RMsg < pkt.msg
    <3>1. Transmitting /\ sPackage = 1 /\ sOffset = 0
      BY <1>6, <2>2 DEF PackageIndex, SenderInv, Transmitting
    <3>2. ~Past(sMsg)
      BY <3>1 DEF Past, Transmitting
    <3>3. LatestRead < sMsg /\ (finishedData => RMsg < sMsg)
      BY <1>3, <1>4, <3>1, <3>2 DEF ReceiverInv
    <3> QED BY <1>3, <1>4, <1>5, <1>6, <3>1, <3>3
  <2>3. ASSUME pkt.index = 0, pkt.index # MaxIndex
        PROVE  Past(RMsg)
    BY <1>6, <2>3 DEF PackageIndex, Transmitting, Past, SenderInv, TypeOK,
                      SenderTypeOK, States
  <2>4. senderState' # "SEND_PENDING"
    BY <1>2
  <2>5. Past(RMsg) => Past(RMsg)'
    BY <1>2, <1>11 DEF Past
  <2> QED BY <1>2, <1>6, <1>11, <2>1, <2>2, <2>3, <2>4, <2>5 DEF InOrderAir
<1>13. FitsAir(pkt)'
  <2> SUFFICES ASSUME Mid, ~spoiled', pkt.index # MaxIndex
               PROVE  FitsAir(pkt)'
    BY <1>6, <1>11 DEF FitsAir
  <2>0. ~spoiled /\ (Taken => PayloadBytes(maxLen) = sBytes)
    BY <1>2
  <2>1. ASSUME pkt.index > 1, pkt.index = rPackage
        PROVE  /\ RMsg = pkt.msg /\ rOffset = Stored(pkt.off)
               /\ pkt.len = pkt.size /\ pkt.off + pkt.len < MsgLen[pkt.msg]
    <3>1. Transmitting /\ sPackage = rPackage /\ sPackage > 1
          /\ sOffset + PayloadBytes(maxLen) < MsgLen[sMsg]
      BY <1>3, <1>4, <1>5, <1>6, <2>1 DEF PackageIndex
    <3>2. senderState = "SENDING"
      BY <3>1 DEF Transmitting, SenderInv
    <3>3. Abreast
      BY <1>3, <2>0, <3>1, <3>2 DEF Agree, Ahead, Taken
    <3>4. PayloadBytes(maxLen) = maxLen
      BY <1>1, <1>3, <1>4, <1>5, <3>1 DEF Lesser
    <3> QED BY <1>6, <3>1, <3>3, <3>4 DEF Abreast
  <2>2. ASSUME pkt.index = 0
        PROVE  /\ RMsg = pkt.msg
               /\ \/ rOffset >= Stored(MsgLen[RMsg])
                  \/ /\ rOffset = Stored(pkt.off)
                     /\ pkt.off + pkt.len = MsgLen[RMsg]
                     /\ pkt.len <= pkt.size
    <3>1. CASE senderState = "WAIT_UNTIL_NEXT_CONFIRM"
      BY <1>6, <2>0, <2>2, <3>1 DEF Agree, SenderInv
    <3>2. CASE senderState = "SENDING"
      <4>0. Transmitting /\ PackageIndex(maxLen) = 0
        BY <1>6, <2>2, <3>2 DEF Transmitting
      <4>1. sPackage > 1 /\ sOffset + PayloadBytes(maxLen) >= MsgLen[sMsg]
        BY <1>3, <3>2, <4>0 DEF PackageIndex
      <4>2. sOffset + PayloadBytes(maxLen) = MsgLen[sMsg]
        BY <1>3, <1>4, <1>5, <4>0, <4>1
      <4>3. Abreast
        <5>1. ~Ahead
          <6> SUFFICES ASSUME Ahead PROVE FALSE
            OBVIOUS
          <6>1. PayloadBytes(maxLen) = sBytes
            BY <2>0 DEF Ahead
          <6> QED BY <1>3, <1>4, <4>0, <4>1, <4>2, <6>1 DEF Ahead
        <5> QED BY <1>3, <2>0, <3>2, <4>1, <5>1 DEF Agree
      <4> QED BY <1>5, <1>6, <4>2, <4>3 DEF Abreast
    <3>3. senderState # "RESYNC" /\ senderState # "RESYNC_THEN_SEND"
      BY <1>6, <2>2 DEF PackageIndex, Transmitting
    <3> QED BY <2>0, <3>1, <3>2, <3>3 DEF Agree
  <2> QED BY <1>2, <1>6, <1>11, <2>1, <2>2 DEF FitsAir, Stored
<1>14. AirInv'
  BY <1>2, <1>6, <1>12, <1>13 DEF AirInv
<1> QED BY <1>7, <1>8, <1>9, <1>10, <1>14

\* What the memcpy of a package does to the buffer and the offset.
LEMMA CopyFacts ==
  ASSUME TypeOK, NEW pkt \in Packages, NEW at \in 0 .. Capacity,
         Copy(pkt, at)
  PROVE  /\ rBuf' \in [0 .. Capacity - 1 -> Nat \X Nat]
         /\ rOffset' = at + Lesser(Capacity - at, pkt.size)
         /\ rOffset' \in at .. Capacity
         /\ \A p \in 0 .. Capacity - 1 :
              /\ p < at => rBuf'[p] = rBuf[p]
              /\ at <= p /\ p < rOffset' /\ p - at < pkt.len =>
                    rBuf'[p] = <<pkt.msg, pkt.off + (p - at)>>
<1> USE ConstantFacts
<1>1. pkt.size \in Nat \ {0} /\ pkt.msg \in Nat /\ pkt.off \in Nat /\ pkt.len \in Nat
  <2>1. pkt.size \in PayloadLens /\ pkt.msg \in 0 .. MaxMsg
    BY DEF Packages
  <2>2. pkt.off \in Nat /\ pkt.len \in Nat
    BY DEF Packages
  <2>3. pkt.msg \in Nat
    BY ONLY <2>1, MaxMsg \in Nat
  <2>4. pkt.size \in Nat \ {0}
    BY <2>1
  <2> QED BY <2>2, <2>3, <2>4
<1>2. rOffset' = at + Lesser(Capacity - at, pkt.size)
  BY <1>1 DEF Copy
<1>3. rOffset' \in at .. Capacity
  BY <1>1, <1>2 DEF Lesser
<1>4. \A i \in Nat : PackageByte(pkt, i) \in Nat \X Nat
  BY <1>1 DEF PackageByte, Padding
<1>5. rBuf' = [p \in 0 .. Capacity - 1 |->
                 IF p >= at /\ p < rOffset' THEN PackageByte(pkt, p - at)
                                            ELSE rBuf[p]]
  BY <1>1, <1>2 DEF Copy
<1>6. rBuf' \in [0 .. Capacity - 1 -> Nat \X Nat]
  <2>1. \A p \in 0 .. Capacity - 1 :
          (IF p >= at /\ p < rOffset' THEN PackageByte(pkt, p - at) ELSE rBuf[p])
            \in Nat \X Nat
    <3> TAKE p \in 0 .. Capacity - 1
    <3>1. rBuf[p] \in Nat \X Nat
      BY DEF TypeOK, ReceiverTypeOK
    <3>2. p >= at => p - at \in Nat
      OBVIOUS
    <3> QED BY <1>4, <3>1, <3>2
  <2> QED BY <1>5, <2>1
<1>7. \A p \in 0 .. Capacity - 1 :
         /\ p < at => rBuf'[p] = rBuf[p]
         /\ at <= p /\ p < rOffset' /\ p - at < pkt.len =>
               rBuf'[p] = <<pkt.msg, pkt.off + (p - at)>>
  BY <1>5 DEF PackageByte
<1> QED BY <1>2, <1>3, <1>6, <1>7

\* Package 1, taken afresh or as a restart: the receiver then holds exactly
\* the first bytes of its message.
LEMMA FirstPackage ==
  ASSUME LinkInv, NEW pkt \in down, Copy(pkt, 0),
         pkt.index = 1, pkt.index # MaxIndex
  PROVE  /\ RMsg' = pkt.msg /\ pkt.msg \in 1 .. sMsg /\ LatestRead < pkt.msg
         /\ Holds(RMsg, Lesser(rOffset, MsgLen[RMsg]))'
         /\ rOffset' = Stored(pkt.size) /\ rOffset' > 0
<1> USE ConstantFacts
<1>1. pkt \in Packages /\ InOrderAir(pkt) /\ sMsg \in 0 .. MaxMsg
  BY DEF LinkInv, TypeOK, SenderTypeOK, AirInv
<1>2. /\ pkt.msg \in 1 .. sMsg /\ pkt.off = 0 /\ LatestRead < pkt.msg
      /\ pkt.len = Lesser(MsgLen[pkt.msg], pkt.size)
      /\ pkt.size \in Nat \ {0}
  BY <1>1 DEF InOrderAir, Packages
<1>3. MsgLen[pkt.msg] \in Nat \ {0}
  BY <1>1, <1>2
<1>4. /\ rOffset' = Lesser(Capacity, pkt.size)
      /\ \A p \in 0 .. Capacity - 1 : p < rOffset' /\ p < pkt.len =>
           rBuf'[p] = <<pkt.msg, p>>
  <2>a. TypeOK /\ 0 \in 0 .. Capacity
    BY DEF LinkInv
  <2>b. /\ rOffset' = 0 + Lesser(Capacity - 0, pkt.size)
        /\ \A p \in 0 .. Capacity - 1 :
             /\ p < 0 => rBuf'[p] = rBuf[p]
             /\ 0 <= p /\ p < rOffset' /\ p - 0 < pkt.len =>
                  rBuf'[p] = <<pkt.msg, pkt.off + (p - 0)>>
    BY <1>1, <2>a, CopyFacts, Zenon
  <2>1. /\ rOffset' = 0 + Lesser(Capacity - 0, pkt.size)
        /\ \A p \in 0 .. Capacity - 1 : 0 <= p /\ p < rOffset' /\ p - 0 < pkt.len =>
             rBuf'[p] = <<pkt.msg, pkt.off + (p - 0)>>
    BY ONLY <2>b, Zenon
  <2>2. rOffset' = Lesser(Capacity, pkt.size)
    BY ONLY <1>2, <2>1, Capacity \in Nat DEF Lesser
  <2>3. ASSUME NEW p \in 0 .. Capacity - 1, p < rOffset', p < pkt.len
        PROVE  rBuf'[p] = <<pkt.msg, p>>
    <3>1. 0 <= p /\ p - 0 = p /\ pkt.off + (p - 0) = p
      BY ONLY <1>2, p \in 0 .. Capacity - 1, Capacity \in Nat
    <3>2. p - 0 < pkt.len
      BY ONLY <2>3, <3>1, Zenon
    <3>3. rBuf'[p] = <<pkt.msg, pkt.off + (p - 0)>>
      BY ONLY <2>1, <2>3, <3>1, <3>2, p \in 0 .. Capacity - 1, Zenon
    <3> QED BY ONLY <3>1, <3>3, Zenon
  <2> QED BY ONLY <2>2, <2>3, Zenon
<1>5. rOffset' > 0 /\ rOffset' \in 0 .. Capacity /\ rOffset' = Stored(pkt.size)
  BY <1>2, <1>4 DEF Lesser, Stored
<1>6. ASSUME NEW p \in 0 .. Capacity - 1, p < rOffset', p < MsgLen[pkt.msg]
      PROVE  rBuf'[p] = <<pkt.msg, p>>
  BY <1>2, <1>3, <1>4, <1>6 DEF Lesser
<1>7. RMsg' = pkt.msg
  BY <1>3, <1>5, <1>6 DEF RMsg
<1>8. Holds(RMsg, Lesser(rOffset, MsgLen[RMsg]))'
  BY <1>3, <1>5, <1>6, <1>7 DEF Holds, Lesser
<1> QED BY <1>2, <1>5, <1>7, <1>8

\* Only the receiver changes when a package arrives.
LEMMA ArrivalFrame ==
  ASSUME LinkInv, UNCHANGED <<senderVars, slot, got>>,
         down' = {}, up' = {}, spoiled' \in BOOLEAN,
         ReceiverTypeOK', ReceiverInv', BufferInv', Agree'
  PROVE  LinkInv'
<1>1. TypeOK'
  BY Zenon DEF LinkInv, TypeOK, SenderTypeOK, senderVars, Packages
<1>2. SenderInv'
  BY DEF LinkInv, SenderInv, senderVars
<1>3. AirInv'
  BY DEF AirInv
<1> QED BY <1>1, <1>2, <1>3 DEF LinkInv

\* ReceiveData.
LEMMA ArriveInv ==
  ASSUME LinkInv, PackageArrives
  PROVE  LinkInv'
<1> USE ConstantFacts
<1>1. PICK pkt \in down : /\ ReceiveData(pkt)
                          /\ down' = {}
                          /\ spoiled' = (spoiled /\ ~Begins(pkt))
                          /\ UNCHANGED <<senderVars, slot, up, got>>
  BY DEF PackageArrives
<1>2. /\ up' = {} /\ pkt \in Packages /\ InOrderAir(pkt) /\ FitsAir(pkt)
      /\ spoiled' \in BOOLEAN /\ pkt.size \in Nat \ {0}
  BY <1>1 DEF LinkInv, TypeOK, AirInv, Packages
<1>3. /\ UNCHANGED <<senderState, sMsg, sOffset, sBytes, sPackage, sExpected, got>>
      /\ \A m : Past(m)' = Past(m)
      /\ LatestRead' = LatestRead
      /\ \A l : PayloadBytes(l)' = PayloadBytes(l)
      /\ \A n : Stored(n)' = Stored(n)
  BY <1>1 DEF senderVars, Past, LatestRead, Channel!Latest, PayloadBytes,
              Transmitting, Stored
<1>4. /\ rPackage \in Nat \ {0} /\ rOffset \in 0 .. Capacity
      /\ sMsg \in 0 .. MaxMsg /\ sOffset \in Nat /\ sPackage \in Nat \ {0}
      /\ LatestRead \in 0 .. sMsg /\ (LatestRead > 0 => Past(LatestRead))
      /\ rConfirm \in BOOLEAN /\ finishedData \in BOOLEAN
      /\ sExpected \in BOOLEAN
      /\ pkt.index \in Nat /\ pkt.off \in Nat /\ pkt.len \in Nat
  BY <1>2, Zenon DEF LinkInv, TypeOK, SenderTypeOK, ReceiverTypeOK, ReceiverInv,
                     Packages
<1>5. CASE Resync(pkt)
  <2>1. ReceiverTypeOK'
    <3>1. rOffset' \in 0 .. Capacity /\ rPackage' \in Nat \ {0}
      BY <1>5 DEF Resync
    <3>2. rConfirm' \in BOOLEAN /\ finishedData' \in BOOLEAN
      BY <1>4, <1>5, Zenon DEF Resync
    <3> QED BY <1>5, <3>1, <3>2, Zenon DEF Resync, ReceiverTypeOK, LinkInv, TypeOK
  <2>2. ReceiverInv' /\ BufferInv' /\ Agree'
    BY <1>3, <1>4, <1>5 DEF Resync, ReceiverInv, BufferInv, Mid, Agree
  <2> QED BY <1>1, <1>2, <2>1, <2>2, ArrivalFrame
<1>6. CASE IgnorePackage(pkt)
  <2>1. UNCHANGED <<rBuf, rOffset, rPackage, rConfirm, finishedData>>
    BY <1>6 DEF IgnorePackage, receiverVars
  <2>2. ReceiverTypeOK'
    BY <2>1, Zenon DEF LinkInv, TypeOK, ReceiverTypeOK
  <2>3. spoiled' = spoiled
    BY <1>1, <1>4, <1>6 DEF IgnorePackage, Begins, IsRestart, LinkInv, TypeOK
  <2>4. ReceiverInv' /\ BufferInv'
    BY <1>3, <2>1, <2>3 DEF LinkInv, ReceiverInv, BufferInv, Mid, RMsg, Holds
  <2>5. Agree'
    BY <1>3, <2>1, <2>3 DEF LinkInv, Agree, Mid, RMsg, Abreast, Ahead, Taken
  <2> QED BY <1>1, <1>2, <2>2, <2>4, <2>5, ArrivalFrame
<1>7. ASSUME pkt.index = 1, pkt.index # MaxIndex, ~finishedData,
             Copy(pkt, 0), rPackage' = 2, rConfirm' = ~rConfirm,
             finishedData' = FALSE
      PROVE  LinkInv'
  <2>1. /\ RMsg' = pkt.msg /\ pkt.msg \in 1 .. sMsg /\ LatestRead < pkt.msg
        /\ Holds(RMsg, Lesser(rOffset, MsgLen[RMsg]))'
        /\ rOffset' = Stored(pkt.size) /\ rOffset' > 0
    BY <1>7, FirstPackage
  <2>2. ReceiverTypeOK'
    <3>1. rBuf' \in [0 .. Capacity - 1 -> Nat \X Nat] /\ rOffset' \in 0 .. Capacity
      BY <1>2, <1>7, CopyFacts DEF LinkInv
    <3>2. rConfirm' \in BOOLEAN /\ finishedData' \in BOOLEAN
      BY <1>4, <1>7, Zenon
    <3>3. rPackage' \in Nat \ {0}
      BY <1>7
    <3> QED BY <3>1, <3>2, <3>3, Zenon DEF ReceiverTypeOK
  <2>3. ReceiverInv' /\ BufferInv'
    BY <1>3, <1>4, <1>7, <2>1 DEF ReceiverInv, BufferInv, Mid
  <2>4. Agree'
    <3>1. CASE senderState \in {"SEND_PENDING", "RESYNC_THEN_SEND"}
      BY <1>2, <1>3, <1>7, <3>1 DEF InOrderAir, Agree
    <3>2. CASE senderState \notin {"SEND_PENDING", "RESYNC_THEN_SEND"}
      <4>1. pkt = Package(pkt.size) /\ sBytes = pkt.len
        BY <1>2, <3>2 DEF InOrderAir
      <4>2. PackageIndex(pkt.size) = 1 /\ PackageIndex(pkt.size) # MaxIndex
            /\ pkt.msg = sMsg
        BY <1>7, <4>1 DEF Package, PackageOf
      <4>3. senderState = "SENDING" /\ sPackage = 1 /\ sOffset = 0
        BY <1>4, <3>2, <4>2 DEF PackageIndex, Transmitting, LinkInv, SenderInv
      <4>4. sBytes = Lesser(MsgLen[sMsg], pkt.size) /\ MsgLen[sMsg] \in Nat \ {0}
        BY <1>2, <1>4, <1>7, <2>1, <4>1, <4>2 DEF InOrderAir
      <4>5. CASE rConfirm = sExpected
        BY <1>3, <1>4, <1>7, <4>3, <4>5 DEF Agree
      <4>6. CASE rConfirm # sExpected
        <5>1. rConfirm' = sExpected
          BY <1>4, <1>7, <4>6
        <5>2. Taken'
          BY <1>3, <1>7, <2>1, <4>2, <4>3, <5>1 DEF Taken, Mid
        <5>3. IF sOffset + sBytes < MsgLen[sMsg]
              THEN rOffset' = Stored(sOffset + sBytes)
              ELSE rOffset' >= Stored(MsgLen[sMsg])
          BY <1>2, <1>4, <2>1, <4>3, <4>4 DEF Lesser, Stored
        <5>4. Ahead'
          BY <1>3, <4>3, <5>2, <5>3 DEF Ahead, Stored
        <5> QED BY <1>3, <4>3, <5>4 DEF Agree
      <4> QED BY <4>5, <4>6
    <3> QED BY <3>1, <3>2
  <2> QED BY <1>1, <1>2, <2>2, <2>3, <2>4, ArrivalFrame
<1>8. CASE AcceptRestart(pkt)
  BY <1>4, <1>7, <1>8 DEF AcceptRestart, IsRestart
<1>9. CASE AcceptPackage(pkt) /\ rPackage = 1
  <2>1. rOffset = 0
    BY <1>9 DEF LinkInv, ReceiverInv
  <2>2. ~IsLast(pkt)
    BY <1>9 DEF IsLast
  <2>3. pkt.index = 1 /\ pkt.index # MaxIndex /\ rPackage' = 2
    BY <1>9, <2>2 DEF AcceptPackage
  <2>4. ~finishedData /\ Copy(pkt, 0) /\ rConfirm' = ~rConfirm
    BY <1>9, <2>1, Zenon DEF AcceptPackage
  <2>5. finishedData' = FALSE
    <3>1. IsLast(pkt) = FALSE
      BY <2>2 DEF IsLast
    <3>2. finishedData' = IsLast(pkt)
      BY <1>9, Zenon DEF AcceptPackage
    <3> QED BY <3>1, <3>2, Zenon
  <2> QED BY <1>7, <2>3, <2>4, <2>5
<1>10. CASE AcceptPackage(pkt) /\ rPackage # 1
  <2>0. rPackage > 1 /\ ~finishedData
    BY <1>4, <1>10 DEF AcceptPackage
  <2>1. Mid /\ rPackage > 1 /\ pkt.index # MaxIndex /\ rOffset > 0
        /\ (pkt.index = 0 \/ (pkt.index > 1 /\ pkt.index = rPackage))
        /\ rPackage' = rPackage + 1 /\ rConfirm' = ~rConfirm
        /\ finishedData' = (pkt.index = 0)
        /\ Copy(pkt, rOffset)
    <3>1. Mid /\ rOffset > 0
      BY <2>0 DEF Mid, LinkInv, ReceiverInv
    <3>2. IsLast(pkt) = (pkt.index = 0)
      BY <2>0 DEF IsLast
    <3>3. /\ pkt.index # MaxIndex /\ Copy(pkt, rOffset)
          /\ rPackage' = rPackage + 1 /\ rConfirm' = ~rConfirm
          /\ finishedData' = IsLast(pkt)
          /\ IsLast(pkt) \/ pkt.index = rPackage
      BY <1>10, Zenon DEF AcceptPackage
    <3>4. finishedData' = (pkt.index = 0)
      BY <3>2, <3>3, Zenon
    <3>5. pkt.index = 0 \/ pkt.index = rPackage
      BY <3>2, <3>3, Zenon
    <3>6. pkt.index = 0 \/ (pkt.index > 1 /\ pkt.index = rPackage)
      BY <2>0, <3>5
    <3>7. rPackage' = rPackage + 1 /\ rConfirm' = ~rConfirm /\ Copy(pkt, rOffset)
          /\ pkt.index # MaxIndex
      BY <3>3, Zenon
    <3> QED BY <2>0, <3>1, <3>4, <3>6, <3>7, Zenon
  <2>2. /\ RMsg \in 1 .. sMsg /\ LatestRead < RMsg
        /\ MsgLen[RMsg] \in Nat \ {0}
        /\ spoiled' = spoiled
    <3>1. RMsg \in 1 .. sMsg /\ LatestRead < RMsg
      BY <2>1 DEF LinkInv, ReceiverInv
    <3>2. ~Begins(pkt)
      BY <2>1 DEF Begins
    <3>3. spoiled' = spoiled
      BY <1>1, <3>2 DEF LinkInv, TypeOK
    <3> QED BY <1>4, <3>1, <3>3
  <2>3. ~spoiled => \A p \in 0 .. Capacity - 1 :
                       p < rOffset /\ p < MsgLen[RMsg] => rBuf[p] = <<RMsg, p>>
    BY <1>4, <2>1, <2>2 DEF LinkInv, BufferInv, Holds, Lesser
  <2>4. /\ rBuf' \in [0 .. Capacity - 1 -> Nat \X Nat]
        /\ rOffset' = rOffset + Lesser(Capacity - rOffset, pkt.size)
        /\ rOffset' \in rOffset .. Capacity
        /\ \A p \in 0 .. Capacity - 1 :
              /\ p < rOffset => rBuf'[p] = rBuf[p]
              /\ rOffset <= p /\ p < rOffset' /\ p - rOffset < pkt.len =>
                    rBuf'[p] = <<pkt.msg, pkt.off + (p - rOffset)>>
    BY <1>2, <1>4, <2>1, CopyFacts DEF LinkInv
  <2>5. ReceiverTypeOK'
    <3>1. rConfirm' \in BOOLEAN /\ finishedData' \in BOOLEAN
      BY <1>4, <2>1, Zenon
    <3>2. rPackage' \in Nat \ {0} /\ rOffset' \in 0 .. Capacity
      BY <1>4, <2>1, <2>4
    <3> QED BY <2>4, <3>1, <3>2, Zenon DEF ReceiverTypeOK
  <2>6. RMsg' = RMsg
    <3>1. 0 \in 0 .. Capacity - 1 /\ 0 < rOffset
      BY <1>4, <2>1
    <3>2. rBuf'[0] = rBuf[0]
      BY <2>4, <3>1, Zenon
    <3> QED BY <3>2, Zenon DEF RMsg
  <2>7. CASE pkt.index = 0
    <3>1. finishedData' /\ ~Mid' /\ Past(RMsg)
      BY <1>2, <2>1, <2>7 DEF Mid, InOrderAir
    <3>2. ReceiverInv'
      BY <1>3, <1>4, <2>1, <2>2, <2>6, <3>1 DEF ReceiverInv
    <3>3. BufferInv'
      <4> SUFFICES ASSUME ~spoiled, NEW p \in 0 .. Capacity - 1, p < MsgLen[RMsg]
                   PROVE  rBuf'[p] = <<RMsg, p>>
        BY <2>2, <2>6, <3>1 DEF BufferInv, Holds, Lesser
      <4>0. p \in 0 .. Capacity - 1
        OBVIOUS
      <4>1. CASE p < rOffset
        BY <2>3, <2>4, <4>1
      <4>2. CASE ~(p < rOffset)
        <5>1. /\ RMsg = pkt.msg
              /\ \/ rOffset >= Stored(MsgLen[RMsg])
                 \/ /\ rOffset = Stored(pkt.off)
                    /\ pkt.off + pkt.len = MsgLen[RMsg]
                    /\ pkt.len <= pkt.size
          BY <1>2, <2>1, <2>7 DEF FitsAir
        <5>2. rOffset < Capacity /\ rOffset < MsgLen[RMsg]
          BY <1>4, <2>2, <4>2
        <5>3. /\ rOffset = pkt.off /\ pkt.off + pkt.len = MsgLen[RMsg]
              /\ pkt.len <= pkt.size
          BY <1>4, <2>2, <5>1, <5>2 DEF Stored, Lesser
        <5>4. rOffset <= p /\ p < rOffset' /\ p - rOffset < pkt.len
              /\ pkt.off + (p - rOffset) = p
          <6>1. p \in Nat /\ rOffset \in Nat /\ p < Capacity /\ rOffset <= p
                /\ pkt.len \in Nat /\ pkt.size \in Nat /\ pkt.off \in Nat
            BY <1>2, <1>4, <4>2
          <6>2. p < pkt.off + pkt.len
            BY <5>3
          <6>3. p - rOffset < pkt.len /\ pkt.off + (p - rOffset) = p
            BY <5>3, <6>1, <6>2
          <6>4. p < rOffset'
            <7>1. rOffset' = rOffset + Lesser(Capacity - rOffset, pkt.size)
              BY <2>4
            <7>2. pkt.len <= pkt.size
              BY <5>3
            <7> QED BY ONLY <6>1, <6>3, <7>1, <7>2, Capacity \in Nat DEF Lesser
          <6> QED BY <6>1, <6>3, <6>4
        <5> QED BY <2>4, <4>0, <5>1, <5>4
      <4> QED BY <4>1, <4>2
    <3> QED BY <1>1, <1>2, <2>5, <3>1, <3>2, <3>3, ArrivalFrame DEF Agree
  <2>8. CASE pkt.index > 1 /\ pkt.index = rPackage
    <3>1. ~finishedData'
      BY <1>4, <2>1, <2>8
    <3>2. ReceiverInv'
      <4>1. rPackage' > 1 /\ rOffset' > 0
        <5>1. /\ rPackage \in Nat \ {0} /\ rOffset \in 0 .. Capacity
              /\ rPackage > 1 /\ rPackage' = rPackage + 1 /\ rOffset > 0
          BY <1>4, <2>1, Zenon
        <5>2. rOffset' \in rOffset .. Capacity
          BY <2>4, Zenon
        <5>3. Capacity \in Nat
          BY ConstantFacts
        <5> QED BY ONLY <5>1, <5>2, <5>3
      <4>2. RMsg' \in 1 .. sMsg' /\ LatestRead' < RMsg'
        BY <1>3, <2>2, <2>6
      <4>3. LatestRead' \in 0 .. sMsg' /\ (LatestRead' > 0 => Past(LatestRead)')
        BY <1>3, <1>4
      <4> QED BY <3>1, <4>1, <4>2, <4>3 DEF ReceiverInv, Mid
    <3>3. ~spoiled => /\ RMsg = pkt.msg /\ rOffset = Stored(pkt.off)
                      /\ pkt.len = pkt.size
                      /\ pkt.off + pkt.len < MsgLen[RMsg]
      BY <1>2, <2>1, <2>8 DEF FitsAir
    <3>4. ~spoiled => rOffset' = Stored(pkt.off + pkt.len)
      <4> SUFFICES ASSUME ~spoiled
                   PROVE  rOffset' = Stored(pkt.off + pkt.len)
        OBVIOUS
      <4>1. rOffset = Stored(pkt.off) /\ pkt.len = pkt.size
        BY <3>3
      <4>2. rOffset' = rOffset + Lesser(Capacity - rOffset, pkt.len)
        BY <2>4, <4>1
      <4> QED BY <1>4, <4>1, <4>2 DEF Lesser, Stored
    <3>5. BufferInv'
      <4> SUFFICES ASSUME ~spoiled, NEW p \in 0 .. Capacity - 1,
                          p < rOffset', p < MsgLen[RMsg]
                   PROVE  rBuf'[p] = <<RMsg, p>>
        <5>1. rOffset' \in 0 .. Capacity
          BY <1>4, <2>4
        <5>2. MsgLen[RMsg'] = MsgLen[RMsg] /\ MsgLen[RMsg] \in Nat
          BY <2>2, <2>6
        <5>3. \A q \in 0 .. Lesser(Lesser(rOffset', MsgLen[RMsg]), Capacity) - 1 :
                q \in 0 .. Capacity - 1 /\ q < rOffset' /\ q < MsgLen[RMsg]
          <6>1. rOffset' \in Nat /\ MsgLen[RMsg] \in Nat /\ Capacity \in Nat
            BY <5>1, <5>2
          <6> QED BY ONLY <6>1, BelowAll
        <5>4. ~spoiled => Holds(RMsg, Lesser(rOffset, MsgLen[RMsg]))'
          BY <2>6, <5>2, <5>3 DEF Holds, Lesser
        <5> QED BY <2>2, <3>1, <5>4 DEF BufferInv
      <4>1. CASE p < rOffset
        BY <2>3, <2>4, <4>1
      <4>2. CASE ~(p < rOffset)
        <5>1. rOffset = pkt.off
          BY <1>4, <3>3, <4>2 DEF Stored, Lesser
        <5>2. rOffset <= p /\ p < rOffset' /\ p - rOffset < pkt.len
              /\ pkt.off + (p - rOffset) = p
          BY <1>2, <1>4, <2>2, <3>3, <3>4, <4>2, <5>1 DEF Lesser, Stored
        <5> QED BY <2>4, <3>3, <5>2
      <4> QED BY <4>1, <4>2
    <3>6. Agree'
      <4> SUFFICES ASSUME ~spoiled PROVE Agree'
        BY <2>2 DEF Agree
      <4>1. CASE senderState \in {"SEND_PENDING", "RESYNC_THEN_SEND"}
        BY <1>2, <1>3, <1>4, <2>1, <2>8, <4>1 DEF InOrderAir, Agree
      <4>2. CASE senderState \notin {"SEND_PENDING", "RESYNC_THEN_SEND"}
        <5>1. pkt = Package(pkt.size) /\ sBytes = pkt.len
          BY <1>2, <4>2 DEF InOrderAir
        <5>2. PackageIndex(pkt.size) = rPackage
              /\ PackageIndex(pkt.size) # MaxIndex
              /\ pkt.msg = sMsg /\ pkt.off = sOffset
          BY <2>1, <2>8, <5>1 DEF Package, PackageOf
        <5>3. senderState = "SENDING" /\ sPackage = rPackage
          BY <1>4, <2>1, <4>2, <5>2 DEF PackageIndex, Transmitting
        <5>4. Abreast
          BY <1>4, <2>1, <5>3 DEF LinkInv, Agree, Ahead, Taken
        <5>5. Taken'
          BY <1>3, <1>4, <2>1, <2>6, <3>1, <5>3, <5>4 DEF Taken, Abreast, Mid
        <5>6. sOffset + sBytes < MsgLen[sMsg]
              /\ rOffset' = Stored(sOffset + sBytes)
          BY <3>3, <3>4, <5>1, <5>2
        <5>7. Ahead'
          BY <1>3, <5>5, <5>6 DEF Ahead, Stored
        <5> QED BY <1>3, <5>3, <5>7 DEF Agree
      <4> QED BY <4>1, <4>2
    <3> QED BY <1>1, <1>2, <2>5, <3>2, <3>5, <3>6, ArrivalFrame
  <2> QED BY <2>1, <2>7, <2>8
<1> QED BY <1>1, <1>5, <1>6, <1>8, <1>9, <1>10 DEF ReceiveData

-------------------------------------------------------------------------------
\* No step of the link breaks its invariant.
LEMMA NextInv ==
  ASSUME LinkInv, [Next]_vars
  PROVE  LinkInv'
<1>1. CASE \E maxLen \in PayloadLens : SendPackage(maxLen)
  BY <1>1, SendInv
<1>2. CASE PackageArrives
  BY <1>2, ArriveInv
<1>3. CASE AckArrives
  BY <1>3, AckInv
<1>4. CASE QueueMessage
  BY <1>4, QueueInv
<1>5. CASE ReadMessage
  BY <1>5, ReadInv
<1>6. CASE ReceiverReboot \/ SenderReboot \/ PacketSizeChanged
  BY <1>6, ResetInv
<1>7. CASE SendAck \/ PacketLost \/ RateUpdated \/ UNCHANGED vars
  BY <1>7, QuietSteps
<1> QED BY <1>1, <1>2, <1>3, <1>4, <1>5, <1>6, <1>7 DEF Next

\* LinkInv holds of every reachable state, for any number and lengths of
\* messages, any package sizes and index range, wait count and slot pattern.
THEOREM LinkInvariant == Spec => []LinkInv
<1>1. Init => LinkInv
  BY InitInv
<1>2. LinkInv /\ [Next]_vars => LinkInv'
  BY NextInv
<1> QED BY <1>1, <1>2, PTL DEF Spec

\* The fields of both halves stay in range, the copy into the buffer with them,
\* and the link is half-duplex.
THEOREM TypeCorrect == Spec => []TypeOK
<1>1. LinkInv => TypeOK
  BY DEF LinkInv
<1> QED BY <1>1, LinkInvariant, PTL

\* A message HasFinishedData reports is byte for byte one that was queued,
\* unless the sender restarted in its midst or sent a package the receiver had
\* taken again in another size.
THEOREM IntegrityHolds == Spec => []Integrity
<1>1. LinkInv => Integrity
  <2> SUFFICES ASSUME LinkInv, ~spoiled, finishedData
               PROVE  \E m \in 1 .. MaxMsg : Holds(m, MsgLen[m])
    BY DEF Integrity, Whole
  <2>1. RMsg \in 1 .. sMsg /\ Holds(RMsg, MsgLen[RMsg])
    BY DEF LinkInv, ReceiverInv, BufferInv
  <2>2. RMsg \in 1 .. MaxMsg
    BY <2>1, ConstantFacts DEF LinkInv, TypeOK, SenderTypeOK
  <2> QED BY <2>1, <2>2
<1> QED BY <1>1, LinkInvariant, PTL

\* The link implements the channel: each message is read at most once, in the
\* order in which they were queued, whichever end restarts and whatever is
\* spoiled.
THEOREM LinkImplementsChannel == Spec => ImplementsChannel
<1>1. Init => Channel!Init
  BY DEF Init, SenderInit, Channel!Init
<1>2. LinkInv /\ [Next]_vars => [Channel!Next]_<<sMsg, got>>
  <2> SUFFICES ASSUME LinkInv, [Next]_vars
               PROVE  [Channel!Next]_<<sMsg, got>>
    OBVIOUS
  <2>1. CASE QueueMessage
    BY <2>1 DEF QueueMessage, SetDataToTransmit, Channel!Next, Channel!Queue
  <2>2. CASE ReadMessage
    <3>1. RMsg \in 1 .. sMsg /\ LatestRead < RMsg /\ LatestRead \in Nat
          /\ got' = Append(got, RMsg) /\ sMsg' = sMsg
      BY <2>2 DEF ReadMessage, Unlock, LinkInv, ReceiverInv, TypeOK,
                  SenderTypeOK, RMsg, senderVars
    <3>2. RMsg \in LatestRead + 1 .. sMsg
      BY <3>1 DEF LinkInv, TypeOK, SenderTypeOK
    <3> QED BY <3>1, <3>2 DEF Channel!Next, Channel!Take, LatestRead
  <2>3. CASE ~QueueMessage /\ ~ReadMessage
    <3>1. sMsg' = sMsg /\ got' = got
      BY <2>3
      DEF Next, vars, senderVars, SendPackage, GetCurrentPayload, SendAck,
          PackageArrives, AckArrives, ConfirmCurrentPayload, PackageConfirmed,
          ResyncConfirmed, ConfirmMissed, ConfirmIgnored, PacketLost,
          RateUpdated, UpdateTelemetryRate, ReceiverReboot, SenderReboot,
          PacketSizeChanged, SenderReset
    <3> QED BY <3>1
  <2> QED BY <2>1, <2>2, <2>3
<1> QED BY <1>1, <1>2, LinkInvariant, PTL
        DEF Spec, ImplementsChannel, Channel!Spec
===============================================================================
