----------------------------- MODULE StubbornLink -----------------------------
(***************************************************************************)
(* A sender and a receiver of the stubborn link on the two ends of a       *)
(* half-duplex, time-slotted radio link.  Every TlmDenom-th slot carries a *)
(* package one way, the others carry the acknowledge bit the other way     *)
(* (rx_main.cpp HandleSendDataDl and ProcessRfPacket_RC, tx_main.cpp       *)
(* SendRCdataToRF and ProcessOtaDataDl).  A slot's packet arrives or is    *)
(* lost before the next slot; the main loops of both ends run in between.  *)
(***************************************************************************)
EXTENDS StubbornSender, StubbornReceiver, Sequences

CONSTANTS
  PayloadLens,   \* the payload sizes GetCurrentPayload is called with
  TlmDenom       \* ExpressLRS_currTlmDenom: slots per package slot

ASSUME LinkAssumption ==
  /\ PayloadLens # {} /\ PayloadLens \subseteq Nat \ {0}
  /\ TlmDenom \in Nat \ {0, 1}
  /\ Capacity > 0

VARIABLES
  slot,     \* OtaNonce % TlmDenom; slot 0 carries a package
  down,     \* the package in the air: {} or {package}
  up,       \* the acknowledge bit in the air: {} or {bit}
  got,      \* the messages the application has read, in order
  spoiled   \* history, read by no action: since the receiver began the message
            \* it holds, the sender has restarted or has sent a package the
            \* receiver had taken again, in another size

airVars == <<slot, down, up>>
vars == <<senderVars, receiverVars, airVars, got, spoiled>>

Init ==
  /\ SenderInit /\ ReceiverInit
  /\ slot = 0 /\ down = {} /\ up = {}
  /\ got = <<>> /\ spoiled = FALSE

Quiet == down = {} /\ up = {}

NextSlot == slot' = (slot + 1) % TlmDenom

\* The receiver holds the beginning of a message, and which one.
Mid == ~finishedData /\ rPackage > 1
RMsg == rBuf[0][1]

\* It has the sender's present package, and the acknowledge says so.
Taken ==
  /\ senderState = "SENDING" /\ Mid /\ RMsg = sMsg
  /\ rPackage = sPackage + 1 /\ rConfirm = sExpected

\* The receiver begins a message anew.
Begins(pkt) == pkt.index = MaxIndex \/ (pkt.index = 1 /\ ~finishedData)

-------------------------------------------------------------------------------
(* The radio.                                                              *)
SendPackage(maxLen) ==
  /\ Quiet /\ slot = 0
  /\ down' = {Package(maxLen)}
  /\ GetCurrentPayload(maxLen)
  /\ NextSlot
  /\ spoiled' = (spoiled \/ (Taken /\ PayloadBytes(maxLen) # sBytes))
  /\ UNCHANGED <<receiverVars, up, got>>

SendAck ==
  /\ Quiet /\ slot # 0
  /\ up' = {rConfirm}
  /\ NextSlot
  /\ UNCHANGED <<senderVars, receiverVars, down, got, spoiled>>

PackageArrives ==
  \E pkt \in down :
    /\ ReceiveData(pkt)
    /\ down' = {}
    /\ spoiled' = (spoiled /\ ~Begins(pkt))
    /\ UNCHANGED <<senderVars, slot, up, got>>

AckArrives ==
  \E bit \in up :
    /\ ConfirmCurrentPayload(bit)
    /\ up' = {}
    /\ UNCHANGED <<receiverVars, slot, down, got, spoiled>>

\* Bad CRC, LBT, an uplink packet without the bit, a receiver not listening.
PacketLost ==
  /\ ~Quiet
  /\ down' = {} /\ up' = {}
  /\ UNCHANGED <<senderVars, receiverVars, slot, got, spoiled>>

-------------------------------------------------------------------------------
(* The main loops.                                                         *)
QueueMessage ==
  /\ SetDataToTransmit
  /\ UNCHANGED <<receiverVars, airVars, got, spoiled>>

RateUpdated ==
  /\ UpdateTelemetryRate
  /\ UNCHANGED <<receiverVars, airVars, got, spoiled>>

\* HasFinishedData: the application takes the message, then Unlock.
ReadMessage ==
  /\ Unlock
  /\ got' = Append(got, RMsg)
  /\ spoiled' = FALSE
  /\ UNCHANGED <<senderVars, airVars>>

\* The receiving end restarts.  Its buffer, memory of a fresh boot, is clear.
ReceiverReboot ==
  /\ rBuf' = [p \in 0 .. Capacity - 1 |-> Padding]
  /\ rOffset' = 0 /\ rPackage' = 1
  /\ rConfirm' = FALSE
  /\ finishedData' = FALSE
  /\ down' = {} /\ up' = {} /\ spoiled' = FALSE
  /\ UNCHANGED <<senderVars, slot, got>>

\* The sending end alone restarts, or EnterBindingMode or ExitBindingMode resets
\* its sender (after waiting for the end of a transmission), with the receiver
\* left in the middle of a message.
SenderReboot ==
  /\ SenderReset
  /\ down' = {} /\ up' = {}
  /\ spoiled' = (spoiled \/ Mid)
  /\ UNCHANGED <<receiverVars, slot, got>>

\* Both ends go to an air rate with another packet size: setMaxPackageIndex
\* resets each, and no packet is heard until both have changed.
PacketSizeChanged ==
  /\ SenderReset /\ ReceiverReset
  /\ down' = {} /\ up' = {}
  /\ spoiled' = (spoiled /\ finishedData)
  /\ UNCHANGED <<slot, got>>

Next ==
  \/ \E maxLen \in PayloadLens : SendPackage(maxLen)
  \/ SendAck
  \/ PackageArrives
  \/ AckArrives
  \/ PacketLost
  \/ QueueMessage
  \/ RateUpdated
  \/ ReadMessage
  \/ ReceiverReboot
  \/ SenderReboot
  \/ PacketSizeChanged

Spec == Init /\ [][Next]_vars

-------------------------------------------------------------------------------
(* The slot timers and both main loops keep running, and from some moment  *)
(* on the link is good: nothing is lost and nobody restarts or changes     *)
(* rate.  The code retries for ever, so it needs no more than that.        *)
\* A step that is as good as an arrival disturbs nothing: a package the
\* receiving end ignores, or an acknowledge to a receiver fresh from a restart.
Disturbance ==
  /\ \/ PacketLost \/ RateUpdated
     \/ ReceiverReboot \/ SenderReboot \/ PacketSizeChanged
  /\ ~PackageArrives /\ ~AckArrives

LinkRecovers == <>[][~Disturbance]_vars

FairSpec ==
  /\ Spec
  /\ WF_vars(\E maxLen \in PayloadLens : SendPackage(maxLen))
  /\ WF_vars(SendAck)
  /\ WF_vars(PackageArrives)
  /\ WF_vars(AckArrives)
  /\ WF_vars(ReadMessage)

-------------------------------------------------------------------------------
Packages ==
  [index : Nat, msg : 0 .. MaxMsg, off : Nat, len : Nat, size : PayloadLens]

\* The variables range over what the fields of the two classes can hold, and
\* at most one packet is in the air.
TypeOK ==
  /\ SenderTypeOK
  /\ ReceiverTypeOK
  /\ slot \in 0 .. TlmDenom - 1
  /\ down \subseteq Packages
  /\ up \subseteq BOOLEAN
  /\ down = {} \/ up = {}
  /\ got \in Seq(1 .. MaxMsg)
  /\ spoiled \in BOOLEAN

\* The first n bytes of a message, or as many as the buffer can take.
Holds(m, n) == \A p \in 0 .. Lesser(n, Capacity) - 1 : rBuf[p] = <<m, p>>

\* A message HasFinishedData reports is byte for byte one that was queued (as
\* far as the buffer goes), not a truncation nor a mixture of two.
Whole == finishedData => \E m \in 1 .. MaxMsg : Holds(m, MsgLen[m])

\* Whatever is lost, aborted or resynchronised, whatever size each package is
\* sent in and whenever the receiver restarts, a message that is reported is
\* whole.  Two things can spoil it, and nothing else: a restart of the sender
\* in the middle of the message, and a package sent again in another size after
\* the receiver has taken it.  A message begun after that is whole again.
Integrity == ~spoiled => Whole

\* No message is handed over twice, or after a later one, or without having
\* been queued: the link implements the channel the main loops count on.
Channel == INSTANCE MessageChannel WITH queued <- sMsg, taken <- got

ImplementsChannel == Channel!Spec

\* A sender that is busy gets free again, so that the main loop, which queues
\* only on a free one, is never shut out (rx_main.cpp loop).
SenderGetsFree == LinkRecovers => (IsActive ~> ~IsActive)

-------------------------------------------------------------------------------
(* The inductive invariant behind Integrity and ImplementsChannel.  What    *)
(* orders the messages holds always; where sender and receiver are in one   *)
(* message holds unless it is spoiled.                                     *)
Stored(n) == Lesser(n, Capacity)

LatestRead == Channel!Latest

\* The sender cannot send package 1 of message m again.
Past(m) == m = sMsg => sPackage > 1 \/ senderState = "IDLE"

SenderInv ==
  /\ senderState # "IDLE" => sMsg >= 1
  /\ sPackage = 1 => sOffset = 0
  /\ senderState \in {"SEND_PENDING", "RESYNC_THEN_SEND"} => sPackage = 1
  /\ senderState = "WAIT_UNTIL_NEXT_CONFIRM" => sPackage > 1
  /\ senderState = "SENDING" => sOffset < MsgLen[sMsg]

\* The message in the buffer comes after those read and is not sent again.
ReceiverInv ==
  /\ rPackage = 1 => rOffset = 0
  /\ rPackage > 1 /\ ~finishedData => rOffset > 0
  /\ Mid \/ finishedData => RMsg \in 1 .. sMsg /\ LatestRead < RMsg
  /\ finishedData => Past(RMsg)
  /\ LatestRead \in 0 .. sMsg
  /\ LatestRead > 0 => Past(LatestRead)

\* Nothing but the beginning of that message, or all of it, is in the buffer.
BufferInv ==
  ~spoiled =>
    /\ Mid => Holds(RMsg, Lesser(rOffset, MsgLen[RMsg]))
    /\ finishedData => Holds(RMsg, MsgLen[RMsg])

\* The receiver waits for the package the sender repeats.
Abreast ==
  /\ rPackage = sPackage /\ RMsg = sMsg
  /\ rOffset = Stored(sOffset)
  /\ rConfirm # sExpected

\* The receiver has it as it was last sent.
Ahead ==
  /\ Taken
  /\ IF sOffset + sBytes < MsgLen[sMsg]
     THEN rOffset = Stored(sOffset + sBytes)
     ELSE sPackage = 1 /\ rOffset >= Stored(MsgLen[sMsg])

\* Where each state of the sender allows a receiver in mid-message to be.
Agree ==
  Mid /\ ~spoiled =>
    \/ senderState = "RESYNC_THEN_SEND"
    \/ senderState = "RESYNC" /\ rConfirm # sExpected
    \/ /\ senderState = "WAIT_UNTIL_NEXT_CONFIRM"
       /\ RMsg = sMsg /\ rOffset >= Stored(MsgLen[sMsg]) /\ rConfirm # sExpected
    \/ /\ senderState = "SENDING"
       /\ (sPackage = 1 /\ rConfirm # sExpected) \/ Abreast \/ Ahead

\* A package in the air is the sender's present one, or from before an abort.
\* One that begins or ends a message keeps the order ...
InOrderAir(pkt) ==
  /\ senderState \notin {"SEND_PENDING", "RESYNC_THEN_SEND"} =>
       pkt = Package(pkt.size) /\ sBytes = pkt.len
  /\ senderState = "SEND_PENDING" => pkt.index \in {0, MaxIndex}
  /\ pkt.index = 1 /\ pkt.index # MaxIndex =>
       /\ pkt.msg \in 1 .. sMsg /\ pkt.off = 0
       /\ pkt.len = Lesser(MsgLen[pkt.msg], pkt.size)
       /\ LatestRead < pkt.msg
       /\ finishedData => RMsg < pkt.msg
  /\ pkt.index = 0 /\ Mid /\ pkt.index # MaxIndex => Past(RMsg)

\* ... and one that the receiver takes in mid-message belongs where it goes.
FitsAir(pkt) ==
  Mid /\ ~spoiled /\ pkt.index # MaxIndex =>
    /\ pkt.index > 1 /\ pkt.index = rPackage =>
         /\ RMsg = pkt.msg /\ rOffset = Stored(pkt.off) /\ pkt.len = pkt.size
         /\ pkt.off + pkt.len < MsgLen[pkt.msg]
    /\ pkt.index = 0 =>
         /\ RMsg = pkt.msg
         /\ \/ rOffset >= Stored(MsgLen[RMsg])
            \/ /\ rOffset = Stored(pkt.off) /\ pkt.off + pkt.len = MsgLen[RMsg]
               /\ pkt.len <= pkt.size

AirInv ==
  /\ \A pkt \in down : InOrderAir(pkt) /\ FitsAir(pkt)
  /\ \A bit \in up : bit = rConfirm

LinkInv ==
  TypeOK /\ SenderInv /\ ReceiverInv /\ BufferInv /\ Agree /\ AirInv
===============================================================================
