--------------------------- MODULE StubbornReceiver ---------------------------
(***************************************************************************)
(* The receiving half of the stubborn link (lib/StubbornReceiver): it      *)
(* copies the packages of one message into a buffer, flips the acknowledge *)
(* bit for each one it takes, and locks when the message is complete until *)
(* the main loop has read it.                                              *)
(***************************************************************************)
EXTENDS StubbornPackage

CONSTANT Capacity    \* maxLength, the size of the buffer

ASSUME ReceiverAssumption == Capacity \in Nat

VARIABLES
  rBuf,        \* data
  rOffset,     \* currentOffset
  rPackage,    \* currentPackage
  rConfirm,    \* telemetryConfirm
  finishedData

receiverVars == <<rBuf, rOffset, rPackage, rConfirm, finishedData>>

ReceiverInit ==
  /\ rBuf = [p \in 0 .. Capacity - 1 |-> Padding]
  /\ rOffset = 0 /\ rPackage = 1
  /\ rConfirm = FALSE
  /\ finishedData = FALSE

\* ResetState leaves finishedData and the buffer alone.
ReceiverReset ==
  /\ rOffset' = 0 /\ rPackage' = 1
  /\ rConfirm' = FALSE
  /\ UNCHANGED <<rBuf, finishedData>>

Unlock ==
  /\ finishedData
  /\ rOffset' = 0 /\ rPackage' = 1
  /\ finishedData' = FALSE
  /\ UNCHANGED <<rBuf, rConfirm>>

-------------------------------------------------------------------------------
(* ReceiveData, one action per way through it.                             *)

\* memcpy of as much of the payload, padding included, as there is room for.
Copy(pkt, at) ==
  LET n == Lesser(Capacity - at, pkt.size)
  IN  /\ rBuf' = [p \in 0 .. Capacity - 1 |->
                    IF p >= at /\ p < at + n THEN PackageByte(pkt, p - at)
                                            ELSE rBuf[p]]
      /\ rOffset' = at + n

Resync(pkt) ==
  /\ pkt.index = MaxIndex
  /\ rConfirm' = ~rConfirm
  /\ rOffset' = 0 /\ rPackage' = 1
  /\ finishedData' = FALSE
  /\ UNCHANGED rBuf

\* Mutant of IsLast: a packet with nothing in it ends a message too.
IsLastEvenFirst(pkt) == pkt.index = 0

\* Index 0 after at least one package: the last of the message.
IsLast(pkt) == pkt.index = 0 /\ rPackage > 1

\* Index 1 in the middle of a message: the sender started again.
IsRestart(pkt) == pkt.index = 1 /\ rPackage > 1

AcceptPackage(pkt) ==
  /\ pkt.index # MaxIndex /\ ~finishedData
  /\ IsLast(pkt) \/ pkt.index = rPackage
  /\ Copy(pkt, rOffset)
  /\ rPackage' = rPackage + 1
  /\ rConfirm' = ~rConfirm
  /\ finishedData' = IsLast(pkt)

\* Mutant of AcceptRestart: currentOffset is not set back.
AcceptRestartInPlace(pkt) ==
  /\ pkt.index # MaxIndex /\ ~finishedData
  /\ IsRestart(pkt)
  /\ Copy(pkt, rOffset)
  /\ rPackage' = 2
  /\ rConfirm' = ~rConfirm
  /\ UNCHANGED finishedData

AcceptRestart(pkt) ==
  /\ pkt.index # MaxIndex /\ ~finishedData
  /\ IsRestart(pkt)
  /\ Copy(pkt, 0)
  /\ rPackage' = 2
  /\ rConfirm' = ~rConfirm
  /\ UNCHANGED finishedData

\* Locked, or a repetition of a package already taken.
IgnorePackage(pkt) ==
  /\ pkt.index # MaxIndex
  /\ \/ finishedData
     \/ ~IsLast(pkt) /\ pkt.index # rPackage /\ ~IsRestart(pkt)
  /\ UNCHANGED receiverVars

ReceiveData(pkt) ==
  \/ Resync(pkt)
  \/ AcceptPackage(pkt)
  \/ AcceptRestart(pkt)
  \/ IgnorePackage(pkt)

-------------------------------------------------------------------------------
ReceiverTypeOK ==
  /\ rBuf \in [0 .. Capacity - 1 -> Nat \X Nat]
  /\ rOffset \in 0 .. Capacity
  /\ rPackage \in Nat \ {0}
  /\ rConfirm \in BOOLEAN
  /\ finishedData \in BOOLEAN
===============================================================================
