---------------------------- MODULE StubbornSender ----------------------------
(***************************************************************************)
(* The sending half of the "stubborn" link (lib/StubbornSender): a message *)
(* is cut into numbered packages, each package is repeated until the one   *)
(* acknowledge bit coming back has the expected value, and a package that  *)
(* is not acknowledged for too long ends in a RESYNC.                      *)
(*                                                                         *)
(* The module defines the state and the operations; StubbornLink calls     *)
(* them.                                                                   *)
(***************************************************************************)
EXTENDS StubbornPackage

CONSTANTS
  MaxMsg,      \* bound on the number of SetDataToTransmit calls
  MsgLen,      \* lengthToTransmit of each of them
  MaxWaits     \* the values UpdateTelemetryRate gives maxWaitCount

ASSUME SenderAssumption ==
  /\ MaxMsg \in Nat
  /\ MsgLen \in [1 .. MaxMsg -> Nat \ {0}]
  /\ MaxWaits # {} /\ MaxWaits \subseteq Nat

VARIABLES
  senderState,
  sMsg,        \* the message data points to; 0 before the first
  sOffset,     \* currentOffset
  sBytes,      \* bytesLastPayload
  sPackage,    \* currentPackage
  sExpected,   \* telemetryConfirmExpectedValue
  waitCount,
  maxWaitCount

senderVars == <<senderState, sMsg, sOffset, sBytes, sPackage, sExpected,
                waitCount, maxWaitCount>>

States == {"IDLE", "SEND_PENDING", "SENDING", "WAIT_UNTIL_NEXT_CONFIRM",
           "RESYNC", "RESYNC_THEN_SEND"}

SenderInit ==
  /\ senderState = "IDLE"
  /\ sMsg = 0 /\ sOffset = 0 /\ sBytes = 0 /\ sPackage = 1
  /\ sExpected = TRUE
  /\ waitCount = 0
  /\ maxWaitCount \in MaxWaits

IsActive == senderState # "IDLE"

-------------------------------------------------------------------------------
\* ResetState, as reached from setMaxPackageIndex, ExitBindingMode and a reboot.
SenderReset ==
  /\ senderState' = "IDLE"
  /\ sOffset' = 0 /\ sBytes' = 0 /\ sPackage' = 1
  /\ sExpected' = TRUE
  /\ waitCount' = 0
  /\ maxWaitCount' \in MaxWaits
  /\ UNCHANGED sMsg

\* Queue the next message; one still being sent is aborted.
SetDataToTransmit ==
  /\ sMsg < MaxMsg
  /\ sMsg' = sMsg + 1
  /\ sOffset' = 0 /\ sPackage' = 1 /\ waitCount' = 0
  /\ senderState' = IF senderState = "IDLE" THEN "SEND_PENDING"
                                            ELSE "RESYNC_THEN_SEND"
  /\ UNCHANGED <<sBytes, sExpected, maxWaitCount>>

UpdateTelemetryRate ==
  /\ maxWaitCount' \in MaxWaits
  /\ UNCHANGED <<senderState, sMsg, sOffset, sBytes, sPackage, sExpected,
                 waitCount>>

-------------------------------------------------------------------------------
(* GetCurrentPayload: the bytes it copies into a packet with room for      *)
(* maxLen, the package index, the packet these make, and what it changes.  *)
Transmitting == senderState \in {"SEND_PENDING", "SENDING"}

PayloadBytes(maxLen) ==
  IF Transmitting THEN Lesser(MsgLen[sMsg] - sOffset, maxLen) ELSE 0

PackageIndex(maxLen) ==
  CASE senderState \in {"RESYNC", "RESYNC_THEN_SEND"} -> MaxIndex
    [] Transmitting ->
         IF sPackage > 1 /\ sOffset + PayloadBytes(maxLen) >= MsgLen[sMsg]
         THEN 0 ELSE sPackage
    [] OTHER -> 0

Package(maxLen) ==
  PackageOf(PackageIndex(maxLen), sMsg, sOffset, PayloadBytes(maxLen), maxLen)

GetCurrentPayload(maxLen) ==
  /\ sBytes' = PayloadBytes(maxLen)
  /\ senderState' = IF senderState = "SEND_PENDING" THEN "SENDING"
                                                    ELSE senderState
  /\ UNCHANGED <<sMsg, sOffset, sPackage, sExpected, waitCount, maxWaitCount>>

-------------------------------------------------------------------------------
(* ConfirmCurrentPayload, one action per branch of its switch.             *)

\* Mutant of PackageConfirmed: the same value is expected again.
PackageConfirmedTwice(confirm) ==
  /\ senderState = "SENDING" /\ confirm = sExpected
  /\ sOffset' = sOffset + sBytes
  /\ senderState' = IF sOffset' < MsgLen[sMsg] THEN "SENDING"
                    ELSE IF sPackage = 1 THEN "WAIT_UNTIL_NEXT_CONFIRM"
                    ELSE "IDLE"
  /\ sPackage' = sPackage + 1
  /\ waitCount' = 0
  /\ UNCHANGED <<sMsg, sBytes, sExpected, maxWaitCount>>

\* SENDING and the expected value: go to the next package, or end.
PackageConfirmed(confirm) ==
  /\ senderState = "SENDING" /\ confirm = sExpected
  /\ sOffset' = sOffset + sBytes
  /\ senderState' = IF sOffset' < MsgLen[sMsg] THEN "SENDING"
                    ELSE IF sPackage = 1 THEN "WAIT_UNTIL_NEXT_CONFIRM"
                    ELSE "IDLE"
  /\ sPackage' = sPackage + 1
  /\ sExpected' = ~sExpected
  /\ waitCount' = 0
  /\ UNCHANGED <<sMsg, sBytes, maxWaitCount>>

\* Any other state that waits for the bit to flip has seen it flip.
ResyncConfirmed(confirm) ==
  /\ senderState \in {"RESYNC", "RESYNC_THEN_SEND", "WAIT_UNTIL_NEXT_CONFIRM"}
  /\ confirm = sExpected
  /\ senderState' = IF senderState = "RESYNC_THEN_SEND" THEN "SENDING"
                                                        ELSE "IDLE"
  /\ sExpected' = ~confirm
  /\ UNCHANGED <<sMsg, sOffset, sBytes, sPackage, waitCount, maxWaitCount>>

\* Mutant of ConfirmMissed: it never gives up.
ConfirmMissedForever(confirm) ==
  /\ senderState \in {"SENDING", "WAIT_UNTIL_NEXT_CONFIRM"}
  /\ confirm # sExpected
  /\ UNCHANGED senderVars

\* The wrong value: count it, and after too many of them RESYNC.
ConfirmMissed(confirm) ==
  /\ senderState \in {"SENDING", "WAIT_UNTIL_NEXT_CONFIRM"}
  /\ confirm # sExpected
  /\ waitCount' = waitCount + 1
  /\ IF waitCount' > maxWaitCount
     THEN senderState' = "RESYNC" /\ sExpected' = ~confirm
     ELSE UNCHANGED <<senderState, sExpected>>
  /\ UNCHANGED <<sMsg, sOffset, sBytes, sPackage, maxWaitCount>>

\* Nothing is being waited for, or a RESYNC has not been seen yet.
ConfirmIgnored(confirm) ==
  /\ \/ senderState \in {"IDLE", "SEND_PENDING"}
     \/ /\ senderState \in {"RESYNC", "RESYNC_THEN_SEND"}
        /\ confirm # sExpected
  /\ UNCHANGED senderVars

ConfirmCurrentPayload(confirm) ==
  \/ PackageConfirmed(confirm)
  \/ ResyncConfirmed(confirm)
  \/ ConfirmMissed(confirm)
  \/ ConfirmIgnored(confirm)

-------------------------------------------------------------------------------
SenderTypeOK ==
  /\ senderState \in States
  /\ sMsg \in 0 .. MaxMsg
  /\ sOffset \in Nat /\ sBytes \in Nat
  /\ sPackage \in Nat \ {0}
  /\ sExpected \in BOOLEAN
  /\ waitCount \in Nat
  /\ maxWaitCount \in MaxWaits
===============================================================================
