------------------------------ MODULE UplinkQueue ------------------------------
(***************************************************************************)
(* The transmitter's queue of CRSF messages for the uplink                 *)
(* (TXOTAConnector.cpp) in front of DataUlSender.  Messages come from the  *)
(* main loop (the handset) and from the VTX device, which an ESP32 with    *)
(* two cores runs on the other one.  Only the FIFO is locked.              *)
(***************************************************************************)
EXTENDS Naturals, SequencesExt

CONSTANTS
  TwoCores,        \* whether the threads run on different cores
  QueueLength,     \* messages that fit into outputQueue
  MaxForwards      \* bound: messages forwarded

ASSUME UplinkQueueAssumption ==
  /\ TwoCores \in BOOLEAN
  /\ QueueLength \in Nat \ {0} /\ MaxForwards \in Nat

VARIABLES
  connected,                    \* connectionState == connected
  currentTransmissionBuffer,    \* its first package and the rest: two messages' numbers
  currentTransmissionLength,    \* the message whose length it is, 0 for none
  outputQueue,                  \* messages behind the current one
  transferActive,
  sender,                       \* DataUlSender: [active, length, sent]
  arrived,                      \* what the receiver has got, in order
  pc, msg,                      \* where a thread is, and with which message
  forwards,                     \* messages accepted so far; it numbers them
  dropped,                      \* messages pushed out of a full queue, or cleared
  cleared                       \* whether that was ever done during a transfer

currentVars == <<currentTransmissionBuffer, currentTransmissionLength>>
threadVars == <<pc, msg>>
queueVars == <<connected, currentVars, outputQueue, transferActive, sender, arrived,
               forwards, dropped, cleared>>
vars == <<queueVars, threadVars>>

Threads == {"loop", "vtx"}
Messages == 1 .. MaxForwards
IdleSender == [active |-> FALSE, length |-> 0, sent |-> <<>>]

Init ==
  /\ connected = FALSE
  /\ currentTransmissionBuffer = <<0, 0>> /\ currentTransmissionLength = 0
  /\ outputQueue = <<>> /\ transferActive = FALSE
  /\ sender = IdleSender /\ arrived = <<>>
  /\ pc = [t \in Threads |-> "idle"] /\ msg = [t \in Threads |-> 0]
  /\ forwards = 0 /\ dropped = {} /\ cleared = FALSE

\* One core runs one operation at a time to its end, two run two.
Step(t, from, to) ==
  /\ pc[t] = from /\ pc' = [pc EXCEPT ![t] = to]
  /\ TwoCores \/ \A u \in Threads \ {t} : pc[u] = "idle"

-------------------------------------------------------------------------------
(* forwardMessage: the message goes into the free buffer or the queue.     *)
\* Mutants: the buffer counts as free until a transfer starts; everything is queued.
ForwardBeforePump(t) ==
  /\ connected /\ forwards < MaxForwards
  /\ Step(t, "idle", IF ~transferActive THEN "first" ELSE "queue")
  /\ forwards' = forwards + 1
  /\ msg' = [msg EXCEPT ![t] = forwards']
  /\ UNCHANGED <<connected, currentVars, outputQueue, transferActive, sender, arrived,
                 dropped, cleared>>

ForwardQueues(t) ==
  /\ connected /\ forwards < MaxForwards
  /\ Step(t, "idle", "queue")
  /\ forwards' = forwards + 1
  /\ msg' = [msg EXCEPT ![t] = forwards']
  /\ UNCHANGED <<connected, currentVars, outputQueue, transferActive, sender, arrived,
                 dropped, cleared>>

Forward(t) ==
  /\ connected /\ forwards < MaxForwards
  /\ Step(t, "idle", IF currentTransmissionLength = 0 THEN "first" ELSE "queue")
  /\ forwards' = forwards + 1
  /\ msg' = [msg EXCEPT ![t] = forwards']
  /\ UNCHANGED <<connected, currentVars, outputQueue, transferActive, sender, arrived,
                 dropped, cleared>>

CopyPart(t, from, part, to) ==
  /\ Step(t, from, to)
  /\ currentTransmissionBuffer' = [currentTransmissionBuffer EXCEPT ![part] = msg[t]]
  /\ UNCHANGED <<connected, currentTransmissionLength, outputQueue, transferActive,
                 sender, arrived, msg, forwards, dropped, cleared>>

Copy(t) == CopyPart(t, "first", 1, "rest") \/ CopyPart(t, "rest", 2, "length")

SetLength(t) ==
  /\ Step(t, "length", "idle")
  /\ currentTransmissionLength' = msg[t]
  /\ msg' = [msg EXCEPT ![t] = 0]
  /\ UNCHANGED <<connected, currentTransmissionBuffer, outputQueue, transferActive,
                 sender, arrived, forwards, dropped, cleared>>

\* Under the lock: `ensure` drops the oldest until there is room.
Enqueue(t) ==
  /\ Step(t, "queue", "idle")
  /\ IF Len(outputQueue) < QueueLength
       THEN outputQueue' = Append(outputQueue, msg[t]) /\ UNCHANGED dropped
       ELSE /\ outputQueue' = Append(Tail(outputQueue), msg[t])
            /\ dropped' = dropped \cup {Head(outputQueue)}
  /\ msg' = [msg EXCEPT ![t] = 0]
  /\ UNCHANGED <<connected, currentVars, transferActive, sender, arrived, forwards, cleared>>

-------------------------------------------------------------------------------
(* pumpSender, in the main loop while the sender is idle.                  *)
PumpBegin ==
  /\ ~sender.active
  /\ transferActive \/ currentTransmissionLength > 0
  /\ Step("loop", "idle", IF ~transferActive THEN "start"
                          ELSE IF outputQueue # <<>> THEN "pop" ELSE "clear")
  /\ UNCHANGED <<connected, currentVars, outputQueue, transferActive, sender, arrived,
                 msg, forwards, dropped, cleared>>

\* unlockMessage, under the lock; a pop from a FIFO cleared meanwhile gives 0.
PumpPop ==
  /\ Step("loop", "pop", "start")
  /\ IF outputQueue = <<>>
       THEN currentTransmissionLength' = 0 /\ UNCHANGED <<currentTransmissionBuffer, outputQueue>>
       ELSE /\ currentTransmissionLength' = Head(outputQueue)
            /\ currentTransmissionBuffer' = <<Head(outputQueue), Head(outputQueue)>>
            /\ outputQueue' = Tail(outputQueue)
  /\ transferActive' = FALSE
  /\ UNCHANGED <<connected, sender, arrived, msg, forwards, dropped, cleared>>

PumpClear ==
  /\ Step("loop", "clear", "start")
  /\ currentTransmissionLength' = 0
  /\ transferActive' = FALSE
  /\ UNCHANGED <<connected, currentTransmissionBuffer, outputQueue, sender, arrived,
                 msg, forwards, dropped, cleared>>

PumpStart ==
  /\ Step("loop", "start", "idle")
  /\ IF currentTransmissionLength = 0 THEN UNCHANGED <<transferActive, sender>>
     ELSE /\ sender' = [active |-> TRUE, length |-> currentTransmissionLength, sent |-> <<>>]
          /\ transferActive' = TRUE
  /\ UNCHANGED <<connected, currentVars, outputQueue, arrived, msg, forwards, dropped, cleared>>

-------------------------------------------------------------------------------
(* resetOutputQueue: the VTX device gives up what it queued, once it finds *)
(* the link down.                                                          *)
ResetFlush ==
  /\ ~connected
  /\ Step("vtx", "idle", "reset")
  /\ outputQueue' = <<>>
  /\ dropped' = dropped \cup Range(outputQueue)
  /\ UNCHANGED <<connected, currentVars, transferActive, sender, arrived, msg, forwards, cleared>>

ResetLength ==
  /\ Step("vtx", "reset", "idle")
  /\ currentTransmissionLength' = 0
  /\ dropped' = dropped \cup ({currentTransmissionLength} \ {0})
  /\ cleared' = (cleared \/ transferActive)
  /\ UNCHANGED <<connected, currentTransmissionBuffer, outputQueue, transferActive,
                 sender, arrived, msg, forwards>>

-------------------------------------------------------------------------------
(* The radio interrupts: a package of the message is read out of the       *)
(* buffer, sent and acknowledged.  The link comes and goes; the sender     *)
(* keeps what it has.                                                      *)
SendPart ==
  /\ sender.active /\ connected
  /\ LET part == currentTransmissionBuffer[Len(sender.sent) + 1] IN
     IF sender.sent = <<>>
       THEN sender' = [sender EXCEPT !.sent = <<part>>] /\ UNCHANGED arrived
       ELSE /\ sender' = IdleSender
            /\ arrived' = Append(arrived,
                 [length |-> sender.length, parts |-> Append(sender.sent, part)])
  /\ UNCHANGED <<connected, currentVars, outputQueue, transferActive, threadVars,
                 forwards, dropped, cleared>>

\* UpdateConnectDisconnectStatus, in the main loop.
UpdateConnectDisconnectStatus ==
  /\ Step("loop", "idle", "idle")
  /\ connected' = ~connected
  /\ UNCHANGED <<currentVars, outputQueue, transferActive, sender, arrived,
                 threadVars, forwards, dropped, cleared>>

\* The operations.
ForwardMessage(t) == Forward(t) \/ Copy(t) \/ SetLength(t) \/ Enqueue(t)
PumpSender == PumpBegin \/ PumpPop \/ PumpClear \/ PumpStart
ResetOutputQueue == ResetFlush \/ ResetLength

Next ==
  \/ \E t \in Threads : ForwardMessage(t)
  \/ PumpSender \/ ResetOutputQueue \/ SendPart \/ UpdateConnectDisconnectStatus

Spec == Init /\ [][Next]_vars

\* Both threads run on, and the radio gets packages through again and again.
FairSpec ==
  /\ Spec
  /\ WF_vars(PumpSender) /\ SF_vars(SendPart) /\ WF_vars(ResetLength)
  /\ \A t \in Threads : WF_vars(Copy(t) \/ SetLength(t) \/ Enqueue(t))

-------------------------------------------------------------------------------
\* The queue never holds more than fits, and no message of length 0 is handed to
\* the sender, so that nothing without a number ever arrives.
TypeOK ==
  /\ connected \in BOOLEAN /\ transferActive \in BOOLEAN
  /\ currentTransmissionBuffer \in [1 .. 2 -> 0 .. MaxForwards]
  /\ currentTransmissionLength \in 0 .. MaxForwards
  /\ outputQueue \in Seq(Messages) /\ Len(outputQueue) <= QueueLength
  /\ sender.active \in BOOLEAN /\ sender.length \in 0 .. MaxForwards
  /\ sender.sent \in Seq(Messages) /\ Len(sender.sent) <= 1
  /\ arrived \in Seq([length : Messages, parts : [1 .. 2 -> Messages]])
  /\ pc \in [Threads -> {"idle", "first", "rest", "length", "queue", "pop", "clear", "start", "reset"}]
  /\ msg \in [Threads -> 0 .. MaxForwards]
  /\ forwards \in 0 .. MaxForwards /\ dropped \subseteq Messages

\* Messages arrive in the order of their acceptance, each at most once, and whole:
\* no part of the buffer changes under the sender, and the sender's length is that
\* of what is in it, unless that was called free.
ArrivesAsSent ==
  /\ \A i, j \in DOMAIN arrived : i < j => arrived[i].length < arrived[j].length
  /\ cleared \/ \A i \in DOMAIN arrived :
                  arrived[i].parts = <<arrived[i].length, arrived[i].length>>

Arrived(m) == \E i \in DOMAIN arrived : arrived[i].parts = <<m, m>>

Waiting(m) ==
  \/ \E t \in Threads : msg[t] = m
  \/ m \in Range(outputQueue)
  \/ currentTransmissionLength = m
  \/ sender.active /\ sender.length = m

\* Every message accepted is waiting, has arrived, or was dropped for room or
\* with the queue.
NothingLost == \A m \in 1 .. forwards : Waiting(m) \/ Arrived(m) \/ m \in dropped

\* ... and only clearing the queue during a transfer can ever break that.
LostOnlyToClearing == ~cleared => NothingLost

\* Both: the queue delivers what it was given.
Delivers == ArrivesAsSent /\ LostOnlyToClearing

\* Once the link stays up, everything that was accepted gets through.
AllGetThrough ==
  <>[](connected /\ ~cleared) => <>[](\A m \in 1 .. forwards : Arrived(m) \/ m \in dropped)

\* Once the link stays up, the queue empties, whatever was cleared before.
QueueDrains == <>[]connected => <>[](outputQueue = <<>>)
===============================================================================
