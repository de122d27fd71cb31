------------------------------- MODULE RxMavlink -------------------------------
(***************************************************************************)
(* The receiver's MAVLink parameters (rx_mavlink.cpp) and the way of their *)
(* values to the ground: the queue they share with the flight controller   *)
(* (SerialMavlink.cpp), DataDlSender, and the commit of the config, which  *)
(* drops the link and is held until the reply to a write has gone.         *)
(* The link loses no payload here, and its rate stays: StubbornLink has    *)
(* the losses.                                                             *)
(***************************************************************************)
EXTENDS SequencesExt, MavParamServer

CONSTANTS
  ReadOnly,        \* parameters without a `set`
  QueueSize,       \* units that fit into mavlinkInputBuffer
  PayloadUnits,    \* and into a payload, CRSF_PAYLOAD_SIZE_MAX
  MaxRequests      \* bound: requests, and frames of the flight controller

RxMavlinkAssumption ==
  /\ ServerAssumption /\ ReadOnly \subseteq Params
  /\ {QueueSize, PayloadUnits} \subseteq Nat \ {0} /\ MaxRequests \in Nat

VARIABLES
  config,             \* the settings
  modified,           \* config.IsModified()
  setSinceCommit,
  expired,            \* COMMIT_HOLD_MAX has passed since lastSetMs
  downlinkQueue,      \* units of frames: {}, or the value whose frame ends with it
  downlinkAhead,
  sender,             \* DataDlSender: [active, units]
  connected,
  reconfigure,        \* reconfigureSerial is deferred
  lost,               \* history: values thrown away in the queue
  requests

configVars == <<config, modified, setSinceCommit, expired>>
queueVars == <<downlinkQueue, downlinkAhead>>
linkVars == <<queueVars, sender, connected, reconfigure, known, lost>>
vars == <<configVars, linkVars, serverVars, requests>>

Idle == [active |-> FALSE, units |-> <<>>]

LinkInit ==
  /\ config = [i \in Params |-> 0]
  /\ modified = FALSE /\ setSinceCommit = FALSE /\ expired = FALSE
  /\ downlinkQueue = <<>> /\ downlinkAhead = 0 /\ sender = Idle
  /\ connected = TRUE /\ reconfigure = FALSE
  /\ lost = {} /\ requests = 0

Init == LinkInit /\ ServerInit(config)

Request == requests < MaxRequests /\ requests' = requests + 1

-------------------------------------------------------------------------------
\* The setters.  Without a delay the reply is due at the next tick.
Set(i, v) ==
  /\ Request
  /\ i \notin ReadOnly /\ Accept(i, config, TRUE)
  /\ config' = [config EXCEPT ![i] = v]
  /\ modified' = (modified \/ v # config[i])
  /\ setSinceCommit' = TRUE /\ expired' = FALSE
  /\ UNCHANGED linkVars

SetRefused(i) ==
  /\ Request
  /\ IF i \in ReadOnly THEN Locked(i) ELSE Refuse(i, config)
  /\ UNCHANGED <<configVars, linkVars>>

ReadOrAsk ==
  /\ Request
  /\ \/ RequestList
     \/ \E i \in Params : RequestRead(i)
     \/ \E answers \in Answers : Ask(answers)
  /\ UNCHANGED <<configVars, linkVars>>

\* A setting changed from the transmitter's Lua script.
ChangedElsewhere ==
  /\ Request /\ modified' = TRUE
  /\ UNCHANGED <<config, setSinceCommit, expired, linkVars, serverVars>>

-------------------------------------------------------------------------------
\* The value frames take two units, the others one.
Frame(answers, told) ==
  IF told # {} THEN <<{}, {<<i, config[i]>> : i \in told}>>
  ELSE [u \in 1 .. Cardinality(answers) |-> {}]

\* queueFrame
QueueFrame(frame) ==
  /\ Len(downlinkQueue) + Len(frame) <= QueueSize
  /\ downlinkQueue' = downlinkQueue \o frame
  /\ downlinkAhead' = IF frame = <<>> THEN downlinkAhead ELSE Len(downlinkQueue')

\* RxMavlink_Tick, one frame at a time.
RxTick ==
  /\ connected
  /\ \E answers \in SUBSET replies, told \in SUBSET Wanted(config) :
       Tick(config, answers, told) /\ QueueFrame(Frame(answers, told))
  /\ UNCHANGED <<configVars, sender, connected, reconfigure, known, lost, requests>>

\* processBytes: a whole frame of the flight controller.
FcFrame ==
  /\ Request /\ connected
  /\ Len(downlinkQueue) < QueueSize
  /\ downlinkQueue' = Append(downlinkQueue, {})
  /\ UNCHANGED <<configVars, downlinkAhead, sender, connected, reconfigure, known, lost,
                 serverVars>>

AtMost(most, n) == IF n > most THEN most ELSE n

\* GetNextPayload, RxMavlink_DownlinkPopped; or otaConnector has a payload.
GetNextPayload ==
  /\ ~sender.active /\ downlinkQueue # <<>>
  /\ LET n == AtMost(PayloadUnits, Len(downlinkQueue)) IN
     /\ sender' = [active |-> TRUE, units |-> SubSeq(downlinkQueue, 1, n)]
     /\ downlinkQueue' = SubSeq(downlinkQueue, n + 1, Len(downlinkQueue))
     /\ downlinkAhead' = IF n < downlinkAhead THEN downlinkAhead - n ELSE 0
  /\ UNCHANGED <<configVars, connected, reconfigure, known, lost, serverVars, requests>>

OtherPayload ==
  /\ ~sender.active /\ sender' = [active |-> TRUE, units |-> <<>>]
  /\ UNCHANGED <<configVars, queueVars, connected, reconfigure, known, lost, serverVars,
                 requests>>

Values(units) == UNION Range(units)

\* The last package of the payload is acknowledged.
PayloadArrives ==
  /\ sender.active /\ connected /\ sender' = Idle
  /\ known' = [i \in Params |->
                 LET with == {k \in DOMAIN sender.units : \E p \in sender.units[k] : p[1] = i}
                 IN  IF with = {} THEN known[i]
                     ELSE LET last == CHOOSE k \in with : \A j \in with : j <= k
                          IN  (CHOOSE p \in sender.units[last] : p[1] = i)[2]]
  /\ lost' = {i \in lost : known'[i] # config[i]}
  /\ UNCHANGED <<configVars, queueVars, connected, reconfigure, serverVars, requests>>

-------------------------------------------------------------------------------
\* Mutants of RxMavlink_HoldCommit: what waits in the queue is not looked at.
HoldCommitForServer ==
  setSinceCommit /\ ~expired /\ (HasPendingOutput \/ sender.active)

\* RxMavlink_HoldCommit
HoldCommit ==
  /\ setSinceCommit /\ ~expired
  /\ HasPendingOutput \/ downlinkAhead # 0 \/ sender.active

\* CheckConfigChangePending
Commit ==
  /\ modified /\ ~HoldCommit
  /\ modified' = FALSE /\ setSinceCommit' = FALSE
  /\ connected' = FALSE
  /\ UNCHANGED <<config, expired, queueVars, sender, reconfigure, known, lost,
                 serverVars, requests>>

HoldExpires ==
  /\ setSinceCommit /\ ~expired /\ expired' = TRUE
  /\ UNCHANGED <<config, modified, setSinceCommit, linkVars, serverVars, requests>>

\* ProcessRfPacket_SYNC, in the radio interrupt: "Check if otaProtocol has been
\* updated", by a flag that every other change has set as well.
Sync ==
  /\ connected /\ modified
  /\ ~reconfigure /\ reconfigure' = TRUE
  /\ UNCHANGED <<configVars, queueVars, sender, connected, known, lost, serverVars, requests>>

\* reconfigureSerial: the driver is deleted with its queue, and another attached.
Reconfigure ==
  /\ reconfigure /\ reconfigure' = FALSE
  /\ lost' = lost \union {p[1] : p \in Values(downlinkQueue)}
  /\ downlinkQueue' = <<>> /\ downlinkAhead' = 0
  /\ UNCHANGED <<configVars, sender, connected, known, serverVars, requests>>

LinkComesOrGoes ==
  /\ connected' = ~connected
  /\ UNCHANGED <<configVars, queueVars, sender, reconfigure, known, lost, serverVars, requests>>

Next ==
  \/ \E i \in Params : SetRefused(i) \/ \E v \in 0 .. 1 : Set(i, v)
  \/ ReadOrAsk \/ ChangedElsewhere
  \/ RxTick \/ FcFrame
  \/ GetNextPayload \/ OtherPayload \/ PayloadArrives
  \/ Commit \/ HoldExpires \/ Sync \/ Reconfigure \/ LinkComesOrGoes

Spec == Init /\ [][Next]_vars

-------------------------------------------------------------------------------
Committed == modified /\ ~modified'

\* rx_main.cpp, 2041: "The commit drops the link: let the reply to a MAVLink
\* parameter write go out first", unless that takes longer than COMMIT_HOLD_MAX.
ReplyGoesFirst == [][Committed /\ ~expired => known = config]_vars

\* What did not get lost with a driver has reached the ground station.
GroundKnows == \A i \in Params \ lost : known[i] = config[i]

\* Whatever else shares the server, the queue and the sender with the reply, only
\* replacing the serial driver ever makes it miss the commit.
OnlyNewDriverLoses == [][Committed /\ ~expired => GroundKnows]_vars
===============================================================================
