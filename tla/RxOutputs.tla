------------------------------- MODULE RxOutputs -------------------------------
(***************************************************************************)
(* What a receiver does with the channels it hears: rx_main.cpp unpacks    *)
(* them in the switch mode that the sync packets name, devServoOutput.cpp  *)
(* writes them to the servos from loop(), devSerialIO.cpp sends them to    *)
(* the flight controller from the timer interrupt.  pc names the section   *)
(* of loop() that comes next; the radio and the timer interrupt it between *)
(* any two.  The rates are the full resolution ones that send every packet *)
(* once, the port one that sends frames immediately.                       *)
(***************************************************************************)
EXTENDS Integers

CONSTANTS
  Modes,          \* the switch modes the transmitter uses
  Selected,       \* the positions the team race channel is moved to
  Own,            \* config.GetTeamracePosition() at power up
  Teamrace,       \* the group of config.GetTeamraceChannel()
  AbsTimeout      \* FAILSAFE_ABS_TIMEOUT_MS

smWideOr8ch == 0
smHybridOr16ch == 1
sm12ch == 2

PositionOff == 0      \* CONFIG_TEAMRACE_POS_OFF
PositionOfUnset == 1  \* the lowest switch position

\* Four channels travel together.
Groups == {"1-4", "5-8", "9-12", "13-16"}

ASSUME RxOutputsAssumption ==
  /\ Modes \subseteq {smWideOr8ch, smHybridOr16ch, sm12ch}
  /\ Selected \subseteq 1 .. 7 /\ Own \in {PositionOff} \union Selected
  /\ Teamrace \in Groups /\ AbsTimeout \in Nat

VARIABLES
  pc,               \* where loop() is
  connectionState,
  modelMatch,       \* connectionHasModelMatch
  timer,            \* hwTimer::running
  heard,            \* a packet came since the last tock
  switchMode,       \* OtaSwitchModeCurrent
  pending,          \* SwitchModePending
  channels,         \* ChannelData: the mode in which a group was unpacked
  complete,         \* OtaChannelDataComplete
  selection,        \* what the team race channel reads as
  own,              \* config.GetTeamracePosition()
  newChannels,      \* newChannelsAvailable
  sinceUpdate,      \* the age of lastUpdate, Never when that is 0
  servos,           \* "off" until initialized, "failsafe", "following"
  frame,            \* frameAvailable of the port
  inhibit,          \* teamraceOutputInhibitState
  lastSelection,    \* lastTeamracePosition
  teamMatch         \* teamraceHasModelMatch

linkVars == <<connectionState, modelMatch, timer>>
modeVars == <<switchMode, pending>>
dataVars == <<channels, complete, selection>>
servoVars == <<newChannels, sinceUpdate, servos>>
portVars == <<frame, inhibit, lastSelection, teamMatch>>
vars == <<pc, linkVars, heard, modeVars, dataVars, own, servoVars, portVars>>

Unset == -1
Never == -1
Inhibits == {"pass", "disableAwaitConfirm", "inhibit", "enableAwaitConfirm"}

TypeOK ==
  /\ pc \in {"servos", "write", "connection", "lost", "got", "switch", "switched"}
  /\ connectionState \in {"disconnected", "tentative", "connected"}
  /\ {modelMatch, timer, heard, complete, newChannels, frame, teamMatch} \subseteq BOOLEAN
  /\ switchMode \in Modes \union {smWideOr8ch}
  /\ pending \in {0} \union {m + 1 : m \in Modes} \union {-m - 1 : m \in Modes}
  /\ channels \in [Groups -> Modes \union {smWideOr8ch, Unset}]
  /\ {selection, own, lastSelection} \subseteq {PositionOff, PositionOfUnset} \union Selected
  /\ sinceUpdate \in Never .. AbsTimeout + 1
  /\ servos \in {"off", "failsafe", "following"}
  /\ inhibit \in Inhibits

Init ==
  /\ pc = "servos" /\ connectionState = "disconnected"
  /\ modelMatch = FALSE /\ timer = FALSE /\ heard = FALSE
  /\ switchMode = smWideOr8ch /\ pending = 0
  /\ channels = [g \in Groups |-> Unset] /\ complete = FALSE
  /\ selection = PositionOfUnset /\ own = Own
  /\ newChannels = FALSE /\ sinceUpdate = Never /\ servos = "off"
  /\ frame = FALSE /\ inhibit = "pass"
  /\ lastSelection = PositionOff /\ teamMatch = TRUE

-------------------------------------------------------------------------------
\* UnpackChannelData8ch: the groups one packet of a mode fills.
Carried(mode) ==
  CASE mode = smWideOr8ch    -> {{"1-4", "5-8"}}
    [] mode = smHybridOr16ch -> {{"1-4", "5-8"}, {"9-12", "13-16"}}
    [] mode = sm12ch         -> {{"1-4", "5-8"}, {"1-4", "9-12"}}

\* OtaIsChannelDataComplete: the groups up to lastRequiredChannel.
Required(mode) ==
  CASE mode = smWideOr8ch    -> {"1-4", "5-8"}
    [] mode = smHybridOr16ch -> Groups
    [] mode = sm12ch         -> {"1-4", "5-8", "9-12"}

ChannelDataReset ==
  channels' = [g \in Groups |-> Unset] /\ selection' = PositionOfUnset

\* Once complete, the channels stay so until a reset.
IsChannelDataComplete ==
  complete' = (complete \/ \A g \in Required(switchMode) : channels'[g] # Unset)

\* A packet with channels: of no use before the connection is made, or with a
\* new switch mode in sight.
ProcessRfPacket_RC(filled, position) ==
  /\ heard' = TRUE
  /\ IF connectionState # "connected" \/ pending # 0
       THEN UNCHANGED <<dataVars, frame, newChannels>>
       ELSE /\ channels' = [g \in Groups |-> IF g \in filled THEN switchMode
                                             ELSE channels[g]]
            /\ selection' = IF Teamrace \in filled THEN position ELSE selection
            /\ IsChannelDataComplete
            /\ IF modelMatch /\ complete'
                 THEN frame' = TRUE /\ newChannels' = (newChannels \/ teamMatch)
                 ELSE UNCHANGED <<frame, newChannels>>
  /\ UNCHANGED <<pc, linkVars, modeVars, own, sinceUpdate, servos,
                 inhibit, lastSelection, teamMatch>>

\* Negative: to be confirmed by the next sync packet.
UpdateSwitchModePendingFromOta(mode) ==
  pending' = IF mode = switchMode THEN 0
             ELSE IF connectionState = "disconnected" \/ pending = -mode - 1
                    THEN mode + 1
                    ELSE -mode - 1

TentativeConnection ==
  connectionState' = "tentative" /\ complete' = FALSE /\ ChannelDataReset

\* differs: in the nonce or the hop index.
ProcessRfPacket_SYNC(mode, differs, matched) ==
  /\ heard' = TRUE
  /\ UpdateSwitchModePendingFromOta(mode)
  /\ IF connectionState = "disconnected" \/ differs \/ modelMatch # matched
       THEN TentativeConnection /\ modelMatch' = matched /\ timer' = TRUE
       ELSE UNCHANGED <<linkVars, dataVars>>
  /\ UNCHANGED <<pc, switchMode, own, servoVars, portVars>>

\* One packet per slot: no more is sent, and the timer is in phase.
Packet ==
  /\ ~(timer /\ heard)
  /\ \/ \E filled \in Carried(switchMode), position \in Selected :
          ProcessRfPacket_RC(filled, position)
     \/ \E mode \in Modes, differs, matched \in BOOLEAN :
          ProcessRfPacket_SYNC(mode, differs, matched)
-------------------------------------------------------------------------------
\* confirmFrameAvailable sends the frame that is available
SendsFrame ==
  /\ frame /\ modelMatch
  /\ own = PositionOff \/ inhibit \in {"pass", "disableAwaitConfirm"}

\* and counts it: a change of the selection takes two frames.
Settled == lastSelection = selection

InhibitAfter ==
  LET here == selection = own
  IN CASE inhibit = "pass"    -> IF here THEN "pass" ELSE "disableAwaitConfirm"
       [] inhibit = "inhibit" -> IF here THEN "enableAwaitConfirm" ELSE "inhibit"
       [] ~Settled            -> inhibit
       [] OTHER               -> IF here THEN "pass" ELSE "inhibit"

\* Mutant: the selection is remembered of the frames that are sent.
ConfirmFrameAvailableForgetful ==
  /\ frame' = FALSE
  /\ IF ~(frame /\ modelMatch)
       THEN UNCHANGED <<inhibit, lastSelection, teamMatch>>
     ELSE IF own = PositionOff
       THEN inhibit' = "pass" /\ UNCHANGED <<lastSelection, teamMatch>>
       ELSE /\ inhibit' = InhibitAfter
            /\ lastSelection' = IF SendsFrame THEN selection ELSE lastSelection
            /\ teamMatch' = (inhibit' = "pass")

ConfirmFrameAvailable ==
  /\ frame' = FALSE
  /\ IF ~(frame /\ modelMatch)
       THEN UNCHANGED <<inhibit, lastSelection, teamMatch>>
     ELSE IF own = PositionOff
       THEN inhibit' = "pass" /\ UNCHANGED <<lastSelection, teamMatch>>
       ELSE /\ inhibit' = InhibitAfter
            /\ lastSelection' = selection
            /\ teamMatch' = (inhibit' = "pass")

\* HWtimerCallbackTock, as far as sendImmediateRC.
Tock ==
  /\ timer
  /\ heard' = FALSE
  /\ ConfirmFrameAvailable
  /\ UNCHANGED <<pc, linkVars, modeVars, dataVars, own, servoVars>>
-------------------------------------------------------------------------------
Goes(from, to) == pc = from /\ pc' = to

EnterFailsafe ==
  /\ newChannels' = FALSE /\ sinceUpdate' = Never
  /\ servos' = IF servos = "off" THEN "off" ELSE "failsafe"

\* Mutant: no absolute time-out.
ServosUpdateWhileHeard(silent) ==
  /\ pc = "servos"
  /\ IF connectionState # "connected" \/ ~modelMatch \/ ~teamMatch
       THEN EnterFailsafe /\ pc' = "connection"
     ELSE IF newChannels
       THEN newChannels' = FALSE /\ sinceUpdate' = 0 /\ UNCHANGED servos /\ pc' = "write"
       ELSE /\ IF sinceUpdate # Never /\ silent
                 THEN servos' = "failsafe" /\ sinceUpdate' = Never
                 ELSE UNCHANGED <<servos, sinceUpdate>>
            /\ pc' = "connection" /\ UNCHANGED newChannels
  /\ UNCHANGED <<linkVars, heard, modeVars, dataVars, own, portVars>>

\* servosUpdate, after the event of the first connection has initialized the
\* outputs; silent: the link quality is 0.
ServosUpdate(silent) ==
  /\ pc = "servos"
  /\ IF connectionState # "connected" \/ ~modelMatch \/ ~teamMatch
       THEN EnterFailsafe /\ pc' = "connection"
     ELSE IF newChannels
       THEN newChannels' = FALSE /\ sinceUpdate' = 0 /\ UNCHANGED servos /\ pc' = "write"
       ELSE /\ IF sinceUpdate # Never /\ (silent \/ sinceUpdate > AbsTimeout)
                 THEN servos' = "failsafe" /\ sinceUpdate' = Never
                 ELSE UNCHANGED <<servos, sinceUpdate>>
            /\ pc' = "connection" /\ UNCHANGED newChannels
  /\ UNCHANGED <<linkVars, heard, modeVars, dataVars, own, portVars>>

\* servoCalcAllChannels passes over the channels that are unset.
ServosWrite ==
  /\ Goes("write", "connection")
  /\ servos' = IF \E g \in Groups : channels[g] # Unset THEN "following" ELSE servos
  /\ UNCHANGED <<linkVars, heard, modeVars, dataVars, own, newChannels,
                 sinceUpdate, portVars>>

\* No packet, no sync, another rate or a changed configuration: LostConnection
\* as far as the wait for the tock ...
LostConnection ==
  /\ Goes("connection", "lost")
  /\ connectionState' = "disconnected"
  /\ complete' = FALSE
  /\ UNCHANGED <<modelMatch, timer, heard, modeVars, channels, selection, own,
                 servoVars, portVars>>

\* ... and the rest: the tock is just over, and SetRFLinkRate starts in the
\* first mode again.
LostConnectionEnd ==
  /\ Goes("lost", "got")
  /\ ~(timer /\ heard)
  /\ timer' = FALSE
  /\ switchMode' = smWideOr8ch
  /\ UNCHANGED <<connectionState, modelMatch, heard, pending, dataVars, own,
                 servoVars, portVars>>

KeepConnection ==
  /\ Goes("connection", "got")
  /\ UNCHANGED <<linkVars, heard, modeVars, dataVars, own, servoVars, portVars>>

\* Only with the timer running is the link quality ever good enough.
GotConnection ==
  /\ Goes("got", "switch")
  /\ \/ connectionState = "tentative" /\ timer /\ connectionState' = "connected"
     \/ UNCHANGED connectionState
  /\ UNCHANGED <<modelMatch, timer, heard, modeVars, dataVars, own, servoVars, portVars>>

\* Mutant: the channels count as complete in the new mode too.
UpdateSwitchModeComplete ==
  /\ Goes("switch", IF pending > 0 THEN "switched" ELSE "servos")
  /\ IF pending > 0
       THEN switchMode' = pending - 1 /\ ChannelDataReset
       ELSE UNCHANGED <<switchMode, channels, selection>>
  /\ UNCHANGED <<linkVars, heard, complete, pending, own, servoVars, portVars>>

UpdateSwitchMode ==
  /\ Goes("switch", IF pending > 0 THEN "switched" ELSE "servos")
  /\ IF pending > 0
       THEN switchMode' = pending - 1 /\ ChannelDataReset /\ complete' = FALSE
       ELSE UNCHANGED <<switchMode, dataVars>>
  /\ UNCHANGED <<linkVars, heard, pending, own, servoVars, portVars>>

\* SwitchModePending = 0, even if a sync packet has just set it anew.
SwitchModeDone ==
  /\ Goes("switched", "servos")
  /\ pending' = 0
  /\ UNCHANGED <<linkVars, heard, switchMode, dataVars, own, servoVars, portVars>>

\* luaTeamracePosition, written over the air at the top of loop().
SetTeamracePosition ==
  /\ pc = "servos"
  /\ own' \in {PositionOff} \union Selected
  /\ UNCHANGED <<pc, linkVars, heard, modeVars, dataVars, servoVars, portVars>>

ClockTick ==
  /\ sinceUpdate \in 0 .. AbsTimeout
  /\ sinceUpdate' = sinceUpdate + 1
  /\ UNCHANGED <<pc, linkVars, heard, modeVars, dataVars, own, newChannels,
                 servos, portVars>>
-------------------------------------------------------------------------------
Loop ==
  \/ \E silent \in BOOLEAN : ServosUpdate(silent)
  \/ ServosWrite
  \/ LostConnection \/ LostConnectionEnd \/ KeepConnection
  \/ GotConnection
  \/ UpdateSwitchMode \/ SwitchModeDone

Next == Loop \/ Packet \/ Tock \/ SetTeamracePosition \/ ClockTick

Spec == Init /\ [][Next]_vars

\* loop() runs again and again, the timer while it is on, and the clock; the
\* wait for the tock polls until it is over.
FairSpec ==
  /\ Spec
  /\ WF_vars(Loop) /\ SF_vars(LostConnectionEnd)
  /\ WF_vars(Tock) /\ SF_vars(ClockTick)
-------------------------------------------------------------------------------
\* A frame to the flight controller has all the channels of the mode, and like
\* every write to a servo none that an earlier mode or connection unpacked.
OutputsAreFresh ==
  /\ SendsFrame => \A g \in Required(switchMode) : channels[g] = switchMode
  /\ pc = "write" => \A g \in Groups : channels[g] \in {Unset, switchMode}

\* Without new channels the servos do not go on with the old ones, whatever
\* becomes of the connection in the meantime.
FailsafeComes == []<>newChannels \/ <>[](servos # "following")

\* The model that the pilot settles on is served as long as frames keep coming,
\* whatever positions it had and were selected before.
SelectedIsServed ==
  <>[](own # PositionOff /\ selection = own) /\ []<>(frame /\ modelMatch) => <>[]teamMatch

\* common.cpp, 238: without a team race there is always a match.
UnracedIsServed ==
  <>[](own = PositionOff) /\ []<>(frame /\ modelMatch) => <>[]teamMatch
===============================================================================
