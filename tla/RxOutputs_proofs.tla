--------------------------- MODULE RxOutputs_proofs ----------------------------
(***************************************************************************)
(* Proofs about the outputs of a receiver, for every set of switch modes,   *)
(* every team race position and every time-out: no frame and no servo gets  *)
(* a channel that an earlier mode or an earlier connection unpacked.        *)
(***************************************************************************)
EXTENDS RxOutputs, TLAPS

-------------------------------------------------------------------------------
(* The inductive invariant.                                                *)

\* A connection has its timer, and none is made while one is being lost.
ConnectedIsClocked ==
  /\ connectionState = "connected" => timer
  /\ pc = "lost" => connectionState # "connected"

\* Channels are unpacked only in a connection, in the mode of the moment.
TentativeIsReset ==
  connectionState = "tentative" => \A g \in Groups : channels[g] = Unset
OneMode ==
  connectionState = "connected" =>
    \A g \in Groups : channels[g] \in {Unset, switchMode}

\* Complete channels are those of a connection.
CompleteIsConnected ==
  complete => /\ connectionState = "connected"
              /\ \A g \in Required(switchMode) : channels[g] # Unset

\* A frame waits for its tock in the slot that it came in: no packet, no change
\* of mode and no end of the connection comes between.
FrameIsOfThisSlot ==
  frame => /\ timer /\ heard /\ pending = 0
           /\ \A g \in Required(switchMode) : channels[g] = switchMode

\* The servos are written for a connection, which may have begun anew since.
WritesInConnection == pc = "write" => connectionState # "disconnected"

Fresh ==
  /\ ConnectedIsClocked
  /\ TentativeIsReset
  /\ OneMode
  /\ CompleteIsConnected
  /\ FrameIsOfThisSlot
  /\ WritesInConnection

OutputsInv == TypeOK /\ Fresh

-------------------------------------------------------------------------------
(* The constants and the type invariant.                                   *)

\* The modes are small numbers, none of them Unset.
LEMMA OutputsFacts ==
  /\ Modes \subseteq {0, 1, 2} /\ Selected \subseteq 1 .. 7
  /\ Own \in {PositionOff} \union Selected
  /\ Teamrace \in Groups /\ AbsTimeout \in Nat
BY RxOutputsAssumption
   DEF RxOutputsAssumption, smWideOr8ch, smHybridOr16ch, sm12ch

\* Every mode requires groups that there are.
LEMMA RequiredGroups ==
  ASSUME NEW m \in Modes \union {smWideOr8ch}
  PROVE  Required(m) \subseteq Groups
<1>1. m \in {0, 1, 2}
  BY OutputsFacts DEF smWideOr8ch
<1> QED BY <1>1 DEF Required, Groups, smWideOr8ch, smHybridOr16ch, sm12ch

\* The type invariant in two parts: the flags, and what is not a flag.
Flags ==
  /\ modelMatch \in BOOLEAN /\ timer \in BOOLEAN /\ heard \in BOOLEAN
  /\ complete \in BOOLEAN /\ newChannels \in BOOLEAN /\ frame \in BOOLEAN
  /\ teamMatch \in BOOLEAN

Positions == {PositionOff, PositionOfUnset} \union Selected

Others ==
  /\ pc \in {"servos", "write", "connection", "lost", "got", "switch", "switched"}
  /\ connectionState \in {"disconnected", "tentative", "connected"}
  /\ switchMode \in Modes \union {smWideOr8ch}
  /\ pending \in {0} \union {m + 1 : m \in Modes} \union {-m - 1 : m \in Modes}
  /\ channels \in [Groups -> Modes \union {smWideOr8ch, Unset}]
  /\ selection \in Positions /\ own \in Positions /\ lastSelection \in Positions
  /\ sinceUpdate \in Never .. AbsTimeout + 1
  /\ servos \in {"off", "failsafe", "following"}
  /\ inhibit \in Inhibits

\* The type invariant is the two together.
LEMMA TypeParts == TypeOK <=> Flags /\ Others
BY DEF TypeOK, Flags, Others, Positions

\* No action makes a flag anything but a flag.
LEMMA FlagsKept ==
  ASSUME Flags, Next
  PROVE  Flags'
<1> USE DEF Flags, linkVars, modeVars, dataVars, servoVars, portVars
<1>1. ASSUME NEW silent \in BOOLEAN,
            ServosUpdate(silent)
     PROVE  Flags'
  BY <1>1, Zenon DEF ServosUpdate, EnterFailsafe
<1>2. CASE ServosWrite
  BY <1>2, Zenon DEF ServosWrite, Goes
<1>3. CASE LostConnection
  BY <1>3, Zenon DEF LostConnection, Goes
<1>4. CASE LostConnectionEnd
  BY <1>4, Zenon DEF LostConnectionEnd, Goes
<1>5. CASE KeepConnection
  BY <1>5, Zenon DEF KeepConnection, Goes
<1>6. CASE GotConnection
  BY <1>6, Zenon DEF GotConnection, Goes
<1>7. CASE UpdateSwitchMode
  BY <1>7, Zenon DEF UpdateSwitchMode, Goes, ChannelDataReset
<1>8. CASE SwitchModeDone
  BY <1>8, Zenon DEF SwitchModeDone, Goes
<1>9. ASSUME NEW filled \in Carried(switchMode), NEW position \in Selected,
            ~(timer /\ heard), ProcessRfPacket_RC(filled, position)
     PROVE  Flags'
  BY <1>9, Zenon DEF ProcessRfPacket_RC, IsChannelDataComplete
<1>10. ASSUME NEW mode \in Modes, NEW differs \in BOOLEAN, NEW matched \in BOOLEAN,
            ~(timer /\ heard), ProcessRfPacket_SYNC(mode, differs, matched)
     PROVE  Flags'
  BY <1>10, Zenon
  DEF ProcessRfPacket_SYNC, UpdateSwitchModePendingFromOta, TentativeConnection,
      ChannelDataReset
<1>11. CASE Tock
  BY <1>11, Zenon DEF Tock, ConfirmFrameAvailable
<1>12. CASE SetTeamracePosition
  BY <1>12, Zenon DEF SetTeamracePosition
<1>13. CASE ClockTick
  BY <1>13, Zenon DEF ClockTick
<1> QED BY <1>1, <1>2, <1>3, <1>4, <1>5, <1>6, <1>7,
         <1>8, <1>9, <1>10, <1>11, <1>12, <1>13
         DEF Next, Loop, Packet

\* Modes, channels, positions and ages stay in their ranges.
LEMMA OthersKept ==
  ASSUME Others, Next
  PROVE  Others'
<1> USE OutputsFacts DEF Others, Positions, PositionOff, PositionOfUnset,
        Never, Unset, smWideOr8ch, linkVars, modeVars, dataVars, servoVars, portVars
<1>1. ASSUME NEW silent \in BOOLEAN,
            ServosUpdate(silent)
     PROVE  Others'
  BY <1>1 DEF ServosUpdate, EnterFailsafe
<1>2. CASE ServosWrite
  BY <1>2 DEF ServosWrite, Goes
<1>3. CASE LostConnection
  BY <1>3 DEF LostConnection, Goes
<1>4. CASE LostConnectionEnd
  BY <1>4 DEF LostConnectionEnd, Goes
<1>5. CASE KeepConnection
  BY <1>5 DEF KeepConnection, Goes
<1>6. CASE GotConnection
  BY <1>6 DEF GotConnection, Goes
<1>7. CASE UpdateSwitchMode
  BY <1>7 DEF UpdateSwitchMode, Goes, ChannelDataReset
<1>8. CASE SwitchModeDone
  BY <1>8 DEF SwitchModeDone, Goes
<1>9. ASSUME NEW filled \in Carried(switchMode), NEW position \in Selected,
            ~(timer /\ heard), ProcessRfPacket_RC(filled, position)
     PROVE  Others'
  BY <1>9 DEF ProcessRfPacket_RC, IsChannelDataComplete
<1>10. ASSUME NEW mode \in Modes, NEW differs \in BOOLEAN, NEW matched \in BOOLEAN,
            ~(timer /\ heard), ProcessRfPacket_SYNC(mode, differs, matched)
     PROVE  Others'
  BY <1>10
  DEF ProcessRfPacket_SYNC, UpdateSwitchModePendingFromOta, TentativeConnection,
      ChannelDataReset
<1>11. CASE Tock
  BY <1>11 DEF Tock, ConfirmFrameAvailable, InhibitAfter, Inhibits
<1>12. CASE SetTeamracePosition
  BY <1>12 DEF SetTeamracePosition
<1>13. CASE ClockTick
  BY <1>13 DEF ClockTick
<1> QED BY <1>1, <1>2, <1>3, <1>4, <1>5, <1>6, <1>7,
         <1>8, <1>9, <1>10, <1>11, <1>12, <1>13
         DEF Next, Loop, Packet

\* What is unpacked, what is complete and what waits to be sent.
LEMMA FreshKept ==
  ASSUME Flags, Others, Fresh, Next
  PROVE  Fresh'
<1> USE OutputsFacts DEF Flags, Others, Never, Unset, smWideOr8ch,
        linkVars, modeVars, dataVars, servoVars, portVars,
        Fresh, ConnectedIsClocked, TentativeIsReset, OneMode, CompleteIsConnected,
        FrameIsOfThisSlot, WritesInConnection
<1>1. ASSUME NEW silent \in BOOLEAN,
            ServosUpdate(silent)
     PROVE  Fresh'
  BY <1>1 DEF ServosUpdate, EnterFailsafe
<1>2. CASE ServosWrite
  BY <1>2 DEF ServosWrite, Goes
<1>3. CASE LostConnection
  BY <1>3 DEF LostConnection, Goes
<1>4. CASE LostConnectionEnd
  BY <1>4 DEF LostConnectionEnd, Goes
<1>5. CASE KeepConnection
  BY <1>5 DEF KeepConnection, Goes
<1>6. CASE GotConnection
  BY <1>6 DEF GotConnection, Goes
<1>7. CASE UpdateSwitchMode
  BY <1>7 DEF UpdateSwitchMode, Goes, ChannelDataReset
<1>8. CASE SwitchModeDone
  BY <1>8 DEF SwitchModeDone, Goes
<1>9. ASSUME NEW filled \in Carried(switchMode), NEW position \in Selected,
            ~(timer /\ heard), ProcessRfPacket_RC(filled, position)
     PROVE  Fresh'
  <2>1. /\ heard' = TRUE /\ pc' = pc /\ connectionState' = connectionState
        /\ timer' = timer /\ pending' = pending /\ switchMode' = switchMode
    BY <1>9 DEF ProcessRfPacket_RC
  <2>2. ~frame
    BY <1>9
  <2>3. CASE connectionState # "connected" \/ pending # 0
    <3>1. UNCHANGED <<channels, complete, frame>>
      BY <1>9, <2>3 DEF ProcessRfPacket_RC
    <3> QED BY <2>1, <2>2, <3>1
  <2>4. CASE connectionState = "connected" /\ pending = 0
    <3>1. channels' = [g \in Groups |-> IF g \in filled THEN switchMode ELSE channels[g]]
      BY <1>9, <2>4 DEF ProcessRfPacket_RC
    <3>2. complete' = (complete \/ \A g \in Required(switchMode) : channels'[g] # Unset)
      BY <1>9, <2>4 DEF ProcessRfPacket_RC, IsChannelDataComplete
    <3>3. frame' => complete'
      BY <1>9, <2>2, <2>4, Zenon DEF ProcessRfPacket_RC
    <3>4. Required(switchMode) \subseteq Groups /\ switchMode # Unset
      <4>1. switchMode \in Modes \union {smWideOr8ch}
        OBVIOUS
      <4>2. Required(switchMode) \subseteq Groups
        BY <4>1, RequiredGroups, Zenon
      <4> QED BY <4>2
    <3>5. \A g \in Groups : /\ channels'[g] = Unset \/ channels'[g] = switchMode
                            /\ channels[g] # Unset => channels'[g] # Unset
      BY <2>4, <3>1, <3>4
    <3> HIDE DEF Unset
    <3>6. complete' => \A g \in Required(switchMode) : channels'[g] # Unset
      BY <3>2, <3>4, <3>5, Zenon
    <3>7. complete' => \A g \in Required(switchMode) : channels'[g] = switchMode
      <4>1. ASSUME complete', NEW g \in Required(switchMode)
            PROVE  channels'[g] = switchMode
        <5>1. g \in Groups /\ channels'[g] # Unset
          BY <3>4, <3>6, <4>1
        <5> QED BY <3>5, <5>1
      <4> QED BY <4>1
    <3>8. OneMode'
      <4>1. ASSUME NEW g \in Groups PROVE channels'[g] \in {Unset, switchMode'}
        BY <2>1, <3>5
      <4> QED BY <4>1, Zenon
    <3>9. CompleteIsConnected'
      BY <2>1, <2>4, <3>6, Zenon
    <3>10. WritesInConnection' /\ TentativeIsReset' /\ ConnectedIsClocked'
      BY <2>1, <2>4
    <3>11. FrameIsOfThisSlot'
      BY <2>1, <2>4, <3>3, <3>7
    <3> QED BY <3>8, <3>9, <3>10, <3>11
  <2> QED BY <2>3, <2>4
<1>10. ASSUME NEW mode \in Modes, NEW differs \in BOOLEAN, NEW matched \in BOOLEAN,
            ~(timer /\ heard), ProcessRfPacket_SYNC(mode, differs, matched)
     PROVE  Fresh'
  BY <1>10
  DEF ProcessRfPacket_SYNC, UpdateSwitchModePendingFromOta, TentativeConnection,
      ChannelDataReset
<1>11. CASE Tock
  BY <1>11 DEF Tock, ConfirmFrameAvailable
<1>12. CASE SetTeamracePosition
  BY <1>12 DEF SetTeamracePosition
<1>13. CASE ClockTick
  BY <1>13 DEF ClockTick
<1> QED BY <1>1, <1>2, <1>3, <1>4, <1>5, <1>6, <1>7,
         <1>8, <1>9, <1>10, <1>11, <1>12, <1>13
         DEF Next, Loop, Packet

-------------------------------------------------------------------------------
\* Nothing is connected, unpacked or to be sent at power up.
LEMMA InitInv ==
  ASSUME Init
  PROVE  OutputsInv
<1>1. Flags
  BY Zenon DEF Init, Flags
<1>2. Others
  BY OutputsFacts DEF Init, Others, Positions, PositionOff, PositionOfUnset, Never, Unset,
                      smWideOr8ch, Inhibits
<1>3. Fresh
  BY DEF Init, Fresh, ConnectedIsClocked, TentativeIsReset, OneMode, CompleteIsConnected,
         FrameIsOfThisSlot, WritesInConnection
<1> QED BY <1>1, <1>2, <1>3, TypeParts DEF OutputsInv

\* The inductive step, with the steps that change nothing.
LEMMA StepInv ==
  ASSUME OutputsInv, [Next]_vars
  PROVE  OutputsInv'
<1>1. Flags /\ Others /\ Fresh
  BY TypeParts DEF OutputsInv
<1>2. CASE Next
  <2>1. TypeOK' <=> Flags' /\ Others'
    BY DEF TypeOK, Flags, Others, Positions
  <2> QED BY <1>1, <1>2, <2>1, FlagsKept, OthersKept, FreshKept DEF OutputsInv
<1>3. CASE UNCHANGED vars
  <2> USE <1>3 DEF vars, linkVars, modeVars, dataVars, servoVars, portVars
  <2>1. TypeOK'
    BY <1>1, TypeParts DEF TypeOK
  <2>2. Fresh'
    BY <1>1 DEF Fresh, ConnectedIsClocked, TentativeIsReset, OneMode,
                CompleteIsConnected, FrameIsOfThisSlot, WritesInConnection
  <2> QED BY <2>1, <2>2 DEF OutputsInv
<1> QED BY <1>2, <1>3

-------------------------------------------------------------------------------
\* The inductive invariant holds in every behaviour.
THEOREM OutputsInvariant == Spec => []OutputsInv
<1>1. Init => OutputsInv
  BY InitInv
<1>2. OutputsInv /\ [Next]_vars => OutputsInv'
  BY StepInv
<1> QED BY <1>1, <1>2, PTL DEF Spec

\* Every variable of the outputs stays within its type.
THEOREM OutputsTypeCorrect == Spec => []TypeOK
<1>1. OutputsInv => TypeOK
  BY DEF OutputsInv
<1> QED BY <1>1, OutputsInvariant, PTL

\* A frame has all the channels of its mode, and neither it nor a write to the
\* servos has one that an earlier mode or connection unpacked.
THEOREM FreshOutputs == Spec => []OutputsAreFresh
<1>1. OutputsInv => OutputsAreFresh
  <2> SUFFICES ASSUME OutputsInv PROVE OutputsAreFresh
    OBVIOUS
  <2>1. SendsFrame => \A g \in Required(switchMode) : channels[g] = switchMode
    BY DEF OutputsInv, Fresh, FrameIsOfThisSlot, SendsFrame
  <2>2. ASSUME pc = "write", NEW g \in Groups
        PROVE  channels[g] \in {Unset, switchMode}
    <3>1. connectionState \in {"tentative", "connected"}
      BY <2>2, TypeParts DEF OutputsInv, Fresh, WritesInConnection, Others
    <3> QED BY <3>1 DEF OutputsInv, Fresh, TentativeIsReset, OneMode
  <2> QED BY <2>1, <2>2 DEF OutputsAreFresh
<1> QED BY <1>1, OutputsInvariant, PTL
================================================================================
