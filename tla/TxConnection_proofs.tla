-------------------------- MODULE TxConnection_proofs --------------------------
(***************************************************************************)
(* Proofs about the transmitter's connection state, for every set of rates, *)
(* every amount of spam and every timeout: the radio follows the            *)
(* configuration, and a connected transmitter never leaves its rate for one *)
(* that it has not announced.                                               *)
(***************************************************************************)
EXTENDS TxConnection, TLAPS

-------------------------------------------------------------------------------
(* The inductive invariant.                                                *)
Pending == modified \/ modelPending

\* The timer and the radio are held off exactly while a change is committed.
CommitHoldsTheRadio == commitInProgress <=> pc = "committing"

\* What is committed is a change whose spam has been sent.
CommitsWhatIsPending == pc = "committing" => Pending /\ spam = 0

\* A handset that has just come has changed the rate without any spam, and the
\* commit follows in the same pass of loop(), in which nothing connects.
CameInThisPass ==
  connectionState = "awaitingModelId" /\ pc \in {"serve", "commit", "committing"}

\* When the spam of a change has been sent, a sync packet has named the new rate.
SpamAnnounces ==
  ~InBinding /\ Pending /\ spam = 0 => told \/ rate = configRate \/ CameInThisPass

Kept ==
  /\ RateFollowsConfig
  /\ CommitHoldsTheRadio
  /\ CommitsWhatIsPending
  /\ SpamAnnounces

TxInv == TypeOK /\ Kept

-------------------------------------------------------------------------------
\* What the assumption says of each constant.
LEMMA Constants ==
  /\ BindRate \in Rates /\ Rates \subseteq Nat
  /\ SpamAmount \in Nat /\ SpamAmount > 0
  /\ SpamAfter \in Nat /\ SpamAfter > 0
  /\ BindingSpam \in Nat /\ BindingSpam > 0
  /\ LostTimeout \in Nat /\ Disconnect \in Nat
BY TxConnectionAssumption DEF TxConnectionAssumption

\* The type invariant in two parts: the flags, and what is not a flag.
Flags ==
  /\ timer \in BOOLEAN /\ newSwitches \in BOOLEAN
  /\ modified \in BOOLEAN /\ modelPending \in BOOLEAN
  /\ commitInProgress \in BOOLEAN /\ synced \in BOOLEAN
  /\ InBinding \in BOOLEAN /\ controller \in BOOLEAN /\ told \in BOOLEAN

Others ==
  /\ pc \in {"status", "devices", "serve", "commit", "committing", "bind"}
  /\ connectionState \in {"connected", "awaitingModelId", "disconnected", "noCrossfire"}
  /\ rate \in Rates /\ configRate \in Rates
  /\ spam \in 0 .. SpamAmount /\ spamAfter \in 0 .. SpamAfter
  /\ boost \in {"idle", "requested", "boosting"}
  /\ bindCount \in 0 .. BindingSpam + 1
  /\ rc \in {"never", "fresh", "stale"}
  /\ sinceTlm \in -1 .. LostTimeout + 1 /\ sinceChange \in 0 .. Disconnect + 1

\* The type invariant is the two together.
LEMMA TypeParts == TypeOK <=> Flags /\ Others
BY DEF TypeOK, Flags, Others, Never

\* At power-up the radio has the configured rate and nothing is pending.
LEMMA InitInv ==
  ASSUME Init
  PROVE  TxInv
<1>1. TypeOK
  <2>1. Flags
    BY Zenon DEF Init, Flags
  <2>2. Others
    BY Constants DEF Init, Others, Never
  <2> QED BY <2>1, <2>2, TypeParts
<1>2. RateFollowsConfig
  BY DEF Init, RateFollowsConfig
<1>3. CommitHoldsTheRadio /\ CommitsWhatIsPending /\ SpamAnnounces
  BY DEF Init, CommitHoldsTheRadio, CommitsWhatIsPending, SpamAnnounces, Pending
<1> QED BY <1>1, <1>2, <1>3 DEF TxInv, Kept

\* No action makes a flag anything but a flag.
LEMMA FlagsKept ==
  ASSUME Flags, Next
  PROVE  Flags'
<1> USE DEF Flags, configVars, spamVars, bindVars, handsetVars,
        radioVars
<1>1. CASE UpdateConnectDisconnectStatus
  BY <1>1, Zenon DEF UpdateConnectDisconnectStatus, Goes
<1>2. CASE NothingAsked
  BY <1>2, Zenon DEF NothingAsked, Devices, Goes
<1>3. CASE UARTconnected
  BY <1>3, Zenon DEF UARTconnected, Devices, Goes, SetRate, Adjusted
<1>4. CASE UARTdisconnected
  BY <1>4, Zenon DEF UARTdisconnected, Devices, Goes
<1>5. CASE ModelUpdateReq
  BY <1>5, Zenon DEF ModelUpdateReq, Devices, Goes, SetSyncSpam
<1>6. ASSUME NEW r \in Rates, SetPacketRateIdx(r) PROVE Flags'
  BY <1>6, Zenon DEF SetPacketRateIdx, Devices, Goes, SetRate, MaySwitch, SetSyncSpam
<1>7. ASSUME NEW spams \in BOOLEAN, SetOther(spams) PROVE Flags'
  BY <1>7, Zenon DEF SetOther, Devices, Goes, MaySwitch, SetSyncSpam
<1>8. CASE EnterBindingMode
  BY <1>8, Zenon DEF EnterBindingMode, Devices, Goes, SetRFLinkRate, IsSet
<1>9. CASE Serve
  BY <1>9, Zenon DEF Serve, Goes, IsSet
<1>10. CASE CheckConfigChangePending
  BY <1>10, Zenon DEF CheckConfigChangePending
<1>11. CASE ConfigChangeCommit
  BY <1>11, Zenon DEF ConfigChangeCommit, Goes, SetRFLinkRate, IsSet
<1>12. CASE KeepBindingMode
  BY <1>12, Zenon DEF KeepBindingMode, Goes
<1>13. CASE ExitBindingMode
  BY <1>13, Zenon DEF ExitBindingMode, Goes, SetRate, Adjusted, IsSet
<1>14. CASE SendSync
  BY <1>14, Zenon DEF SendSync, GenerateSyncPacketData, UpdateTlmRatioEffective, TlmIsRecent
<1>15. CASE SendData
  BY <1>15, Zenon DEF SendData
<1>16. CASE ProcessDownlinkPacket
  BY <1>16, Zenon DEF ProcessDownlinkPacket
<1>17. CASE HandsetSends
  BY <1>17, Zenon DEF HandsetSends
<1>18. CASE HandsetFallsSilent
  BY <1>18, Zenon DEF HandsetFallsSilent
<1>19. CASE ClockTick
  BY <1>19, Zenon DEF ClockTick
<1> QED BY <1>1, <1>2, <1>3, <1>4, <1>5, <1>6, <1>7, <1>8, <1>9, <1>10, <1>11, <1>12,
           <1>13, <1>14, <1>15, <1>16, <1>17, <1>18, <1>19
         DEF Next, Loop, Asked, Interrupt

\* Rates, counters and ages stay in their ranges.
LEMMA OthersKept ==
  ASSUME Others, Next
  PROVE  Others'
<1> USE Constants DEF Others, Never, configVars, spamVars, bindVars, handsetVars,
        radioVars
<1>1. CASE UpdateConnectDisconnectStatus
  BY <1>1 DEF UpdateConnectDisconnectStatus, Goes
<1>2. CASE NothingAsked
  BY <1>2 DEF NothingAsked, Devices, Goes
<1>3. CASE UARTconnected
  BY <1>3 DEF UARTconnected, Devices, Goes, SetRate, Adjusted
<1>4. CASE UARTdisconnected
  BY <1>4 DEF UARTdisconnected, Devices, Goes
<1>5. CASE ModelUpdateReq
  BY <1>5 DEF ModelUpdateReq, Devices, Goes, SetSyncSpam
<1>6. ASSUME NEW r \in Rates, SetPacketRateIdx(r) PROVE Others'
  BY <1>6 DEF SetPacketRateIdx, Devices, Goes, SetRate, MaySwitch, SetSyncSpam
<1>7. ASSUME NEW spams \in BOOLEAN, SetOther(spams) PROVE Others'
  BY <1>7 DEF SetOther, Devices, Goes, MaySwitch, SetSyncSpam
<1>8. CASE EnterBindingMode
  BY <1>8 DEF EnterBindingMode, Devices, Goes, SetRFLinkRate, IsSet
<1>9. CASE Serve
  BY <1>9 DEF Serve, Goes, IsSet
<1>10. CASE CheckConfigChangePending
  BY <1>10 DEF CheckConfigChangePending
<1>11. CASE ConfigChangeCommit
  BY <1>11 DEF ConfigChangeCommit, Goes, SetRFLinkRate, IsSet
<1>12. CASE KeepBindingMode
  BY <1>12 DEF KeepBindingMode, Goes
<1>13. CASE ExitBindingMode
  BY <1>13 DEF ExitBindingMode, Goes, SetRate, Adjusted, IsSet
<1>14. CASE SendSync
  BY <1>14 DEF SendSync, GenerateSyncPacketData, UpdateTlmRatioEffective, TlmIsRecent
<1>15. CASE SendData
  BY <1>15 DEF SendData
<1>16. CASE ProcessDownlinkPacket
  BY <1>16 DEF ProcessDownlinkPacket
<1>17. CASE HandsetSends
  BY <1>17 DEF HandsetSends
<1>18. CASE HandsetFallsSilent
  BY <1>18 DEF HandsetFallsSilent
<1>19. CASE ClockTick
  BY <1>19 DEF ClockTick
<1> QED BY <1>1, <1>2, <1>3, <1>4, <1>5, <1>6, <1>7, <1>8, <1>9, <1>10, <1>11, <1>12,
           <1>13, <1>14, <1>15, <1>16, <1>17, <1>18, <1>19
         DEF Next, Loop, Asked, Interrupt

\* Every action keeps the rest of the invariant.
LEMMA KeptInv ==
  ASSUME Flags, Others, Kept, Next
  PROVE  Kept'
<1> USE Constants DEF Flags, Others, Never, configVars, spamVars, bindVars, handsetVars,
        radioVars, Kept, RateFollowsConfig, CommitHoldsTheRadio, CommitsWhatIsPending,
        SpamAnnounces, CameInThisPass, Pending
<1>1. CASE UpdateConnectDisconnectStatus
  BY <1>1 DEF UpdateConnectDisconnectStatus, Goes
<1>2. CASE NothingAsked
  BY <1>2 DEF NothingAsked, Devices, Goes
<1>3. CASE UARTconnected
  BY <1>3 DEF UARTconnected, Devices, Goes, SetRate, Adjusted
<1>4. CASE UARTdisconnected
  BY <1>4 DEF UARTdisconnected, Devices, Goes
<1>5. CASE ModelUpdateReq
  BY <1>5 DEF ModelUpdateReq, Devices, Goes, SetSyncSpam
<1>6. ASSUME NEW r \in Rates, SetPacketRateIdx(r) PROVE Kept'
  <2>1. modified' = (modified \/ r # configRate) /\ told' = (told /\ r = configRate)
    BY <1>6 DEF SetPacketRateIdx, SetRate
  <2>2. CASE modified'
    <3>1. spam' = SpamAmount /\ spam' # 0 /\ pc' = "serve"
      BY <1>6, <2>2 DEF SetPacketRateIdx, Devices, Goes, SetSyncSpam
    <3> QED BY <1>6, <2>2, <3>1 DEF SetPacketRateIdx, Devices, Goes
  <2>3. CASE ~modified'
    <3>1. ~modified /\ r = configRate
      BY <2>1, <2>3
    <3>2. told' = told /\ modified' = modified /\ configRate' = configRate
      BY <2>1, <2>3, <3>1, <1>6, Zenon DEF SetPacketRateIdx, SetRate, Flags
    <3> QED BY <1>6, <2>3, <3>1, <3>2 DEF SetPacketRateIdx, Devices, Goes
  <2> QED BY <2>2, <2>3
<1>7. ASSUME NEW spams \in BOOLEAN, SetOther(spams) PROVE Kept'
  BY <1>7 DEF SetOther, Devices, Goes, MaySwitch, SetSyncSpam
<1>8. CASE EnterBindingMode
  BY <1>8 DEF EnterBindingMode, Devices, Goes, SetRFLinkRate, IsSet
<1>9. CASE Serve
  BY <1>9 DEF Serve, Goes, IsSet
<1>10. CASE CheckConfigChangePending
  BY <1>10 DEF CheckConfigChangePending
<1>11. CASE ConfigChangeCommit
  BY <1>11 DEF ConfigChangeCommit, Goes, SetRFLinkRate, IsSet
<1>12. CASE KeepBindingMode
  BY <1>12 DEF KeepBindingMode, Goes
<1>13. CASE ExitBindingMode
  BY <1>13 DEF ExitBindingMode, Goes, SetRate, Adjusted, IsSet
<1>14. CASE SendSync
  BY <1>14
  DEF SendSync, Transmits, GenerateSyncPacketData, UpdateTlmRatioEffective, TlmIsRecent
<1>15. CASE SendData
  BY <1>15 DEF SendData, Transmits
<1>16. CASE ProcessDownlinkPacket
  BY <1>16 DEF ProcessDownlinkPacket
<1>17. CASE HandsetSends
  BY <1>17 DEF HandsetSends
<1>18. CASE HandsetFallsSilent
  BY <1>18 DEF HandsetFallsSilent
<1>19. CASE ClockTick
  BY <1>19 DEF ClockTick
<1> QED BY <1>1, <1>2, <1>3, <1>4, <1>5, <1>6, <1>7, <1>8, <1>9, <1>10, <1>11, <1>12,
           <1>13, <1>14, <1>15, <1>16, <1>17, <1>18, <1>19
         DEF Next, Loop, Asked, Interrupt

\* The inductive step, with the steps that change nothing.
LEMMA StepInv ==
  ASSUME TxInv, [Next]_vars
  PROVE  TxInv'
<1>1. Flags /\ Others /\ Kept
  BY TypeParts DEF TxInv
<1>2. CASE Next
  <2>1. TypeOK' <=> Flags' /\ Others'
    BY DEF TypeOK, Flags, Others, Never
  <2> QED BY <1>1, <1>2, <2>1, FlagsKept, OthersKept, KeptInv DEF TxInv
<1>3. CASE UNCHANGED vars
  BY <1>3 DEF TxInv, TypeOK, Kept, RateFollowsConfig, CommitHoldsTheRadio,
              CommitsWhatIsPending, SpamAnnounces, CameInThisPass, Pending, vars,
              configVars, spamVars, bindVars, handsetVars, radioVars
<1> QED BY <1>2, <1>3

\* Only three steps change the rate: a commit without a handset, which is not
\* connected; the entry into binding and its exit; and a commit after the spam.
LEMMA StepAnnounced ==
  ASSUME TxInv, Next, rate' # rate, connectionState = "connected",
         ~InBinding, ~InBinding'
  PROVE  told
<1> USE DEF configVars, spamVars, bindVars, handsetVars, radioVars
<1>1. CASE Serve
  BY <1>1 DEF Serve
<1>2. CASE ConfigChangeCommit
  <2>1. rate' = configRate /\ pc = "committing"
    BY <1>2 DEF ConfigChangeCommit, Goes, SetRFLinkRate
  <2>2. Pending /\ spam = 0
    BY <2>1 DEF TxInv, Kept, CommitsWhatIsPending
  <2> QED BY <2>1, <2>2 DEF TxInv, Kept, SpamAnnounces, CameInThisPass
<1>3. CASE EnterBindingMode \/ ExitBindingMode
  BY <1>3 DEF EnterBindingMode, ExitBindingMode
<1>4. CASE Asked /\ ~EnterBindingMode
  BY <1>4 DEF Asked, ModelUpdateReq, SetPacketRateIdx, SetOther
<1>5. CASE UpdateConnectDisconnectStatus \/ CheckConfigChangePending \/ KeepBindingMode
  BY <1>5 DEF UpdateConnectDisconnectStatus, CheckConfigChangePending, KeepBindingMode
<1>6. CASE NothingAsked \/ UARTconnected \/ UARTdisconnected
  BY <1>6 DEF NothingAsked, UARTconnected, UARTdisconnected
<1>7. CASE Interrupt
  BY <1>7 DEF Interrupt, SendSync, SendData, ProcessDownlinkPacket
<1>8. CASE HandsetSends \/ HandsetFallsSilent \/ ClockTick
  BY <1>8 DEF HandsetSends, HandsetFallsSilent, ClockTick
<1> QED BY <1>1, <1>2, <1>3, <1>4, <1>5, <1>6, <1>7, <1>8 DEF Next, Loop

-------------------------------------------------------------------------------
\* The inductive invariant holds in every behaviour.
THEOREM TxInvariant == Spec => []TxInv
<1>1. Init => TxInv
  BY InitInv
<1>2. TxInv /\ [Next]_vars => TxInv'
  BY StepInv
<1> QED BY <1>1, <1>2, PTL DEF Spec

\* Every variable of the transmitter stays within its type.
THEOREM TxTypeCorrect == Spec => []TypeOK
<1>1. TxInv => TypeOK
  BY DEF TxInv
<1> QED BY <1>1, TxInvariant, PTL

\* The radio is at the configured rate unless a change is pending or it binds.
THEOREM RadioFollows == Spec => []RateFollowsConfig
<1>1. TxInv => RateFollowsConfig
  BY DEF TxInv, Kept
<1> QED BY <1>1, TxInvariant, PTL

\* A transmitter that is connected never leaves its rate for one that no sync
\* packet has named: the receiver could not follow it.
THEOREM ChangesAreAnnounced == Spec => RateAnnounced
<1>1. TxInv /\ [Next]_vars
      => [rate' # rate /\ connectionState = "connected" /\ ~InBinding /\ ~InBinding'
            => told]_vars
  BY StepAnnounced
<1> QED BY <1>1, TxInvariant, PTL DEF Spec, RateAnnounced
================================================================================
