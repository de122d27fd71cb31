----------------------------- MODULE RxConnection ------------------------------
(***************************************************************************)
(* rx_main.cpp: the receiver's connection state.  loop() runs one section  *)
(* of its body after another, pc naming the next; the radio and the timer  *)
(* interrupt it between any two, and also in the middle of LostConnection. *)
(* Times are kept as ages: how long ago LastSyncPacket, LastValidPacket    *)
(* and RFmodeLastCycled were set, and how far the clock has moved on since *)
(* loop() read millis() into now.  What the transmitter does, what the     *)
(* user asks for and what the air lets through is arbitrary.               *)
(***************************************************************************)
EXTENDS Naturals, FiniteSetsExt

CONSTANTS
  Rates,          \* the indices of the supported rates
  BindRate,       \* RATE_BINDING
  CycleInterval,  \* rate -> 110% of the time to visit its table
  RxLockTimeout,  \* RxLockTimeoutMs
  Disconnect,     \* DisconnectTimeoutMs
  Slow,           \* RFmodeCycleMultiplierSlow
  MinLqForChaos,  \* the least minLqForChaos() of the rates
  Administered,   \* whether the bind storage is BINDSTORAGE_ADMINISTERED
  LockOnFirst,    \* firmwareOptions.lock_on_first_connection
  MaxPass         \* the most time that one pass of loop() takes

\* No rate hops more often than in every second slot, and a receiver coexists
\* on a channel for a hop interval at least.
ASSUME RxConnectionAssumption ==
  /\ Rates \subseteq Nat /\ IsFiniteSet(Rates) /\ BindRate \in Rates
  /\ CycleInterval \in [Rates -> Nat]
  /\ {RxLockTimeout, Disconnect, Slow, MinLqForChaos, MaxPass} \subseteq Nat
  /\ Slow >= 1 /\ MinLqForChaos >= 2
  /\ {Administered, LockOnFirst} \subseteq BOOLEAN

VARIABLES
  pc,                  \* where loop() is
  connectionState,
  currRate, nextRate,  \* ExpressLRS_currAirRate_Modparams, .._nextAirRateIndex
  scanIndex,
  multiplier,          \* RFmodeCycleMultiplier
  LockRFmode,
  InBindingMode, BindingModeRequest, onLoan,
  modified,            \* config.IsModified()
  timer,               \* hwTimer::running
  listening,           \* the radio is receiving, not in standby
  lq, current,         \* LQCalc: its raw total, its bit for this period
  ticked,              \* the timer ticked while LostConnection waits for its tock
  sinceSync, sinceValid, sinceCycled,
  behind               \* millis() minus the now of this pass

configVars == <<onLoan, modified>>
lqVars == <<lq, current, ticked>>
ages == <<sinceSync, sinceValid, sinceCycled>>
scanVars == <<scanIndex, multiplier, LockRFmode>>
bindVars == <<InBindingMode, BindingModeRequest>>
rateVars == <<currRate, nextRate>>
vars == <<pc, connectionState, rateVars, scanVars, bindVars,
          configVars, timer, listening, lqVars, ages, behind>>

LqMax == MinLqForChaos + 1
\* Beyond its timeout an age is only old.
SyncCap == RxLockTimeout + MaxPass + 1
ValidCap == Max({RxLockTimeout, Disconnect}) + MaxPass + 1
CycledCap == Slow * Max({CycleInterval[r] : r \in Rates}) + MaxPass + 1
Huge == SyncCap + CycledCap

LostPcs == {"configLost", "rateLost", "lockLost", "lostLost", "bindLost"}
Pcs == {"config", "rate", "lock", "cycle", "lost", "got", "bind"}
         \union LostPcs

TypeOK ==
  /\ pc \in Pcs
  /\ connectionState \in {"disconnected", "tentative", "connected", "noCrossfire"}
  /\ {currRate, nextRate, scanIndex} \subseteq Rates
  /\ multiplier \in {1, Slow \div 2, Slow}
  /\ {LockRFmode, InBindingMode, BindingModeRequest, onLoan,
      modified, timer, listening, current, ticked} \subseteq BOOLEAN
  /\ lq \in 0 .. LqMax
  /\ sinceSync \in 0 .. SyncCap /\ sinceValid \in 0 .. ValidCap
  /\ sinceCycled \in 0 .. CycledCap
  /\ behind \in 0 .. MaxPass

Init ==
  /\ pc = "config" /\ connectionState = "disconnected"
  /\ \E r \in Rates : currRate = r /\ nextRate = r /\ scanIndex = r
  /\ multiplier = Slow \div 2
  /\ LockRFmode = FALSE
  /\ InBindingMode = FALSE /\ BindingModeRequest = FALSE
  /\ onLoan \in BOOLEAN /\ modified = FALSE
  /\ timer = FALSE /\ listening = TRUE
  /\ lq = 0 /\ current = FALSE /\ ticked = FALSE
  /\ sinceSync = 0 /\ sinceValid = 0 /\ sinceCycled = 0
  /\ behind = 0

\* An unsigned now - then: huge when then was stamped after now was read.
Since(age) == IF age < behind THEN Huge ELSE age - behind

\* A variable set to now gets the age that now has.
AgeOfNow == behind

-------------------------------------------------------------------------------
\* SetRFLinkRate leaves the radio in standby.
SetRFLinkRate(rate) == currRate' = rate /\ nextRate' = rate

\* Mutant: the link quality survives.
LostConnectionBeginKeepingLq ==
  /\ connectionState' = "disconnected"
  /\ ticked' = FALSE /\ UNCHANGED <<lq, current>>

\* LostConnection up to the wait for the tock.
LostConnectionBegin ==
  /\ connectionState' = "disconnected"
  /\ lq' = 0 /\ current' = FALSE /\ ticked' = FALSE

\* The rest of it.
LostConnectionEnd(resumeRx) ==
  /\ UNCHANGED <<lq, current>> /\ ticked' = FALSE
  /\ IF InBindingMode
       THEN UNCHANGED <<timer, rateVars, listening>>
       ELSE timer' = FALSE /\ SetRFLinkRate(nextRate) /\ listening' = resumeRx

\* CheckConfigChangePending, at the top of a pass; hold: RxMavlink_HoldCommit.
\* A receiver that became inert does nothing else in the pass.
CheckConfigChangePending(hold) ==
  /\ pc = "config"
  /\ IF modified /\ ~InBindingMode /\ ~hold
       THEN LostConnectionBegin /\ pc' = "configLost"
       ELSE /\ pc' = IF connectionState = "noCrossfire" THEN "config" ELSE "rate"
            /\ UNCHANGED <<connectionState, lqVars>>
  /\ behind' = IF pc' = "config" THEN 0 ELSE behind
  /\ UNCHANGED <<rateVars, scanVars, bindVars, configVars, timer,
                 listening, ages>>

ConfigLost ==
  /\ pc = "configLost" /\ pc' = "rate"
  /\ LostConnectionEnd(TRUE)    \* RXnb follows the commit
  /\ modified' = FALSE
  /\ UNCHANGED <<connectionState, scanVars, bindVars, onLoan, ages, behind>>

\* A section of loop() that calls LostConnection when cond holds.
LoseWhen(cond, at, begun, next) ==
  /\ pc = at
  /\ IF cond THEN LostConnectionBegin /\ pc' = begun
             ELSE pc' = next /\ UNCHANGED <<connectionState, lqVars>>
  /\ UNCHANGED <<rateVars, scanVars, bindVars, configVars, timer,
                 listening, ages, behind>>

\* Its second half, after which the scan has a whole interval again if fresh.
Lose(at, next, fresh) ==
  /\ pc = at /\ pc' = next
  /\ LostConnectionEnd(TRUE)
  /\ IF fresh THEN sinceSync' = AgeOfNow /\ sinceCycled' = AgeOfNow
              ELSE UNCHANGED <<sinceSync, sinceCycled>>
  /\ UNCHANGED <<connectionState, scanVars, bindVars, configVars,
                 sinceValid, behind>>

RateChange == LoseWhen(connectionState # "disconnected" /\ currRate # nextRate,
                       "rate", "rateLost", "lock")
RateLost == Lose("rateLost", "lock", TRUE)

\* Mutant: asked of a connection that is established.
BadSyncOnceConnected ==
  LoseWhen(connectionState = "connected" /\ Since(sinceSync) > RxLockTimeout,
           "lock", "lockLost", "cycle")

BadSync == LoseWhen(connectionState = "tentative" /\ Since(sinceSync) > RxLockTimeout,
                    "lock", "lockLost", "cycle")
LockLost == Lose("lockLost", "cycle", TRUE)

\* The next supported rate, in a circle.
NextRateIndex(r) == IF r = Max(Rates) THEN Min(Rates)
                    ELSE Min({s \in Rates : s > r})

CycleRfMode ==
  /\ pc = "cycle" /\ pc' = "lost"
  /\ IF /\ connectionState # "connected" /\ ~InBindingMode /\ ~LockRFmode
        /\ Since(sinceCycled) > CycleInterval[currRate] * multiplier
       THEN /\ sinceCycled' = AgeOfNow /\ sinceSync' = AgeOfNow
            /\ SetRFLinkRate(scanIndex)
            /\ scanIndex' = NextRateIndex(scanIndex)
            /\ lq' = 0 /\ current' = FALSE /\ UNCHANGED ticked
            /\ listening' = TRUE
            /\ multiplier' = 1
       ELSE UNCHANGED <<sinceCycled, sinceSync, rateVars, scanIndex, lqVars,
                        listening, multiplier>>
  /\ UNCHANGED <<connectionState, LockRFmode, bindVars, configVars,
                 timer, sinceValid, behind>>

\* Signed, because the interrupt may have set LastValidPacket after now.
NoPacket == sinceValid >= behind /\ sinceValid - behind > Disconnect

NoPacketLost == LoseWhen(connectionState = "connected" /\ NoPacket,
                         "lost", "lostLost", "got")
LostLost == Lose("lostLost", "got", FALSE)

\* The offsets settle or they do not.
GotConnection ==
  /\ pc = "got" /\ pc' = "bind"
  /\ \/ /\ connectionState = "tentative" /\ lq > MinLqForChaos
        /\ LockRFmode' = LockOnFirst
        /\ connectionState' = "connected"
     \/ UNCHANGED <<LockRFmode, connectionState>>
  /\ UNCHANGED <<rateVars, scanIndex, multiplier, bindVars,
                 configVars, timer, listening, lqVars, ages, behind>>
-------------------------------------------------------------------------------
\* Mutant: the lock on the first connection's rate is kept.
ExitBindingModeLocked ==
  /\ pc = "bind" /\ InBindingMode /\ modified
  /\ pc' = "config" /\ behind' = 0
  /\ modified' = FALSE
  /\ scanIndex' = Min(Rates)
  /\ sinceCycled' \in 0 .. CycledCap
  /\ LostConnectionBegin
  /\ InBindingMode' = FALSE /\ listening' = FALSE
  /\ UNCHANGED <<rateVars, multiplier, LockRFmode,
                 BindingModeRequest, onLoan, timer, sinceSync,
                 sinceValid>>

\* ExitBindingMode: LostConnection does nothing to the radio here, and with
\* RFmodeLastCycled = 0 the age is the time since boot, whatever that is.
ExitBindingMode ==
  /\ pc = "bind" /\ InBindingMode /\ modified
  /\ pc' = "config" /\ behind' = 0
  /\ modified' = FALSE
  /\ scanIndex' = Min(Rates)
  /\ sinceCycled' \in 0 .. CycledCap
  /\ LockRFmode' = FALSE
  /\ LostConnectionBegin
  /\ InBindingMode' = FALSE /\ listening' = FALSE
  /\ UNCHANGED <<rateVars, multiplier, BindingModeRequest, onLoan, timer, sinceSync, sinceValid>>

\* EnterBindingMode, out of reach of a receiver whose binding is administered.
EnterBindingMode ==
  IF InBindingMode \/ Administered
    THEN UNCHANGED <<onLoan, modified, InBindingMode, rateVars, listening>>
    ELSE /\ onLoan' = FALSE /\ modified' = FALSE
         /\ InBindingMode' = TRUE
         /\ SetRFLinkRate(BindRate) /\ listening' = TRUE

\* updateBindingMode without an exit: a request that EnterBindingModeSafely
\* left behind is taken up, and the pass ends.
UpdateBindingMode ==
  /\ pc = "bind" /\ ~(InBindingMode /\ modified)
  /\ BindingModeRequest' = FALSE
  /\ IF BindingModeRequest /\ connectionState = "connected"
       THEN LostConnectionBegin /\ pc' = "bindLost" /\ UNCHANGED behind
       ELSE pc' = "config" /\ behind' = 0 /\ UNCHANGED <<connectionState, lqVars>>
  /\ IF BindingModeRequest /\ connectionState # "connected"
       THEN EnterBindingMode
       ELSE UNCHANGED <<InBindingMode, configVars, rateVars, listening>>
  /\ UNCHANGED <<scanVars, timer, ages>>

\* LostConnection(FALSE) and what follows it, the radio in standby.  A receiver
\* on loan gives the loan back and becomes inert.
BindLost ==
  /\ pc = "bindLost" /\ pc' = "config" /\ behind' = 0
  /\ timer' = FALSE /\ UNCHANGED <<lq, current>> /\ ticked' = FALSE
  /\ IF onLoan
       THEN connectionState' = "noCrossfire" /\ onLoan' = FALSE
            /\ SetRFLinkRate(nextRate) /\ listening' = FALSE
            /\ modified' = FALSE /\ UNCHANGED InBindingMode
       ELSE /\ UNCHANGED <<connectionState, onLoan>>
            /\ IF Administered
                 THEN SetRFLinkRate(nextRate) /\ listening' = FALSE
                      /\ modified' = FALSE /\ UNCHANGED InBindingMode
                 ELSE SetRFLinkRate(BindRate) /\ listening' = TRUE
                      /\ modified' = FALSE /\ InBindingMode' = TRUE
  /\ UNCHANGED <<scanVars, BindingModeRequest, ages>>

\* A button, a parameter or a command, all served in loop() before the
\* connection sections; and the receiver that is not bound, or was switched on
\* three times, in its first pass.
EnterBindingModeSafely ==
  /\ pc = "config" /\ ~InBindingMode
  /\ IF connectionState = "connected"
       THEN BindingModeRequest' = TRUE
            /\ UNCHANGED <<InBindingMode, configVars, rateVars, listening>>
       ELSE EnterBindingMode /\ UNCHANGED BindingModeRequest
  /\ UNCHANGED <<pc, connectionState, scanVars, timer, lqVars, ages, behind>>

\* A parameter changed over the serial port, served there as well.
ModifyConfig ==
  /\ pc = "config" /\ ~modified
  /\ modified' = TRUE
  /\ UNCHANGED <<pc, connectionState, rateVars, scanVars, bindVars,
                 onLoan, timer, listening, lqVars, ages, behind>>
-------------------------------------------------------------------------------
\* What ProcessRFPacket does for a valid packet of any type.  RXdoneISR drops
\* a second packet of a period, once connected.
Receive ==
  /\ listening
  /\ ~(current /\ connectionState = "connected")
  /\ sinceValid' = 0
  /\ current' = TRUE
  /\ lq' = IF current \/ lq = LqMax THEN lq ELSE lq + 1
  /\ multiplier' = Slow
  /\ UNCHANGED ticked

\* TentativeConnection and the timer.  SetRateInitialIdx modifies the
\* configuration unless the rate is the saved one.
TentativeConnection ==
  /\ connectionState' = "tentative"
  /\ sinceCycled' = 0
  /\ modified' \in {modified, TRUE}
  /\ timer' = TRUE

\* Nothing else of a packet with channels or data bears on the connection; nor
\* of a sync packet of another model or of an unsupported rate.
OtherPacket ==
  /\ ~InBindingMode
  /\ Receive
  /\ UNCHANGED <<pc, connectionState, rateVars, scanIndex, LockRFmode,
                 bindVars, configVars, timer, listening, sinceSync,
                 sinceCycled, behind>>

\* differs: in the nonce, the hop index or the model match.
SyncPacket(rate, differs) ==
  /\ ~InBindingMode
  /\ Receive
  /\ sinceSync' = 0
  /\ nextRate' = rate
  /\ IF connectionState = "disconnected" \/ differs
       THEN TentativeConnection
       ELSE UNCHANGED <<connectionState, sinceCycled, modified, timer>>
  /\ UNCHANGED <<pc, currRate, scanIndex, LockRFmode, bindVars,
                 onLoan, listening, behind>>

\* In binding mode only the packets of a transmitter that is binding have a
\* CRC that matches: they set the UID.
BindPacket ==
  /\ InBindingMode
  /\ Receive
  /\ modified' = TRUE
  /\ UNCHANGED <<pc, connectionState, rateVars, scanIndex, LockRFmode,
                 bindVars, onLoan, timer, listening,
                 sinceSync, sinceCycled, behind>>

\* HWtimerCallbackTick: LQCalc.inc, which may or may not drop an old period.
\* LostConnection waits for the next tock only, so there is one tick in it.
TimerTick ==
  /\ timer
  /\ pc \in LostPcs => ~ticked
  /\ ticked' = (pc \in LostPcs)
  /\ current' = FALSE
  /\ lq' \in {lq, lq - 1} \cap Nat
  /\ UNCHANGED <<pc, connectionState, rateVars, scanVars, bindVars,
                 configVars, timer, listening, ages, behind>>

Older(age, cap) == IF age = cap THEN age ELSE age + 1

ClockTick ==
  /\ behind < MaxPass
  /\ behind' = behind + 1
  /\ sinceSync' = Older(sinceSync, SyncCap)
  /\ sinceValid' = Older(sinceValid, ValidCap)
  /\ sinceCycled' = Older(sinceCycled, CycledCap)
  /\ UNCHANGED <<pc, connectionState, rateVars, scanVars, bindVars,
                 configVars, timer, listening, lqVars>>

-------------------------------------------------------------------------------
Loop ==
  \/ \E hold \in BOOLEAN : CheckConfigChangePending(hold)
  \/ ConfigLost
  \/ RateChange \/ RateLost
  \/ BadSync \/ LockLost
  \/ CycleRfMode
  \/ NoPacketLost \/ LostLost
  \/ GotConnection
  \/ ExitBindingMode \/ UpdateBindingMode \/ BindLost

Packet ==
  \/ OtherPacket
  \/ \E rate \in Rates, differs \in BOOLEAN : SyncPacket(rate, differs)
  \/ BindPacket

Next ==
  \/ Loop \/ Packet \/ TimerTick \/ ClockTick
  \/ EnterBindingModeSafely \/ ModifyConfig

Spec == Init /\ [][Next]_vars

\* loop() runs again and again, and so does the clock.
FairSpec == Spec /\ WF_vars(Loop) /\ SF_vars(ClockTick)
-------------------------------------------------------------------------------
\* Whoever is connected is clocked: a packet that comes in the middle of
\* LostConnection makes the receiver tentative and has its timer stopped again,
\* and no such receiver gets further.
ConnectedIsClocked == connectionState = "connected" => timer

\* The failsafe: at the end of a pass a connected receiver has heard something
\* within the longer of the two timeouts.
ConnectedHasHeard ==
  pc = "bind" /\ connectionState = "connected" =>
    sinceValid <= Max({RxLockTimeout, Disconnect}) + MaxPass

\* A connection is one: clocked, and heard of.
ConnectedIsReal == ConnectedIsClocked /\ ConnectedHasHeard

\* A transmitter that goes silent is noticed, whatever the receiver was at:
\* unless packets keep coming it is disconnected again and again.
SilenceIsNoticed ==
  \/ []<><<Packet>>_vars
  \/ []<>(connectionState \in {"disconnected", "noCrossfire"})

\* The radio is never left in standby for good, except in a receiver that is
\* inert after its loan.
ListensAgain == []<>(listening \/ connectionState = "noCrossfire")

\* TentativeConnection gives the lock some time: only a receiver whose last
\* sync packet is old gives up.  A packet that comes after this pass has read
\* the clock breaks it.
GivesTime == [][BadSync /\ pc' = "lockLost" => sinceSync >= RxLockTimeout]_vars
===============================================================================
