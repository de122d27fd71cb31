------------------------------ MODULE DynamicPower ------------------------------
(***************************************************************************)
(* The transmitter's output power: POWERMGNT's levels, ResetPower          *)
(* (tx_main.cpp) when parameters change, and DynamicPower_Update           *)
(* (dynpower.cpp), which the main loop runs on what the radio interrupt    *)
(* left in dynpower_updated, call by call, while the motion sensor and the *)
(* button set the power on the other core.  A build with one core has no   *)
(* sensor, and its button waits for the loop.  What link quality, RSSI and *)
(* SNR amount to is any choice of the update; any state that is not        *)
(* disconnected counts as connected.                                       *)
(***************************************************************************)
EXTENDS Naturals, FiniteSetsExt

CONSTANTS
  MinPower, MaxPower,   \* what the hardware can do, getMaxPower()
  PrimaryLimit,         \* 25 mW where EU_CE limits the primary (sub-GHz) band
  Configurable          \* the levels that may be configured, a file may ask for more

PowerAssumption ==
  /\ MinPower \in Nat /\ MaxPower \in Nat /\ MinPower <= MaxPower
  /\ PrimaryLimit \in Nat
  /\ Configurable \subseteq Nat /\ IsFiniteSet(Configurable)

VARIABLES
  power,               \* POWERMGNT::CurrentPower
  primaryBand,         \* FHSSusePrimaryFreqBand
  config,              \* the model's [power, dynamic]
  modified,            \* config.IsModified()
  ModelUpdatePending,
  isArmed,
  connectionState,
  dynpower_updated,    \* "none", "missed" or, for an SNR, "fresh"
  at,                  \* where DynamicPower_Update is, or "idle"
  taken,               \* snrScaled of DynamicPower_Update
  start, headroom,     \* startPowerLevel and powerHeadroom
  quiet,               \* the motion sensor has seen that nobody has armed
  meddled              \* the other core has set the power since the update began

configVars == <<config, modified, ModelUpdatePending>>
loopVars == <<primaryBand, configVars, isArmed, connectionState>>
updateVars == <<at, taken, start, headroom>>
vars == <<power, loopVars, dynpower_updated, updateVars, quiet, meddled>>

Clamp(p) == Max({MinPower, Min({p, MaxPower})})
Limited(p) ==
  IF primaryBand /\ p > PrimaryLimit THEN Max({MinPower, PrimaryLimit}) ELSE p

\* POWERMGNT::setPower, which returns early, and steps of one level.
Set(p) == IF Clamp(p) = power THEN power ELSE Limited(Clamp(p))
Up == IF power < MaxPower THEN Set(power + 1) ELSE power
Down == IF power > MinPower THEN Set(power - 1) ELSE power

\* What a boost sets, and the headroom below it.
Boost == Set(config.power)
Full == Limited(Clamp(config.power))
Headroom == IF config.power > power THEN config.power - power ELSE 0

Configs == [power : Configurable, dynamic : BOOLEAN]

\* POWERMGNT::init and the first ResetPower, which find the primary band; then
\* SetRFLinkRate.
Init ==
  /\ config \in Configs /\ primaryBand \in BOOLEAN
  /\ power \in MinPower .. MaxPower
  /\ power > PrimaryLimit => power = MinPower
  /\ modified = FALSE /\ ModelUpdatePending = FALSE
  /\ isArmed = FALSE /\ connectionState = "disconnected"
  /\ dynpower_updated = "none"
  /\ at = "idle" /\ taken = "none" /\ start = MinPower /\ headroom = 0
  /\ quiet = FALSE /\ meddled = FALSE

-------------------------------------------------------------------------------
(* The main loop, apart from DynamicPower_Update, and the interrupt.       *)
InLoop == at = "idle" /\ UNCHANGED <<dynpower_updated, updateVars, quiet, meddled>>

\* Mutant: the lowest power, armed or not.
ResetEvenArmed == IF config'.dynamic THEN Set(MinPower) ELSE Set(config'.power)

\* ResetPower: never down while armed.
Reset ==
  IF ~config'.dynamic THEN Set(config'.power)
  ELSE IF ~isArmed THEN Set(MinPower)
  ELSE IF power < config'.power THEN Set(config'.power)
  ELSE power

\* SetPowerMax: with nothing to commit it takes the power over at once.
SetPowerMax(p) ==
  /\ InLoop
  /\ config' = [config EXCEPT !.power = p]
  /\ modified' = (modified \/ p # config.power)
  /\ power' = IF modified' THEN power ELSE Reset
  /\ UNCHANGED <<primaryBand, ModelUpdatePending, isArmed, connectionState>>

SetDynamicPower(on) ==
  /\ InLoop /\ on # config.dynamic
  /\ config' = [config EXCEPT !.dynamic = on] /\ modified' = TRUE
  /\ UNCHANGED <<power, primaryBand, ModelUpdatePending, isArmed, connectionState>>

\* ModelUpdateReq: another model has a configuration of its own.
ModelUpdateReq(c) ==
  /\ InLoop /\ c # config
  /\ config' = c /\ ModelUpdatePending' = TRUE
  /\ UNCHANGED <<power, primaryBand, modified, isArmed, connectionState>>

\* SetRFLinkRate with another rate: perhaps of the other band.
SetRFLinkRate == primaryBand' \in BOOLEAN /\ connectionState' = "disconnected"

\* CheckConfigChangePending with the spam over, and ChangeRadioParams in it: the
\* power is set before the band is.
ChangeRadioParams ==
  /\ InLoop /\ (modified \/ ModelUpdatePending)
  /\ modified' = FALSE /\ ModelUpdatePending' = FALSE
  /\ UNCHANGED <<config, isArmed>>
  /\ power' = Reset
  /\ SetRFLinkRate \/ UNCHANGED <<primaryBand, connectionState>>

\* Binding has a rate of its own.
EnterExitBindingMode ==
  /\ InLoop /\ SetRFLinkRate
  /\ UNCHANGED <<power, configVars, isArmed>>

\* The handset's arming switch, and UpdateConnectDisconnectStatus.
Arm(armCmd) ==
  /\ InLoop /\ isArmed # armCmd /\ isArmed' = armCmd
  /\ UNCHANGED <<power, primaryBand, configVars, connectionState>>

SetConnectionState(new) ==
  /\ InLoop /\ connectionState # new /\ connectionState' = new
  /\ UNCHANGED <<power, primaryBand, configVars, isArmed>>

\* DynamicPower_TelemetryUpdate, in the interrupt, at any time.
TelemetryUpdate(what) ==
  /\ dynpower_updated # what /\ dynpower_updated' = what
  /\ UNCHANGED <<power, loopVars, updateVars, quiet, meddled>>

-------------------------------------------------------------------------------
(* DynamicPower_Update, one step for each call that sets the power.        *)
Goto(there) ==
  /\ at' = there
  /\ UNCHANGED <<loopVars, quiet>>
  /\ IF there = "idle"
       THEN taken' = "none" /\ start' = MinPower /\ headroom' = 0 /\ meddled' = FALSE
       ELSE UNCHANGED meddled

\* dynpower_updated is read, and cleared a step later.
TakeUpdate ==
  /\ at = "idle" /\ Goto("clear")
  /\ taken' = dynpower_updated
  /\ UNCHANGED <<power, dynpower_updated, start, headroom>>

\* A signal that overloads the receiver's LNA lowers the power: without dynamic power
\* that is all.
ClearUpdate ==
  /\ at = "clear" /\ dynpower_updated' = "none"
  /\ \/ Goto("judge") /\ UNCHANGED <<power, taken, start, headroom>>
     \/ /\ taken = "fresh" /\ power' = Down
        /\ IF config.dynamic
             THEN Goto("judge") /\ UNCHANGED <<taken, start, headroom>>
             ELSE Goto("idle")

\* The boost switch or a link quality that dropped; without dynamic power, low RSSI.
Boosts == config.dynamic \/ (taken = "fresh" /\ power < config.power)

\* Mutant: only once telemetry was due.
MustBoostWhenDue ==
  taken # "none" /\ config.dynamic /\ connectionState = "disconnected" /\ isArmed

MustBoost == config.dynamic /\ connectionState = "disconnected" /\ isArmed

Judge ==
  /\ at = "judge" /\ UNCHANGED dynpower_updated
  /\ \/ Boosts /\ power' = Boost /\ Goto("idle")
     \/ /\ ~MustBoost /\ UNCHANGED power
        /\ \/ Goto("idle")
           \/ /\ config.dynamic /\ taken = "missed" /\ isArmed /\ Headroom > 0
              /\ Goto("last") /\ UNCHANGED <<taken, start, headroom>>
           \/ /\ config.dynamic /\ taken = "fresh" /\ Goto("adjust")
              /\ start' = power /\ headroom' = Headroom /\ UNCHANGED taken

Adjusted(there) ==
  Goto(there) /\ UNCHANGED <<dynpower_updated, taken, start>>

\* One reading of RSSI or SNR: good enough to lower the power, so low as to raise it,
\* or neither.
AdjustOnce ==
  /\ at = "adjust" /\ Adjusted("check")
  /\ power' \in {power, Down} \cup (IF headroom > 0 THEN {Up} ELSE {})
  /\ UNCHANGED headroom

\* An SNR that is worth several levels raises the power one by one.
RaiseBySNR ==
  /\ at \in {"adjust", "raise"} /\ Adjusted("raise")
  /\ headroom > 0 /\ headroom' = headroom - 1
  /\ power' = Up

\* If all that did nothing and the link quality is low, one level more.
CheckDone ==
  /\ at \in {"raise", "check"} /\ UNCHANGED <<power, dynpower_updated>>
  /\ \/ Goto("idle")
     \/ /\ headroom > 0 /\ start = power
        /\ Goto("last") /\ UNCHANGED <<taken, start, headroom>>

RaiseLast ==
  /\ at = "last" /\ Goto("idle")
  /\ power' = Up
  /\ UNCHANGED dynpower_updated

UpdateStep == ClearUpdate \/ Judge \/ AdjustOnce \/ RaiseBySNR \/ CheckDone \/ RaiseLast

-------------------------------------------------------------------------------
(* Devices of core 0, one after the other.                                 *)
OtherCore == UNCHANGED <<loopVars, dynpower_updated, updateVars>>
Meddles == OtherCore /\ meddled' = (meddled \/ at # "idle")

\* devGsensor.cpp: whoever lies still gets the lowest power unless armed; between
\* the look at isArmed and setPower the main loop may run.
SeeQuiet ==
  /\ OtherCore
  /\ ~isArmed /\ ~quiet /\ quiet' = TRUE
  /\ UNCHANGED <<power, meddled>>

GoQuiet ==
  /\ Meddles
  /\ quiet /\ quiet' = FALSE
  /\ power' = Set(MinPower)

Move ==
  /\ Meddles
  /\ ~quiet /\ UNCHANGED quiet
  /\ power < config.power /\ power' = Boost

\* The button; armed, it works until its device is told so.
cyclePower ==
  /\ Meddles
  /\ ~quiet /\ UNCHANGED quiet
  /\ power' = IF power = MaxPower THEN Set(MinPower) ELSE Up

Next ==
  \/ \E p \in Configurable : SetPowerMax(p)
  \/ \E on \in BOOLEAN : SetDynamicPower(on) \/ Arm(on)
  \/ \E c \in Configs : ModelUpdateReq(c)
  \/ \E s \in {"disconnected", "connected"} : SetConnectionState(s)
  \/ \E what \in {"missed", "fresh"} : TelemetryUpdate(what)
  \/ ChangeRadioParams \/ EnterExitBindingMode
  \/ TakeUpdate \/ UpdateStep
  \/ SeeQuiet \/ GoQuiet \/ Move \/ cyclePower

Spec == Init /\ [][Next]_vars

\* The main loop runs on.
MainLoop == TakeUpdate \/ UpdateStep

FairSpec == Spec /\ WF_vars(MainLoop)

-------------------------------------------------------------------------------
\* In flight, whatever the telemetry, the parameters and the movement: power rises up
\* to the configured level and no further; dynamic power falls only in an update that
\* has heard telemetry, neither for want of it nor for a new configuration, but to the
\* level that a boost sets.  Not so if the pilot presses the button, if somebody arms
\* between the sensor's look and its setPower, or if a device of core 0 sets the power
\* in the middle of an update.
FliesAtItsPower ==
  [][isArmed /\ ~meddled /\ ~(cyclePower \/ GoQuiet) =>
       LET level == IF primaryBand' = primaryBand THEN Full' ELSE Full IN
       /\ power' > power => power' <= level
       /\ config.dynamic' /\ power' < power => taken = "fresh" \/ power' = level]_vars

\* An armed aircraft that stops answering is called at full power, whatever became
\* of the telemetry before.
Unheard == isArmed /\ config.dynamic /\ connectionState = "disconnected"
FullPowerUnheard == Unheard ~> (power >= Full \/ ~Unheard)

\* "When using SubHGz with CE, limit to a max of 25mW" (POWERMGNT.cpp, 183).
LimitedInPrimary == primaryBand => power <= Max({MinPower, PrimaryLimit})
===============================================================================
