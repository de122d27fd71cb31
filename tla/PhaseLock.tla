-------------------------------- MODULE PhaseLock ------------------------------
(***************************************************************************)
(* The receiver's timer follows the transmitter's.  PFD.h measures how far *)
(* the tock is from where the packets say it should be, updatePhaseLock    *)
(* filters that and shifts the timer's phase and frequency                 *)
(* (ESP32_hwTimer.cpp), and loop() takes settled filters as the sign of a  *)
(* good connection.  One step is one slot, from tock to tock; a pass of    *)
(* loop() takes less than a slot.  Times are the program's: microseconds,  *)
(* and ticks of the timer.                                                 *)
(***************************************************************************)
EXTENDS Integers

CONSTANTS
  Interval,       \* of the rate, in microseconds
  Slack,          \* from a packet to the tock: PACKET_TO_TOCK_SLACK or more
  Latency,        \* from a sync packet's time stamp to the start of the timer
  TicksPerUs,     \* HWTIMER_TICKS_PER_US
  MaxDrift,       \* of the two clocks, in ticks per slot
  Gaps,           \* how many slots in a row may bring no packet
  MaxGaps,        \* bound: so many times in one connection
  LqSpan,         \* slots of the link quality
  MinLq,          \* minLqForChaos()
  GoodSlots       \* ConsiderConnGoodMillis in slots

ASSUME PhaseLockAssumption ==
  /\ {Interval, TicksPerUs} \subseteq Nat \ {0}
  /\ Slack \in 1 .. Interval - 1 /\ Latency \in 0 .. Slack
  /\ {MaxDrift, MaxGaps, LqSpan, MinLq, GoodSlots} \subseteq Nat
  /\ Gaps \subseteq Nat \ {0}

VARIABLES
  connectionState,
  locked,         \* RXtimerState = tim_locked
  x,              \* ticks from a tock to the time that its packet names for it
  PhaseShift, FreqOffset,    \* of hwTimer, in ticks
  offset, offsetDx,          \* SmoothDataFP of LPF_Offset and LPF_OffsetDx
  needReset,      \* NeedReset of LPF_OffsetDx
  prevRaw,        \* PfdPrevRawOffset
  phase,          \* OtaNonce % 8
  inStep,         \* each packet comes in the slot of its nonce
  heard,          \* LQCalc.getLQRaw(), as far as MinLq + 1
  good,           \* slots since GotConnectionMillis, as far as GoodSlots
  missing, gaps,  \* no packet came in the last slot; gaps in this connection
  drift,          \* how much longer the transmitter's slot is than the receiver's
  leftOver        \* history: the timer started with a shift of the last connection

filterVars == <<offset, offsetDx, needReset, prevRaw>>
timerVars == <<x, PhaseShift, FreqOffset, phase, inStep>>
vars == <<connectionState, locked, timerVars, filterVars, heard, good, missing, gaps,
          drift, leftOver>>

Init ==
  /\ connectionState = "disconnected" /\ locked = FALSE
  /\ x = 0 /\ PhaseShift = 0 /\ FreqOffset = 0 /\ phase = 0 /\ inStep = TRUE
  /\ offset = 0 /\ offsetDx = 0 /\ needReset = TRUE /\ prevRaw = 0
  /\ heard = 0 /\ good = 0 /\ missing = FALSE /\ gaps = 0
  /\ drift \in -MaxDrift .. MaxDrift /\ leftOver = FALSE

-------------------------------------------------------------------------------
AtMost(most, v) == IF v > most THEN most ELSE v
Abs(v) == IF v < 0 THEN -v ELSE v
\* constrain() of the phase shift.
Constrain(v, most) == IF v < -most THEN -most ELSE AtMost(most, v)

FPShift == 5
\* LPF::update; the shifts to the right round down.
Update(fp, beta, data) == (fp * (2^beta - 1) + data * 2^FPShift) \div 2^beta
Value(fp) == fp \div 2^FPShift

Period == Interval * TicksPerUs
Early == Slack * TicksPerUs

\* Mutant: a shift is for every slot until there is another.
SlotsShifting(n, from, fo) ==
  /\ x' = from + n * (drift - FreqOffset - fo - PhaseShift)
  /\ inStep' = (x' \in Early - Period .. Early - 1)

\* hwTimer::callback, n times from tock to tick to tock, fo the frequency offset
\* of the way from tick to tock.  The receiver is out of step once a packet comes
\* after its tock, or before the tock before.
Slots(n, from, fo) ==
  /\ x' = from + n * (drift - FreqOffset - fo) - PhaseShift
  /\ inStep' = (x' \in Early - Period .. Early - 1)

\* The first tock comes at once, Latency after the packet.  TentativeConnection has
\* reset the phase detector: the packet is not compared with that tock.
Start ==
  /\ connectionState = "disconnected" /\ connectionState' = "tentative"
  /\ offset' = 0 /\ prevRaw' = 0
  /\ Slots(1, (Slack - Latency) * TicksPerUs, FreqOffset)
  /\ leftOver' = (PhaseShift # 0) /\ PhaseShift' = 0
  /\ phase' = 1 /\ heard' = 1
  /\ UNCHANGED <<locked, FreqOffset, offsetDx, needReset, good, missing, gaps, drift>>

\* The shift of the last tock stays in the timer: any, when it was out of step.
LostConnection ==
  /\ connectionState # "disconnected" /\ connectionState' = "disconnected"
  /\ locked' = FALSE
  /\ FreqOffset' = 0
  /\ offset' = 0 /\ offsetDx' = 0 /\ needReset' = FALSE /\ prevRaw' = 0
  /\ x' = 0 /\ phase' = 0 /\ inStep' = TRUE /\ heard' = 0 /\ good' = 0
  /\ missing' = FALSE /\ gaps' = 0
  /\ PhaseShift' \in IF inStep THEN {PhaseShift} ELSE {-(Period \div 4), 0, Period \div 4}
  /\ UNCHANGED <<drift, leftOver>>

\* loop(): the offset itself is tested without abs().
CanConnect ==
  /\ connectionState = "tentative"
  /\ Abs(Value(offsetDx)) <= 10 /\ Value(offset) < 100
  /\ heard > MinLq

GotConnection ==
  /\ CanConnect
  /\ connectionState' = "connected"
  /\ UNCHANGED <<locked, timerVars, filterVars, heard, good, missing, gaps, drift, leftOver>>

CanLock ==
  /\ connectionState = "connected" /\ ~locked
  /\ good = GoodSlots /\ Abs(Value(offsetDx)) <= 5

TimerLocked ==
  /\ CanLock /\ locked' = TRUE
  /\ UNCHANGED <<connectionState, timerVars, filterVars, heard, good, missing, gaps,
                 drift, leftOver>>

\* Out of step, what packets still come is left open: the connection is lost later.
Running == connectionState # "disconnected" /\ inStep /\ ~CanConnect /\ ~CanLock

Count(n) ==
  /\ phase' = (phase + n) % 8
  /\ good' = IF connectionState = "connected" THEN AtMost(GoodSlots, good + n) ELSE good

\* n slots whose packets are lost or not for the receiver: no result of the detector.
Missed(n) ==
  /\ Running
  /\ ~missing /\ missing' = TRUE
  /\ gaps < MaxGaps /\ gaps' = gaps + 1
  /\ Slots(n, x, FreqOffset) /\ PhaseShift' = 0
  /\ Count(n)
  /\ heard' = IF n >= LqSpan THEN 0 ELSE heard
  /\ UNCHANGED <<connectionState, locked, FreqOffset, filterVars, drift, leftOver>>

\* Mutant: the adjustment is not limited in its rate.
AdjustsFreqEach(p) == locked

\* "limit rate of freq offset adjustment"
AdjustsFreq(p) == locked /\ p = 0

Correction(o) == IF o > 0 THEN 1 ELSE IF o < 0 THEN -1 ELSE 0

\* updatePhaseLock
Packet ==
  /\ Running /\ Count(1)
  /\ LET RawOffset == x \div TicksPerUs
         Change == RawOffset - prevRaw
         Shift == IF connectionState = "connected" THEN Value(offset') \div 4
                  ELSE RawOffset \div 2
     IN /\ offset' = Update(offset, 2, RawOffset)
        /\ offsetDx' = IF needReset THEN Change * 2^FPShift ELSE Update(offsetDx, 4, Change)
        /\ prevRaw' = RawOffset /\ needReset' = FALSE
        /\ FreqOffset' = IF AdjustsFreq(phase') THEN FreqOffset + Correction(Value(offset'))
                         ELSE FreqOffset
        /\ PhaseShift' = Constrain(Shift * TicksPerUs, Period \div 4)
  /\ Slots(1, x, FreqOffset')
  /\ heard' = AtMost(MinLq + 1, heard + 1) /\ missing' = FALSE
  /\ UNCHANGED <<connectionState, locked, gaps, drift, leftOver>>

Next ==
  \/ Start \/ LostConnection
  \/ GotConnection \/ TimerLocked
  \/ Packet
  \/ \E n \in Gaps : Missed(n)

Spec == Init /\ [][Next]_vars

\* Packets go on to come, and loop() goes on.
FairSpec == Spec /\ WF_vars(Packet) /\ WF_vars(GotConnection) /\ WF_vars(TimerLocked)

-------------------------------------------------------------------------------
\* A locked receiver coasts through a gap without losing its slot; one that
\* has not locked loses it in a gap, or for a shift that the last connection left.
CoastsInStep == ~inStep => leftOver \/ (~locked /\ missing)

\* The dead zone of the correction: an offset of less than 4 us shifts nothing.
Near == Abs(x) <= 4 * TicksPerUs

\* A connection that goes on, in step, locks, and its tocks stay where the packets
\* say: phase and frequency come to rest together.
Locks ==
  <>[](connectionState # "disconnected" /\ inStep) => <>[](locked /\ Near)
===============================================================================
