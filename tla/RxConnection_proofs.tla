-------------------------- MODULE RxConnection_proofs --------------------------
(***************************************************************************)
(* Proofs about the receiver's connection state, for every set of rates     *)
(* and every timeout: a receiver that is connected is clocked, and it has   *)
(* heard a packet within its timeouts.                                      *)
(***************************************************************************)
EXTENDS RxConnection, FiniteSetTheorems, WellFoundedInduction, TLAPS

-------------------------------------------------------------------------------
(* The inductive invariant.                                                *)

\* No connection is made while LostConnection waits for the tock.
LosingIsNotConnected == pc \in LostPcs => connectionState # "connected"

\* How many packets could be counted by the end of this period.
Countable == IF current THEN lq ELSE lq + 1

\* LostConnection clears the count, and there is one tick in it at the most; and
\* once the timer is stopped no period ends: no more than two packets count.
LosingCounts == pc \in LostPcs => Countable <= IF ticked THEN 2 ELSE 1
UnclockedCounts == ~timer => Countable <= 2

\* A packet that counts is no older than the last time the scan was put off ...
LosingHasHeard == pc \in LostPcs /\ lq > 0 => sinceValid <= behind
SyncIsNoNewer == lq > 0 => sinceValid <= sinceSync \/ sinceSync = SyncCap

\* ... so that a tentative receiver which passed the check for bad sync has heard
\* one since, and a connected one which passed the check for silence as well.
TentativeHasHeard ==
  /\ pc \in {"cycle", "lost", "got"} /\ connectionState = "tentative" /\ lq > 0
  => sinceValid <= RxLockTimeout + behind
ConnectedWasHeard ==
  pc = "got" /\ connectionState = "connected" => sinceValid <= Disconnect + behind
BoundWasHeard ==
  pc = "bind" /\ connectionState = "connected" =>
    sinceValid <= Max({RxLockTimeout, Disconnect}) + behind

Counted ==
  /\ ConnectedIsClocked
  /\ LosingIsNotConnected
  /\ LosingCounts
  /\ UnclockedCounts

Heard ==
  /\ LosingHasHeard
  /\ SyncIsNoNewer
  /\ TentativeHasHeard
  /\ ConnectedWasHeard
  /\ BoundWasHeard

RxInv == TypeOK /\ Counted /\ Heard

-------------------------------------------------------------------------------
(* Least and greatest elements.                                            *)

\* Every set of natural numbers has a least element.
LEMMA LeastOf ==
  ASSUME NEW T, T \subseteq Nat, T # {}
  PROVE  \E m \in T : \A y \in T : m <= y
<1> DEFINE R == OpToRel(<, Nat)
<1>1. PICK m \in T : \A y \in T : <<y, m>> \notin R
  <2> HIDE DEF R
  <2>1. IsWellFoundedOn(R, Nat)
    BY NatLessThanWellFounded DEF R
  <2> QED BY <2>1, WFMin
<1>2. ASSUME NEW y \in T PROVE m <= y
  <2>1. R = {ss \in Nat \X Nat : ss[1] < ss[2]}
    BY Zenon DEF OpToRel
  <2>2. y < m => <<y, m>> \in R
    <3> HIDE DEF R
    <3> QED BY <2>1
  <2>3. ~(y < m)
    BY <1>1, <2>2
  <2> QED BY <2>3
<1> QED BY <1>2

\* A function on a finite set has a greatest value.
LEMMA GreatestValue ==
  ASSUME NEW S, IsFiniteSet(S), S # {}, NEW f \in [S -> Nat]
  PROVE  \E m \in S : \A y \in S : f[y] <= f[m]
<1> DEFINE HasGreatest(T) == \E m \in T : \A y \in T : f[y] <= f[m]
           Bad == {T \in SUBSET S : T # {} /\ ~HasGreatest(T)}
           Sizes == {Cardinality(T) : T \in Bad}
<1>1. SUFFICES ASSUME Bad # {} PROVE FALSE
  OBVIOUS
<1>2. \A T \in Bad : IsFiniteSet(T) /\ Cardinality(T) \in Nat
  BY FS_Subset, FS_CardinalityType
<1>3. PICK n \in Sizes : \A k \in Sizes : n <= k
  <2>1. Sizes # {} /\ Sizes \subseteq Nat
    BY <1>1, <1>2
  <2> HIDE DEF Sizes
  <2> QED BY <2>1, LeastOf
<1>4. PICK T \in Bad : Cardinality(T) = n
  OBVIOUS
<1>5. PICK x \in T : TRUE
  OBVIOUS
<1>6. CASE T \ {x} = {}
  <2>1. \A y \in T : y = x
    BY <1>6
  <2> QED BY <2>1
<1>7. CASE T \ {x} # {}
  <2>1. Cardinality(T \ {x}) = n - 1 /\ n \in Nat
    BY <1>2, <1>4, <1>5, FS_RemoveElement
  <2>2. T \ {x} \notin Bad
    <3>1. T \ {x} \in Bad => n - 1 \in Sizes
      BY <2>1
    <3>2. n - 1 \notin Sizes
      BY <2>1, <1>3
    <3> QED BY <3>1, <3>2
  <2>3. PICK m \in T \ {x} : \A y \in T \ {x} : f[y] <= f[m]
    BY <2>2, <1>7
  <2>4. m \in S /\ x \in S /\ f[m] \in Nat /\ f[x] \in Nat
    OBVIOUS
  <2>5. \A y \in T : f[y] \in Nat
    OBVIOUS
  <2>6. CASE f[x] <= f[m]
    <3>1. \A y \in T : f[y] <= f[m]
      BY <2>3, <2>6
    <3> QED BY <3>1
  <2>7. CASE f[m] <= f[x]
    <3>1. \A y \in T : f[y] <= f[x]
      BY <2>3, <2>4, <2>5, <2>7
    <3> QED BY <3>1, <1>5
  <2> QED BY <2>4, <2>6, <2>7
<1> QED BY <1>6, <1>7

\* The greater of two.
LEMMA MaxOfTwo ==
  ASSUME NEW a \in Nat, NEW b \in Nat
  PROVE  Max({a, b}) \in Nat /\ a <= Max({a, b}) /\ b <= Max({a, b})
<1>1. \E x \in {a, b} : \A y \in {a, b} : x >= y
  BY SMT
<1>2. Max({a, b}) \in {a, b} /\ \A y \in {a, b} : Max({a, b}) >= y
  BY <1>1, Zenon DEF Max
<1> QED BY <1>2

\* The least of a set.
LEMMA MinOf ==
  ASSUME NEW T, T \subseteq Nat, T # {}
  PROVE  Min(T) \in T
<1>1. \E x \in T : \A y \in T : x =< y
  BY LeastOf
<1> QED BY <1>1, Zenon DEF Min

\* The greatest of finitely many.
LEMMA MaxOfValues ==
  ASSUME NEW S, IsFiniteSet(S), S # {}, NEW f \in [S -> Nat]
  PROVE  /\ Max({f[x] : x \in S}) \in Nat
         /\ \A x \in S : f[x] <= Max({f[y] : y \in S})
<1> DEFINE V == {f[x] : x \in S}
<1>1. V \subseteq Nat
  OBVIOUS
<1>2. \E v \in V : \A y \in V : v >= y
  <2>1. PICK m \in S : \A y \in S : f[y] <= f[m]
    BY GreatestValue
  <2>2. f[m] \in V
    OBVIOUS
  <2>3. \A y \in V : f[m] >= y
    BY <2>1
  <2> QED BY <2>2, <2>3
<1> HIDE DEF V
<1>3. Max(V) \in V /\ \A y \in V : Max(V) >= y
  BY <1>2, Zenon DEF Max
<1>4. Max(V) \in Nat /\ \A y \in V : y <= Max(V)
  BY <1>1, <1>3
<1> QED BY <1>4 DEF V

-------------------------------------------------------------------------------
(* The constants and the type invariant.                                   *)

\* The caps are beyond what they cap, and the scan stays among the rates.
LEMMA RxFacts ==
  /\ Rates \subseteq Nat /\ BindRate \in Rates /\ Min(Rates) \in Rates
  /\ \A r \in Rates : NextRateIndex(r) \in Rates
  /\ RxLockTimeout \in Nat /\ Disconnect \in Nat /\ MaxPass \in Nat
  /\ MinLqForChaos \in Nat /\ MinLqForChaos >= 2 /\ LqMax = MinLqForChaos + 1
  /\ Max({RxLockTimeout, Disconnect}) \in Nat
  /\ RxLockTimeout <= Max({RxLockTimeout, Disconnect})
  /\ Disconnect <= Max({RxLockTimeout, Disconnect})
  /\ SyncCap \in Nat /\ SyncCap > RxLockTimeout + MaxPass
  /\ ValidCap \in Nat /\ ValidCap > MaxPass
  /\ CycledCap \in Nat /\ CycledCap > MaxPass
  /\ Huge \in Nat /\ Huge > RxLockTimeout
<1>1. /\ Rates \subseteq Nat /\ IsFiniteSet(Rates) /\ Rates # {} /\ BindRate \in Rates
      /\ CycleInterval \in [Rates -> Nat]
  BY RxConnectionAssumption DEF RxConnectionAssumption
<1>2. /\ RxLockTimeout \in Nat /\ Disconnect \in Nat /\ MaxPass \in Nat
      /\ Slow \in Nat /\ MinLqForChaos \in Nat /\ MinLqForChaos >= 2
  BY RxConnectionAssumption DEF RxConnectionAssumption
<1>3. Min(Rates) \in Rates
  BY <1>1, MinOf
<1>4. ASSUME NEW r \in Rates PROVE NextRateIndex(r) \in Rates
  <2>1. CASE r = Max(Rates)
    BY <1>3, <2>1 DEF NextRateIndex
  <2>2. CASE r # Max(Rates)
    <3> DEFINE id == [x \in Rates |-> x]
               Above == {s \in Rates : s > r}
    <3>1. id \in [Rates -> Nat]
      BY <1>1
    <3>2. PICK m \in Rates : \A y \in Rates : id[y] <= id[m]
      BY <1>1, <3>1, GreatestValue
    <3>3. \E x \in Rates : \A y \in Rates : x >= y
      BY <1>1, <3>2
    <3>4. Max(Rates) \in Rates /\ \A y \in Rates : Max(Rates) >= y
      BY <3>3, Zenon DEF Max
    <3>5. \A t \in Rates : t >= r /\ t # r => t \in Above
      BY <1>1
    <3>6. Min(Above) \in Above
      <4>1. Above \subseteq Nat /\ Max(Rates) \in Above
        BY <1>1, <2>2, <3>4, <3>5
      <4> HIDE DEF Above
      <4>2. Above # {}
        BY <4>1
      <4> QED BY <4>1, <4>2, MinOf
    <3> QED BY <2>2, <3>6 DEF NextRateIndex
  <2> QED BY <2>1, <2>2
<1>5. /\ SyncCap \in Nat /\ SyncCap > RxLockTimeout + MaxPass
      /\ LqMax = MinLqForChaos + 1
  BY <1>2 DEF SyncCap, LqMax
<1>6. ValidCap \in Nat /\ ValidCap > MaxPass
  <2>1. Max({RxLockTimeout, Disconnect}) \in Nat
    BY <1>2, MaxOfTwo
  <2> QED BY <1>2, <2>1 DEF ValidCap
<1>7. CycledCap \in Nat /\ CycledCap > MaxPass
  <2> DEFINE longest == Max({CycleInterval[r] : r \in Rates})
  <2>1. longest \in Nat
    BY <1>1, MaxOfValues
  <2> HIDE DEF longest
  <2>2. Slow * longest \in Nat
    BY <1>2, <2>1, SMT
  <2>3. CycledCap = Slow * longest + MaxPass + 1
    BY DEF CycledCap, longest
  <2> QED BY <1>2, <2>2, <2>3
<1>8. Huge \in Nat /\ Huge > RxLockTimeout
  BY <1>2, <1>5, <1>7 DEF Huge
<1>9. /\ Max({RxLockTimeout, Disconnect}) \in Nat
      /\ RxLockTimeout <= Max({RxLockTimeout, Disconnect})
      /\ Disconnect <= Max({RxLockTimeout, Disconnect})
  BY <1>2, MaxOfTwo
<1> QED BY <1>1, <1>2, <1>3, <1>4, <1>5, <1>6, <1>7, <1>8, <1>9

\* Locking is an option.
LEMMA LockTyped == LockOnFirst \in BOOLEAN
BY RxConnectionAssumption DEF RxConnectionAssumption

\* The type invariant in two parts: the flags, and what is not a flag.
Flags ==
  /\ LockRFmode \in BOOLEAN /\ InBindingMode \in BOOLEAN
  /\ BindingModeRequest \in BOOLEAN /\ onLoan \in BOOLEAN /\ modified \in BOOLEAN
  /\ timer \in BOOLEAN /\ listening \in BOOLEAN
  /\ current \in BOOLEAN /\ ticked \in BOOLEAN

Others ==
  /\ pc \in Pcs
  /\ connectionState \in {"disconnected", "tentative", "connected", "noCrossfire"}
  /\ currRate \in Rates /\ nextRate \in Rates /\ scanIndex \in Rates
  /\ multiplier \in {1, Slow \div 2, Slow}
  /\ lq \in 0 .. LqMax
  /\ sinceSync \in 0 .. SyncCap /\ sinceValid \in 0 .. ValidCap
  /\ sinceCycled \in 0 .. CycledCap
  /\ behind \in 0 .. MaxPass

\* The type invariant is the two together.
LEMMA TypeParts == TypeOK <=> Flags /\ Others
BY DEF TypeOK, Flags, Others

\* No action makes a flag anything but a flag.
LEMMA FlagsKept ==
  ASSUME Flags, Next
  PROVE  Flags'
<1> USE DEF Flags, configVars, lqVars, ages,
        scanVars, bindVars, rateVars
<1>1. ASSUME NEW hold \in BOOLEAN, CheckConfigChangePending(hold)
     PROVE Flags'
  BY <1>1, Zenon DEF CheckConfigChangePending, LostConnectionBegin
<1>2. CASE ConfigLost
  BY <1>2, Zenon DEF ConfigLost, LostConnectionEnd, SetRFLinkRate
<1>3. CASE RateChange
  BY <1>3, Zenon DEF RateChange, LoseWhen, LostConnectionBegin
<1>4. CASE RateLost
  BY <1>4, Zenon DEF RateLost, Lose, LostConnectionEnd, SetRFLinkRate, AgeOfNow
<1>5. CASE BadSync
  BY <1>5, Zenon DEF BadSync, LoseWhen, LostConnectionBegin
<1>6. CASE LockLost
  BY <1>6, Zenon DEF LockLost, Lose, LostConnectionEnd, SetRFLinkRate, AgeOfNow
<1>7. CASE CycleRfMode
  BY <1>7, Zenon DEF CycleRfMode, SetRFLinkRate, AgeOfNow
<1>8. CASE NoPacketLost
  BY <1>8, Zenon DEF NoPacketLost, LoseWhen, LostConnectionBegin
<1>9. CASE LostLost
  BY <1>9, Zenon DEF LostLost, Lose, LostConnectionEnd, SetRFLinkRate, AgeOfNow
<1>10. CASE GotConnection
  BY <1>10, LockTyped, Zenon DEF GotConnection
<1>11. CASE ExitBindingMode
  BY <1>11, Zenon DEF ExitBindingMode, LostConnectionBegin
<1>12. CASE UpdateBindingMode
  BY <1>12, Zenon
  DEF UpdateBindingMode, LostConnectionBegin, EnterBindingMode, SetRFLinkRate
<1>13. CASE BindLost
  BY <1>13, Zenon DEF BindLost, SetRFLinkRate
<1>14. CASE OtherPacket
  BY <1>14, Zenon DEF OtherPacket, Receive
<1>15. ASSUME NEW rate \in Rates, NEW differs \in BOOLEAN, SyncPacket(rate, differs)
     PROVE Flags'
  BY <1>15, Zenon DEF SyncPacket, Receive, TentativeConnection
<1>16. CASE BindPacket
  BY <1>16, Zenon DEF BindPacket, Receive
<1>17. CASE TimerTick
  <2>1. (pc \in LostPcs) \in BOOLEAN
    OBVIOUS
  <2>2. ticked' \in BOOLEAN
    BY <1>17, <2>1, Zenon DEF TimerTick
  <2> QED BY <1>17, <2>2, Zenon DEF TimerTick
<1>18. CASE ClockTick
  BY <1>18, Zenon DEF ClockTick, Older
<1>19. CASE EnterBindingModeSafely
  BY <1>19, Zenon DEF EnterBindingModeSafely, EnterBindingMode, SetRFLinkRate
<1>20. CASE ModifyConfig
  BY <1>20, Zenon DEF ModifyConfig
<1> QED BY <1>1, <1>2, <1>3, <1>4, <1>5, <1>6, <1>7, <1>8, <1>9, <1>10, <1>11,
         <1>12, <1>13, <1>14, <1>15, <1>16, <1>17, <1>18, <1>19, <1>20
         DEF Next, Loop, Packet

\* Rates, counts and ages stay in their ranges.
LEMMA OthersKept ==
  ASSUME Others, Next
  PROVE  Others'
<1> USE RxFacts DEF Others, Pcs, LostPcs, configVars, lqVars, ages,
        scanVars, bindVars, rateVars
<1>1. ASSUME NEW hold \in BOOLEAN, CheckConfigChangePending(hold)
     PROVE Others'
  BY <1>1 DEF CheckConfigChangePending, LostConnectionBegin
<1>2. CASE ConfigLost
  BY <1>2 DEF ConfigLost, LostConnectionEnd, SetRFLinkRate
<1>3. CASE RateChange
  BY <1>3 DEF RateChange, LoseWhen, LostConnectionBegin
<1>4. CASE RateLost
  BY <1>4 DEF RateLost, Lose, LostConnectionEnd, SetRFLinkRate, AgeOfNow
<1>5. CASE BadSync
  BY <1>5 DEF BadSync, LoseWhen, LostConnectionBegin
<1>6. CASE LockLost
  BY <1>6 DEF LockLost, Lose, LostConnectionEnd, SetRFLinkRate, AgeOfNow
<1>7. CASE CycleRfMode
  BY <1>7 DEF CycleRfMode, SetRFLinkRate, AgeOfNow
<1>8. CASE NoPacketLost
  BY <1>8 DEF NoPacketLost, LoseWhen, LostConnectionBegin
<1>9. CASE LostLost
  BY <1>9 DEF LostLost, Lose, LostConnectionEnd, SetRFLinkRate, AgeOfNow
<1>10. CASE GotConnection
  BY <1>10 DEF GotConnection
<1>11. CASE ExitBindingMode
  BY <1>11 DEF ExitBindingMode, LostConnectionBegin
<1>12. CASE UpdateBindingMode
  BY <1>12 DEF UpdateBindingMode, LostConnectionBegin, EnterBindingMode, SetRFLinkRate
<1>13. CASE BindLost
  BY <1>13 DEF BindLost, SetRFLinkRate
<1>14. CASE OtherPacket
  BY <1>14 DEF OtherPacket, Receive
<1>15. ASSUME NEW rate \in Rates, NEW differs \in BOOLEAN, SyncPacket(rate, differs)
     PROVE Others'
  <2>1. /\ connectionState' \in {connectionState, "tentative"}
        /\ sinceCycled' \in {0, sinceCycled}
    BY <1>15, Zenon DEF SyncPacket, TentativeConnection
  <2> QED BY <1>15, <2>1 DEF SyncPacket, Receive
<1>16. CASE BindPacket
  BY <1>16 DEF BindPacket, Receive
<1>17. CASE TimerTick
  BY <1>17 DEF TimerTick
<1>18. CASE ClockTick
  BY <1>18 DEF ClockTick, Older
<1>19. CASE EnterBindingModeSafely
  BY <1>19 DEF EnterBindingModeSafely, EnterBindingMode, SetRFLinkRate
<1>20. CASE ModifyConfig
  BY <1>20 DEF ModifyConfig
<1> QED BY <1>1, <1>2, <1>3, <1>4, <1>5, <1>6, <1>7, <1>8, <1>9, <1>10, <1>11,
         <1>12, <1>13, <1>14, <1>15, <1>16, <1>17, <1>18, <1>19, <1>20
         DEF Next, Loop, Packet

\* The count of packets and the timer.
LEMMA CountedKept ==
  ASSUME Flags, Others, Counted, Next
  PROVE  Counted'
<1> USE RxFacts DEF Flags, Others, Pcs, LostPcs, configVars, lqVars, ages,
        scanVars, bindVars, rateVars,
        Counted, ConnectedIsClocked, LosingIsNotConnected, LosingCounts, UnclockedCounts,
        Countable
<1>1. ASSUME NEW hold \in BOOLEAN, CheckConfigChangePending(hold)
     PROVE Counted'
  BY <1>1 DEF CheckConfigChangePending, LostConnectionBegin
<1>2. CASE ConfigLost
  BY <1>2 DEF ConfigLost, LostConnectionEnd, SetRFLinkRate
<1>3. CASE RateChange
  BY <1>3 DEF RateChange, LoseWhen, LostConnectionBegin
<1>4. CASE RateLost
  BY <1>4 DEF RateLost, Lose, LostConnectionEnd, SetRFLinkRate, AgeOfNow
<1>5. CASE BadSync
  BY <1>5 DEF BadSync, LoseWhen, LostConnectionBegin
<1>6. CASE LockLost
  BY <1>6 DEF LockLost, Lose, LostConnectionEnd, SetRFLinkRate, AgeOfNow
<1>7. CASE CycleRfMode
  BY <1>7 DEF CycleRfMode, SetRFLinkRate, AgeOfNow
<1>8. CASE NoPacketLost
  BY <1>8 DEF NoPacketLost, LoseWhen, LostConnectionBegin
<1>9. CASE LostLost
  BY <1>9 DEF LostLost, Lose, LostConnectionEnd, SetRFLinkRate, AgeOfNow
<1>10. CASE GotConnection
  BY <1>10 DEF GotConnection
<1>11. CASE ExitBindingMode
  BY <1>11 DEF ExitBindingMode, LostConnectionBegin
<1>12. CASE UpdateBindingMode
  BY <1>12 DEF UpdateBindingMode, LostConnectionBegin, EnterBindingMode, SetRFLinkRate
<1>13. CASE BindLost
  BY <1>13 DEF BindLost, SetRFLinkRate
<1>14. CASE OtherPacket
  BY <1>14 DEF OtherPacket, Receive
<1>15. ASSUME NEW rate \in Rates, NEW differs \in BOOLEAN, SyncPacket(rate, differs)
     PROVE Counted'
  <2>1. CASE connectionState = "disconnected" \/ differs
    <3>1. connectionState' = "tentative" /\ timer' = TRUE
      BY <1>15, <2>1, Zenon DEF SyncPacket, TentativeConnection
    <3> QED BY <1>15, <3>1 DEF SyncPacket, Receive
  <2>2. CASE ~(connectionState = "disconnected" \/ differs)
    <3>1. connectionState' = connectionState /\ timer' = timer
      BY <1>15, <2>2, Zenon DEF SyncPacket, TentativeConnection
    <3> QED BY <1>15, <3>1 DEF SyncPacket, Receive
  <2> QED BY <2>1, <2>2
<1>16. CASE BindPacket
  BY <1>16 DEF BindPacket, Receive
<1>17. CASE TimerTick
  <2>1. lq' \in Nat /\ lq' <= lq /\ current' = FALSE /\ timer /\ timer' = timer
    BY <1>17 DEF TimerTick
  <2>2. pc' = pc /\ connectionState' = connectionState
    BY <1>17 DEF TimerTick
  <2>3. CASE pc \in LostPcs
    <3>1. ~ticked /\ ticked' = TRUE
      BY <1>17, <2>3, Zenon DEF TimerTick
    <3>2. Countable <= 1
      BY <2>3, <3>1, Zenon DEF LosingCounts
    <3>3. lq <= 1 /\ Countable' <= 2
      <4>1. lq <= 1
        BY <3>2
      <4>2. Countable' = lq' + 1
        BY <2>1, Zenon
      <4>3. lq' + 1 <= 2
        <5>1. \A x \in Nat : x <= 1 => x + 1 <= 2
          OBVIOUS
        <5>2. lq' \in Nat /\ lq' <= 1
          BY <2>1, <4>1
        <5> QED BY <5>1, <5>2, Zenon
      <4> QED BY <4>1, <4>2, <4>3, Zenon
    <3>4. LosingCounts'
      BY <3>1, <3>3, Zenon
    <3>5. ConnectedIsClocked' /\ LosingIsNotConnected' /\ UnclockedCounts'
      BY <2>1, <2>2, <2>3
    <3> QED BY <3>4, <3>5
  <2>4. CASE pc \notin LostPcs
    BY <2>1, <2>2, <2>4
  <2> QED BY <2>3, <2>4
<1>18. CASE ClockTick
  BY <1>18 DEF ClockTick, Older
<1>19. CASE EnterBindingModeSafely
  BY <1>19 DEF EnterBindingModeSafely, EnterBindingMode, SetRFLinkRate
<1>20. CASE ModifyConfig
  BY <1>20 DEF ModifyConfig
<1> QED BY <1>1, <1>2, <1>3, <1>4, <1>5, <1>6, <1>7, <1>8, <1>9, <1>10, <1>11,
         <1>12, <1>13, <1>14, <1>15, <1>16, <1>17, <1>18, <1>19, <1>20
         DEF Next, Loop, Packet

\* Whoever hears a packet now has heard one in time.
LEMMA JustHeard ==
  ASSUME Others', sinceValid' = 0
  PROVE  Heard'
<1>1. /\ sinceSync' \in Nat /\ behind' \in Nat
  BY DEF Others
<1>2. LosingHasHeard' /\ SyncIsNoNewer'
  BY <1>1 DEF LosingHasHeard, SyncIsNoNewer
<1>3. TentativeHasHeard' /\ ConnectedWasHeard' /\ BoundWasHeard'
  <2>1. \A b \in Nat : /\ 0 <= RxLockTimeout + b /\ 0 <= Disconnect + b
                      /\ 0 <= Max({RxLockTimeout, Disconnect}) + b
    BY RxFacts
  <2> QED BY <1>1, <2>1, Zenon DEF TentativeHasHeard, ConnectedWasHeard, BoundWasHeard
<1> QED BY <1>2, <1>3 DEF Heard

\* What has been heard, and when.
LEMMA HeardKept ==
  ASSUME Flags, Others, Counted, Heard, Next
  PROVE  Heard'
<1> USE RxFacts DEF Flags, Others, Pcs, LostPcs, configVars, lqVars, ages,
        scanVars, bindVars, rateVars,
        Counted, LosingIsNotConnected, Heard, LosingHasHeard, SyncIsNoNewer,
        TentativeHasHeard, ConnectedWasHeard, BoundWasHeard
<1>1. ASSUME NEW hold \in BOOLEAN, CheckConfigChangePending(hold)
     PROVE Heard'
  BY <1>1 DEF CheckConfigChangePending, LostConnectionBegin
<1>2. CASE ConfigLost
  BY <1>2 DEF ConfigLost, LostConnectionEnd, SetRFLinkRate
<1>3. CASE RateChange
  BY <1>3 DEF RateChange, LoseWhen, LostConnectionBegin
<1>4. CASE RateLost
  BY <1>4 DEF RateLost, Lose, LostConnectionEnd, SetRFLinkRate, AgeOfNow
<1>5. CASE BadSync
  BY <1>5 DEF BadSync, LoseWhen, LostConnectionBegin, Since
<1>6. CASE LockLost
  BY <1>6 DEF LockLost, Lose, LostConnectionEnd, SetRFLinkRate, AgeOfNow
<1>7. CASE CycleRfMode
  BY <1>7 DEF CycleRfMode, SetRFLinkRate, AgeOfNow
<1>8. CASE NoPacketLost
  BY <1>8 DEF NoPacketLost, LoseWhen, LostConnectionBegin, NoPacket
<1>9. CASE LostLost
  BY <1>9 DEF LostLost, Lose, LostConnectionEnd, SetRFLinkRate, AgeOfNow
<1>10. CASE GotConnection
  BY <1>10 DEF GotConnection
<1>11. CASE ExitBindingMode
  BY <1>11 DEF ExitBindingMode, LostConnectionBegin
<1>12. CASE UpdateBindingMode
  BY <1>12 DEF UpdateBindingMode, LostConnectionBegin, EnterBindingMode, SetRFLinkRate
<1>13. CASE BindLost
  BY <1>13 DEF BindLost, SetRFLinkRate
<1>14. CASE OtherPacket
  BY <1>14, OthersKept, JustHeard DEF OtherPacket, Receive
<1>15. ASSUME NEW rate \in Rates, NEW differs \in BOOLEAN, SyncPacket(rate, differs)
     PROVE Heard'
  BY <1>15, OthersKept, JustHeard DEF SyncPacket, Receive
<1>16. CASE BindPacket
  BY <1>16, OthersKept, JustHeard DEF BindPacket, Receive
<1>17. CASE TimerTick
  BY <1>17 DEF TimerTick
<1>18. CASE ClockTick
  <2>1. /\ behind' = behind + 1 /\ sinceValid' <= sinceValid + 1 /\ sinceValid' \in Nat
        /\ sinceSync' = IF sinceSync = SyncCap THEN SyncCap ELSE sinceSync + 1
    BY <1>18 DEF ClockTick, Older
  <2>2. pc' = pc /\ connectionState' = connectionState /\ lq' = lq
    BY <1>18 DEF ClockTick
  <2>3. LosingHasHeard'
    BY <2>1, <2>2
  <2>4. SyncIsNoNewer'
    BY <2>1, <2>2
  <2>5. TentativeHasHeard'
    BY <2>1, <2>2
  <2>6. ConnectedWasHeard'
    BY <2>1, <2>2
  <2>7. BoundWasHeard'
    BY <2>1, <2>2
  <2> QED BY <2>3, <2>4, <2>5, <2>6, <2>7
<1>19. CASE EnterBindingModeSafely
  BY <1>19 DEF EnterBindingModeSafely, EnterBindingMode, SetRFLinkRate
<1>20. CASE ModifyConfig
  BY <1>20 DEF ModifyConfig
<1> QED BY <1>1, <1>2, <1>3, <1>4, <1>5, <1>6, <1>7, <1>8, <1>9, <1>10, <1>11,
         <1>12, <1>13, <1>14, <1>15, <1>16, <1>17, <1>18, <1>19, <1>20
         DEF Next, Loop, Packet

-------------------------------------------------------------------------------
\* A receiver that starts is disconnected and its timer is stopped.
LEMMA InitInv ==
  ASSUME Init
  PROVE  RxInv
<1>1. Flags
  BY Zenon DEF Init, Flags
<1>2. Others
  <2>1. currRate \in Rates /\ nextRate \in Rates /\ scanIndex \in Rates
    BY DEF Init
  <2> QED BY <2>1, RxFacts DEF Init, Others, Pcs
<1>3. pc = "config" /\ connectionState = "disconnected" /\ lq = 0
  BY DEF Init
<1>4. Counted
  BY <1>3 DEF Counted, ConnectedIsClocked, LosingIsNotConnected, LosingCounts,
              UnclockedCounts, Countable, LostPcs
<1>5. Heard
  BY <1>3 DEF Heard, LosingHasHeard, SyncIsNoNewer, TentativeHasHeard,
              ConnectedWasHeard, BoundWasHeard
<1> QED BY <1>1, <1>2, <1>4, <1>5, TypeParts DEF RxInv

\* The inductive step, with the steps that change nothing.
LEMMA StepInv ==
  ASSUME RxInv, [Next]_vars
  PROVE  RxInv'
<1>1. Flags /\ Others /\ Counted /\ Heard
  BY TypeParts DEF RxInv
<1>2. CASE Next
  <2>1. TypeOK' <=> Flags' /\ Others'
    BY DEF TypeOK, Flags, Others
  <2> QED BY <1>1, <1>2, <2>1, FlagsKept, OthersKept, CountedKept, HeardKept DEF RxInv
<1>3. CASE UNCHANGED vars
  <2> USE <1>3 DEF vars, configVars, lqVars, ages, scanVars, bindVars, rateVars
  <2>1. TypeOK'
    BY <1>1, TypeParts DEF RxInv, TypeOK
  <2>2. Counted'
    BY <1>1 DEF Counted, ConnectedIsClocked, LosingIsNotConnected, LosingCounts,
                UnclockedCounts, Countable
  <2>3. Heard'
    BY <1>1 DEF Heard, LosingHasHeard, SyncIsNoNewer, TentativeHasHeard,
                ConnectedWasHeard, BoundWasHeard
  <2> QED BY <2>1, <2>2, <2>3 DEF RxInv
<1> QED BY <1>2, <1>3

-------------------------------------------------------------------------------
\* The inductive invariant holds in every behaviour.
THEOREM RxInvariant == Spec => []RxInv
<1>1. Init => RxInv
  BY InitInv
<1>2. RxInv /\ [Next]_vars => RxInv'
  BY StepInv
<1> QED BY <1>1, <1>2, PTL DEF Spec

\* Every variable of the receiver stays within its type.
THEOREM RxTypeCorrect == Spec => []TypeOK
<1>1. RxInv => TypeOK
  BY DEF RxInv
<1> QED BY <1>1, RxInvariant, PTL

\* A connected receiver is clocked, and at the end of each pass of loop() it has
\* heard a packet within the longer of its timeouts.
THEOREM ConnectionIsReal == Spec => []ConnectedIsReal
<1>1. RxInv => ConnectedIsReal
  <2> SUFFICES ASSUME RxInv PROVE ConnectedIsReal
    OBVIOUS
  <2>1. ConnectedIsClocked
    BY DEF RxInv, Counted
  <2>2. ASSUME pc = "bind", connectionState = "connected"
        PROVE  sinceValid <= Max({RxLockTimeout, Disconnect}) + MaxPass
    <3>1. sinceValid <= Max({RxLockTimeout, Disconnect}) + behind
      BY <2>2 DEF RxInv, Heard, BoundWasHeard
    <3>2. sinceValid \in Nat /\ behind \in Nat /\ behind <= MaxPass
      BY RxFacts, TypeParts DEF RxInv, Others
    <3> HIDE DEF Max
    <3> QED BY <3>1, <3>2, RxFacts
  <2> QED BY <2>1, <2>2 DEF ConnectedIsReal, ConnectedHasHeard
<1> QED BY <1>1, RxInvariant, PTL
================================================================================
