--------------------------------- MODULE LqCalc --------------------------------
(***************************************************************************)
(* LQCALC.h: the link quality as a ring of N bits over words of WordBits,  *)
(* with a running total.  One operator per method.  The code has N = 100   *)
(* and 32 bits to a word.                                                  *)
(***************************************************************************)
EXTENDS Naturals

CONSTANTS N, WordBits

LqAssumption == N \in 1 .. 255 /\ WordBits \in Nat \ {0}

VARIABLES
  LQArray,    \* the words: the set of bits that are one
  index,      \* the current word
  bit,        \* the current bit, the one that LQmask has
  LQ,         \* the running total
  count       \* periods recorded, at most N

lqVars == <<LQArray, index, bit, LQ, count>>

Words == (N + WordBits - 1) \div WordBits

CurrentIsSet == bit \in LQArray[index]

Init ==
  /\ LQArray = [w \in 0 .. Words - 1 |-> {}]
  /\ index = 0 /\ bit = 0 /\ LQ = 0 /\ count = 1

Add ==
  /\ ~CurrentIsSet
  /\ LQArray' = [LQArray EXCEPT ![index] = @ \union {bit}]
  /\ LQ' = LQ + 1
  /\ UNCHANGED <<index, bit, count>>

\* The place after (w, b): the next bit, or the first of the next word.
Shifted(w, b) == IF b + 1 = WordBits THEN <<w + 1, 0>> ELSE <<w, b + 1>>

\* At bit N the ring starts again.
Wrapped(place) ==
  IF place = <<N \div WordBits, N % WordBits>> THEN <<0, 0>> ELSE place

Inc ==
  LET place == Wrapped(Shifted(index, bit)) IN
  /\ index' = place[1] /\ bit' = place[2]
  /\ LQ' = IF bit' \in LQArray[index'] THEN LQ - 1 ELSE LQ
  /\ LQArray' = [LQArray EXCEPT ![index'] = @ \ {bit'}]
  /\ count' = IF count < N THEN count + 1 ELSE count

\* The number of periods recorded survives a reset.
Reset ==
  /\ LQArray' = [w \in 0 .. Words - 1 |-> {}]
  /\ index' = 0 /\ bit' = 0 /\ LQ' = 0
  /\ UNCHANGED count

Reset100 ==
  /\ LQArray' = [w \in 0 .. Words - 1 |-> {}]
  /\ index' = 0 /\ bit' = 0 /\ LQ' = 0 /\ count' = 1

GetLQ == (LQ * 100) \div count

Next == Add \/ Inc \/ Reset \/ Reset100

Spec == Init /\ [][Next]_lqVars

-------------------------------------------------------------------------------
\* A percentage, whatever the mixture of resets that keep the count and those
\* that do not.
PercentOK == count \in 1 .. N /\ GetLQ \in 0 .. 100

\* The ring is a window over the last N periods, also when N is no multiple of
\* the size of a word; and what it shows is a percentage.
Position == index * WordBits + bit
BitAt(p) == (p % WordBits) \in LQArray[p \div WordBits]
Reference == INSTANCE LqWindow WITH
  window <- [k \in 0 .. N - 1 |-> BitAt((Position + N - k) % N)], quality <- LQ
ImplementsWindow == Reference!Spec /\ []PercentOK
===============================================================================
