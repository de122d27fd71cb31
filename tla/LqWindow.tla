-------------------------------- MODULE LqWindow -------------------------------
(***************************************************************************)
(* What a link-quality figure means: of the last N periods, the number in  *)
(* which something was received (LQCALC.h).                                *)
(***************************************************************************)
EXTENDS Naturals, FiniteSets

CONSTANT N

VARIABLES
  window,     \* whether each of the last N periods counts, 0 the current one
  quality

Count(w) == Cardinality({k \in 0 .. N - 1 : w[k]})

Init == window = [k \in 0 .. N - 1 |-> FALSE] /\ quality = 0

Add == window' = [window EXCEPT ![0] = TRUE] /\ quality' = Count(window')

Inc ==
  /\ window' = [k \in 0 .. N - 1 |-> k # 0 /\ window[k - 1]]
  /\ quality' = Count(window')

Reset == window' = [k \in 0 .. N - 1 |-> FALSE] /\ quality' = 0

Next == Add \/ Inc \/ Reset

Spec == Init /\ [][Next]_<<window, quality>>
===============================================================================
