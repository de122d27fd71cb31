---------------------------- MODULE MCRxConnection -----------------------------
(* The tick is about RxLockTimeoutMs.  The table of rate 0 is visited in less   *)
(* than that, the table of rate 1, the slow rate for binding, takes longer.     *)
EXTENDS RxConnection, TLC

CycleIntervalDef == 0 :> 0 @@ 1 :> 2

\* A regulatory domain of so few channels that every table is visited in less.
CycleIntervalShort == 0 :> 0 @@ 1 :> 0
===============================================================================
