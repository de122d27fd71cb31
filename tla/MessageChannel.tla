---------------------------- MODULE MessageChannel ----------------------------
(***************************************************************************)
(* What the stubborn link promises to the two main loops: messages are     *)
(* numbered in the order they are queued; each is taken at most once, none *)
(* after a later one, and none that was not queued.  Messages may be lost. *)
(***************************************************************************)
EXTENDS Integers, Sequences

CONSTANT MaxMsg

VARIABLES
  queued,   \* how many messages have been queued
  taken     \* the messages taken, in the order they were

Latest == IF taken = <<>> THEN 0 ELSE taken[Len(taken)]

Init == queued = 0 /\ taken = <<>>

Queue ==
  /\ queued < MaxMsg
  /\ queued' = queued + 1
  /\ UNCHANGED taken

Take ==
  /\ \E m \in Latest + 1 .. queued : taken' = Append(taken, m)
  /\ UNCHANGED queued

Next == Queue \/ Take

Spec == Init /\ [][Next]_<<queued, taken>>
===============================================================================
