--------------------------- MODULE StubbornPackage ----------------------------
(***************************************************************************)
(* What the two halves of the stubborn link agree on: the packages.        *)
(*                                                                         *)
(* A message is the number of the SetDataToTransmit call that queued it;   *)
(* its byte at position p is the pair <<message, p>>.  Padding is the zero *)
(* a packet is filled up with, and what an unwritten buffer holds.         *)
(***************************************************************************)
EXTENDS Integers

CONSTANT MaxIndex    \* maxPackageIndex, the package index that means RESYNC

ASSUME PackageAssumption == MaxIndex \in Nat

Padding == <<0, 0>>

\* size bytes on the air, of which the first len are bytes off .. of msg.
PackageOf(index, msg, off, len, size) ==
  [index |-> index, msg |-> msg, off |-> off, len |-> len, size |-> size]

PackageByte(pkt, i) == IF i < pkt.len THEN <<pkt.msg, pkt.off + i>> ELSE Padding

Lesser(a, b) == IF a < b THEN a ELSE b
===============================================================================
