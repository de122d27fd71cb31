------------------------------- MODULE MCOtaLink -------------------------------
(***************************************************************************)
(* Hop sequences for TLC.  The entries past the end of Padded are what the *)
(* array holds there: zeroes, another channel than sync.                   *)
(***************************************************************************)
EXTENDS OtaLink

Short == [i \in 0 .. 1 |-> <<1, 2>>[i + 1]]

Padded == [i \in 0 .. 5 |-> <<1, 2, 3, 0, 0, 0>>[i + 1]]
===============================================================================
