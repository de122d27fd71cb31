------------------------------- MODULE ByteQueue -------------------------------
(***************************************************************************)
(* What the FIFO class promises its callers (FIFO.h): a queue of bytes     *)
(* that comes out in the order it went in.  A push that does not fit, or a *)
(* read of more than there is, empties the queue: never part of it.        *)
(***************************************************************************)
EXTENDS Sequences, Naturals

CONSTANTS Room, Bytes

VARIABLES
  queue,    \* the bytes waiting, oldest first
  taken     \* what the last read returned

Init == queue = <<>> /\ taken = <<>>

Put(data) ==
  /\ queue' = IF Len(queue) + Len(data) <= Room THEN queue \o data ELSE <<>>
  /\ taken' = <<>>

Take(n) ==
  /\ IF n <= Len(queue)
     THEN /\ taken' = SubSeq(queue, 1, n)
          /\ queue' = SubSeq(queue, n + 1, Len(queue))
     ELSE /\ taken' = <<>> /\ queue' = <<>>

\* Bytes at the head are given up without being read.
Discard(n) ==
  /\ n <= Len(queue)
  /\ queue' = SubSeq(queue, n + 1, Len(queue)) /\ taken' = <<>>

Change(i, b) ==
  /\ i \in 1 .. Len(queue)
  /\ queue' = [queue EXCEPT ![i] = b] /\ taken' = <<>>

Empty == queue' = <<>> /\ taken' = <<>>

\* A read that finds too little and leaves what there is.
TakeNone == taken' = <<>> /\ UNCHANGED queue

Next ==
  \/ \E n \in 0 .. Room : \E data \in [1 .. n -> Bytes] : Put(data)
  \/ \E n \in 0 .. Room + 1 : Take(n) \/ Discard(n)
  \/ \E i \in 1 .. Room, b \in Bytes : Change(i, b)
  \/ Empty
  \/ TakeNone

Spec == Init /\ [][Next]_<<queue, taken>>
===============================================================================
