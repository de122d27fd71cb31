---------------------------------- MODULE Fifo ---------------------------------
(***************************************************************************)
(* The byte FIFO under every queue of the firmware (FIFO.h): a ring of     *)
(* FifoSize bytes with a head, a tail and a count, each kept separately.   *)
(* One operator per method that changes it; readers are state functions.   *)
(* A byte is a number below Byte, which is 256 in the code.                *)
(***************************************************************************)
EXTENDS Integers, Sequences

CONSTANTS FifoSize, Byte

FifoAssumption == FifoSize \in Nat \ {0} /\ Byte \in Nat \ {0, 1}

VARIABLES
  buffer, head, tail, numElements,
  result     \* what the last method returned or copied out

fifoVars == <<buffer, head, tail, numElements, result>>

Bytes == 0 .. Byte - 1
Slots == 0 .. FifoSize - 1
Strings(n) == [1 .. n -> Bytes]

Wrap(i) == i % FifoSize

\* operator [], a position counted from the head.
At(i) == buffer[Wrap(head + i)]

\* The bytes that wait, oldest first.
Contents == [k \in 1 .. numElements |-> At(k - 1)]

Free == FifoSize - numElements
Available(required) == numElements + required < FifoSize

Init ==
  /\ buffer = [s \in Slots |-> 0]
  /\ head = 0 /\ tail = 0 /\ numElements = 0 /\ result = <<>>

Flush ==
  /\ head' = 0 /\ tail' = 0 /\ numElements' = 0 /\ result' = <<>>
  /\ UNCHANGED buffer

\* The slot that a byte of data goes to, counted from the tail.
Place(s, data) == Wrap(s - tail + FifoSize) + 1

\* pushBytes, and push for a single byte.
PushBytes(data) ==
  IF numElements + Len(data) > FifoSize
  THEN Flush
  ELSE /\ buffer' = [s \in Slots |->
                       IF Place(s, data) <= Len(data)
                       THEN data[Place(s, data)] ELSE buffer[s]]
       /\ tail' = Wrap(tail + Len(data))
       /\ numElements' = numElements + Len(data)
       /\ result' = <<>> /\ UNCHANGED head

Push(b) == PushBytes(<<b>>)

\* pushSize pushes two bytes one by one.  On a full FIFO the first push would
\* flush it and the second leave a stray byte; nothing calls it.
PushSize(low, high) == numElements # FifoSize /\ PushBytes(<<low, high>>)

\* The first n bytes leave, read or not.
Advance(n) ==
  /\ head' = Wrap(head + n) /\ numElements' = numElements - n
  /\ UNCHANGED <<buffer, tail>>

\* Mutant: the count is taken before the bytes are known to be there.
PopBytesUnchecked(n) ==
  Advance(n) /\ result' = [k \in 1 .. n |-> At(k - 1)]

PopBytes(n) ==
  IF numElements < n
  THEN Flush
  ELSE Advance(n) /\ result' = [k \in 1 .. n |-> At(k - 1)]

\* pop returns a zero when there is nothing, and leaves the FIFO alone.
Pop ==
  IF numElements = 0
  THEN result' = <<>> /\ UNCHANGED <<buffer, head, tail, numElements>>
  ELSE PopBytes(1)

\* popSize takes both bytes of a size prefix or none.
PopSize ==
  IF numElements > 1
  THEN PopBytes(2)
  ELSE result' = <<>> /\ UNCHANGED <<buffer, head, tail, numElements>>

Lesser(i, j) == IF i < j THEN i ELSE j

Skip(n) == Advance(Lesser(n, numElements)) /\ result' = <<>>

Set(i, b) ==
  /\ i < numElements      \* the callers stay within what they found
  /\ buffer' = [buffer EXCEPT ![Wrap(head + i)] = b]
  /\ result' = <<>> /\ UNCHANGED <<head, tail, numElements>>

Next ==
  \/ \E n \in 0 .. FifoSize : \E data \in Strings(n) : PushBytes(data)
  \/ \E b \in Bytes : Push(b) \/ \E high \in Bytes : PushSize(b, high)
  \/ \E n \in 0 .. FifoSize + 1 : PopBytes(n) \/ Skip(n)
  \/ Pop
  \/ PopSize
  \/ \E i \in Slots, b \in Bytes : Set(i, b)
  \/ Flush

Spec == Init /\ [][Next]_fifoVars

-------------------------------------------------------------------------------
TypeOK ==
  /\ buffer \in [Slots -> Bytes] /\ head \in Slots /\ tail \in Slots
  /\ numElements \in 0 .. FifoSize
  /\ \E n \in 0 .. FifoSize : result \in Strings(n)

\* Head, tail and count never disagree, though every method keeps the three on
\* its own: a tail that is off by one returns bytes of another message.
RingAgrees == tail = Wrap(head + numElements)

\* FIFO.h is a queue of bytes: whatever is pushed, popped, skipped and
\* overwritten, across the end of the ring, comes out in order or not at all.
Reference == INSTANCE ByteQueue WITH
  Room <- FifoSize, queue <- Contents, taken <- result
ImplementsQueue == Reference!Spec
===============================================================================
