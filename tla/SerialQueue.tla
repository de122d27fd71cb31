------------------------------ MODULE SerialQueue ------------------------------
(***************************************************************************)
(* Frames on their way from the receiver to its serial port (SerialIO.cpp  *)
(* and the drivers that queue frames): each goes into the FIFO behind a    *)
(* byte that holds its length, and sendQueuedData takes frames out by that *)
(* byte.  A driver either makes room first (SerialGPS, with ensure) or     *)
(* relies on the FIFO's flush (SerialCRSF and the others).  The FIFO is    *)
(* taken as the byte queue that Fifo implements.                           *)
(***************************************************************************)
EXTENDS Naturals, Sequences

CONSTANTS
  QueueSize,     \* SERIAL_OUTPUT_FIFO_SIZE
  MaxWrite,      \* getMaxSerialWriteSize()
  Frames,        \* the frames a driver may queue
  FrameLen,      \* their lengths
  SyncByte       \* CRSF_SYNC_BYTE, the first byte of each

SerialAssumption ==
  /\ QueueSize \in Nat \ {0} /\ MaxWrite \in Nat /\ SyncByte \in Nat
  /\ FrameLen \in [Frames -> Nat \ {0}]
  /\ \A f \in Frames : FrameLen[f] < MaxWrite /\ FrameLen[f] + 1 < QueueSize

VARIABLES
  guarded,      \* whether the driver makes room with ensure
  waiting,      \* _fifo: bytes [v, of, at]: the value, and whose byte it is
  needed,       \* the room that a running ensure is after, or 0
  coming,       \* the frame to be pushed when ensure is done
  written,      \* bytesWritten of a running sendQueuedData
  sending,      \* whether it runs
  port,         \* the last write to the port
  overfull      \* history: a frame met a full FIFO since it was last in order

vars == <<guarded, waiting, needed, coming, written, sending, port, overfull>>

Byte(v, f, p) == [v |-> v, of |-> f, at |-> p]
Header(f) == Byte(FrameLen[f], f, 0)
Body(f) == [p \in 1 .. FrameLen[f] |-> Byte(IF p = 1 THEN SyncByte ELSE p, f, p)]

\* peek returns a zero when there is nothing.
PeekOf(q) == IF q = <<>> THEN 0 ELSE Head(q).v

\* push and pushBytes, as ByteQueue's Put.
Pushed(q, data) == IF Len(q) + Len(data) <= QueueSize THEN q \o data ELSE <<>>

Available(required) == Len(waiting) + required < QueueSize

\* forwardMessage and its likes: the length, and then the frame.
Queued(f) == Pushed(Pushed(waiting, <<Header(f)>>), Body(f))

\* Mutant: the whole FIFO is asked for.
RoomForAll(f) == QueueSize
RoomFor(f) == FrameLen[f] + 1

Init ==
  /\ guarded \in BOOLEAN
  /\ waiting = <<>> /\ needed = 0 /\ coming \in Frames /\ written = 0
  /\ sending = FALSE /\ port = <<>> /\ overfull = FALSE

Idle == needed = 0 /\ ~sending

ForwardMessage(f) ==
  /\ ~guarded /\ Idle
  /\ waiting' = Queued(f)
  /\ overfull' = (Len(waiting) = QueueSize \/ (overfull /\ waiting' # <<>>))
  /\ port' = <<>>
  /\ UNCHANGED <<guarded, needed, coming, written, sending>>

Ensure(f) ==
  /\ guarded /\ Idle
  /\ needed' = RoomFor(f) /\ coming' = f
  /\ port' = <<>>
  /\ UNCHANGED <<guarded, waiting, written, sending, overfull>>

\* Mutant: the byte of the length is forgotten.
DropOldestShort ==
  /\ needed # 0 /\ ~Available(needed)
  /\ PeekOf(waiting) < Len(waiting)
  /\ waiting' = SubSeq(waiting, PeekOf(waiting) + 1, Len(waiting))
  /\ UNCHANGED <<guarded, needed, coming, written, sending, port, overfull>>

\* One turn of ensure's loop: the frame at the head goes, by its length.
DropOldest ==
  /\ needed # 0 /\ ~Available(needed)
  /\ PeekOf(waiting) < Len(waiting)
  /\ waiting' = SubSeq(waiting, PeekOf(waiting) + 2, Len(waiting))
  /\ UNCHANGED <<guarded, needed, coming, written, sending, port, overfull>>

QueueFrame ==
  /\ needed # 0 /\ Available(needed)
  /\ waiting' = Queued(coming) /\ needed' = 0
  /\ overfull' = (overfull \/ Len(waiting) = QueueSize)
  /\ UNCHANGED <<guarded, coming, written, sending, port>>

\* The condition of sendQueuedData's loop.
MaySend ==
  Len(waiting) > PeekOf(waiting) /\ written + PeekOf(waiting) < MaxWrite

SendQueuedData ==
  /\ Idle
  /\ sending' = TRUE /\ written' = 0 /\ port' = <<>>
  /\ UNCHANGED <<guarded, waiting, needed, coming, overfull>>

SendFrame ==
  /\ sending /\ MaySend
  /\ LET length == PeekOf(waiting) IN
       /\ port' = SubSeq(waiting, 2, length + 1)
       /\ waiting' = SubSeq(waiting, length + 2, Len(waiting))
       /\ written' = written + length
  /\ UNCHANGED <<guarded, needed, coming, sending, overfull>>

SendDone ==
  /\ sending /\ ~MaySend
  /\ sending' = FALSE /\ port' = <<>>
  /\ UNCHANGED <<guarded, waiting, needed, coming, written, overfull>>

Next ==
  \/ \E f \in Frames : ForwardMessage(f) \/ Ensure(f)
  \/ DropOldest \/ QueueFrame
  \/ SendQueuedData \/ SendFrame \/ SendDone

Spec == Init /\ [][Next]_vars

\* The loop calls sendQueuedData on every pass, between the calls that queue
\* frames (strong fairness), and each call runs to its end.
FairSpec ==
  /\ Spec
  /\ SF_vars(SendQueuedData) /\ WF_vars(SendFrame) /\ WF_vars(SendDone)
  /\ WF_vars(DropOldest) /\ WF_vars(QueueFrame)

-------------------------------------------------------------------------------
\* What goes out is one whole frame as it was queued, never parts of two nor a
\* frame with another's length: the FIFO is flushed between frames only.  It
\* takes a FIFO filled to the last byte to break it (see StaysInFrame).
WholeFrames ==
  overfull \/ port = <<>> \/ \E f \in Frames : port = Body(f)

\* FIFO.h, ensure: "This method assumes that on the FIFO contains 8-bit
\* length-prefixed data packets".  Not so for a driver that leaves the room to
\* the FIFO's flush: on a full FIFO the length is not pushed and the frame is.
StaysInFrame == waiting = <<>> \/ \E f \in Frames : Head(waiting) = Header(f)

\* A driver's call of ensure comes to an end; and unless the frames were lost
\* track of, the port is served for as long as something waits.
RoomIsMade == needed # 0 ~> needed = 0
Sends == []~overfull => (waiting # <<>> ~> (port # <<>> \/ waiting = <<>>))
PortIsServed == RoomIsMade /\ Sends
===============================================================================
