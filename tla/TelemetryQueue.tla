---------------------------- MODULE TelemetryQueue -----------------------------
(***************************************************************************)
(* The receiver's queue of CRSF messages for the downlink                  *)
(* (RXOTAConnector.cpp): a byte FIFO of frames, each behind a size byte    *)
(* whose top bit marks the frame as deleted, and a count of the            *)
(* prioritised ones.  A mutex makes each operation atomic.                 *)
(***************************************************************************)
EXTENDS Naturals, SequencesExt

CONSTANTS
  Kinds,          \* kinds of messages
  Replaceable,    \* those that overwrite an older one, by their comparator
  Prioritised,    \* those that go first, by their type
  Sizes,          \* sizes of the messages, in bytes of the FIFO
  FifoSize,       \* TELEMETRY_FIFO_SIZE
  CountRange,     \* prioritizedCount is a byte: 256
  MaxForwards     \* bound: messages forwarded

TelemetryQueueAssumption ==
  /\ Replaceable \subseteq Kinds /\ Prioritised \subseteq Kinds
  /\ Sizes \subseteq Nat \ {0} /\ FifoSize \in Nat /\ CountRange \in Nat \ {0, 1}
  /\ \A size \in Sizes : size + 1 < FifoSize
  /\ MaxForwards \in Nat

VARIABLES
  messagePayloads,     \* the frames: [kind, stamp, size, deleted]
  prioritizedCount,    \* prioritised messages, as counted
  forwards,            \* how many messages have been forwarded; it stamps them
  payload              \* the message GetNextPayload returned last: {} or {message}

vars == <<messagePayloads, prioritizedCount, forwards, payload>>

Init ==
  /\ messagePayloads = <<>> /\ prioritizedCount = 0
  /\ forwards = 0 /\ payload = {}

IsPrioritised(frame) == frame.kind \in Prioritised

\* Each frame takes a size byte as well.
Used(queue) ==
  FoldSeq(LAMBDA size, sum : size + 1 + sum, 0, [i \in DOMAIN queue |-> queue[i].size])

available(queue, size) == Used(queue) + size < FifoSize

-------------------------------------------------------------------------------
(* forwardMessage.                                                         *)
\* Mutants: a deleted frame is taken for a match; so is any frame with a comparator.
ReplacedEvenDeleted(kind) ==
  IF kind \in Replaceable
    THEN SelectInSeq(messagePayloads, LAMBDA f : f.kind = kind)
    ELSE 0

\* The frame a new message of this kind replaces, 0 for none.  Two messages
\* whose comparator finds them different (another source id, another origin,
\* not a status text) are of different kinds here.
Replaced(kind) ==
  IF kind \in Replaceable
    THEN SelectInSeq(messagePayloads, LAMBDA f : ~f.deleted /\ f.kind = kind)
    ELSE 0

\* Whole frames are popped off the head until there is room for size bytes.
MakeRoom(queue, size) ==
  LET Room(i) == available(SubSeq(queue, i, Len(queue)), size)
      first == CHOOSE i \in 1 .. Len(queue) + 1 :
                 Room(i) /\ \A j \in 1 .. i - 1 : ~Room(j)
  IN  SubSeq(queue, first, Len(queue))

\* A frame keeps its size when a shorter message is written into it.
Overwrite(at, kind, size) ==
  /\ at # 0 /\ messagePayloads[at].size >= size
  /\ messagePayloads' = [messagePayloads EXCEPT ![at].stamp = forwards']

Delete(queue, at) ==
  IF at = 0 THEN queue ELSE [queue EXCEPT ![at].deleted = TRUE]

AppendFrame(at, kind, size) ==
  /\ at # 0 => messagePayloads[at].size < size
  /\ messagePayloads' =
       Append(MakeRoom(Delete(messagePayloads, at), size + 1),
              [kind |-> kind, stamp |-> forwards', size |-> size, deleted |-> FALSE])

ForwardMessage(kind, size) ==
  /\ forwards < MaxForwards /\ forwards' = forwards + 1
  /\ prioritizedCount' =
       IF kind \in Prioritised THEN (prioritizedCount + 1) % CountRange ELSE prioritizedCount
  /\ LET at == Replaced(kind) IN
     Overwrite(at, kind, size) \/ AppendFrame(at, kind, size)
  /\ UNCHANGED payload

-------------------------------------------------------------------------------
(* GetNextPayload, which the main loop calls while the sender is idle.     *)
Message(frame) == [kind |-> frame.kind, stamp |-> frame.stamp]

FirstPrioritised ==
  SelectInSeq(messagePayloads, LAMBDA f : ~f.deleted /\ IsPrioritised(f))

\* At the head the frame is popped, elsewhere it is copied and marked.
GetPrioritised ==
  /\ prioritizedCount > 0 /\ FirstPrioritised # 0
  /\ prioritizedCount' = prioritizedCount - 1
  /\ payload' = {Message(messagePayloads[FirstPrioritised])}
  /\ messagePayloads' =
       IF FirstPrioritised = 1 THEN Tail(messagePayloads)
       ELSE Delete(messagePayloads, FirstPrioritised)
  /\ UNCHANGED forwards

\* None is found, or none is counted: the first frame that is not deleted.
GetHead ==
  /\ prioritizedCount > 0 => FirstPrioritised = 0
  /\ prioritizedCount' = 0
  /\ LET at == SelectInSeq(messagePayloads, LAMBDA f : ~f.deleted) IN
     IF at = 0
       THEN payload' = {} /\ messagePayloads' = <<>>
       ELSE /\ payload' = {Message(messagePayloads[at])}
            /\ messagePayloads' = SubSeq(messagePayloads, at + 1, Len(messagePayloads))
  /\ UNCHANGED forwards

GetNextPayload == GetPrioritised \/ GetHead

Next ==
  \/ \E kind \in Kinds, size \in Sizes : ForwardMessage(kind, size)
  \/ GetNextPayload

Spec == Init /\ [][Next]_vars

\* The behaviours in which the count, a byte, is not incremented past its end.
Wraps == forwards' # forwards /\ prioritizedCount' < prioritizedCount

CountedSpec == Init /\ [][Next /\ ~Wraps]_vars

\* The behaviours of an outage: the sender stays busy, so no payload is taken,
\* while one ordinary message and then prioritised ones come.
Outage ==
  /\ GetNextPayload => forwards = MaxForwards
  /\ ~GetNextPayload => (forwards = 0 <=> prioritizedCount' = prioritizedCount)

OutageSpec == Init /\ [][Next /\ Outage]_vars

-------------------------------------------------------------------------------
LiveFrames == {i \in DOMAIN messagePayloads : ~messagePayloads[i].deleted}

Pending == {Message(messagePayloads[i]) : i \in LiveFrames}

\* The variables range over what their fields can hold, and the frames leave the
\* byte free that `available` asks for, so that no push ever flushes the FIFO.
TypeOK ==
  /\ messagePayloads \in
       Seq([kind : Kinds, stamp : 1 .. MaxForwards, size : Sizes, deleted : BOOLEAN])
  /\ Used(messagePayloads) < FifoSize
  /\ prioritizedCount \in 0 .. CountRange - 1
  /\ forwards \in 0 .. MaxForwards
  /\ payload = {} \/ \E m \in [kind : Kinds, stamp : 1 .. MaxForwards] : payload = {m}

\* The count never falls behind: overwriting, deleting and making room may leave
\* it too high, which one vain search corrects, but a prioritised message that
\* waits is always counted.
CountCovers ==
  Cardinality({i \in LiveFrames : IsPrioritised(messagePayloads[i])}) <= prioritizedCount

\* No ordinary message is sent while a prioritised one waits.
PriorityFirst ==
  [][forwards' = forwards /\ (\E m \in Pending : m.kind \in Prioritised)
       => \A m \in payload' : m.kind \in Prioritised]_vars

\* A message that waits leaves the queue by being sent, by a newer one of its
\* kind, or for lack of room, and then it is the oldest that goes.
LostOnlyToRoom ==
  [][\A m \in Pending \ Pending' :
       \/ payload' = {m}
       \/ m.kind \in Replaceable /\ [kind |-> m.kind, stamp |-> forwards'] \in Pending'
       \/ \E size \in Sizes : ~available(messagePayloads, size + 1)]_vars

\* The queue is a mailbox: the newest reading of each kind, every event in the
\* order it came, the prioritised before the others.
Abstract == INSTANCE Mailbox WITH clock <- forwards, pending <- Pending, taken <- payload

ImplementsMailbox == Abstract!MailboxSpec
===============================================================================
