------------------------------ MODULE Ground_proofs ----------------------------
(***************************************************************************)
(* Proofs about what reaches the ground: the telemetry queue is a mailbox, *)
(* the receiver's MAVLink parameters are known before a commit drops the   *)
(* link, and the handset's page of parameters shows what the device has.   *)
(* For every size of queue, set of kinds, parameters, fields and chunks.   *)
(* And error correction repairs a burst, whatever the packet.              *)
(***************************************************************************)
EXTENDS Structures_proofs, WellFoundedInduction

-------------------------------------------------------------------------------
(* The telemetry queue.                                                    *)
\* A set of natural numbers has a least element, and Min chooses it: what is proved
\* by induction elsewhere.
LEMMA LeastExists ==
  ASSUME NEW S \in SUBSET Nat, S # {}
  PROVE  \E x \in S : \A y \in S : x <= y
<1> DEFINE Below == OpToRel(<, Nat)
<1>1. IsWellFoundedOn(Below, Nat)
  BY NatLessThanWellFounded
<1>2. \A x, y \in Nat : <<x, y>> \in Below <=> x < y
  BY DEF OpToRel
<1> HIDE DEF Below
<1>3. \E x \in S : \A y \in S : ~(<<y, x>> \in Below)
  BY <1>1, WFMin
<1>4. PICK x \in S : \A y \in S : ~(<<y, x>> \in Below)
  BY <1>3
<1>5. \A y \in S : ~(y < x)
  BY <1>2, <1>4, Zenon
<1> QED
  BY <1>5

\* So Min is one of the numbers and below them all.
LEMMA MinFacts ==
  ASSUME NEW S \in SUBSET Nat, S # {}
  PROVE  T!Min(S) \in S /\ \A y \in S : T!Min(S) <= y
BY LeastExists DEF T!Min

-------------------------------------------------------------------------------
(* The telemetry queue.                                                    *)

Frames == [kind : Kinds, stamp : Nat, size : Sizes, deleted : BOOLEAN]

LiveIn(queue) == {j \in DOMAIN queue : ~queue[j].deleted}

Waiting(queue) == {T!Message(queue[j]) : j \in LiveIn(queue)}

Urgent(queue) == {m \in Waiting(queue) : m.kind \in Prioritised}

\* No two frames that wait have the same stamp, or are readings of one kind, and the
\* events wait in the order they came in.
InOrder(queue) ==
  /\ \A j, k \in LiveIn(queue) : queue[j].stamp = queue[k].stamp => j = k
  /\ \A j, k \in LiveIn(queue) :
       queue[j].kind = queue[k].kind /\ queue[j].kind \in Replaceable => j = k
  /\ \A j, k \in LiveIn(queue) :
       j < k /\ queue[j].kind \notin Replaceable /\ queue[k].kind \notin Replaceable
         => queue[j].stamp < queue[k].stamp

\* Every message that waits was stamped before the next, and the count covers those
\* that go first.
MailboxInv ==
  /\ messagePayloads \in Seq(Frames) /\ forwards \in Nat
  /\ prioritizedCount \in 0 .. CountRange - 1
  /\ InOrder(messagePayloads)
  /\ \A m \in Waiting(messagePayloads) : m.stamp <= forwards
  /\ IsFiniteSet(Urgent(messagePayloads))
  /\ Cardinality(Urgent(messagePayloads)) <= prioritizedCount

\* What the specification has pending is what waits in the queue.
LEMMA PendingWaits ==
  /\ T!Pending = Waiting(messagePayloads)
  /\ T!Pending' = Waiting(messagePayloads)'
BY DEF T!Pending, T!LiveFrames, Waiting, LiveIn

\* Two messages that wait are the same if their stamps are.
LEMMA WaitingFacts ==
  ASSUME NEW queue \in Seq(Frames), InOrder(queue)
  PROVE  /\ \A j \in LiveIn(queue) : j \in 1 .. Len(queue) /\ queue[j] \in Frames
         /\ \A m \in Waiting(queue) : m \in [kind : Kinds, stamp : Nat]
         /\ \A j, k \in LiveIn(queue) :
              T!Message(queue[j]) = T!Message(queue[k]) => j = k
<1>1. \A j \in LiveIn(queue) : j \in 1 .. Len(queue) /\ queue[j] \in Frames
  BY DEF LiveIn
<1>2. \A frame \in Frames : T!Message(frame) \in [kind : Kinds, stamp : Nat]
  BY DEF Frames, T!Message
<1>3. \A m \in Waiting(queue) : m \in [kind : Kinds, stamp : Nat]
  BY <1>1, <1>2 DEF Waiting
<1>4. \A j, k \in LiveIn(queue) : T!Message(queue[j]) = T!Message(queue[k]) => j = k
  BY DEF InOrder, T!Message
<1> QED
  BY <1>1, <1>3, <1>4

\* The end of a queue is in order, and what waits in it waits in the queue.
LEMMA EndFacts ==
  ASSUME NEW queue \in Seq(Frames), InOrder(queue), NEW m \in 1 .. Len(queue) + 1
  PROVE  LET end == SubSeq(queue, m, Len(queue)) IN
         /\ end \in Seq(Frames) /\ InOrder(end)
         /\ Waiting(end) = {T!Message(queue[j]) : j \in {j \in LiveIn(queue) : m <= j}}
         /\ \A k \in LiveIn(end) : k + m - 1 \in LiveIn(queue) /\ end[k] = queue[k + m - 1]
<1> DEFINE end == SubSeq(queue, m, Len(queue))
<1>1. /\ end \in Seq(Frames) /\ Len(end) = Len(queue) - m + 1
      /\ \A k \in 1 .. Len(queue) - m + 1 : end[k] = queue[m + k - 1]
  <2>1. \A k \in m .. Len(queue) : queue[k] \in Frames
    OBVIOUS
  <2> QED
    BY <2>1, SubSeqProperties
<1> HIDE DEF end
<1>2. DOMAIN end = 1 .. Len(queue) - m + 1 /\ DOMAIN queue = 1 .. Len(queue)
  BY <1>1
<1>3. \A k \in LiveIn(end) :
        /\ k \in 1 .. Len(queue) - m + 1 /\ k + m - 1 \in LiveIn(queue)
        /\ end[k] = queue[k + m - 1]
  <2>1. \A k \in 1 .. Len(queue) - m + 1 :
          k + m - 1 \in 1 .. Len(queue) /\ m + k - 1 = k + m - 1
    OBVIOUS
  <2>2. \A k \in LiveIn(end) : k \in 1 .. Len(queue) - m + 1 /\ ~end[k].deleted
    BY <1>2 DEF LiveIn
  <2> QED
    BY <1>1, <1>2, <2>1, <2>2 DEF LiveIn
<1>4. \A j \in LiveIn(queue) :
        m <= j => j - m + 1 \in LiveIn(end) /\ end[j - m + 1] = queue[j]
  <2> SUFFICES ASSUME NEW j \in LiveIn(queue), m <= j
               PROVE  j - m + 1 \in LiveIn(end) /\ end[j - m + 1] = queue[j]
    OBVIOUS
  <2>1. j \in 1 .. Len(queue) /\ ~queue[j].deleted
    BY <1>2 DEF LiveIn
  <2>2. j - m + 1 \in 1 .. Len(queue) - m + 1 /\ m + (j - m + 1) - 1 = j
    BY <2>1
  <2>3. end[j - m + 1] = queue[j]
    BY <1>1, <2>2
  <2> QED
    BY <1>2, <2>1, <2>2, <2>3 DEF LiveIn
<1>5. InOrder(end)
  <2>1. \A j, k \in LiveIn(end) : end[j].stamp = end[k].stamp => j = k
    BY <1>3 DEF InOrder
  <2>2. \A j, k \in LiveIn(end) :
          end[j].kind = end[k].kind /\ end[j].kind \in Replaceable => j = k
    <3> SUFFICES ASSUME NEW j \in LiveIn(end), NEW k \in LiveIn(end),
                        end[j].kind = end[k].kind, end[j].kind \in Replaceable
                 PROVE  j = k
      OBVIOUS
    <3>1. j + m - 1 = k + m - 1
      BY <1>3 DEF InOrder
    <3> QED
      BY <1>3, <3>1
  <2>3. \A j, k \in LiveIn(end) :
          j < k /\ end[j].kind \notin Replaceable /\ end[k].kind \notin Replaceable
            => end[j].stamp < end[k].stamp
    <3> SUFFICES ASSUME NEW j \in LiveIn(end), NEW k \in LiveIn(end), j < k,
                        end[j].kind \notin Replaceable, end[k].kind \notin Replaceable
                 PROVE  end[j].stamp < end[k].stamp
      OBVIOUS
    <3>1. j + m - 1 < k + m - 1
      BY <1>3
    <3> QED
      BY <1>3, <3>1 DEF InOrder
  <2> QED
    BY <2>1, <2>2, <2>3 DEF InOrder
<1>6. Waiting(end) = {T!Message(queue[j]) : j \in {j \in LiveIn(queue) : m <= j}}
  <2>1. \A k \in LiveIn(end) : m <= k + m - 1
    BY <1>3
  <2>2. \A x \in Waiting(end) :
          x \in {T!Message(queue[j]) : j \in {j \in LiveIn(queue) : m <= j}}
    BY <1>3, <2>1 DEF Waiting
  <2>3. \A j \in LiveIn(queue) : m <= j => T!Message(queue[j]) \in Waiting(end)
    BY <1>4 DEF Waiting
  <2> QED
    BY <2>2, <2>3
<1> QED
  BY <1>1, <1>3, <1>5, <1>6 DEF end

\* A frame deleted waits no longer, and keeps its place and its bytes.
LEMMA DeleteFacts ==
  ASSUME NEW queue \in Seq(Frames), InOrder(queue), NEW at \in LiveIn(queue)
  PROVE  LET left == T!Delete(queue, at) IN
         /\ left \in Seq(Frames) /\ InOrder(left) /\ Len(left) = Len(queue)
         /\ LiveIn(left) = LiveIn(queue) \ {at}
         /\ \A j \in LiveIn(left) : left[j] = queue[j]
         /\ Waiting(left) = Waiting(queue) \ {T!Message(queue[at])}
         /\ T!Used(left) = T!Used(queue)
<1> DEFINE left == T!Delete(queue, at)
<1>1. at \in 1 .. Len(queue) /\ at # 0 /\ DOMAIN queue = 1 .. Len(queue) /\ queue[at] \in Frames
  BY DEF LiveIn
<1>2. left = [queue EXCEPT ![at] = [queue[at] EXCEPT !.deleted = TRUE]]
  BY <1>1 DEF T!Delete
<1>3. [queue[at] EXCEPT !.deleted = TRUE] \in Frames
  BY <1>1 DEF Frames
<1>4. /\ left \in Seq(Frames) /\ Len(left) = Len(queue) /\ DOMAIN left = 1 .. Len(queue)
      /\ \A j \in 1 .. Len(queue) : j # at => left[j] = queue[j]
      /\ left[at] = [queue[at] EXCEPT !.deleted = TRUE]
  BY <1>1, <1>2, <1>3
<1> HIDE DEF left
<1>5. LiveIn(left) = LiveIn(queue) \ {at} /\ \A j \in LiveIn(left) : left[j] = queue[j]
  <2>1. left[at].deleted
    BY <1>1, <1>4 DEF Frames
  <2> QED
    BY <1>1, <1>4, <2>1 DEF LiveIn
<1>6. InOrder(left)
  BY <1>5 DEF InOrder
<1>7. Waiting(left) = Waiting(queue) \ {T!Message(queue[at])}
  BY <1>5, WaitingFacts DEF Waiting
<1>8. T!Used(left) = T!Used(queue)
  <2>1. \A j \in 1 .. Len(queue) : left[j].size = queue[j].size
    BY <1>1, <1>4 DEF Frames
  <2>2. [j \in DOMAIN left |-> left[j].size] = [j \in DOMAIN queue |-> queue[j].size]
    BY <1>1, <1>4, <2>1
  <2> QED
    BY <2>2 DEF T!Used
<1> QED
  BY <1>4, <1>5, <1>6, <1>7, <1>8 DEF left

\* A message stamped after all that wait, the only one of its kind if that is
\* replaceable, waits behind them.
LEMMA AppendFacts ==
  ASSUME NEW queue \in Seq(Frames), InOrder(queue),
         NEW frame \in Frames, ~frame.deleted,
         \A m \in Waiting(queue) : m.stamp < frame.stamp,
         frame.kind \in Replaceable => \A m \in Waiting(queue) : m.kind # frame.kind
  PROVE  LET longer == Append(queue, frame) IN
         /\ longer \in Seq(Frames) /\ InOrder(longer)
         /\ Waiting(longer) = Waiting(queue) \union {T!Message(frame)}
<1> DEFINE longer == Append(queue, frame)
           last == Len(queue) + 1
<1>1. /\ longer \in Seq(Frames) /\ DOMAIN longer = 1 .. last /\ DOMAIN queue = 1 .. Len(queue)
      /\ Len(queue) \in Nat
      /\ \A j \in 1 .. Len(queue) : longer[j] = queue[j]
      /\ longer[last] = frame
  OBVIOUS
<1> HIDE DEF longer
<1>2. /\ LiveIn(longer) = LiveIn(queue) \union {last}
      /\ \A j \in LiveIn(queue) : j < last /\ longer[j] = queue[j]
  BY <1>1 DEF LiveIn
<1>3. \A j \in LiveIn(queue) :
        /\ queue[j].stamp < frame.stamp /\ queue[j].stamp \in Nat
        /\ frame.kind \in Replaceable => queue[j].kind # frame.kind
  <2>1. \A j \in LiveIn(queue) :
          /\ T!Message(queue[j]) \in Waiting(queue)
          /\ T!Message(queue[j]).stamp = queue[j].stamp
          /\ T!Message(queue[j]).kind = queue[j].kind
    BY DEF Waiting, T!Message
  <2> QED
    BY <2>1, WaitingFacts DEF Frames
<1> HIDE DEF last
<1>4. frame.stamp \in Nat
  BY DEF Frames
<1>5. InOrder(longer)
  <2>1. \A j, k \in LiveIn(longer) : longer[j].stamp = longer[k].stamp => j = k
    BY <1>1, <1>2, <1>3, <1>4 DEF InOrder
  <2>2. \A j, k \in LiveIn(longer) :
          longer[j].kind = longer[k].kind /\ longer[j].kind \in Replaceable => j = k
    BY <1>1, <1>2, <1>3 DEF InOrder
  <2>3. \A j, k \in LiveIn(longer) :
          j < k /\ longer[j].kind \notin Replaceable /\ longer[k].kind \notin Replaceable
            => longer[j].stamp < longer[k].stamp
    <3>1. last \in Int /\ \A j \in LiveIn(queue) : j \in Int
      BY <1>1 DEF last, LiveIn
    <3> QED
      BY <1>1, <1>2, <1>3, <3>1 DEF InOrder
  <2> QED
    BY <2>1, <2>2, <2>3 DEF InOrder
<1>6. Waiting(longer) = Waiting(queue) \union {T!Message(frame)}
  BY <1>1, <1>2 DEF Waiting
<1> QED
  BY <1>1, <1>5, <1>6 DEF longer

\* A reading written over the older one of its kind takes its place.
LEMMA OverwriteFacts ==
  ASSUME NEW queue \in Seq(Frames), InOrder(queue), NEW at \in LiveIn(queue),
         queue[at].kind \in Replaceable, NEW n \in Nat,
         \A m \in Waiting(queue) : m.stamp < n
  PROVE  LET newer == [queue EXCEPT ![at].stamp = n] IN
         /\ newer \in Seq(Frames) /\ InOrder(newer)
         /\ Waiting(newer) = (Waiting(queue) \ {T!Message(queue[at])})
                               \union {[kind |-> queue[at].kind, stamp |-> n]}
<1> DEFINE newer == [queue EXCEPT ![at].stamp = n]
           frame == [queue[at] EXCEPT !.stamp = n]
<1>1. at \in 1 .. Len(queue) /\ DOMAIN queue = 1 .. Len(queue) /\ queue[at] \in Frames
      /\ ~queue[at].deleted
  BY DEF LiveIn
<1>2. frame \in Frames /\ frame.stamp = n /\ frame.kind = queue[at].kind /\ ~frame.deleted
  BY <1>1 DEF Frames
<1>3. newer = [queue EXCEPT ![at] = frame]
  OBVIOUS
<1> HIDE DEF frame
<1>4. /\ newer \in Seq(Frames) /\ DOMAIN newer = 1 .. Len(queue)
      /\ \A j \in 1 .. Len(queue) : j # at => newer[j] = queue[j]
      /\ newer[at] = frame
  BY <1>1, <1>2, <1>3
<1> HIDE DEF newer
<1>5. LiveIn(newer) = LiveIn(queue) /\ \A j \in LiveIn(queue) : j # at => newer[j] = queue[j]
  BY <1>1, <1>2, <1>4 DEF LiveIn
<1>6. \A j \in LiveIn(queue) : queue[j].stamp < n
  <2>1. \A j \in LiveIn(queue) :
          T!Message(queue[j]) \in Waiting(queue) /\ T!Message(queue[j]).stamp = queue[j].stamp
    BY DEF Waiting, T!Message
  <2> QED
    BY <2>1
<1>7. InOrder(newer)
  <2>1. \A j \in LiveIn(queue) : queue[j].stamp \in Nat
    BY WaitingFacts DEF Frames
  <2>2. \A j, k \in LiveIn(newer) : newer[j].stamp = newer[k].stamp => j = k
    BY <1>2, <1>4, <1>5, <1>6, <2>1 DEF InOrder
  <2>3. \A j, k \in LiveIn(newer) :
          newer[j].kind = newer[k].kind /\ newer[j].kind \in Replaceable => j = k
    BY <1>2, <1>4, <1>5 DEF InOrder
  <2>4. \A j, k \in LiveIn(newer) :
          j < k /\ newer[j].kind \notin Replaceable /\ newer[k].kind \notin Replaceable
            => newer[j].stamp < newer[k].stamp
    BY <1>2, <1>4, <1>5 DEF InOrder
  <2> QED
    BY <2>2, <2>3, <2>4 DEF InOrder
<1>8. Waiting(newer) = (Waiting(queue) \ {T!Message(queue[at])})
                         \union {[kind |-> queue[at].kind, stamp |-> n]}
  <2>1. T!Message(frame) = [kind |-> queue[at].kind, stamp |-> n]
    BY <1>2 DEF T!Message
  <2>2. \A j \in LiveIn(queue) : j # at => T!Message(queue[j]) # T!Message(queue[at])
    BY WaitingFacts
  <2> QED
    BY <1>4, <1>5, <2>1, <2>2 DEF Waiting
<1> QED
  BY <1>4, <1>7, <1>8 DEF newer

\* No frames use no bytes.
LEMMA UsedEmpty == T!Used(<<>>) = 0
<1> DEFINE body(it) == [s \in SUBSET {} |-> IF s = {} THEN 0
              ELSE <<>>[CHOOSE x \in s : TRUE] + 1 + it[s \ {CHOOSE x \in s : TRUE}]]
           it0 == CHOOSE it : it = body(it)
<1>0. DOMAIN <<>> = {} /\ [j \in DOMAIN <<>> |-> <<>>[j].size] = <<>>
  OBVIOUS
<1>1. T!Used(<<>>) = it0[{}]
  BY <1>0 DEF T!Used, T!FoldSeq, T!FoldFunction, T!FoldFunctionOnSet, T!MapThenFoldSet
<1>2. \A it : body(it) = [s \in {{}} |-> 0]
  OBVIOUS
<1> HIDE DEF body
<1>3. \E it : it = body(it)
  BY <1>2
<1>4. it0 = body(it0)
  BY <1>3
<1> HIDE DEF it0
<1> QED
  BY <1>1, <1>2, <1>4

\* Frames are popped off the head, and none if there is room.
LEMMA RoomFacts ==
  ASSUME NEW queue \in Seq(Frames), NEW size \in Sizes
  PROVE  \E m \in 1 .. Len(queue) + 1 :
           /\ T!MakeRoom(queue, size + 1) = SubSeq(queue, m, Len(queue))
           /\ T!available(queue, size + 1) => m = 1
<1> DEFINE Room(m) == T!available(SubSeq(queue, m, Len(queue)), size + 1)
           Places == {m \in 1 .. Len(queue) + 1 : Room(m)}
           Good(m) == Room(m) /\ \A k \in 1 .. m - 1 : ~Room(k)
           m0 == CHOOSE m \in 1 .. Len(queue) + 1 : Good(m)
<1>1. Room(Len(queue) + 1)
  <2>1. SubSeq(queue, Len(queue) + 1, Len(queue)) = <<>>
    BY SubSeqEmpty
  <2>2. T!Used(<<>>) = 0
    BY UsedEmpty
  <2>3. size + 1 < TelemetrySize /\ size \in Nat /\ TelemetrySize \in Nat
    BY StructuresAssumption DEF StructuresAssumption, T!TelemetryQueueAssumption
  <2>4. T!Used(SubSeq(queue, Len(queue) + 1, Len(queue))) = 0
    BY <2>1, <2>2
  <2> QED
    BY <2>3, <2>4 DEF T!available
<1> HIDE DEF Room
<1>2. \E m \in Places : \A k \in Places : m <= k
  <2>1. Places \in SUBSET Nat /\ Places # {}
    BY <1>1
  <2> QED
    BY <2>1, LeastExists
<1>3. \E m \in 1 .. Len(queue) + 1 : Good(m)
  <2>1. PICK m \in Places : \A k \in Places : m <= k
    BY <1>2
  <2>2. \A k \in 1 .. m - 1 : k \in 1 .. Len(queue) + 1 /\ ~(m <= k)
    BY <2>1
  <2> QED
    BY <2>1, <2>2
<1>4. m0 \in 1 .. Len(queue) + 1 /\ Good(m0)
  BY <1>3
<1>5. T!MakeRoom(queue, size + 1) = SubSeq(queue, m0, Len(queue))
  BY DEF T!MakeRoom, Room
<1>6. T!available(queue, size + 1) => m0 = 1
  <2>1. SubSeq(queue, 1, Len(queue)) = queue
    BY SubSeqFull
  <2>2. T!available(queue, size + 1) => Room(1)
    BY <2>1 DEF Room
  <2> HIDE DEF m0
  <2> QED
    BY <1>4, <2>2
<1> HIDE DEF m0
<1> QED
  BY <1>4, <1>5, <1>6

\* The frame a new message replaces is the one of its kind that waits.
LEMMA ReplacedFacts ==
  ASSUME NEW kind \in Kinds, messagePayloads \in Seq(Frames), InOrder(messagePayloads)
  PROVE  LET at == T!Replaced(kind) IN
         /\ at # 0 => /\ at \in LiveIn(messagePayloads) /\ kind \in Replaceable
                      /\ messagePayloads[at].kind = kind
         /\ at = 0 /\ kind \in Replaceable => \A m \in Waiting(messagePayloads) : m.kind # kind
<1> DEFINE Same == {j \in 1 .. Len(messagePayloads) :
                      ~messagePayloads[j].deleted /\ messagePayloads[j].kind = kind}
           at == T!Replaced(kind)
<1>1. at = IF kind \in Replaceable /\ Same # {} THEN T!Min(Same) ELSE 0
  BY DEF T!Replaced, T!SelectInSeq
<1>2. \A j \in DOMAIN messagePayloads : j \in Same <=>
        j \in LiveIn(messagePayloads) /\ messagePayloads[j].kind = kind
  BY DEF LiveIn
<1>3. Same \in SUBSET Nat /\ \A j \in Same : j # 0 /\ j \in DOMAIN messagePayloads
  OBVIOUS
<1>4. Same # {} => T!Min(Same) \in Same
  <2> HIDE DEF Same
  <2> QED
    BY <1>3, MinFacts
<1>5. Same = {} => \A m \in Waiting(messagePayloads) : m.kind # kind
  <2>1. \A j \in LiveIn(messagePayloads) : j \in DOMAIN messagePayloads
    BY DEF LiveIn
  <2>2. \A m \in Waiting(messagePayloads) :
          \E j \in LiveIn(messagePayloads) : m.kind = messagePayloads[j].kind
    BY DEF Waiting, T!Message
  <2> HIDE DEF Same
  <2> QED
    BY <1>2, <2>1, <2>2
<1> HIDE DEF Same, at
<1>6. at # 0 => /\ at \in LiveIn(messagePayloads) /\ kind \in Replaceable
                /\ messagePayloads[at].kind = kind
  BY <1>1, <1>2, <1>3, <1>4
<1>7. at = 0 /\ kind \in Replaceable => Same = {}
  BY <1>1, <1>3, <1>4
<1> QED
  BY <1>5, <1>6, <1>7 DEF at

\* The first frame that goes first, and the first that waits at all.
LEMMA FirstFacts ==
  ASSUME messagePayloads \in Seq(Frames), InOrder(messagePayloads)
  PROVE  LET at == T!FirstPrioritised IN
         /\ at = 0 => Urgent(messagePayloads) = {}
         /\ at # 0 => /\ at \in LiveIn(messagePayloads)
                      /\ messagePayloads[at].kind \in Prioritised
                      /\ \A j \in LiveIn(messagePayloads) :
                           messagePayloads[j].kind \in Prioritised => at <= j
<1> DEFINE Them == {j \in 1 .. Len(messagePayloads) :
                      ~messagePayloads[j].deleted /\ messagePayloads[j].kind \in Prioritised}
           at == T!FirstPrioritised
<1>1. at = IF Them # {} THEN T!Min(Them) ELSE 0
  BY DEF T!FirstPrioritised, T!SelectInSeq, T!IsPrioritised
<1>2. \A j \in DOMAIN messagePayloads : j \in Them <=>
        j \in LiveIn(messagePayloads) /\ messagePayloads[j].kind \in Prioritised
  BY DEF LiveIn
<1>3. Them \in SUBSET Nat /\ \A j \in Them : j # 0 /\ j \in DOMAIN messagePayloads
  OBVIOUS
<1> HIDE DEF Them
<1>4. Them # {} => T!Min(Them) \in Them /\ \A j \in Them : T!Min(Them) <= j
  BY <1>3, MinFacts
<1>5. \A j \in LiveIn(messagePayloads) : j \in DOMAIN messagePayloads
  BY DEF LiveIn
<1>6. Them = {} => Urgent(messagePayloads) = {}
  <2>1. \A m \in Waiting(messagePayloads) :
          \E j \in LiveIn(messagePayloads) : m.kind = messagePayloads[j].kind
    BY DEF Waiting, T!Message
  <2> QED
    BY <1>2, <1>5, <2>1 DEF Urgent
<1> HIDE DEF at
<1> QED
  BY <1>1, <1>2, <1>3, <1>4, <1>5, <1>6 DEF at

\* The first frame that is not deleted, if any.
LEMMA HeadFacts ==
  ASSUME messagePayloads \in Seq(Frames), InOrder(messagePayloads)
  PROVE  LET at == T!SelectInSeq(messagePayloads, LAMBDA f : ~f.deleted) IN
         /\ at = 0 => Waiting(messagePayloads) = {}
         /\ at # 0 => /\ at \in LiveIn(messagePayloads)
                      /\ \A j \in LiveIn(messagePayloads) : at <= j
<1> DEFINE Them == {j \in 1 .. Len(messagePayloads) : ~messagePayloads[j].deleted}
           at == T!SelectInSeq(messagePayloads, LAMBDA f : ~f.deleted)
<1>1. at = IF Them # {} THEN T!Min(Them) ELSE 0
  BY DEF T!SelectInSeq
<1>2. Them = LiveIn(messagePayloads)
  BY DEF LiveIn
<1>3. Them \in SUBSET Nat /\ \A j \in Them : j # 0
  OBVIOUS
<1> HIDE DEF Them, at
<1>4. Them # {} => T!Min(Them) \in Them /\ \A j \in Them : T!Min(Them) <= j
  BY <1>3, MinFacts
<1> QED
  BY <1>1, <1>2, <1>3, <1>4 DEF Waiting, at

\* While the count is not incremented past its end, a message that goes first is counted.
LEMMA CountedFacts ==
  ASSUME forwards \in Nat, prioritizedCount \in 0 .. CountRange - 1,
         NEW kind \in Kinds, NEW size \in Sizes, T!ForwardMessage(kind, size), ~T!Wraps
  PROVE  /\ forwards' = forwards + 1 /\ prioritizedCount' \in 0 .. CountRange - 1
         /\ prioritizedCount' = IF kind \in Prioritised THEN prioritizedCount + 1
                                ELSE prioritizedCount
<1>1. CountRange \in Nat /\ CountRange > 1
  BY StructuresAssumption DEF StructuresAssumption, T!TelemetryQueueAssumption
<1>2. /\ forwards' = forwards + 1
      /\ prioritizedCount' = IF kind \in Prioritised
                               THEN (prioritizedCount + 1) % CountRange ELSE prioritizedCount
      /\ ~(prioritizedCount' < prioritizedCount)
  BY DEF T!ForwardMessage, T!Wraps
<1>3. prioritizedCount + 1 < CountRange =>
        (prioritizedCount + 1) % CountRange = prioritizedCount + 1
  BY <1>1
<1>4. prioritizedCount + 1 = CountRange => (prioritizedCount + 1) % CountRange = 0
  BY <1>1
<1>5. CASE prioritizedCount + 1 < CountRange
  BY <1>1, <1>2, <1>3, <1>5
<1>6. CASE prioritizedCount + 1 = CountRange
  BY <1>1, <1>2, <1>4, <1>6
<1> QED
  BY <1>1, <1>5, <1>6

\* What those that go first are counted by, when some leave and one may come.
LEMMA UrgentFacts ==
  ASSUME NEW old, NEW new, NEW m, NEW n \in Nat, NEW k \in Nat,
         IsFiniteSet(old), Cardinality(old) <= n,
         new \subseteq old \/ (new \subseteq old \union {m} /\ k = n + 1), n <= k
  PROVE  IsFiniteSet(new) /\ Cardinality(new) <= k
<1>1. CASE new \subseteq old
  BY <1>1, FS_Subset, FS_CardinalityType
<1>2. CASE new \subseteq old \union {m} /\ k = n + 1
  <2>1. IsFiniteSet(old \union {m}) /\ Cardinality(old \union {m}) <= n + 1
    <3>1. Cardinality(old) \in Nat
      BY FS_CardinalityType
    <3>2. /\ IsFiniteSet(old \union {m})
          /\ Cardinality(old \union {m}) = IF m \in old THEN Cardinality(old)
                                           ELSE Cardinality(old) + 1
      BY FS_AddElement
    <3> QED
      BY <3>1, <3>2
  <2> QED
    BY <1>2, <2>1, FS_Subset, FS_CardinalityType
<1> QED
  BY <1>1, <1>2

\* What leaves the queue, and when: the action of LostOnlyToRoom.
Kept ==
  \A m \in T!Pending \ T!Pending' :
    \/ payload' = {m}
    \/ m.kind \in Replaceable /\ [kind |-> m.kind, stamp |-> forwards'] \in T!Pending'
    \/ \E size \in Sizes : ~T!available(messagePayloads, size + 1)

\* What a new message does to those that wait: its older one goes, and others may.
LEMMA ForwardFacts ==
  ASSUME MailboxInv, NEW kind \in Kinds, NEW size \in Sizes,
         T!ForwardMessage(kind, size), ~T!Wraps
  PROVE  LET new == [kind |-> kind, stamp |-> forwards']
             older == {m \in Waiting(messagePayloads) : m.kind = kind /\ kind \in Replaceable}
             now == Waiting(messagePayloads)' IN
         /\ messagePayloads' \in Seq(Frames) /\ InOrder(messagePayloads')
         /\ new \in now /\ now \subseteq (Waiting(messagePayloads) \ older) \union {new}
         /\ \/ now = (Waiting(messagePayloads) \ older) \union {new}
            \/ ~T!available(messagePayloads, size + 1)
<1> DEFINE queue == messagePayloads
           at == T!Replaced(kind)
           new == [kind |-> kind, stamp |-> forwards']
           older == {m \in Waiting(queue) : m.kind = kind /\ kind \in Replaceable}
           frame == [kind |-> kind, stamp |-> forwards', size |-> size, deleted |-> FALSE]
<1>1. /\ queue \in Seq(Frames) /\ InOrder(queue) /\ forwards \in Nat
      /\ prioritizedCount \in 0 .. CountRange - 1
      /\ \A m \in Waiting(queue) : m.stamp <= forwards
  BY DEF MailboxInv
<1>2. forwards' = forwards + 1 /\ forwards' \in Nat
  BY <1>1, CountedFacts
<1>3. \A m \in Waiting(queue) : m.stamp < forwards' /\ m \in [kind : Kinds, stamp : Nat]
  <2>1. \A m \in Waiting(queue) : m \in [kind : Kinds, stamp : Nat]
    BY <1>1, WaitingFacts
  <2> QED
    BY <1>1, <1>2, <2>1
<1>4. T!Overwrite(at, kind, size) \/ T!AppendFrame(at, kind, size)
  BY DEF T!ForwardMessage
<1>5. /\ at # 0 => at \in LiveIn(queue) /\ kind \in Replaceable /\ queue[at].kind = kind
      /\ at = 0 /\ kind \in Replaceable => \A m \in Waiting(queue) : m.kind # kind
  BY <1>1, ReplacedFacts
<1>6. frame \in Frames /\ frame.kind = kind /\ frame.stamp = forwards' /\ ~frame.deleted
      /\ T!Message(frame) = new
  BY <1>2 DEF Frames, T!Message
<1>7. older = IF at = 0 THEN {} ELSE {T!Message(queue[at])}
  <2>1. CASE at = 0
    BY <1>5, <2>1
  <2>2. CASE at # 0
    <3>1. T!Message(queue[at]) \in older
      BY <1>5, <2>2 DEF Waiting, T!Message
    <3>2. ASSUME NEW m \in older
          PROVE  m = T!Message(queue[at])
      <4>1. PICK j \in LiveIn(queue) : m = T!Message(queue[j])
        BY <3>2 DEF Waiting
      <4>2. queue[j].kind = kind
        BY <4>1, <3>2 DEF T!Message
      <4>3. j = at
        BY <1>1, <1>5, <2>2, <4>2 DEF InOrder
      <4> QED
        BY <4>1, <4>3
    <3> QED
      BY <2>2, <3>1, <3>2
  <2> QED
    BY <2>1, <2>2
<1> HIDE DEF older, frame, at
<1>8. CASE T!Overwrite(at, kind, size)
  <2>1. at # 0 /\ messagePayloads' = [queue EXCEPT ![at].stamp = forwards']
    BY <1>8 DEF T!Overwrite
  <2> DEFINE newer == [queue EXCEPT ![at].stamp = forwards']
  <2>2. /\ newer \in Seq(Frames) /\ InOrder(newer)
        /\ Waiting(newer) = (Waiting(queue) \ {T!Message(queue[at])})
                              \union {[kind |-> queue[at].kind, stamp |-> forwards']}
    <3>1. /\ at \in LiveIn(queue) /\ queue[at].kind \in Replaceable
          /\ \A m \in Waiting(queue) : m.stamp < forwards'
      BY <1>3, <1>5, <2>1
    <3> HIDE DEF queue
    <3> QED
      BY <1>1, <1>2, <3>1, OverwriteFacts
  <2>3. Waiting(messagePayloads)' = (Waiting(queue) \ older) \union {new}
    BY <1>5, <1>7, <2>1, <2>2
  <2> QED
    BY <2>1, <2>2, <2>3 DEF older
<1>9. CASE T!AppendFrame(at, kind, size)
  <2> DEFINE left == T!Delete(queue, at)
             end == T!MakeRoom(left, size + 1)
  <2>1. messagePayloads' = Append(end, frame)
    BY <1>9 DEF T!AppendFrame, frame
  <2>2. /\ left \in Seq(Frames) /\ InOrder(left) /\ Waiting(left) = Waiting(queue) \ older
        /\ T!Used(left) = T!Used(queue)
    <3>1. CASE at = 0
      BY <1>1, <1>7, <3>1 DEF T!Delete
    <3>2. CASE at # 0
      BY <1>1, <1>5, <1>7, <3>2, DeleteFacts
    <3> QED
      BY <3>1, <3>2
  <2> HIDE DEF left
  <2>3. PICK m \in 1 .. Len(left) + 1 :
          /\ end = SubSeq(left, m, Len(left))
          /\ T!available(left, size + 1) => m = 1
    BY <2>2, RoomFacts
  <2> HIDE DEF end
  <2>4. /\ end \in Seq(Frames) /\ InOrder(end)
        /\ Waiting(end) = {T!Message(left[j]) : j \in {j \in LiveIn(left) : m <= j}}
    BY <2>2, <2>3, EndFacts
  <2>5. Waiting(end) \subseteq Waiting(left)
    BY <2>4 DEF Waiting
  <2>6. T!available(queue, size + 1) => Waiting(end) = Waiting(left)
    <3>1. T!available(queue, size + 1) <=> T!available(left, size + 1)
      BY <2>2 DEF T!available
    <3>2. m = 1 => end = left
      BY <2>2, <2>3, SubSeqFull
    <3> QED
      BY <2>3, <3>1, <3>2
  <2>7. /\ Append(end, frame) \in Seq(Frames) /\ InOrder(Append(end, frame))
        /\ Waiting(Append(end, frame)) = Waiting(end) \union {T!Message(frame)}
    <3>1. \A x \in Waiting(end) : x.stamp < frame.stamp
      BY <1>3, <1>6, <2>2, <2>5
    <3>2. frame.kind \in Replaceable => \A x \in Waiting(end) : x.kind # frame.kind
      BY <1>6, <2>2, <2>5 DEF older
    <3> QED
      BY <1>6, <2>4, <3>1, <3>2, AppendFacts
  <2>8. Waiting(messagePayloads)' = Waiting(end) \union {new}
    BY <1>6, <2>1, <2>7
  <2> QED
    BY <2>1, <2>2, <2>5, <2>6, <2>7, <2>8 DEF older
<1> QED
  BY <1>4, <1>8, <1>9

\* A message comes: the mailbox gets it, or loses for want of room.
LEMMA ForwardStep ==
  ASSUME MailboxInv, NEW kind \in Kinds, NEW size \in Sizes,
         T!ForwardMessage(kind, size), ~T!Wraps
  PROVE  MailboxInv' /\ T!Abstract!Post(kind) /\ Kept
<1> DEFINE new == [kind |-> kind, stamp |-> forwards']
           old == Waiting(messagePayloads)
           older == {m \in old : m.kind = kind /\ kind \in Replaceable}
           now == Waiting(messagePayloads)'
<1>1. /\ messagePayloads' \in Seq(Frames) /\ InOrder(messagePayloads')
      /\ new \in now /\ now \subseteq (old \ older) \union {new}
      /\ now = (old \ older) \union {new} \/ ~T!available(messagePayloads, size + 1)
  BY ForwardFacts
<1>2. /\ forwards \in Nat /\ prioritizedCount \in 0 .. CountRange - 1
      /\ messagePayloads \in Seq(Frames) /\ InOrder(messagePayloads)
      /\ \A m \in old : m.stamp <= forwards
      /\ IsFiniteSet(Urgent(messagePayloads))
      /\ Cardinality(Urgent(messagePayloads)) <= prioritizedCount
  BY DEF MailboxInv
<1>3. /\ forwards' = forwards + 1 /\ forwards' \in Nat
      /\ prioritizedCount' \in 0 .. CountRange - 1
      /\ prioritizedCount' = IF kind \in Prioritised THEN prioritizedCount + 1
                             ELSE prioritizedCount
      /\ payload' = payload
  BY <1>2, CountedFacts DEF T!ForwardMessage
<1>4. \A m \in old : m \in [kind : Kinds, stamp : Nat]
  BY <1>2, WaitingFacts
<1>5. now = Waiting(messagePayloads')
  OBVIOUS
<1>6. T!Pending = old /\ T!Pending' = now
  BY PendingWaits
<1> HIDE DEF old, now
<1>7. new.kind = kind /\ new.stamp = forwards'
  OBVIOUS
<1>8. Urgent(messagePayloads) = {m \in old : m.kind \in Prioritised}
      /\ Urgent(messagePayloads') = {m \in now : m.kind \in Prioritised}
  BY <1>5 DEF Urgent, old
<1>9. \A m \in now : m.stamp <= forwards'
  BY <1>1, <1>2, <1>3, <1>4, <1>7
<1>10. IsFiniteSet(Urgent(messagePayloads')) /\ Cardinality(Urgent(messagePayloads')) <= prioritizedCount'
  <2>1. kind \notin Prioritised => Urgent(messagePayloads') \subseteq Urgent(messagePayloads)
    BY <1>1, <1>7, <1>8
  <2>2. Urgent(messagePayloads') \subseteq Urgent(messagePayloads) \union {new}
    BY <1>1, <1>8
  <2> HIDE DEF new
  <2>3. prioritizedCount \in Nat /\ prioritizedCount' \in Nat /\ prioritizedCount <= prioritizedCount'
        /\ (kind \in Prioritised => prioritizedCount' = prioritizedCount + 1)
    BY <1>2, <1>3
  <2> QED
    BY <1>2, <2>1, <2>2, <2>3, UrgentFacts
<1>11. MailboxInv'
  BY <1>1, <1>3, <1>5, <1>9, <1>10 DEF MailboxInv
<1>12. T!Abstract!Post(kind)
  <2>1. older = {m \in old : T!Abstract!SameReading(m, new)}
    BY <1>7 DEF T!Abstract!SameReading
  <2>2. {m \in old : ~T!Abstract!SameReading(m, new)} = old \ older
    BY <2>1
  <2> DEFINE dropped == (old \ older) \ now
  <2>3. now = ((old \ older) \ dropped) \union {new} /\ dropped \in SUBSET (old \ older)
    BY <1>1
  <2> HIDE DEF dropped, older
  <2> QED
    BY <1>3, <1>6, <2>2, <2>3 DEF T!Abstract!Post
<1>13. Kept
  <2>1. CASE ~T!available(messagePayloads, size + 1)
    BY <2>1 DEF Kept
  <2>2. CASE now = (old \ older) \union {new}
    <3>1. \A m \in old \ now : m \in older
      BY <2>2
    <3>2. \A m \in older : m.kind \in Replaceable /\ m.kind = kind
      OBVIOUS
    <3> QED
      BY <1>1, <1>6, <3>1, <3>2 DEF Kept
  <2> QED
    BY <1>1, <2>1, <2>2
<1> QED
  BY <1>11, <1>12, <1>13

\* Popping up to the first frame that waits takes its message.
LEMMA PopFacts ==
  ASSUME NEW queue \in Seq(Frames), InOrder(queue), NEW at \in LiveIn(queue),
         \A j \in LiveIn(queue) : at <= j
  PROVE  LET end == SubSeq(queue, at + 1, Len(queue)) IN
         /\ end \in Seq(Frames) /\ InOrder(end)
         /\ Waiting(end) = Waiting(queue) \ {T!Message(queue[at])}
<1> DEFINE end == SubSeq(queue, at + 1, Len(queue))
<1>1. at \in 1 .. Len(queue) /\ \A j \in LiveIn(queue) : j \in 1 .. Len(queue)
  BY WaitingFacts
<1>2. at + 1 \in 1 .. Len(queue) + 1
  BY <1>1
<1>3. /\ end \in Seq(Frames) /\ InOrder(end)
      /\ Waiting(end) = {T!Message(queue[j]) : j \in {j \in LiveIn(queue) : at + 1 <= j}}
  BY <1>2, EndFacts
<1>4. \A j \in LiveIn(queue) : at + 1 <= j <=> j # at
  BY <1>1
<1>5. \A j \in LiveIn(queue) : j # at <=> T!Message(queue[j]) # T!Message(queue[at])
  BY WaitingFacts
<1>6. {T!Message(queue[j]) : j \in {j \in LiveIn(queue) : at + 1 <= j}}
        = {T!Message(queue[j]) : j \in LiveIn(queue)} \ {T!Message(queue[at])}
  BY <1>4, <1>5
<1> QED
  BY <1>3, <1>6 DEF Waiting

\* The message taken is the first of those that go first, or the first if there are
\* none, and it alone leaves the queue.
LEMMA TakeFacts ==
  ASSUME MailboxInv, NEW at \in LiveIn(messagePayloads),
         \/ \A j \in LiveIn(messagePayloads) : at <= j
         \/ messagePayloads[at].kind \in Prioritised,
         \A j \in LiveIn(messagePayloads) :
           (messagePayloads[at].kind \in Prioritised <=> messagePayloads[j].kind \in Prioritised)
             => at <= j,
         Urgent(messagePayloads) # {} => messagePayloads[at].kind \in Prioritised,
         payload' = {T!Message(messagePayloads[at])}, forwards' = forwards,
         Waiting(messagePayloads)' =
           Waiting(messagePayloads) \ {T!Message(messagePayloads[at])}
  PROVE  T!Abstract!Take /\ Kept
<1> DEFINE old == Waiting(messagePayloads)
           now == Waiting(messagePayloads)'
           m0 == T!Message(messagePayloads[at])
<1>1. messagePayloads \in Seq(Frames) /\ InOrder(messagePayloads)
  BY DEF MailboxInv
<1>2. m0 \in old
  BY DEF Waiting
<1>3. (\E n \in old : n.kind \in Prioritised) => m0.kind \in Prioritised
  BY DEF Urgent, T!Message
<1>4. \A n \in old : ~T!Abstract!Behind(m0, n)
  <2> SUFFICES ASSUME NEW n \in old, T!Abstract!Behind(m0, n)
               PROVE  FALSE
    OBVIOUS
  <2>1. PICK j \in LiveIn(messagePayloads) : n = T!Message(messagePayloads[j])
    BY DEF Waiting
  <2>2. /\ messagePayloads[j].stamp < messagePayloads[at].stamp
        /\ messagePayloads[j].kind \notin Replaceable
        /\ messagePayloads[at].kind \notin Replaceable
        /\ (messagePayloads[at].kind \in Prioritised
              <=> messagePayloads[j].kind \in Prioritised)
    BY <2>1 DEF T!Abstract!Behind, T!Message
  <2>3. at <= j
    BY <2>2
  <2>4. /\ at \in 1 .. Len(messagePayloads) /\ j \in 1 .. Len(messagePayloads)
        /\ messagePayloads[at].stamp \in Nat /\ messagePayloads[j].stamp \in Nat
    BY <1>1, WaitingFacts DEF Frames
  <2>5. at = j \/ at < j
    BY <2>3, <2>4
  <2> QED
    BY <1>1, <2>2, <2>4, <2>5 DEF InOrder
<1>5. T!Pending = old /\ T!Pending' = now
  BY PendingWaits
<1> HIDE DEF old, now, m0
<1>6. now = old \ {m0} /\ payload' = {m0}
  BY DEF old, now, m0
<1>7. T!Abstract!Take
  BY <1>2, <1>3, <1>4, <1>5, <1>6 DEF T!Abstract!Take
<1>8. Kept
  BY <1>5, <1>6 DEF Kept
<1> QED
  BY <1>7, <1>8

\* A prioritised message goes to the sender, however far behind it waits.
LEMMA PrioritisedStep ==
  ASSUME MailboxInv, T!GetPrioritised
  PROVE  MailboxInv' /\ T!Abstract!Take /\ Kept
<1> DEFINE at == T!FirstPrioritised
           m0 == T!Message(messagePayloads[at])
<1>1. /\ messagePayloads \in Seq(Frames) /\ InOrder(messagePayloads) /\ forwards \in Nat
      /\ prioritizedCount \in 0 .. CountRange - 1 /\ CountRange \in Nat
      /\ \A m \in Waiting(messagePayloads) : m.stamp <= forwards
      /\ IsFiniteSet(Urgent(messagePayloads))
      /\ Cardinality(Urgent(messagePayloads)) <= prioritizedCount
  BY StructuresAssumption DEF MailboxInv, StructuresAssumption, T!TelemetryQueueAssumption
<1>2. /\ prioritizedCount > 0 /\ at # 0 /\ prioritizedCount' = prioritizedCount - 1
      /\ payload' = {m0} /\ forwards' = forwards
      /\ messagePayloads' = IF at = 1 THEN Tail(messagePayloads)
                            ELSE T!Delete(messagePayloads, at)
  BY DEF T!GetPrioritised
<1>3. /\ at \in LiveIn(messagePayloads) /\ messagePayloads[at].kind \in Prioritised
      /\ \A j \in LiveIn(messagePayloads) : messagePayloads[j].kind \in Prioritised => at <= j
  BY <1>1, <1>2, FirstFacts
<1> HIDE DEF at
<1>4. /\ messagePayloads' \in Seq(Frames) /\ InOrder(messagePayloads')
      /\ Waiting(messagePayloads') = Waiting(messagePayloads) \ {m0}
  <2>1. CASE at = 1
    <3>1. messagePayloads # <<>> /\ \A j \in LiveIn(messagePayloads) : at <= j
      BY <1>1, <1>3, <2>1, WaitingFacts
    <3>2. messagePayloads' = SubSeq(messagePayloads, at + 1, Len(messagePayloads))
      BY <1>1, <1>2, <2>1, <3>1, TailIsSubSeq
    <3> QED
      BY <1>1, <1>3, <3>1, <3>2, PopFacts
  <2>2. CASE at # 1
    BY <1>1, <1>2, <1>3, <2>2, DeleteFacts
  <2> QED
    BY <2>1, <2>2
<1>5. T!Abstract!Take /\ Kept
  BY <1>2, <1>3, <1>4, TakeFacts
<1>6. m0 \in Urgent(messagePayloads)
  BY <1>3 DEF Urgent, Waiting, T!Message
<1>7. Urgent(messagePayloads') = Urgent(messagePayloads) \ {m0}
  BY <1>4 DEF Urgent
<1> HIDE DEF m0
<1>8. IsFiniteSet(Urgent(messagePayloads')) /\ Cardinality(Urgent(messagePayloads')) <= prioritizedCount'
  <2>1. Cardinality(Urgent(messagePayloads)) \in Nat
    BY <1>1, FS_CardinalityType
  <2>2. /\ IsFiniteSet(Urgent(messagePayloads) \ {m0})
        /\ Cardinality(Urgent(messagePayloads) \ {m0}) = Cardinality(Urgent(messagePayloads)) - 1
    BY <1>1, <1>6, FS_RemoveElement
  <2>3. Cardinality(Urgent(messagePayloads)) - 1 <= prioritizedCount - 1
    BY <1>1, <2>1
  <2> QED
    BY <1>2, <1>7, <2>2, <2>3
<1>9. prioritizedCount' \in 0 .. CountRange - 1
  BY <1>1, <1>2
<1>10. \A m \in Waiting(messagePayloads') : m.stamp <= forwards'
  BY <1>1, <1>2, <1>4
<1> QED
  BY <1>1, <1>2, <1>4, <1>5, <1>8, <1>9, <1>10 DEF MailboxInv

\* Without one, the first message that is not deleted goes, or none.
LEMMA HeadStep ==
  ASSUME MailboxInv, T!GetHead
  PROVE  MailboxInv' /\ (T!Abstract!Take \/ T!Abstract!TakeNothing) /\ Kept
<1> DEFINE at == T!SelectInSeq(messagePayloads, LAMBDA f : ~f.deleted)
           m0 == T!Message(messagePayloads[at])
<1>1. /\ messagePayloads \in Seq(Frames) /\ InOrder(messagePayloads) /\ forwards \in Nat
      /\ prioritizedCount \in 0 .. CountRange - 1 /\ CountRange \in Nat \ {0}
      /\ \A m \in Waiting(messagePayloads) : m.stamp <= forwards
      /\ IsFiniteSet(Urgent(messagePayloads))
      /\ Cardinality(Urgent(messagePayloads)) <= prioritizedCount
  BY StructuresAssumption DEF MailboxInv, StructuresAssumption, T!TelemetryQueueAssumption
<1>2. /\ prioritizedCount > 0 => T!FirstPrioritised = 0
      /\ prioritizedCount' = 0 /\ forwards' = forwards
      /\ IF at = 0 THEN payload' = {} /\ messagePayloads' = <<>>
         ELSE /\ payload' = {m0}
              /\ messagePayloads' = SubSeq(messagePayloads, at + 1, Len(messagePayloads))
  BY DEF T!GetHead
<1>3. Urgent(messagePayloads) = {}
  <2>1. CASE prioritizedCount > 0
    BY <1>1, <1>2, <2>1, FirstFacts
  <2>2. CASE prioritizedCount = 0
    <3>1. Cardinality(Urgent(messagePayloads)) \in Nat
      BY <1>1, FS_CardinalityType
    <3>2. Cardinality(Urgent(messagePayloads)) = 0
      BY <1>1, <2>2, <3>1
    <3> QED
      BY <1>1, <3>2, FS_EmptySet
  <2> QED
    BY <1>1, <2>1, <2>2
<1>4. /\ at = 0 => Waiting(messagePayloads) = {}
      /\ at # 0 => at \in LiveIn(messagePayloads) /\ \A j \in LiveIn(messagePayloads) : at <= j
  BY <1>1, HeadFacts
<1> HIDE DEF at
<1>5. /\ messagePayloads' \in Seq(Frames) /\ InOrder(messagePayloads')
      /\ Waiting(messagePayloads') \subseteq Waiting(messagePayloads)
      /\ at # 0 => Waiting(messagePayloads') = Waiting(messagePayloads) \ {m0}
      /\ at = 0 => Waiting(messagePayloads') = {}
  <2>1. CASE at = 0
    <3>1. <<>> \in Seq(Frames) /\ LiveIn(<<>>) = {}
      BY DEF LiveIn
    <3>2. InOrder(<<>>) /\ Waiting(<<>>) = {}
      BY <3>1 DEF InOrder, Waiting
    <3> QED
      BY <1>2, <2>1, <3>1, <3>2
  <2>2. CASE at # 0
    BY <1>1, <1>2, <1>4, <2>2, PopFacts
  <2> QED
    BY <2>1, <2>2
<1>6. IsFiniteSet(Urgent(messagePayloads')) /\ Cardinality(Urgent(messagePayloads')) <= prioritizedCount'
  <2>1. Urgent(messagePayloads') = {}
    BY <1>3, <1>5 DEF Urgent
  <2> QED
    BY <1>2, <2>1, FS_EmptySet
<1>7. MailboxInv'
  <2>1. \A m \in Waiting(messagePayloads') : m.stamp <= forwards'
    BY <1>1, <1>2, <1>5
  <2>2. prioritizedCount' \in 0 .. CountRange - 1
    BY <1>1, <1>2
  <2> QED
    BY <1>1, <1>2, <1>5, <1>6, <2>1, <2>2 DEF MailboxInv
<1>8. CASE at = 0
  <2>1. T!Pending = {} /\ T!Pending' = {}
    BY <1>4, <1>5, <1>8, PendingWaits
  <2> QED
    BY <1>2, <1>7, <1>8, <2>1 DEF T!Abstract!TakeNothing, Kept
<1>9. CASE at # 0
  <2>1. payload' = {m0} /\ Waiting(messagePayloads)' = Waiting(messagePayloads) \ {m0}
    BY <1>2, <1>5, <1>9
  <2>2. T!Abstract!Take /\ Kept
    BY <1>2, <1>3, <1>4, <1>9, <2>1, TakeFacts
  <2> QED
    BY <1>7, <2>2
<1> QED
  BY <1>8, <1>9

\* At the start nothing waits.
LEMMA MailboxInitInv == T!Init => MailboxInv /\ T!Abstract!MailboxInit
<1> SUFFICES ASSUME T!Init
             PROVE  MailboxInv /\ T!Abstract!MailboxInit
  OBVIOUS
<1>1. messagePayloads = <<>> /\ prioritizedCount = 0 /\ forwards = 0 /\ payload = {}
  BY DEF T!Init
<1>2. <<>> \in Seq(Frames) /\ LiveIn(<<>>) = {}
  BY DEF LiveIn
<1>3. InOrder(<<>>) /\ Waiting(<<>>) = {} /\ Urgent(<<>>) = {}
  BY <1>2 DEF InOrder, Waiting, Urgent
<1>4. 0 \in 0 .. CountRange - 1
  BY StructuresAssumption DEF StructuresAssumption, T!TelemetryQueueAssumption
<1>5. MailboxInv
  BY <1>1, <1>2, <1>3, <1>4, FS_EmptySet DEF MailboxInv
<1>6. T!Pending = {}
  BY <1>1, <1>3, PendingWaits
<1> QED
  BY <1>1, <1>5, <1>6 DEF T!Abstract!MailboxInit

\* Every step of the queue, or none.
LEMMA MailboxStep ==
  ASSUME MailboxInv, [T!Next /\ ~T!Wraps]_(T!vars)
  PROVE  /\ MailboxInv' /\ [T!Abstract!MailboxNext]_(T!Abstract!mailboxVars)
         /\ [Kept]_(T!vars)
<1>1. ASSUME NEW kind \in Kinds, NEW size \in Sizes, T!ForwardMessage(kind, size), ~T!Wraps
      PROVE  MailboxInv' /\ T!Abstract!MailboxNext /\ Kept
  BY <1>1, ForwardStep DEF T!Abstract!MailboxNext
<1>2. CASE T!GetPrioritised
  BY <1>2, PrioritisedStep DEF T!Abstract!MailboxNext
<1>3. CASE T!GetHead
  BY <1>3, HeadStep DEF T!Abstract!MailboxNext
<1>4. CASE UNCHANGED T!vars
  <2>1. UNCHANGED <<messagePayloads, prioritizedCount, forwards, payload>>
    BY <1>4 DEF T!vars
  <2>2. MailboxInv'
    BY <2>1 DEF MailboxInv, InOrder, Waiting, LiveIn, Urgent
  <2>3. T!Pending' = T!Pending
    BY <2>1, PendingWaits DEF Waiting, LiveIn
  <2> QED
    BY <1>4, <2>1, <2>2, <2>3 DEF T!Abstract!mailboxVars
<1> QED
  BY <1>1, <1>2, <1>3, <1>4 DEF T!Next, T!GetNextPayload

\* While the count does not wrap, the queue keeps each message that waits apart by its
\* stamp, in the order of the stamps, and counts those that go first.
THEOREM MailboxInvariant == T!CountedSpec => []MailboxInv
<1>1. MailboxInv /\ [T!Next /\ ~T!Wraps]_(T!vars) => MailboxInv'
  BY MailboxStep
<1> QED
  BY MailboxInitInv, <1>1, PTL DEF T!CountedSpec

\* The queue of telemetry is a mailbox: the newest reading of each kind, the events in
\* their order, those that go first before the others; and a message that waits goes by
\* being sent, by a newer one of its kind, or for lack of room (forwardMessage and
\* GetNextPayload).
THEOREM QueueIsMailbox == T!CountedSpec => ImplementsMailbox
<1>1. MailboxInv /\ [T!Next /\ ~T!Wraps]_(T!vars) =>
        [T!Abstract!MailboxNext]_(T!Abstract!mailboxVars) /\ [Kept]_(T!vars)
  BY MailboxStep
<1>2. T!CountedSpec => T!ImplementsMailbox
  BY MailboxInvariant, MailboxInitInv, <1>1, PTL
     DEF T!CountedSpec, T!ImplementsMailbox, T!Abstract!MailboxSpec
<1>3. T!CountedSpec => [][Kept]_(T!vars)
  BY MailboxInvariant, <1>1, PTL DEF T!CountedSpec
<1>4. T!LostOnlyToRoom <=> [][Kept]_(T!vars)
  BY DEF T!LostOnlyToRoom, Kept
<1> QED
  BY <1>2, <1>3, <1>4 DEF ImplementsMailbox

-------------------------------------------------------------------------------
(* The receiver's MAVLink parameters.                                      *)

\* What ends a frame: values of parameters, one of each at most.
Told == {u \in SUBSET (RxParams \X (0 .. 1)) : \A p, q \in u : p[1] = q[1] => p = q}

AnswerKinds == {"ftp", "ack", "version", "text", "heartbeat"}

RxTyped ==
  /\ config \in [RxParams -> 0 .. 1] /\ known \in [RxParams -> 0 .. 1]
  /\ modified \in BOOLEAN /\ setSinceCommit \in BOOLEAN /\ expired \in BOOLEAN
  /\ paramMask \subseteq RxParams /\ setReplyPending \in BOOLEAN
  /\ setReplyPending => setIndex \in RxParams
  /\ replies \subseteq AnswerKinds
  /\ downlinkQueue \in Seq(Told) /\ downlinkAhead \in 0 .. Len(downlinkQueue)
  /\ sender \in [active : BOOLEAN, units : Seq(Told)]
  /\ ~sender.active => sender.units = <<>>

\* downlinkAhead reaches to the last value that waits in the queue.
AheadReaches == \A k \in DOMAIN downlinkQueue : downlinkQueue[k] # {} => k <= downlinkAhead

\* Some of these units has a value of parameter p.
Mentions(u, p) == \E pair \in u : pair[1] = p
MentionsIn(units, p) == \E k \in DOMAIN units : Mentions(units[k], p)

\* The last of them is the setting.
EndsTrue(units, p) ==
  \E k \in DOMAIN units :
    /\ <<p, config[p]>> \in units[k]
    /\ \A j \in DOMAIN units : k < j => ~Mentions(units[j], p)

\* They all are.
AllTrue(units) == \A k \in DOMAIN units : \A pair \in units[k] : pair[2] = config[pair[1]]

\* The ground station knows a setting, or will by what is on the way, or will be told,
\* if no driver took its value along.
KnownInTheEnd(p) ==
  \/ p \in paramMask \/ (setReplyPending /\ p = setIndex)
  \/ EndsTrue(downlinkQueue, p)
  \/ /\ ~MentionsIn(downlinkQueue, p)
     /\ \/ p \in thrown
        \/ EndsTrue(sender.units, p)
        \/ ~MentionsIn(sender.units, p) /\ known[p] = config[p]

\* If nothing was written since the commit, it knows them all.
KnownSinceCommit ==
  ~setSinceCommit /\ ~expired =>
    /\ AllTrue(downlinkQueue) /\ AllTrue(sender.units)
    /\ \A p \in RxParams \ thrown : known[p] = config[p]

RxServerInv ==
  /\ RxTyped /\ AheadReaches /\ KnownSinceCommit
  /\ \A p \in RxParams : KnownInTheEnd(p)

\* What waits and what comes behind it.
LEMMA BehindFacts ==
  ASSUME NEW a \in Seq(Told), NEW b \in Seq(Told)
  PROVE  /\ AllTrue(a) /\ AllTrue(b) => AllTrue(a \o b)
         /\ \A p : /\ MentionsIn(a \o b, p) => MentionsIn(a, p) \/ MentionsIn(b, p)
                   /\ EndsTrue(b, p) => EndsTrue(a \o b, p)
                   /\ EndsTrue(a, p) /\ ~MentionsIn(b, p) => EndsTrue(a \o b, p)
<1> DEFINE both == a \o b
           m == Len(a)
           n == Len(b)
<1>1. /\ both \in Seq(Told) /\ Len(both) = m + n /\ m \in Nat /\ n \in Nat
      /\ \A k \in 1 .. m + n : both[k] = IF k <= m THEN a[k] ELSE b[k - m]
  BY ConcatProperties
<1>2. DOMAIN a = 1 .. m /\ DOMAIN b = 1 .. n /\ DOMAIN both = 1 .. m + n
  BY <1>1
<1> HIDE DEF both, m, n
<1>3. /\ \A k \in DOMAIN a : k \in DOMAIN both /\ both[k] = a[k]
      /\ \A k \in DOMAIN b : k + m \in DOMAIN both /\ both[k + m] = b[k]
      /\ \A k \in DOMAIN both : (k \in DOMAIN a /\ both[k] = a[k])
                                  \/ (k - m \in DOMAIN b /\ both[k] = b[k - m])
  <2>1. \A k \in 1 .. m : k \in 1 .. m + n /\ k <= m
    BY <1>1
  <2>2. \A k \in 1 .. n : k + m \in 1 .. m + n /\ ~(k + m <= m) /\ (k + m) - m = k
    BY <1>1
  <2>3. \A k \in 1 .. m + n : (k \in 1 .. m /\ k <= m) \/ (k - m \in 1 .. n /\ ~(k <= m))
    BY <1>1
  <2>4. \A k \in 1 .. n : both[k + m] = b[k]
    BY <1>1, <2>2, Zenon
  <2> QED
    BY <1>1, <1>2, <2>1, <2>2, <2>3, <2>4, Zenon
<1>4. AllTrue(a) /\ AllTrue(b) => AllTrue(both)
  BY <1>3 DEF AllTrue
<1>5. ASSUME NEW p
      PROVE  /\ MentionsIn(both, p) => MentionsIn(a, p) \/ MentionsIn(b, p)
             /\ EndsTrue(b, p) => EndsTrue(both, p)
             /\ EndsTrue(a, p) /\ ~MentionsIn(b, p) => EndsTrue(both, p)
  <2>1. MentionsIn(both, p) => MentionsIn(a, p) \/ MentionsIn(b, p)
    BY <1>3 DEF MentionsIn
  <2>2. ASSUME EndsTrue(b, p)
        PROVE  EndsTrue(both, p)
    <3>1. PICK k \in DOMAIN b : /\ <<p, config[p]>> \in b[k]
                                /\ \A j \in DOMAIN b : k < j => ~Mentions(b[j], p)
      BY <2>2 DEF EndsTrue
    <3>2. k + m \in DOMAIN both /\ <<p, config[p]>> \in both[k + m]
      BY <1>3, <3>1
    <3>3. ASSUME NEW j \in DOMAIN both, k + m < j
          PROVE  ~Mentions(both[j], p)
      <4>1. j - m \in DOMAIN b /\ k < j - m /\ both[j] = b[j - m]
        <5>1. ~(j \in DOMAIN a)
          BY <1>1, <1>2, <3>3
        <5>2. j - m \in DOMAIN b /\ both[j] = b[j - m]
          BY <1>3, <5>1
        <5>3. k \in Int /\ j \in Int /\ m \in Int
          BY <1>1, <1>2
        <5> QED
          BY <3>3, <5>2, <5>3
      <4> QED
        BY <3>1, <4>1
    <3> QED
      BY <3>2, <3>3 DEF EndsTrue
  <2>3. ASSUME EndsTrue(a, p), ~MentionsIn(b, p)
        PROVE  EndsTrue(both, p)
    <3>1. PICK k \in DOMAIN a : /\ <<p, config[p]>> \in a[k]
                                /\ \A j \in DOMAIN a : k < j => ~Mentions(a[j], p)
      BY <2>3 DEF EndsTrue
    <3>2. k \in DOMAIN both /\ <<p, config[p]>> \in both[k]
      BY <1>3, <3>1
    <3>3. \A j \in DOMAIN both : k < j => ~Mentions(both[j], p)
      BY <1>3, <2>3, <3>1, SMTT(40) DEF MentionsIn
    <3> QED
      BY <3>2, <3>3 DEF EndsTrue
  <2> QED
    BY <2>1, <2>2, <2>3
<1> QED
  BY <1>4, <1>5 DEF both

\* What is cut off the front, and what is left.
LEMMA CutFacts ==
  ASSUME NEW units \in Seq(Told), NEW n \in 0 .. Len(units)
  PROVE  LET front == SubSeq(units, 1, n)
             back == SubSeq(units, n + 1, Len(units)) IN
         /\ front \in Seq(Told) /\ back \in Seq(Told) /\ Len(back) = Len(units) - n
         /\ \A k \in 1 .. Len(units) - n : back[k] = units[n + k] /\ n + k \in DOMAIN units
         /\ AllTrue(units) => AllTrue(front) /\ AllTrue(back)
         /\ \A p : /\ MentionsIn(front, p) \/ MentionsIn(back, p) => MentionsIn(units, p)
                   /\ EndsTrue(units, p) =>
                        \/ EndsTrue(back, p)
                        \/ EndsTrue(front, p) /\ ~MentionsIn(back, p)
<1> DEFINE front == SubSeq(units, 1, n)
           back == SubSeq(units, n + 1, Len(units))
           len == Len(units)
<1>1. len \in Nat /\ n \in Nat /\ n <= len /\ \A k \in 1 .. len : units[k] \in Told
  OBVIOUS
<1>2. /\ front \in Seq(Told) /\ Len(front) = n
      /\ \A k \in 1 .. n : front[k] = units[k]
  <2>1. \A k \in 1 .. n : units[k] \in Told
    BY <1>1
  <2> QED
    BY <1>1, <2>1, SubSeqProperties
<1>3. /\ back \in Seq(Told) /\ Len(back) = len - n
      /\ \A k \in 1 .. len - n : back[k] = units[n + k]
  <2>1. \A k \in n + 1 .. len : units[k] \in Told
    BY <1>1
  <2>2. /\ back \in Seq(Told) /\ Len(back) = IF n + 1 <= len THEN len - (n + 1) + 1 ELSE 0
        /\ \A k \in 1 .. len - (n + 1) + 1 : back[k] = units[(n + 1) + k - 1]
    BY <1>1, <2>1, SubSeqProperties
  <2> HIDE DEF back, len
  <2>3. Len(back) = len - n
    BY <1>1, <2>2
  <2>4. \A k \in 1 .. len - n : k \in 1 .. len - (n + 1) + 1 /\ (n + 1) + k - 1 = n + k
    BY <1>1
  <2> QED
    BY <2>2, <2>3, <2>4
<1>4. DOMAIN units = 1 .. len /\ DOMAIN front = 1 .. n /\ DOMAIN back = 1 .. len - n
  BY <1>2, <1>3
<1> HIDE DEF front, back, len
<1>5. /\ \A k \in DOMAIN front : k \in DOMAIN units /\ front[k] = units[k]
      /\ \A k \in DOMAIN back : n + k \in DOMAIN units /\ back[k] = units[n + k]
      /\ \A k \in DOMAIN units : k \in DOMAIN front \/ k - n \in DOMAIN back
  <2>1. \A k \in 1 .. n : k \in 1 .. len
    BY <1>1
  <2>2. \A k \in 1 .. len - n : n + k \in 1 .. len
    BY <1>1
  <2>3. \A k \in 1 .. len : k \in 1 .. n \/ k - n \in 1 .. len - n
    BY <1>1
  <2> QED
    BY <1>2, <1>3, <1>4, <2>1, <2>2, <2>3, Zenon
<1>6. AllTrue(units) => AllTrue(front) /\ AllTrue(back)
  BY <1>5 DEF AllTrue
<1>7. ASSUME NEW p
      PROVE  /\ MentionsIn(front, p) \/ MentionsIn(back, p) => MentionsIn(units, p)
             /\ EndsTrue(units, p) => \/ EndsTrue(back, p)
                                      \/ EndsTrue(front, p) /\ ~MentionsIn(back, p)
  <2>1. MentionsIn(front, p) \/ MentionsIn(back, p) => MentionsIn(units, p)
    BY <1>5 DEF MentionsIn
  <2>2. ASSUME EndsTrue(units, p)
        PROVE  EndsTrue(back, p) \/ (EndsTrue(front, p) /\ ~MentionsIn(back, p))
    <3>1. PICK k \in DOMAIN units : /\ <<p, config[p]>> \in units[k]
                                    /\ \A j \in DOMAIN units : k < j => ~Mentions(units[j], p)
      BY <2>2 DEF EndsTrue
    <3>2. CASE k \in DOMAIN front
      <4>1. \A j \in DOMAIN front : k < j => ~Mentions(front[j], p)
        BY <1>5, <3>1
      <4>2. EndsTrue(front, p)
        BY <1>5, <3>1, <3>2, <4>1 DEF EndsTrue
      <4>3. \A j \in DOMAIN back : k < n + j
        BY <1>1, <1>4, <3>2
      <4>4. \A j \in DOMAIN back : ~Mentions(back[j], p)
        BY <1>5, <3>1, <4>3
      <4> QED
        BY <4>2, <4>4 DEF MentionsIn
    <3>3. CASE k - n \in DOMAIN back
      <4>1. n + (k - n) = k
        BY <1>1, <1>4
      <4>2. <<p, config[p]>> \in back[k - n]
        BY <1>5, <3>1, <3>3, <4>1
      <4>3. \A j \in DOMAIN back : k - n < j => k < n + j
        BY <1>1, <1>4
      <4>4. \A j \in DOMAIN back : k - n < j => ~Mentions(back[j], p)
        BY <1>5, <3>1, <4>3
      <4> QED
        BY <3>3, <4>2, <4>4 DEF EndsTrue
    <3> QED
      BY <1>5, <3>2, <3>3
  <2> QED
    BY <2>1, <2>2
<1> QED
  BY <1>2, <1>3, <1>4, <1>5, <1>6, <1>7 DEF front, back, len

\* An answer takes no unit of a value, whatever its length.
LEMMA AnswerFacts ==
  ASSUME NEW answers \in SUBSET AnswerKinds
  PROVE  R!Cardinality(answers) \in Nat
<1>1. IsFiniteSet(AnswerKinds)
  <2>1. IsFiniteSet({}) /\ \A S, x : IsFiniteSet(S) => IsFiniteSet(S \union {x})
    BY FS_EmptySet, FS_AddElement
  <2>2. AnswerKinds = (((({} \union {"ftp"}) \union {"ack"}) \union {"version"})
                         \union {"text"}) \union {"heartbeat"}
    BY DEF AnswerKinds
  <2> QED
    BY <2>1, <2>2
<1>2. IsFiniteSet(answers)
  BY <1>1, FS_Subset
<1>3. R!Cardinality(answers) = Cardinality(answers)
  BY DEF R!Cardinality, Cardinality
<1> QED
  BY <1>2, <1>3, FS_CardinalityType

\* What is known in the end stays so while the values, their way and the setting stay.
LEMMA SettledStep ==
  ASSUME RxServerInv,
         UNCHANGED <<config, downlinkQueue, downlinkAhead, known, thrown>>,
         sender' = sender \/ (sender' \in [active : BOOLEAN, units : {<<>>}] /\ sender.units = <<>>),
         modified' \in BOOLEAN, setSinceCommit' \in BOOLEAN, expired' \in BOOLEAN,
         ~setSinceCommit' /\ ~expired' => KnownSinceCommit',
         paramMask \subseteq paramMask', paramMask' \subseteq RxParams,
         UNCHANGED <<setReplyPending, setIndex>>,
         replies' \subseteq AnswerKinds
  PROVE  RxServerInv'
<1>1. sender' \in [active : BOOLEAN, units : Seq(Told)] /\ sender'.units = sender.units
      /\ (~sender'.active => sender'.units = <<>>)
  BY DEF RxServerInv, RxTyped
<1>2. RxTyped'
  BY <1>1 DEF RxServerInv, RxTyped
<1>3. AheadReaches'
  BY DEF RxServerInv, AheadReaches
<1>4. KnownSinceCommit'
  BY DEF KnownSinceCommit
<1>5. \A p \in RxParams : KnownInTheEnd(p)'
  BY <1>1 DEF RxServerInv, KnownInTheEnd, EndsTrue, MentionsIn, Mentions
<1> QED
  BY <1>2, <1>3, <1>4, <1>5 DEF RxServerInv

\* A write: the setting waits for its reply, and the one before it for its value.
LEMMA WriteStep ==
  ASSUME RxServerInv, NEW p \in RxParams, NEW v \in 0 .. 1, R!Set(p, v)
  PROVE  RxServerInv'
<1>1. /\ config' = [config EXCEPT ![p] = v] /\ setSinceCommit' = TRUE /\ expired' = FALSE
      /\ modified' = (modified \/ v # config[p])
      /\ paramMask' = (IF setReplyPending /\ setIndex # p THEN paramMask \union {setIndex}
                       ELSE paramMask)
      /\ setReplyPending' = TRUE /\ setIndex' = p
      /\ UNCHANGED <<replies, downlinkQueue, downlinkAhead, sender, known, thrown>>
  BY DEF R!Set, R!Accept, R!linkVars, R!queueVars
<1>2. RxTyped'
  <2>1. config' \in [RxParams -> 0 .. 1] /\ paramMask' \subseteq RxParams
    BY <1>1 DEF RxServerInv, RxTyped
  <2>2. modified' \in BOOLEAN
    BY <1>1
  <2> QED
    BY <1>1, <2>1, <2>2 DEF RxServerInv, RxTyped
<1>3. AheadReaches' /\ KnownSinceCommit'
  BY <1>1 DEF RxServerInv, AheadReaches, KnownSinceCommit
<1>4. ASSUME NEW q \in RxParams
      PROVE  KnownInTheEnd(q)'
  <2>1. CASE q = p
    BY <1>1, <2>1 DEF KnownInTheEnd
  <2>2. CASE q # p
    <3>1. config'[q] = config[q]
      BY <1>1, <2>2 DEF RxServerInv, RxTyped
    <3>2. KnownInTheEnd(q)
      BY DEF RxServerInv
    <3>3. CASE q \in paramMask \/ (setReplyPending /\ q = setIndex)
      BY <1>1, <2>2, <3>3 DEF KnownInTheEnd
    <3>4. CASE ~(q \in paramMask \/ (setReplyPending /\ q = setIndex))
      BY <1>1, <3>1, <3>2, <3>4 DEF KnownInTheEnd, EndsTrue, MentionsIn
    <3> QED
      BY <3>3, <3>4
  <2> QED
    BY <2>1, <2>2
<1> QED
  BY <1>2, <1>3, <1>4 DEF RxServerInv

\* What is put behind the queue.
LEMMA QueuedStep ==
  ASSUME RxServerInv, NEW frame \in Seq(Told),
         downlinkQueue' = downlinkQueue \o frame,
         downlinkAhead' \in 0 .. Len(downlinkQueue'),
         AllTrue(frame),
         IF \E k \in DOMAIN frame : frame[k] # {}
           THEN downlinkAhead' = Len(downlinkQueue') ELSE downlinkAhead <= downlinkAhead',
         UNCHANGED <<config, modified, setSinceCommit, expired, sender, known, thrown>>,
         paramMask' \subseteq RxParams, setReplyPending' \in BOOLEAN,
         setReplyPending' => setReplyPending /\ setIndex' = setIndex,
         replies' \subseteq AnswerKinds,
         \A p \in RxParams : p \in paramMask \/ (setReplyPending /\ p = setIndex) =>
           p \in paramMask' \/ (setReplyPending' /\ p = setIndex') \/ EndsTrue(frame, p),
         \A p \in RxParams : MentionsIn(frame, p) => EndsTrue(frame, p)
  PROVE  RxServerInv'
<1> DEFINE queue == downlinkQueue
<1>1. queue \in Seq(Told) /\ queue \o frame \in Seq(Told)
      /\ Len(queue \o frame) = Len(queue) + Len(frame) /\ Len(queue) \in Nat /\ Len(frame) \in Nat
      /\ \A k \in 1 .. Len(queue) + Len(frame) :
           (queue \o frame)[k] = IF k <= Len(queue) THEN queue[k] ELSE frame[k - Len(queue)]
  BY ConcatProperties DEF RxServerInv, RxTyped
<1>2. RxTyped'
  BY <1>1 DEF RxServerInv, RxTyped
<1>3. /\ AllTrue(queue) /\ AllTrue(frame) => AllTrue(queue \o frame)
      /\ \A p : /\ MentionsIn(queue \o frame, p) => MentionsIn(queue, p) \/ MentionsIn(frame, p)
                /\ EndsTrue(frame, p) => EndsTrue(queue \o frame, p)
                /\ EndsTrue(queue, p) /\ ~MentionsIn(frame, p) => EndsTrue(queue \o frame, p)
  BY <1>1, BehindFacts
<1>4. AheadReaches'
  <2>1. CASE \E k \in DOMAIN frame : frame[k] # {}
    BY <1>1, <2>1 DEF AheadReaches
  <2>2. CASE ~\E k \in DOMAIN frame : frame[k] # {}
    <3>1. \A k \in 1 .. Len(frame) : frame[k] = {}
      BY <1>1, <2>2
    <3>2. \A k \in 1 .. Len(queue) : queue[k] # {} => k <= downlinkAhead
      BY <1>1 DEF RxServerInv, AheadReaches
    <3> SUFFICES ASSUME NEW k \in 1 .. Len(queue) + Len(frame), (queue \o frame)[k] # {}
                 PROVE  k <= downlinkAhead'
      BY <1>1 DEF AheadReaches
    <3>3. k <= Len(queue)
      <4>1. ~(k <= Len(queue)) => k - Len(queue) \in 1 .. Len(frame)
        BY <1>1
      <4> QED
        BY <1>1, <3>1, <4>1
    <3>4. k \in 1 .. Len(queue) /\ k <= downlinkAhead
      BY <1>1, <3>2, <3>3
    <3>5. downlinkAhead \in Nat /\ downlinkAhead' \in Nat
      BY <1>1 DEF RxServerInv, RxTyped
    <3> QED
      BY <2>2, <3>4, <3>5
  <2> QED
    BY <2>1, <2>2
<1>5. KnownSinceCommit'
  BY <1>3 DEF RxServerInv, KnownSinceCommit, AllTrue
<1>6. ASSUME NEW p \in RxParams
      PROVE  KnownInTheEnd(p)'
  <2>1. KnownInTheEnd(p)
    BY DEF RxServerInv
  <2>2. EndsTrue(downlinkQueue', p) => EndsTrue(downlinkQueue, p)'
    BY DEF EndsTrue, Mentions
  <2>3. CASE EndsTrue(frame, p)
    BY <1>3, <2>2, <2>3 DEF KnownInTheEnd
  <2>4. CASE ~EndsTrue(frame, p)
    <3>1. ~MentionsIn(frame, p)
      BY <2>4
    <3>2. CASE p \in paramMask \/ (setReplyPending /\ p = setIndex)
      BY <2>4, <3>2 DEF KnownInTheEnd
    <3>3. CASE EndsTrue(queue, p)
      BY <1>3, <2>2, <3>1, <3>3 DEF KnownInTheEnd
    <3>4. CASE ~MentionsIn(queue, p) /\ (\/ p \in thrown
                                         \/ EndsTrue(sender.units, p)
                                         \/ ~MentionsIn(sender.units, p) /\ known[p] = config[p])
      <4>1. ~MentionsIn(downlinkQueue', p)
        BY <1>3, <3>1, <3>4
      <4> QED
        BY <3>4, <4>1 DEF KnownInTheEnd, EndsTrue, MentionsIn, Mentions
    <3> QED
      BY <2>1, <3>2, <3>3, <3>4 DEF KnownInTheEnd
  <2> QED
    BY <2>3, <2>4
<1> QED
  BY <1>2, <1>4, <1>5, <1>6 DEF RxServerInv

\* A frame of tick(): answers without a value, or values as they are.
LEMMA TickStep ==
  ASSUME RxServerInv, R!RxTick
  PROVE  RxServerInv'
<1>1. PICK answers \in SUBSET replies, told0 \in SUBSET R!Wanted(config) :
        R!Tick(config, answers, told0) /\ R!QueueFrame(R!Frame(answers, told0))
  BY DEF R!RxTick
<1> DEFINE frame == R!Frame(answers, told0)
           pairs == {<<p, config[p]>> : p \in told0}
<1>2. /\ RxTyped /\ downlinkQueue \in Seq(Told) /\ config \in [RxParams -> 0 .. 1]
      /\ R!Cardinality(answers) \in Nat
  BY AnswerFacts DEF RxServerInv, RxTyped
<1>3. R!Wanted(config) \subseteq RxParams
  BY <1>2 DEF R!Wanted, R!Differing, RxTyped
<1>4. pairs \in Told /\ {} \in Told
  BY <1>2, <1>3 DEF Told
<1>5. frame = IF told0 # {} THEN <<{}, pairs>> ELSE [u \in 1 .. R!Cardinality(answers) |-> {}]
  BY DEF R!Frame
<1>6. /\ paramMask' = R!Wanted(config) \ told0
      /\ setReplyPending' = (setReplyPending /\ ~replyDue) /\ setIndex' = setIndex
      /\ replies' = replies \ answers
      /\ downlinkQueue' = downlinkQueue \o frame
      /\ downlinkAhead' = (IF frame = <<>> THEN downlinkAhead ELSE Len(downlinkQueue'))
      /\ UNCHANGED <<config, modified, setSinceCommit, expired, sender, known, thrown>>
  BY <1>1 DEF R!RxTick, R!Tick, R!QueueFrame, R!configVars
<1> HIDE DEF pairs, frame
<1>7. /\ frame \in Seq(Told)
      /\ frame = <<>> => ~\E k \in DOMAIN frame : frame[k] # {}
      /\ told0 = {} => \A k \in DOMAIN frame : frame[k] = {}
      /\ told0 # {} => DOMAIN frame = 1 .. 2 /\ frame[1] = {} /\ frame[2] = pairs
  <2>1. CASE told0 = {}
    <3>1. frame = [u \in 1 .. R!Cardinality(answers) |-> {}]
      BY <1>5, <2>1
    <3>2. frame \in Seq(Told)
      <4> DEFINE n == R!Cardinality(answers)
      <4>1. n \in Nat /\ frame = [u \in 1 .. n |-> {}]
        BY <1>2, <3>1
      <4> HIDE DEF n
      <4>2. frame \in [1 .. n -> Told]
        BY <1>4, <4>1
      <4> QED
        BY <4>1, <4>2, SeqDef
    <3> QED
      BY <2>1, <3>1, <3>2
  <2>2. CASE told0 # {}
    BY <1>4, <1>5, <2>2
  <2> QED
    BY <2>1, <2>2
<1>8. AllTrue(frame)
  <2>1. \A pair \in pairs : pair[2] = config[pair[1]]
    BY DEF pairs
  <2> QED
    BY <1>7, <2>1 DEF AllTrue
<1>9. ASSUME NEW p \in told0
      PROVE  EndsTrue(frame, p)
  <2>1. 2 \in DOMAIN frame /\ <<p, config[p]>> \in frame[2] /\ \A j \in DOMAIN frame : ~(2 < j)
    BY <1>7, <1>9 DEF pairs
  <2> QED
    BY <2>1 DEF EndsTrue
<1>10. \A p \in RxParams : MentionsIn(frame, p) => EndsTrue(frame, p)
  <2>1. \A p : MentionsIn(frame, p) => p \in told0
    BY <1>7 DEF MentionsIn, Mentions, pairs
  <2> QED
    BY <1>9, <2>1
<1>11. \A p \in RxParams : p \in paramMask \/ (setReplyPending /\ p = setIndex) =>
         p \in paramMask' \/ (setReplyPending' /\ p = setIndex') \/ EndsTrue(frame, p)
  BY <1>6, <1>9 DEF R!Wanted
<1>12. /\ downlinkAhead' \in 0 .. Len(downlinkQueue')
       /\ IF \E k \in DOMAIN frame : frame[k] # {}
            THEN downlinkAhead' = Len(downlinkQueue') ELSE downlinkAhead <= downlinkAhead'
  <2>1. Len(downlinkQueue') = Len(downlinkQueue) + Len(frame)
        /\ Len(downlinkQueue) \in Nat /\ Len(frame) \in Nat
    BY <1>2, <1>6, <1>7, ConcatProperties
  <2>2. downlinkAhead \in 0 .. Len(downlinkQueue)
    BY <1>2 DEF RxTyped
  <2>3. frame = <<>> => Len(frame) = 0
    OBVIOUS
  <2>4. CASE frame = <<>>
    BY <1>6, <1>7, <2>1, <2>2, <2>3, <2>4
  <2>5. CASE frame # <<>>
    BY <1>6, <2>1, <2>2, <2>5
  <2> QED
    BY <2>4, <2>5
<1>13. /\ paramMask' \subseteq RxParams /\ setReplyPending' \in BOOLEAN
       /\ setReplyPending' => setReplyPending /\ setIndex' = setIndex
       /\ replies' \subseteq AnswerKinds
  BY <1>2, <1>3, <1>6 DEF RxTyped
<1> QED
  BY <1>6, <1>7, <1>8, <1>10, <1>11, <1>12, <1>13, QueuedStep

\* A frame of the flight controller ends no value.
LEMMA FrameStep ==
  ASSUME RxServerInv, R!FcFrame
  PROVE  RxServerInv'
<1> DEFINE frame == <<{}>>
<1>1. /\ downlinkQueue' = Append(downlinkQueue, {}) /\ downlinkAhead' = downlinkAhead
      /\ UNCHANGED <<config, modified, setSinceCommit, expired, sender, known, thrown,
                     paramMask, setReplyPending, setIndex, replies>>
  BY DEF R!FcFrame, R!configVars, R!serverVars
<1>2. /\ RxTyped /\ downlinkQueue \in Seq(Told) /\ {} \in Told /\ frame \in Seq(Told)
      /\ DOMAIN frame = 1 .. 1 /\ frame[1] = {}
  BY DEF RxServerInv, RxTyped, Told
<1>3. downlinkQueue' = downlinkQueue \o frame
  BY <1>1, <1>2, AppendIsConcat
<1>4. /\ AllTrue(frame) /\ \A p : ~MentionsIn(frame, p)
      /\ ~\E k \in DOMAIN frame : frame[k] # {}
  BY <1>2 DEF AllTrue, MentionsIn, Mentions
<1>5. downlinkAhead' \in 0 .. Len(downlinkQueue') /\ downlinkAhead <= downlinkAhead'
  <2>1. Len(downlinkQueue') = Len(downlinkQueue) + 1 /\ Len(downlinkQueue) \in Nat
    BY <1>1, <1>2
  <2> QED
    BY <1>1, <1>2, <2>1 DEF RxTyped
<1> HIDE DEF frame
<1>6. /\ paramMask' \subseteq RxParams /\ setReplyPending' \in BOOLEAN
      /\ replies' \subseteq AnswerKinds
  BY <1>1, <1>2 DEF RxTyped
<1> QED
  BY <1>1, <1>2, <1>3, <1>4, <1>5, <1>6, QueuedStep

\* What was at the front of the queue is with the sender.
LEMMA TakeStep ==
  ASSUME RxServerInv, R!GetNextPayload
  PROVE  RxServerInv'
<1> DEFINE n == R!AtMost(PayloadUnits, Len(downlinkQueue))
           front == SubSeq(downlinkQueue, 1, n)
           back == SubSeq(downlinkQueue, n + 1, Len(downlinkQueue))
<1>1. /\ RxTyped /\ downlinkQueue \in Seq(Told) /\ Len(downlinkQueue) \in Nat
      /\ PayloadUnits \in Nat /\ downlinkAhead \in 0 .. Len(downlinkQueue)
  BY StructuresAssumption
     DEF RxServerInv, RxTyped, StructuresAssumption, R!RxMavlinkAssumption
<1>2. n \in 0 .. Len(downlinkQueue)
  BY <1>1 DEF R!AtMost
<1>3. /\ ~sender.active /\ sender' = [active |-> TRUE, units |-> front]
      /\ downlinkQueue' = back
      /\ downlinkAhead' = (IF n < downlinkAhead THEN downlinkAhead - n ELSE 0)
      /\ UNCHANGED <<config, modified, setSinceCommit, expired, known, thrown,
                     paramMask, setReplyPending, setIndex, replies>>
  BY DEF R!GetNextPayload, R!configVars, R!serverVars
<1>4. sender.units = <<>>
  BY <1>1, <1>3 DEF RxTyped
<1> HIDE DEF n
<1>5. /\ front \in Seq(Told) /\ back \in Seq(Told) /\ Len(back) = Len(downlinkQueue) - n
      /\ \A k \in 1 .. Len(downlinkQueue) - n :
           back[k] = downlinkQueue[n + k] /\ n + k \in DOMAIN downlinkQueue
      /\ AllTrue(downlinkQueue) => AllTrue(front) /\ AllTrue(back)
      /\ \A p : /\ MentionsIn(front, p) \/ MentionsIn(back, p) => MentionsIn(downlinkQueue, p)
                /\ EndsTrue(downlinkQueue, p) =>
                     \/ EndsTrue(back, p)
                     \/ EndsTrue(front, p) /\ ~MentionsIn(back, p)
  BY <1>1, <1>2, CutFacts
<1> HIDE DEF front, back
<1>6. sender'.units = front /\ sender'.active
  BY <1>3
<1>7. downlinkAhead' \in 0 .. Len(downlinkQueue')
  BY <1>1, <1>2, <1>3, <1>5
<1>8. RxTyped'
  BY <1>1, <1>3, <1>5, <1>6, <1>7 DEF RxTyped
<1>9. AheadReaches'
  <2> SUFFICES ASSUME NEW k \in 1 .. Len(downlinkQueue) - n, back[k] # {}
               PROVE  k <= downlinkAhead'
    BY <1>3, <1>5 DEF AheadReaches
  <2>1. n + k <= downlinkAhead
    BY <1>5 DEF RxServerInv, AheadReaches
  <2> QED
    BY <1>1, <1>2, <1>3, <2>1
<1>10. KnownSinceCommit'
  BY <1>3, <1>5, <1>6 DEF RxServerInv, KnownSinceCommit, AllTrue
<1>11. ASSUME NEW p \in RxParams
       PROVE  KnownInTheEnd(p)'
  <2>1. KnownInTheEnd(p)
    BY DEF RxServerInv
  <2>2. ~EndsTrue(sender.units, p)
    BY <1>4 DEF EndsTrue
  <2>3. /\ EndsTrue(downlinkQueue, p)' <=> EndsTrue(back, p)
        /\ MentionsIn(downlinkQueue, p)' <=> MentionsIn(back, p)
        /\ EndsTrue(sender.units, p)' <=> EndsTrue(front, p)
        /\ MentionsIn(sender.units, p)' <=> MentionsIn(front, p)
    BY <1>3, <1>6 DEF EndsTrue, MentionsIn, Mentions
  <2> QED
    BY <1>3, <1>5, <2>1, <2>2, <2>3 DEF KnownInTheEnd
<1> QED
  BY <1>8, <1>9, <1>10, <1>11 DEF RxServerInv

\* What the ground station knows of a parameter after a payload: the last value in it.
LEMMA LearnFacts ==
  ASSUME RxServerInv, R!PayloadArrives, NEW p \in RxParams
  PROVE  /\ known'[p] \in 0 .. 1
         /\ EndsTrue(sender.units, p) => known'[p] = config[p]
         /\ ~MentionsIn(sender.units, p) => known'[p] = known[p]
         /\ AllTrue(sender.units) => known'[p] \in {known[p], config[p]}
<1> DEFINE units == sender.units
           with == {k \in DOMAIN units : \E pair \in units[k] : pair[1] = p}
           last == CHOOSE k \in with : \A j \in with : j <= k
           value == CHOOSE pair \in units[last] : pair[1] = p
<1>1. known'[p] = IF with = {} THEN known[p] ELSE value[2]
  BY DEF R!PayloadArrives
<1>2. /\ units \in Seq(Told) /\ Len(units) \in Nat /\ DOMAIN units = 1 .. Len(units)
      /\ \A k \in DOMAIN units : units[k] \in Told
      /\ known[p] \in 0 .. 1 /\ config[p] \in 0 .. 1
  BY DEF RxServerInv, RxTyped
<1>3. with = {} <=> ~MentionsIn(units, p)
  BY DEF MentionsIn, Mentions
<1> HIDE DEF value
<1>4. ASSUME with # {}
      PROVE  last \in with /\ \A j \in with : j <= last
  <2> DEFINE n == Len(units)
             gaps == {n - k : k \in with}
  <2>1. n \in Nat /\ \A k \in with : k \in 1 .. n
    BY <1>2
  <2> HIDE DEF n, with
  <2>2. gaps \in SUBSET Nat /\ gaps # {}
    BY <1>4, <2>1
  <2>3. PICK k \in with : \A y \in gaps : n - k <= y
    BY <2>2, LeastExists
  <2>4. \A j \in with : j <= k
    <3> SUFFICES ASSUME NEW j \in with
                 PROVE  j <= k
      OBVIOUS
    <3>1. n - k <= n - j
      BY <2>3
    <3> QED
      BY <2>1, <3>1
  <2> QED
    BY <2>4
<1>5. ASSUME with # {}
      PROVE  value \in units[last] /\ value[1] = p
  BY <1>4, <1>5 DEF value
<1>6. ASSUME with # {}
      PROVE  value[2] \in 0 .. 1
  <2>1. last \in DOMAIN units /\ units[last] \in Told
    BY <1>2, <1>4, <1>6
  <2> QED
    BY <1>5, <1>6, <2>1 DEF Told
<1>7. ASSUME EndsTrue(units, p)
      PROVE  with # {} /\ value = <<p, config[p]>>
  <2>1. PICK k \in DOMAIN units : /\ <<p, config[p]>> \in units[k]
                                  /\ \A j \in DOMAIN units : k < j => ~Mentions(units[j], p)
    BY <1>7 DEF EndsTrue
  <2>2. k \in with
    BY <2>1
  <2>3. \A j \in with : ~(k < j) /\ j \in Int /\ k \in Int
    BY <1>2, <2>1 DEF Mentions
  <2>4. last = k
    <3>1. k <= last /\ last \in with
      BY <1>4, <2>2
    <3> HIDE DEF last, with
    <3> QED
      BY <2>2, <2>3, <3>1
  <2>5. value \in units[k] /\ value[1] = p /\ units[k] \in Told
    BY <1>2, <1>5, <2>2, <2>4
  <2> HIDE DEF last
  <2> QED
    BY <2>1, <2>2, <2>5 DEF Told
<1>8. ASSUME AllTrue(units), with # {}
      PROVE  value[2] = config[p]
  <2>1. last \in DOMAIN units
    BY <1>4, <1>8
  <2> QED
    BY <1>5, <1>8, <2>1 DEF AllTrue
<1> HIDE DEF with
<1>9. EndsTrue(units, p) => known'[p] = config[p]
  BY <1>1, <1>7
<1> HIDE DEF units
<1> QED
  BY <1>1, <1>2, <1>3, <1>6, <1>8, <1>9 DEF units

\* A payload arrives, and the ground station knows the last it tells of each parameter.
LEMMA LearnStep ==
  ASSUME RxServerInv, R!PayloadArrives
  PROVE  RxServerInv'
<1>1. /\ sender' = [active |-> FALSE, units |-> <<>>]
      /\ thrown' = {p \in thrown : known'[p] # config[p]}
      /\ UNCHANGED <<config, modified, setSinceCommit, expired, downlinkQueue, downlinkAhead,
                     paramMask, setReplyPending, setIndex, replies>>
  BY DEF R!PayloadArrives, R!configVars, R!serverVars, R!queueVars, R!Idle
<1>2. sender'.units = <<>> /\ ~sender'.active /\ sender' \in [active : BOOLEAN, units : Seq(Told)]
  BY <1>1
<1>3. \A p \in RxParams :
        /\ known'[p] \in 0 .. 1
        /\ EndsTrue(sender.units, p) => known'[p] = config[p]
        /\ ~MentionsIn(sender.units, p) => known'[p] = known[p]
        /\ AllTrue(sender.units) => known'[p] \in {known[p], config[p]}
  BY LearnFacts
<1>4. known' \in [RxParams -> 0 .. 1]
  <2>1. \E f : known' = [p \in RxParams |-> f[p]]
    <3>1. known' = [p \in RxParams |-> known'[p]]
      BY DEF R!PayloadArrives
    <3> QED
      BY <3>1
  <2> QED
    BY <1>3, <2>1
<1>5. RxTyped'
  BY <1>1, <1>2, <1>4 DEF RxServerInv, RxTyped
<1>6. AheadReaches'
  BY <1>1 DEF RxServerInv, AheadReaches
<1>7. KnownSinceCommit'
  <2> SUFFICES ASSUME ~setSinceCommit, ~expired
               PROVE  /\ AllTrue(downlinkQueue)' /\ AllTrue(sender.units)'
                      /\ \A p \in RxParams \ thrown' : known'[p] = config'[p]
    BY <1>1 DEF KnownSinceCommit
  <2>1. /\ AllTrue(downlinkQueue) /\ AllTrue(sender.units)
        /\ \A p \in RxParams \ thrown : known[p] = config[p]
    BY DEF RxServerInv, KnownSinceCommit
  <2>2. AllTrue(downlinkQueue)' /\ AllTrue(sender.units)'
    BY <1>1, <1>2, <2>1 DEF AllTrue
  <2>3. \A p \in RxParams \ thrown' : known'[p] = config[p]
    BY <1>1, <1>3, <2>1
  <2> QED
    BY <1>1, <2>2, <2>3
<1>8. ASSUME NEW p \in RxParams
      PROVE  KnownInTheEnd(p)'
  <2>1. KnownInTheEnd(p)
    BY DEF RxServerInv
  <2>2. /\ EndsTrue(downlinkQueue, p)' <=> EndsTrue(downlinkQueue, p)
        /\ MentionsIn(downlinkQueue, p)' <=> MentionsIn(downlinkQueue, p)
        /\ ~MentionsIn(sender.units, p)'
    BY <1>1, <1>2 DEF EndsTrue, MentionsIn, Mentions
  <2>3. CASE known'[p] = config[p]
    BY <1>1, <2>1, <2>2, <2>3 DEF KnownInTheEnd
  <2>4. CASE known'[p] # config[p]
    <3>1. p \in thrown => p \in thrown'
      BY <1>1, <2>4
    <3>2. ~EndsTrue(sender.units, p)
          /\ ~(~MentionsIn(sender.units, p) /\ known[p] = config[p])
      BY <1>3, <2>4
    <3> QED
      BY <1>1, <2>1, <2>2, <3>1, <3>2 DEF KnownInTheEnd
  <2> QED
    BY <2>3, <2>4
<1> QED
  BY <1>5, <1>6, <1>7, <1>8 DEF RxServerInv

\* A new driver has no queue: what was in it is thrown away.
LEMMA NewDriverStep ==
  ASSUME RxServerInv, R!Reconfigure
  PROVE  RxServerInv'
<1>1. /\ thrown' = thrown \union {pair[1] : pair \in R!Values(downlinkQueue)}
      /\ downlinkQueue' = <<>> /\ downlinkAhead' = 0
      /\ UNCHANGED <<config, modified, setSinceCommit, expired, sender, known,
                     paramMask, setReplyPending, setIndex, replies>>
  BY DEF R!Reconfigure, R!configVars, R!serverVars
<1>2. RxTyped'
  BY <1>1 DEF RxServerInv, RxTyped
<1>3. AheadReaches' /\ KnownSinceCommit'
  BY <1>1 DEF RxServerInv, AheadReaches, KnownSinceCommit, AllTrue
<1>4. \A p : EndsTrue(downlinkQueue, p) => p \in thrown'
  <2>1. \A k \in DOMAIN downlinkQueue : \A pair \in downlinkQueue[k] :
          pair \in R!Values(downlinkQueue)
    BY DEF R!Values, R!Range
  <2>2. \A p : EndsTrue(downlinkQueue, p) =>
                 \E pair \in R!Values(downlinkQueue) : pair[1] = p
    BY <2>1 DEF EndsTrue
  <2> QED
    BY <1>1, <2>2
<1>5. ASSUME NEW p \in RxParams
      PROVE  KnownInTheEnd(p)'
  <2>1. KnownInTheEnd(p)
    BY DEF RxServerInv
  <2>2. ~MentionsIn(downlinkQueue, p)'
    BY <1>1 DEF MentionsIn
  <2>3. /\ EndsTrue(sender.units, p)' <=> EndsTrue(sender.units, p)
        /\ MentionsIn(sender.units, p)' <=> MentionsIn(sender.units, p)
    BY <1>1 DEF EndsTrue, MentionsIn, Mentions
  <2> QED
    BY <1>1, <1>4, <2>1, <2>2, <2>3 DEF KnownInTheEnd
<1> QED
  BY <1>2, <1>3, <1>5 DEF RxServerInv

\* A commit that is not held finds nothing on the way, or nothing written.
LEMMA CommitFacts ==
  ASSUME RxServerInv, ~R!HoldCommit, ~expired
  PROVE  /\ AllTrue(downlinkQueue) /\ AllTrue(sender.units)
         /\ \A p \in RxParams \ thrown : known[p] = config[p]
<1>1. CASE ~setSinceCommit
  BY <1>1 DEF RxServerInv, KnownSinceCommit
<1>2. CASE setSinceCommit
  <2>1. ~R!HasPendingOutput /\ downlinkAhead = 0 /\ ~sender.active
    BY <1>2 DEF R!HoldCommit
  <2>2. paramMask = {} /\ ~setReplyPending
    BY <2>1 DEF R!HasPendingOutput
  <2>3. sender.units = <<>> /\ DOMAIN downlinkQueue = 1 .. Len(downlinkQueue)
    BY <2>1 DEF RxServerInv, RxTyped
  <2>4. \A k \in DOMAIN downlinkQueue : downlinkQueue[k] = {}
    BY <2>1, <2>3 DEF RxServerInv, AheadReaches
  <2>5. AllTrue(downlinkQueue) /\ AllTrue(sender.units)
    BY <2>3, <2>4 DEF AllTrue
  <2>6. \A p : ~EndsTrue(downlinkQueue, p) /\ ~EndsTrue(sender.units, p)
    BY <2>3, <2>4 DEF EndsTrue
  <2>7. \A p \in RxParams \ thrown : known[p] = config[p]
    BY <2>2, <2>6 DEF RxServerInv, KnownInTheEnd
  <2> QED
    BY <2>5, <2>7
<1> QED
  BY <1>1, <1>2 DEF RxServerInv, RxTyped

\* The steps that neither write nor move a value.
LEMMA OtherStep ==
  ASSUME RxServerInv,
         \/ \E p \in RxParams : R!SetRefused(p)
         \/ R!ReadOrAsk \/ R!ChangedElsewhere \/ R!OtherPayload
         \/ R!HoldExpires \/ R!Sync \/ R!LinkComesOrGoes \/ UNCHANGED R!vars
  PROVE  RxServerInv'
<1> USE DEF R!configVars, R!linkVars, R!queueVars, R!serverVars
<1>1. /\ RxTyped /\ paramMask \subseteq RxParams /\ replies \subseteq AnswerKinds
      /\ modified \in BOOLEAN /\ setSinceCommit \in BOOLEAN /\ expired \in BOOLEAN
  BY DEF RxServerInv, RxTyped
<1>2. ASSUME UNCHANGED <<config, downlinkQueue, known, thrown>>, sender'.units = sender.units,
             UNCHANGED <<setSinceCommit, expired>> \/ expired'
      PROVE  ~setSinceCommit' /\ ~expired' => KnownSinceCommit'
  BY <1>2 DEF RxServerInv, KnownSinceCommit, AllTrue
<1>3. ASSUME NEW p \in RxParams, R!SetRefused(p)
      PROVE  RxServerInv'
  <2>1. paramMask' = paramMask \union {p} /\ replies' = replies \union {"text"}
        /\ UNCHANGED <<config, downlinkQueue, downlinkAhead, known, thrown, sender, modified,
                       setSinceCommit, expired, setReplyPending, setIndex>>
    BY <1>3 DEF R!SetRefused, R!Locked, R!Refuse, R!RejectSet
  <2>2. paramMask \subseteq paramMask' /\ paramMask' \subseteq RxParams
        /\ replies' \subseteq AnswerKinds
    BY <1>1, <2>1 DEF AnswerKinds
  <2> QED
    BY <1>1, <1>2, <2>1, <2>2, SettledStep
<1>4. CASE R!ReadOrAsk
  <2>1. UNCHANGED <<config, downlinkQueue, downlinkAhead, known, thrown, sender, modified,
                    setSinceCommit, expired, setReplyPending, setIndex>>
    BY <1>4 DEF R!ReadOrAsk, R!RequestList, R!RequestRead, R!Ask, R!setVars
  <2>2. paramMask \subseteq paramMask' /\ paramMask' \subseteq RxParams
        /\ replies' \subseteq AnswerKinds
    BY <1>1, <1>4
       DEF R!ReadOrAsk, R!RequestList, R!RequestRead, R!Ask, R!Answers, AnswerKinds
  <2> QED
    BY <1>1, <1>2, <2>1, <2>2, SettledStep
<1>5. CASE R!ChangedElsewhere \/ R!Sync \/ R!LinkComesOrGoes \/ UNCHANGED R!vars
  <2>1. /\ UNCHANGED <<config, downlinkQueue, downlinkAhead, known, thrown, sender,
                       setSinceCommit, expired, setReplyPending, setIndex, paramMask, replies>>
        /\ modified' \in BOOLEAN
    BY <1>1, <1>5 DEF R!ChangedElsewhere, R!Sync, R!LinkComesOrGoes, R!vars
  <2> QED
    BY <1>1, <1>2, <2>1, SettledStep
<1>6. CASE R!HoldExpires
  <2>1. /\ UNCHANGED <<config, downlinkQueue, downlinkAhead, known, thrown, sender, modified,
                       setSinceCommit, setReplyPending, setIndex, paramMask, replies>>
        /\ expired' = TRUE
    BY <1>6 DEF R!HoldExpires
  <2> QED
    BY <1>1, <2>1, SettledStep
<1>7. CASE R!OtherPayload
  <2>1. /\ UNCHANGED <<config, downlinkQueue, downlinkAhead, known, thrown, modified,
                       setSinceCommit, expired, setReplyPending, setIndex, paramMask, replies>>
        /\ ~sender.active /\ sender' = [active |-> TRUE, units |-> <<>>]
    BY <1>7 DEF R!OtherPayload
  <2>2. sender.units = <<>> /\ sender' \in [active : BOOLEAN, units : {<<>>}]
        /\ sender'.units = sender.units
    BY <1>1, <2>1 DEF RxTyped
  <2> QED
    BY <1>1, <1>2, <2>1, <2>2, SettledStep
<1> QED
  BY <1>3, <1>4, <1>5, <1>6, <1>7

\* A commit: all that was set is known unless the hold has expired.
LEMMA CommitStep ==
  ASSUME RxServerInv, R!Commit
  PROVE  RxServerInv'
<1>1. /\ UNCHANGED <<config, downlinkQueue, downlinkAhead, known, thrown, sender, expired,
                     setReplyPending, setIndex, paramMask, replies>>
      /\ modified' = FALSE /\ setSinceCommit' = FALSE /\ ~R!HoldCommit
  BY DEF R!Commit, R!queueVars, R!serverVars
<1>2. ~expired => KnownSinceCommit'
  BY <1>1, CommitFacts DEF KnownSinceCommit, AllTrue
<1>3. paramMask' \subseteq RxParams /\ replies' \subseteq AnswerKinds /\ expired' \in BOOLEAN
  BY <1>1 DEF RxServerInv, RxTyped
<1> QED
  BY <1>1, <1>2, <1>3, SettledStep

\* At the start the ground station knows the settings, and nothing is on its way.
LEMMA RxServerInitInv == R!Init => RxServerInv
<1> SUFFICES ASSUME R!Init
             PROVE  RxServerInv
  OBVIOUS
<1>1. /\ config = [p \in RxParams |-> 0] /\ known = config
      /\ modified = FALSE /\ setSinceCommit = FALSE /\ expired = FALSE
      /\ downlinkQueue = <<>> /\ downlinkAhead = 0
      /\ sender = [active |-> FALSE, units |-> <<>>]
      /\ paramMask = {} /\ setReplyPending = FALSE /\ replies = {} /\ thrown = {}
  BY DEF R!Init, R!LinkInit, R!ServerInit, R!Idle
<1>2. RxTyped
  <2>1. <<>> \in Seq(Told) /\ Len(<<>>) = 0
    OBVIOUS
  <2>2. config \in [RxParams -> 0 .. 1] /\ known \in [RxParams -> 0 .. 1]
    BY <1>1
  <2>3. sender \in [active : BOOLEAN, units : Seq(Told)] /\ sender.units = <<>>
    BY <1>1, <2>1
  <2>4. modified \in BOOLEAN /\ setSinceCommit \in BOOLEAN /\ expired \in BOOLEAN
        /\ setReplyPending \in BOOLEAN /\ ~setReplyPending
    BY <1>1
  <2>5. downlinkQueue \in Seq(Told) /\ downlinkAhead \in 0 .. Len(downlinkQueue)
    BY <1>1, <2>1
  <2> QED
    BY <1>1, <2>2, <2>3, <2>4, <2>5 DEF RxTyped
<1>3. AheadReaches /\ KnownSinceCommit
  BY <1>1 DEF AheadReaches, KnownSinceCommit, AllTrue
<1>4. \A p \in RxParams : KnownInTheEnd(p)
  BY <1>1 DEF KnownInTheEnd, MentionsIn, Mentions
<1> QED
  BY <1>2, <1>3, <1>4 DEF RxServerInv

\* What the ground station does not know of the receiver's parameters is on its way in
\* the queue or with the sender, is to be told, or went with a driver.
THEOREM RxServerInvariant == R!Spec => []RxServerInv
<1>1. RxServerInv /\ [R!Next]_(R!vars) => RxServerInv'
  BY WriteStep, TickStep, FrameStep, TakeStep, LearnStep, NewDriverStep, OtherStep, CommitStep
     DEF R!Next
<1> QED
  BY RxServerInitInv, <1>1, PTL DEF R!Spec

\* A commit that is made in time finds the ground station knowing every setting, but those
\* a new serial driver threw away (RxMavlink_HoldCommit and CheckConfigChangePending).
THEOREM NewDriverOnly == R!Spec => OnlyNewDriverLoses
<1>1. ASSUME RxServerInv, R!Next, R!Committed, ~expired
      PROVE  R!GroundKnows
  <2>1. R!Commit
    BY <1>1 DEF R!Next, R!Committed, R!SetRefused, R!Set, R!ReadOrAsk, R!ChangedElsewhere,
       R!RxTick, R!FcFrame, R!GetNextPayload, R!OtherPayload, R!PayloadArrives, R!HoldExpires,
       R!Sync, R!Reconfigure, R!LinkComesOrGoes, R!configVars, R!linkVars
  <2> QED
    BY <1>1, <2>1, CommitFacts DEF R!Commit, R!GroundKnows
<1> QED
  BY <1>1, RxServerInvariant, PTL DEF R!Spec, OnlyNewDriverLoses, R!OnlyNewDriverLoses

-------------------------------------------------------------------------------
(* The page of parameters.                                                 *)

Messages == [field : P!Fields, chunk : Nat, step : P!Steps, remain : 0 .. 255]
Reads == [type : {"read"}, field : P!Fields, arg : Nat]
Writes ==
  [type : {"write"}, field : P!Fields,
   arg : {"value", "query", "click", "confirmed", "cancel"}]
Requests == Reads \union Writes

PageTyped ==
  /\ loadQ \in Seq(P!Fields) /\ fieldData \in Seq(Messages) /\ fieldChunk = Len(fieldData)
  /\ expectChunksRemain \in Int /\ fieldPopup \in BOOLEAN
  /\ shown \in [P!Fields -> {"nothing", "old", "new"}]
  /\ step \in P!Steps /\ nextStatusChunk \in Nat
  /\ pageRequests \in Seq(Requests) /\ pageReplies \in Seq(Messages)

\* What is written to a field that is not the command is a value.
ValuesWritten ==
  \A k \in DOMAIN pageRequests :
    pageRequests[k] \in Writes /\ pageRequests[k].field # P!Command => pageRequests[k].arg = "value"

\* A field is to be loaded once, the command last of all, and below the pop-up nothing else.
StackInOrder ==
  /\ \A j, k \in DOMAIN loadQ : loadQ[j] = loadQ[k] => j = k
  /\ \A k \in DOMAIN loadQ : loadQ[k] = P!Command => k = 1
  /\ fieldPopup => loadQ = <<>> \/ loadQ = <<P!Command>>

\* What is not new on the page is to be loaded.
LoadedOrShown ==
  \A f \in P!Fields : shown[f] = "new" \/ \E k \in DOMAIN loadQ : loadQ[k] = f

\* A field that is not the command is being loaded.
LoadsField == ~fieldPopup /\ loadQ # <<>> /\ P!Last(loadQ) # P!Command

\* What is on its way is about the field on top, or one that is not to be loaded and not
\* the command.
OnlyDone(stack, way) ==
  \A k \in DOMAIN way :
    \/ way[k].field = P!Last(stack)
    \/ way[k].field # P!Command /\ \A j \in DOMAIN stack : stack[j] # way[k].field

\* Behind what is about field f is nothing else.
ComesLast(f, way) ==
  \A j, k \in DOMAIN way : j < k /\ way[j].field = f => way[k].field = f

Only(f, way) == \A k \in DOMAIN way : way[k].field = f

\* With n chunks there, no later one is asked for or comes, and with any everything on
\* its way is about the field.
InTurn(stack, n, asked, answers) ==
  LET f == P!Last(stack) IN
  /\ OnlyDone(stack, asked) /\ OnlyDone(stack, answers)
  /\ ComesLast(f, asked) /\ ComesLast(f, answers)
  /\ \A k \in DOMAIN answers : answers[k].field = f => Only(f, asked)
  /\ n > 0 => Only(f, asked) /\ Only(f, answers)
  /\ \A k \in DOMAIN asked : asked[k] \in Reads /\ asked[k].field = f => asked[k].arg <= n
  /\ \A k \in DOMAIN answers :
       answers[k].field = f => \E c \in 0 .. n : answers[k] = P!Chunk(f, c, "idle")

\* What is there are the field's first chunks, and the next is known by what it leaves.
DataFollows(f, data, remain) ==
  /\ Len(data) < Chunks[f]
  /\ \A k \in DOMAIN data : data[k] = P!Chunk(f, k - 1, "idle")
  /\ data # <<>> => remain = Chunks[f] - Len(data) - 1

\* What a pop-up has left of a status is thrown away by an answer to come.
LeftIsThrownAway ==
  ~fieldPopup /\ loadQ = <<>> /\ fieldData # <<>> =>
    \/ \E k \in DOMAIN pageReplies : pageReplies[k].field = P!Command
    \/ \E k \in DOMAIN pageRequests : pageRequests[k] = P!Write(P!Command, "cancel")

PageInv ==
  /\ PageTyped /\ ValuesWritten /\ StackInOrder /\ LoadedOrShown
  /\ LoadsField => /\ InTurn(loadQ, fieldChunk, pageRequests, pageReplies)
                   /\ DataFollows(P!Last(loadQ), fieldData, expectChunksRemain)
  /\ LeftIsThrownAway /\ torn \subseteq {P!Command}

\* Fields, and the chunks of each.
LEMMA FieldFacts ==
  /\ Len(Chunks) \in Nat /\ P!Command = Len(Chunks) + 1 /\ P!Fields = 1 .. P!Command
  /\ P!Command \in Nat /\ P!Command \in P!Fields
  /\ \A f \in P!Fields : f # P!Command => f \in DOMAIN Chunks /\ Chunks[f] \in 1 .. 255
  /\ DOMAIN Chunks = 1 .. P!Command - 1
  /\ \A s \in P!Steps : StatusChunks[s] \in 1 .. 255
<1>1. Chunks \in Seq(1 .. 255)
  BY StructuresAssumption DEF StructuresAssumption, P!ParameterAssumption
<1>2. Len(Chunks) \in Nat /\ DOMAIN Chunks = 1 .. Len(Chunks)
      /\ \A f \in 1 .. Len(Chunks) : Chunks[f] \in 1 .. 255
  <2>1. Len(Chunks) \in Nat /\ DOMAIN Chunks = 1 .. Len(Chunks)
    BY <1>1, LenProperties
  <2>2. \A f \in 1 .. Len(Chunks) : Chunks[f] \in 1 .. 255
    BY <1>1, ElementOfSeq
  <2> QED
    BY <2>1, <2>2
<1>6. \A s \in P!Steps : StatusChunks[s] \in 1 .. 255
  BY StructuresAssumption DEF StructuresAssumption, P!ParameterAssumption
<1> DEFINE n == Len(Chunks)
<1>3. n \in Nat /\ P!Command = n + 1 /\ P!Fields = 1 .. n + 1
  BY <1>2 DEF P!Command, P!Fields
<1> HIDE DEF n
<1>4. \A f \in 1 .. n + 1 : f # n + 1 => f \in 1 .. n
  BY <1>3
<1>5. n + 1 \in Nat /\ n + 1 \in 1 .. n + 1 /\ (n + 1) - 1 = n
  BY <1>3
<1> QED
  BY <1>2, <1>3, <1>4, <1>5, <1>6, Zenon DEF n

\* A chunk is one of its field; that of a field tells how many are left.
LEMMA ChunkIs ==
  ASSUME NEW f \in P!Fields, NEW c \in Nat, NEW s \in P!Steps
  PROVE  /\ P!Chunk(f, c, s) \in Messages /\ P!Chunk(f, c, s).field = f
         /\ P!Chunk(f, c, s).chunk = c
         /\ f # P!Command =>
              /\ P!Chunk(f, c, s) = P!Chunk(f, c, "idle") /\ P!Chunk(f, c, s).step = "idle"
              /\ c < Chunks[f] => P!Chunk(f, c, s).remain = Chunks[f] - (c + 1)
<1> DEFINE n == P!Count(f, s)
<1>1. n \in 1 .. 255 /\ (f # P!Command => n = Chunks[f])
  BY FieldFacts DEF P!Count
<1>2. P!Chunk(f, c, s) = [field |-> f, chunk |-> c,
                          step |-> IF f = P!Command THEN s ELSE "idle",
                          remain |-> (n - (c + 1)) % 256]
  BY DEF P!Chunk
<1> HIDE DEF n
<1>3. (n - (c + 1)) % 256 \in 0 .. 255
  BY <1>1
<1>4. c < n => (n - (c + 1)) % 256 = n - (c + 1)
  BY <1>1
<1>5. "idle" \in P!Steps
  BY DEF P!Steps
<1>6. P!Chunk(f, c, s) \in Messages
  BY <1>2, <1>3, <1>5 DEF Messages
<1>7. f # P!Command => P!Chunk(f, c, s) = P!Chunk(f, c, "idle")
  BY DEF P!Chunk, P!Count
<1> QED
  BY <1>1, <1>2, <1>4, <1>6, <1>7

\* One request less on its way, or one answer.
LEMMA LessOnWay ==
  ASSUME NEW stack, NEW n, NEW asked \in Seq(Requests), NEW answers \in Seq(Messages),
         InTurn(stack, n, asked, answers)
  PROVE  /\ asked # <<>> => InTurn(stack, n, Tail(asked), answers)
         /\ answers # <<>> => InTurn(stack, n, asked, Tail(answers))
<1> DEFINE f == P!Last(stack)
<1>1. asked # <<>> =>
        /\ \A k \in DOMAIN Tail(asked) : k + 1 \in DOMAIN asked /\ Tail(asked)[k] = asked[k + 1]
        /\ DOMAIN Tail(asked) \subseteq Int
  BY HeadTailProperties
<1>2. answers # <<>> =>
        /\ \A k \in DOMAIN Tail(answers) :
             k + 1 \in DOMAIN answers /\ Tail(answers)[k] = answers[k + 1]
        /\ DOMAIN Tail(answers) \subseteq Int
  BY HeadTailProperties
<1>3. \A j, k \in Int : j < k => j + 1 < k + 1
  OBVIOUS
<1>4. ASSUME asked # <<>>
      PROVE  InTurn(stack, n, Tail(asked), answers)
  <2> DEFINE less == Tail(asked)
  <2>1. \A k \in DOMAIN less : k + 1 \in DOMAIN asked /\ less[k] = asked[k + 1] /\ k \in Int
    BY <1>1, <1>4
  <2> HIDE DEF less
  <2>2. OnlyDone(stack, less)
    BY <2>1 DEF InTurn, OnlyDone
  <2>3. ComesLast(P!Last(stack), less)
    BY <1>3, <2>1 DEF InTurn, ComesLast
  <2>4. Only(f, asked) => Only(f, less)
    BY <2>1 DEF Only
  <2>5. \A k \in DOMAIN less : less[k] \in Reads /\ less[k].field = f => less[k].arg <= n
    BY <2>1 DEF InTurn
  <2> QED
    BY <2>2, <2>3, <2>4, <2>5 DEF InTurn, less
<1>5. ASSUME answers # <<>>
      PROVE  InTurn(stack, n, asked, Tail(answers))
  <2> DEFINE less == Tail(answers)
  <2>1. \A k \in DOMAIN less : k + 1 \in DOMAIN answers /\ less[k] = answers[k + 1] /\ k \in Int
    BY <1>2, <1>5
  <2> HIDE DEF less
  <2>2. OnlyDone(stack, less)
    BY <2>1 DEF InTurn, OnlyDone
  <2>3. ComesLast(P!Last(stack), less)
    BY <1>3, <2>1 DEF InTurn, ComesLast
  <2>4. Only(f, answers) => Only(f, less)
    BY <2>1 DEF Only
  <2>5. \A k \in DOMAIN less : less[k].field = f =>
          Only(f, asked) /\ \E c \in 0 .. n : less[k] = P!Chunk(f, c, "idle")
    BY <2>1 DEF InTurn
  <2> QED
    BY <2>2, <2>3, <2>4, <2>5 DEF InTurn, less
<1> QED
  BY <1>4, <1>5

\* The request in front is answered.
LEMMA AnsweredInTurn ==
  ASSUME NEW stack, NEW n, NEW asked \in Seq(Requests), NEW answers \in Seq(Messages),
         InTurn(stack, n, asked, answers), asked # <<>>,
         NEW m \in Messages, m.field = Head(asked).field,
         m.field = P!Last(stack) => \E c \in 0 .. n : m = P!Chunk(m.field, c, "idle")
  PROVE  InTurn(stack, n, Tail(asked), Append(answers, m))
<1> DEFINE f == P!Last(stack)
           more == Append(answers, m)
           less == Tail(asked)
           last == Len(answers) + 1
<1>1. /\ DOMAIN more = 1 .. last /\ more[last] = m /\ DOMAIN answers = 1 .. Len(answers)
      /\ \A k \in DOMAIN answers : more[k] = answers[k]
      /\ Len(answers) \in Nat /\ last \in Int
  OBVIOUS
<1>2. /\ 1 \in DOMAIN asked /\ Head(asked) = asked[1]
      /\ \A k \in DOMAIN less : k + 1 \in DOMAIN asked /\ less[k] = asked[k + 1] /\ 1 < k + 1
  <2>1. Len(asked) \in Nat \ {0} /\ DOMAIN asked = 1 .. Len(asked)
    BY EmptySeq
  <2>2. /\ less \in Seq(Requests) /\ Len(less) = Len(asked) - 1
        /\ \A k \in 1 .. Len(less) : less[k] = asked[k + 1]
    BY HeadTailProperties
  <2>3. DOMAIN less = 1 .. Len(less)
    BY <2>2
  <2> HIDE DEF less
  <2>4. \A k \in 1 .. Len(asked) - 1 : k + 1 \in 1 .. Len(asked) /\ 1 < k + 1
    BY <2>1
  <2>5. Head(asked) = asked[1] /\ 1 \in 1 .. Len(asked)
    BY <2>1
  <2> QED
    BY <2>1, <2>2, <2>3, <2>4, <2>5
<1>3. InTurn(stack, n, less, answers)
  BY LessOnWay
<1> HIDE DEF more, less
<1>4. \A k \in DOMAIN more : k \in DOMAIN answers \/ k = last
  BY <1>1
<1>5. OnlyDone(stack, more)
  BY <1>1, <1>2, <1>3, <1>4 DEF InTurn, OnlyDone
<1>6. m.field = f => Only(f, less)
  BY <1>2 DEF InTurn, ComesLast, Only
<1>7. \A k \in DOMAIN more : more[k].field = f => Only(f, less)
  BY <1>1, <1>3, <1>4, <1>6 DEF InTurn
<1>8. ComesLast(f, more)
  <2>1. (\E k \in DOMAIN answers : answers[k].field = f) => m.field = f
    BY <1>2 DEF InTurn, Only
  <2>2. \A k \in DOMAIN answers : k < last
    BY <1>1
  <2>3. ComesLast(f, answers)
    BY <1>3 DEF InTurn
  <2> SUFFICES ASSUME NEW j \in DOMAIN more, NEW k \in DOMAIN more, j < k, more[j].field = f
               PROVE  more[k].field = f
    BY DEF ComesLast
  <2>4. j \in DOMAIN answers
    BY <1>1, <1>4, <2>2
  <2>5. CASE k = last
    BY <1>1, <2>1, <2>4, <2>5
  <2>6. CASE k \in DOMAIN answers
    BY <1>1, <2>3, <2>4, <2>6 DEF ComesLast
  <2> QED
    BY <1>4, <2>5, <2>6
<1>9. n > 0 => Only(f, more)
  <2>1. n > 0 => m.field = f
    BY <1>2 DEF InTurn, Only
  <2> QED
    BY <1>1, <1>3, <1>4, <2>1 DEF InTurn, Only
<1>10. \A k \in DOMAIN more : more[k].field = f => \E c \in 0 .. n : more[k] = P!Chunk(f, c, "idle")
  BY <1>1, <1>3, <1>4 DEF InTurn
<1> QED
  BY <1>3, <1>5, <1>7, <1>8, <1>9, <1>10 DEF InTurn, more, less

\* The next chunk is asked for.
LEMMA AskedInTurn ==
  ASSUME NEW stack, NEW n \in Nat, NEW asked \in Seq(Requests), NEW answers \in Seq(Messages),
         InTurn(stack, n, asked, answers), P!Last(stack) \in P!Fields
  PROVE  InTurn(stack, n, Append(asked, P!Read(P!Last(stack), n)), answers)
<1> DEFINE f == P!Last(stack)
           new == P!Read(f, n)
           more == Append(asked, new)
           last == Len(asked) + 1
<1>1. /\ DOMAIN more = 1 .. last /\ more[last] = new /\ DOMAIN asked = 1 .. Len(asked)
      /\ \A k \in DOMAIN asked : more[k] = asked[k]
      /\ Len(asked) \in Nat /\ last \in Int
  OBVIOUS
<1>2. new.field = f /\ new.arg = n
  BY DEF P!Read
<1> HIDE DEF more, new
<1>3. \A k \in DOMAIN more : k \in DOMAIN asked \/ k = last
  BY <1>1
<1>4. OnlyDone(stack, more)
  BY <1>1, <1>2, <1>3 DEF InTurn, OnlyDone
<1>5. Only(f, asked) => Only(f, more)
  BY <1>1, <1>2, <1>3 DEF Only
<1>6. ComesLast(f, more)
  <2>1. \A k \in DOMAIN asked : k < last
    BY <1>1
  <2> SUFFICES ASSUME NEW j \in DOMAIN more, NEW k \in DOMAIN more, j < k, more[j].field = f,
                      k # last
               PROVE  more[k].field = f
    BY <1>1, <1>2 DEF ComesLast
  <2>2. k \in DOMAIN asked /\ j \in DOMAIN asked
    BY <1>1, <1>3, <2>1
  <2> QED
    BY <1>1, <2>2 DEF InTurn, ComesLast
<1>7. \A k \in DOMAIN more : more[k] \in Reads /\ more[k].field = f => more[k].arg <= n
  BY <1>1, <1>2, <1>3 DEF InTurn
<1> QED
  BY <1>4, <1>5, <1>6, <1>7 DEF InTurn, more, new
\* What the device does with the request in front, as far as the page can tell: it is
\* gone, and may be answered.
Served ==
  /\ UNCHANGED <<loadQ, fieldChunk, fieldData, expectChunksRemain, fieldPopup, shown, torn>>
  /\ step' \in P!Steps /\ nextStatusChunk' \in Nat
  /\ pageRequests # <<>> /\ pageRequests' = Tail(pageRequests)
  /\ \/ pageReplies' = pageReplies /\ Head(pageRequests) # P!Write(P!Command, "cancel")
     \/ \E m \in Messages :
          /\ pageReplies' = Append(pageReplies, m) /\ m.field = Head(pageRequests).field
          /\ m.field # P!Command =>
               /\ Head(pageRequests) \in Reads
               /\ m = P!Chunk(m.field, Head(pageRequests).arg, "idle")

\* The sequence without its head is the rest of it.
LEMMA TailFacts ==
  ASSUME NEW S, NEW q \in Seq(S), q # <<>>
  PROVE  /\ Tail(q) \in Seq(S) /\ Head(q) \in S /\ Head(q) = q[1] /\ 1 \in DOMAIN q
         /\ DOMAIN q \subseteq Int
         /\ \A k \in DOMAIN Tail(q) : k + 1 \in DOMAIN q /\ Tail(q)[k] = q[k + 1] /\ k + 1 # 1
         /\ \A k \in DOMAIN q : k # 1 => k - 1 \in DOMAIN Tail(q) /\ Tail(q)[k - 1] = q[k]
<1>1. Len(q) \in Nat \ {0} /\ DOMAIN q = 1 .. Len(q)
  BY EmptySeq, LenProperties
<1>2. /\ Tail(q) \in Seq(S) /\ Head(q) \in S /\ Len(Tail(q)) = Len(q) - 1
      /\ \A k \in 1 .. Len(Tail(q)) : Tail(q)[k] = q[k + 1]
  BY HeadTailProperties
<1> DEFINE t == Tail(q)
           n == Len(q)
<1>3. DOMAIN t = 1 .. n - 1
  BY <1>2, LenProperties
<1>4. Head(q) = q[1]
  OBVIOUS
<1> HIDE DEF t, n
<1>5. n \in Nat \ {0}
  BY <1>1 DEF n
<1>6. /\ 1 \in 1 .. n /\ 1 .. n \subseteq Int
      /\ \A k \in 1 .. n - 1 : k + 1 \in 1 .. n /\ k + 1 # 1
      /\ \A k \in 1 .. n : k # 1 => k - 1 \in 1 .. n - 1 /\ (k - 1) + 1 = k
  BY <1>5
<1>7. \A k \in 1 .. n - 1 : t[k] = q[k + 1]
  BY <1>2 DEF t, n
<1>8. \A k \in 1 .. n : k # 1 => t[k - 1] = q[k]
  BY <1>6, <1>7
<1>9. DOMAIN q = 1 .. n
  BY <1>1 DEF n
<1>10. /\ \A k \in DOMAIN t : k + 1 \in DOMAIN q /\ t[k] = q[k + 1] /\ k + 1 # 1
       /\ \A k \in DOMAIN q : k # 1 => k - 1 \in DOMAIN t /\ t[k - 1] = q[k]
  BY <1>3, <1>6, <1>7, <1>8, <1>9, Zenon
<1> QED
  BY <1>2, <1>4, <1>6, <1>9, <1>10 DEF t

\* The sequence with one more at its end.
LEMMA MoreFacts ==
  ASSUME NEW S, NEW q \in Seq(S), NEW e \in S
  PROVE  /\ Append(q, e) \in Seq(S) /\ Len(Append(q, e)) = Len(q) + 1
         /\ Len(q) + 1 \in DOMAIN Append(q, e) /\ Append(q, e)[Len(q) + 1] = e
         /\ \A k \in DOMAIN q : k \in DOMAIN Append(q, e) /\ Append(q, e)[k] = q[k]
         /\ \A k \in DOMAIN Append(q, e) : k \in DOMAIN q \/ k = Len(q) + 1
  OBVIOUS

\* A request less keeps what is written to be read, and is kept up by an answer.
LEMMA ServedInv ==
  ASSUME PageInv, Served
  PROVE  PageInv'
<1> DEFINE r == Head(pageRequests)
           less == Tail(pageRequests)
<1> USE DEF Served, PageInv
<1>1. /\ less \in Seq(Requests) /\ r \in Requests /\ r = pageRequests[1] /\ 1 \in DOMAIN pageRequests
      /\ \A k \in DOMAIN less : k + 1 \in DOMAIN pageRequests /\ less[k] = pageRequests[k + 1]
      /\ \A k \in DOMAIN pageRequests :
           k # 1 => k - 1 \in DOMAIN less /\ less[k - 1] = pageRequests[k]
  BY TailFacts DEF PageTyped
<1>2. pageReplies \in Seq(Messages)
  BY DEF PageTyped
<1>3. /\ pageReplies' \in Seq(Messages)
      /\ \A k \in DOMAIN pageReplies : k \in DOMAIN pageReplies' /\ pageReplies'[k] = pageReplies[k]
  <2>1. CASE pageReplies' = pageReplies
    BY <1>2, <2>1
  <2>2. CASE \E m \in Messages : pageReplies' = Append(pageReplies, m)
    BY <1>2, <2>2, MoreFacts
  <2> QED
    BY <2>1, <2>2
<1> HIDE DEF less
<1>4. pageRequests' = less
  BY DEF less
<1>5. PageTyped'
  BY <1>1, <1>3, <1>4 DEF PageTyped
<1>6. ValuesWritten'
  BY <1>1, <1>4 DEF ValuesWritten
<1>7. StackInOrder' /\ LoadedOrShown' /\ torn' \subseteq {P!Command}
  BY DEF StackInOrder, LoadedOrShown
<1>8. ASSUME LoadsField
      PROVE  InTurn(loadQ, fieldChunk, pageRequests', pageReplies')
  <2>1. pageRequests \in Seq(Requests) /\ InTurn(loadQ, fieldChunk, pageRequests, pageReplies)
    BY <1>8 DEF PageTyped
  <2>2. CASE pageReplies' = pageReplies
    BY <1>2, <2>1, <2>2, LessOnWay
  <2>3. CASE \E m \in Messages :
               /\ pageReplies' = Append(pageReplies, m) /\ m.field = r.field
               /\ m.field # P!Command => r \in Reads /\ m = P!Chunk(m.field, r.arg, "idle")
    <3>1. PICK m \in Messages :
               /\ pageReplies' = Append(pageReplies, m) /\ m.field = r.field
               /\ m.field # P!Command => r \in Reads /\ m = P!Chunk(m.field, r.arg, "idle")
      BY <2>3
    <3>2. ASSUME m.field = P!Last(loadQ)
          PROVE  \E c \in 0 .. fieldChunk : m = P!Chunk(m.field, c, "idle")
      <4>1. m.field # P!Command
        BY <1>8, <3>2 DEF LoadsField
      <4>2. r \in Reads /\ m = P!Chunk(m.field, r.arg, "idle") /\ r.arg \in Nat
        BY <3>1, <4>1 DEF Reads
      <4>3. r.arg <= fieldChunk
        BY <1>1, <2>1, <3>1, <3>2, <4>2 DEF InTurn
      <4>4. fieldChunk \in Nat
        BY DEF PageTyped
      <4> QED
        BY <4>2, <4>3, <4>4
    <3> HIDE DEF r
    <3>3. InTurn(loadQ, fieldChunk, Tail(pageRequests), Append(pageReplies, m))
      BY <1>2, <2>1, <3>1, <3>2, AnsweredInTurn DEF r
    <3> QED
      BY <3>1, <3>3
  <2> QED
    BY <2>2, <2>3
<1>9. LeftIsThrownAway'
  <2>1. ASSUME NEW k \in DOMAIN pageRequests, pageRequests[k] = P!Write(P!Command, "cancel")
        PROVE  \/ \E j \in DOMAIN pageReplies' : pageReplies'[j].field = P!Command
               \/ \E j \in DOMAIN less : less[j] = P!Write(P!Command, "cancel")
    <3>1. CASE k # 1
      BY <1>1, <2>1, <3>1
    <3>2. CASE k = 1
      <4>1. r = P!Write(P!Command, "cancel") /\ r.field = P!Command
        BY <1>1, <2>1, <3>2 DEF P!Write
      <4>2. PICK m \in Messages : pageReplies' = Append(pageReplies, m) /\ m.field = r.field
        BY <4>1
      <4> QED
        BY <1>2, <4>1, <4>2, MoreFacts
    <3> QED
      BY <3>1, <3>2
  <2> QED
    BY <1>3, <1>4, <2>1 DEF LeftIsThrownAway
<1> QED
  BY <1>5, <1>6, <1>7, <1>8, <1>9 DEF LoadsField
\* The device serves the page's requests, one after the other.
LEMMA PageServeStep ==
  ASSUME PageInv, P!ServeRead \/ P!ServeRest \/ P!ServeCommand \/ P!ServeSilently
  PROVE  PageInv'
<1> DEFINE r == Head(pageRequests)
           cancel == P!Write(P!Command, "cancel")
<1>1. pageRequests # <<>> /\ pageRequests' = Tail(pageRequests)
      /\ UNCHANGED <<loadQ, fieldChunk, fieldData, expectChunksRemain, fieldPopup, shown, torn>>
  BY DEF P!ServeRead, P!ServeRest, P!ServeCommand, P!ServeSilently, P!Take, P!scriptVars
<1>2. /\ pageRequests \in Seq(Requests) /\ step \in P!Steps /\ nextStatusChunk \in Nat
      /\ "idle" \in P!Steps
  BY DEF PageInv, PageTyped, P!Steps
<1>3. /\ r \in Requests /\ r.field \in P!Fields
      /\ r.type = "read" => r \in Reads /\ r.arg \in Nat
      /\ r.type = "write" => r \in Writes
      /\ r.type = "write" /\ r.field # P!Command => r.arg = "value"
  <2>1. r \in Requests /\ r = pageRequests[1] /\ 1 \in DOMAIN pageRequests
    BY <1>1, <1>2, TailFacts
  <2> HIDE DEF r
  <2>2. /\ r.field \in P!Fields
        /\ r.type = "read" => r \in Reads /\ r.arg \in Nat
        /\ r.type = "write" => r \in Writes
    BY <2>1 DEF Requests, Reads, Writes
  <2>3. r \in Writes /\ r.field # P!Command => r.arg = "value"
    BY <2>1 DEF PageInv, ValuesWritten
  <2> QED
    BY <2>1, <2>2, <2>3
<1>4. cancel.type = "write" /\ cancel.field = P!Command /\ cancel.arg = "cancel"
  BY DEF P!Write
<1>5. CASE P!ServeRead
  <2>1. /\ r.type = "read" /\ step' \in P!Steps /\ nextStatusChunk' \in Nat
        /\ pageReplies' = Append(pageReplies, P!Chunk(r.field, r.arg, step'))
    BY <1>2, <1>5 DEF P!ServeRead, P!Reply
  <2> DEFINE m == P!Chunk(r.field, r.arg, step')
  <2> HIDE DEF r
  <2>2. /\ m \in Messages /\ m.field = r.field
        /\ m.field # P!Command => m = P!Chunk(m.field, r.arg, "idle")
    BY <1>3, <2>1, ChunkIs
  <2> HIDE DEF m
  <2>3. \E n \in Messages :
          /\ pageReplies' = Append(pageReplies, n) /\ n.field = r.field
          /\ n.field # P!Command => r \in Reads /\ n = P!Chunk(n.field, r.arg, "idle")
    BY <1>3, <2>1, <2>2 DEF m
  <2>4. Served
    BY <1>1, <2>1, <2>3 DEF Served, r
  <2> QED
    BY <2>4, ServedInv
<1>6. ASSUME NEW f \in {P!Command}, NEW c \in Nat, NEW s \in P!Steps,
             P!PushResponseChunk(f, c, s), r.field = f
      PROVE  Served
  <2>1. pageReplies' = Append(pageReplies, P!Chunk(f, c, s)) /\ step' = s
    BY <1>6 DEF P!PushResponseChunk, P!Reply
  <2>2. P!Chunk(f, c, s) \in Messages /\ P!Chunk(f, c, s).field = f
    BY ChunkIs, FieldFacts
  <2>3. nextStatusChunk' \in Nat
    BY <1>6 DEF P!PushResponseChunk
  <2> QED
    BY <1>1, <1>6, <2>1, <2>2, <2>3 DEF Served
<1>7. CASE P!ServeRest
  <2>1. /\ r.type = "write" /\ r.arg = "query"
        /\ P!PushResponseChunk(r.field, nextStatusChunk, step)
    BY <1>7 DEF P!ServeRest
  <2>2. r.field = P!Command
    BY <1>3, <2>1
  <2> QED
    BY <1>2, <1>6, <2>1, <2>2, ServedInv
<1>8. CASE P!ServeCommand
  <2>1. r.type = "write" /\ r.field = P!Command
    BY <1>8 DEF P!ServeCommand
  <2>2. PICK s \in P!After(r.arg) : P!PushResponseChunk(P!Command, 0, s)
    BY <1>8 DEF P!ServeCommand
  <2>3. s \in P!Steps
    BY <1>2 DEF P!After, P!Steps
  <2>4. Served
    BY <1>6, <2>1, <2>2, <2>3
  <2> QED
    BY <2>4, ServedInv
<1>9. CASE P!ServeSilently
  <2>1. /\ pageReplies' = pageReplies /\ step' = step /\ nextStatusChunk' = nextStatusChunk
        /\ r.type = "write" /\ (r.field # P!Command \/ r.arg = "query")
    BY <1>9 DEF P!ServeSilently, P!endpointVars
  <2>2. r # cancel
    BY <1>4, <2>1
  <2>3. Served
    BY <1>1, <1>2, <2>1, <2>2 DEF Served
  <2> QED
    BY <2>3, ServedInv
<1> QED
  BY <1>5, <1>7, <1>8, <1>9

\* What is lost is not about the command, unless it is a read.
LEMMA PageLoseStep ==
  ASSUME PageInv, P!Lose
  PROVE  PageInv'
<1> USE DEF PageInv
<1>1. /\ UNCHANGED <<loadQ, fieldChunk, fieldData, expectChunksRemain, fieldPopup, shown, torn,
                     step, nextStatusChunk>>
      /\ \/ /\ pageRequests # <<>> /\ Head(pageRequests).type = "read"
            /\ pageRequests' = Tail(pageRequests) /\ pageReplies' = pageReplies
         \/ /\ pageReplies # <<>> /\ Head(pageReplies).field # P!Command
            /\ pageReplies' = Tail(pageReplies) /\ pageRequests' = pageRequests
  BY DEF P!Lose, P!scriptVars, P!endpointVars
<1>2. CASE pageRequests' = Tail(pageRequests) /\ pageRequests # <<>>
           /\ Head(pageRequests).type = "read" /\ pageReplies' = pageReplies
  <2>1. Head(pageRequests) # P!Write(P!Command, "cancel")
    BY <1>2 DEF P!Write
  <2>2. Served
    BY <1>1, <1>2, <2>1 DEF Served, PageTyped
  <2> QED
    BY <2>2, ServedInv
<1>3. CASE pageReplies' = Tail(pageReplies) /\ pageReplies # <<>>
           /\ Head(pageReplies).field # P!Command /\ pageRequests' = pageRequests
  <2>1. pageReplies \in Seq(Messages) /\ pageRequests \in Seq(Requests)
    BY DEF PageTyped
  <2> DEFINE less == Tail(pageReplies)
  <2>2. /\ less \in Seq(Messages) /\ Head(pageReplies) = pageReplies[1]
        /\ \A k \in DOMAIN pageReplies :
             k # 1 => k - 1 \in DOMAIN less /\ less[k - 1] = pageReplies[k]
    BY <1>3, <2>1, TailFacts
  <2>3. LoadsField => InTurn(loadQ, fieldChunk, pageRequests, less)
    BY <1>3, <2>1, LessOnWay
  <2> HIDE DEF less
  <2>4. pageReplies' = less
    BY <1>3 DEF less
  <2>5. PageTyped' /\ ValuesWritten' /\ StackInOrder' /\ LoadedOrShown'
    BY <1>1, <1>3, <2>2, <2>4 DEF PageTyped, ValuesWritten, StackInOrder, LoadedOrShown
  <2>6. LeftIsThrownAway'
    BY <1>1, <1>3, <2>2, <2>4 DEF LeftIsThrownAway
  <2> QED
    BY <1>1, <1>3, <2>3, <2>4, <2>5, <2>6 DEF LoadsField
<1> QED
  BY <1>1, <1>2, <1>3

\* The script asks for what is next, or for the command's status.
LEMMA PageAskStep ==
  ASSUME PageInv, P!Ask
  PROVE  PageInv'
<1> USE DEF PageInv
<1>1. UNCHANGED <<loadQ, fieldChunk, fieldData, expectChunksRemain, fieldPopup, shown, torn,
                  step, nextStatusChunk, pageReplies>>
  BY DEF P!Ask, P!scriptVars, P!endpointVars
<1>2. /\ pageReplies \in Seq(Messages) /\ pageRequests \in Seq(Requests) /\ fieldChunk \in Nat
      /\ loadQ \in Seq(P!Fields)
  BY DEF PageTyped
<1>3. PICK r \in Requests :
        /\ pageRequests' = Append(pageRequests, r)
        /\ \/ fieldPopup /\ r = P!Write(P!Command, "query")
           \/ ~fieldPopup /\ loadQ # <<>> /\ r = P!Read(P!Last(loadQ), fieldChunk)
  <2>1. CASE fieldPopup /\ P!Push(P!Write(P!Command, "query"))
    <3>1. P!Write(P!Command, "query") \in Requests
      BY FieldFacts DEF P!Write, Requests, Writes
    <3> QED
      BY <2>1, <3>1 DEF P!Push
  <2>2. CASE ~fieldPopup /\ loadQ # <<>> /\ P!Push(P!Read(P!Last(loadQ), fieldChunk))
    <3>1. P!Last(loadQ) \in P!Fields
      BY <1>2, <2>2 DEF P!Last
    <3>2. P!Read(P!Last(loadQ), fieldChunk) \in Requests
      BY <1>2, <3>1 DEF P!Read, Requests, Reads
    <3> QED
      BY <2>2, <3>2 DEF P!Push
  <2> QED
    BY <2>1, <2>2 DEF P!Ask
<1>4. r \in Writes => r.field = P!Command
  BY <1>3 DEF P!Write, P!Read, Writes
<1> DEFINE more == Append(pageRequests, r)
<1>5. /\ more \in Seq(Requests) /\ more[Len(pageRequests) + 1] = r
      /\ \A k \in DOMAIN pageRequests : k \in DOMAIN more /\ more[k] = pageRequests[k]
      /\ \A k \in DOMAIN more : k \in DOMAIN pageRequests \/ k = Len(pageRequests) + 1
  BY <1>2, MoreFacts
<1>6. LoadsField => InTurn(loadQ, fieldChunk, more, pageReplies)
  <2> SUFFICES ASSUME LoadsField
               PROVE  InTurn(loadQ, fieldChunk, more, pageReplies)
    OBVIOUS
  <2>1. P!Last(loadQ) \in P!Fields /\ InTurn(loadQ, fieldChunk, pageRequests, pageReplies)
    BY <1>2 DEF P!Last, LoadsField
  <2>2. r = P!Read(P!Last(loadQ), fieldChunk)
    BY <1>3 DEF LoadsField
  <2>3. InTurn(loadQ, fieldChunk, Append(pageRequests, P!Read(P!Last(loadQ), fieldChunk)), pageReplies)
    BY <1>2, <2>1, AskedInTurn
  <2> QED
    BY <2>2, <2>3
<1> HIDE DEF more
<1>7. pageRequests' = more
  BY <1>3 DEF more
<1>8. PageTyped' /\ StackInOrder' /\ LoadedOrShown'
  BY <1>1, <1>5, <1>7 DEF PageTyped, StackInOrder, LoadedOrShown
<1>9. ValuesWritten'
  BY <1>4, <1>5, <1>7 DEF ValuesWritten
<1>10. LeftIsThrownAway'
  BY <1>1, <1>5, <1>7 DEF LeftIsThrownAway
<1> QED
  BY <1>1, <1>6, <1>7, <1>8, <1>9, <1>10 DEF LoadsField
\* The stack without its top.
LEMMA FrontFacts ==
  ASSUME NEW S, NEW q \in Seq(S), q # <<>>
  PROVE  /\ P!Front(q) \in Seq(S)
         /\ P!Last(q) = q[Len(q)] /\ Len(q) \in DOMAIN q /\ P!Last(q) \in S
         /\ \A k \in DOMAIN P!Front(q) :
              k \in DOMAIN q /\ k # Len(q) /\ P!Front(q)[k] = q[k]
         /\ \A k \in DOMAIN q : k # Len(q) => k \in DOMAIN P!Front(q)
         /\ Len(q) = 1 => P!Front(q) = <<>>
<1> DEFINE t == P!Front(q)
           n == Len(q)
<1>1. n \in Nat \ {0} /\ DOMAIN q = 1 .. n
  BY EmptySeq, LenProperties
<1>2. t = SubSeq(q, 1, n - 1)
  BY DEF P!Front
<1>3. t \in Seq(S) /\ Len(t) = n - 1 /\ \A k \in 1 .. n - 1 : t[k] = q[k]
  BY <1>1, <1>2
<1>4. DOMAIN t = 1 .. n - 1
  BY <1>3, LenProperties
<1>5. n = 1 => t = <<>>
  BY <1>3
<1>6. q[n] \in S
  BY <1>1
<1>7. P!Last(q) = q[n]
  BY DEF P!Last
<1> HIDE DEF t, n
<1>8. n \in 1 .. n /\ (\A k \in 1 .. n - 1 : k \in 1 .. n /\ k # n)
      /\ \A k \in 1 .. n : k # n => k \in 1 .. n - 1
  BY <1>1
<1>9. /\ \A k \in DOMAIN t : k \in DOMAIN q /\ k # n /\ t[k] = q[k]
      /\ \A k \in DOMAIN q : k # n => k \in DOMAIN t
      /\ n \in DOMAIN q
  BY <1>1, <1>3, <1>4, <1>8, Zenon
<1> QED
  BY <1>3, <1>5, <1>6, <1>7, <1>9 DEF t, n

\* While a field loads, an answer about it that is in turn is its next chunk, and all that
\* is on its way is about it.
LEMMA NextChunk ==
  ASSUME PageTyped, StackInOrder, LoadsField, pageReplies # <<>>,
         InTurn(loadQ, fieldChunk, pageRequests, pageReplies),
         DataFollows(P!Last(loadQ), fieldData, expectChunksRemain),
         Head(pageReplies).field = P!Last(loadQ), ~P!OutOfTurn(Head(pageReplies))
  PROVE  /\ Head(pageReplies) = P!Chunk(P!Last(loadQ), fieldChunk, "idle")
         /\ Head(pageReplies).remain = Chunks[P!Last(loadQ)] - (fieldChunk + 1)
         /\ Only(P!Last(loadQ), pageRequests) /\ Only(P!Last(loadQ), Tail(pageReplies))
<1> DEFINE f == P!Last(loadQ)
           m == Head(pageReplies)
           n == fieldChunk
           whole == Chunks[f]
<1>1. f \in P!Fields /\ f # P!Command /\ n \in Nat /\ n = Len(fieldData)
      /\ pageReplies \in Seq(Messages)
  BY FrontFacts DEF PageTyped, LoadsField
<1>2. whole \in 1 .. 255
  BY <1>1, FieldFacts
<1>3. 1 \in DOMAIN pageReplies /\ m = pageReplies[1] /\ DOMAIN pageReplies \subseteq Int
      /\ \A k \in DOMAIN Tail(pageReplies) :
           /\ k + 1 \in DOMAIN pageReplies /\ Tail(pageReplies)[k] = pageReplies[k + 1]
           /\ k + 1 # 1
  BY <1>1, TailFacts
<1>4. PICK c \in 0 .. n : m = P!Chunk(f, c, "idle")
  BY <1>3 DEF InTurn
<1>5. n < whole
  BY <1>1 DEF DataFollows
<1>6. c \in Nat /\ c < whole
  <2> HIDE DEF n, whole
  <2>1. n \in Nat /\ whole \in Nat /\ n < whole
    BY <1>1, <1>2, <1>5
  <2> QED
    BY <1>4, <2>1
<1>7. m.remain = whole - (c + 1)
  <2>1. "idle" \in P!Steps
    BY DEF P!Steps
  <2> QED
    BY <1>1, <1>4, <1>6, <2>1, ChunkIs
<1>8. c = n
  <2>1. CASE fieldData = <<>>
    BY <1>1, <1>4, <2>1
  <2>2. CASE fieldData # <<>>
    <3>1. m.remain = expectChunksRemain
      BY <2>2 DEF P!OutOfTurn
    <3>2. expectChunksRemain = whole - n - 1
      BY <1>1, <2>2 DEF DataFollows
    <3> HIDE DEF m, n, whole
    <3> QED
      BY <1>1, <1>2, <1>6, <1>7, <3>1, <3>2 DEF n
  <2> QED
    BY <2>1, <2>2
<1>9. Only(f, pageRequests)
  BY <1>3 DEF InTurn
<1>10. Only(f, Tail(pageReplies))
  <2>1. \A k \in DOMAIN pageReplies : 1 < k => pageReplies[k].field = f
    BY <1>3 DEF InTurn, ComesLast
  <2>2. \A k \in DOMAIN pageReplies : k # 1 => 1 < k
    BY <1>1
  <2> HIDE DEF f
  <2> QED
    BY <1>3, <2>1, <2>2 DEF Only
<1> QED
  BY <1>4, <1>7, <1>8, <1>9, <1>10
\* An answer is taken, as far as it does not depend on which.
LEMMA AnswerTaken ==
  ASSUME PageInv, P!Receive
  PROVE  /\ pageReplies # <<>> /\ pageReplies' = Tail(pageReplies)
         /\ pageReplies' \in Seq(Messages) /\ pageReplies \in Seq(Messages)
         /\ Head(pageReplies) \in Messages /\ Head(pageReplies).field \in P!Fields
         /\ UNCHANGED <<step, nextStatusChunk, pageRequests>>
         /\ ValuesWritten'
         /\ LoadsField => InTurn(loadQ, fieldChunk, pageRequests, Tail(pageReplies))
         /\ pageRequests \in Seq(Requests)
<1>1. /\ pageReplies # <<>> /\ pageReplies' = Tail(pageReplies)
      /\ UNCHANGED <<step, nextStatusChunk, pageRequests>>
  BY DEF P!Receive, P!endpointVars
<1>2. pageReplies \in Seq(Messages) /\ pageRequests \in Seq(Requests)
  BY DEF PageInv, PageTyped
<1>3. Tail(pageReplies) \in Seq(Messages) /\ Head(pageReplies) \in Messages
  BY <1>1, <1>2, TailFacts
<1>4. Head(pageReplies).field \in P!Fields
  BY <1>3 DEF Messages
<1>5. LoadsField => InTurn(loadQ, fieldChunk, pageRequests, Tail(pageReplies))
  BY <1>1, <1>2, LessOnWay DEF PageInv
<1>6. ValuesWritten'
  BY <1>1 DEF PageInv, ValuesWritten
<1> QED
  BY <1>1, <1>2, <1>3, <1>4, <1>5, <1>6

\* What the script does with an answer about another field, or one out of turn.
TurnedAway ==
  \/ Head(pageReplies).field # P!Loading /\ fieldData' = <<>> /\ fieldChunk' = 0
  \/ /\ Head(pageReplies).field = P!Loading
     /\ fieldData' = fieldData /\ fieldChunk' = fieldChunk

\* With chunks of a field there, none comes about another.
LEMMA TurnedAwayInv ==
  ASSUME PageInv, P!Receive, TurnedAway,
         UNCHANGED <<loadQ, expectChunksRemain, fieldPopup, shown, torn>>
  PROVE  PageInv'
<1> USE DEF PageInv
<1> DEFINE m == Head(pageReplies)
<1>1. /\ pageReplies' = Tail(pageReplies) /\ pageReplies' \in Seq(Messages)
      /\ m.field \in P!Fields /\ pageReplies # <<>> /\ pageReplies \in Seq(Messages)
      /\ UNCHANGED <<step, nextStatusChunk, pageRequests>>
      /\ ValuesWritten'
      /\ LoadsField => InTurn(loadQ, fieldChunk, pageRequests, pageReplies')
  BY AnswerTaken
<1>2. \/ fieldChunk' = fieldChunk /\ fieldData' = fieldData
      \/ fieldData' = <<>> /\ fieldChunk' = 0
  BY DEF TurnedAway
<1>3. PageTyped'
  <2>1. <<>> \in Seq(Messages) /\ Len(<<>>) = 0
    OBVIOUS
  <2> QED
    BY <1>1, <1>2, <2>1 DEF PageTyped
<1>4. StackInOrder' /\ LoadedOrShown' /\ LoadsField' = LoadsField
  BY DEF StackInOrder, LoadedOrShown, LoadsField
<1>5. ASSUME LoadsField
      PROVE  fieldChunk' = fieldChunk /\ fieldData' = fieldData
  <2>1. CASE m.field # P!Loading
    <3>1. m.field # P!Last(loadQ)
      BY <1>5, <2>1 DEF LoadsField, P!Loading
    <3>2. m = pageReplies[1] /\ 1 \in DOMAIN pageReplies
      BY <1>1, TailFacts
    <3>3. ~(fieldChunk > 0)
      BY <1>5, <3>1, <3>2 DEF InTurn, Only
    <3>4. fieldChunk = Len(fieldData) /\ fieldData \in Seq(Messages)
      BY DEF PageTyped
    <3>5. fieldChunk = 0 /\ fieldData = <<>>
      BY <3>3, <3>4
    <3> QED
      BY <2>1, <3>5 DEF TurnedAway
  <2>2. CASE m.field = P!Loading
    BY <2>2 DEF TurnedAway
  <2> QED
    BY <2>1, <2>2
<1>6. LoadsField' => /\ InTurn(loadQ, fieldChunk, pageRequests, pageReplies)'
                     /\ DataFollows(P!Last(loadQ), fieldData, expectChunksRemain)'
  BY <1>1, <1>4, <1>5
<1>7. LeftIsThrownAway'
  <2>1. ASSUME ~fieldPopup, loadQ = <<>>
        PROVE  m.field # P!Loading
    <3>1. P!Loading = 0
      BY <2>1 DEF P!Loading
    <3>2. 0 \notin P!Fields
      BY FieldFacts
    <3> QED
      BY <1>1, <3>1, <3>2
  <2> QED
    BY <2>1 DEF LeftIsThrownAway, TurnedAway
<1> QED
  BY <1>1, <1>3, <1>4, <1>6, <1>7

\* A chunk that is not the last follows on what is there.
LEMMA CollectedInv ==
  ASSUME PageInv, P!Receive,
         Head(pageReplies).field = P!Loading, ~P!OutOfTurn(Head(pageReplies)),
         Head(pageReplies).remain > 0,
         fieldData' = Append(fieldData, Head(pageReplies)), fieldChunk' = fieldChunk + 1,
         expectChunksRemain' = Head(pageReplies).remain - 1,
         UNCHANGED <<loadQ, fieldPopup, shown, torn>>
  PROVE  PageInv'
<1> USE DEF PageInv
<1> DEFINE m == Head(pageReplies)
           f == P!Last(loadQ)
           n == fieldChunk
           whole == Chunks[f]
<1>1. /\ pageReplies' = Tail(pageReplies) /\ pageReplies' \in Seq(Messages)
      /\ m \in Messages /\ m.field \in P!Fields
      /\ pageReplies # <<>> /\ pageReplies \in Seq(Messages)
      /\ UNCHANGED <<step, nextStatusChunk, pageRequests>>
      /\ ValuesWritten'
      /\ LoadsField => InTurn(loadQ, fieldChunk, pageRequests, pageReplies')
  BY AnswerTaken
<1>2. fieldData \in Seq(Messages) /\ n = Len(fieldData) /\ n \in Nat
  BY DEF PageTyped
<1>3. /\ fieldData' \in Seq(Messages) /\ Len(fieldData') = n + 1
      /\ fieldData'[n + 1] = m
      /\ \A k \in DOMAIN fieldData : fieldData'[k] = fieldData[k]
      /\ \A k \in DOMAIN fieldData' : k \in DOMAIN fieldData \/ k = n + 1
  BY <1>1, <1>2, MoreFacts
<1>4. PageTyped'
  <2>1. expectChunksRemain' \in Int
    BY <1>1 DEF Messages
  <2> QED
    BY <1>1, <1>3, <2>1 DEF PageTyped
<1>5. StackInOrder' /\ LoadedOrShown' /\ LoadsField' = LoadsField
  BY DEF StackInOrder, LoadedOrShown, LoadsField
<1>6. ASSUME LoadsField
      PROVE  /\ InTurn(loadQ, n + 1, pageRequests, pageReplies')
             /\ DataFollows(f, fieldData', expectChunksRemain')
  <2>1. m.field = f
    BY <1>6 DEF LoadsField, P!Loading
  <2>2. /\ m = P!Chunk(f, n, "idle") /\ m.remain = whole - (n + 1)
        /\ Only(f, pageRequests) /\ Only(f, pageReplies')
    BY <1>1, <1>6, <2>1, NextChunk
  <2>3. f \in P!Fields /\ f # P!Command
    BY <1>6, FrontFacts DEF PageTyped, LoadsField
  <2>4. whole \in 1 .. 255
    BY <2>3, FieldFacts
  <2>5. InTurn(loadQ, n, pageRequests, pageReplies')
    BY <1>1, <1>6
  <2>6. InTurn(loadQ, n + 1, pageRequests, pageReplies')
    <3>1. \A k \in Nat : k <= n => k <= n + 1
      BY <1>2
    <3>2. 0 .. n \subseteq 0 .. n + 1
      BY <1>2
    <3>3. \A k \in DOMAIN pageRequests :
            pageRequests[k] \in Reads /\ pageRequests[k].field = f => pageRequests[k].arg <= n + 1
      <4> SUFFICES ASSUME NEW k \in DOMAIN pageRequests, pageRequests[k] \in Reads,
                          pageRequests[k].field = f
                   PROVE  pageRequests[k].arg <= n + 1
        OBVIOUS
      <4>1. pageRequests[k].arg \in Nat
        BY DEF Reads
      <4>2. pageRequests[k].arg <= n
        BY <2>5 DEF InTurn
      <4> QED
        BY <3>1, <4>1, <4>2
    <3>4. \A k \in DOMAIN pageReplies' :
            pageReplies'[k].field = f => \E c \in 0 .. n + 1 : pageReplies'[k] = P!Chunk(f, c, "idle")
      BY <2>5, <3>2 DEF InTurn
    <3> HIDE DEF f, n
    <3> QED
      BY <2>2, <2>5, <3>3, <3>4 DEF InTurn, f
  <2>7. DataFollows(f, fieldData', expectChunksRemain')
    <3> HIDE DEF f, n, m, whole
    <3>1. m.remain > 0 /\ expectChunksRemain' = m.remain - 1
      BY DEF m
    <3>2. n + 1 < whole /\ expectChunksRemain' = whole - (n + 1) - 1 /\ (n + 1) - 1 = n
      BY <1>2, <2>2, <2>4, <3>1
    <3>3. \A k \in DOMAIN fieldData : fieldData[k] = P!Chunk(f, k - 1, "idle")
      BY <1>6 DEF DataFollows, f
    <3>4. fieldData'[n + 1] = P!Chunk(f, (n + 1) - 1, "idle")
      BY <1>3, <2>2, <3>2
    <3>5. \A k \in DOMAIN fieldData' : fieldData'[k] = P!Chunk(f, k - 1, "idle")
      BY <1>3, <3>3, <3>4
    <3> QED
      BY <1>3, <3>2, <3>5 DEF DataFollows, whole
  <2> QED
    BY <2>6, <2>7
<1>7. LoadsField' => /\ InTurn(loadQ, fieldChunk, pageRequests, pageReplies)'
                     /\ DataFollows(P!Last(loadQ), fieldData, expectChunksRemain)'
  BY <1>1, <1>5, <1>6
<1>8. LeftIsThrownAway'
  <2>1. ~(~fieldPopup /\ loadQ = <<>>)
    <3>1. ~fieldPopup /\ loadQ = <<>> => P!Loading = 0
      BY DEF P!Loading
    <3>2. 0 \notin P!Fields
      BY FieldFacts
    <3> QED
      BY <1>1, <3>1, <3>2
  <2> QED
    BY <2>1 DEF LeftIsThrownAway
<1> QED
  BY <1>1, <1>4, <1>5, <1>7, <1>8
\* A field is complete with all its chunks, in their order.
LEMMA FieldIsWhole ==
  ASSUME PageTyped, StackInOrder, LoadsField, pageReplies # <<>>,
         InTurn(loadQ, fieldChunk, pageRequests, pageReplies),
         DataFollows(P!Last(loadQ), fieldData, expectChunksRemain),
         Head(pageReplies).field = P!Last(loadQ), ~P!OutOfTurn(Head(pageReplies)),
         Head(pageReplies).remain = 0
  PROVE  P!Whole(P!Last(loadQ), Append(fieldData, Head(pageReplies)))
<1> DEFINE f == P!Last(loadQ)
           m == Head(pageReplies)
           n == fieldChunk
           data == Append(fieldData, m)
<1>1. m = P!Chunk(f, n, "idle")
  BY NextChunk
<1>2. f \in P!Fields /\ f # P!Command /\ n \in Nat /\ n = Len(fieldData)
      /\ fieldData \in Seq(Messages) /\ pageReplies \in Seq(Messages)
  BY FrontFacts DEF PageTyped, LoadsField
<1>3. m \in Messages
  BY <1>2, TailFacts
<1>4. /\ Len(data) = n + 1 /\ data[n + 1] = m
      /\ \A k \in DOMAIN fieldData : data[k] = fieldData[k]
      /\ \A k \in DOMAIN data : k \in DOMAIN fieldData \/ k = n + 1
  BY <1>2, <1>3, MoreFacts
<1>5. data \in Seq(Messages) /\ DOMAIN data = 1 .. n + 1
  BY <1>2, <1>3, <1>4
<1>6. \A k \in DOMAIN fieldData : fieldData[k] = P!Chunk(f, k - 1, "idle")
  BY DEF DataFollows
<1> HIDE DEF data, n
<1>7. (n + 1) - 1 = n /\ (\A k \in 1 .. n + 1 : k - 1 \in Nat) /\ 1 \in 1 .. n + 1
  BY <1>2
<1>8. \A k \in 1 .. n + 1 : data[k] = P!Chunk(f, k - 1, "idle")
  BY <1>1, <1>4, <1>5, <1>6, <1>7
<1>9. \A c \in Nat : P!Chunk(f, c, "idle").field = f /\ P!Chunk(f, c, "idle").chunk = c
                     /\ P!Chunk(f, c, "idle").step = "idle"
  <2>1. "idle" \in P!Steps
    BY DEF P!Steps
  <2> QED
    BY <1>2, <2>1, ChunkIs
<1>10. \A k \in 1 .. n + 1 :
         data[k].field = f /\ data[k].chunk = k - 1 /\ data[k].step = data[1].step
  <2> HIDE DEF f
  <2>1. \A k \in 1 .. n + 1 :
          data[k].field = f /\ data[k].chunk = k - 1 /\ data[k].step = "idle"
    BY <1>7, <1>8, <1>9
  <2> QED
    BY <1>7, <2>1
<1>11. P!Last(data).remain = 0
  BY <1>4 DEF P!Last
<1> QED
  BY <1>5, <1>10, <1>11 DEF P!Whole, data

\* The stack without its top is in order, and what was below the top is not loaded yet.
LEMMA StackLess ==
  ASSUME loadQ \in Seq(P!Fields), loadQ # <<>>, StackInOrder, LoadedOrShown,
         loadQ' = P!Front(loadQ), fieldPopup' => fieldPopup,
         shown \in [P!Fields -> {"nothing", "old", "new"}],
         shown' = [shown EXCEPT ![P!Last(loadQ)] = "new"]
  PROVE  StackInOrder' /\ LoadedOrShown'
<1> DEFINE q == P!Front(loadQ)
           last == Len(loadQ)
<1>1. /\ P!Last(loadQ) = loadQ[last] /\ P!Last(loadQ) \in P!Fields
      /\ \A k \in DOMAIN q : k \in DOMAIN loadQ /\ k # last /\ q[k] = loadQ[k]
      /\ \A k \in DOMAIN loadQ : k # last => k \in DOMAIN q
      /\ last = 1 => q = <<>>
  BY FrontFacts
<1>2. fieldPopup => q = <<>>
  <2>1. Len(<<P!Command>>) = 1
    OBVIOUS
  <2> QED
    BY <1>1, <2>1 DEF StackInOrder
<1> HIDE DEF q, last
<1>3. loadQ' = q
  BY DEF q
<1>4. StackInOrder'
  BY <1>1, <1>2, <1>3 DEF StackInOrder
<1>5. LoadedOrShown'
  <2> SUFFICES ASSUME NEW f \in P!Fields, shown'[f] # "new"
               PROVE  \E k \in DOMAIN q : q[k] = f
    BY <1>3 DEF LoadedOrShown
  <2>1. f # P!Last(loadQ) /\ shown[f] # "new"
    OBVIOUS
  <2>2. PICK k \in DOMAIN loadQ : loadQ[k] = f
    BY <2>1 DEF LoadedOrShown
  <2> QED
    BY <1>1, <2>1, <2>2
<1> QED
  BY <1>4, <1>5

\* A field, or the command's status, is complete.
LEMMA FinishedInv ==
  ASSUME PageInv, P!Receive,
         Head(pageReplies).field = P!Loading, ~P!OutOfTurn(Head(pageReplies)),
         ~(Head(pageReplies).remain > 0),
         P!Finish(Head(pageReplies).field, Append(fieldData, Head(pageReplies)))
  PROVE  PageInv'
<1> USE DEF PageInv
<1> DEFINE m == Head(pageReplies)
           f == P!Last(loadQ)
<1>1. /\ pageReplies' = Tail(pageReplies) /\ pageReplies' \in Seq(Messages)
      /\ m \in Messages /\ m.field \in P!Fields
      /\ pageReplies # <<>> /\ pageReplies \in Seq(Messages)
      /\ UNCHANGED <<step, nextStatusChunk, pageRequests>>
      /\ ValuesWritten'
      /\ LoadsField => InTurn(loadQ, fieldChunk, pageRequests, pageReplies')
  BY AnswerTaken
<1>2. m.remain = 0
  <2> HIDE DEF m
  <2>1. m.remain \in 0 .. 255
    BY <1>1 DEF Messages
  <2>2. ~(m.remain > 0)
    BY DEF m
  <2> QED
    BY <2>1, <2>2
<1>3. /\ loadQ' = IF loadQ = <<>> THEN loadQ ELSE P!Front(loadQ)
      /\ fieldChunk' = 0 /\ fieldData' = <<>>
      /\ shown' = [shown EXCEPT ![m.field] = "new"]
      /\ torn' = IF P!Whole(m.field, Append(fieldData, m)) THEN torn ELSE torn \cup {m.field}
      /\ expectChunksRemain' = expectChunksRemain
      /\ m.field # P!Command => fieldPopup' = fieldPopup
      /\ m.field = P!Command => \E s \in {TRUE, FALSE} : fieldPopup' = (fieldPopup /\ s)
  <2>1. (m.field = P!Command) => fieldPopup' = (fieldPopup /\ status' # "idle")
    BY DEF P!Finish
  <2>2. (status' # "idle") \in {TRUE, FALSE}
    OBVIOUS
  <2> QED
    BY <2>1, <2>2 DEF P!Finish
<1>4. loadQ \in Seq(P!Fields) /\ shown \in [P!Fields -> {"nothing", "old", "new"}]
      /\ fieldPopup \in BOOLEAN
  BY DEF PageTyped
<1>5. PageTyped'
  <2>1. loadQ' \in Seq(P!Fields)
    BY <1>3, <1>4, FrontFacts
  <2>2. shown' \in [P!Fields -> {"nothing", "old", "new"}]
    BY <1>1, <1>3, <1>4
  <2>3. fieldPopup' \in BOOLEAN
    BY <1>3, <1>4
  <2>4. fieldData' \in Seq(Messages) /\ fieldChunk' = Len(fieldData')
    BY <1>3
  <2> QED
    BY <1>1, <1>3, <2>1, <2>2, <2>3, <2>4 DEF PageTyped
<1>6. fieldPopup' => fieldPopup
  BY <1>3, <1>4
<1>7. LeftIsThrownAway'
  BY <1>3 DEF LeftIsThrownAway
<1>8. CASE LoadsField
  <2>1. m.field = f /\ loadQ # <<>> /\ ~fieldPopup /\ f # P!Command
    BY <1>8 DEF LoadsField, P!Loading
  <2>2. torn' = torn
    <3>1. P!Whole(f, Append(fieldData, m))
      BY <1>1, <1>2, <1>8, <2>1, FieldIsWhole
    <3> QED
      BY <1>3, <2>1, <3>1
  <2> DEFINE q == P!Front(loadQ)
             g == P!Last(q)
             last == Len(loadQ)
  <2>3. StackInOrder' /\ LoadedOrShown'
    BY <1>3, <1>4, <1>6, <2>1, StackLess
  <2>4. /\ q \in Seq(P!Fields) /\ f = loadQ[last] /\ last \in DOMAIN loadQ
        /\ \A k \in DOMAIN q : k \in DOMAIN loadQ /\ k # last /\ q[k] = loadQ[k]
    BY <1>4, <2>1, FrontFacts
  <2>5. ASSUME q # <<>>, g # P!Command
        PROVE  InTurn(q, 0, pageRequests, pageReplies') /\ DataFollows(g, <<>>, expectChunksRemain)
    <3>1. g \in P!Fields /\ \E k \in DOMAIN q : g = q[k]
      BY <2>4, <2>5, FrontFacts
    <3> HIDE DEF q, g
    <3>2. \A k \in DOMAIN q : q[k] # f
      BY <2>4 DEF StackInOrder
    <3>3. ASSUME NEW way, OnlyDone(loadQ, way)
          PROVE  \A k \in DOMAIN way : /\ way[k].field # P!Command /\ way[k].field # g
                                       /\ \A j \in DOMAIN q : q[j] # way[k].field
      <4> SUFFICES ASSUME NEW k \in DOMAIN way
                   PROVE  /\ way[k].field # P!Command
                          /\ \A j \in DOMAIN q : q[j] # way[k].field
        BY <3>1
      <4>1. CASE way[k].field = f
        BY <2>1, <3>2, <4>1
      <4>2. CASE way[k].field # P!Command /\ \A j \in DOMAIN loadQ : loadQ[j] # way[k].field
        BY <2>4, <4>2
      <4> QED
        BY <3>3, <4>1, <4>2 DEF OnlyDone
    <3>4. OnlyDone(loadQ, pageRequests) /\ OnlyDone(loadQ, pageReplies')
      BY <1>1, <1>8 DEF InTurn
    <3>5. /\ \A k \in DOMAIN pageRequests :
               /\ pageRequests[k].field # P!Command /\ pageRequests[k].field # g
               /\ \A j \in DOMAIN q : q[j] # pageRequests[k].field
          /\ \A k \in DOMAIN pageReplies' :
               /\ pageReplies'[k].field # P!Command /\ pageReplies'[k].field # g
               /\ \A j \in DOMAIN q : q[j] # pageReplies'[k].field
      BY <3>3, <3>4
    <3>6. InTurn(q, 0, pageRequests, pageReplies')
      <4>1. OnlyDone(q, pageRequests) /\ OnlyDone(q, pageReplies')
        BY <3>5 DEF OnlyDone
      <4>2. ComesLast(g, pageRequests) /\ ComesLast(g, pageReplies')
        BY <3>5 DEF ComesLast
      <4>3. ~(0 > 0)
        OBVIOUS
      <4> QED
        BY <3>5, <4>1, <4>2, <4>3 DEF InTurn, g
    <3>7. DataFollows(g, <<>>, expectChunksRemain)
      <4>1. Chunks[g] \in 1 .. 255
        BY <2>5, <3>1, FieldFacts
      <4>2. Len(<<>>) < Chunks[g]
        BY <4>1
      <4> QED
        BY <4>2 DEF DataFollows
    <3> QED
      BY <3>6, <3>7
  <2>6. loadQ' = q
    BY <1>3, <2>1
  <2> HIDE DEF q
  <2>7. LoadsField' => q # <<>> /\ g # P!Command
    BY <2>6 DEF LoadsField
  <2>8. LoadsField' => /\ InTurn(loadQ, fieldChunk, pageRequests, pageReplies)'
                       /\ DataFollows(P!Last(loadQ), fieldData, expectChunksRemain)'
    BY <1>1, <1>3, <2>5, <2>6, <2>7
  <2> QED
    BY <1>1, <1>5, <1>7, <2>2, <2>3, <2>8
<1>9. CASE ~LoadsField
  <2>1. m.field = P!Command /\ (fieldPopup \/ (loadQ # <<>> /\ f = P!Command))
    <3>1. 0 \notin P!Fields
      BY FieldFacts
    <3> QED
      BY <1>1, <1>9, <3>1 DEF LoadsField, P!Loading
  <2>2. loadQ = <<>> \/ (loadQ # <<>> /\ Len(loadQ) = 1 /\ f = P!Command)
    <3>1. CASE fieldPopup
      <4>1. CASE loadQ = <<P!Command>>
        BY <4>1 DEF P!Last
      <4> QED
        BY <3>1, <4>1 DEF StackInOrder
    <3>2. CASE loadQ # <<>> /\ f = P!Command
      <4>1. Len(loadQ) \in DOMAIN loadQ /\ loadQ[Len(loadQ)] = P!Command
        BY <1>4, <3>2, FrontFacts
      <4> QED
        BY <3>2, <4>1 DEF StackInOrder
    <3> QED
      BY <2>1, <3>1, <3>2
  <2>3. loadQ' = <<>>
    BY <1>3, <1>4, <2>2, FrontFacts
  <2>4. StackInOrder' /\ LoadedOrShown'
    <3>1. CASE loadQ # <<>>
      BY <1>3, <1>4, <1>6, <2>1, <2>2, <3>1, StackLess
    <3>2. CASE loadQ = <<>>
      <4>1. StackInOrder'
        BY <2>3 DEF StackInOrder
      <4>2. \A g \in P!Fields : shown[g] = "new"
        BY <3>2 DEF LoadedOrShown
      <4>3. \A g \in P!Fields : shown'[g] = "new"
        BY <1>3, <1>4, <4>2
      <4> QED
        BY <4>1, <4>3 DEF LoadedOrShown
    <3> QED
      BY <3>1, <3>2
  <2>5. ~LoadsField'
    BY <2>3 DEF LoadsField
  <2>6. torn' \subseteq {P!Command}
    BY <1>3, <2>1
  <2> QED
    BY <1>1, <1>5, <1>7, <2>4, <2>5, <2>6
<1> QED
  BY <1>8, <1>9
\* The script takes an answer.
LEMMA PageReceiveStep ==
  ASSUME PageInv, P!Receive
  PROVE  PageInv'
<1> DEFINE m == Head(pageReplies)
<1>1. CASE m.field # P!Loading
  <2>1. /\ fieldData' = <<>> /\ fieldChunk' = 0
        /\ UNCHANGED <<loadQ, expectChunksRemain, fieldPopup, shown, torn>>
    BY <1>1 DEF P!Receive
  <2> QED
    BY <1>1, <2>1, TurnedAwayInv DEF TurnedAway
<1>2. CASE m.field = P!Loading /\ P!OutOfTurn(m)
  <2>1. UNCHANGED <<loadQ, fieldChunk, fieldData, expectChunksRemain, fieldPopup, shown, torn>>
    BY <1>2 DEF P!Receive, P!scriptVars
  <2> QED
    BY <1>2, <2>1, TurnedAwayInv DEF TurnedAway
<1>3. CASE m.field = P!Loading /\ ~P!OutOfTurn(m) /\ m.remain > 0
  <2>1. /\ fieldData' = Append(fieldData, m) /\ fieldChunk' = fieldChunk + 1
        /\ expectChunksRemain' = m.remain - 1
        /\ UNCHANGED <<loadQ, fieldPopup, shown, torn>>
    BY <1>3 DEF P!Receive
  <2> QED
    BY <1>3, <2>1, CollectedInv
<1>4. CASE m.field = P!Loading /\ ~P!OutOfTurn(m) /\ ~(m.remain > 0)
  <2>1. P!Finish(m.field, Append(fieldData, m))
    BY <1>4 DEF P!Receive
  <2> QED
    BY <1>4, <2>1, FinishedInv
<1> QED
  BY <1>1, <1>2, <1>3, <1>4

\* A user who waits finds everything loaded, and nothing on its way or half there.
LEMMA OnLoadedPage ==
  ASSUME PageInv, P!OnPage
  PROVE  /\ ~fieldPopup /\ loadQ = <<>> /\ pageRequests = <<>> /\ pageReplies = <<>>
         /\ fieldData = <<>> /\ fieldChunk = 0
         /\ \A f \in P!Fields : shown[f] = "new"
<1>1. ~fieldPopup /\ loadQ = <<>> /\ pageRequests = <<>> /\ pageReplies = <<>>
  BY DEF P!OnPage
<1>2. fieldData = <<>>
  BY <1>1 DEF PageInv, LeftIsThrownAway
<1>3. fieldChunk = 0
  BY <1>2 DEF PageInv, PageTyped
<1>4. \A f \in P!Fields : shown[f] = "new"
  BY <1>1 DEF PageInv, LoadedOrShown
<1> QED
  BY <1>1, <1>2, <1>3, <1>4

\* What the user starts: fields are reloaded, after what is written to the first of them
\* or to the command.
Reloads ==
  /\ loadQ' \in Seq(P!Fields) /\ shown' \in [P!Fields -> {"nothing", "old", "new"}]
  /\ StackInOrder' /\ LoadedOrShown'
  /\ fieldData' = <<>> /\ fieldChunk' = 0 /\ fieldPopup' \in BOOLEAN
  /\ UNCHANGED <<expectChunksRemain, step, nextStatusChunk, pageReplies, torn>>
  /\ \/ pageRequests' = <<>>
     \/ \E w \in Writes :
          /\ pageRequests' = <<w>>
          /\ \/ fieldPopup' /\ w.field = P!Command
             \/ w.field # P!Command /\ w.arg = "value" /\ w.field = P!Last(loadQ')

\* Of a field nothing is there yet.
LEMMA NothingYet ==
  ASSUME NEW f \in P!Fields, f # P!Command, NEW remain
  PROVE  DataFollows(f, <<>>, remain)
<1>1. Chunks[f] \in 1 .. 255
  BY FieldFacts
<1>2. Len(<<>>) < Chunks[f]
  BY <1>1
<1> QED
  BY <1>2 DEF DataFollows

\* Reloading starts with nothing on its way but what is about the first field.
LEMMA ReloadsInv ==
  ASSUME PageInv, P!OnPage, Reloads
  PROVE  PageInv'
<1> USE DEF Reloads
<1>1. pageReplies = <<>> /\ pageReplies' = <<>>
  BY OnLoadedPage
<1>2. /\ pageRequests' \in Seq(Requests)
      /\ \A k \in DOMAIN pageRequests' : \A j \in DOMAIN pageRequests' : ~(j < k)
      /\ \A k \in DOMAIN pageRequests' :
           /\ pageRequests'[k] \in Writes
           /\ \/ fieldPopup' /\ pageRequests'[k].field = P!Command
              \/ pageRequests'[k].arg = "value" /\ pageRequests'[k].field = P!Last(loadQ')
  <2>1. CASE pageRequests' = <<>>
    BY <2>1
  <2>2. ASSUME NEW w \in Writes, pageRequests' = <<w>>,
               \/ fieldPopup' /\ w.field = P!Command
               \/ w.field # P!Command /\ w.arg = "value" /\ w.field = P!Last(loadQ')
        PROVE  <1>2!:
    <3>1. w \in Requests
      BY DEF Requests
    <3>2. DOMAIN <<w>> = {1} /\ <<w>>[1] = w /\ ~(1 < 1)
      OBVIOUS
    <3> QED
      BY <2>2, <3>1, <3>2
  <2> QED
    BY <2>1, <2>2
<1>3. ValuesWritten'
  BY <1>2 DEF ValuesWritten
<1>4. PageTyped'
  BY <1>1, <1>2 DEF PageInv, PageTyped
<1>5. ASSUME LoadsField'
      PROVE  /\ InTurn(loadQ, fieldChunk, pageRequests, pageReplies)'
             /\ DataFollows(P!Last(loadQ), fieldData, expectChunksRemain)'
  <2> DEFINE f == P!Last(loadQ')
  <2>1. f \in P!Fields /\ f # P!Command /\ ~fieldPopup'
    BY <1>5, FrontFacts DEF LoadsField
  <2>2. \A k \in DOMAIN pageRequests' :
          pageRequests'[k] \in Writes /\ pageRequests'[k].field = f
    BY <1>2, <2>1
  <2>3. \A w \in Writes : w \notin Reads
    BY DEF Writes, Reads
  <2>4. DOMAIN pageReplies' = {}
    BY <1>1
  <2> HIDE DEF f
  <2>5. OnlyDone(loadQ', pageRequests') /\ OnlyDone(loadQ', pageReplies')
    BY <2>2, <2>4 DEF OnlyDone, f
  <2>6. ComesLast(f, pageRequests') /\ ComesLast(f, pageReplies')
    BY <1>2, <2>4 DEF ComesLast
  <2>7. InTurn(loadQ', 0, pageRequests', pageReplies')
    <3>1. ~(0 > 0)
      OBVIOUS
    <3> QED
      BY <2>2, <2>3, <2>4, <2>5, <2>6, <3>1 DEF InTurn, f
  <2>8. DataFollows(f, <<>>, expectChunksRemain')
    BY <2>1, NothingYet
  <2> QED
    BY <2>7, <2>8 DEF f
<1>6. LeftIsThrownAway'
  BY DEF LeftIsThrownAway
<1> QED
  BY <1>3, <1>4, <1>5, <1>6 DEF PageInv

\* All fields, from the last to the first, and with one of them taken to the top.
LEMMA AllFieldsFacts ==
  /\ P!AllFields \in Seq(P!Fields) /\ Len(P!AllFields) = P!Command
  /\ \A k \in P!Fields : P!AllFields[k] = P!Command - k + 1
<1> DEFINE n == P!Command
           s == [f \in P!Fields |-> f]
<1>1. n \in Nat /\ P!Fields = 1 .. n
  BY FieldFacts
<1>2. P!AllFields = P!Reverse(s)
  BY DEF P!AllFields
<1> HIDE DEF n
<1>3. s \in [1 .. n -> 1 .. n]
  BY <1>1
<1>4. s \in Seq(1 .. n) /\ Len(s) = n
  BY <1>1, <1>3, SeqDef
<1>5. \A k \in 1 .. n : n - k + 1 \in 1 .. n
  BY <1>1
<1>6. P!AllFields = [k \in 1 .. n |-> s[n - k + 1]]
  BY <1>2, <1>4 DEF P!Reverse
<1>7. \A k \in 1 .. n : P!AllFields[k] = n - k + 1
  BY <1>1, <1>5, <1>6
<1>8. P!AllFields \in [1 .. n -> 1 .. n]
  BY <1>1, <1>5, <1>6
<1>9. P!AllFields \in Seq(1 .. n) /\ Len(P!AllFields) = n
  BY <1>1, <1>8, SeqDef
<1> QED
  BY <1>1, <1>7, <1>9 DEF n

\* A stack of all fields, each once, and the command at its bottom.
AllInOrder(stack) ==
  /\ stack \in Seq(P!Fields) /\ stack # <<>>
  /\ \A j, k \in DOMAIN stack : stack[j] = stack[k] => j = k
  /\ \A k \in DOMAIN stack : stack[k] = P!Command => k = 1
  /\ \A f \in P!Fields : \E k \in DOMAIN stack : stack[k] = f

\* All fields are such a stack.
LEMMA AllFieldsInOrder == AllInOrder(P!AllFields)
<1> DEFINE n == P!Command
           q == P!AllFields
<1>1. n \in Nat \ {0} /\ P!Fields = 1 .. n
  BY FieldFacts
<1>2. q \in Seq(P!Fields) /\ Len(q) = n /\ \A k \in 1 .. n : q[k] = n - k + 1
  BY <1>1, AllFieldsFacts
<1>3. DOMAIN q = 1 .. n /\ q # <<>>
  BY <1>1, <1>2
<1> HIDE DEF n, q
<1>4. \A j, k \in 1 .. n : n - j + 1 = n - k + 1 => j = k
  BY <1>1
<1>5. \A k \in 1 .. n : n - k + 1 = n => k = 1
  BY <1>1
<1>6. \A f \in 1 .. n : n - f + 1 \in 1 .. n /\ n - (n - f + 1) + 1 = f
  BY <1>1
<1>7. \A f \in P!Fields : \E k \in DOMAIN q : q[k] = f
  <2> SUFFICES ASSUME NEW f \in 1 .. n
               PROVE  \E k \in 1 .. n : q[k] = f
    BY <1>1, <1>3
  <2>1. n - f + 1 \in 1 .. n /\ q[n - f + 1] = f
    BY <1>2, <1>6
  <2> QED
    BY <2>1
<1>8. \A j, k \in DOMAIN q : q[j] = q[k] => j = k
  BY <1>2, <1>3, <1>4
<1>9. \A k \in DOMAIN q : q[k] = n => k = 1
  BY <1>2, <1>3, <1>5
<1> QED
  BY <1>2, <1>3, <1>7, <1>8, <1>9, Zenon DEF AllInOrder, n, q

\* And with a field that is not the command on top.
LEMMA AllFieldsButInOrder ==
  ASSUME NEW f \in DOMAIN Chunks
  PROVE  AllInOrder(P!AllFieldsBut(f) \o <<f>>) /\ P!Last(P!AllFieldsBut(f) \o <<f>>) = f
<1> DEFINE n == P!Command
           all == P!AllFields
           k == n + 1 - f
           but == P!AllFieldsBut(f)
           q == but \o <<f>>
<1>1. n \in Nat \ {0} /\ P!Fields = 1 .. n /\ f \in 1 .. n - 1
  BY FieldFacts
<1>2. all \in Seq(P!Fields) /\ Len(all) = n /\ \A j \in 1 .. n : all[j] = n - j + 1
  BY <1>1, AllFieldsFacts
<1>3. but = Without(all, k)
  BY DEF P!AllFieldsBut, P!RemoveAt, Without
<1> HIDE DEF n, all, but
<1>4. k \in 2 .. n
  BY <1>1
<1> HIDE DEF k
<1>5. k \in 1 .. Len(all) /\ k = n + 1 - f
  BY <1>1, <1>2, <1>4 DEF k
<1>6. /\ but \in Seq(P!Fields) /\ Len(but) = n - 1
      /\ \A j \in 1 .. n - 1 : but[j] = IF j < k THEN all[j] ELSE all[j + 1]
  <2>1. /\ Without(all, k) \in Seq(P!Fields) /\ Len(Without(all, k)) = Len(all) - 1
        /\ \A j \in 1 .. Len(all) - 1 :
             Without(all, k)[j] = IF j < k THEN all[j] ELSE all[j + 1]
    BY <1>2, <1>5, Removed
  <2> QED
    BY <1>2, <1>3, <2>1
<1>7. \A j \in 1 .. n - 1 : but[j] = IF j < k THEN n - j + 1 ELSE n - j
  <2> TAKE j \in 1 .. n - 1
  <2>1. j \in 1 .. n /\ j + 1 \in 1 .. n /\ n - (j + 1) + 1 = n - j
    BY <1>1
  <2> QED
    BY <1>2, <1>6, <2>1
<1>8. /\ q \in Seq(P!Fields) /\ Len(q) = (n - 1) + 1
      /\ \A j \in 1 .. n - 1 : q[j] = but[j]
      /\ q[(n - 1) + 1] = f
  <2>1. <<f>> \in Seq(P!Fields) /\ Len(<<f>>) = 1 /\ <<f>>[1] = f /\ 1 \in 1 .. 1
    BY <1>1
  <2> DEFINE one == <<f>>
  <2> HIDE DEF one
  <2>2. one \in Seq(P!Fields) /\ Len(one) = 1 /\ one[1] = f
    BY <2>1 DEF one
  <2>3. /\ but \o one \in Seq(P!Fields) /\ Len(but \o one) = Len(but) + Len(one)
        /\ \A j \in 1 .. Len(but) : (but \o one)[j] = but[j]
        /\ \A j \in 1 .. Len(one) : (but \o one)[Len(but) + j] = one[j]
    <3>1. but \in Seq(P!Fields) /\ one \in Seq(P!Fields)
      BY <1>6, <2>2
    <3> QED
      BY <3>1, Joined
  <2>4. q = but \o one
    BY DEF one
  <2> QED
    BY <1>6, <2>1, <2>2, <2>3, <2>4
<1> HIDE DEF q
<1>9. Len(q) = n /\ q[n] = f /\ DOMAIN q = 1 .. n /\ q # <<>>
  BY <1>1, <1>8
<1>10. \A j \in 1 .. n : q[j] = IF j = n THEN f ELSE IF j < k THEN n - j + 1 ELSE n - j
  BY <1>1, <1>7, <1>8, <1>9
<1>11. \A j, l \in 1 .. n : q[j] = q[l] => j = l
  BY <1>1, <1>5, <1>10
<1>12. \A j \in 1 .. n : q[j] = n => j = 1
  <2> TAKE j \in 1 .. n
  <2>1. CASE j = n
    BY <1>1, <1>9, <2>1
  <2>2. CASE j # n
    <3>1. j \in 1 .. n - 1 /\ n - j # n
      BY <1>1, <2>2
    <3>2. q[j] = n - j + 1 \/ q[j] = n - j
      BY <1>10, <2>2
    <3> QED
      BY <1>1, <3>1, <3>2
  <2> QED
    BY <2>1, <2>2
<1>13. \A g \in 1 .. n : \E j \in 1 .. n : q[j] = g
  <2> TAKE g \in 1 .. n
  <2>1. CASE g = f
    BY <1>1, <1>9, <2>1
  <2>2. CASE g > f
    <3>1. n + 1 - g \in 1 .. n /\ n + 1 - g # n /\ n + 1 - g < k /\ n - (n + 1 - g) + 1 = g
      BY <1>1, <1>5, <2>2
    <3> QED
      BY <1>10, <3>1
  <2>3. CASE g < f
    <3>1. n - g \in 1 .. n /\ n - g # n /\ ~(n - g < k) /\ n - (n - g) = g
      BY <1>1, <1>5, <2>3
    <3> QED
      BY <1>10, <3>1
  <2>4. g = f \/ g > f \/ g < f
    BY <1>1
  <2> QED
    BY <2>1, <2>2, <2>3, <2>4
<1>14. P!Last(q) = f
  BY <1>9 DEF P!Last
<1> QED
  BY <1>1, <1>8, <1>9, <1>11, <1>12, <1>13, <1>14 DEF AllInOrder, n, q, but
\* Fields on the page age.
LEMMA AgedFacts ==
  ASSUME PageTyped, NEW S
  PROVE  /\ P!Aged(S) \in [P!Fields -> {"nothing", "old", "new"}]
         /\ \A f \in P!Fields : f \notin S => P!Aged(S)[f] = shown[f]
BY DEF PageTyped, P!Aged

\* All of them are reloaded.
LEMMA AllReloaded ==
  ASSUME AllInOrder(loadQ'), ~fieldPopup'
  PROVE  StackInOrder' /\ LoadedOrShown'
BY DEF AllInOrder, StackInOrder, LoadedOrShown

\* Or one, when the others are new.
LEMMA OneReloaded ==
  ASSUME NEW f \in P!Fields, loadQ' = <<f>>, fieldPopup' => f = P!Command,
         \A g \in P!Fields : g # f => shown'[g] = "new"
  PROVE  loadQ' \in Seq(P!Fields) /\ P!Last(loadQ') = f /\ StackInOrder' /\ LoadedOrShown'
<1>1. /\ <<f>> \in Seq(P!Fields) /\ DOMAIN <<f>> = {1} /\ <<f>>[1] = f
      /\ P!Last(<<f>>) = f
  BY DEF P!Last
<1>2. StackInOrder'
  BY <1>1 DEF StackInOrder
<1>3. LoadedOrShown'
  BY <1>1 DEF LoadedOrShown
<1> QED
  BY <1>1, <1>2, <1>3

\* The user saves a value, leaves one as it was, or has everything reloaded.
LEMMA UserReloads ==
  ASSUME PageInv,
         \/ \E f \in DOMAIN Chunks : P!CancelEdit(f) \/ P!Save(f, "value")
         \/ P!reloadAllField
  PROVE  PageInv'
<1>1. PageTyped
  BY DEF PageInv
<1>2. CASE P!reloadAllField
  <2>1. /\ P!OnPage /\ fieldChunk' = 0 /\ fieldData' = <<>> /\ loadQ' = P!AllFields
        /\ shown' = P!Aged(P!Fields)
        /\ UNCHANGED <<expectChunksRemain, fieldPopup, step, nextStatusChunk, pageRequests,
                       pageReplies, torn>>
    BY <1>2 DEF P!reloadAllField, P!endpointVars
  <2>2. ~fieldPopup' /\ pageRequests' = <<>>
    BY <2>1, OnLoadedPage
  <2>3. StackInOrder' /\ LoadedOrShown' /\ loadQ' \in Seq(P!Fields)
    BY <2>1, <2>2, AllFieldsInOrder, AllReloaded DEF AllInOrder
  <2>4. shown' \in [P!Fields -> {"nothing", "old", "new"}] /\ fieldPopup' \in BOOLEAN
    BY <1>1, <2>1, AgedFacts DEF PageTyped
  <2>5. Reloads
    BY <2>1, <2>2, <2>3, <2>4 DEF Reloads
  <2> QED
    BY <2>1, <2>5, ReloadsInv
<1>3. ASSUME NEW f \in DOMAIN Chunks, P!CancelEdit(f)
      PROVE  PageInv'
  <2>1. /\ P!OnPage /\ fieldChunk' = 0 /\ fieldData' = <<>> /\ loadQ' = Append(loadQ, f)
        /\ shown' = P!Aged({f})
        /\ UNCHANGED <<expectChunksRemain, fieldPopup, step, nextStatusChunk, pageRequests,
                       pageReplies, torn>>
    BY <1>3 DEF P!CancelEdit, P!reloadCurField, P!endpointVars
  <2>2. ~fieldPopup' /\ pageRequests' = <<>> /\ loadQ' = <<f>>
    BY <2>1, OnLoadedPage
  <2>3. f \in P!Fields
    BY FieldFacts
  <2>4. /\ shown' \in [P!Fields -> {"nothing", "old", "new"}] /\ fieldPopup' \in BOOLEAN
        /\ \A g \in P!Fields : g # f => shown'[g] = "new"
    BY <1>1, <2>1, AgedFacts, OnLoadedPage DEF PageTyped
  <2>5. loadQ' \in Seq(P!Fields) /\ StackInOrder' /\ LoadedOrShown'
    BY <2>2, <2>3, <2>4, OneReloaded
  <2>6. Reloads
    BY <2>1, <2>2, <2>4, <2>5 DEF Reloads
  <2> QED
    BY <2>1, <2>6, ReloadsInv
<1>4. ASSUME NEW f \in DOMAIN Chunks, P!Save(f, "value")
      PROVE  PageInv'
  <2>1. /\ P!OnPage /\ loadQ' = loadQ \o P!AllFieldsBut(f) \o <<f>>
        /\ shown' = P!Aged(P!Fields)
        /\ pageRequests' = Append(pageRequests, P!Write(f, "value"))
        /\ UNCHANGED <<fieldChunk, fieldData, expectChunksRemain, fieldPopup, step,
                       nextStatusChunk, pageReplies, torn>>
    BY <1>4 DEF P!Save, P!Push, P!endpointVars
  <2>2. f \in P!Fields /\ f # P!Command
    BY FieldFacts
  <2> DEFINE q == P!AllFieldsBut(f) \o <<f>>
             w == P!Write(f, "value")
  <2>3. w \in Writes /\ w.field = f /\ w.arg = "value"
    BY <2>2 DEF P!Write, Writes
  <2>4. AllInOrder(q) /\ P!Last(q) = f
    BY AllFieldsButInOrder
  <2> HIDE DEF w
  <2>5. /\ ~fieldPopup' /\ fieldChunk' = 0 /\ fieldData' = <<>> /\ loadQ = <<>>
        /\ pageRequests' = <<w>>
    BY <2>1, OnLoadedPage DEF w
  <2>6. loadQ' = q
    <3>1. P!AllFieldsBut(f) \in Seq(P!Fields)
      <4>1. P!Command + 1 - f \in 1 .. Len(P!AllFields)
        BY AllFieldsFacts, FieldFacts
      <4>2. P!AllFields \in Seq(P!Fields)
        BY AllFieldsFacts
      <4>3. Without(P!AllFields, P!Command + 1 - f) \in Seq(P!Fields)
        BY <4>1, <4>2, Removed
      <4> QED
        BY <4>3 DEF P!AllFieldsBut, P!RemoveAt, Without
    <3>2. <<>> \o P!AllFieldsBut(f) = P!AllFieldsBut(f)
      BY <3>1, ConcatEmptySeq
    <3> QED
      BY <2>1, <2>5, <3>2
  <2> HIDE DEF q
  <2>7. StackInOrder' /\ LoadedOrShown' /\ loadQ' \in Seq(P!Fields)
    BY <2>4, <2>5, <2>6, AllReloaded DEF AllInOrder
  <2>8. shown' \in [P!Fields -> {"nothing", "old", "new"}] /\ fieldPopup' \in BOOLEAN
    BY <1>1, <2>1, AgedFacts DEF PageTyped
  <2>9. Reloads
    BY <2>1, <2>2, <2>3, <2>4, <2>5, <2>6, <2>7, <2>8 DEF Reloads
  <2> QED
    BY <2>1, <2>9, ReloadsInv
<1> QED
  BY <1>2, <1>3, <1>4

\* The user clicks on the command, and its status is loaded below a pop-up.
LEMMA UserClicks ==
  ASSUME PageInv, P!fieldCommandSave
  PROVE  PageInv'
<1>1. PageTyped
  BY DEF PageInv
<1> DEFINE f == P!Command
           w == P!Write(f, "click")
<1>2. /\ P!OnPage /\ fieldChunk' = 0 /\ fieldData' = <<>> /\ loadQ' = Append(loadQ, f)
      /\ shown' = P!Aged({f})
      /\ UNCHANGED <<expectChunksRemain, step, nextStatusChunk, pageReplies, torn>>
      /\ \/ pageRequests' = pageRequests /\ fieldPopup' = fieldPopup
         \/ fieldPopup' = TRUE /\ pageRequests' = Append(pageRequests, w)
  BY DEF P!fieldCommandSave, P!reloadCurField, P!Push, P!endpointVars
<1>3. f \in P!Fields
  BY FieldFacts
<1>4. w \in Writes /\ w.field = f
  BY <1>3 DEF P!Write, Writes
<1>5. loadQ' = <<f>> /\ (pageRequests' = <<>> \/ (fieldPopup' /\ pageRequests' = <<w>>))
  BY <1>2, OnLoadedPage
<1>6. /\ shown' \in [P!Fields -> {"nothing", "old", "new"}] /\ fieldPopup' \in BOOLEAN
      /\ \A g \in P!Fields : g # f => shown'[g] = "new"
  BY <1>1, <1>2, AgedFacts, OnLoadedPage DEF PageTyped
<1>7. loadQ' \in Seq(P!Fields) /\ StackInOrder' /\ LoadedOrShown'
  BY <1>3, <1>5, <1>6, OneReloaded
<1> HIDE DEF w
<1>8. Reloads
  BY <1>2, <1>4, <1>5, <1>6, <1>7 DEF Reloads
<1> QED
  BY <1>2, <1>8, ReloadsInv

\* The user confirms the command or goes, after which an answer to come throws away what
\* is left of its status.
LEMMA UserAnswers ==
  ASSUME PageInv, P!Confirm \/ P!Exit
  PROVE  PageInv'
<1> USE DEF PageInv
<1> DEFINE cancel == P!Write(P!Command, "cancel")
           confirmed == P!Write(P!Command, "confirmed")
<1>1. cancel \in Writes /\ confirmed \in Writes
      /\ cancel.field = P!Command /\ confirmed.field = P!Command
  BY FieldFacts DEF P!Write, Writes
<1>2. fieldPopup /\ (loadQ = <<>> \/ loadQ = <<P!Command>>)
  BY DEF P!Confirm, P!Exit, StackInOrder
<1> HIDE DEF cancel, confirmed
<1>3. PICK new \in Seq({cancel, confirmed}) :
        /\ pageRequests' = pageRequests \o new
        /\ \/ fieldPopup' = fieldPopup
           \/ fieldPopup' \in BOOLEAN /\ \E k \in 1 .. Len(new) : new[k] = cancel
  <2>1. CASE P!Confirm
    <3>1. pageRequests' = Append(pageRequests, confirmed) /\ fieldPopup' = fieldPopup
      BY <2>1 DEF P!Confirm, P!Push, confirmed
    <3>2. pageRequests' = pageRequests \o <<confirmed>>
      BY <1>1, <3>1, AppendIsConcat DEF PageTyped, Requests
    <3>3. <<confirmed>> \in Seq({cancel, confirmed})
      OBVIOUS
    <3> QED
      BY <3>1, <3>2, <3>3
  <2>2. CASE P!Exit
    <3>1. /\ pageRequests' = pageRequests \o <<cancel, cancel>>
             \/ pageRequests' = pageRequests \o <<cancel>>
          /\ fieldPopup' \in BOOLEAN
      <4>1. fieldPopup' = (status \notin {"executing", "ask"})
        BY <2>2 DEF P!Exit
      <4>2. fieldPopup' \in BOOLEAN
        BY <4>1
      <4>3. \/ pageRequests' = pageRequests \o <<cancel, cancel>>
            \/ pageRequests' = pageRequests \o <<cancel>>
        BY <2>2 DEF P!Exit, cancel
      <4> QED
        BY <4>2, <4>3
    <3>2. /\ <<cancel>> \in Seq({cancel, confirmed}) /\ <<cancel>>[1] = cancel
          /\ 1 \in 1 .. Len(<<cancel>>)
      OBVIOUS
    <3>3. /\ <<cancel, cancel>> \in Seq({cancel, confirmed}) /\ <<cancel, cancel>>[1] = cancel
          /\ 1 \in 1 .. Len(<<cancel, cancel>>)
      OBVIOUS
    <3> QED
      BY <3>1, <3>2, <3>3
  <2> QED
    BY <2>1, <2>2
<1>4. UNCHANGED <<loadQ, fieldChunk, fieldData, expectChunksRemain, shown, step,
                  nextStatusChunk, pageReplies, torn>>
  BY DEF P!Confirm, P!Exit, P!endpointVars
<1>5. new \in Seq(Requests) /\ pageRequests \in Seq(Requests)
  BY <1>1 DEF Requests, PageTyped
<1> DEFINE more == pageRequests \o new
           n == Len(pageRequests)
<1>6. /\ more \in Seq(Requests) /\ Len(more) = n + Len(new)
      /\ \A k \in 1 .. n : more[k] = pageRequests[k]
      /\ \A k \in 1 .. Len(new) : more[n + k] = new[k]
  BY <1>5, Joined
<1>7. n \in Nat /\ Len(new) \in Nat /\ DOMAIN more = 1 .. n + Len(new)
      /\ DOMAIN pageRequests = 1 .. n
  BY <1>5, <1>6
<1> HIDE DEF more, n
<1>8. \A k \in DOMAIN more :
        k \in DOMAIN pageRequests \/ \E j \in 1 .. Len(new) : k = n + j
  <2> SUFFICES ASSUME NEW k \in 1 .. n + Len(new), ~(k \in 1 .. n)
               PROVE  \E j \in 1 .. Len(new) : k = n + j
    BY <1>7
  <2>1. k - n \in 1 .. Len(new) /\ k = n + (k - n)
    BY <1>7
  <2> QED
    BY <2>1
<1>9. \A k \in 1 .. Len(new) : new[k] \in {cancel, confirmed}
  BY <1>3
<1>10. \A k \in DOMAIN more :
         \/ k \in DOMAIN pageRequests /\ more[k] = pageRequests[k]
         \/ more[k].field = P!Command
  BY <1>1, <1>6, <1>7, <1>8, <1>9
<1>11. pageRequests' = more
  BY <1>3 DEF more
<1>12. ValuesWritten'
  BY <1>10, <1>11 DEF ValuesWritten
<1>13. fieldPopup' \in BOOLEAN
  BY <1>3 DEF PageTyped
<1>14. PageTyped'
  BY <1>4, <1>6, <1>11, <1>13 DEF PageTyped
<1>15. StackInOrder' /\ LoadedOrShown'
  BY <1>2, <1>4 DEF StackInOrder, LoadedOrShown
<1>16. ~LoadsField'
  BY <1>2, <1>4 DEF LoadsField, P!Last
<1>17. LeftIsThrownAway'
  <2>1. CASE fieldPopup' = fieldPopup
    BY <1>2, <2>1 DEF LeftIsThrownAway
  <2>2. ASSUME NEW k \in 1 .. Len(new), new[k] = cancel
        PROVE  \E j \in DOMAIN more : more[j] = cancel
    <3>1. n + k \in 1 .. n + Len(new)
      BY <1>7
    <3> QED
      BY <1>6, <1>7, <2>2, <3>1
  <2> QED
    BY <1>3, <1>11, <2>1, <2>2 DEF LeftIsThrownAway, cancel
<1> QED
  BY <1>4, <1>12, <1>14, <1>15, <1>16, <1>17

\* At the start everything is to be loaded.
LEMMA PageInitInv ==
  ASSUME P!Init
  PROVE  PageInv
<1> USE DEF P!Init
<1>1. AllInOrder(loadQ)
  BY AllFieldsInOrder
<1>2. pageRequests = <<>> /\ pageReplies = <<>> /\ fieldData = <<>> /\ fieldChunk = 0
  OBVIOUS
<1>3. PageTyped
  <2>1. /\ <<>> \in Seq(Messages) /\ <<>> \in Seq(Requests) /\ Len(<<>>) = 0
        /\ -1 \in Int /\ 0 \in Nat
    BY EmptySeq
  <2>2. shown \in [P!Fields -> {"nothing", "old", "new"}]
    OBVIOUS
  <2>3. loadQ \in Seq(P!Fields) /\ step \in P!Steps
    BY <1>1 DEF AllInOrder, P!Steps
  <2> QED
    BY <2>1, <2>2, <2>3 DEF PageTyped
<1>4. StackInOrder /\ LoadedOrShown
  BY <1>1 DEF AllInOrder, StackInOrder, LoadedOrShown
<1>5. ValuesWritten /\ LeftIsThrownAway /\ torn \subseteq {P!Command}
  BY DEF ValuesWritten, LeftIsThrownAway
<1>6. ASSUME LoadsField
      PROVE  /\ InTurn(loadQ, fieldChunk, pageRequests, pageReplies)
             /\ DataFollows(P!Last(loadQ), fieldData, expectChunksRemain)
  <2>1. P!Last(loadQ) \in P!Fields /\ P!Last(loadQ) # P!Command
    BY <1>3, <1>6, FrontFacts DEF PageTyped, LoadsField
  <2>2. ~(0 > 0) /\ DOMAIN <<>> = {}
    OBVIOUS
  <2>3. InTurn(loadQ, 0, <<>>, <<>>)
    BY <2>2 DEF InTurn, OnlyDone, ComesLast
  <2> QED
    BY <1>2, <2>1, <2>3, NothingYet
<1> QED
  BY <1>3, <1>4, <1>5, <1>6 DEF PageInv

\* parseParameterInfoMessage, refreshNext and the device's answers keep a field's chunks in
\* turn: what is on its way never mixes two fields, and nothing to be loaded is forgotten.
THEOREM PageInvariant == P!Spec => []PageInv
<1>1. P!Init => PageInv
  BY PageInitInv
<1>2. PageInv /\ [P!Next]_(P!vars) => PageInv'
  <2> SUFFICES ASSUME PageInv, [P!Next]_(P!vars)
               PROVE  PageInv'
    OBVIOUS
  <2>1. CASE P!ServeRead \/ P!ServeRest \/ P!ServeCommand \/ P!ServeSilently
    BY <2>1, PageServeStep
  <2>2. CASE P!Lose
    BY <2>2, PageLoseStep
  <2>3. CASE P!Receive
    BY <2>3, PageReceiveStep
  <2>4. CASE P!Ask
    BY <2>4, PageAskStep
  <2>5. CASE \/ \E f \in DOMAIN Chunks : P!CancelEdit(f) \/ P!Save(f, "value")
             \/ P!reloadAllField
    BY <2>5, UserReloads
  <2>6. CASE P!fieldCommandSave
    BY <2>6, UserClicks
  <2>7. CASE P!Confirm \/ P!Exit
    BY <2>7, UserAnswers
  <2>8. CASE UNCHANGED P!vars
    BY <2>8 DEF P!vars, P!scriptVars, P!endpointVars, PageInv, PageTyped, ValuesWritten,
                StackInOrder, LoadedOrShown, LoadsField, LeftIsThrownAway
  <2> QED
    BY <2>1, <2>2, <2>3, <2>4, <2>5, <2>6, <2>7, <2>8 DEF P!Next, P!UserActs
<1> QED
  BY <1>1, <1>2, PTL DEF P!Spec

\* What the page of a patient user shows is what the device has: whole fields, and none
\* that is to be reloaded left out, for every number of fields and chunks.
THEOREM PageStaysTrue == P!Spec => []PageIsTrue
<1>1. PageInv => PageIsTrue
  BY DEF PageInv, LoadedOrShown, PageIsTrue, P!PageIsTrue
<1> QED
  BY <1>1, PageInvariant, PTL

-------------------------------------------------------------------------------
(* Forward error correction.                                               *)

\* Where the bits of a word are on air, and the number that seven bits write.
BitsOfWord(w) == {w, w + 16, w + 32, w + 48, w + 64, w + 80, w + 96}

BitFlags == [0 .. 6 -> 0 .. 1]

Value(a) == a[0] + 2 * a[1] + 4 * a[2] + 8 * a[3] + 16 * a[4] + 32 * a[5] + 64 * a[6]

\* A word's bits lie sixteen places apart, the lowest first.
LEMMA BitsInTurn ==
  /\ \A w \in C!Words, b \in 0 .. 6 :
       w + 16 * b \in C!Bits /\ C!Place(w + 16 * b) = [word |-> w, bit |-> b]
  /\ \A w \in C!Words : C!Places[w] = BitsOfWord(w)
<1>1. \A w \in C!Words, b \in 0 .. 6 :
        w + 16 * b \in C!Bits /\ (w + 16 * b) % 16 = w /\ (w + 16 * b) \div 16 = b
  BY DEF C!Words, C!Bits
<1>2. \A p \in C!Bits : p % 16 \in C!Words /\ p \div 16 \in 0 .. 6
                        /\ p = (p % 16) + 16 * (p \div 16)
  BY DEF C!Words, C!Bits
<1>3. ASSUME NEW w \in C!Words
      PROVE  C!Places[w] = BitsOfWord(w)
  <2>1. C!Places[w] = {p \in C!Bits : p % 16 = w}
    BY DEF C!Places, C!Place
  <2>2. \A p \in BitsOfWord(w) : p \in C!Bits /\ p % 16 = w
    BY DEF BitsOfWord, C!Words, C!Bits
  <2>3. ASSUME NEW p \in C!Bits, p % 16 = w
        PROVE  p \in BitsOfWord(w)
    <3>1. p = w + 16 * (p \div 16) /\ p \div 16 \in 0 .. 6 /\ w \in Nat
      BY <1>2, <2>3 DEF C!Words
    <3> DEFINE b == p \div 16
    <3>2. b \in 0 .. 6 /\ p = w + 16 * b
      BY <3>1
    <3> HIDE DEF b
    <3>3. b = 0 \/ b = 1 \/ b = 2 \/ b = 3 \/ b = 4 \/ b = 5 \/ b = 6
      BY <3>2
    <3> QED
      BY <3>1, <3>2, <3>3 DEF BitsOfWord
  <2> QED
    BY <2>1, <2>2, <2>3
<1> QED
  BY <1>1, <1>3 DEF C!Place

\* The sum over the places of a word is the number its bits write.
LEMMA WordSum ==
  ASSUME NEW w \in C!Words, NEW air \in [C!Bits -> 0 .. 1]
  PROVE  C!MapThenSumSet(LAMBDA p : air[p] * 2^C!Place(p).bit, C!Places[w])
           = Value([b \in 0 .. 6 |-> air[w + 16 * b]])
<1> DEFINE S == BitsOfWord(w)
           f(p) == air[p] * 2^C!Place(p).bit
           pick(s) == CHOOSE x \in s : TRUE
           body(it) == [s \in SUBSET S |->
                          IF s = {} THEN 0 ELSE f(pick(s)) + it[s \ {pick(s)}]]
           it0 == CHOOSE it : it = body(it)
           part(s, p) == IF p \in s THEN f(p) ELSE 0
           g == [s \in SUBSET S |->
                   part(s, w) + part(s, w + 16) + part(s, w + 32) + part(s, w + 48)
                     + part(s, w + 64) + part(s, w + 80) + part(s, w + 96)]
<1>1. C!MapThenSumSet(LAMBDA p : air[p] * 2^C!Place(p).bit, C!Places[w]) = it0[S]
  <2>1. C!Places[w] = S
    BY BitsInTurn
  <2> QED
    BY <2>1 DEF C!MapThenSumSet, C!MapThenFoldSet
<1>2. /\ f(w) = air[w] /\ f(w + 16) = 2 * air[w + 16] /\ f(w + 32) = 4 * air[w + 32]
      /\ f(w + 48) = 8 * air[w + 48] /\ f(w + 64) = 16 * air[w + 64]
      /\ f(w + 80) = 32 * air[w + 80] /\ f(w + 96) = 64 * air[w + 96]
  <2>1. /\ C!Place(w).bit = 0 /\ C!Place(w + 16).bit = 1 /\ C!Place(w + 32).bit = 2
        /\ C!Place(w + 48).bit = 3 /\ C!Place(w + 64).bit = 4 /\ C!Place(w + 80).bit = 5
        /\ C!Place(w + 96).bit = 6
    BY DEF C!Place, C!Words
  <2>2. /\ air[w] \in 0 .. 1 /\ air[w + 16] \in 0 .. 1 /\ air[w + 32] \in 0 .. 1
        /\ air[w + 48] \in 0 .. 1 /\ air[w + 64] \in 0 .. 1 /\ air[w + 80] \in 0 .. 1
        /\ air[w + 96] \in 0 .. 1
    BY DEF C!Words, C!Bits
  <2> DEFINE pow(n) == 2^n
             place(p) == C!Place(p).bit
  <2>3. /\ pow(0) = 1 /\ pow(1) = 2 /\ pow(2) = 4 /\ pow(3) = 8
        /\ pow(4) = 16 /\ pow(5) = 32 /\ pow(6) = 64
    OBVIOUS
  <2>4. \A p : f(p) = air[p] * pow(place(p))
    OBVIOUS
  <2>5. /\ place(w) = 0 /\ place(w + 16) = 1 /\ place(w + 32) = 2 /\ place(w + 48) = 3
        /\ place(w + 64) = 4 /\ place(w + 80) = 5 /\ place(w + 96) = 6
    BY <2>1
  <2> HIDE DEF pow, place, f
  <2>6. /\ f(w) = air[w] * 1 /\ f(w + 16) = air[w + 16] * 2 /\ f(w + 32) = air[w + 32] * 4
        /\ f(w + 48) = air[w + 48] * 8 /\ f(w + 64) = air[w + 64] * 16
        /\ f(w + 80) = air[w + 80] * 32 /\ f(w + 96) = air[w + 96] * 64
    BY <2>3, <2>4, <2>5
  <2> QED
    BY <2>2, <2>6
<1>3. \A p \in S : f(p) \in Nat
  <2>2. /\ air[w] \in 0 .. 1 /\ air[w + 16] \in 0 .. 1 /\ air[w + 32] \in 0 .. 1
        /\ air[w + 48] \in 0 .. 1 /\ air[w + 64] \in 0 .. 1 /\ air[w + 80] \in 0 .. 1
        /\ air[w + 96] \in 0 .. 1
    BY DEF C!Words, C!Bits
  <2> QED
    BY <1>2, <2>2 DEF BitsOfWord
<1> HIDE DEF f
<1>4. \A s \in SUBSET S : \A x \in s : g[s] = f(x) + g[s \ {x}]
  <2> SUFFICES ASSUME NEW s \in SUBSET S, NEW x \in s
               PROVE  g[s] = f(x) + g[s \ {x}]
    OBVIOUS
  <2>1. \A p \in S : p # x => part(s \ {x}, p) = part(s, p)
    OBVIOUS
  <2>2. part(s, x) = f(x) /\ part(s \ {x}, x) = 0
    OBVIOUS
  <2>3. \A p \in S : part(s, p) \in Nat /\ part(s \ {x}, p) \in Nat
    BY <1>3
  <2>4. /\ w \in S /\ w + 16 \in S /\ w + 32 \in S /\ w + 48 \in S /\ w + 64 \in S
        /\ w + 80 \in S /\ w + 96 \in S /\ w \in Nat
    BY DEF BitsOfWord, C!Words
  <2>5. \/ x = w \/ x = w + 16 \/ x = w + 32 \/ x = w + 48 \/ x = w + 64
        \/ x = w + 80 \/ x = w + 96
    BY DEF BitsOfWord
  <2>6. s \ {x} \in SUBSET S
    OBVIOUS
  <2>7. g[s] = part(s, w) + part(s, w + 16) + part(s, w + 32) + part(s, w + 48)
                 + part(s, w + 64) + part(s, w + 80) + part(s, w + 96)
    OBVIOUS
  <2>8. g[s \ {x}] = part(s \ {x}, w) + part(s \ {x}, w + 16) + part(s \ {x}, w + 32)
                       + part(s \ {x}, w + 48) + part(s \ {x}, w + 64)
                       + part(s \ {x}, w + 80) + part(s \ {x}, w + 96)
    BY <2>6
  <2>9. f(x) \in Nat
    BY <1>3
  <2> HIDE DEF part, g, S
  <2>10. CASE x = w
    BY <2>1, <2>2, <2>3, <2>4, <2>7, <2>8, <2>9, <2>10
  <2>11. CASE x = w + 16
    BY <2>1, <2>2, <2>3, <2>4, <2>7, <2>8, <2>9, <2>11
  <2>12. CASE x = w + 32
    BY <2>1, <2>2, <2>3, <2>4, <2>7, <2>8, <2>9, <2>12
  <2>13. CASE x = w + 48
    BY <2>1, <2>2, <2>3, <2>4, <2>7, <2>8, <2>9, <2>13
  <2>14. CASE x = w + 64
    BY <2>1, <2>2, <2>3, <2>4, <2>7, <2>8, <2>9, <2>14
  <2>15. CASE x = w + 80
    BY <2>1, <2>2, <2>3, <2>4, <2>7, <2>8, <2>9, <2>15
  <2>16. CASE x = w + 96
    BY <2>1, <2>2, <2>3, <2>4, <2>7, <2>8, <2>9, <2>16
  <2> QED
    BY <2>5, <2>10, <2>11, <2>12, <2>13, <2>14, <2>15, <2>16
<1>5. g[{}] = 0
  OBVIOUS
<1>6. \A s \in SUBSET S : s # {} => pick(s) \in s
  OBVIOUS
<1>7. it0 = body(it0)
  <2>1. \A s \in SUBSET S :
          g[s] = IF s = {} THEN 0 ELSE f(pick(s)) + g[s \ {pick(s)}]
    <3> HIDE DEF g, pick
    <3> QED
      BY <1>4, <1>5, <1>6
  <2>2. g = [s \in SUBSET S |-> g[s]]
    OBVIOUS
  <2> HIDE DEF g
  <2>3. g = body(g)
    BY <2>1, <2>2
  <2> HIDE DEF body
  <2> QED
    BY <2>3
<1> HIDE DEF it0, pick
<1>8. \A s \in SUBSET S :
        it0[s] = IF s = {} THEN 0 ELSE f(pick(s)) + it0[s \ {pick(s)}]
  BY <1>7
<1>9. \A s \in SUBSET S : it0[s] = g[s]
  <2> DEFINE Wrong == {s \in SUBSET S : it0[s] # g[s]}
             sizes == {Cardinality(s) : s \in Wrong}
  <2>1. \A s \in SUBSET S : IsFiniteSet(s)
    <3>1. IsFiniteSet(S)
      <4>1. S \in SUBSET (0 .. 111)
        BY DEF BitsOfWord, C!Words
      <4>2. 0 \in Int /\ 111 \in Int
        OBVIOUS
      <4>3. IsFiniteSet(0 .. 111)
        BY <4>2, FS_Interval
      <4> QED
        BY <4>1, <4>3, FS_Subset
    <3> QED
      BY <3>1, FS_Subset
  <2>2. \A s \in SUBSET S : Cardinality(s) \in Nat
    BY <2>1, FS_CardinalityType
  <2>3. \A s \in Wrong : s # {} /\ \E r \in Wrong : Cardinality(r) < Cardinality(s)
    <3> SUFFICES ASSUME NEW s \in Wrong
                 PROVE  s # {} /\ \E r \in Wrong : Cardinality(r) < Cardinality(s)
      OBVIOUS
    <3> DEFINE r == s \ {pick(s)}
    <3> HIDE DEF g
    <3>1. s # {}
      BY <1>5, <1>8
    <3>2. pick(s) \in s
      BY <1>6, <3>1
    <3>3. r \in Wrong
      BY <1>4, <1>8, <3>1, <3>2
    <3>4. Cardinality(r) = Cardinality(s) - 1
      BY <2>1, <3>2, FS_RemoveElement
    <3> QED
      BY <2>2, <3>1, <3>3, <3>4
  <2>4. sizes \in SUBSET Nat
    BY <2>2
  <2>5. sizes # {} => \E n \in sizes : \A m \in sizes : n <= m
    <3> HIDE DEF sizes
    <3> QED
      BY <2>4, LeastExists
  <2>6. Wrong = {}
    <3> SUFFICES ASSUME Wrong # {}
                 PROVE  FALSE
      OBVIOUS
    <3>1. PICK n \in sizes : \A m \in sizes : n <= m
      BY <2>5, ZenonT(40)
    <3>2. PICK s \in Wrong : n = Cardinality(s)
      OBVIOUS
    <3>3. PICK r \in Wrong : Cardinality(r) < Cardinality(s)
      BY <2>3
    <3>4. Cardinality(r) \in sizes /\ Cardinality(r) \in Nat /\ n \in Nat
      BY <2>2, <2>4
    <3> QED
      BY <3>1, <3>2, <3>3, <3>4
  <2> QED
    BY <2>6
<1>10. g[S] = f(w) + f(w + 16) + f(w + 32) + f(w + 48) + f(w + 64) + f(w + 80) + f(w + 96)
  BY DEF BitsOfWord
<1> HIDE DEF g
<1>11. it0[S] = f(w) + f(w + 16) + f(w + 32) + f(w + 48) + f(w + 64) + f(w + 80) + f(w + 96)
  BY <1>9, <1>10
<1>12. Value([b \in 0 .. 6 |-> air[w + 16 * b]])
         = air[w] + 2 * air[w + 16] + 4 * air[w + 32] + 8 * air[w + 48] + 16 * air[w + 64]
             + 32 * air[w + 80] + 64 * air[w + 96]
  BY DEF Value, C!Words
<1> QED
  BY <1>1, <1>2, <1>11, <1>12

\* A code word with one bit wrong, or none, is decoded as the data it was for.
LEMMA OneBitRepaired ==
  ASSUME NEW d \in 0 .. 15, NEW a \in BitFlags,
         NEW j \in 0 .. 6,
         \A b \in 0 .. 6 : b # j => a[b] = C!Bit(C!HammingTableEncode(d), b)
  PROVE  C!HammingTableDecode(Value(a)) = d
<1>1. /\ \A b \in 0 .. 6 : a[b] \in 0 .. 1
      /\ a[0] \in 0 .. 1 /\ a[1] \in 0 .. 1 /\ a[2] \in 0 .. 1 /\ a[3] \in 0 .. 1
      /\ a[4] \in 0 .. 1 /\ a[5] \in 0 .. 1 /\ a[6] \in 0 .. 1
  BY DEF BitFlags
<1>2. /\ j # 0 => a[0] = C!Bit(C!HammingTableEncode(d), 0)
      /\ j # 1 => a[1] = C!Bit(C!HammingTableEncode(d), 1)
      /\ j # 2 => a[2] = C!Bit(C!HammingTableEncode(d), 2)
      /\ j # 3 => a[3] = C!Bit(C!HammingTableEncode(d), 3)
      /\ j # 4 => a[4] = C!Bit(C!HammingTableEncode(d), 4)
      /\ j # 5 => a[5] = C!Bit(C!HammingTableEncode(d), 5)
      /\ j # 6 => a[6] = C!Bit(C!HammingTableEncode(d), 6)
  OBVIOUS
<1>3. CASE d = 0
  <2>1. C!HammingTableEncode(d) = 0
    BY <1>3 DEF C!HammingTableEncode, C!hammingCodes
  <2>2. /\ C!Bit(0, 0) = 0 /\ C!Bit(0, 1) = 0 /\ C!Bit(0, 2) = 0 /\ C!Bit(0, 3) = 0
        /\ C!Bit(0, 4) = 0 /\ C!Bit(0, 5) = 0 /\ C!Bit(0, 6) = 0
    BY DEF C!Bit
  <2>3. Value(a) \in {0, 1, 2, 4, 8, 16, 32, 64}
    BY <1>1, <1>2, <2>1, <2>2 DEF Value
  <2>4. \A v \in {0, 1, 2, 4, 8, 16, 32, 64} :
          C!HammingTableDecode(v) = 0
    BY DEF C!HammingTableDecode, C!hammingPackedDecodeValues
  <2> QED
    BY <1>3, <2>3, <2>4
<1>4. CASE d = 1
  <2>1. C!HammingTableEncode(d) = 113
    BY <1>4 DEF C!HammingTableEncode, C!hammingCodes
  <2>2. /\ C!Bit(113, 0) = 1 /\ C!Bit(113, 1) = 0 /\ C!Bit(113, 2) = 0 /\ C!Bit(113, 3) = 0
        /\ C!Bit(113, 4) = 1 /\ C!Bit(113, 5) = 1 /\ C!Bit(113, 6) = 1
    BY DEF C!Bit
  <2>3. Value(a) \in {113, 112, 115, 117, 121, 97, 81, 49}
    BY <1>1, <1>2, <2>1, <2>2 DEF Value
  <2>4. \A v \in {113, 112, 115, 117, 121, 97, 81, 49} :
          C!HammingTableDecode(v) = 1
    BY DEF C!HammingTableDecode, C!hammingPackedDecodeValues
  <2> QED
    BY <1>4, <2>3, <2>4
<1>5. CASE d = 2
  <2>1. C!HammingTableEncode(d) = 98
    BY <1>5 DEF C!HammingTableEncode, C!hammingCodes
  <2>2. /\ C!Bit(98, 0) = 0 /\ C!Bit(98, 1) = 1 /\ C!Bit(98, 2) = 0 /\ C!Bit(98, 3) = 0
        /\ C!Bit(98, 4) = 0 /\ C!Bit(98, 5) = 1 /\ C!Bit(98, 6) = 1
    BY DEF C!Bit
  <2>3. Value(a) \in {98, 99, 96, 102, 106, 114, 66, 34}
    BY <1>1, <1>2, <2>1, <2>2 DEF Value
  <2>4. \A v \in {98, 99, 96, 102, 106, 114, 66, 34} :
          C!HammingTableDecode(v) = 2
    BY DEF C!HammingTableDecode, C!hammingPackedDecodeValues
  <2> QED
    BY <1>5, <2>3, <2>4
<1>6. CASE d = 3
  <2>1. C!HammingTableEncode(d) = 19
    BY <1>6 DEF C!HammingTableEncode, C!hammingCodes
  <2>2. /\ C!Bit(19, 0) = 1 /\ C!Bit(19, 1) = 1 /\ C!Bit(19, 2) = 0 /\ C!Bit(19, 3) = 0
        /\ C!Bit(19, 4) = 1 /\ C!Bit(19, 5) = 0 /\ C!Bit(19, 6) = 0
    BY DEF C!Bit
  <2>3. Value(a) \in {19, 18, 17, 23, 27, 3, 51, 83}
    BY <1>1, <1>2, <2>1, <2>2 DEF Value
  <2>4. \A v \in {19, 18, 17, 23, 27, 3, 51, 83} :
          C!HammingTableDecode(v) = 3
    BY DEF C!HammingTableDecode, C!hammingPackedDecodeValues
  <2> QED
    BY <1>6, <2>3, <2>4
<1>7. CASE d = 4
  <2>1. C!HammingTableEncode(d) = 84
    BY <1>7 DEF C!HammingTableEncode, C!hammingCodes
  <2>2. /\ C!Bit(84, 0) = 0 /\ C!Bit(84, 1) = 0 /\ C!Bit(84, 2) = 1 /\ C!Bit(84, 3) = 0
        /\ C!Bit(84, 4) = 1 /\ C!Bit(84, 5) = 0 /\ C!Bit(84, 6) = 1
    BY DEF C!Bit
  <2>3. Value(a) \in {84, 85, 86, 80, 92, 68, 116, 20}
    BY <1>1, <1>2, <2>1, <2>2 DEF Value
  <2>4. \A v \in {84, 85, 86, 80, 92, 68, 116, 20} :
          C!HammingTableDecode(v) = 4
    BY DEF C!HammingTableDecode, C!hammingPackedDecodeValues
  <2> QED
    BY <1>7, <2>3, <2>4
<1>8. CASE d = 5
  <2>1. C!HammingTableEncode(d) = 37
    BY <1>8 DEF C!HammingTableEncode, C!hammingCodes
  <2>2. /\ C!Bit(37, 0) = 1 /\ C!Bit(37, 1) = 0 /\ C!Bit(37, 2) = 1 /\ C!Bit(37, 3) = 0
        /\ C!Bit(37, 4) = 0 /\ C!Bit(37, 5) = 1 /\ C!Bit(37, 6) = 0
    BY DEF C!Bit
  <2>3. Value(a) \in {37, 36, 39, 33, 45, 53, 5, 101}
    BY <1>1, <1>2, <2>1, <2>2 DEF Value
  <2>4. \A v \in {37, 36, 39, 33, 45, 53, 5, 101} :
          C!HammingTableDecode(v) = 5
    BY DEF C!HammingTableDecode, C!hammingPackedDecodeValues
  <2> QED
    BY <1>8, <2>3, <2>4
<1>9. CASE d = 6
  <2>1. C!HammingTableEncode(d) = 54
    BY <1>9 DEF C!HammingTableEncode, C!hammingCodes
  <2>2. /\ C!Bit(54, 0) = 0 /\ C!Bit(54, 1) = 1 /\ C!Bit(54, 2) = 1 /\ C!Bit(54, 3) = 0
        /\ C!Bit(54, 4) = 1 /\ C!Bit(54, 5) = 1 /\ C!Bit(54, 6) = 0
    BY DEF C!Bit
  <2>3. Value(a) \in {54, 55, 52, 50, 62, 38, 22, 118}
    BY <1>1, <1>2, <2>1, <2>2 DEF Value
  <2>4. \A v \in {54, 55, 52, 50, 62, 38, 22, 118} :
          C!HammingTableDecode(v) = 6
    BY DEF C!HammingTableDecode, C!hammingPackedDecodeValues
  <2> QED
    BY <1>9, <2>3, <2>4
<1>10. CASE d = 7
  <2>1. C!HammingTableEncode(d) = 71
    BY <1>10 DEF C!HammingTableEncode, C!hammingCodes
  <2>2. /\ C!Bit(71, 0) = 1 /\ C!Bit(71, 1) = 1 /\ C!Bit(71, 2) = 1 /\ C!Bit(71, 3) = 0
        /\ C!Bit(71, 4) = 0 /\ C!Bit(71, 5) = 0 /\ C!Bit(71, 6) = 1
    BY DEF C!Bit
  <2>3. Value(a) \in {71, 70, 69, 67, 79, 87, 103, 7}
    BY <1>1, <1>2, <2>1, <2>2 DEF Value
  <2>4. \A v \in {71, 70, 69, 67, 79, 87, 103, 7} :
          C!HammingTableDecode(v) = 7
    BY DEF C!HammingTableDecode, C!hammingPackedDecodeValues
  <2> QED
    BY <1>10, <2>3, <2>4
<1>11. CASE d = 8
  <2>1. C!HammingTableEncode(d) = 56
    BY <1>11 DEF C!HammingTableEncode, C!hammingCodes
  <2>2. /\ C!Bit(56, 0) = 0 /\ C!Bit(56, 1) = 0 /\ C!Bit(56, 2) = 0 /\ C!Bit(56, 3) = 1
        /\ C!Bit(56, 4) = 1 /\ C!Bit(56, 5) = 1 /\ C!Bit(56, 6) = 0
    BY DEF C!Bit
  <2>3. Value(a) \in {56, 57, 58, 60, 48, 40, 24, 120}
    BY <1>1, <1>2, <2>1, <2>2 DEF Value
  <2>4. \A v \in {56, 57, 58, 60, 48, 40, 24, 120} :
          C!HammingTableDecode(v) = 8
    BY DEF C!HammingTableDecode, C!hammingPackedDecodeValues
  <2> QED
    BY <1>11, <2>3, <2>4
<1>12. CASE d = 9
  <2>1. C!HammingTableEncode(d) = 73
    BY <1>12 DEF C!HammingTableEncode, C!hammingCodes
  <2>2. /\ C!Bit(73, 0) = 1 /\ C!Bit(73, 1) = 0 /\ C!Bit(73, 2) = 0 /\ C!Bit(73, 3) = 1
        /\ C!Bit(73, 4) = 0 /\ C!Bit(73, 5) = 0 /\ C!Bit(73, 6) = 1
    BY DEF C!Bit
  <2>3. Value(a) \in {73, 72, 75, 77, 65, 89, 105, 9}
    BY <1>1, <1>2, <2>1, <2>2 DEF Value
  <2>4. \A v \in {73, 72, 75, 77, 65, 89, 105, 9} :
          C!HammingTableDecode(v) = 9
    BY DEF C!HammingTableDecode, C!hammingPackedDecodeValues
  <2> QED
    BY <1>12, <2>3, <2>4
<1>13. CASE d = 10
  <2>1. C!HammingTableEncode(d) = 90
    BY <1>13 DEF C!HammingTableEncode, C!hammingCodes
  <2>2. /\ C!Bit(90, 0) = 0 /\ C!Bit(90, 1) = 1 /\ C!Bit(90, 2) = 0 /\ C!Bit(90, 3) = 1
        /\ C!Bit(90, 4) = 1 /\ C!Bit(90, 5) = 0 /\ C!Bit(90, 6) = 1
    BY DEF C!Bit
  <2>3. Value(a) \in {90, 91, 88, 94, 82, 74, 122, 26}
    BY <1>1, <1>2, <2>1, <2>2 DEF Value
  <2>4. \A v \in {90, 91, 88, 94, 82, 74, 122, 26} :
          C!HammingTableDecode(v) = 10
    BY DEF C!HammingTableDecode, C!hammingPackedDecodeValues
  <2> QED
    BY <1>13, <2>3, <2>4
<1>14. CASE d = 11
  <2>1. C!HammingTableEncode(d) = 43
    BY <1>14 DEF C!HammingTableEncode, C!hammingCodes
  <2>2. /\ C!Bit(43, 0) = 1 /\ C!Bit(43, 1) = 1 /\ C!Bit(43, 2) = 0 /\ C!Bit(43, 3) = 1
        /\ C!Bit(43, 4) = 0 /\ C!Bit(43, 5) = 1 /\ C!Bit(43, 6) = 0
    BY DEF C!Bit
  <2>3. Value(a) \in {43, 42, 41, 47, 35, 59, 11, 107}
    BY <1>1, <1>2, <2>1, <2>2 DEF Value
  <2>4. \A v \in {43, 42, 41, 47, 35, 59, 11, 107} :
          C!HammingTableDecode(v) = 11
    BY DEF C!HammingTableDecode, C!hammingPackedDecodeValues
  <2> QED
    BY <1>14, <2>3, <2>4
<1>15. CASE d = 12
  <2>1. C!HammingTableEncode(d) = 108
    BY <1>15 DEF C!HammingTableEncode, C!hammingCodes
  <2>2. /\ C!Bit(108, 0) = 0 /\ C!Bit(108, 1) = 0 /\ C!Bit(108, 2) = 1 /\ C!Bit(108, 3) = 1
        /\ C!Bit(108, 4) = 0 /\ C!Bit(108, 5) = 1 /\ C!Bit(108, 6) = 1
    BY DEF C!Bit
  <2>3. Value(a) \in {108, 109, 110, 104, 100, 124, 76, 44}
    BY <1>1, <1>2, <2>1, <2>2 DEF Value
  <2>4. \A v \in {108, 109, 110, 104, 100, 124, 76, 44} :
          C!HammingTableDecode(v) = 12
    BY DEF C!HammingTableDecode, C!hammingPackedDecodeValues
  <2> QED
    BY <1>15, <2>3, <2>4
<1>16. CASE d = 13
  <2>1. C!HammingTableEncode(d) = 29
    BY <1>16 DEF C!HammingTableEncode, C!hammingCodes
  <2>2. /\ C!Bit(29, 0) = 1 /\ C!Bit(29, 1) = 0 /\ C!Bit(29, 2) = 1 /\ C!Bit(29, 3) = 1
        /\ C!Bit(29, 4) = 1 /\ C!Bit(29, 5) = 0 /\ C!Bit(29, 6) = 0
    BY DEF C!Bit
  <2>3. Value(a) \in {29, 28, 31, 25, 21, 13, 61, 93}
    BY <1>1, <1>2, <2>1, <2>2 DEF Value
  <2>4. \A v \in {29, 28, 31, 25, 21, 13, 61, 93} :
          C!HammingTableDecode(v) = 13
    BY DEF C!HammingTableDecode, C!hammingPackedDecodeValues
  <2> QED
    BY <1>16, <2>3, <2>4
<1>17. CASE d = 14
  <2>1. C!HammingTableEncode(d) = 14
    BY <1>17 DEF C!HammingTableEncode, C!hammingCodes
  <2>2. /\ C!Bit(14, 0) = 0 /\ C!Bit(14, 1) = 1 /\ C!Bit(14, 2) = 1 /\ C!Bit(14, 3) = 1
        /\ C!Bit(14, 4) = 0 /\ C!Bit(14, 5) = 0 /\ C!Bit(14, 6) = 0
    BY DEF C!Bit
  <2>3. Value(a) \in {14, 15, 12, 10, 6, 30, 46, 78}
    BY <1>1, <1>2, <2>1, <2>2 DEF Value
  <2>4. \A v \in {14, 15, 12, 10, 6, 30, 46, 78} :
          C!HammingTableDecode(v) = 14
    BY DEF C!HammingTableDecode, C!hammingPackedDecodeValues
  <2> QED
    BY <1>17, <2>3, <2>4
<1>18. CASE d = 15
  <2>1. C!HammingTableEncode(d) = 127
    BY <1>18 DEF C!HammingTableEncode, C!hammingCodes
  <2>2. /\ C!Bit(127, 0) = 1 /\ C!Bit(127, 1) = 1 /\ C!Bit(127, 2) = 1 /\ C!Bit(127, 3) = 1
        /\ C!Bit(127, 4) = 1 /\ C!Bit(127, 5) = 1 /\ C!Bit(127, 6) = 1
    BY DEF C!Bit
  <2>3. Value(a) \in {127, 126, 125, 123, 119, 111, 95, 63}
    BY <1>1, <1>2, <2>1, <2>2 DEF Value
  <2>4. \A v \in {127, 126, 125, 123, 119, 111, 95, 63} :
          C!HammingTableDecode(v) = 15
    BY DEF C!HammingTableDecode, C!hammingPackedDecodeValues
  <2> QED
    BY <1>18, <2>3, <2>4
<1> QED
  BY <1>3, <1>4, <1>5, <1>6, <1>7, <1>8, <1>9, <1>10, <1>11, <1>12, <1>13, <1>14, <1>15, <1>16, <1>17, <1>18

\* Whatever reaches the receiver with one bit at most wrong in each word is
\* decoded as what was sent, any sixteen nibbles.
THEOREM EachWordRepaired ==
  ASSUME NEW data \in [C!Words -> 0 .. 15], NEW air \in [C!Bits -> 0 .. 1],
         \A p, q \in C!Bits :
           /\ air[p] # C!FECEncode(data)[p] /\ air[q] # C!FECEncode(data)[q]
           /\ C!Place(p).word = C!Place(q).word
           => p = q
  PROVE  C!FECDecode(air) = data
<1>1. ASSUME NEW w \in C!Words
      PROVE  C!HammingTableDecode(
               C!MapThenSumSet(LAMBDA p : air[p] * 2^C!Place(p).bit, C!Places[w])) = data[w]
  <2> DEFINE a == [b \in 0 .. 6 |-> air[w + 16 * b]]
             wrong(b) == a[b] # C!Bit(C!HammingTableEncode(data[w]), b)
  <2>1. \A b \in 0 .. 6 : w + 16 * b \in C!Bits /\ C!Place(w + 16 * b) = [word |-> w, bit |-> b]
    BY BitsInTurn
  <2>2. a \in BitFlags
    BY <2>1 DEF BitFlags
  <2>3. \A b \in 0 .. 6 :
          C!FECEncode(data)[w + 16 * b] = C!Bit(C!HammingTableEncode(data[w]), b)
    BY <2>1 DEF C!FECEncode
  <2>4. \A b, c \in 0 .. 6 : wrong(b) /\ wrong(c) => b = c
    <3> SUFFICES ASSUME NEW b \in 0 .. 6, NEW c \in 0 .. 6, wrong(b), wrong(c)
                 PROVE  b = c
      OBVIOUS
    <3>1. w + 16 * b = w + 16 * c
      BY <2>1, <2>3
    <3> QED
      BY <3>1 DEF C!Words
  <2>5. \E j \in 0 .. 6 : \A b \in 0 .. 6 : b # j => ~wrong(b)
    <3>1. CASE \E j \in 0 .. 6 : wrong(j)
      BY <2>4, <3>1
    <3>2. CASE ~\E j \in 0 .. 6 : wrong(j)
      <4>1. 0 \in 0 .. 6
        OBVIOUS
      <4> QED
        BY <3>2, <4>1
    <3> QED
      BY <3>1, <3>2
  <2>6. data[w] \in 0 .. 15
    OBVIOUS
  <2> HIDE DEF a
  <2>7. C!HammingTableDecode(Value(a)) = data[w]
    BY <2>2, <2>5, <2>6, OneBitRepaired
  <2> QED
    BY <2>7, WordSum DEF a
<1> QED
  BY <1>1 DEF C!FECDecode

\* A burst of sixteen bits in a row hits no word twice.
LEMMA BurstRepaired ==
  ASSUME NEW data \in [C!Words -> 0 .. 15], NEW at \in Int
  PROVE  C!FECDecode([p \in C!Bits |-> IF p \in at .. at + 16 - 1
                                      THEN 1 - C!FECEncode(data)[p]
                                      ELSE C!FECEncode(data)[p]]) = data
<1> DEFINE sent == C!FECEncode(data)
           air == [p \in C!Bits |-> IF p \in at .. at + 16 - 1 THEN 1 - sent[p] ELSE sent[p]]
<1>1. \A p \in C!Bits : sent[p] \in 0 .. 1
  <2> SUFFICES ASSUME NEW p \in C!Bits
               PROVE  sent[p] \in 0 .. 1
    OBVIOUS
  <2>1. p % 16 \in C!Words /\ p \div 16 \in 0 .. 6
    BY DEF C!Bits, C!Words
  <2>2. \A d \in 0 .. 15, b \in 0 .. 6 : C!Bit(C!HammingTableEncode(d), b) \in 0 .. 1
    <3>1. \A d \in 0 .. 15 : C!HammingTableEncode(d) \in Nat
      BY DEF C!HammingTableEncode, C!hammingCodes
    <3>2. ASSUME NEW b \in 0 .. 6
          PROVE  2^b \in Nat \ {0}
      <4> DEFINE pow(n) == 2^n
      <4>1. /\ pow(0) = 1 /\ pow(1) = 2 /\ pow(2) = 4 /\ pow(3) = 8
            /\ pow(4) = 16 /\ pow(5) = 32 /\ pow(6) = 64
        OBVIOUS
      <4> HIDE DEF pow
      <4>2. b = 0 \/ b = 1 \/ b = 2 \/ b = 3 \/ b = 4 \/ b = 5 \/ b = 6
        OBVIOUS
      <4>3. pow(b) \in Nat \ {0}
        BY <4>1, <4>2
      <4> QED
        BY <4>3 DEF pow
    <3>3. \A n \in Nat, k \in Nat \ {0} : (n \div k) % 2 \in 0 .. 1
      OBVIOUS
    <3> QED
      BY <3>1, <3>2, <3>3 DEF C!Bit
  <2> QED
    BY <2>1, <2>2 DEF C!FECEncode, C!Place
<1> HIDE DEF sent
<1>2. air \in [C!Bits -> 0 .. 1]
  BY <1>1
<1>3. \A p \in C!Bits : air[p] # sent[p] => p \in at .. at + 15
  OBVIOUS
<1> HIDE DEF air
<1>4. \A p, q \in C!Bits :
        air[p] # sent[p] /\ air[q] # sent[q] /\ C!Place(p).word = C!Place(q).word => p = q
  <2> SUFFICES ASSUME NEW p \in C!Bits, NEW q \in C!Bits,
                      p \in at .. at + 15, q \in at .. at + 15, p % 16 = q % 16
               PROVE  p = q
    BY <1>3 DEF C!Place
  <2> QED
    BY DEF C!Bits
<1>5. C!FECDecode(air) = data
  BY <1>2, <1>4, EachWordRepaired DEF sent
<1> QED
  BY <1>5 DEF air, sent

FecTypeOK == packet \in 0 .. 15 /\ first \in Int

\* In every run of the error correction the packet is received as it was sent.
THEOREM BurstsAreRepaired == C!Spec => []BurstsRepaired
<1>1. C!Init => FecTypeOK
  BY DEF C!Init, FecTypeOK
<1>2. FecTypeOK /\ [C!Next]_(C!vars) => FecTypeOK'
  BY DEF C!Next, C!Send, C!Burst, C!vars, FecTypeOK
<1>3. FecTypeOK => BurstsRepaired
  <2> SUFFICES ASSUME FecTypeOK
               PROVE  C!BurstsRepaired
    BY DEF BurstsRepaired
  <2>1. C!Payload(packet) \in [C!Words -> 0 .. 15]
    BY DEF FecTypeOK, C!Payload, C!Words
  <2>2. first \in Int
    BY DEF FecTypeOK
  <2> QED
    BY <2>1, <2>2, BurstRepaired DEF C!BurstsRepaired, C!Received
<1> QED
  BY <1>1, <1>2, <1>3, PTL DEF C!Spec

-------------------------------------------------------------------------------
(* In a run of the structures.                                             *)
\* The parameter server has the transmitter's parameters.
TxServer == component = "tx_mavlink"

\* Telemetry queue, page and error correction run by themselves, or stand still.
LEMMA GroundRuns == Spec => T!CountedSpec /\ P!Spec /\ C!Spec
<1>1. Init => T!Init /\ P!Init /\ C!Init
  BY DEF Init
<1>2. [Next]_vars => /\ [T!Next /\ ~T!Wraps]_(T!vars) /\ [P!Next]_(P!vars)
                     /\ [C!Next]_(C!vars)
  <2> SUFFICES ASSUME [Next]_vars
               PROVE  /\ [T!Next /\ ~T!Wraps]_telemetryVars /\ [P!Next]_pageVars
                      /\ [C!Next]_fecVars
    BY DEF T!vars, P!vars, P!scriptVars, P!endpointVars, C!vars, telemetryVars, pageVars,
           fecVars
  <2> QED
    BY DEF Next, Picked, Page, vars
<1> QED
  BY <1>1, <1>2, PTL DEF Spec, T!CountedSpec, P!Spec, C!Spec

\* So do the receiver's parameters, unless the server has the transmitter's: then the
\* receiver commits nothing.
LEMMA RxServerRuns == Spec => \/ R!Spec
                             \/ [][modified' = modified]_(R!vars)
<1>1. Init /\ ~TxServer => R!Init
  BY DEF Init, R!Init, TxServer
<1>2. [Next]_vars => TxServer' = TxServer
  BY DEF Next, Picked, Page, vars, TxServer
<1>3. ~TxServer /\ [Next]_vars => [R!Next]_(R!vars)
  <2> SUFFICES ASSUME ~TxServer, [Next]_vars
               PROVE  [R!Next]_<<serverVars, rxVars>>
    BY DEF R!vars, R!configVars, R!linkVars, R!queueVars, R!serverVars, serverVars, rxVars
  <2> QED
    BY DEF Next, Picked, Page, vars, mavlinkVars, TxServer
<1>4. TxServer /\ [Next]_vars => [modified' = modified]_(R!vars)
  BY DEF Next, Picked, Page, vars, mavlinkVars, rxVars, TxServer
<1> HIDE DEF TxServer
<1>5. ~TxServer /\ [Next]_vars => (~TxServer)'
  BY <1>2
<1>6. TxServer /\ [Next]_vars => TxServer'
  BY <1>2
<1>7. Spec /\ ~TxServer => R!Spec
  BY <1>1, <1>3, <1>5, PTL DEF Spec, R!Spec
<1>8. Spec /\ TxServer => [][modified' = modified]_(R!vars)
  BY <1>4, <1>6, PTL DEF Spec
<1> QED
  BY <1>7, <1>8, PTL

\* In every run of the structures the queue is a mailbox, only a new driver loses what was
\* told, the page is true, and bursts are repaired.
THEOREM GroundIsTold ==
  Spec => /\ ImplementsMailbox /\ OnlyNewDriverLoses
          /\ []PageIsTrue /\ []BurstsRepaired
<1>1. [modified' = modified]_(R!vars) => [R!Committed /\ ~expired => R!GroundKnows]_(R!vars)
  BY DEF R!Committed
<1>2. [][modified' = modified]_(R!vars) => OnlyNewDriverLoses
  BY <1>1, PTL DEF OnlyNewDriverLoses, R!OnlyNewDriverLoses
<1> QED
  BY <1>2, GroundRuns, RxServerRuns, QueueIsMailbox, NewDriverOnly, PageStaysTrue,
     BurstsAreRepaired, PTL
===============================================================================
