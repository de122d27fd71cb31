----------------------------- MODULE Shared_proofs -----------------------------
(***************************************************************************)
(* What threads and cores share, for every value of the constants: the     *)
(* uplink queue on one core delivers what it was given, the serial queue   *)
(* sends whole frames, the devices of two cores start in order, and an     *)
(* armed aircraft flies at its power.                                      *)
(***************************************************************************)
EXTENDS MCShared, SequenceTheorems, TLAPS

-------------------------------------------------------------------------------
(* The uplink queue.                                                       *)

Places ==
  {"idle", "first", "rest", "length", "queue", "pop", "clear", "start", "reset"}
Forwarding == {"first", "rest", "length", "queue"}

UplinkTyped ==
  /\ transferActive \in BOOLEAN /\ cleared \in BOOLEAN
  /\ currentTransmissionBuffer \in [1 .. 2 -> Nat]
  /\ currentTransmissionLength \in Nat
  /\ outputQueue \in Seq(Nat)
  /\ sender \in [active : BOOLEAN, length : Nat, sent : Seq(Nat)]
  /\ Len(sender.sent) <= 1
  /\ arrived \in Seq([length : Nat, parts : Seq(Nat)])
  /\ pc \in [Threads -> Places] /\ msg \in [Threads -> Nat]
  /\ forwards \in Nat

AtMostOne == \A t, u \in Threads : pc[t] = "idle" \/ pc[u] = "idle" \/ t = u

\* m was accepted after all that is further on.
Newer(m) ==
  /\ \A i \in DOMAIN arrived : arrived[i].length < m
  /\ sender.active => sender.length < m
  /\ currentTransmissionLength < m
  /\ \A k \in DOMAIN outputQueue : outputQueue[k] < m

\* What a thread may rely on in the midst of an operation.
ThreadAt(t) ==
  /\ pc[t] \in Forwarding => forwards > 0 /\ msg[t] = forwards /\ Newer(forwards)
  /\ pc[t] \notin Forwarding => msg[t] = 0
  /\ pc[t] \in {"first", "rest", "length"} => currentTransmissionLength = 0
  /\ pc[t] \in {"rest", "length"} => currentTransmissionBuffer[1] = msg[t]
  /\ pc[t] = "length" => currentTransmissionBuffer[2] = msg[t]
  /\ pc[t] = "queue" => currentTransmissionLength # 0
  /\ pc[t] \in {"pop", "clear"} => transferActive /\ ~sender.active
  /\ pc[t] = "pop" => outputQueue # <<>>
  /\ pc[t] \in {"clear", "reset"} => outputQueue = <<>>
  /\ pc[t] = "start" => ~transferActive /\ ~sender.active

\* Arrived, at the sender, in the buffer, in the queue: older ones are further on.
ArrivedOrder ==
  /\ \A i, j \in DOMAIN arrived : i < j => arrived[i].length < arrived[j].length
  /\ \A i \in DOMAIN arrived :
       /\ arrived[i].length <= forwards
       /\ sender.active => arrived[i].length < sender.length
       /\ currentTransmissionLength # 0 => arrived[i].length <= currentTransmissionLength
       /\ currentTransmissionLength # 0 /\ ~transferActive
            => arrived[i].length < currentTransmissionLength
       /\ \A k \in DOMAIN outputQueue : arrived[i].length < outputQueue[k]

SenderOrder ==
  sender.active =>
    /\ transferActive /\ sender.length \in 1 .. forwards
    /\ currentTransmissionLength # 0 => sender.length <= currentTransmissionLength
    /\ \A k \in DOMAIN outputQueue : sender.length < outputQueue[k]

QueueOrder ==
  /\ currentTransmissionLength <= forwards
  /\ currentTransmissionLength = 0 => outputQueue = <<>>
  /\ \A k \in DOMAIN outputQueue :
       outputQueue[k] \in 1 .. forwards /\ currentTransmissionLength < outputQueue[k]
  /\ \A j, k \in DOMAIN outputQueue : j < k => outputQueue[j] < outputQueue[k]

\* Unless the length was cleared under a transfer, the buffer is the sender's message.
Current ==
  /\ currentTransmissionLength # 0 =>
       /\ currentTransmissionBuffer[1] = currentTransmissionLength
       /\ currentTransmissionBuffer[2] = currentTransmissionLength
  /\ transferActive => currentTransmissionLength # 0
  /\ transferActive /\ ~sender.active => Arrived(currentTransmissionLength)
  /\ sender.active =>
       /\ sender.length = currentTransmissionLength
       /\ sender.sent # <<>> => sender.sent = <<sender.length>>

WholeOnes ==
  \A i \in DOMAIN arrived : arrived[i].parts = <<arrived[i].length, arrived[i].length>>

Threading == AtMostOne /\ \A t \in Threads : ThreadAt(t)
Order == ArrivedOrder /\ SenderOrder /\ QueueOrder
Whole == ~cleared => Current /\ WholeOnes /\ NothingLost
UplinkInv == UplinkTyped /\ Threading /\ Order /\ Whole

\* On one core a step leaves every other thread idle.
LEMMA OneThread ==
  ASSUME ~TwoCores, UplinkTyped, NEW t \in Threads, NEW from \in Places,
         NEW to \in Places, Step(t, from, to)
  PROVE  /\ pc' \in [Threads -> Places] /\ AtMostOne'
         /\ pc[t] = from /\ pc'[t] = to
         /\ \A u \in Threads \ {t} : pc[u] = "idle" /\ pc'[u] = "idle"
BY DEF UplinkTyped, Step, AtMostOne

\* The queue with one more at its end, or one less at its head.
LEMMA SeqFacts ==
  ASSUME NEW S, NEW s \in Seq(S)
  PROVE  /\ DOMAIN s = 1 .. Len(s) /\ Len(s) \in Nat
         /\ \A e \in S :
              /\ Append(s, e) \in Seq(S) /\ Append(s, e) # <<>>
              /\ DOMAIN Append(s, e) = 1 .. Len(s) + 1
              /\ \A i \in 1 .. Len(s) : Append(s, e)[i] = s[i]
              /\ Append(s, e)[Len(s) + 1] = e
         /\ s # <<>> =>
              /\ Tail(s) \in Seq(S) /\ Head(s) \in S
              /\ DOMAIN Tail(s) = 1 .. Len(s) - 1 /\ Len(s) > 0
              /\ \A i \in 1 .. Len(s) - 1 : Tail(s)[i] = s[i + 1]
              /\ Head(s) = s[1]
<1>1. DOMAIN s = 1 .. Len(s) /\ Len(s) \in Nat
  BY LenProperties
<1>2. ASSUME NEW e \in S
      PROVE  /\ Append(s, e) \in Seq(S) /\ Append(s, e) # <<>>
             /\ DOMAIN Append(s, e) = 1 .. Len(s) + 1
             /\ \A i \in 1 .. Len(s) : Append(s, e)[i] = s[i]
             /\ Append(s, e)[Len(s) + 1] = e
  BY <1>1, AppendProperties, LenProperties
<1>3. ASSUME s # <<>>
      PROVE  /\ Tail(s) \in Seq(S) /\ Head(s) \in S
             /\ DOMAIN Tail(s) = 1 .. Len(s) - 1 /\ Len(s) > 0
             /\ \A i \in 1 .. Len(s) - 1 : Tail(s)[i] = s[i + 1]
             /\ Head(s) = s[1]
  BY <1>1, <1>3, HeadTailProperties, LenProperties, EmptySeq
<1> QED
  BY <1>1, <1>2, <1>3

\* Two packages that are alike.
LEMMA PairOf ==
  ASSUME NEW e \in Nat
  PROVE  Append(<<e>>, e) = <<e, e>>
<1>1. <<e>> \in Seq(Nat) /\ <<e, e>> \in Seq(Nat) /\ Len(<<e>>) = 1 /\ Len(<<e, e>>) = 2
  OBVIOUS
<1>2. /\ Append(<<e>>, e) \in Seq(Nat) /\ Len(Append(<<e>>, e)) = 2
      /\ Append(<<e>>, e)[1] = e /\ Append(<<e>>, e)[2] = e
  BY <1>1, AppendProperties
<1>3. \A i \in 1 .. 2 : Append(<<e>>, e)[i] = <<e, e>>[i]
  BY <1>2
<1> QED
  BY <1>1, <1>2, <1>3, SeqEqual

\* The numbers in the sequences of the uplink queue.
LEMMA UplinkNumbers ==
  ASSUME UplinkTyped
  PROVE  /\ forwards \in Nat /\ currentTransmissionLength \in Nat
         /\ sender.active \in BOOLEAN /\ sender.length \in Nat /\ sender.sent \in Seq(Nat)
         /\ DOMAIN arrived = 1 .. Len(arrived) /\ Len(arrived) \in Nat
         /\ \A i \in DOMAIN arrived :
              arrived[i].length \in Nat /\ arrived[i].parts \in Seq(Nat)
         /\ DOMAIN outputQueue = 1 .. Len(outputQueue) /\ Len(outputQueue) \in Nat
         /\ \A k \in DOMAIN outputQueue : outputQueue[k] \in Nat
         /\ outputQueue # <<>> =>
              /\ Tail(outputQueue) \in Seq(Nat) /\ Head(outputQueue) = outputQueue[1]
              /\ DOMAIN Tail(outputQueue) = 1 .. Len(outputQueue) - 1
              /\ Len(Tail(outputQueue)) = Len(outputQueue) - 1 /\ Len(outputQueue) > 0
              /\ \A k \in 1 .. Len(outputQueue) - 1 :
                   Tail(outputQueue)[k] = outputQueue[k + 1]
<1>1. /\ DOMAIN arrived = 1 .. Len(arrived) /\ Len(arrived) \in Nat
      /\ \A i \in DOMAIN arrived : arrived[i] \in [length : Nat, parts : Seq(Nat)]
  <2> DEFINE S == [length : Nat, parts : Seq(Nat)]
  <2>1. arrived \in Seq(S)
    BY DEF UplinkTyped
  <2> HIDE DEF S
  <2>2. /\ DOMAIN arrived = 1 .. Len(arrived) /\ Len(arrived) \in Nat
        /\ \A i \in DOMAIN arrived : arrived[i] \in S
    BY <2>1, LenProperties, ElementOfSeq
  <2> QED
    BY <2>2 DEF S
<1>2. /\ DOMAIN outputQueue = 1 .. Len(outputQueue) /\ Len(outputQueue) \in Nat
      /\ \A k \in DOMAIN outputQueue : outputQueue[k] \in Nat
  BY LenProperties, ElementOfSeq DEF UplinkTyped
<1>3. outputQueue # <<>> =>
        /\ Tail(outputQueue) \in Seq(Nat) /\ Head(outputQueue) = outputQueue[1]
        /\ Len(Tail(outputQueue)) = Len(outputQueue) - 1 /\ Len(outputQueue) > 0
        /\ \A k \in 1 .. Len(outputQueue) - 1 : Tail(outputQueue)[k] = outputQueue[k + 1]
  BY <1>2, HeadTailProperties, EmptySeq DEF UplinkTyped
<1>4. outputQueue # <<>> => DOMAIN Tail(outputQueue) = 1 .. Len(outputQueue) - 1
  BY <1>3, LenProperties
<1> QED
  BY <1>1, <1>2, <1>3, <1>4 DEF UplinkTyped

\* At power on nothing is queued.
LEMMA UplinkInitInv == Init => UplinkInv
<1> SUFFICES ASSUME Init
             PROVE  UplinkInv
  OBVIOUS
<1>1. UplinkTyped
  <2>1. currentTransmissionBuffer \in [1 .. 2 -> Nat]
    BY DEF Init
  <2>2. /\ sender \in [active : BOOLEAN, length : Nat, sent : Seq(Nat)]
        /\ Len(sender.sent) <= 1
    BY DEF Init, IdleSender
  <2>3. pc \in [Threads -> Places] /\ msg \in [Threads -> Nat]
    BY DEF Init, Places
  <2>4. /\ outputQueue \in Seq(Nat)
        /\ arrived \in Seq([length : Nat, parts : Seq(Nat)])
    BY DEF Init
  <2> QED
    BY <2>1, <2>2, <2>3, <2>4 DEF UplinkTyped, Init
<1>2. Threading
  BY DEF Threading, AtMostOne, ThreadAt, Init, Threads, Forwarding
<1>3. Order /\ Whole
  BY DEF Order, ArrivedOrder, SenderOrder, QueueOrder, Whole, Current, WholeOnes,
         NothingLost, Init, IdleSender
<1> QED
  BY <1>1, <1>2, <1>3 DEF UplinkInv

\* forwardMessage: the new message is the newest, and waits with its thread.
LEMMA UplinkForward ==
  ASSUME ~TwoCores, UplinkInv, NEW t \in Threads, Forward(t)
  PROVE  UplinkInv'
<1> DEFINE to == IF currentTransmissionLength = 0 THEN "first" ELSE "queue"
<1>1. /\ UplinkTyped /\ Order /\ Whole
      /\ \A u \in Threads : ThreadAt(u)
  BY DEF UplinkInv, Threading
<1>2. /\ pc' \in [Threads -> Places] /\ AtMostOne'
      /\ pc[t] = "idle" /\ pc'[t] = to
      /\ \A u \in Threads \ {t} : pc[u] = "idle" /\ pc'[u] = "idle"
  <2>1. to \in Places /\ "idle" \in Places
    BY DEF Places
  <2>2. Step(t, "idle", to)
    BY DEF Forward
  <2> HIDE DEF to
  <2> QED
    BY <1>1, <2>1, <2>2, OneThread
<1>3. /\ forwards' = forwards + 1 /\ msg' = [msg EXCEPT ![t] = forwards + 1]
      /\ UNCHANGED <<currentTransmissionBuffer, currentTransmissionLength, outputQueue,
                     transferActive, sender, arrived, dropped, cleared>>
  BY DEF Forward, currentVars
<1>4. UplinkTyped'
  BY <1>1, <1>2, <1>3 DEF UplinkTyped
<1>5. \A u \in Threads : msg[u] = 0
  BY <1>1, <1>2 DEF ThreadAt, Forwarding
<1>6. Newer(forwards)'
  BY <1>1, <1>3, UplinkNumbers DEF Newer, Order, ArrivedOrder, SenderOrder, QueueOrder
<1>7. ASSUME NEW u \in Threads
      PROVE  ThreadAt(u)'
  <2>1. CASE u = t
    BY <1>1, <1>2, <1>3, <1>4, <1>6, <2>1 DEF ThreadAt, UplinkTyped, Forwarding
  <2>2. CASE u # t
    BY <1>1, <1>2, <1>3, <1>5, <2>2 DEF ThreadAt, UplinkTyped, Forwarding
  <2> QED
    BY <2>1, <2>2
<1>8. Order'
  BY <1>1, <1>3, UplinkNumbers DEF Order, ArrivedOrder, SenderOrder, QueueOrder
<1>9. ASSUME ~cleared
      PROVE  NothingLost'
  <2> SUFFICES ASSUME NEW m \in 1 .. forwards'
               PROVE  Waiting(m)' \/ Arrived(m)' \/ m \in dropped'
    BY DEF NothingLost
  <2>1. CASE m = forwards + 1
    BY <1>1, <1>3, <2>1 DEF Waiting, UplinkTyped
  <2>2. CASE m \in 1 .. forwards
    BY <1>1, <1>3, <1>5, <1>9, <2>2 DEF Waiting, Arrived, Whole, NothingLost
  <2> QED
    BY <1>1, <1>3, <2>1, <2>2 DEF UplinkTyped
<1>10. Whole'
  BY <1>1, <1>3, <1>9 DEF Whole, Current, WholeOnes, Arrived
<1> QED
  BY <1>2, <1>4, <1>7, <1>8, <1>10 DEF UplinkInv, Threading

\* The copy into the buffer, which no transfer is using.
LEMMA UplinkCopy ==
  ASSUME ~TwoCores, UplinkInv, NEW t \in Threads, Copy(t)
  PROVE  UplinkInv'
<1>1. PICK from \in {"first", "rest"} :
        CopyPart(t, from, IF from = "first" THEN 1 ELSE 2,
                 IF from = "first" THEN "rest" ELSE "length")
  BY DEF Copy
<1> DEFINE to == IF from = "first" THEN "rest" ELSE "length"
           part == IF from = "first" THEN 1 ELSE 2
<1>2. /\ UplinkTyped /\ Order /\ Whole
      /\ \A u \in Threads : ThreadAt(u)
  BY DEF UplinkInv, Threading
<1>3. /\ pc' \in [Threads -> Places] /\ AtMostOne'
      /\ pc[t] = from /\ pc'[t] = to
      /\ \A u \in Threads \ {t} : pc[u] = "idle" /\ pc'[u] = "idle"
  <2>1. to \in Places /\ from \in Places
    BY DEF Places
  <2>2. Step(t, from, to)
    BY <1>1 DEF CopyPart
  <2> HIDE DEF to
  <2> QED
    BY <1>2, <2>1, <2>2, OneThread
<1>4. /\ currentTransmissionBuffer' = [currentTransmissionBuffer EXCEPT ![part] = msg[t]]
      /\ UNCHANGED <<currentTransmissionLength, outputQueue, transferActive, sender,
                     arrived, msg, forwards, dropped, cleared>>
  BY <1>1 DEF CopyPart
<1>5. UplinkTyped' /\ currentTransmissionBuffer'[part] = msg[t]
  BY <1>2, <1>3, <1>4 DEF UplinkTyped
<1>6. currentTransmissionLength = 0
  BY <1>2, <1>3 DEF ThreadAt
<1>7. ASSUME NEW u \in Threads
      PROVE  ThreadAt(u)'
  <2>1. CASE u = t /\ from = "first"
    BY <1>2, <1>3, <1>4, <1>5, <2>1 DEF ThreadAt, UplinkTyped, Forwarding, Newer
  <2>2. CASE u = t /\ from = "rest"
    BY <1>2, <1>3, <1>4, <1>5, <2>2 DEF ThreadAt, UplinkTyped, Forwarding, Newer
  <2>3. CASE u # t
    BY <1>2, <1>3, <1>4, <2>3 DEF ThreadAt, UplinkTyped, Forwarding, Newer
  <2> QED
    BY <2>1, <2>2, <2>3
<1>8. Order'
  BY <1>2, <1>4 DEF Order, ArrivedOrder, SenderOrder, QueueOrder
<1>9. Whole'
  BY <1>2, <1>4, <1>6 DEF Whole, Current, WholeOnes, Arrived, NothingLost, Waiting
<1> QED
  BY <1>3, <1>5, <1>7, <1>8, <1>9 DEF UplinkInv, Threading

\* The length makes the copy the current message.
LEMMA UplinkSetLength ==
  ASSUME ~TwoCores, UplinkInv, NEW t \in Threads, SetLength(t)
  PROVE  UplinkInv'
<1>1. /\ UplinkTyped /\ Order /\ Whole
      /\ \A u \in Threads : ThreadAt(u)
  BY DEF UplinkInv, Threading
<1>2. /\ pc' \in [Threads -> Places] /\ AtMostOne'
      /\ pc[t] = "length" /\ pc'[t] = "idle"
      /\ \A u \in Threads \ {t} : pc[u] = "idle" /\ pc'[u] = "idle"
  BY <1>1, OneThread DEF SetLength, Places
<1>3. /\ currentTransmissionLength' = msg[t] /\ msg' = [msg EXCEPT ![t] = 0]
      /\ UNCHANGED <<currentTransmissionBuffer, outputQueue, transferActive, sender,
                     arrived, forwards, dropped, cleared>>
  BY DEF SetLength
<1>4. UplinkTyped'
  BY <1>1, <1>2, <1>3 DEF UplinkTyped
<1>5. /\ msg[t] = forwards /\ forwards > 0 /\ Newer(forwards)
      /\ currentTransmissionLength = 0 /\ outputQueue = <<>>
      /\ currentTransmissionBuffer[1] = msg[t] /\ currentTransmissionBuffer[2] = msg[t]
  BY <1>1, <1>2 DEF ThreadAt, Forwarding, Order, QueueOrder
<1>6. ASSUME NEW u \in Threads
      PROVE  ThreadAt(u)'
  BY <1>1, <1>2, <1>3 DEF ThreadAt, UplinkTyped, Forwarding
<1>7. Order'
  BY <1>1, <1>3, <1>5 DEF Order, ArrivedOrder, SenderOrder, QueueOrder, Newer, UplinkTyped
<1>8. ASSUME ~cleared
      PROVE  NothingLost'
  BY <1>1, <1>3, <1>5, <1>8 DEF Whole, NothingLost, Waiting, Arrived, UplinkTyped
<1>9. Whole'
  BY <1>1, <1>3, <1>5, <1>8 DEF Whole, Current, WholeOnes, Order, SenderOrder
<1> QED
  BY <1>2, <1>4, <1>6, <1>7, <1>9 DEF UplinkInv, Threading

\* The queue takes the message at its end, and drops its head for it.
LEMMA UplinkEnqueue ==
  ASSUME ~TwoCores, UplinkInv, NEW t \in Threads, Enqueue(t)
  PROVE  UplinkInv'
<1> DEFINE full == ~(Len(outputQueue) < QueueLength)
           rest == IF full THEN Tail(outputQueue) ELSE outputQueue
<1>1. /\ UplinkTyped /\ Order /\ Whole
      /\ \A u \in Threads : ThreadAt(u)
  BY DEF UplinkInv, Threading
<1>2. /\ pc' \in [Threads -> Places] /\ AtMostOne'
      /\ pc[t] = "queue" /\ pc'[t] = "idle"
      /\ \A u \in Threads \ {t} : pc[u] = "idle" /\ pc'[u] = "idle"
  BY <1>1, OneThread DEF Enqueue, Places
<1>3. /\ outputQueue' = Append(rest, msg[t]) /\ msg' = [msg EXCEPT ![t] = 0]
      /\ dropped' = IF full THEN dropped \cup {Head(outputQueue)} ELSE dropped
      /\ UNCHANGED <<currentTransmissionBuffer, currentTransmissionLength, transferActive,
                     sender, arrived, forwards, cleared>>
  BY DEF Enqueue, currentVars
<1>4. full => outputQueue # <<>>
  BY UplinkQueueAssumption
<1>5a. /\ rest \in Seq(Nat) /\ DOMAIN rest = 1 .. Len(rest) /\ Len(rest) \in Nat
       /\ Len(rest) = IF full THEN Len(outputQueue) - 1 ELSE Len(outputQueue)
  <2>1. CASE full
    BY <1>1, <1>4, <2>1, UplinkNumbers
  <2>2. CASE ~full
    BY <1>1, <2>2, UplinkNumbers DEF UplinkTyped
  <2> QED
    BY <2>1, <2>2
<1>5. rest \in Seq(Nat) /\ DOMAIN rest = 1 .. Len(rest) /\ Len(rest) \in Nat
  BY <1>5a
<1>6. \A k \in DOMAIN rest :
        LET n == IF full THEN k + 1 ELSE k IN
        n \in DOMAIN outputQueue /\ rest[k] = outputQueue[n]
  <2>1. CASE full
    BY <1>1, <1>4, <1>5a, <2>1, UplinkNumbers
  <2>2. CASE ~full
    BY <1>1, <1>5a, <2>2, UplinkNumbers
  <2> QED
    BY <2>1, <2>2
<1>7. \A n \in DOMAIN outputQueue :
        \/ full /\ outputQueue[n] = Head(outputQueue)
        \/ \E k \in DOMAIN rest : rest[k] = outputQueue[n]
  <2> SUFFICES ASSUME NEW n \in DOMAIN outputQueue
               PROVE  \/ full /\ outputQueue[n] = Head(outputQueue)
                      \/ \E k \in DOMAIN rest : rest[k] = outputQueue[n]
    OBVIOUS
  <2>1. CASE ~full
    BY <2>1
  <2>2. CASE full /\ n = 1
    BY <1>1, <1>4, <2>2, UplinkNumbers
  <2>3. CASE full /\ n # 1
    <3>1. n - 1 \in 1 .. Len(outputQueue) - 1 /\ n = (n - 1) + 1
      BY <1>1, <2>3, UplinkNumbers
    <3> QED
      BY <1>1, <1>4, <1>5a, <2>3, <3>1, UplinkNumbers
  <2> QED
    BY <2>1, <2>2, <2>3
<1> HIDE DEF rest, full
<1>8. /\ outputQueue' \in Seq(Nat) /\ outputQueue' # <<>>
      /\ DOMAIN outputQueue' = 1 .. Len(rest) + 1
      /\ \A k \in 1 .. Len(rest) : outputQueue'[k] = rest[k]
      /\ outputQueue'[Len(rest) + 1] = msg[t]
  <2>1. msg[t] \in Nat /\ rest \in Seq(Nat)
    BY <1>1, <1>5 DEF UplinkTyped
  <2>2. outputQueue' = Append(rest, msg[t])
    BY <1>3
  <2> QED
    BY <2>1, <2>2, SeqFacts
<1>9. UplinkTyped'
  BY <1>1, <1>2, <1>3, <1>8 DEF UplinkTyped
<1>10. /\ msg[t] = forwards /\ forwards > 0 /\ Newer(forwards)
       /\ currentTransmissionLength # 0
  BY <1>1, <1>2 DEF ThreadAt, Forwarding
<1>11. ASSUME NEW u \in Threads
       PROVE  ThreadAt(u)'
  BY <1>1, <1>2, <1>3 DEF ThreadAt, UplinkTyped, Forwarding
<1>12. Order'
  <2>1. QueueOrder'
    <3>1. \A k \in DOMAIN outputQueue' :
            outputQueue'[k] \in 1 .. forwards /\ currentTransmissionLength < outputQueue'[k]
      <4>1. \A k \in DOMAIN rest :
              rest[k] \in 1 .. forwards /\ currentTransmissionLength < rest[k]
        BY <1>1, <1>6 DEF Order, QueueOrder
      <4>2. forwards \in 1 .. forwards /\ currentTransmissionLength < forwards
        BY <1>1, <1>10 DEF Newer, UplinkTyped
      <4>3. outputQueue'[Len(rest) + 1] = forwards
        BY <1>8, <1>10
      <4>4. \A k \in 1 .. Len(rest) + 1 : k \in DOMAIN rest \/ k = Len(rest) + 1
        BY <1>5
      <4> QED
        BY <1>5, <1>8, <4>1, <4>2, <4>3, <4>4
    <3>2. \A j, k \in DOMAIN outputQueue' : j < k => outputQueue'[j] < outputQueue'[k]
      <4> SUFFICES ASSUME NEW j \in DOMAIN outputQueue',
                          NEW k \in DOMAIN outputQueue', j < k
                   PROVE  outputQueue'[j] < outputQueue'[k]
        OBVIOUS
      <4>0. j \in 1 .. Len(rest) + 1 /\ k \in 1 .. Len(rest) + 1
        BY <1>8
      <4>1. j \in DOMAIN rest /\ outputQueue'[j] = rest[j]
        BY <1>5, <1>8, <4>0
      <4>2. CASE k \in DOMAIN rest
        <5> DEFINE n(i) == IF full THEN i + 1 ELSE i
        <5>1. /\ n(j) \in DOMAIN outputQueue /\ n(k) \in DOMAIN outputQueue
              /\ rest[j] = outputQueue[n(j)] /\ rest[k] = outputQueue[n(k)]
          BY <1>6, <4>1, <4>2
        <5>2. n(j) < n(k)
          BY <1>5, <4>1, <4>2
        <5> HIDE DEF n
        <5>3. outputQueue[n(j)] < outputQueue[n(k)]
          BY <1>1, <5>1, <5>2 DEF Order, QueueOrder
        <5> QED
          BY <1>5, <1>8, <4>1, <4>2, <5>1, <5>3
      <4>3. CASE k = Len(rest) + 1
        BY <1>1, <1>5, <1>6, <1>8, <1>10, <4>1, <4>3 DEF Newer
      <4> QED
        BY <1>5, <1>8, <4>2, <4>3
    <3> QED
      BY <1>1, <1>3, <1>8, <1>10, <3>1, <3>2 DEF Order, QueueOrder
  <2>2. SenderOrder'
    BY <1>1, <1>3, <1>5, <1>6, <1>8, <1>10 DEF Order, SenderOrder, Newer
  <2>3. ArrivedOrder'
    BY <1>1, <1>3, <1>5, <1>6, <1>8, <1>10 DEF Order, ArrivedOrder, Newer
  <2> QED
    BY <2>1, <2>2, <2>3 DEF Order
<1>13. ASSUME ~cleared
       PROVE  NothingLost'
  <2> SUFFICES ASSUME NEW m \in 1 .. forwards
               PROVE  Waiting(m)' \/ Arrived(m)' \/ m \in dropped'
    BY <1>3 DEF NothingLost
  <2>1. Waiting(m) \/ Arrived(m) \/ m \in dropped
    BY <1>1, <1>13 DEF Whole, NothingLost
  <2>2. CASE m \in Range(outputQueue)
    <3>1. m \in dropped' \/ \E k \in DOMAIN rest : rest[k] = m
      BY <1>3, <1>7, <2>2 DEF Range
    <3> QED
      BY <1>5, <1>8, <3>1 DEF Waiting, Range
  <2>3. CASE \E u \in Threads : msg[u] = m
    <3>1. m = msg[t]
      BY <1>1, <1>2, <2>3 DEF ThreadAt, Forwarding
    <3> QED
      BY <1>5, <1>8, <3>1 DEF Waiting, Range
  <2> QED
    BY <1>3, <2>1, <2>2, <2>3 DEF Waiting, Arrived
<1>14. Whole'
  BY <1>1, <1>3, <1>13 DEF Whole, Current, WholeOnes, Arrived
<1> QED
  BY <1>2, <1>9, <1>11, <1>12, <1>14 DEF UplinkInv, Threading

\* pumpSender finds something to do.
LEMMA UplinkPumpBegin ==
  ASSUME ~TwoCores, UplinkInv, PumpBegin
  PROVE  UplinkInv'
<1> DEFINE to == IF ~transferActive THEN "start"
                 ELSE IF outputQueue # <<>> THEN "pop" ELSE "clear"
<1>1. /\ UplinkTyped /\ Order /\ Whole
      /\ \A u \in Threads : ThreadAt(u)
  BY DEF UplinkInv, Threading
<1>2. "loop" \in Threads
  BY DEF Threads
<1>3. /\ pc' \in [Threads -> Places] /\ AtMostOne'
      /\ pc["loop"] = "idle" /\ pc'["loop"] = to
      /\ \A u \in Threads \ {"loop"} : pc[u] = "idle" /\ pc'[u] = "idle"
  <2>1. to \in Places /\ "idle" \in Places
    BY DEF Places
  <2>2. Step("loop", "idle", to)
    BY DEF PumpBegin
  <2> HIDE DEF to
  <2> QED
    BY <1>1, <1>2, <2>1, <2>2, OneThread
<1>4. /\ ~sender.active
      /\ UNCHANGED <<currentTransmissionBuffer, currentTransmissionLength, outputQueue,
                     transferActive, sender, arrived, msg, forwards, dropped, cleared>>
  BY DEF PumpBegin, currentVars
<1>5. UplinkTyped'
  BY <1>1, <1>3, <1>4 DEF UplinkTyped
<1>6. ASSUME NEW u \in Threads
      PROVE  ThreadAt(u)'
  <2>1. CASE u = "loop"
    BY <1>1, <1>3, <1>4, <2>1 DEF ThreadAt, Forwarding
  <2>2. CASE u # "loop"
    BY <1>1, <1>3, <1>4, <2>2 DEF ThreadAt, Forwarding
  <2> QED
    BY <2>1, <2>2
<1>7. Order' /\ Whole'
  BY <1>1, <1>4 DEF Order, ArrivedOrder, SenderOrder, QueueOrder, Whole, Current, WholeOnes,
                    NothingLost, Waiting, Arrived
<1> QED
  BY <1>3, <1>5, <1>6, <1>7 DEF UplinkInv, Threading

\* unlockMessage: the head of the queue takes the place of what has arrived.
LEMMA UplinkPumpPop ==
  ASSUME ~TwoCores, UplinkInv, PumpPop
  PROVE  UplinkInv'
<1> DEFINE head == Head(outputQueue)
<1>1. /\ UplinkTyped /\ Order /\ Whole
      /\ \A u \in Threads : ThreadAt(u)
  BY DEF UplinkInv, Threading
<1>2. "loop" \in Threads
  BY DEF Threads
<1>3. /\ pc' \in [Threads -> Places] /\ AtMostOne'
      /\ pc["loop"] = "pop" /\ pc'["loop"] = "start"
      /\ \A u \in Threads \ {"loop"} : pc[u] = "idle" /\ pc'[u] = "idle"
  BY <1>1, <1>2, OneThread DEF PumpPop, Places
<1>4. /\ outputQueue # <<>> /\ transferActive /\ ~sender.active
      /\ \A u \in Threads : msg[u] = 0
  BY <1>1, <1>2, <1>3 DEF ThreadAt, Forwarding
<1>5. /\ currentTransmissionLength' = head /\ outputQueue' = Tail(outputQueue)
      /\ currentTransmissionBuffer' = <<head, head>> /\ transferActive' = FALSE
      /\ UNCHANGED <<sender, arrived, msg, forwards, dropped, cleared>>
  BY <1>4 DEF PumpPop
<1>6. /\ outputQueue' \in Seq(Nat) /\ Len(outputQueue) \in Nat /\ Len(outputQueue) > 0
      /\ DOMAIN outputQueue = 1 .. Len(outputQueue)
      /\ DOMAIN outputQueue' = 1 .. Len(outputQueue) - 1
      /\ \A k \in 1 .. Len(outputQueue) - 1 : outputQueue'[k] = outputQueue[k + 1]
      /\ head = outputQueue[1]
  BY <1>1, <1>4, <1>5, UplinkNumbers
<1>7. /\ head \in Nat /\ head \in 1 .. forwards /\ currentTransmissionLength < head
  <2>1. 1 \in DOMAIN outputQueue
    BY <1>6
  <2> HIDE DEF head
  <2>2. head \in 1 .. forwards /\ currentTransmissionLength < head
    BY <1>1, <1>6, <2>1 DEF Order, QueueOrder
  <2> QED
    BY <1>1, <2>2, UplinkNumbers
<1>8. \A k \in DOMAIN outputQueue' :
        k + 1 \in DOMAIN outputQueue /\ outputQueue'[k] = outputQueue[k + 1]
  BY <1>6
<1> HIDE DEF head
<1>9. /\ currentTransmissionBuffer' \in [1 .. 2 -> Nat]
      /\ currentTransmissionBuffer'[1] = head /\ currentTransmissionBuffer'[2] = head
  BY <1>5, <1>7
<1>10. UplinkTyped'
  BY <1>1, <1>3, <1>5, <1>6, <1>7, <1>9 DEF UplinkTyped
<1>11. ASSUME NEW u \in Threads
       PROVE  ThreadAt(u)'
  BY <1>3, <1>4, <1>5 DEF ThreadAt, Forwarding
<1>12. Order'
  <2>1. ArrivedOrder'
    <3>1. ASSUME NEW i \in DOMAIN arrived
          PROVE  arrived[i].length < head /\ arrived[i].length <= forwards
      BY <1>1, <1>6 DEF Order, ArrivedOrder
    <3>2. ASSUME NEW i \in DOMAIN arrived, NEW k \in DOMAIN outputQueue'
          PROVE  arrived[i].length < outputQueue'[k]
      BY <1>1, <1>8 DEF Order, ArrivedOrder
    <3> QED
      BY <1>1, <1>4, <1>5, <1>7, <3>1, <3>2, UplinkNumbers DEF Order, ArrivedOrder
  <2>2. SenderOrder'
    BY <1>4, <1>5 DEF SenderOrder
  <2>3. QueueOrder'
    <3>1. \A k \in DOMAIN outputQueue' : outputQueue'[k] \in 1 .. forwards
      BY <1>1, <1>8 DEF Order, QueueOrder
    <3>2. ASSUME NEW k \in DOMAIN outputQueue'
          PROVE  head < outputQueue'[k]
      <4>1. 1 < k + 1 /\ 1 \in DOMAIN outputQueue
        BY <1>6
      <4> QED
        BY <1>1, <1>6, <1>8, <4>1 DEF Order, QueueOrder
    <3>3. ASSUME NEW j \in DOMAIN outputQueue', NEW k \in DOMAIN outputQueue', j < k
          PROVE  outputQueue'[j] < outputQueue'[k]
      <4>1. j + 1 < k + 1
        BY <1>6, <3>3
      <4> QED
        BY <1>1, <1>8, <4>1 DEF Order, QueueOrder
    <3> QED
      BY <1>5, <1>7, <3>1, <3>2, <3>3 DEF QueueOrder
  <2> QED
    BY <2>1, <2>2, <2>3 DEF Order
<1>13. ASSUME ~cleared
       PROVE  NothingLost'
  <2> SUFFICES ASSUME NEW m \in 1 .. forwards
               PROVE  Waiting(m)' \/ Arrived(m)' \/ m \in dropped'
    BY <1>5 DEF NothingLost
  <2>1. Waiting(m) \/ Arrived(m) \/ m \in dropped
    BY <1>1, <1>13 DEF Whole, NothingLost
  <2>2. CASE m \in Range(outputQueue)
    <3>1. PICK k \in DOMAIN outputQueue : outputQueue[k] = m
      BY <2>2 DEF Range
    <3>2. CASE k = 1
      BY <1>5, <1>6, <3>1, <3>2 DEF Waiting
    <3>3. CASE k # 1
      <4>1. k - 1 \in DOMAIN outputQueue' /\ outputQueue'[k - 1] = m
        BY <1>6, <3>1, <3>3
      <4> QED
        BY <4>1 DEF Waiting, Range
    <3> QED
      BY <3>2, <3>3
  <2>3. CASE currentTransmissionLength = m
    BY <1>1, <1>4, <1>5, <1>13, <2>3 DEF Whole, Current, Arrived
  <2> QED
    BY <1>4, <1>5, <2>1, <2>2, <2>3 DEF Waiting, Arrived
<1>14. Whole'
  BY <1>1, <1>4, <1>5, <1>9, <1>13 DEF Whole, Current, WholeOnes
<1> QED
  BY <1>3, <1>10, <1>11, <1>12, <1>14 DEF UplinkInv, Threading

\* unlockMessage with nothing queued: the buffer is free.
LEMMA UplinkPumpClear ==
  ASSUME ~TwoCores, UplinkInv, PumpClear
  PROVE  UplinkInv'
<1>1. /\ UplinkTyped /\ Order /\ Whole
      /\ \A u \in Threads : ThreadAt(u)
  BY DEF UplinkInv, Threading
<1>2. "loop" \in Threads
  BY DEF Threads
<1>3. /\ pc' \in [Threads -> Places] /\ AtMostOne'
      /\ pc["loop"] = "clear" /\ pc'["loop"] = "start"
      /\ \A u \in Threads \ {"loop"} : pc[u] = "idle" /\ pc'[u] = "idle"
  BY <1>1, <1>2, OneThread DEF PumpClear, Places
<1>4. /\ outputQueue = <<>> /\ transferActive /\ ~sender.active
      /\ \A u \in Threads : msg[u] = 0
  BY <1>1, <1>2, <1>3 DEF ThreadAt, Forwarding
<1>5. /\ currentTransmissionLength' = 0 /\ transferActive' = FALSE
      /\ UNCHANGED <<currentTransmissionBuffer, outputQueue, sender, arrived, msg,
                     forwards, dropped, cleared>>
  BY DEF PumpClear
<1>6. UplinkTyped'
  BY <1>1, <1>3, <1>5 DEF UplinkTyped
<1>7. ASSUME NEW u \in Threads
      PROVE  ThreadAt(u)'
  BY <1>3, <1>4, <1>5 DEF ThreadAt, Forwarding
<1>8. Order'
  BY <1>1, <1>4, <1>5, UplinkNumbers DEF Order, ArrivedOrder, SenderOrder, QueueOrder
<1>9. ASSUME ~cleared
      PROVE  NothingLost'
  BY <1>1, <1>4, <1>5, <1>9 DEF Whole, Current, NothingLost, Waiting, Arrived
<1>10. Whole'
  BY <1>1, <1>4, <1>5, <1>9 DEF Whole, Current, WholeOnes
<1> QED
  BY <1>3, <1>6, <1>7, <1>8, <1>10 DEF UplinkInv, Threading

\* The sender gets the current message, if there is one.
LEMMA UplinkPumpStart ==
  ASSUME ~TwoCores, UplinkInv, PumpStart
  PROVE  UplinkInv'
<1>1. /\ UplinkTyped /\ Order /\ Whole
      /\ \A u \in Threads : ThreadAt(u)
  BY DEF UplinkInv, Threading
<1>2. "loop" \in Threads
  BY DEF Threads
<1>3. /\ pc' \in [Threads -> Places] /\ AtMostOne'
      /\ pc["loop"] = "start" /\ pc'["loop"] = "idle"
      /\ \A u \in Threads \ {"loop"} : pc[u] = "idle" /\ pc'[u] = "idle"
  BY <1>1, <1>2, OneThread DEF PumpStart, Places
<1>4. /\ ~transferActive /\ ~sender.active
      /\ \A u \in Threads : msg[u] = 0
  BY <1>1, <1>2, <1>3 DEF ThreadAt, Forwarding
<1>5. UNCHANGED <<currentTransmissionBuffer, currentTransmissionLength, outputQueue,
                  arrived, msg, forwards, dropped, cleared>>
  BY DEF PumpStart, currentVars
<1>6. ASSUME NEW u \in Threads
      PROVE  ThreadAt(u)'
  BY <1>3, <1>4, <1>5 DEF ThreadAt, Forwarding
<1>7. CASE currentTransmissionLength = 0
  <2>1. UNCHANGED <<transferActive, sender>>
    BY <1>7 DEF PumpStart
  <2>2. UplinkTyped'
    BY <1>1, <1>3, <1>5, <2>1 DEF UplinkTyped
  <2>3. Order' /\ Whole'
    BY <1>1, <1>5, <2>1 DEF Order, ArrivedOrder, SenderOrder, QueueOrder, Whole, Current,
                            WholeOnes, NothingLost, Waiting, Arrived
  <2> QED
    BY <1>3, <1>6, <2>2, <2>3 DEF UplinkInv, Threading
<1>8. CASE currentTransmissionLength # 0
  <2>1. /\ transferActive' = TRUE
        /\ sender' = [active |-> TRUE, length |-> currentTransmissionLength, sent |-> <<>>]
    BY <1>8 DEF PumpStart
  <2>2. UplinkTyped'
    BY <1>1, <1>3, <1>5, <2>1 DEF UplinkTyped
  <2>3. Order'
    BY <1>1, <1>4, <1>5, <1>8, <2>1, UplinkNumbers
    DEF Order, ArrivedOrder, SenderOrder, QueueOrder
  <2>4. Whole'
    BY <1>1, <1>4, <1>5, <1>8, <2>1
    DEF Whole, Current, WholeOnes, NothingLost, Waiting, Arrived
  <2> QED
    BY <1>3, <1>6, <2>2, <2>3, <2>4 DEF UplinkInv, Threading
<1> QED
  BY <1>7, <1>8

\* resetOutputQueue: the queue goes.
LEMMA UplinkResetFlush ==
  ASSUME ~TwoCores, UplinkInv, ResetFlush
  PROVE  UplinkInv'
<1>1. /\ UplinkTyped /\ Order /\ Whole
      /\ \A u \in Threads : ThreadAt(u)
  BY DEF UplinkInv, Threading
<1>2. "vtx" \in Threads
  BY DEF Threads
<1>3. /\ pc' \in [Threads -> Places] /\ AtMostOne'
      /\ pc["vtx"] = "idle" /\ pc'["vtx"] = "reset"
      /\ \A u \in Threads \ {"vtx"} : pc[u] = "idle" /\ pc'[u] = "idle"
  BY <1>1, <1>2, OneThread DEF ResetFlush, Places
<1>4. /\ outputQueue' = <<>> /\ dropped' = dropped \cup Range(outputQueue)
      /\ UNCHANGED <<currentTransmissionBuffer, currentTransmissionLength,
                     transferActive, sender, arrived, msg, forwards, cleared>>
  BY DEF ResetFlush, currentVars
<1>5. UplinkTyped'
  BY <1>1, <1>3, <1>4 DEF UplinkTyped
<1>6. ASSUME NEW u \in Threads
      PROVE  ThreadAt(u)'
  <2>1. CASE u = "vtx"
    BY <1>1, <1>3, <1>4, <2>1 DEF ThreadAt, Forwarding
  <2>2. CASE u # "vtx"
    BY <1>1, <1>3, <1>4, <2>2 DEF ThreadAt, Forwarding
  <2> QED
    BY <2>1, <2>2
<1>7. Order'
  BY <1>1, <1>4 DEF Order, ArrivedOrder, SenderOrder, QueueOrder
<1>8. Whole'
  BY <1>1, <1>4 DEF Whole, Current, WholeOnes, NothingLost, Waiting, Arrived
<1> QED
  BY <1>3, <1>5, <1>6, <1>7, <1>8 DEF UplinkInv, Threading

\* ... and the length: what the sender was sending is history.
LEMMA UplinkResetLength ==
  ASSUME ~TwoCores, UplinkInv, ResetLength
  PROVE  UplinkInv'
<1>1. /\ UplinkTyped /\ Order /\ Whole
      /\ \A u \in Threads : ThreadAt(u)
  BY DEF UplinkInv, Threading
<1>2. "vtx" \in Threads
  BY DEF Threads
<1>3. /\ pc' \in [Threads -> Places] /\ AtMostOne'
      /\ pc["vtx"] = "reset" /\ pc'["vtx"] = "idle"
      /\ \A u \in Threads \ {"vtx"} : pc[u] = "idle" /\ pc'[u] = "idle"
  BY <1>1, <1>2, OneThread DEF ResetLength, Places
<1>4. outputQueue = <<>> /\ \A u \in Threads : msg[u] = 0
  BY <1>1, <1>2, <1>3 DEF ThreadAt, Forwarding
<1>5. /\ currentTransmissionLength' = 0
      /\ dropped' = dropped \cup ({currentTransmissionLength} \ {0})
      /\ cleared' \in BOOLEAN
      /\ ~cleared' => ~cleared /\ ~transferActive
      /\ UNCHANGED <<currentTransmissionBuffer, outputQueue, transferActive, sender,
                     arrived, msg, forwards>>
  BY <1>1 DEF ResetLength, UplinkTyped
<1>6. UplinkTyped'
  BY <1>1, <1>3, <1>5 DEF UplinkTyped
<1>7. ASSUME NEW u \in Threads
      PROVE  ThreadAt(u)'
  BY <1>3, <1>4, <1>5 DEF ThreadAt, Forwarding
<1>8. Order'
  BY <1>1, <1>4, <1>5, UplinkNumbers DEF Order, ArrivedOrder, SenderOrder, QueueOrder
<1>9. ASSUME ~cleared'
      PROVE  NothingLost'
  BY <1>1, <1>5, <1>9, UplinkNumbers DEF Whole, NothingLost, Waiting, Arrived
<1>10. Whole'
  BY <1>1, <1>5, <1>9 DEF Whole, Current, WholeOnes, Order, SenderOrder
<1> QED
  BY <1>3, <1>6, <1>7, <1>8, <1>10 DEF UplinkInv, Threading

\* A package is read out of the buffer; with the second the message has arrived.
LEMMA UplinkSendPart ==
  ASSUME UplinkInv, SendPart
  PROVE  UplinkInv'
<1> DEFINE part == currentTransmissionBuffer[Len(sender.sent) + 1]
<1>1. /\ UplinkTyped /\ Order /\ Whole /\ AtMostOne
      /\ \A u \in Threads : ThreadAt(u)
  BY DEF UplinkInv, Threading
<1>2. /\ sender.active
      /\ UNCHANGED <<currentTransmissionBuffer, currentTransmissionLength, outputQueue,
                     transferActive, pc, msg, forwards, dropped, cleared>>
  BY DEF SendPart, currentVars, threadVars
<1>3. CASE sender.sent = <<>>
  <2>1. sender' = [sender EXCEPT !.sent = <<part>>] /\ UNCHANGED arrived
    BY <1>3 DEF SendPart
  <2>2. part \in Nat /\ part = currentTransmissionBuffer[1]
    BY <1>1, <1>3 DEF UplinkTyped
  <2> HIDE DEF part
  <2>3. /\ sender' \in [active : BOOLEAN, length : Nat, sent : Seq(Nat)]
        /\ sender'.active = sender.active /\ sender'.length = sender.length
        /\ sender'.sent = <<part>> /\ Len(sender'.sent) <= 1
    <3>1. <<part>> \in Seq(Nat) /\ Len(<<part>>) = 1
      BY <2>2
    <3>2. sender \in [active : BOOLEAN, length : Nat, sent : Seq(Nat)]
      BY <1>1 DEF UplinkTyped
    <3>3. /\ sender' \in [active : BOOLEAN, length : Nat, sent : Seq(Nat)]
          /\ sender'.active = sender.active /\ sender'.length = sender.length
      BY <2>1, <3>1, <3>2
    <3>4. sender'.sent = <<part>>
      BY <2>1, <3>2
    <3> QED
      BY <3>1, <3>3, <3>4
  <2>4. UplinkTyped'
    BY <1>1, <1>2, <2>1, <2>3 DEF UplinkTyped
  <2>5. ASSUME NEW u \in Threads
        PROVE  ThreadAt(u)'
    BY <1>1, <1>2, <2>1, <2>3 DEF ThreadAt, Newer
  <2>6. Order'
    BY <1>1, <1>2, <2>1, <2>3 DEF Order, ArrivedOrder, SenderOrder, QueueOrder
  <2>7. Whole'
    <3>1. NothingLost => NothingLost'
      BY <1>1, <1>2, <2>1, <2>3 DEF NothingLost, Waiting, Arrived
    <3>2. Current => Current'
      BY <1>1, <1>2, <2>1, <2>2, <2>3 DEF Current, Arrived, Order, SenderOrder
    <3> QED
      BY <1>1, <1>2, <2>1, <3>1, <3>2 DEF Whole, WholeOnes
  <2> QED
    BY <1>1, <1>2, <2>4, <2>5, <2>6, <2>7 DEF UplinkInv, Threading, AtMostOne
<1>4. CASE sender.sent # <<>>
  <2> DEFINE got == [length |-> sender.length, parts |-> Append(sender.sent, part)]
             S == [length : Nat, parts : Seq(Nat)]
  <2>1. sender' = IdleSender /\ arrived' = Append(arrived, got)
    BY <1>4 DEF SendPart
  <2>2. ~cleared => /\ sender.sent = <<sender.length>> /\ part = sender.length
                    /\ sender.length = currentTransmissionLength
    <3> SUFFICES ASSUME ~cleared
                 PROVE  /\ sender.sent = <<sender.length>> /\ part = sender.length
                        /\ sender.length = currentTransmissionLength
      OBVIOUS
    <3>1. sender.sent = <<sender.length>> /\ sender.length = currentTransmissionLength
      BY <1>1, <1>2, <1>4 DEF Whole, Current
    <3>2. sender.length \in 1 .. forwards
      BY <1>1, <1>2 DEF Order, SenderOrder
    <3>3. Len(sender.sent) + 1 = 2
      BY <3>1
    <3>4. currentTransmissionLength # 0
      BY <1>1, <3>1, <3>2, UplinkNumbers
    <3> QED
      BY <1>1, <3>1, <3>3, <3>4 DEF Whole, Current
  <2>3. got \in S
    <3>1. sender.sent \in Seq(Nat) /\ sender.length \in Nat
      BY <1>1 DEF UplinkTyped
    <3>2. Len(sender.sent) = 1
      <4>1. Len(sender.sent) \in Nat /\ Len(sender.sent) # 0
        BY <1>4, <3>1, EmptySeq, LenProperties
      <4>2. Len(sender.sent) <= 1
        BY <1>1 DEF UplinkTyped
      <4>3. \A n \in Nat : n # 0 /\ n <= 1 => n = 1
        OBVIOUS
      <4> QED
        BY <4>1, <4>2, <4>3, Zenon
    <3>3. part \in Nat
      BY <1>1, <3>2 DEF UplinkTyped
    <3> HIDE DEF part
    <3>4. Append(sender.sent, part) \in Seq(Nat)
      BY <3>1, <3>3
    <3> QED
      BY <3>1, <3>4
  <2>4. arrived \in Seq(S)
    BY <1>1 DEF UplinkTyped
  <2> HIDE DEF S
  <2>5. /\ arrived' \in Seq(S)
        /\ DOMAIN arrived = 1 .. Len(arrived) /\ Len(arrived) \in Nat
        /\ DOMAIN arrived' = 1 .. Len(arrived) + 1
        /\ \A i \in 1 .. Len(arrived) : arrived'[i] = arrived[i]
        /\ arrived'[Len(arrived) + 1] = got
    BY <2>1, <2>3, <2>4, SeqFacts
  <2>6. UplinkTyped'
    BY <1>1, <1>2, <2>1, <2>5 DEF UplinkTyped, IdleSender, S
  <2>7. /\ got.length = sender.length /\ sender.length \in 1 .. forwards
        /\ ~cleared => got.parts = <<sender.length, sender.length>>
    <3> HIDE DEF part
    <3>1. got.length = sender.length /\ got.parts = Append(sender.sent, part)
      OBVIOUS
    <3>2. ~cleared => Append(sender.sent, part) = <<sender.length, sender.length>>
      <4>1. sender.length \in Nat
        BY <1>1 DEF UplinkTyped
      <4>2. Append(<<sender.length>>, sender.length) = <<sender.length, sender.length>>
        BY <4>1, PairOf
      <4> QED
        BY <2>2, <4>2
    <3>3. sender.length \in 1 .. forwards
      BY <1>1, <1>2 DEF Order, SenderOrder
    <3> QED
      BY <3>1, <3>2, <3>3
  <2> HIDE DEF got, part
  <2>8. \A i \in DOMAIN arrived' :
          (i \in DOMAIN arrived /\ arrived'[i] = arrived[i]) \/ arrived'[i] = got
    BY <2>5
  <2>9. /\ ~sender'.active
        /\ \A i \in DOMAIN arrived : i \in DOMAIN arrived' /\ arrived'[i] = arrived[i]
        /\ \E i \in DOMAIN arrived' : arrived'[i] = got
    <3>1. ~sender'.active
      BY <2>1 DEF IdleSender
    <3>2. /\ \A i \in DOMAIN arrived : i \in DOMAIN arrived' /\ arrived'[i] = arrived[i]
          /\ Len(arrived) + 1 \in DOMAIN arrived'
      BY <2>5
    <3> QED
      BY <2>5, <3>1, <3>2
  <2>10. ASSUME NEW m, Newer(m)
         PROVE  Newer(m)'
    BY <1>2, <2>7, <2>8, <2>9, <2>10 DEF Newer
  <2>11. ASSUME NEW u \in Threads
         PROVE  ThreadAt(u)'
    <3>1. ThreadAt(u)
      BY <1>1
    <3>2. pc[u] \notin {"pop", "clear", "start"}
      BY <1>2, <3>1 DEF ThreadAt
    <3> QED
      BY <1>2, <2>10, <3>1, <3>2 DEF ThreadAt, Forwarding
  <2>12. Order'
    <3>1. ArrivedOrder'
      <4>1. \A i, j \in DOMAIN arrived' : i < j => arrived'[i].length < arrived'[j].length
        <5> SUFFICES ASSUME NEW i \in DOMAIN arrived', NEW j \in DOMAIN arrived', i < j
                     PROVE  arrived'[i].length < arrived'[j].length
          OBVIOUS
        <5>1. i \in DOMAIN arrived /\ arrived'[i] = arrived[i]
          BY <2>5
        <5>2. CASE j \in DOMAIN arrived
          BY <1>1, <2>5, <5>1, <5>2 DEF Order, ArrivedOrder
        <5>3. CASE j = Len(arrived) + 1
          BY <1>1, <1>2, <2>5, <2>7, <5>1, <5>3 DEF Order, ArrivedOrder
        <5> QED
          BY <2>5, <5>2, <5>3
      <4>2. ASSUME NEW i \in DOMAIN arrived'
            PROVE  /\ arrived'[i].length <= forwards
                   /\ currentTransmissionLength # 0
                        => arrived'[i].length <= currentTransmissionLength
                   /\ \A k \in DOMAIN outputQueue : arrived'[i].length < outputQueue[k]
        <5>1. CASE i \in DOMAIN arrived /\ arrived'[i] = arrived[i]
          BY <1>1, <5>1 DEF Order, ArrivedOrder
        <5>2. CASE arrived'[i] = got
          BY <1>1, <1>2, <2>7, <5>2 DEF Order, SenderOrder
        <5> QED
          BY <2>8, <5>1, <5>2
      <4>3. transferActive
        BY <1>1, <1>2 DEF Order, SenderOrder
      <4> QED
        BY <1>2, <2>9, <4>1, <4>2, <4>3 DEF ArrivedOrder
    <3>2. SenderOrder' /\ QueueOrder'
      BY <1>1, <1>2, <2>9 DEF Order, SenderOrder, QueueOrder
    <3> QED
      BY <3>1, <3>2 DEF Order
  <2>13. ASSUME ~cleared
         PROVE  (Current /\ WholeOnes /\ NothingLost)'
    <3>1. Current /\ WholeOnes /\ NothingLost
      BY <1>1, <2>13 DEF Whole
    <3>2. \A m : Arrived(m) => Arrived(m)'
      BY <2>9 DEF Arrived
    <3>3. \A m : m = sender.length => Arrived(m)'
      BY <2>7, <2>9, <2>13 DEF Arrived
    <3>4. Current'
      BY <1>2, <2>2, <2>9, <2>13, <3>1, <3>3 DEF Current
    <3>5. WholeOnes'
      BY <2>7, <2>8, <2>13, <3>1 DEF WholeOnes
    <3>6. NothingLost'
      BY <1>2, <3>1, <3>2, <3>3 DEF NothingLost, Waiting
    <3> QED
      BY <3>4, <3>5, <3>6
  <2>14. Whole'
    BY <1>2, <2>13 DEF Whole
  <2> QED
    BY <1>1, <1>2, <2>6, <2>11, <2>12, <2>14 DEF UplinkInv, Threading, AtMostOne
<1> QED
  BY <1>3, <1>4

\* The link comes and goes, or nothing happens.
LEMMA UplinkUnchanged ==
  ASSUME UplinkInv,
         UNCHANGED <<currentVars, outputQueue, transferActive, sender, arrived,
                     threadVars, forwards, dropped, cleared>>
  PROVE  UplinkInv'
<1>1. UNCHANGED <<currentTransmissionBuffer, currentTransmissionLength, outputQueue,
                  transferActive, sender, arrived, pc, msg, forwards, dropped, cleared>>
  BY DEF currentVars, threadVars
<1>2. UplinkTyped'
  BY <1>1 DEF UplinkInv, UplinkTyped
<1>3. Threading'
  BY <1>1 DEF UplinkInv, Threading, AtMostOne, ThreadAt, Newer
<1>4. Order'
  BY <1>1 DEF UplinkInv, Order, ArrivedOrder, SenderOrder, QueueOrder
<1>5. Whole'
  BY <1>1 DEF UplinkInv, Whole, Current, WholeOnes, NothingLost, Waiting, Arrived
<1> QED
  BY <1>2, <1>3, <1>4, <1>5 DEF UplinkInv

\* One core: no step of the queue breaks its invariant.
LEMMA UplinkStep == ~TwoCores /\ UplinkInv /\ [Next]_vars => UplinkInv'
<1> SUFFICES ASSUME ~TwoCores, UplinkInv, [Next]_vars
             PROVE  UplinkInv'
  OBVIOUS
<1>1. ASSUME NEW t \in Threads, ForwardMessage(t)
      PROVE  UplinkInv'
  BY <1>1, UplinkForward, UplinkCopy, UplinkSetLength, UplinkEnqueue DEF ForwardMessage
<1>2. CASE PumpSender
  BY <1>2, UplinkPumpBegin, UplinkPumpPop, UplinkPumpClear, UplinkPumpStart DEF PumpSender
<1>3. CASE ResetOutputQueue
  BY <1>3, UplinkResetFlush, UplinkResetLength DEF ResetOutputQueue
<1>4. CASE SendPart
  BY <1>4, UplinkSendPart
<1>5. CASE UpdateConnectDisconnectStatus
  <2>1. pc' = pc
    BY <1>5 DEF UpdateConnectDisconnectStatus, Step, UplinkInv, UplinkTyped
  <2> QED
    BY <1>5, <2>1, UplinkUnchanged DEF UpdateConnectDisconnectStatus, threadVars
<1>6. CASE UNCHANGED vars
  BY <1>6, UplinkUnchanged DEF vars, queueVars
<1> QED
  BY <1>1, <1>2, <1>3, <1>4, <1>5, <1>6 DEF Next

\* On one core the invariant of the uplink queue holds.
THEOREM UplinkInvariant ==
  ASSUME ~TwoCores
  PROVE  Spec => []UplinkInv
<1>1. UplinkInv /\ [Next]_vars => UplinkInv'
  BY UplinkStep
<1> QED
  BY <1>1, UplinkInitInv, PTL DEF Spec

\* TXOTAConnector, whose threads share one core: messages arrive whole, in the
\* order of their acceptance and at most once, and none gets lost but by a clearing
\* of the queue during a transfer.
THEOREM QueueDelivers ==
  ASSUME ~TwoCores
  PROVE  Spec => []Delivers
<1>1. UplinkInv => Delivers
  BY DEF UplinkInv, Delivers, ArrivesAsSent, LostOnlyToClearing, Order, ArrivedOrder,
         Whole, WholeOnes
<1> QED
  BY <1>1, UplinkInvariant, PTL

-------------------------------------------------------------------------------
(* The serial queue.                                                       *)

Bytes == [v : Nat, of : Frames, at : Nat]

\* At i a frame begins: it is all there, and so is the next one's first byte.
FrameAt(q, i) ==
  LET f == q[i].of IN
    /\ q[i] = Q!Header(f)
    /\ i + FrameLen[f] <= Len(q)
    /\ \A p \in 1 .. FrameLen[f] : q[i + p] = Q!Body(f)[p]
    /\ i + FrameLen[f] < Len(q) => q[i + FrameLen[f] + 1].at = 0

Framed(q) ==
  /\ q \in Seq(Bytes) /\ Len(q) <= QueueSize
  /\ q # <<>> => q[1].at = 0
  /\ \A i \in 1 .. Len(q) : q[i].at = 0 => FrameAt(q, i)

SerialInv ==
  /\ coming \in Frames /\ needed \in Nat
  /\ ~overfull => Framed(waiting)
  /\ WholeFrames

\* What a frame is made of.
LEMMA FrameFacts ==
  ASSUME NEW f \in Frames
  PROVE  /\ FrameLen[f] \in Nat \ {0} /\ QueueSize \in Nat
         /\ Q!Header(f) \in Bytes /\ Q!Header(f).at = 0
         /\ Q!Header(f).of = f /\ Q!Header(f).v = FrameLen[f]
         /\ Q!Body(f) \in Seq(Bytes) /\ Len(Q!Body(f)) = FrameLen[f]
         /\ \A p \in 1 .. FrameLen[f] : Q!Body(f)[p].at = p
<1>1. FrameLen[f] \in Nat \ {0} /\ SyncByte \in Nat /\ QueueSize \in Nat
  BY SharedAssumption DEF Q!SerialAssumption
<1>2. \A p \in 1 .. FrameLen[f] :
        Q!Body(f)[p] = [v |-> IF p = 1 THEN SyncByte ELSE p, of |-> f, at |-> p]
  BY DEF Q!Body, Q!Byte
<1>3. \A p \in 1 .. FrameLen[f] : Q!Body(f)[p] \in Bytes /\ Q!Body(f)[p].at = p
  <2> SUFFICES ASSUME NEW p \in 1 .. FrameLen[f]
               PROVE  Q!Body(f)[p] \in Bytes /\ Q!Body(f)[p].at = p
    OBVIOUS
  <2> DEFINE x == IF p = 1 THEN SyncByte ELSE p
  <2>1. x \in Nat /\ p \in Nat
    BY <1>1
  <2>2. Q!Body(f)[p] = [v |-> x, of |-> f, at |-> p]
    BY <1>2
  <2> HIDE DEF x
  <2> QED
    BY <2>1, <2>2 DEF Bytes
<1>4. Q!Body(f) \in [1 .. FrameLen[f] -> Bytes]
  BY <1>3 DEF Q!Body
<1>5. Q!Body(f) \in Seq(Bytes) /\ Len(Q!Body(f)) = FrameLen[f]
  <2> DEFINE b == Q!Body(f)
  <2>1. b \in [1 .. FrameLen[f] -> Bytes]
    BY <1>4
  <2> HIDE DEF b
  <2>2. b \in Seq(Bytes)
    BY <1>1, <2>1
  <2>3. Len(b) = FrameLen[f]
    BY <1>1, <2>1, <2>2, LenProperties
  <2> QED
    BY <2>2, <2>3 DEF b
<1> QED
  BY <1>1, <1>3, <1>5 DEF Q!Header, Q!Byte, Bytes

\* A frame put behind others, all whole.
LEMMA PutFrame ==
  ASSUME NEW q, Framed(q), NEW f \in Frames, NEW w,
         w = (q \o <<Q!Header(f)>>) \o Q!Body(f), Len(q) + 1 + FrameLen[f] <= QueueSize
  PROVE  Framed(w)
<1> DEFINE h == Q!Header(f)
           b == Q!Body(f)
           n == Len(q)
<1>1. /\ FrameLen[f] \in Nat \ {0} /\ QueueSize \in Nat
      /\ h \in Bytes /\ h.at = 0 /\ h.of = f
      /\ b \in Seq(Bytes) /\ Len(b) = FrameLen[f]
      /\ \A p \in 1 .. FrameLen[f] : b[p].at = p
  BY FrameFacts
<1>2. q \in Seq(Bytes) /\ n \in Nat
  BY LenProperties DEF Framed
<1>3. w = (q \o <<h>>) \o b
  OBVIOUS
<1> HIDE DEF h, b
<1>4. /\ q \o <<h>> \in Seq(Bytes) /\ Len(q \o <<h>>) = n + 1
      /\ \A i \in 1 .. n : (q \o <<h>>)[i] = q[i]
      /\ (q \o <<h>>)[n + 1] = h
  <2>1. <<h>> \in Seq(Bytes) /\ Len(<<h>>) = 1 /\ <<h>>[1] = h
    BY <1>1
  <2> QED
    BY <1>2, <2>1, ConcatProperties
<1>5. /\ w \in Seq(Bytes) /\ Len(w) = n + 1 + FrameLen[f]
      /\ \A i \in 1 .. n + 1 : w[i] = (q \o <<h>>)[i]
      /\ \A i \in n + 2 .. n + 1 + FrameLen[f] : w[i] = b[i - (n + 1)]
  <2> DEFINE r == q \o <<h>>
  <2>1. r \in Seq(Bytes) /\ Len(r) = n + 1 /\ w = r \o b
    BY <1>3, <1>4
  <2> HIDE DEF r
  <2>2. /\ w \in Seq(Bytes) /\ Len(w) = Len(r) + Len(b)
        /\ \A i \in 1 .. Len(r) + Len(b) :
             w[i] = IF i <= Len(r) THEN r[i] ELSE b[i - Len(r)]
    <3>1. b \in Seq(Bytes) /\ r \in Seq(Bytes)
      BY <1>1, <2>1
    <3>2. /\ r \o b \in Seq(Bytes) /\ Len(r \o b) = Len(r) + Len(b)
          /\ \A i \in 1 .. Len(r) + Len(b) :
               (r \o b)[i] = IF i <= Len(r) THEN r[i] ELSE b[i - Len(r)]
      BY <3>1, ConcatProperties
    <3> QED
      BY <2>1, <3>2
  <2>3. Len(r) = n + 1 /\ Len(b) = FrameLen[f] /\ n \in Nat /\ FrameLen[f] \in Nat
    BY <1>1, <1>2, <2>1
  <2>4. \A i \in 1 .. n + 1 : w[i] = r[i]
    BY <2>2, <2>3
  <2>5. \A i \in n + 2 .. n + 1 + FrameLen[f] : w[i] = b[i - (n + 1)]
    BY <2>2, <2>3
  <2> QED
    BY <2>2, <2>3, <2>4, <2>5 DEF r
<1> HIDE DEF n
<1>6. /\ \A i \in 1 .. n : w[i] = q[i]
      /\ w[n + 1] = h
      /\ \A p \in 1 .. FrameLen[f] : w[n + 1 + p] = b[p]
  <2>1. \A i \in 1 .. n : i \in 1 .. n + 1
    BY <1>2
  <2>2. n + 1 \in 1 .. n + 1
    BY <1>2
  <2>3. \A p \in 1 .. FrameLen[f] :
          n + 1 + p \in n + 2 .. n + 1 + FrameLen[f] /\ (n + 1 + p) - (n + 1) = p
    BY <1>1, <1>2
  <2>4. \A p \in 1 .. FrameLen[f] : w[n + 1 + p] = b[p]
    BY <1>5, <2>3
  <2> QED
    BY <1>4, <1>5, <2>1, <2>2, <2>4
<1>7. w[1].at = 0
  <2>1. CASE n = 0
    BY <1>1, <1>6, <2>1
  <2>2. CASE n # 0
    BY <1>2, <1>6, <2>2, EmptySeq DEF Framed, n
  <2> QED
    BY <2>1, <2>2
<1>8. ASSUME NEW i \in 1 .. Len(w), w[i].at = 0
      PROVE  FrameAt(w, i)
  <2>1. i \in 1 .. n \/ i = n + 1
    <3> SUFFICES ASSUME i \in n + 2 .. n + 1 + FrameLen[f]
                 PROVE  FALSE
      BY <1>1, <1>2, <1>5
    <3>1. i - (n + 1) \in 1 .. FrameLen[f] /\ i = n + 1 + (i - (n + 1))
      BY <1>1, <1>2
    <3>2. PICK p \in 1 .. FrameLen[f] : i = n + 1 + p
      BY <3>1
    <3>3. w[i] = b[p]
      BY <1>6, <3>2, SMTT(40)
    <3> QED
      BY <1>1, <1>8, <3>3, SMTT(40)
  <2>2. CASE i \in 1 .. n
    <3> DEFINE g == q[i].of
    <3>1. FrameAt(q, i) /\ w[i] = q[i]
      BY <1>6, <1>8, <2>2 DEF Framed, n
    <3>2. g \in Frames
      <4>1. q[i] \in Bytes
        BY <1>2, <2>2, ElementOfSeq DEF n
      <4> QED
        BY <4>1 DEF Bytes
    <3>3. FrameLen[g] \in Nat
      BY <3>2, FrameFacts
    <3>4. i + FrameLen[g] <= n /\ n < Len(w)
      BY <1>1, <1>2, <1>5, <3>1 DEF FrameAt, n
    <3>5. ASSUME NEW p \in 1 .. FrameLen[g]
          PROVE  w[i + p] = Q!Body(g)[p]
      <4>1. i + p \in 1 .. n
        BY <1>2, <2>2, <3>3, <3>4
      <4> QED
        BY <1>6, <3>1, <4>1 DEF FrameAt
    <3>6. w[i + FrameLen[g] + 1].at = 0
      <4>3. i + FrameLen[g] = n \/ i + FrameLen[g] < n
        <5>1. i + FrameLen[g] \in Int /\ n \in Int
          BY <1>2, <2>2, <3>3
        <5>2. \A x, y \in Int : x <= y => x = y \/ x < y
          OBVIOUS
        <5> QED
          BY <3>4, <5>1, <5>2, Zenon
      <4>1. CASE i + FrameLen[g] = n
        BY <1>1, <1>6, <4>1
      <4>2. CASE i + FrameLen[g] < n
        <5>1. i + FrameLen[g] + 1 \in 1 .. n
          BY <1>2, <2>2, <3>3, <4>2
        <5> QED
          BY <1>6, <3>1, <4>2, <5>1 DEF FrameAt, n
      <4> QED
        BY <3>4, <4>1, <4>2, <4>3
    <3>7. i + FrameLen[g] <= Len(w)
      BY <1>1, <1>2, <1>5, <2>2, <3>3, <3>4
    <3> QED
      BY <3>1, <3>5, <3>6, <3>7 DEF FrameAt
  <2>3. CASE i = n + 1
    <3>1. w[i] = h /\ w[i].of = f /\ i + FrameLen[f] = Len(w)
      BY <1>1, <1>2, <1>5, <1>6, <2>3
    <3>2. \A p \in 1 .. FrameLen[f] : w[i + p] = b[p]
      BY <1>6, <2>3
    <3>3. i + FrameLen[f] \in Nat
      BY <1>1, <1>2, <2>3
    <3>4. i + FrameLen[f] <= Len(w) /\ ~(i + FrameLen[f] < Len(w))
      BY <3>1, <3>3
    <3> QED
      BY <3>1, <3>2, <3>4 DEF FrameAt, h, b
  <2> QED
    BY <2>1, <2>2, <2>3
<1> QED
  BY <1>1, <1>2, <1>5, <1>7, <1>8 DEF Framed, n

\* The frame at the head taken out by its length, all whole.
LEMMA TakeFrame ==
  ASSUME NEW q, Framed(q), q # <<>>
  PROVE  \E f \in Frames :
           /\ Q!PeekOf(q) = FrameLen[f]
           /\ SubSeq(q, 2, FrameLen[f] + 1) = Q!Body(f)
           /\ Framed(SubSeq(q, FrameLen[f] + 2, Len(q)))
<1> DEFINE f == q[1].of
           n == Len(q)
           k == FrameLen[f] + 1
           r == SubSeq(q, k + 1, n)
<1>1. q \in Seq(Bytes) /\ n \in Nat \ {0} /\ n <= QueueSize /\ QueueSize \in Nat
  BY EmptySeq, SharedAssumption DEF Framed, Q!SerialAssumption
<1>2. FrameAt(q, 1)
  BY <1>1 DEF Framed
<1>3. f \in Frames
  <2>1. q[1] \in Bytes
    BY <1>1, ElementOfSeq
  <2> QED
    BY <2>1 DEF Bytes
<1>4. /\ FrameLen[f] \in Nat \ {0}
      /\ Q!Body(f) \in Seq(Bytes) /\ Len(Q!Body(f)) = FrameLen[f]
      /\ Q!Header(f).v = FrameLen[f]
  BY <1>3, FrameFacts
<1>5. /\ q[1] = Q!Header(f) /\ 1 + FrameLen[f] <= n
      /\ \A p \in 1 .. FrameLen[f] : q[1 + p] = Q!Body(f)[p]
      /\ 1 + FrameLen[f] < n => q[1 + FrameLen[f] + 1].at = 0
  BY <1>2 DEF FrameAt
<1>6. Q!PeekOf(q) = FrameLen[f]
  <2>1. Head(q) = q[1]
    BY <1>1, HeadTailProperties
  <2> QED
    BY <1>4, <1>5, <2>1 DEF Q!PeekOf
<1> HIDE DEF f, n
<1>7. SubSeq(q, 2, k) = Q!Body(f)
  <2> DEFINE s == SubSeq(q, 2, k)
             b == Q!Body(f)
  <2>1. 2 \in 1 .. n + 1 /\ k \in 1 .. n /\ 2 \in 1 .. n /\ 2 <= k
    BY <1>1, <1>4, <1>5
  <2>2. /\ s \in Seq(Bytes) /\ Len(s) = k - 1
        /\ \A i \in 1 .. k - 1 : s[i] = q[2 + i - 1]
    <3>1. \A i \in 2 .. k : q[i] \in Bytes
      BY <1>1, <2>1, ElementOfSeq DEF n
    <3>2. 2 \in Int /\ k \in Int /\ k - 2 + 1 = k - 1
      BY <2>1, <1>1
    <3> QED
      BY <2>1, <3>1, <3>2, SubSeqProperties
  <2>3. k - 1 = FrameLen[f] /\ \A i \in 1 .. FrameLen[f] : 2 + i - 1 = 1 + i
    BY <1>4
  <2>4. \A i \in 1 .. FrameLen[f] : s[i] = b[i]
    BY <1>5, <2>2, <2>3
  <2>5. b \in Seq(Bytes) /\ Len(b) = FrameLen[f] /\ s \in Seq(Bytes) /\ Len(s) = FrameLen[f]
    BY <1>4, <2>2, <2>3
  <2> HIDE DEF s, b
  <2>6. s = b
    BY <2>4, <2>5, SeqEqual
  <2> QED
    BY <2>6 DEF s, b
<1>8. /\ r \in Seq(Bytes) /\ Len(r) = n - k /\ Len(r) \in Nat
      /\ \A i \in 1 .. n - k : r[i] = q[k + i]
  <2>1. k + 1 \in 1 .. n + 1 /\ n \in k .. n /\ k \in Nat
    BY <1>1, <1>4, <1>5
  <2>2. /\ r \in Seq(Bytes) /\ Len(r) = n - (k + 1) + 1
        /\ \A i \in 1 .. n - (k + 1) + 1 : r[i] = q[(k + 1) + i - 1]
    <3>1. \A i \in k + 1 .. n : q[i] \in Bytes
      BY <1>1, <2>1, ElementOfSeq DEF n
    <3>2. /\ r \in Seq(Bytes)
          /\ Len(r) = IF k + 1 <= n THEN n - (k + 1) + 1 ELSE 0
          /\ \A i \in 1 .. n - (k + 1) + 1 : r[i] = q[(k + 1) + i - 1]
      <4>1. k + 1 \in Int /\ n \in Int
        BY <1>1, <2>1
      <4> HIDE DEF k
      <4> QED
        BY <3>1, <4>1, SubSeqProperties
    <3>3. ~(k + 1 <= n) => n - (k + 1) + 1 = 0
      BY <1>1, <2>1
    <3> QED
      BY <3>2, <3>3
  <2>3. /\ n - (k + 1) + 1 = n - k /\ n - k \in Nat
        /\ \A i \in 1 .. n - k : (k + 1) + i - 1 = k + i
    BY <1>1, <2>1
  <2> HIDE DEF r, k
  <2> QED
    BY <2>2, <2>3
<1>9. k \in Nat /\ k <= n
  BY <1>1, <1>4, <1>5
<1>10. k + 1 = 1 + FrameLen[f] + 1 /\ k = 1 + FrameLen[f] /\ k + 1 = FrameLen[f] + 2
  BY <1>4
<1> HIDE DEF r, k
<1>11. r # <<>> => r[1].at = 0
  <2> SUFFICES ASSUME r # <<>>
               PROVE  r[1].at = 0
    OBVIOUS
  <2>1. k < n /\ 1 \in 1 .. n - k
    BY <1>1, <1>8, <1>9, EmptySeq
  <2> QED
    BY <1>5, <1>8, <1>10, <2>1
<1>12. ASSUME NEW i \in 1 .. Len(r), r[i].at = 0
       PROVE  FrameAt(r, i)
  <2> DEFINE g == r[i].of
  <2>1. k + i \in 1 .. n /\ r[i] = q[k + i]
    BY <1>1, <1>8, <1>9
  <2>2. FrameAt(q, k + i)
    BY <1>12, <2>1 DEF Framed, n
  <2>3. g \in Frames
    <3>1. r[i] \in Bytes
      BY <1>8, ElementOfSeq
    <3> QED
      BY <3>1 DEF Bytes
  <2>4. FrameLen[g] \in Nat
    BY <2>3, FrameFacts
  <2>5. /\ r[i] = Q!Header(g) /\ k + i + FrameLen[g] <= n
        /\ \A p \in 1 .. FrameLen[g] : q[k + i + p] = Q!Body(g)[p]
        /\ k + i + FrameLen[g] < n => q[k + i + FrameLen[g] + 1].at = 0
    BY <2>1, <2>2 DEF FrameAt, n
  <2> HIDE DEF g
  <2>6. i + FrameLen[g] <= Len(r)
    BY <1>1, <1>8, <1>9, <2>4, <2>5
  <2>7. ASSUME NEW p \in 1 .. FrameLen[g]
        PROVE  r[i + p] = Q!Body(g)[p]
    <3>1. i + p \in 1 .. n - k /\ k + (i + p) = k + i + p
      BY <1>1, <1>8, <1>9, <2>4, <2>6
    <3> QED
      BY <1>8, <2>5, <3>1
  <2>8. ASSUME i + FrameLen[g] < Len(r)
        PROVE  r[i + FrameLen[g] + 1].at = 0
    <3>0. i \in Nat /\ n \in Nat /\ k \in Nat /\ i + FrameLen[g] < n - k
      BY <1>1, <1>8, <1>9, <2>8
    <3>1. /\ i + FrameLen[g] + 1 \in 1 .. n - k
          /\ k + (i + FrameLen[g] + 1) = k + i + FrameLen[g] + 1
          /\ k + i + FrameLen[g] < n
      BY <2>4, <3>0
    <3> QED
      BY <1>8, <2>5, <3>1
  <2> QED
    BY <2>5, <2>6, <2>7, <2>8 DEF FrameAt, g
<1>13. Framed(r)
  BY <1>1, <1>8, <1>9, <1>11, <1>12 DEF Framed
<1> QED
  BY <1>3, <1>6, <1>7, <1>10, <1>13 DEF r, k, n, f

\* The FIFO has room: a frame is put into it with its length, or all is flushed.
LEMMA QueuedFramed ==
  ASSUME NEW f \in Frames, Framed(waiting), Len(waiting) < QueueSize
  PROVE  Framed(Q!Queued(f))
<1> DEFINE h == <<Q!Header(f)>>
           b == Q!Body(f)
<1>1. waiting \in Seq(Bytes) /\ Len(waiting) \in Nat /\ QueueSize \in Nat
  BY LenProperties, SharedAssumption DEF Framed, Q!SerialAssumption
<1>2. h \in Seq(Bytes) /\ Len(h) = 1 /\ b \in Seq(Bytes) /\ Len(b) = FrameLen[f]
  BY FrameFacts
<1>3. waiting \o h \in Seq(Bytes) /\ Len(waiting \o h) = Len(waiting) + 1
  <2>1. waiting \in Seq(Bytes) /\ h \in Seq(Bytes) /\ Len(h) = 1
    BY <1>1, <1>2
  <2> HIDE DEF h
  <2>2. waiting \o h \in Seq(Bytes) /\ Len(waiting \o h) = Len(waiting) + Len(h)
    BY <2>1, ConcatProperties, Zenon
  <2> QED
    BY <2>1, <2>2
<1>4. Q!Pushed(waiting, h) = waiting \o h
  BY <1>1, <1>2 DEF Q!Pushed
<1>5. Q!Queued(f) = IF Len(waiting) + 1 + FrameLen[f] <= QueueSize
                    THEN (waiting \o h) \o b ELSE <<>>
  <2> HIDE DEF h, b
  <2>1. Q!Pushed(waiting \o h, b) = IF Len(waiting) + 1 + FrameLen[f] <= QueueSize
                                    THEN (waiting \o h) \o b ELSE <<>>
    BY <1>2, <1>3 DEF Q!Pushed
  <2> QED
    BY <1>4, <2>1 DEF Q!Queued, h, b
<1>6. Framed(<<>>)
  BY <1>1 DEF Framed
<1> QED
  BY <1>5, <1>6, PutFrame

\* At power on the FIFO is empty.
LEMMA SerialInitInv == Q!Init => SerialInv
<1> SUFFICES ASSUME Q!Init
             PROVE  SerialInv
  OBVIOUS
<1>1. Framed(waiting)
  BY SharedAssumption DEF Q!Init, Framed, Q!SerialAssumption
<1> QED
  BY <1>1 DEF SerialInv, WholeFrames, Q!WholeFrames, Q!Init

\* No step of the serial queue breaks its invariant.
LEMMA SerialStep == SerialInv /\ [Q!Next]_(Q!vars) => SerialInv'
<1> SUFFICES ASSUME SerialInv, [Q!Next]_(Q!vars)
             PROVE  SerialInv'
  OBVIOUS
<1> USE DEF WholeFrames, Q!WholeFrames
<1>1. QueueSize \in Nat /\ \A f \in Frames : FrameLen[f] \in Nat
  BY SharedAssumption DEF Q!SerialAssumption
<1>2. ~overfull => Len(waiting) \in Nat /\ Len(waiting) <= QueueSize
  BY LenProperties DEF SerialInv, Framed
<1>3. ASSUME NEW f \in Frames, Q!ForwardMessage(f)
      PROVE  SerialInv'
  <2>1. ~overfull' => Framed(waiting')
    <3> SUFFICES ASSUME ~overfull'
                 PROVE  Framed(waiting')
      OBVIOUS
    <3>1. CASE waiting' = <<>>
      BY <1>1, <3>1 DEF Framed
    <3>2. CASE waiting' # <<>>
      <4>1. ~overfull /\ Len(waiting) # QueueSize /\ waiting' = Q!Queued(f)
        BY <1>3, <3>2 DEF Q!ForwardMessage
      <4>2. Len(waiting) < QueueSize
        BY <1>1, <1>2, <4>1
      <4> QED
        BY <4>1, <4>2, QueuedFramed DEF SerialInv
    <3> QED
      BY <3>1, <3>2
  <2>2. port' = <<>> /\ coming' = coming /\ needed' = needed
    BY <1>3 DEF Q!ForwardMessage
  <2> QED
    BY <2>1, <2>2 DEF SerialInv, Framed, FrameAt
<1>4. ASSUME NEW f \in Frames, Q!Ensure(f)
      PROVE  SerialInv'
  <2>1. /\ port' = <<>> /\ coming' = f /\ needed' = FrameLen[f] + 1
        /\ UNCHANGED <<waiting, overfull>>
    BY <1>4 DEF Q!Ensure, Q!RoomFor
  <2> QED
    BY <1>1, <2>1 DEF SerialInv, Framed, FrameAt
<1>5. CASE Q!DropOldest \/ Q!SendFrame
  <2>1. /\ UNCHANGED <<coming, overfull, needed>>
        /\ waiting' = SubSeq(waiting, Q!PeekOf(waiting) + 2, Len(waiting))
        /\ port' = port \/ port' = SubSeq(waiting, 2, Q!PeekOf(waiting) + 1)
    BY <1>5 DEF Q!DropOldest, Q!SendFrame
  <2>2. CASE ~overfull
    <3>1. waiting # <<>>
      <4> SUFFICES ASSUME waiting = <<>>
                   PROVE  FALSE
        OBVIOUS
      <4>1. Q!PeekOf(waiting) = 0 /\ Len(waiting) = 0
        BY DEF Q!PeekOf
      <4> QED
        BY <1>5, <4>1 DEF Q!DropOldest, Q!SendFrame, Q!MaySend
    <3>2. PICK f \in Frames :
            /\ Q!PeekOf(waiting) = FrameLen[f]
            /\ SubSeq(waiting, 2, FrameLen[f] + 1) = Q!Body(f)
            /\ Framed(SubSeq(waiting, FrameLen[f] + 2, Len(waiting)))
      BY <2>2, <3>1, TakeFrame DEF SerialInv
    <3>3. Framed(waiting')
      BY <2>1, <3>2
    <3>4. port' = port \/ port' = Q!Body(f)
      BY <2>1, <3>2
    <3>5. WholeFrames'
      BY <2>1, <2>2, <3>4 DEF SerialInv
    <3>6. Framed(waiting)'
      BY <3>3 DEF Framed, FrameAt
    <3> QED
      BY <2>1, <2>2, <3>5, <3>6 DEF SerialInv
  <2>3. CASE overfull
    BY <2>1, <2>3 DEF SerialInv
  <2> QED
    BY <2>2, <2>3
<1>6. CASE Q!QueueFrame
  <2>1. /\ UNCHANGED <<coming, port>> /\ needed' = 0 /\ waiting' = Q!Queued(coming)
        /\ Len(waiting) + needed < QueueSize
        /\ ~overfull' => ~overfull
    BY <1>6 DEF Q!QueueFrame, Q!Available
  <2>2. ~overfull' => Framed(waiting')
    <3> SUFFICES ASSUME ~overfull'
                 PROVE  Framed(waiting')
      OBVIOUS
    <3>1. Len(waiting) < QueueSize
      BY <1>1, <1>2, <2>1 DEF SerialInv
    <3> QED
      BY <2>1, <3>1, QueuedFramed DEF SerialInv
  <2>3. WholeFrames'
    BY <2>1 DEF SerialInv
  <2>4. ~overfull' => Framed(waiting)'
    BY <2>2 DEF Framed, FrameAt
  <2>5. coming' \in Frames /\ needed' \in Nat
    BY <2>1 DEF SerialInv
  <2> HIDE DEF WholeFrames
  <2> QED
    BY <2>3, <2>4, <2>5 DEF SerialInv
<1>7. CASE Q!SendQueuedData \/ Q!SendDone
  <2>1. port' = <<>> /\ UNCHANGED <<coming, needed, waiting, overfull>>
    BY <1>7 DEF Q!SendQueuedData, Q!SendDone
  <2> QED
    BY <2>1 DEF SerialInv, Framed, FrameAt
<1>8. CASE UNCHANGED Q!vars
  <2>1. UNCHANGED <<coming, needed, waiting, overfull, port>>
    BY <1>8 DEF Q!vars
  <2>2. WholeFrames'
    BY <2>1 DEF SerialInv
  <2> HIDE DEF WholeFrames
  <2> QED
    BY <2>1, <2>2 DEF SerialInv, Framed, FrameAt
<1> QED
  BY <1>3, <1>4, <1>5, <1>6, <1>7, <1>8 DEF Q!Next

\* Unless it was overfull, the FIFO of the serial port is a sequence of whole frames.
THEOREM SerialInvariant == Q!Spec => []SerialInv
<1> QED
  BY SerialInitInv, SerialStep, PTL DEF Q!Spec

\* SerialIO, sendQueuedData and ensure: for frames and a FIFO of every size, what
\* goes out to the serial port is a whole frame as it was queued, unless a frame has
\* met a full FIFO since it was last in order.
THEOREM FramesLeaveWhole == Q!Spec => []WholeFrames
<1>1. SerialInv => WholeFrames
  BY DEF SerialInv
<1> QED
  BY <1>1, SerialInvariant, PTL

-------------------------------------------------------------------------------
(* The devices of two cores.                                               *)

Serving == {"update", "clear", "tell", "sleep"}
Stages ==
  {"init", "give_init", "wait_init", "start", "give_start", "wait_start", "await_init",
   "init_done", "await_start", "start_done", "delete"} \union Serving

\* How far each core is, for how far the other is, and who holds a semaphore.
Handshake ==
  /\ at[1] \in {"init", "give_init"} =>
       at[0] = "await_init" /\ ~semBegin /\ ~semComplete
  /\ at[1] = "wait_init" =>
       \/ at[0] = "await_init" /\ semBegin /\ ~semComplete
       \/ at[0] \in {"init", "init_done"} /\ ~semBegin /\ ~semComplete
       \/ at[0] = "await_start" /\ ~semBegin
  /\ at[1] \in {"start", "give_start"} =>
       at[0] = "await_start" /\ ~semBegin /\ ~semComplete
  /\ at[1] = "wait_start" =>
       \/ at[0] = "await_start" /\ semBegin /\ ~semComplete
       \/ at[0] \in {"start", "start_done"} /\ ~semBegin /\ ~semComplete
       \/ at[0] \in {"delete"} \union Serving
  /\ at[1] \in Serving => at[0] \in {"delete"} \union Serving
  /\ at[1] \in {"init", "give_init", "wait_init", "start", "give_start", "wait_start",
                "update", "clear", "tell"}
  /\ setUp => at[0] \in Serving

\* What each core has initialised and started by then.
BroughtUp ==
  /\ initialized \subseteq Devices /\ started \subseteq Devices
  /\ at[1] # "init" => D!DevicesOn(1) \subseteq initialized
  /\ at[0] \notin {"await_init", "init"} => D!DevicesOn(0) \subseteq initialized
  /\ at[1] \in {"init", "give_init", "wait_init", "start"} => started = {}
  /\ at[1] \in {"give_start", "wait_start"} \union Serving =>
       D!DevicesOn(1) \subseteq started
  /\ at[0] \in {"start_done", "delete"} \union Serving => D!DevicesOn(0) \subseteq started

DevicesInv ==
  at \in [D!Cores -> Stages] /\ semBegin \in BOOLEAN /\ Handshake /\ BroughtUp

\* Every device is on one of the two cores.
LEMMA OnSomeCore ==
  /\ D!DevicesOn(0) \union D!DevicesOn(1) = Devices
  /\ \A c \in D!Cores : D!DevicesOn(c) \subseteq Devices
BY SharedAssumption DEF D!DeviceAssumption, D!DevicesOn, D!Cores

\* Both cores at the beginning.
LEMMA DevicesInitInv == D!Init => DevicesInv
<1> SUFFICES ASSUME D!Init
             PROVE  DevicesInv
  OBVIOUS
<1>1. at \in [D!Cores -> Stages] /\ at[0] = "await_init" /\ at[1] = "init"
  BY DEF D!Init, D!Cores, Stages
<1> QED
  BY <1>1 DEF D!Init, DevicesInv, Handshake, BroughtUp, Serving

\* The other core does not move.
LEMMA GoMoves ==
  ASSUME NEW c \in D!Cores, NEW l \in Stages, at \in [D!Cores -> Stages], D!Go(c, l)
  PROVE  /\ at' \in [D!Cores -> Stages] /\ at'[c] = l
         /\ \A b \in D!Cores \ {c} : at'[b] = at[b]
BY DEF D!Go, D!Cores

\* No step of either core breaks the interlock.
LEMMA DevicesStep == DevicesInv /\ [D!Next]_(D!vars) => DevicesInv'
<1> SUFFICES ASSUME DevicesInv, [D!Next]_(D!vars)
             PROVE  DevicesInv'
  OBVIOUS
<1> USE DEF DevicesInv, Handshake, BroughtUp
<1>1. 0 \in D!Cores /\ 1 \in D!Cores
  BY DEF D!Cores
<1>2. ASSUME NEW c \in D!Cores, NEW next,
             \/ c = 1 /\ next = "give_init"
             \/ c = 0 /\ next = "init_done",
             D!InitDevices(c, next)
      PROVE  DevicesInv'
  <2>1. /\ next \in Stages /\ at[c] = "init" /\ D!Go(c, next)
        /\ initialized' = initialized \union D!DevicesOn(c)
        /\ UNCHANGED <<semBegin, semComplete, setUp, started>>
    BY <1>2 DEF D!InitDevices, D!Running, Stages
  <2> QED
    BY <1>1, <1>2, <2>1, GoMoves, OnSomeCore DEF Serving
<1>3. ASSUME NEW c \in D!Cores, NEW next,
             \/ c = 1 /\ next = "give_start"
             \/ c = 0 /\ next = "start_done",
             D!StartDevices(c, next)
      PROVE  DevicesInv'
  <2>1. /\ next \in Stages /\ at[c] = "start" /\ D!Go(c, next)
        /\ started' = started \union D!DevicesOn(c)
        /\ UNCHANGED <<semBegin, semComplete, setUp, initialized>>
    BY <1>3 DEF D!StartDevices, D!Running, Stages
  <2> QED
    BY <1>1, <1>3, <2>1, GoMoves, OnSomeCore DEF Serving
<1>4. ASSUME NEW from, NEW next,
             \/ from = "give_init" /\ next = "wait_init"
             \/ from = "give_start" /\ next = "wait_start",
             D!GiveBegin(from, next)
      PROVE  DevicesInv'
  <2>1. /\ next \in Stages /\ at[1] = from /\ D!Go(1, next) /\ semBegin' = TRUE
        /\ UNCHANGED <<semComplete, setUp, initialized, started>>
    BY <1>4 DEF D!GiveBegin, D!Running, D!startVars, Stages
  <2> QED
    BY <1>1, <1>4, <2>1, GoMoves DEF Serving
<1>5. ASSUME NEW from, NEW next,
             \/ from = "wait_init" /\ next = "start"
             \/ from = "wait_start" /\ next = "update",
             D!TakeComplete(from, next)
      PROVE  DevicesInv'
  <2>1. /\ next \in Stages /\ at[1] = from /\ D!Go(1, next)
        /\ semComplete /\ semComplete' = FALSE
        /\ UNCHANGED <<semBegin, setUp, initialized, started>>
    BY <1>5 DEF D!TakeComplete, D!Running, Stages, Serving
  <2> QED
    BY <1>1, <1>5, <2>1, GoMoves DEF Serving
<1>6. ASSUME NEW from, NEW next,
             \/ from = "await_init" /\ next = "init"
             \/ from = "await_start" /\ next = "start"
             \/ from = "sleep" /\ next = "update",
             D!TakeBegin(from, next)
      PROVE  DevicesInv'
  <2>1. /\ next \in Stages /\ at[0] = from /\ D!Go(0, next)
        /\ semBegin /\ semBegin' = FALSE
        /\ UNCHANGED <<semComplete, setUp, initialized, started>>
    BY <1>6 DEF D!TakeBegin, D!Running, D!startVars, Stages, Serving
  <2> QED
    BY <1>1, <1>6, <2>1, GoMoves DEF Serving
<1>7. ASSUME NEW from, NEW next,
             \/ from = "init_done" /\ next = "await_start"
             \/ from = "start_done" /\ next = "delete",
             D!GiveComplete(from, next)
      PROVE  DevicesInv'
  <2>1. /\ next \in Stages /\ at[0] = from /\ D!Go(0, next) /\ semComplete' = TRUE
        /\ UNCHANGED <<semBegin, setUp, initialized, started>>
    BY <1>7 DEF D!GiveComplete, D!Running, Stages
  <2> QED
    BY <1>1, <1>7, <2>1, GoMoves DEF Serving
<1>8. CASE D!DeleteComplete
  <2>1. /\ "update" \in Stages /\ at[0] = "delete" /\ D!Go(0, "update")
        /\ UNCHANGED <<semBegin, semComplete, initialized, started>>
    BY <1>8 DEF D!DeleteComplete, D!Running, Stages, Serving
  <2> QED
    BY <1>1, <2>1, GoMoves DEF Serving
<1>9. ASSUME NEW c \in D!Cores, NEW from \in Serving, NEW next \in Serving,
             next = "sleep" => c = 0,
             at[c] = from, D!Go(c, next),
             UNCHANGED <<semBegin, semComplete, setUp, initialized, started>>
      PROVE  DevicesInv'
  <2>1. next \in Stages
    BY DEF Stages
  <2> QED
    BY <1>1, <1>9, <2>1, GoMoves DEF Serving, D!Cores
<1>10. ASSUME NEW c \in D!Cores, D!ReadEvents(c) \/ D!ClearEvents(c) \/ D!Told(c)
       PROVE  DevicesInv'
  BY <1>9, <1>10 DEF D!ReadEvents, D!ClearEvents, D!Told, D!Running, D!startVars, Serving
<1>11. CASE D!TimeoutExpires
  BY <1>1, <1>9, <1>11 DEF D!TimeoutExpires, D!Running, D!startVars, Serving
<1>12. ASSUME UNCHANGED <<at, semComplete, setUp, initialized, started>>,
              semBegin' \in BOOLEAN, setUp \/ semBegin' = semBegin
       PROVE  DevicesInv'
  BY <1>12 DEF Serving
<1>13. ASSUME NEW c \in D!Cores,
              \/ D!TriggerStep(c) \/ \E e \in Events : D!Trigger(c, {e})
              \/ \E d \in Devices : D!Tell(c, d)
       PROVE  DevicesInv'
  <2>1. /\ UNCHANGED <<at, semComplete, setUp, initialized, started>>
        /\ semBegin' = semBegin \/ semBegin' = (semBegin \/ setUp)
    BY <1>13
    DEF D!TriggerStep, D!Load, D!Store, D!GiveIfSetUp, D!Trigger, D!Tell, D!startVars
  <2>2. semBegin \in BOOLEAN
    OBVIOUS
  <2>3. semBegin' \in BOOLEAN
    BY <2>1, <2>2, Zenon
  <2>4. setUp \/ semBegin' = semBegin
    BY <2>1, <2>2, Zenon
  <2> QED
    BY <1>12, <2>1, <2>3, <2>4
<1>14. CASE UNCHANGED D!vars
  <2>1. UNCHANGED <<at, semBegin, semComplete, setUp, initialized, started>>
    BY <1>14 DEF D!vars, D!startVars
  <2> QED
    BY <1>12, <2>1
<1>15. CASE D!Startup
  BY <1>1, <1>2, <1>3, <1>4, <1>5, <1>6, <1>7, <1>8, <1>15 DEF D!Startup
<1>16. CASE D!WakeUp
  BY <1>6, <1>16 DEF D!WakeUp
<1> QED
  BY <1>10, <1>11, <1>13, <1>14, <1>15, <1>16 DEF D!Next, D!Update

\* The interlock of the two cores, whichever devices each of them serves.
THEOREM DevicesInvariant == D!Spec => []DevicesInv
<1> QED
  BY DevicesInitInv, DevicesStep, PTL DEF D!Spec

\* devicesInit, devicesStart and deviceTask: no device is started before each is
\* initialised, none is told of an event before each is started; this rests on
\* neither core's being through with a semaphore in time.
THEOREM StartsInOrder == D!Spec => []InOrder
<1>1. DevicesInv => InOrder
  BY OnSomeCore DEF DevicesInv, Handshake, BroughtUp, Serving, InOrder, D!InOrder
<1> QED
  BY <1>1, DevicesInvariant, PTL

-------------------------------------------------------------------------------
(* The output power.                                                       *)

Configuration == [power : Nat, dynamic : BOOLEAN]

PowerTyped ==
  /\ power \in MinPower .. MaxPower
  /\ config \in Configuration
  /\ start \in Nat /\ headroom \in Nat

\* What an update that nobody meddles with may rely on: the levels it may still add
\* do not lead beyond the configured one.
Room ==
  /\ powerAt \in {"adjust", "raise"} /\ headroom > 0 => power + headroom <= config.power
  /\ powerAt = "adjust" => start = power
  /\ powerAt = "check" /\ headroom > 0 /\ start = power => power < config.power
  /\ powerAt = "last" => power < config.power

PowerInv ==
  /\ PowerTyped
  /\ powerAt = "adjust" => taken = "fresh"
  /\ ~meddled => Room

\* The level that a configuration asks for.
LevelOf(c) == P!Limited(P!Clamp(c.power))

\* The greater and the lesser of two.
LEMMA PowerExtremes ==
  ASSUME NEW a \in Nat, NEW b \in Nat
  PROVE  /\ P!Max({a, b}) \in {a, b} /\ P!Max({a, b}) >= a /\ P!Max({a, b}) >= b
         /\ P!Min({a, b}) \in {a, b} /\ P!Min({a, b}) <= a /\ P!Min({a, b}) <= b
<1>1. \E x \in {a, b} : \A y \in {a, b} : x >= y
  BY SMT
<1>2. \E x \in {a, b} : \A y \in {a, b} : x =< y
  BY SMT
<1>3. P!Max({a, b}) \in {a, b} /\ \A y \in {a, b} : P!Max({a, b}) >= y
  BY <1>1, Zenon DEF P!Max
<1>4. P!Min({a, b}) \in {a, b} /\ \A y \in {a, b} : P!Min({a, b}) =< y
  BY <1>2, Zenon DEF P!Min
<1> QED
  BY <1>3, <1>4

\* constrain() to what the hardware can do.
LEMMA ClampFacts ==
  ASSUME P!PowerAssumption, NEW p \in Nat
  PROVE  /\ P!Clamp(p) \in MinPower .. MaxPower
         /\ p < MinPower => P!Clamp(p) = MinPower
         /\ p > MaxPower => P!Clamp(p) = MaxPower
         /\ p \in MinPower .. MaxPower => P!Clamp(p) = p
<1> DEFINE m == P!Min({p, MaxPower})
<1>1. MinPower \in Nat /\ MaxPower \in Nat /\ MinPower <= MaxPower
  BY DEF P!PowerAssumption
<1>2. m \in {p, MaxPower} /\ m <= p /\ m <= MaxPower
  BY <1>1, PowerExtremes
<1> HIDE DEF m
<1>3. m \in Nat
  BY <1>1, <1>2
<1>4. /\ P!Max({MinPower, m}) \in {MinPower, m}
      /\ P!Max({MinPower, m}) >= MinPower /\ P!Max({MinPower, m}) >= m
  BY <1>1, <1>3, PowerExtremes
<1>5. P!Clamp(p) = P!Max({MinPower, m})
  BY DEF P!Clamp, m
<1> QED
  BY <1>1, <1>2, <1>3, <1>4, <1>5

\* The limit of the band keeps to the hardware's range, to the order of the levels,
\* and raises none.
LEMMA LimitedFacts ==
  ASSUME P!PowerAssumption, NEW p \in MinPower .. MaxPower
  PROVE  /\ P!Limited(p) \in MinPower .. MaxPower /\ P!Limited(p) <= p
         /\ \A q \in MinPower .. MaxPower : q <= p => P!Limited(q) <= P!Limited(p)
         /\ P!Limited(p) < p => \A q \in MinPower .. MaxPower : p <= q => P!Limited(q) = P!Limited(p)
<1> DEFINE most == P!Max({MinPower, PrimaryLimit})
<1>1. /\ MinPower \in Nat /\ MaxPower \in Nat /\ MinPower <= MaxPower
      /\ PrimaryLimit \in Nat
  BY DEF P!PowerAssumption
<1>2. most \in {MinPower, PrimaryLimit} /\ most >= MinPower /\ most >= PrimaryLimit
  BY <1>1, PowerExtremes
<1>3. \A q : P!Limited(q) = IF primaryBand /\ q > PrimaryLimit THEN most ELSE q
  BY DEF P!Limited
<1> HIDE DEF most
<1>4. CASE primaryBand
  BY <1>1, <1>2, <1>3, <1>4
<1>5. CASE ~primaryBand
  BY <1>1, <1>3, <1>5
<1> QED
  BY <1>4, <1>5

\* The level of a configuration: one that asks for more gets no less.
LEMMA LevelFacts ==
  ASSUME P!PowerAssumption, NEW c \in Configuration
  PROVE  /\ LevelOf(c) \in MinPower .. MaxPower
         /\ \A q \in MinPower .. MaxPower : q <= c.power => P!Limited(q) <= LevelOf(c)
         /\ \A q \in MinPower .. MaxPower :
              q <= c.power /\ P!Limited(q) < q => P!Limited(q) = LevelOf(c)
<1>1. MinPower \in Nat /\ MaxPower \in Nat /\ MinPower <= MaxPower /\ c.power \in Nat
  BY DEF P!PowerAssumption, Configuration
<1>2. /\ P!Clamp(c.power) \in MinPower .. MaxPower
      /\ \A q \in MinPower .. MaxPower : q <= c.power => q <= P!Clamp(c.power)
  BY <1>1, ClampFacts
<1> QED
  BY <1>1, <1>2, LimitedFacts DEF LevelOf

\* setPower: the power stays, or is what was asked for as far as hardware and band
\* allow.
LEMMA SetFacts ==
  ASSUME P!PowerAssumption, PowerTyped, NEW p \in Nat
  PROVE  /\ P!Set(p) \in MinPower .. MaxPower
         /\ P!Set(p) \in {power, P!Limited(P!Clamp(p))}
<1>1. P!Limited(P!Clamp(p)) \in MinPower .. MaxPower
  BY ClampFacts, LimitedFacts
<1> QED
  BY <1>1 DEF P!Set, PowerTyped

\* incPower: at most one level up; not beyond the configured one, and if it is down,
\* to that one.
LEMMA UpFacts ==
  ASSUME P!PowerAssumption, PowerTyped
  PROVE  /\ P!Up \in MinPower .. MaxPower /\ P!Up <= power + 1
         /\ power < config.power /\ P!Up > power => P!Up <= LevelOf(config)
         /\ power < config.power /\ P!Up < power => P!Up = LevelOf(config)
<1>1. /\ MinPower \in Nat /\ MaxPower \in Nat /\ power \in MinPower .. MaxPower
      /\ power \in Nat /\ config.power \in Nat /\ config \in Configuration
  BY DEF P!PowerAssumption, PowerTyped, Configuration
<1>2. CASE power < MaxPower
  <2> DEFINE q == power + 1
  <2>1. q \in MinPower .. MaxPower /\ q \in Nat
    BY <1>1, <1>2
  <2>2. P!Clamp(q) = q
    BY <2>1, ClampFacts
  <2>3. P!Up = P!Limited(q)
    BY <1>1, <1>2, <2>2 DEF P!Up, P!Set
  <2>4. P!Limited(q) \in MinPower .. MaxPower /\ P!Limited(q) <= q
    BY <2>1, LimitedFacts
  <2>5. /\ q <= config.power => P!Limited(q) <= LevelOf(config)
        /\ q <= config.power /\ P!Limited(q) < q => P!Limited(q) = LevelOf(config)
    BY <1>1, <2>1, LevelFacts
  <2> QED
    BY <1>1, <2>3, <2>4, <2>5
<1>3. CASE ~(power < MaxPower)
  BY <1>1, <1>3 DEF P!Up
<1> QED
  BY <1>2, <1>3

\* decPower.
LEMMA DownFacts ==
  ASSUME P!PowerAssumption, PowerTyped
  PROVE  P!Down \in MinPower .. MaxPower /\ P!Down <= power
<1>1. MinPower \in Nat /\ MaxPower \in Nat /\ power \in MinPower .. MaxPower
  BY DEF P!PowerAssumption, PowerTyped
<1>2. CASE power > MinPower
  <2>1. power - 1 \in MinPower .. MaxPower /\ power - 1 \in Nat
    BY <1>1, <1>2
  <2>2. P!Clamp(power - 1) = power - 1 /\ P!Limited(power - 1) \in MinPower .. MaxPower
        /\ P!Limited(power - 1) <= power - 1
    BY <2>1, ClampFacts, LimitedFacts
  <2>3. P!Down = P!Limited(power - 1)
    BY <1>1, <1>2, <2>2 DEF P!Down, P!Set
  <2> QED
    BY <1>1, <2>2, <2>3
<1>3. CASE ~(power > MinPower)
  BY <1>1, <1>3 DEF P!Down
<1> QED
  BY <1>2, <1>3

\* ResetPower: armed, it sets the configured level if anything.
LEMMA ResetFacts ==
  ASSUME P!PowerAssumption, PowerTyped, config' \in Configuration
  PROVE  /\ P!Reset \in MinPower .. MaxPower
         /\ isArmed => P!Reset \in {power, LevelOf(config')}
<1>1. power \in MinPower .. MaxPower /\ MinPower \in Nat /\ config'.power \in Nat
  BY DEF P!PowerAssumption, PowerTyped, Configuration
<1>2. /\ P!Set(config'.power) \in MinPower .. MaxPower
      /\ P!Set(config'.power) \in {power, LevelOf(config')}
  BY <1>1, SetFacts DEF LevelOf
<1>3. P!Set(MinPower) \in MinPower .. MaxPower
  BY <1>1, SetFacts
<1> QED
  BY <1>1, <1>2, <1>3 DEF P!Reset

-------------------------------------------------------------------------------
(* What every step keeps to.                                               *)
TurnedLevel == IF primaryBand' = primaryBand THEN P!Full' ELSE P!Full

KeepsToPower ==
  isArmed /\ ~meddled /\ ~(P!cyclePower \/ P!GoQuiet) =>
    /\ power' > power => power' <= TurnedLevel
    /\ config.dynamic' /\ power' < power => taken = "fresh" \/ power' = TurnedLevel

\* Steps that leave the power alone, or set the level of the configuration.
LEMMA PowerSet ==
  ASSUME P!PowerAssumption, PowerTyped, power' \in MinPower .. MaxPower,
         isArmed => power' \in {power, LevelOf(config')},
         primaryBand' = primaryBand \/ config' = config
  PROVE  KeepsToPower
<1>1. power \in Nat /\ power' \in Nat
  BY DEF P!PowerAssumption, PowerTyped
<1>2. LevelOf(config') = TurnedLevel
  BY DEF LevelOf, TurnedLevel, P!Full, P!Limited, P!Clamp
<1>3. power' = power => ~(power' > power) /\ ~(power' < power)
  BY <1>1
<1>4. power' = LevelOf(config') => power' = TurnedLevel /\ power' <= TurnedLevel
  BY <1>1, <1>2
<1> QED
  BY <1>3, <1>4, Zenon DEF KeepsToPower

\* Steps of the main loop between two updates.
LEMMA LoopKeeps ==
  ASSUME P!PowerAssumption, PowerInv, P!InLoop, config' \in Configuration,
         power' \in {power, P!Reset},
         primaryBand' = primaryBand \/ config' = config
  PROVE  PowerInv' /\ KeepsToPower
<1>1. /\ P!Reset \in MinPower .. MaxPower
      /\ isArmed => P!Reset \in {power, LevelOf(config')}
  BY ResetFacts DEF PowerInv
<1>2. power' \in MinPower .. MaxPower /\ (isArmed => power' \in {power, LevelOf(config')})
  BY <1>1 DEF PowerInv, PowerTyped
<1>3. KeepsToPower
  BY <1>2, PowerSet DEF PowerInv
<1>4. powerAt' = "idle" /\ start' = start /\ headroom' = headroom
  BY DEF P!InLoop, P!updateVars
<1>5. PowerTyped' /\ Room'
  BY <1>2, <1>4 DEF PowerInv, PowerTyped, Room
<1> QED
  BY <1>3, <1>4, <1>5 DEF PowerInv

\* Steps of an update: nothing that bears on the level of the configuration changes.
LEMMA UpdateKeeps ==
  ASSUME P!PowerAssumption, PowerInv, UNCHANGED P!loopVars,
         power' \in MinPower .. MaxPower,
         ~meddled => (power' > power => power' <= LevelOf(config)),
         ~meddled => (power' < power => taken = "fresh" \/ power' = LevelOf(config))
  PROVE  KeepsToPower /\ config' = config
<1>1. config' = config /\ primaryBand' = primaryBand
  BY DEF P!loopVars, P!configVars
<1>2. LevelOf(config) = TurnedLevel
  BY <1>1 DEF LevelOf, TurnedLevel, P!Full, P!Limited, P!Clamp
<1> QED
  BY <1>1, <1>2, Zenon DEF KeepsToPower

\* The end of an update.
LEMMA UpdateEnds ==
  ASSUME P!PowerAssumption, PowerInv, P!Goto("idle"), power' \in MinPower .. MaxPower
  PROVE  PowerInv'
<1>1. /\ powerAt' = "idle" /\ start' = MinPower /\ headroom' = 0
      /\ config' = config
  BY DEF P!Goto, P!loopVars, P!configVars
<1> QED
  BY <1>1 DEF PowerInv, PowerTyped, Room, P!PowerAssumption

\* What Goto leaves alone, on the way.
LEMMA GoesOn ==
  ASSUME NEW there, there # "idle", P!Goto(there)
  PROVE  /\ powerAt' = there /\ UNCHANGED P!loopVars /\ config' = config
         /\ meddled' = meddled
BY DEF P!Goto, P!loopVars, P!configVars

\* DynamicPower_Update, up to the judgement of what it has read.
LEMMA TakeKeeps ==
  ASSUME P!PowerAssumption, PowerInv, P!TakeUpdate
  PROVE  PowerInv' /\ KeepsToPower
<1>1. P!Goto("clear") /\ UNCHANGED <<power, start, headroom>>
  BY DEF P!TakeUpdate
<1>2. powerAt' = "clear" /\ UNCHANGED P!loopVars /\ config' = config
  BY <1>1, GoesOn
<1>3. PowerInv'
  BY <1>1, <1>2 DEF PowerInv, PowerTyped, Room
<1>4. power \in MinPower .. MaxPower /\ power \in Nat
  BY DEF P!PowerAssumption, PowerInv, PowerTyped
<1>5. power' \in MinPower .. MaxPower /\ ~(power' > power) /\ ~(power' < power)
  BY <1>1, <1>4
<1> QED
  BY <1>2, <1>3, <1>5, UpdateKeeps

LEMMA ClearKeeps ==
  ASSUME P!PowerAssumption, PowerInv, P!ClearUpdate
  PROVE  PowerInv' /\ KeepsToPower
<1>1. power \in MinPower .. MaxPower /\ power \in Nat /\ MinPower \in Nat
  BY DEF P!PowerAssumption, PowerInv, PowerTyped
<1>2. P!Down \in MinPower .. MaxPower /\ P!Down <= power
  BY DownFacts DEF PowerInv
<1>3. power' = power \/ (taken = "fresh" /\ power' = P!Down)
  BY DEF P!ClearUpdate
<1>4. power' \in MinPower .. MaxPower /\ ~(power' > power)
      /\ (power' < power => taken = "fresh")
  BY <1>1, <1>2, <1>3
<1>5. CASE P!Goto("judge") /\ UNCHANGED <<start, headroom>>
  <2>1. powerAt' = "judge" /\ config' = config
    BY <1>5, GoesOn
  <2> QED
    BY <1>4, <1>5, <2>1, UpdateKeeps DEF PowerInv, PowerTyped, Room, P!Goto
<1>6. CASE P!Goto("idle")
  BY <1>4, <1>6, UpdateEnds, UpdateKeeps DEF P!Goto
<1> QED
  BY <1>5, <1>6 DEF P!ClearUpdate

LEMMA JudgeKeeps ==
  ASSUME P!PowerAssumption, PowerInv, P!Judge
  PROVE  PowerInv' /\ KeepsToPower
<1>1. /\ MinPower \in Nat /\ power \in MinPower .. MaxPower /\ power \in Nat
      /\ config \in Configuration /\ config.power \in Nat
  BY DEF P!PowerAssumption, PowerInv, PowerTyped, Configuration
<1>2. /\ P!Boost \in MinPower .. MaxPower
      /\ P!Boost \in {power, LevelOf(config)}
  BY <1>1, SetFacts DEF PowerInv, P!Boost, LevelOf
<1>3. /\ LevelOf(config) \in MinPower .. MaxPower /\ LevelOf(config) \in Nat
  BY <1>1, LevelFacts
<1>4. power' = power \/ power' = P!Boost
  BY DEF P!Judge
<1>5. /\ power' \in MinPower .. MaxPower
      /\ power' > power => power' <= LevelOf(config)
      /\ power' < power => power' = LevelOf(config)
  BY <1>1, <1>2, <1>3, <1>4
<1>6. /\ P!Headroom \in Nat
      /\ P!Headroom > 0 => power < config.power /\ power + P!Headroom = config.power
  BY <1>1 DEF P!Headroom
<1>7. UNCHANGED P!loopVars
  BY DEF P!Judge, P!Goto
<1>8. CASE P!Goto("idle")
  BY <1>5, <1>7, <1>8, UpdateEnds, UpdateKeeps
<1>9. CASE /\ P!Headroom > 0 /\ power' = power
           /\ P!Goto("last") /\ UNCHANGED <<taken, start, headroom>>
  <2>1. powerAt' = "last" /\ config' = config
    BY <1>9, GoesOn
  <2> QED
    BY <1>5, <1>6, <1>7, <1>9, <2>1, UpdateKeeps DEF PowerInv, PowerTyped, Room
<1>10. CASE /\ taken = "fresh" /\ P!Goto("adjust") /\ power' = power
            /\ start' = power /\ headroom' = P!Headroom /\ UNCHANGED taken
  <2>1. powerAt' = "adjust" /\ config' = config
    BY <1>10, GoesOn
  <2>2. PowerTyped'
    BY <1>1, <1>6, <1>10, <2>1 DEF PowerInv, PowerTyped
  <2>3. Room'
    BY <1>1, <1>6, <1>10, <2>1 DEF Room
  <2> QED
    BY <1>5, <1>7, <1>10, <2>2, <2>3, UpdateKeeps DEF PowerInv
<1> QED
  BY <1>8, <1>9, <1>10 DEF P!Judge

\* What is left of the headroom covers every further step up.
LEMMA AdjustKeeps ==
  ASSUME P!PowerAssumption, PowerInv, P!AdjustOnce
  PROVE  PowerInv' /\ KeepsToPower
<1>1. /\ MinPower \in Nat /\ power \in MinPower .. MaxPower /\ power \in Nat
      /\ config.power \in Nat /\ headroom \in Nat /\ powerAt = "adjust" /\ taken = "fresh"
  BY DEF P!PowerAssumption, PowerInv, PowerTyped, Configuration, P!AdjustOnce
<1>2. /\ powerAt' = "check" /\ UNCHANGED P!loopVars /\ config' = config
      /\ meddled' = meddled /\ UNCHANGED <<taken, start, headroom>>
  BY GoesOn DEF P!AdjustOnce, P!Adjusted
<1>3. /\ P!Down \in MinPower .. MaxPower /\ P!Down <= power
      /\ P!Up \in MinPower .. MaxPower /\ P!Up <= power + 1
      /\ power < config.power /\ P!Up > power => P!Up <= LevelOf(config)
  BY DownFacts, UpFacts DEF PowerInv
<1>4. power' = power \/ power' = P!Down \/ (headroom > 0 /\ power' = P!Up)
  BY DEF P!AdjustOnce
<1>5. power' \in MinPower .. MaxPower
  BY <1>1, <1>3, <1>4
<1>6. ASSUME ~meddled
      PROVE  power' > power => power' <= LevelOf(config)
  <2>1. headroom > 0 => power < config.power
    BY <1>1, <1>6 DEF PowerInv, Room
  <2> QED
    BY <1>1, <1>3, <1>4, <2>1
<1>7. ASSUME ~meddled
      PROVE  Room'
  <2>1. /\ start = power
        /\ headroom > 0 => power < config.power
    BY <1>1, <1>7 DEF PowerInv, Room
  <2> QED
    BY <1>2, <2>1 DEF Room
<1>8. PowerInv'
  BY <1>2, <1>5, <1>7 DEF PowerInv, PowerTyped
<1> QED
  BY <1>1, <1>2, <1>5, <1>6, <1>8, UpdateKeeps

LEMMA RaiseKeeps ==
  ASSUME P!PowerAssumption, PowerInv, P!RaiseBySNR
  PROVE  PowerInv' /\ KeepsToPower
<1>1. /\ MinPower \in Nat /\ power \in MinPower .. MaxPower /\ power \in Nat
      /\ config.power \in Nat /\ headroom \in Nat /\ powerAt \in {"adjust", "raise"}
      /\ headroom > 0 /\ headroom' = headroom - 1 /\ power' = P!Up
  BY DEF P!PowerAssumption, PowerInv, PowerTyped, Configuration, P!RaiseBySNR
<1>2. /\ powerAt' = "raise" /\ UNCHANGED P!loopVars /\ config' = config
      /\ meddled' = meddled /\ UNCHANGED <<taken, start>>
  BY GoesOn DEF P!RaiseBySNR, P!Adjusted
<1>3. /\ P!Up \in MinPower .. MaxPower /\ P!Up <= power + 1
      /\ power < config.power /\ P!Up > power => P!Up <= LevelOf(config)
      /\ power < config.power /\ P!Up < power => P!Up = LevelOf(config)
  BY UpFacts DEF PowerInv
<1>4. ASSUME ~meddled
      PROVE  power + headroom <= config.power /\ power < config.power
  BY <1>1, <1>4 DEF PowerInv, Room
<1>5. ASSUME ~meddled
      PROVE  Room'
  <2>1. power' \in Nat /\ power' + headroom' <= config.power
    BY <1>1, <1>3, <1>4, <1>5
  <2> QED
    BY <1>2, <2>1 DEF Room
<1>6. PowerInv'
  BY <1>1, <1>2, <1>3, <1>5 DEF PowerInv, PowerTyped
<1> QED
  BY <1>1, <1>2, <1>3, <1>4, <1>6, UpdateKeeps

LEMMA CheckKeeps ==
  ASSUME P!PowerAssumption, PowerInv, P!CheckDone
  PROVE  PowerInv' /\ KeepsToPower
<1>1. /\ MinPower \in Nat /\ power \in MinPower .. MaxPower /\ power \in Nat
      /\ config.power \in Nat /\ headroom \in Nat /\ powerAt \in {"raise", "check"}
      /\ power' = power
  BY DEF P!PowerAssumption, PowerInv, PowerTyped, Configuration, P!CheckDone
<1>2. UNCHANGED P!loopVars
  BY DEF P!CheckDone, P!Goto
<1>3. power' \in MinPower .. MaxPower /\ ~(power' > power) /\ ~(power' < power)
  BY <1>1
<1>4. KeepsToPower
  BY <1>2, <1>3, UpdateKeeps
<1>5. CASE P!Goto("idle")
  BY <1>3, <1>4, <1>5, UpdateEnds
<1>6. CASE /\ headroom > 0 /\ start = power
           /\ P!Goto("last") /\ UNCHANGED <<taken, start, headroom>>
  <2>1. powerAt' = "last" /\ config' = config /\ meddled' = meddled
    BY <1>6, GoesOn
  <2>2. ~meddled => power < config.power
    BY <1>1, <1>6 DEF PowerInv, Room
  <2>3. ~meddled' => Room'
    BY <1>1, <2>1, <2>2 DEF Room
  <2> QED
    BY <1>1, <1>4, <1>6, <2>1, <2>3 DEF PowerInv, PowerTyped
<1> QED
  BY <1>5, <1>6 DEF P!CheckDone

LEMMA LastKeeps ==
  ASSUME P!PowerAssumption, PowerInv, P!RaiseLast
  PROVE  PowerInv' /\ KeepsToPower
<1>1. powerAt = "last" /\ P!Goto("idle") /\ power' = P!Up /\ UNCHANGED P!loopVars
  BY DEF P!RaiseLast, P!Goto
<1>2. /\ P!Up \in MinPower .. MaxPower
      /\ power < config.power /\ P!Up > power => P!Up <= LevelOf(config)
      /\ power < config.power /\ P!Up < power => P!Up = LevelOf(config)
  BY UpFacts DEF PowerInv
<1>3. ~meddled => power < config.power
  BY <1>1 DEF PowerInv, Room
<1>4. PowerInv'
  BY <1>1, <1>2, UpdateEnds
<1> QED
  BY <1>1, <1>2, <1>3, <1>4, UpdateKeeps

\* The other core: between two updates it meets nobody, in the midst of one it meddles.
LEMMA OtherCoreKeeps ==
  ASSUME P!PowerAssumption, PowerInv, P!Meddles, power' \in MinPower .. MaxPower
  PROVE  PowerInv'
<1>1. /\ UNCHANGED <<powerAt, taken, start, headroom>> /\ config' = config
      /\ meddled' = (meddled \/ powerAt # "idle")
  BY DEF P!Meddles, P!OtherCore, P!updateVars, P!loopVars, P!configVars
<1>2. PowerTyped' /\ (powerAt' = "adjust" => taken' = "fresh")
  BY <1>1 DEF PowerInv, PowerTyped
<1>3. ~meddled' => powerAt' = "idle"
  BY <1>1, Zenon
<1>4. powerAt' = "idle" => Room'
  BY DEF Room
<1> QED
  BY <1>2, <1>3, <1>4 DEF PowerInv

LEMMA DevicesKeep ==
  ASSUME P!PowerAssumption, PowerInv, P!SeeQuiet \/ P!GoQuiet \/ P!Move \/ P!cyclePower
  PROVE  PowerInv' /\ KeepsToPower
<1>1. /\ MinPower \in Nat /\ power \in MinPower .. MaxPower /\ power \in Nat
      /\ config \in Configuration /\ config.power \in Nat
  BY DEF P!PowerAssumption, PowerInv, PowerTyped, Configuration
<1>2. /\ P!Set(MinPower) \in MinPower .. MaxPower /\ P!Up \in MinPower .. MaxPower
      /\ P!Boost \in MinPower .. MaxPower
      /\ P!Boost \in {power, LevelOf(config)}
  BY <1>1, SetFacts, UpFacts DEF PowerInv, P!Boost, LevelOf
<1>3. CASE P!SeeQuiet
  <2>1. /\ UNCHANGED <<power, powerAt, taken, start, headroom, meddled>>
        /\ config' = config /\ UNCHANGED P!loopVars
    BY <1>3 DEF P!SeeQuiet, P!OtherCore, P!updateVars, P!loopVars, P!configVars
  <2>2. PowerInv'
    BY <2>1 DEF PowerInv, PowerTyped, Room
  <2>3. power' \in MinPower .. MaxPower /\ ~(power' > power) /\ ~(power' < power)
    BY <1>1, <2>1
  <2> QED
    BY <2>1, <2>2, <2>3, UpdateKeeps
<1>4. CASE P!GoQuiet
  <2>1. PowerInv'
    BY <1>2, <1>4, OtherCoreKeeps DEF P!GoQuiet
  <2> QED
    BY <1>4, <2>1 DEF KeepsToPower
<1>5. CASE P!Move
  <2>1. P!Meddles /\ power' = P!Boost /\ UNCHANGED P!loopVars
    BY <1>5 DEF P!Move, P!Meddles, P!OtherCore
  <2>2. config' = config
    BY <2>1 DEF P!loopVars, P!configVars
  <2> QED
    BY <1>2, <2>1, <2>2, OtherCoreKeeps, PowerSet DEF PowerInv
<1>6. CASE P!cyclePower
  <2>1. P!Meddles /\ power' \in MinPower .. MaxPower
    BY <1>2, <1>6 DEF P!cyclePower
  <2> QED
    BY <1>6, <2>1, OtherCoreKeeps DEF KeepsToPower
<1> QED
  BY <1>3, <1>4, <1>5, <1>6

\* The handset, the parameters, the link: between two updates of the main loop.
LEMMA LoopSteps ==
  ASSUME P!PowerAssumption, PowerInv,
         \/ \E p \in Configurable : P!SetPowerMax(p)
         \/ \E on \in BOOLEAN : P!SetDynamicPower(on) \/ P!Arm(on)
         \/ \E c \in P!Configs : P!ModelUpdateReq(c)
         \/ \E s \in {"disconnected", "connected"} : P!SetConnectionState(s)
         \/ P!ChangeRadioParams \/ P!EnterExitBindingMode
  PROVE  PowerInv' /\ KeepsToPower
<1>1. config \in Configuration /\ Configurable \subseteq Nat
  BY DEF PowerInv, PowerTyped, P!PowerAssumption
<1> DEFINE Fits ==
             /\ P!InLoop /\ config' \in Configuration
             /\ power' \in {power, P!Reset}
             /\ primaryBand' = primaryBand \/ config' = config
<1>2. ASSUME NEW p \in Configurable, P!SetPowerMax(p)
      PROVE  Fits
  BY <1>1, <1>2 DEF P!SetPowerMax, Configuration
<1>3. ASSUME NEW on \in BOOLEAN, P!SetDynamicPower(on)
      PROVE  Fits
  BY <1>1, <1>3 DEF P!SetDynamicPower, Configuration
<1>4. ASSUME NEW on \in BOOLEAN, P!Arm(on)
      PROVE  Fits
  BY <1>1, <1>4 DEF P!Arm, P!configVars
<1>5. ASSUME NEW c \in P!Configs, P!ModelUpdateReq(c)
      PROVE  Fits
  BY <1>1, <1>5 DEF P!ModelUpdateReq, P!Configs, Configuration
<1>6. ASSUME NEW s, P!SetConnectionState(s)
      PROVE  Fits
  BY <1>1, <1>6 DEF P!SetConnectionState, P!configVars
<1>7. ASSUME P!ChangeRadioParams
      PROVE  Fits
  BY <1>1, <1>7 DEF P!ChangeRadioParams
<1>8. ASSUME P!EnterExitBindingMode
      PROVE  Fits
  BY <1>1, <1>8 DEF P!EnterExitBindingMode, P!configVars
<1>9. Fits
  BY <1>2, <1>3, <1>4, <1>5, <1>6, <1>7, <1>8
<1> QED
  BY <1>9, LoopKeeps

\* POWERMGNT::init and DynamicPower_Init.
LEMMA PowerInitInv ==
  ASSUME P!PowerAssumption
  PROVE  P!Init => PowerInv
<1> SUFFICES ASSUME P!Init
             PROVE  PowerInv
  OBVIOUS
<1>1. /\ power \in MinPower .. MaxPower /\ config \in P!Configs
      /\ start = MinPower /\ headroom = 0 /\ powerAt = "idle"
  BY DEF P!Init
<1>2. PowerTyped
  BY <1>1 DEF P!Configs, P!PowerAssumption, PowerTyped, Configuration
<1>3. Room
  BY <1>1 DEF Room
<1> QED
  BY <1>1, <1>2, <1>3 DEF PowerInv

\* Every step keeps to the power and the invariant.
LEMMA PowerStep ==
  ASSUME P!PowerAssumption, PowerInv, [P!Next]_(P!vars)
  PROVE  PowerInv' /\ [KeepsToPower]_(P!vars)
<1>1. ASSUME NEW what, P!TelemetryUpdate(what)
      PROVE  PowerInv' /\ KeepsToPower
  <2>1. /\ UNCHANGED <<power, powerAt, taken, start, headroom, meddled>>
        /\ config' = config /\ UNCHANGED P!loopVars
    BY <1>1 DEF P!TelemetryUpdate, P!updateVars, P!loopVars, P!configVars
  <2>2. PowerInv'
    BY <2>1 DEF PowerInv, PowerTyped, Room
  <2>3. power \in MinPower .. MaxPower /\ power \in Nat
    BY DEF P!PowerAssumption, PowerInv, PowerTyped
  <2>4. power' \in MinPower .. MaxPower /\ ~(power' > power) /\ ~(power' < power)
    BY <2>1, <2>3
  <2> QED
    BY <2>1, <2>2, <2>4, UpdateKeeps
<1>2. CASE UNCHANGED P!vars
  BY <1>2 DEF P!vars, P!updateVars, P!loopVars, P!configVars, PowerInv, PowerTyped, Room
<1>3. CASE P!UpdateStep
  BY <1>3, ClearKeeps, JudgeKeeps, AdjustKeeps, RaiseKeeps, CheckKeeps, LastKeeps
  DEF P!UpdateStep
<1>4. CASE P!Next
  BY <1>1, <1>3, <1>4, LoopSteps, TakeKeeps, DevicesKeep DEF P!Next
<1> QED
  BY <1>2, <1>4

\* Two cores, interleaved call by call: the power stays in the hardware's range, and
\* what an update may still add never leads beyond the configured level unless the
\* other core set the power in the midst of it.
THEOREM PowerInvariant == P!Spec => []PowerInv
<1>0. P!PowerAssumption
  BY SharedAssumption
<1>1. PowerInv /\ [P!Next]_(P!vars) => PowerInv'
  BY <1>0, PowerStep
<1>2. P!Init => PowerInv
  BY <1>0, PowerInitInv
<1> QED
  BY <1>1, <1>2, PTL DEF P!Spec

\* ResetPower and DynamicPower_Update, for all levels of the hardware, of the band's
\* limit and of the configuration, with the sensor and the button on the other core:
\* in flight power rises to the configured level and no further, and dynamic power
\* falls only after telemetry that was heard, or to that level.
THEOREM KeepsItsPower == P!Spec => FliesAtItsPower
<1>0. P!PowerAssumption
  BY SharedAssumption
<1>1. PowerInv /\ [P!Next]_(P!vars) => [KeepsToPower]_(P!vars)
  BY <1>0, PowerStep
<1>2. P!Spec => [][KeepsToPower]_(P!vars)
  BY <1>1, PowerInvariant, PTL DEF P!Spec
<1> QED
  BY <1>2 DEF FliesAtItsPower, P!FliesAtItsPower, KeepsToPower, TurnedLevel

===============================================================================
