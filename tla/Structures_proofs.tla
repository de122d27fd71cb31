--------------------------- MODULE Structures_proofs ---------------------------
(***************************************************************************)
(* The structures and smaller machines, for every value of the constants:  *)
(* a receiver binds by itself after three plugs only, the ground station   *)
(* learns what its writes changed, the hop sequence serves both ends, MSP  *)
(* messages are joined whole, the FIFO is a queue and the link quality a   *)
(* window.                                                                 *)
(***************************************************************************)
EXTENDS MCStructures, Integers, FiniteSetTheorems, SequenceTheorems, TLAPS

-------------------------------------------------------------------------------
(* Three plugs.                                                            *)

BootTyped ==
  /\ DOMAIN saved = {"count", "bound"} /\ saved.count \in 0 .. B!Plugs
  /\ powerOnCounter \in 0 .. B!Plugs /\ quick \in 0 .. B!Plugs
  /\ bootPc \in {"off", "setup", "commit"} \union B!LoopPcs

\* Between a start and the first pass of loop() nothing is known of the transmitter.
BeforeLoop ==
  bootPc \in {"off", "setup"} =>
    linkState = "disconnected" /\ ~InBindingMode /\ ~unsaved /\ ~due

\* What EEPROM and RAM count are short starts.
CountsQuick ==
  /\ saved.count <= quick
  /\ bootPc # "off" => powerOnCounter <= quick
  /\ bootPc = "setup" =>
       powerOnCounter = saved.count /\ (powerOnCounter < quick \/ quick = B!Plugs)

\* The counter is clear once the transmitter was heard, or two seconds have passed.
ClearedInTime ==
  /\ linkState # "disconnected" => powerOnCounter = 0
  /\ bootPc \in B!LoopPcs /\ ~due => powerOnCounter = 0

\* EEPROM has the counter of RAM, or a pass of loop() is to save it.
SavedInTime ==
  /\ bootPc \in B!LoopPcs => saved.count = powerOnCounter \/ (unsaved /\ ~InBindingMode)
  /\ bootPc = "commit" => ~due /\ saved.count = powerOnCounter

BootInv == BootTyped /\ BeforeLoop /\ CountsQuick /\ ClearedInTime /\ SavedInTime

-------------------------------------------------------------------------------
(* The transmitter's MAVLink parameters.                                   *)

\* The functions that wait for a rate, in their order.
RateAt(k) == k \in DOMAIN deferred /\ deferred[k].of = X!Rate
Functions == [of : {X!Rate, X!LinkMode}, to : 0 .. 1, antenna : {X!None, 0, 1}]

ServerTyped ==
  /\ rate \in 0 .. 1 /\ antenna \in 0 .. 1 /\ linkMode \in 0 .. 3
  /\ pendingLinkMode \in {X!None, 0, 1}
  /\ deferred \in Seq(Functions)
  /\ Len(deferred) <= X!maxDeferredFunctions
  /\ setIndex \in 0 .. 2 /\ paramMask \subseteq 0 .. 2 /\ overlooked \subseteq 0 .. 2
  /\ snapshot \in [0 .. 2 -> 0 .. 3] /\ known \in [0 .. 2 -> 0 .. 3]

\* In a mode that is not served nothing is written any more.
UnservedStays == ~X!Serving => pendingLinkMode = X!None

\* A dual band rate has the antenna mode Gemini, and brings it along.
DualBandIsGemini ==
  /\ rate = 1 => antenna = X!Gemini
  /\ \A k \in DOMAIN deferred : RateAt(k) => deferred[k].antenna = X!Gemini

\* The reply to a write of the rate waits for it to be applied.
RateIsAwaited ==
  (\E k \in DOMAIN deferred : RateAt(k)) => setReplyPending /\ ~replyDue

\* Waiting functions change the rate once: those in front of the change keep it.
ChangesOnce ==
  \A j, k \in DOMAIN deferred :
    RateAt(j) /\ RateAt(k) /\ j < k /\ deferred[j].to # rate => deferred[k].to # rate

\* Since the last snapshot the rate has changed once at most, and the antenna mode to
\* Gemini only, unless they are what was written.
SinceSnapshot ==
  /\ setReplyPending /\ setIndex # X!Rate /\ rate # snapshot[X!Rate] =>
       \A k \in DOMAIN deferred : RateAt(k) => deferred[k].to = rate
  /\ setReplyPending /\ setIndex # X!Antenna /\ antenna # X!Gemini =>
       snapshot[X!Antenna] = antenna

\* What the ground station does not know is about to be told, or was overlooked.
CoveredAt(p) ==
  \/ known[p] = X!get[p]
  \/ p \in paramMask \union overlooked
  \/ setReplyPending /\ (p = setIndex \/ snapshot[p] # X!get[p])
Covered == X!Serving => \A p \in 0 .. 2 : CoveredAt(p)

ServerInv ==
  /\ ServerTyped /\ UnservedStays /\ DualBandIsGemini
  /\ RateIsAwaited /\ ChangesOnce /\ SinceSnapshot /\ Covered

-------------------------------------------------------------------------------
(* The hop sequence.                                                       *)

SequenceInv ==
  /\ sequence \in [H!Entries -> 0 .. FreqCount - 1] /\ i \in Nat
  /\ H!SyncEachBlock /\ H!BlocksAreFair

-------------------------------------------------------------------------------
(* MSP messages in chunks.                                                 *)

\* A byte of a message: which message, and where in it.
MspBytes == (DOMAIN MspLength) \X Nat

\* The first n bytes of message m.
IsPrefix(s, m, n) ==
  s \in Seq(MspBytes) /\ Len(s) = n /\ \A p \in 1 .. n : s[p] = <<m, p>>

MspTyped ==
  /\ sending \in DOMAIN MspLength /\ chunk \in 0 .. M!NumChunks(sending) - 1
  /\ seqNum \in 0 .. SeqRange - 1 /\ seqPrev \in 0 .. SeqRange - 1
  /\ lost \in 0 .. SeqRange /\ times \in Nat
  /\ total \in BOOLEAN /\ turned \in BOOLEAN /\ intact \in BOOLEAN

\* The number of the next chunk tells how many were lost, short of a whole turn.
NumberTells ==
  /\ total /\ lost < SeqRange => seqNum = (seqPrev + 1 + lost) % SeqRange
  /\ lost = SeqRange => turned

\* A frame that goes on is the message's so far.
HasPrefix ==
  total /\ ~turned /\ lost = 0 /\ chunk # 0 =>
    pktLen = MspLength[sending] /\ IsPrefix(got, sending, chunk * ChunkLen)

\* Before its last chunk, which is a short one, no message was handed on.
NotYetHanded ==
  ~turned /\ chunk # 0 /\ MspLength[sending] % ChunkLen # 0 => times = 0

\* A message that has lost nothing so far is one that goes on at the receiver.
IntactGoesOn ==
  intact /\ chunk # 0 /\ MspLength[sending] <= MaxLength => total /\ lost = 0 /\ ~turned

MspInv == MspTyped /\ NumberTells /\ HasPrefix /\ NotYetHanded /\ IntactGoesOn

-------------------------------------------------------------------------------
(* The byte FIFO.                                                          *)

\* Head, tail and count agree.
FifoInv ==
  /\ buffer \in [F!Slots -> F!Bytes] /\ head \in F!Slots /\ tail \in F!Slots
  /\ numElements \in 0 .. FifoSize
  /\ F!RingAgrees

-------------------------------------------------------------------------------
(* The link quality.                                                       *)

\* The period k before the current one, and whether it counts.
Place(k) == (W!Position + Periods - k) % Periods
Seen == {k \in 0 .. Periods - 1 : W!BitAt(Place(k))}

\* Oldest last, whether each period counts.
LqWindow == [k \in 0 .. Periods - 1 |-> W!BitAt((W!Position + Periods - k) % Periods)]

\* Word and bit are those of a period.
LqTyped ==
  /\ LQArray \in [0 .. W!Words - 1 -> SUBSET (0 .. WordBits - 1)]
  /\ index \in Nat /\ bit \in 0 .. WordBits - 1 /\ W!Position \in 0 .. Periods - 1
  /\ count \in 1 .. Periods

\* The running total counts the window, and no more of it than was recorded.
LqInv ==
  /\ LqTyped
  /\ LQ = Cardinality(Seen)
  /\ \A k \in Seen : k < count

-------------------------------------------------------------------------------
\* A receiver is off at first, and its counter is clear.
LEMMA BootInitInv == B!Init => BootInv
BY DEF B!Init, BootInv, BootTyped, BeforeLoop, CountsQuick, ClearedInTime, SavedInTime,
       B!Plugs, B!LoopPcs

\* Every step of a receiver keeps the invariant.
LEMMA BootStep == BootInv /\ [B!Next]_(B!vars) => BootInv'
<1> SUFFICES ASSUME BootInv, [B!Next]_(B!vars)
             PROVE  BootInv'
  OBVIOUS
<1> USE DEF BootInv, BootTyped, BeforeLoop, CountsQuick, ClearedInTime, SavedInTime,
            B!Plugs, B!LoopPcs
<1>1. CASE B!PowerOff
  BY <1>1 DEF B!PowerOff
<1>2. CASE B!PowerOn
  BY <1>2 DEF B!PowerOn
<1>3. CASE B!SetupConfigAndPocCheck
  BY <1>3 DEF B!SetupConfigAndPocCheck
<1>4. CASE B!CheckConfigChangePending
  BY <1>4 DEF B!CheckConfigChangePending, B!Save
<1>5. CASE B!NotYetDue \/ B!CommitDone
  BY <1>5 DEF B!NotYetDue, B!CommitDone, B!ramVars
<1>6. CASE B!ClearCounter
  BY <1>6 DEF B!ClearCounter
<1>7. CASE B!GotOrLost
  BY <1>7 DEF B!GotOrLost, B!ramVars
<1>8. CASE B!UpdateBindingMode
  BY <1>8 DEF B!UpdateBindingMode, B!Save
<1>9. CASE B!TentativeConnection
  <2>1. (unsaved => unsaved') /\ (powerOnCounter # 0 => unsaved')
    BY <1>9, Zenon DEF B!TentativeConnection
  <2>2. UNCHANGED <<bootPc, saved, InBindingMode, due, quick>>
    BY <1>9 DEF B!TentativeConnection
  <2>3. bootPc \in B!LoopPcs /\ ~InBindingMode /\ powerOnCounter' = 0
    BY <1>9 DEF B!TentativeConnection
  <2>4. BootTyped' /\ BeforeLoop' /\ CountsQuick'
    BY <2>2, <2>3
  <2>5. ClearedInTime'
    BY <2>2, <2>3
  <2>6. SavedInTime'
    <3>1. CASE powerOnCounter = 0
      BY <2>1, <2>2, <2>3, <3>1
    <3>2. CASE powerOnCounter # 0
      BY <2>1, <2>2, <2>3, <3>2
    <3> QED
      BY <3>1, <3>2
  <2> QED
    BY <2>4, <2>5, <2>6
<1>10. CASE B!BindPacket
  BY <1>10 DEF B!BindPacket
<1>11. CASE UNCHANGED B!vars
  BY <1>11 DEF B!vars, B!ramVars
<1> QED
  BY <1>1, <1>2, <1>3, <1>4, <1>5, <1>6, <1>7, <1>8, <1>9, <1>10, <1>11 DEF B!Next

\* Whenever the power goes, EEPROM and RAM count short starts.
THEOREM BootInvariant == B!Spec => []BootInv
<1> QED
  BY BootInitInv, BootStep, PTL DEF B!Spec

\* setupConfigAndPocCheck, updateBindingMode: a bound receiver starts to bind by itself
\* only when the last three starts or more were all short.
THEOREM PlugsOnly == B!Spec => OnlyAfterPlugs
<1>1. BootInv /\ [B!Next]_(B!vars)
      => [bound /\ ~InBindingMode /\ InBindingMode' => quick >= B!Plugs]_(B!vars)
  <2> SUFFICES ASSUME BootInv, [B!Next]_(B!vars), bound, ~InBindingMode, InBindingMode'
               PROVE  quick >= B!Plugs
    OBVIOUS
  <2>1. B!UpdateBindingMode
    BY DEF B!Next, B!PowerOff, B!PowerOn, B!SetupConfigAndPocCheck,
           B!CheckConfigChangePending, B!NotYetDue, B!ClearCounter, B!CommitDone,
           B!GotOrLost, B!TentativeConnection, B!BindPacket, B!vars
  <2>2. powerOnCounter >= B!Plugs /\ bootPc = "bind"
    BY <2>1 DEF B!UpdateBindingMode
  <2> QED
    BY <2>2 DEF BootInv, BootTyped, CountsQuick, B!Plugs
<1>2. B!Spec => [][bound /\ ~InBindingMode /\ InBindingMode' => quick >= B!Plugs]_(B!vars)
  BY <1>1, BootInvariant, PTL DEF B!Spec
<1> QED
  BY <1>2 DEF OnlyAfterPlugs, B!OnlyAfterPlugs

-------------------------------------------------------------------------------
\* The values that are read.
LEMMA GetFacts ==
  ASSUME ServerTyped
  PROVE  /\ X!get \in [0 .. 2 -> 0 .. 3]
         /\ X!get[X!Rate] = rate /\ X!get[X!Antenna] = antenna
         /\ X!get[X!LinkMode] =
              IF pendingLinkMode # X!None THEN pendingLinkMode ELSE linkMode
BY DEF ServerTyped, X!get, X!Rate, X!Antenna, X!LinkMode, X!None

\* And those after a step.
LEMMA NextGetFacts ==
  ASSUME ServerTyped'
  PROVE  /\ X!get'[X!Rate] = rate' /\ X!get'[X!Antenna] = antenna'
         /\ X!get'[X!LinkMode] =
              IF pendingLinkMode' # X!None THEN pendingLinkMode' ELSE linkMode'
BY DEF ServerTyped, X!get, X!Rate, X!Antenna, X!LinkMode, X!None

\* A sequence in two parts.
LEMMA Joined ==
  ASSUME NEW S, NEW a \in Seq(S), NEW b \in Seq(S)
  PROVE  /\ a \o b \in Seq(S) /\ Len(a \o b) = Len(a) + Len(b)
         /\ \A j \in 1 .. Len(a) : (a \o b)[j] = a[j]
         /\ \A j \in 1 .. Len(b) : (a \o b)[Len(a) + j] = b[j]
<1>1. Len(a) \in Nat /\ Len(b) \in Nat
  OBVIOUS
<1>2. /\ a \o b \in Seq(S) /\ Len(a \o b) = Len(a) + Len(b)
      /\ \A j \in 1 .. Len(a) + Len(b) :
           (a \o b)[j] = IF j <= Len(a) THEN a[j] ELSE b[j - Len(a)]
  BY ConcatProperties, Zenon
<1> DEFINE la == Len(a)
           lb == Len(b)
           c == a \o b
<1>3. la \in Nat /\ lb \in Nat
      /\ \A j \in 1 .. la + lb : c[j] = IF j <= la THEN a[j] ELSE b[j - la]
  BY <1>1, <1>2, Zenon
<1> HIDE DEF la, lb, c
<1>4. \A j \in 1 .. la : c[j] = a[j]
  BY <1>3
<1>5. \A j \in 1 .. lb : c[la + j] = b[j]
  <2> TAKE j \in 1 .. lb
  <2>1. la + j \in 1 .. la + lb /\ ~(la + j <= la) /\ la + j - la = j
    BY <1>3
  <2> QED
    BY <1>3, <2>1
<1> QED
  BY <1>2, <1>4, <1>5, Zenon DEF la, lb, c

\* A sequence without its entry k.
Without(q, k) == SubSeq(q, 1, k - 1) \o SubSeq(q, k + 1, Len(q))

\* What is left is in its order.
LEMMA Removed ==
  ASSUME NEW S, NEW q \in Seq(S), NEW k \in 1 .. Len(q)
  PROVE  /\ Without(q, k) \in Seq(S) /\ Len(Without(q, k)) = Len(q) - 1
         /\ \A j \in 1 .. Len(q) - 1 :
              Without(q, k)[j] = IF j < k THEN q[j] ELSE q[j + 1]
<1>1. Len(q) \in Nat /\ k \in Nat
  OBVIOUS
<1>2. /\ SubSeq(q, 1, k - 1) \in Seq(S) /\ Len(SubSeq(q, 1, k - 1)) = k - 1
      /\ \A j \in 1 .. k - 1 : SubSeq(q, 1, k - 1)[j] = q[j]
  BY <1>1, SMT
<1>3. /\ SubSeq(q, k + 1, Len(q)) \in Seq(S) /\ Len(SubSeq(q, k + 1, Len(q))) = Len(q) - k
      /\ \A j \in 1 .. Len(q) - k : SubSeq(q, k + 1, Len(q))[j] = q[j + k]
  BY <1>1, SMT
<1> DEFINE a == SubSeq(q, 1, k - 1)
           b == SubSeq(q, k + 1, Len(q))
           c == Without(q, k)
           n == Len(q)
<1>4. a \in Seq(S) /\ b \in Seq(S) /\ c = a \o b /\ Len(a) = k - 1 /\ Len(b) = n - k
  BY <1>2, <1>3, Zenon DEF Without
<1>5. n \in Nat /\ \A j \in 1 .. k - 1 : a[j] = q[j]
  BY <1>1, <1>2
<1>6. \A j \in 1 .. n - k : b[j] = q[j + k]
  BY <1>3
<1> HIDE DEF a, b, c, n
<1>7. /\ c \in Seq(S) /\ Len(c) = (k - 1) + (n - k)
      /\ \A j \in 1 .. k - 1 : c[j] = a[j]
      /\ \A j \in 1 .. n - k : c[k - 1 + j] = b[j]
  <2>1. /\ a \o b \in Seq(S) /\ Len(a \o b) = Len(a) + Len(b)
        /\ \A j \in 1 .. Len(a) : (a \o b)[j] = a[j]
        /\ \A j \in 1 .. Len(b) : (a \o b)[Len(a) + j] = b[j]
    <3>1. a \in Seq(S) /\ b \in Seq(S)
      BY <1>4
    <3> QED
      BY <3>1, Joined
  <2>2. /\ c \in Seq(S) /\ Len(c) = Len(a) + Len(b)
        /\ \A j \in 1 .. Len(a) : c[j] = a[j]
        /\ \A j \in 1 .. Len(b) : c[Len(a) + j] = b[j]
    <3>1. c = a \o b
      BY <1>4
    <3> QED
      BY <2>1, <3>1, Zenon
  <2>3. Len(a) = k - 1 /\ Len(b) = n - k
    BY <1>4
  <2> QED
    BY <2>2, <2>3
<1>8. ASSUME NEW j \in 1 .. n - 1
      PROVE  c[j] = IF j < k THEN q[j] ELSE q[j + 1]
  <2>1. CASE j < k
    BY <1>1, <1>5, <1>7, <2>1
  <2>2. CASE ~(j < k)
    <3> DEFINE m == j - k + 1
    <3>1. m \in 1 .. n - k /\ k - 1 + m = j /\ m + k = j + 1
      BY <1>1, <1>5, <2>2
    <3> HIDE DEF m
    <3>2. c[k - 1 + m] = b[m] /\ b[m] = q[m + k]
      BY <1>6, <1>7, <3>1
    <3> QED
      BY <2>2, <3>1, <3>2
  <2> QED
    BY <2>1, <2>2
<1>9. Len(c) = n - 1
  BY <1>1, <1>5, <1>7
<1> QED
  BY <1>7, <1>8, <1>9, Zenon DEF c, n

\* The settings as they are read at first.
LEMMA ServerInitInv == X!Init => ServerInv
<1> SUFFICES ASSUME X!Init
             PROVE  ServerInv
  OBVIOUS
<1>1. /\ rate \in 0 .. 1 /\ antenna \in 0 .. 1 /\ (rate = 1 => antenna = 0)
      /\ linkMode = 1 /\ pendingLinkMode = -1 /\ deferred = <<>>
  BY DEF X!Init, X!SettingsInit, X!Gemini, X!TX_MAVLINK_MODE, X!None
<1>2. X!get \in [0 .. 2 -> 0 .. 3]
  BY <1>1 DEF X!get, X!Rate, X!Antenna, X!None
<1>3. /\ paramMask = {} /\ ~setReplyPending /\ overlooked = {}
      /\ snapshot = X!get /\ known = X!get
      /\ setIndex = CHOOSE p \in 0 .. 2 : \A j \in 0 .. 2 : p <= j
  BY DEF X!Init, X!ServerInit
<1>4. setIndex \in 0 .. 2
  <2>1. \E p \in 0 .. 2 : \A j \in 0 .. 2 : p <= j
    <3>1. 0 \in 0 .. 2 /\ \A j \in 0 .. 2 : 0 <= j
      OBVIOUS
    <3> QED
      BY <3>1
  <2> QED
    BY <1>3, <2>1, Zenon
<1>5. ServerTyped
  BY <1>1, <1>2, <1>3, <1>4
     DEF ServerTyped, X!None, X!maxDeferredFunctions
<1> QED
  BY <1>1, <1>3, <1>5
     DEF ServerInv, UnservedStays, DualBandIsGemini, RateIsAwaited, ChangesOnce,
         SinceSnapshot, Covered, CoveredAt, RateAt, X!None, X!Gemini, X!Serving,
         X!TX_MAVLINK_MODE

\* A function is put behind the others, or dropped.
LEMMA DeferFacts ==
  ASSUME ServerTyped, NEW f \in Functions, X!Defer(f)
  PROVE  /\ deferred' \in Seq(Functions) /\ Len(deferred') <= X!maxDeferredFunctions
         /\ \A j \in DOMAIN deferred' :
              \/ j \in DOMAIN deferred /\ deferred'[j] = deferred[j]
              \/ deferred'[j] = f /\ \A k \in DOMAIN deferred' : k <= j
BY DEF ServerTyped, X!Defer, X!maxDeferredFunctions

\* Where an entry was before entry k was taken out.
Old(j, k) == IF j < k THEN j ELSE j + 1

\* A function that has run leaves the others in their order.
LEMMA RunFacts ==
  ASSUME ServerTyped, NEW k \in DOMAIN deferred, deferred' = Without(deferred, k)
  PROVE  /\ deferred' \in Seq(Functions) /\ Len(deferred') <= X!maxDeferredFunctions
         /\ \A j \in DOMAIN deferred' :
              Old(j, k) \in DOMAIN deferred /\ Old(j, k) # k /\ deferred'[j] = deferred[Old(j, k)]
         /\ \A j, l \in DOMAIN deferred' : j < l => Old(j, k) < Old(l, k)
<1>1. deferred \in Seq(Functions) /\ k \in 1 .. Len(deferred) /\ Len(deferred) <= 3
  BY DEF ServerTyped, X!maxDeferredFunctions
<1>2. /\ Without(deferred, k) \in Seq(Functions)
      /\ Len(Without(deferred, k)) = Len(deferred) - 1
      /\ \A j \in 1 .. Len(deferred) - 1 :
           Without(deferred, k)[j] = IF j < k THEN deferred[j] ELSE deferred[j + 1]
  BY <1>1, Removed
<1> HIDE DEF Without
<1>3. /\ deferred' \in Seq(Functions) /\ Len(deferred') = Len(deferred) - 1
      /\ \A j \in 1 .. Len(deferred) - 1 :
           deferred'[j] = IF j < k THEN deferred[j] ELSE deferred[j + 1]
  BY <1>2, Zenon
<1> QED
  BY <1>1, <1>3 DEF Old, X!maxDeferredFunctions

\* An accepted write is to be answered, with what changes from now on.
LEMMA AcceptFacts ==
  ASSUME ServerTyped, NEW w \in 0 .. 2, X!Accept(w, X!get, FALSE)
  PROVE  /\ setReplyPending' /\ setIndex' = w /\ ~replyDue' /\ snapshot' = X!get
         /\ paramMask' \subseteq 0 .. 2 /\ overlooked' \subseteq 0 .. 2
         /\ paramMask \subseteq paramMask' /\ overlooked \subseteq overlooked'
BY DEF ServerTyped, X!Accept, X!TakeSnapshot, X!Differing

\* What the write before it is not told of any more is told at once, or overlooked.
LEMMA AcceptCovers ==
  ASSUME ServerTyped, NEW w \in 0 .. 2, X!Accept(w, X!get, FALSE), known' = known,
         NEW p \in 0 .. 2, CoveredAt(p), p = w \/ X!get'[p] = X!get[p]
  PROVE  CoveredAt(p)'
<1>1. /\ setReplyPending' /\ setIndex' = w
      /\ paramMask \subseteq paramMask' /\ overlooked \subseteq overlooked'
  BY AcceptFacts
<1>2. CASE p = w
  BY <1>1, <1>2 DEF CoveredAt
<1>3. CASE p # w
  <2>1. X!get'[p] = X!get[p]
    BY <1>3
  <2>2. CASE known[p] = X!get[p]
    BY <2>1, <2>2 DEF CoveredAt
  <2>3. CASE p \in paramMask \union overlooked
    BY <1>1, <2>3 DEF CoveredAt
  <2>4. CASE setReplyPending /\ p = setIndex
    BY <1>3, <2>4 DEF CoveredAt, X!Accept
  <2>5. CASE setReplyPending /\ snapshot[p] # X!get[p] /\ p # setIndex
    <3>1. p \in X!Differing(X!get)
      BY <2>5 DEF X!Differing
    <3>2. p \in paramMask \union overlooked'
      BY <2>5, <3>1 DEF X!Accept, X!TakeSnapshot
    <3> QED
      BY <1>1, <3>2 DEF CoveredAt
  <2> QED
    BY <2>2, <2>3, <2>4, <2>5 DEF CoveredAt
<1> QED
  BY <1>2, <1>3

\* A refused one is answered with its value.
LEMMA RefuseFacts ==
  ASSUME ServerTyped, NEW w \in 0 .. 2, X!Refuse(w, X!get)
  PROVE  /\ UNCHANGED <<setReplyPending, setIndex, replyDue>> /\ snapshot' = X!get
         /\ paramMask' \subseteq 0 .. 2 /\ overlooked' \subseteq 0 .. 2
         /\ paramMask \subseteq paramMask' /\ overlooked \subseteq overlooked'
BY DEF ServerTyped, X!Refuse, X!RejectSet, X!TakeSnapshot, X!Differing

\* Nor does a refusal lose what a write before it changed.
LEMMA RefuseCovers ==
  ASSUME ServerTyped, NEW w \in 0 .. 2, X!Refuse(w, X!get), known' = known,
         NEW p \in 0 .. 2, CoveredAt(p), X!get'[p] = X!get[p]
  PROVE  CoveredAt(p)'
<1>1. /\ UNCHANGED <<setReplyPending, setIndex>>
      /\ paramMask \subseteq paramMask' /\ overlooked \subseteq overlooked'
  BY RefuseFacts
<1>2. CASE known[p] = X!get[p]
  BY <1>2 DEF CoveredAt
<1>3. CASE p \in paramMask \union overlooked
  BY <1>1, <1>3 DEF CoveredAt
<1>4. CASE setReplyPending /\ p = setIndex
  BY <1>1, <1>4 DEF CoveredAt
<1>5. CASE setReplyPending /\ snapshot[p] # X!get[p] /\ p # setIndex
  <2>1. p \in X!Differing(X!get)
    BY <1>5 DEF X!Differing
  <2>2. p \in paramMask \union overlooked'
    BY <1>5, <2>1 DEF X!Refuse, X!TakeSnapshot
  <2> QED
    BY <1>1, <2>2 DEF CoveredAt
<1> QED
  BY <1>2, <1>3, <1>4, <1>5 DEF CoveredAt

\* setPacketRate.
LEMMA PacketRateStep ==
  ASSUME ServerInv, NEW v \in 0 .. 1, X!SetPacketRate(v)
  PROVE  ServerInv'
<1> DEFINE f == [of |-> X!Rate, to |-> v,
                 antenna |-> IF v = 1 THEN X!Gemini ELSE antenna]
<1>1. ServerTyped /\ X!Serving /\ X!Accept(X!Rate, X!get, FALSE) /\ known' = known
  BY DEF ServerInv, X!SetPacketRate, X!Request
<1>2. UNCHANGED <<rate, antenna, linkMode, pendingLinkMode>>
  BY DEF X!SetPacketRate
<1>3. X!get' = X!get
  BY <1>2 DEF X!get
<1>4. /\ setReplyPending' /\ setIndex' = X!Rate /\ ~replyDue' /\ snapshot' = X!get
      /\ paramMask' \subseteq 0 .. 2 /\ overlooked' \subseteq 0 .. 2
  BY <1>1, AcceptFacts DEF X!Rate
<1>5. f \in Functions /\ f.of = X!Rate /\ f.to = v
  BY <1>1 DEF Functions, ServerTyped, X!Gemini
<1>6. v # rate => f.antenna = X!Gemini
  BY <1>1 DEF ServerInv, ServerTyped, DualBandIsGemini, X!Gemini
<1> HIDE DEF f
<1>7. CASE v = rate
  <2>1. deferred' = deferred
    BY <1>7 DEF X!SetPacketRate
  <2> QED
    BY <1>1, <1>2, <1>3, <1>4, <2>1, AcceptCovers, GetFacts
       DEF ServerInv, ServerTyped, UnservedStays, DualBandIsGemini, RateIsAwaited, ChangesOnce,
           SinceSnapshot, Covered, RateAt, X!Serving, X!Rate, X!Antenna
<1>8. CASE v # rate
  <2>1. X!Defer(f)
    BY <1>8 DEF X!SetPacketRate, f
  <2>2. /\ deferred' \in Seq(Functions) /\ Len(deferred') <= X!maxDeferredFunctions
        /\ \A j \in DOMAIN deferred' :
             \/ j \in DOMAIN deferred /\ deferred'[j] = deferred[j]
             \/ deferred'[j] = f /\ \A k \in DOMAIN deferred' : k <= j
    BY <1>1, <1>5, <2>1, DeferFacts
  <2>3. ServerTyped'
    BY <1>1, <1>2, <1>4, <2>2, GetFacts DEF ServerTyped, X!Rate
  <2>4. UnservedStays' /\ RateIsAwaited'
    BY <1>1, <1>2, <1>4 DEF UnservedStays, RateIsAwaited, X!Serving
  <2>5. DualBandIsGemini'
    BY <1>2, <1>6, <1>8, <2>2 DEF ServerInv, DualBandIsGemini, RateAt
  <2>6. ChangesOnce'
    <3> SUFFICES ASSUME NEW j \in DOMAIN deferred', NEW k \in DOMAIN deferred',
                        RateAt(j)', RateAt(k)', j < k, deferred'[j].to # rate
                 PROVE  deferred'[k].to # rate
      BY <1>2 DEF ChangesOnce
    <3>0. j \in Nat /\ k \in Nat
      BY <2>2
    <3>1. CASE deferred'[k] = f
      BY <1>5, <1>8, <3>1
    <3>2. CASE deferred'[k] # f
      <4>1. k \in DOMAIN deferred /\ deferred'[k] = deferred[k]
        BY <2>2, <3>2
      <4>2. j \in DOMAIN deferred /\ deferred'[j] = deferred[j]
        BY <2>2, <3>0
      <4> QED
        BY <4>1, <4>2 DEF ServerInv, ChangesOnce, RateAt
    <3> QED
      BY <3>1, <3>2
  <2>7. SinceSnapshot'
    BY <1>1, <1>2, <1>4, GetFacts DEF SinceSnapshot, X!Rate, X!Antenna
  <2>8. Covered'
    BY <1>1, <1>3, AcceptCovers DEF ServerInv, Covered, X!Rate
  <2> QED
    BY <2>3, <2>4, <2>5, <2>6, <2>7, <2>8 DEF ServerInv
<1> QED
  BY <1>7, <1>8

\* setAntennaMode.
LEMMA AntennaStep ==
  ASSUME ServerInv, NEW v \in 0 .. 1, X!SetAntennaMode(v)
  PROVE  ServerInv'
<1>1. ServerTyped /\ X!Serving /\ known' = known
  BY DEF ServerInv, X!SetAntennaMode, X!Request
<1>2. UNCHANGED <<rate, linkMode, pendingLinkMode, deferred>>
  BY DEF X!SetAntennaMode
<1>3. UnservedStays' /\ ChangesOnce'
  BY <1>2 DEF ServerInv, UnservedStays, ChangesOnce, RateAt, X!Serving
<1>4. CASE rate = 1 /\ v # X!Gemini
  <2>1. X!Refuse(X!Antenna, X!get) /\ antenna' = antenna
    BY <1>4 DEF X!SetAntennaMode
  <2>2. X!get' = X!get
    BY <1>2, <2>1 DEF X!get
  <2>3. /\ UNCHANGED <<setReplyPending, setIndex, replyDue>> /\ snapshot' = X!get
        /\ paramMask' \subseteq 0 .. 2 /\ overlooked' \subseteq 0 .. 2
    BY <1>1, <2>1, RefuseFacts DEF X!Antenna
  <2>4. ServerTyped' /\ DualBandIsGemini' /\ RateIsAwaited' /\ SinceSnapshot'
    BY <1>1, <1>2, <2>1, <2>3, GetFacts
       DEF ServerInv, ServerTyped, DualBandIsGemini, RateIsAwaited, SinceSnapshot, RateAt
  <2>5. Covered'
    BY <1>1, <1>2, <2>1, <2>2, RefuseCovers DEF ServerInv, Covered, X!Antenna
  <2> QED
    BY <1>3, <2>4, <2>5 DEF ServerInv
<1>5. CASE ~(rate = 1 /\ v # X!Gemini)
  <2>1. X!Accept(X!Antenna, X!get, FALSE) /\ antenna' = v
    BY <1>5 DEF X!SetAntennaMode
  <2>2. /\ setReplyPending' /\ setIndex' = X!Antenna /\ ~replyDue' /\ snapshot' = X!get
        /\ paramMask' \subseteq 0 .. 2 /\ overlooked' \subseteq 0 .. 2
    BY <1>1, <2>1, AcceptFacts DEF X!Antenna
  <2>3. ServerTyped'
    BY <1>1, <1>2, <2>1, <2>2, GetFacts DEF ServerTyped, X!Antenna
  <2>4. DualBandIsGemini' /\ RateIsAwaited' /\ SinceSnapshot'
    BY <1>1, <1>2, <1>5, <2>1, <2>2, GetFacts
       DEF ServerInv, DualBandIsGemini, RateIsAwaited, SinceSnapshot, RateAt
  <2>5. \A p \in 0 .. 2 : p = X!Antenna \/ X!get'[p] = X!get[p]
    BY <1>1, <1>2, <2>3, GetFacts, NextGetFacts DEF X!Rate, X!LinkMode, X!Antenna
  <2>6. Covered'
    BY <1>1, <2>1, <2>5, AcceptCovers DEF ServerInv, Covered, X!Antenna
  <2> QED
    BY <1>3, <2>3, <2>4, <2>6 DEF ServerInv
<1> QED
  BY <1>4, <1>5

\* setLinkMode.
LEMMA LinkModeStep ==
  ASSUME ServerInv, NEW v \in 0 .. 1, X!SetLinkMode(v)
  PROVE  ServerInv'
<1> DEFINE f == [of |-> X!LinkMode, to |-> v, antenna |-> X!None]
<1>1. ServerTyped /\ X!Serving /\ X!Accept(X!LinkMode, X!get, FALSE) /\ known' = known
  BY DEF ServerInv, X!SetLinkMode, X!Request
<1>2. UNCHANGED <<rate, antenna, linkMode>>
  BY DEF X!SetLinkMode
<1>3. /\ setReplyPending' /\ setIndex' = X!LinkMode /\ ~replyDue' /\ snapshot' = X!get
      /\ paramMask' \subseteq 0 .. 2 /\ overlooked' \subseteq 0 .. 2
  BY <1>1, AcceptFacts DEF X!LinkMode
<1>4. f \in Functions /\ f.of # X!Rate
  BY DEF Functions, X!LinkMode, X!Rate, X!None
<1> HIDE DEF f
<1>5. /\ deferred' \in Seq(Functions) /\ Len(deferred') <= X!maxDeferredFunctions
      /\ \A j \in DOMAIN deferred' :
           \/ j \in DOMAIN deferred /\ deferred'[j] = deferred[j]
           \/ deferred'[j] = f
      /\ pendingLinkMode' \in {pendingLinkMode, v}
  <2>1. CASE v = X!get[X!LinkMode]
    BY <1>1, <2>1 DEF X!SetLinkMode, ServerTyped
  <2>2. CASE v # X!get[X!LinkMode]
    <3>1. X!Defer(f) /\ pendingLinkMode' = v
      BY <2>2 DEF X!SetLinkMode, f
    <3> QED
      BY <1>1, <1>4, <3>1, DeferFacts
  <2> QED
    BY <2>1, <2>2
<1>6. \A j \in DOMAIN deferred' : RateAt(j)' => RateAt(j) /\ deferred'[j] = deferred[j]
  BY <1>4, <1>5 DEF RateAt
<1>7. ServerTyped'
  BY <1>1, <1>2, <1>3, <1>5, GetFacts DEF ServerTyped, X!LinkMode
<1>8. UnservedStays' /\ RateIsAwaited'
  BY <1>1, <1>2, <1>3 DEF UnservedStays, RateIsAwaited, X!Serving
<1>9. DualBandIsGemini' /\ ChangesOnce'
  BY <1>2, <1>6 DEF ServerInv, DualBandIsGemini, ChangesOnce, RateAt
<1>10. SinceSnapshot'
  BY <1>1, <1>2, <1>3, GetFacts DEF SinceSnapshot, X!LinkMode, X!Rate, X!Antenna
<1>11. \A p \in 0 .. 2 : p = X!LinkMode \/ X!get'[p] = X!get[p]
  BY <1>1, <1>2, <1>7, GetFacts, NextGetFacts DEF X!Rate, X!LinkMode, X!Antenna
<1>12. Covered'
  BY <1>1, <1>11, AcceptCovers DEF ServerInv, Covered, X!LinkMode
<1> QED
  BY <1>7, <1>8, <1>9, <1>10, <1>12 DEF ServerInv

\* A step that leaves the settings and their functions alone, and refuses no write nor
\* takes one.
LEMMA AnswerStep ==
  ASSUME ServerInv, UNCHANGED <<X!settingVars, snapshot, setIndex>>,
         paramMask' \subseteq 0 .. 2, overlooked' \subseteq 0 .. 2,
         known' \in [0 .. 2 -> 0 .. 3],
         setReplyPending' => setReplyPending,
         (\E k \in DOMAIN deferred : RateAt(k)) => setReplyPending' /\ ~replyDue',
         \A p \in 0 .. 2 : CoveredAt(p) => CoveredAt(p)'
  PROVE  ServerInv'
<1>1. UNCHANGED <<rate, antenna, linkMode, pendingLinkMode, deferred, snapshot, setIndex>>
  BY DEF X!settingVars
<1>2. ServerTyped'
  BY <1>1 DEF ServerInv, ServerTyped
<1>3. UnservedStays' /\ DualBandIsGemini' /\ RateIsAwaited' /\ ChangesOnce'
  BY <1>1 DEF ServerInv, UnservedStays, DualBandIsGemini, RateIsAwaited, ChangesOnce,
              RateAt, X!Serving
<1>4. SinceSnapshot'
  BY <1>1 DEF ServerInv, SinceSnapshot, RateAt
<1>5. Covered'
  BY <1>1 DEF ServerInv, Covered, X!Serving
<1> QED
  BY <1>2, <1>3, <1>4, <1>5 DEF ServerInv

\* A refused write.
LEMMA RefusedStep ==
  ASSUME ServerInv, NEW w \in 0 .. 2, X!SetRefused(w)
  PROVE  ServerInv'
<1>1. ServerTyped /\ X!Refuse(w, X!get) /\ known' = known /\ UNCHANGED X!settingVars
  BY DEF ServerInv, X!SetRefused, X!Request
<1>2. UNCHANGED <<rate, antenna, linkMode, pendingLinkMode, deferred>>
  BY <1>1 DEF X!settingVars
<1>3. X!get' = X!get
  BY <1>2 DEF X!get
<1>4. /\ UNCHANGED <<setReplyPending, setIndex, replyDue>> /\ snapshot' = X!get
      /\ paramMask' \subseteq 0 .. 2 /\ overlooked' \subseteq 0 .. 2
  BY <1>1, RefuseFacts
<1>5. ServerTyped' /\ UnservedStays' /\ DualBandIsGemini' /\ RateIsAwaited' /\ ChangesOnce'
  BY <1>1, <1>2, <1>4, GetFacts
     DEF ServerInv, ServerTyped, UnservedStays, DualBandIsGemini, RateIsAwaited, ChangesOnce,
         RateAt, X!Serving
<1>6. SinceSnapshot'
  BY <1>1, <1>2, <1>4, GetFacts DEF SinceSnapshot
<1>7. Covered'
  BY <1>1, <1>2, <1>3, RefuseCovers DEF ServerInv, Covered, X!Serving
<1> QED
  BY <1>5, <1>6, <1>7 DEF ServerInv

\* Reads, and requests for other answers.
LEMMA ReadStep ==
  ASSUME ServerInv, X!ReadOrAsk
  PROVE  ServerInv'
<1>1. /\ UNCHANGED <<X!settingVars, known, overlooked>>
      /\ UNCHANGED <<setReplyPending, setIndex, replyDue, snapshot>>
      /\ paramMask' \subseteq 0 .. 2 /\ paramMask \subseteq paramMask'
  BY DEF ServerInv, ServerTyped, X!ReadOrAsk, X!Request, X!RequestList, X!RequestRead, X!Ask,
         X!setVars
<1>2. X!get' = X!get
  BY <1>1 DEF X!settingVars, X!get
<1>3. \A p \in 0 .. 2 : CoveredAt(p) => CoveredAt(p)'
  BY <1>1, <1>2 DEF CoveredAt
<1>4. overlooked' \subseteq 0 .. 2 /\ known' \in [0 .. 2 -> 0 .. 3]
  BY <1>1 DEF ServerInv, ServerTyped
<1>5. setReplyPending' => setReplyPending
  BY <1>1
<1>6. (\E k \in DOMAIN deferred : RateAt(k)) => setReplyPending' /\ ~replyDue'
  BY <1>1 DEF ServerInv, RateIsAwaited
<1>7. UNCHANGED <<X!settingVars, snapshot, setIndex>>
  BY <1>1
<1> QED
  BY <1>1, <1>3, <1>4, <1>5, <1>6, <1>7, AnswerStep, Zenon

\* A reply that falls due.
LEMMA FallsDueStep ==
  ASSUME ServerInv, X!ReplyDelayPasses
  PROVE  ServerInv'
<1>1. /\ UNCHANGED <<X!settingVars, known, overlooked, paramMask>>
      /\ UNCHANGED <<setReplyPending, setIndex, snapshot>>
      /\ \A k \in DOMAIN deferred : ~RateAt(k)
  BY DEF X!ReplyDelayPasses, X!ReplyFallsDue, RateAt
<1>2. X!get' = X!get
  BY <1>1 DEF X!settingVars, X!get
<1>3. \A p \in 0 .. 2 : CoveredAt(p) => CoveredAt(p)'
  BY <1>1, <1>2 DEF CoveredAt
<1>4. paramMask' \subseteq 0 .. 2 /\ overlooked' \subseteq 0 .. 2
      /\ known' \in [0 .. 2 -> 0 .. 3]
  BY <1>1 DEF ServerInv, ServerTyped
<1>5. setReplyPending' => setReplyPending
  BY <1>1
<1>6. (\E k \in DOMAIN deferred : RateAt(k)) => setReplyPending' /\ ~replyDue'
  BY <1>1
<1>7. UNCHANGED <<X!settingVars, snapshot, setIndex>>
  BY <1>1
<1> QED
  BY <1>3, <1>4, <1>5, <1>6, <1>7, AnswerStep, Zenon

\* TxMavlink_Update: what is due and is not sent stays wanted.
LEMMA UpdateStep ==
  ASSUME ServerInv, X!Update
  PROVE  ServerInv'
<1>1. PICK answers \in SUBSET replies, params \in SUBSET X!Wanted(X!get) :
        X!Tick(X!get, answers, params) /\ X!Learn(params, X!get)
  BY DEF X!Update
<1>2. UNCHANGED X!settingVars
  BY DEF X!Update
<1>3. /\ setReplyPending' => setReplyPending /\ ~replyDue
      /\ setReplyPending /\ ~replyDue => setReplyPending'
  BY <1>1, Zenon DEF X!Tick
<1>4. /\ ~replyDue' /\ UNCHANGED <<setIndex, snapshot>>
      /\ paramMask' = X!Wanted(X!get) \ params /\ overlooked' = overlooked \ params
  BY <1>1 DEF X!Tick
<1>5. known' = [p \in 0 .. 2 |-> IF p \in params THEN X!get[p] ELSE known[p]]
  BY <1>1 DEF X!Learn
<1>6. X!get' = X!get
  BY <1>2 DEF X!settingVars, X!get
<1>7. X!get \in [0 .. 2 -> 0 .. 3] /\ known \in [0 .. 2 -> 0 .. 3]
      /\ overlooked \subseteq 0 .. 2 /\ paramMask \subseteq 0 .. 2 /\ setIndex \in 0 .. 2
  BY GetFacts DEF ServerInv, ServerTyped
<1>8. X!Wanted(X!get) \subseteq 0 .. 2
  BY <1>7 DEF X!Wanted, X!Differing
<1>9. paramMask \subseteq X!Wanted(X!get)
  BY DEF X!Wanted
<1>10. ASSUME NEW p \in 0 .. 2, setReplyPending, replyDue,
              p = setIndex \/ snapshot[p] # X!get[p]
       PROVE  p \in X!Wanted(X!get)
  BY <1>10 DEF X!Wanted, X!Differing
<1>11. ASSUME NEW p \in 0 .. 2, CoveredAt(p)
       PROVE  CoveredAt(p)'
  <2>1. CASE p \in params
    BY <1>5, <1>6, <2>1 DEF CoveredAt
  <2>2. CASE p \notin params
    <3>1. known'[p] = known[p]
      BY <1>5, <2>2
    <3>2. CASE known[p] = X!get[p]
      BY <1>6, <3>1, <3>2 DEF CoveredAt
    <3>3. CASE p \in paramMask \union overlooked
      BY <1>4, <1>9, <2>2, <3>3 DEF CoveredAt
    <3>4. CASE setReplyPending /\ (p = setIndex \/ snapshot[p] # X!get[p])
      <4>1. CASE replyDue
        <5>1. p \in X!Wanted(X!get)
          BY <1>10, <3>4, <4>1
        <5> QED
          BY <1>4, <2>2, <5>1 DEF CoveredAt
      <4>2. CASE ~replyDue
        BY <1>3, <1>4, <1>6, <3>4, <4>2 DEF CoveredAt
      <4> QED
        BY <4>1, <4>2
    <3> QED
      BY <1>11, <3>2, <3>3, <3>4 DEF CoveredAt
  <2> QED
    BY <2>1, <2>2
<1>12. /\ paramMask' \subseteq 0 .. 2 /\ overlooked' \subseteq 0 .. 2
       /\ known' \in [0 .. 2 -> 0 .. 3]
  BY <1>4, <1>5, <1>7, <1>8
<1>13. (\E k \in DOMAIN deferred : RateAt(k)) => setReplyPending' /\ ~replyDue'
  BY <1>3, <1>4 DEF ServerInv, RateIsAwaited
<1>14. UNCHANGED <<X!settingVars, snapshot, setIndex>>
  BY <1>2, <1>4
<1>15. setReplyPending' => setReplyPending
  BY <1>3
<1> QED
  BY <1>11, <1>12, <1>13, <1>14, <1>15, AnswerStep, Zenon

\* The deferred function of a rate: the reply that is awaited for it covers what it
\* changes.
LEMMA RunRateStep ==
  ASSUME ServerInv, NEW k \in DOMAIN deferred, X!RunDeferred(k), RateAt(k)
  PROVE  ServerInv'
<1>1. /\ deferred' = Without(deferred, k)
      /\ rate' = deferred[k].to /\ antenna' = deferred[k].antenna
      /\ UNCHANGED <<linkMode, pendingLinkMode, known>>
      /\ UNCHANGED X!serverVars
  BY DEF X!RunDeferred, RateAt, Without
<1>2. UNCHANGED <<paramMask, setReplyPending, setIndex, replyDue, snapshot, overlooked>>
  BY <1>1 DEF X!serverVars
<1>3. \A j \in 1 .. k - 1 : ~RateAt(j)
  BY DEF X!RunDeferred, RateAt
<1>4. /\ deferred' \in Seq(Functions) /\ Len(deferred') <= X!maxDeferredFunctions
      /\ \A j \in DOMAIN deferred' :
           Old(j, k) \in DOMAIN deferred /\ Old(j, k) # k /\ deferred'[j] = deferred[Old(j, k)]
      /\ \A j, l \in DOMAIN deferred' : j < l => Old(j, k) < Old(l, k)
  BY <1>1, RunFacts DEF ServerInv
<1>5. \A j \in DOMAIN deferred : j \in Nat /\ j > 0 /\ deferred[j] \in Functions
  BY DEF ServerInv, ServerTyped
<1>6. /\ setReplyPending /\ ~replyDue
      /\ rate \in 0 .. 1 /\ rate' \in 0 .. 1 /\ antenna' = X!Gemini /\ antenna \in 0 .. 1
  BY <1>1, <1>5 DEF ServerInv, ServerTyped, DualBandIsGemini, RateIsAwaited, RateAt, Functions
<1>7. \A j \in DOMAIN deferred' :
        RateAt(j)' => RateAt(Old(j, k)) /\ k < Old(j, k) /\ deferred[Old(j, k)].to \in 0 .. 1
  BY <1>3, <1>4, <1>5 DEF RateAt, Functions
\* Once the rate has changed, the functions behind keep it.
<1>8. ASSUME rate' # rate, NEW j \in DOMAIN deferred', RateAt(j)'
      PROVE  deferred'[j].to = rate'
  <2>1. RateAt(Old(j, k)) /\ k < Old(j, k) /\ deferred'[j] = deferred[Old(j, k)]
    BY <1>4, <1>7, <1>8
  <2>2. deferred[Old(j, k)].to # rate
    BY <1>1, <1>4, <1>8, <2>1 DEF ServerInv, ChangesOnce
  <2> QED
    BY <1>6, <1>7, <1>8, <2>1, <2>2
<1>9. ServerTyped'
  BY <1>1, <1>2, <1>4, <1>6 DEF ServerInv, ServerTyped, X!Gemini
<1>10. UnservedStays' /\ RateIsAwaited'
  BY <1>1, <1>2, <1>6 DEF ServerInv, UnservedStays, RateIsAwaited, X!Serving
<1>11. DualBandIsGemini'
  BY <1>4, <1>6, <1>7 DEF ServerInv, DualBandIsGemini
<1>12. ChangesOnce'
  <2> SUFFICES ASSUME NEW j \in DOMAIN deferred', NEW l \in DOMAIN deferred',
                      RateAt(j)', RateAt(l)', j < l, deferred'[j].to # rate'
               PROVE  deferred'[l].to # rate'
    BY DEF ChangesOnce
  <2>1. rate' = rate
    BY <1>8
  <2>2. /\ RateAt(Old(j, k)) /\ RateAt(Old(l, k)) /\ Old(j, k) < Old(l, k)
        /\ deferred'[j] = deferred[Old(j, k)] /\ deferred'[l] = deferred[Old(l, k)]
    BY <1>4, <1>7
  <2> QED
    BY <1>4, <2>1, <2>2 DEF ServerInv, ChangesOnce
<1>13. SinceSnapshot'
  <2>1. ASSUME setIndex # X!Rate, rate' # snapshot[X!Rate], NEW j \in DOMAIN deferred',
               RateAt(j)'
        PROVE  deferred'[j].to = rate'
    <3>1. CASE rate' # rate
      BY <1>8, <2>1, <3>1
    <3>2. CASE rate' = rate
      BY <1>4, <1>6, <1>7, <2>1, <3>2 DEF ServerInv, SinceSnapshot
    <3> QED
      BY <3>1, <3>2
  <2> QED
    BY <1>2, <1>6, <2>1 DEF SinceSnapshot
<1>14. ASSUME NEW p \in 0 .. 2, CoveredAt(p)
       PROVE  CoveredAt(p)'
  <2>1. CASE X!get'[p] = X!get[p]
    BY <1>1, <1>2, <1>14, <2>1 DEF CoveredAt
  <2>2. CASE X!get'[p] # X!get[p]
    <3>1. \/ p = X!Rate /\ rate' # rate
          \/ p = X!Antenna /\ antenna = 1
      <4>1. p = X!Rate \/ p = X!Antenna \/ p = X!LinkMode
        BY DEF X!Rate, X!Antenna, X!LinkMode
      <4>2. X!get'[X!LinkMode] = X!get[X!LinkMode]
        BY <1>1, <1>9, GetFacts, NextGetFacts DEF ServerInv
      <4>3. X!get'[X!Rate] = rate' /\ X!get[X!Rate] = rate
        BY <1>9, GetFacts, NextGetFacts DEF ServerInv
      <4>4. X!get'[X!Antenna] = antenna' /\ X!get[X!Antenna] = antenna
        BY <1>9, GetFacts, NextGetFacts DEF ServerInv
      <4>5. antenna' # antenna => antenna = 1
        BY <1>6 DEF X!Gemini
      <4> QED
        BY <2>2, <4>1, <4>2, <4>3, <4>4, <4>5
    <3>2. CASE p = setIndex
      BY <1>2, <1>6, <3>2 DEF CoveredAt
    <3>3. CASE p # setIndex /\ p = X!Rate /\ rate' # rate
      <4>1. snapshot[X!Rate] = rate
        BY <1>1, <1>6, <3>3 DEF ServerInv, SinceSnapshot
      <4> QED
        BY <1>2, <1>6, <1>9, <3>3, <4>1, NextGetFacts DEF CoveredAt
    <3>4. CASE p # setIndex /\ p = X!Antenna /\ antenna = 1
      <4>1. snapshot[X!Antenna] = 1
        BY <1>6, <3>4 DEF ServerInv, SinceSnapshot, X!Gemini
      <4> QED
        BY <1>2, <1>6, <1>9, <3>4, <4>1, NextGetFacts DEF CoveredAt, X!Gemini
    <3> QED
      BY <3>1, <3>2, <3>3, <3>4
  <2> QED
    BY <2>1, <2>2
<1>15. Covered'
  BY <1>1, <1>14 DEF ServerInv, Covered, X!Serving
<1> QED
  BY <1>9, <1>10, <1>11, <1>12, <1>13, <1>15 DEF ServerInv

\* That of the link mode stores what is read already, or a mode that is not served.
LEMMA RunLinkStep ==
  ASSUME ServerInv, NEW k \in DOMAIN deferred, X!RunDeferred(k), ~RateAt(k)
  PROVE  ServerInv'
<1>1. /\ deferred' = Without(deferred, k)
      /\ linkMode' = pendingLinkMode % 4 /\ pendingLinkMode' = X!None
      /\ UNCHANGED <<rate, antenna, known>>
      /\ UNCHANGED X!serverVars
  BY DEF X!RunDeferred, RateAt, Without
<1>2. UNCHANGED <<paramMask, setReplyPending, setIndex, replyDue, snapshot, overlooked>>
  BY <1>1 DEF X!serverVars
<1>3. /\ deferred' \in Seq(Functions) /\ Len(deferred') <= X!maxDeferredFunctions
      /\ \A j \in DOMAIN deferred' :
           Old(j, k) \in DOMAIN deferred /\ Old(j, k) # k /\ deferred'[j] = deferred[Old(j, k)]
      /\ \A j, l \in DOMAIN deferred' : j < l => Old(j, k) < Old(l, k)
  BY <1>1, RunFacts DEF ServerInv
<1>4. \A j \in DOMAIN deferred' : RateAt(j)' => RateAt(Old(j, k))
  BY <1>3 DEF RateAt
<1>5. \/ pendingLinkMode = -1 /\ linkMode' = 3
      \/ pendingLinkMode = 0 /\ linkMode' = 0
      \/ pendingLinkMode = 1 /\ linkMode' = 1
  <2>1. pendingLinkMode = -1 \/ pendingLinkMode = 0 \/ pendingLinkMode = 1
    BY DEF ServerInv, ServerTyped, X!None
  <2>2. \A a \in Int : a < 0 /\ a > -2 => a % 4 = 3
    OBVIOUS
  <2>3. 0 % 4 = 0 /\ 1 % 4 = 1
    OBVIOUS
  <2>4. ASSUME pendingLinkMode = -1
        PROVE  pendingLinkMode % 4 = 3
    <3>1. pendingLinkMode \in Int /\ pendingLinkMode < 0 /\ pendingLinkMode > -2
      BY <2>4
    <3> QED
      BY <2>2, <3>1, Zenon
  <2> QED
    BY <1>1, <2>1, <2>3, <2>4
<1>6. ServerTyped'
  BY <1>1, <1>2, <1>3, <1>5 DEF ServerInv, ServerTyped
<1>7. UnservedStays'
  BY <1>1 DEF UnservedStays
<1>8. DualBandIsGemini' /\ RateIsAwaited' /\ SinceSnapshot'
  BY <1>1, <1>2, <1>3, <1>4 DEF ServerInv, DualBandIsGemini, RateIsAwaited, SinceSnapshot
<1>9. ChangesOnce'
  BY <1>1, <1>3, <1>4 DEF ServerInv, ChangesOnce
<1>10. ASSUME X!Serving'
       PROVE  X!Serving /\ X!get'[X!LinkMode] = X!get[X!LinkMode]
  BY <1>1, <1>5, <1>6, <1>10, GetFacts, NextGetFacts
     DEF ServerInv, UnservedStays, X!Serving, X!None, X!TX_MAVLINK_MODE
<1>11. ASSUME X!Serving', NEW p \in 0 .. 2
       PROVE  CoveredAt(p)'
  <2>1. X!get'[p] = X!get[p]
    BY <1>1, <1>6, <1>10, <1>11, GetFacts, NextGetFacts
       DEF ServerInv, X!Rate, X!Antenna, X!LinkMode
  <2>2. CoveredAt(p)
    BY <1>10, <1>11 DEF ServerInv, Covered
  <2> QED
    BY <1>1, <1>2, <2>1, <2>2 DEF CoveredAt
<1>12. Covered'
  BY <1>11 DEF Covered
<1> QED
  BY <1>6, <1>7, <1>8, <1>9, <1>12 DEF ServerInv

\* Every step of the transmitter's settings and their server keeps the invariant.
LEMMA ServerStep == ServerInv /\ [X!Next]_(X!vars) => ServerInv'
<1> SUFFICES ASSUME ServerInv, [X!Next]_(X!vars)
             PROVE  ServerInv'
  OBVIOUS
<1>1. ASSUME NEW v \in 0 .. 1, X!SetPacketRate(v) \/ X!SetAntennaMode(v) \/ X!SetLinkMode(v)
      PROVE  ServerInv'
  BY <1>1, PacketRateStep, AntennaStep, LinkModeStep
<1>2. ASSUME NEW w \in 0 .. 2, X!SetRefused(w)
      PROVE  ServerInv'
  BY <1>2, RefusedStep
<1>3. CASE X!ReadOrAsk
  BY <1>3, ReadStep
<1>4. ASSUME NEW k \in 1 .. X!maxDeferredFunctions, X!RunDeferred(k)
      PROVE  ServerInv'
  <2>1. k \in DOMAIN deferred
    BY <1>4 DEF X!RunDeferred
  <2> QED
    BY <1>4, <2>1, RunRateStep, RunLinkStep
<1>5. CASE X!ReplyDelayPasses \/ X!Update
  BY <1>5, FallsDueStep, UpdateStep
<1>6. CASE UNCHANGED X!vars
  <2>1. UNCHANGED <<rate, antenna, linkMode, pendingLinkMode, deferred, known, paramMask,
                    setReplyPending, setIndex, replyDue, snapshot, overlooked>>
    BY <1>6 DEF X!vars, X!settingVars, X!serverVars
  <2>2. X!get' = X!get
    BY <2>1 DEF X!get
  <2> QED
    BY <2>1, <2>2
       DEF ServerInv, ServerTyped, UnservedStays, DualBandIsGemini, RateIsAwaited, ChangesOnce,
           SinceSnapshot, Covered, CoveredAt, RateAt, X!Serving
<1> QED
  BY <1>1, <1>2, <1>3, <1>4, <1>5, <1>6 DEF X!Next

\* What the ground station does not know of the settings is on its way to it.
THEOREM ServerInvariant == X!Spec => []ServerInv
<1> QED
  BY ServerInitInv, ServerStep, PTL DEF X!Spec

\* MavParamServer, tx_mavlink.cpp: once nothing waits, the ground station knows every
\* setting as it is, whatever was written, refused or overtaken, except for what a write
\* brought along whose reply was overtaken by another one.
THEOREM TellsWhatChanged == X!Spec => []ToldWhatChanged
<1>1. ServerInv => ToldWhatChanged
  BY DEF ServerInv, Covered, CoveredAt, ToldWhatChanged, X!ToldWhatChanged, X!Quiet,
         X!HasPendingOutput
<1> QED
  BY <1>1, ServerInvariant, PTL

-------------------------------------------------------------------------------
\* A number is so many whole blocks and a rest.
LEMMA Divides ==
  ASSUME NEW n \in Nat, NEW m \in Nat \ {0}
  PROVE  n \div m \in Nat /\ n % m \in 0 .. m - 1 /\ n = (m * (n \div m)) + (n % m)
OBVIOUS

\* And in one way only.
LEMMA DividesOnce ==
  ASSUME NEW n \in Nat, NEW m \in Nat \ {0}, NEW q \in Nat, NEW r \in 0 .. m - 1,
         n = (m * q) + r
  PROVE  n \div m = q /\ n % m = r
OBVIOUS

\* The sequence is made of whole blocks, of two channels or more.
LEMMA WholeBlocks ==
  /\ FreqCount \in Nat \ {0} /\ FreqCount >= 2
  /\ SyncChannel \in 1 .. FreqCount - 1
  /\ HopInterval \in Nat \ {0} /\ Window \in Nat \ {0}
  /\ \E b \in Nat \ {0} : H!SequenceCount = FreqCount * b
  /\ H!SequenceCount \in Nat \ {0}
<1>1. H!SequenceAssumption
  BY StructuresAssumption DEF StructuresAssumption
<1>2. /\ FreqCount \in Nat \ {0} /\ FreqCount >= 2 /\ SequenceLen \in Nat
      /\ FreqCount <= SequenceLen
  BY <1>1 DEF H!SequenceAssumption
<1> DEFINE b == SequenceLen \div FreqCount
           r == SequenceLen % FreqCount
<1>3. b \in Nat /\ r \in 0 .. FreqCount - 1 /\ SequenceLen = (FreqCount * b) + r
  BY <1>2, Divides
<1>4. H!SequenceCount = b * FreqCount
  BY DEF H!SequenceCount
<1> HIDE DEF b, r
<1>5. b # 0
  <2>1. b = 0 => FreqCount * b = 0
    BY <1>2
  <2> QED
    BY <1>2, <1>3, <2>1
<1>6. b * FreqCount = FreqCount * b /\ FreqCount * b \in Nat
  BY <1>2, <1>3
<1>7. FreqCount * b # 0
  BY <1>2, <1>3, <1>5
<1>8. b \in Nat \ {0} /\ H!SequenceCount = FreqCount * b /\ H!SequenceCount \in Nat \ {0}
  BY <1>3, <1>4, <1>5, <1>6, <1>7
<1> QED
  BY <1>1, <1>2, <1>8 DEF H!SequenceAssumption

\* An entry is the start of its block and the place in it.
LEMMA EntryFacts ==
  ASSUME NEW e \in H!Entries
  PROVE  /\ e \in Nat /\ H!Offset(e) \in Nat /\ e % FreqCount \in 0 .. FreqCount - 1
         /\ e = H!Offset(e) + (e % FreqCount)
         /\ H!StartsBlock(e) <=> e % FreqCount = 0
<1>1. FreqCount \in Nat \ {0} /\ H!SequenceCount \in Nat
  BY WholeBlocks
<1>2. e \in Nat
  BY <1>1 DEF H!Entries
<1> DEFINE q == e \div FreqCount
           r == e % FreqCount
<1>3. q \in Nat /\ r \in 0 .. FreqCount - 1 /\ e = (FreqCount * q) + r
  BY <1>1, <1>2, Divides
<1>4. H!Offset(e) = q * FreqCount /\ (H!StartsBlock(e) <=> r = 0)
  BY DEF H!Offset, H!StartsBlock
<1> HIDE DEF q
<1>5. q * FreqCount = FreqCount * q /\ q * FreqCount \in Nat
  BY <1>1, <1>3
<1> QED
  BY <1>2, <1>3, <1>4, <1>5

\* The entry that is drawn is one of the same block, and not its first.
LEMMA DrawnEntry ==
  ASSUME NEW e \in H!Entries, NEW rand \in H!Random
  PROVE  /\ H!Offset(e) + rand \in H!Entries
         /\ H!Offset(H!Offset(e) + rand) = H!Offset(e)
         /\ ~H!StartsBlock(H!Offset(e) + rand)
<1> DEFINE q == e \div FreqCount
           r == e % FreqCount
           N == H!SequenceCount
<1>1. /\ FreqCount \in Nat \ {0} /\ FreqCount >= 2 /\ N \in Nat
      /\ rand \in Nat /\ rand \in 0 .. FreqCount - 1 /\ rand # 0
  BY WholeBlocks DEF H!Random
<1>2. e \in Nat /\ e < N
  BY <1>1 DEF H!Entries
<1>3. q \in Nat /\ r \in 0 .. FreqCount - 1 /\ e = (FreqCount * q) + r
  BY <1>1, <1>2, Divides
<1>4. PICK b \in Nat \ {0} : N = FreqCount * b
  BY WholeBlocks
<1>5. H!Offset(e) = q * FreqCount
  BY DEF H!Offset
<1> HIDE DEF q, r, N
<1>6. q * FreqCount = FreqCount * q /\ q * FreqCount \in Nat
  BY <1>1, <1>3
<1>7. q < b
  <2>1. ASSUME b <= q
        PROVE  FALSE
    <3>1. FreqCount * b <= FreqCount * q
      BY <1>1, <1>3, <1>4, <2>1
    <3> QED
      BY <1>1, <1>2, <1>3, <1>4, <3>1
  <2> QED
    BY <1>3, <1>4, <2>1
<1>8. (FreqCount * q) + FreqCount <= FreqCount * b
  <2>1. FreqCount * (q + 1) <= FreqCount * b
    BY <1>1, <1>3, <1>4, <1>7
  <2> QED
    BY <1>1, <1>3, <2>1
<1> DEFINE f == H!Offset(e) + rand
<1>9. f \in Nat /\ f = (FreqCount * q) + rand /\ f < N
  BY <1>1, <1>3, <1>4, <1>5, <1>6, <1>8
<1> HIDE DEF f
<1>10. f \div FreqCount = q /\ f % FreqCount = rand
  BY <1>1, <1>3, <1>9, DividesOnce
<1>11. f \in H!Entries
  BY <1>1, <1>9 DEF H!Entries, N
<1>12. H!Offset(f) = q * FreqCount /\ ~H!StartsBlock(f)
  BY <1>1, <1>10 DEF H!Offset, H!StartsBlock
<1> QED
  BY <1>5, <1>11, <1>12 DEF f

\* The filled blocks have the sync channel in front, and every channel once.
LEMMA SequenceInitInv == H!Init => SequenceInv
<1> SUFFICES ASSUME H!Init
             PROVE  SequenceInv
  OBVIOUS
<1>1. /\ FreqCount \in Nat \ {0} /\ FreqCount >= 2 /\ SyncChannel \in 1 .. FreqCount - 1
  BY WholeBlocks
<1>2. DOMAIN sequence = H!Entries /\ i = 0
  BY DEF H!Init
<1>3. \A e \in H!Entries :
        sequence[e] = IF e % FreqCount = 0 THEN SyncChannel
                      ELSE IF e % FreqCount = SyncChannel THEN 0 ELSE e % FreqCount
  BY DEF H!Init, H!Initial, H!StartsBlock
<1>4. sequence = [e \in H!Entries |-> sequence[e]]
  BY DEF H!Init
<1>5. \A e \in H!Entries : sequence[e] \in 0 .. FreqCount - 1
  BY <1>1, <1>3, EntryFacts
<1>6. sequence \in [H!Entries -> 0 .. FreqCount - 1]
  BY <1>4, <1>5, Zenon
<1>7. H!SyncEachBlock
  BY <1>1, <1>3, EntryFacts DEF H!SyncEachBlock
<1>8. ASSUME NEW e \in H!Entries, NEW f \in H!Entries, H!Offset(e) = H!Offset(f), e # f
      PROVE  sequence[e] # sequence[f]
  <2>1. e % FreqCount # f % FreqCount
    BY <1>8, EntryFacts
  <2>2. e % FreqCount \in 0 .. FreqCount - 1 /\ f % FreqCount \in 0 .. FreqCount - 1
    BY EntryFacts
  <2> QED
    BY <1>1, <1>3, <2>1, <2>2
<1>9. H!BlocksAreFair
  BY <1>8 DEF H!BlocksAreFair
<1> QED
  BY <1>2, <1>6, <1>7, <1>9 DEF SequenceInv

\* Every exchange keeps the sync channel where it is, and the channels of the block.
LEMMA ShuffleStep ==
  ASSUME SequenceInv, NEW rand \in H!Random, H!Shuffle(rand)
  PROVE  SequenceInv'
<1> DEFINE f == H!Offset(i) + rand
<1>1. i \in H!Entries /\ ~H!StartsBlock(i) /\ i \in Nat /\ i' = i + 1
  <2>1. i \in Nat /\ i < H!SequenceCount /\ H!SequenceCount \in Nat
    BY WholeBlocks DEF SequenceInv, H!Shuffle
  <2> QED
    BY <2>1 DEF H!Shuffle, H!Entries
<1>2. f \in H!Entries /\ H!Offset(f) = H!Offset(i) /\ ~H!StartsBlock(f)
  BY <1>1, DrawnEntry
<1>3. sequence' = [sequence EXCEPT ![i] = sequence[f], ![f] = sequence[i]]
  BY DEF H!Shuffle, H!Swap
<1> HIDE DEF f
<1> DEFINE Moved(e) == IF e = i THEN f ELSE IF e = f THEN i ELSE e
<1>4. DOMAIN sequence = H!Entries
      /\ \A e \in H!Entries : sequence[e] \in 0 .. FreqCount - 1
  BY DEF SequenceInv
<1>5. \A e \in H!Entries :
        /\ Moved(e) \in H!Entries /\ H!Offset(Moved(e)) = H!Offset(e)
        /\ H!StartsBlock(Moved(e)) <=> H!StartsBlock(e)
        /\ sequence'[e] = sequence[Moved(e)]
  BY <1>1, <1>2, <1>3, <1>4
<1>6. \A e, g \in H!Entries : e # g => Moved(e) # Moved(g)
  OBVIOUS
<1> HIDE DEF Moved
<1>7. sequence' \in [H!Entries -> 0 .. FreqCount - 1]
  BY <1>1, <1>2, <1>3, <1>4 DEF SequenceInv
<1>8. H!SyncEachBlock'
  BY <1>5 DEF SequenceInv, H!SyncEachBlock, H!Entries, H!SequenceCount, H!StartsBlock
<1>9. H!BlocksAreFair'
  BY <1>5, <1>6 DEF SequenceInv, H!BlocksAreFair
<1> QED
  BY <1>1, <1>7, <1>8, <1>9 DEF SequenceInv

\* FHSSrandomiseFHSSsequenceBuild: whatever is drawn, the sync channel is the first of
\* every block, and a block has every channel once.
THEOREM SequenceInvariant == H!Spec => []SequenceInv
<1>1. SequenceInv /\ [H!Next]_(H!sequenceVars) => SequenceInv'
  <2> SUFFICES ASSUME SequenceInv, [H!Next]_(H!sequenceVars)
               PROVE  SequenceInv'
    OBVIOUS
  <2>1. ASSUME NEW rand \in H!Random, H!Shuffle(rand)
        PROVE  SequenceInv'
    BY <2>1, ShuffleStep
  <2>2. ASSUME UNCHANGED sequence, i' \in Nat
        PROVE  SequenceInv'
    BY <2>2 DEF SequenceInv, H!SyncEachBlock, H!BlocksAreFair
  <2>3. CASE H!KeepSync
    BY <2>2, <2>3 DEF H!KeepSync, SequenceInv
  <2>4. CASE H!Done \/ UNCHANGED H!sequenceVars
    BY <2>2, <2>4 DEF H!Done, H!sequenceVars, SequenceInv
  <2> QED
    BY <2>1, <2>3, <2>4 DEF H!Next
<1>2. H!Init => SequenceInv
  BY SequenceInitInv
<1> QED
  BY <1>1, <1>2, PTL DEF H!Spec

\* The entry that a slot hops to is the start of a block every FreqCount hops.
LEMMA SyncSlots ==
  ASSUME SequenceInv, NEW s \in Nat
  PROVE  H!ChannelInSlot(s) = SyncChannel
           => \E a \in Nat : s = (HopInterval * (FreqCount * a)) + (s % HopInterval)
<1> DEFINE N == H!SequenceCount
           hop == s \div HopInterval
           e == hop % N
           r == e % FreqCount
<1>1. /\ FreqCount \in Nat \ {0} /\ HopInterval \in Nat \ {0} /\ N \in Nat \ {0}
  BY WholeBlocks
<1>2. PICK b \in Nat \ {0} : N = FreqCount * b
  BY WholeBlocks
<1>3. hop \in Nat /\ s = (HopInterval * hop) + (s % HopInterval)
  BY <1>1, Divides
<1> HIDE DEF hop
<1>4. e \in 0 .. N - 1 /\ hop = (N * (hop \div N)) + e /\ hop \div N \in Nat
  BY <1>1, <1>3, Divides
<1>5. e \in H!Entries
  BY <1>4 DEF H!Entries
<1>6. H!ChannelInSlot(s) = sequence[e]
  BY DEF H!ChannelInSlot, hop
<1>7. H!ChannelInSlot(s) = SyncChannel => e % FreqCount = 0
  BY <1>5, <1>6 DEF SequenceInv, H!SyncEachBlock, H!StartsBlock
<1>8. e \in Nat /\ e = (FreqCount * (e \div FreqCount)) + (e % FreqCount)
      /\ e \div FreqCount \in Nat
  <2>1. e \in Nat
    BY <1>1, <1>4
  <2> HIDE DEF e
  <2> QED
    BY <1>1, <2>1, Divides
<1> HIDE DEF N, e
<1> DEFINE p == hop \div N
           q == e \div FreqCount
           a == (b * p) + q
<1>9. p \in Nat /\ q \in Nat /\ a \in Nat
  <2>1. p \in Nat /\ q \in Nat
    BY <1>4, <1>8
  <2> HIDE DEF p, q
  <2> QED
    BY <1>2, <2>1
<1>10. ASSUME e % FreqCount = 0
       PROVE  hop = FreqCount * a
  <2>1. hop = (N * p) + e /\ e = FreqCount * q
    BY <1>1, <1>4, <1>8, <1>9, <1>10
  <2> HIDE DEF p, q
  <2>2. N * p = FreqCount * (b * p)
    BY <1>1, <1>2, <1>9
  <2> QED
    BY <1>1, <1>2, <1>9, <2>1, <2>2
<1> HIDE DEF a
<1> QED
  BY <1>3, <1>7, <1>9, <1>10

\* Two of the slots that are heard, in the same period from the first on and at the same
\* place in a hop, are the same.
LEMMA SlotsDiffer ==
  ASSUME NEW h \in Nat \ {0}, NEW p \in Nat \ {0}, NEW base \in Nat,
         NEW s \in Nat, NEW t \in Nat, base <= s, base <= t,
         NEW a \in Nat, NEW b \in Nat,
         s = (p * a) + (s % h), t = (p * b) + (t % h),
         (s - base) \div p = (t - base) \div p, s % h = t % h
  PROVE  s = t
<1> DEFINE q == (s - base) \div p
           u == (s - base) % p
           v == (t - base) % p
           r == s % h
<1>1. s - base \in Nat /\ t - base \in Nat
  OBVIOUS
<1>2. s - base = (p * q) + u /\ u \in 0 .. p - 1 /\ q \in Nat
  BY <1>1, Divides
<1>3. t - base = (p * q) + v /\ v \in 0 .. p - 1
  BY <1>1, Divides
<1>4. s = (p * a) + r /\ t = (p * b) + r /\ r \in Nat
  BY Divides
<1> HIDE DEF q, u, v, r
<1>5. (p * a) - (p * b) < p /\ (p * b) - (p * a) < p
  <2>1. p * a \in Nat /\ p * b \in Nat /\ p * q \in Nat
    BY <1>2
  <2> QED
    BY <1>2, <1>3, <1>4, <2>1
<1>6. a <= b
  <2>1. ASSUME b + 1 <= a
        PROVE  FALSE
    <3>1. p * (b + 1) <= p * a
      BY <2>1
    <3> QED
      BY <1>5, <3>1
  <2> QED
    BY <2>1
<1>7. b <= a
  <2>1. ASSUME a + 1 <= b
        PROVE  FALSE
    <3>1. p * (a + 1) <= p * b
      BY <2>1
    <3> QED
      BY <1>5, <3>1
  <2> QED
    BY <2>1
<1>8. a = b
  BY <1>6, <1>7
<1> QED
  BY <1>4, <1>8

\* A window that begins anywhere holds so many periods, counted from its first slot.
LEMMA PeriodsInWindow ==
  ASSUME NEW p \in Nat \ {0}, NEW w \in Nat \ {0}, NEW d \in 0 .. w - 1
  PROVE  d \div p \in 0 .. ((p + w - 1) \div p) - 1
<1> DEFINE q == d \div p
           r == d % p
           c == (p + w - 1) \div p
           x == (p + w - 1) % p
<1>1. d \in Nat /\ p + w - 1 \in Nat
  OBVIOUS
<1>2. d = (p * q) + r /\ q \in Nat /\ r \in 0 .. p - 1
  BY <1>1, Divides
<1>3. p + w - 1 = (p * c) + x /\ c \in Nat /\ x \in 0 .. p - 1
  BY <1>1, Divides
<1> HIDE DEF q, r, c, x
<1>4. p * q <= w - 1 /\ w - 1 < p * c
  <2>1. p * q \in Nat /\ p * c \in Nat
    BY <1>2, <1>3
  <2> QED
    BY <1>2, <1>3, <2>1
<1>5. q < c
  <2>1. ASSUME c <= q
        PROVE  FALSE
    <3>1. p * c <= p * q
      BY <1>2, <1>3, <2>1
    <3> QED
      BY <1>2, <1>3, <1>4, <3>1
  <2> QED
    BY <1>2, <1>3, <2>1
<1> QED
  BY <1>2, <1>3, <1>5 DEF q, c

\* Of the slots of a window no more hop to the sync channel than it takes to be believed.
LEMMA ChanceStep ==
  ASSUME SequenceInv, NEW base \in Nat
  PROVE  H!Cardinality({s \in base .. base + Window - 1 : H!ChannelInSlot(s) = SyncChannel})
           <= H!MinLqForChaos
<1> DEFINE S == {s \in base .. base + Window - 1 : H!ChannelInSlot(s) = SyncChannel}
           period == HopInterval * FreqCount
           c == (period + Window - 1) \div period
           grid == (0 .. c - 1) \X (0 .. HopInterval - 1)
           place == [s \in S |-> <<(s - base) \div period, s % HopInterval>>]
<1>1. /\ HopInterval \in Nat \ {0} /\ FreqCount \in Nat \ {0} /\ Window \in Nat \ {0}
  BY WholeBlocks
<1>2. period \in Nat \ {0}
  BY <1>1
<1>3. c \in Nat
  <2>1. period + Window - 1 \in Nat
    BY <1>1, <1>2
  <2> HIDE DEF period
  <2> QED
    BY <1>2, <2>1, Divides
<1>4. \A s \in S : s \in Nat /\ base <= s /\ s - base \in 0 .. Window - 1
  BY <1>1
<1>5. \A s \in S : \E a \in Nat : s = (period * a) + (s % HopInterval)
  <2> SUFFICES ASSUME NEW s \in S
               PROVE  \E a \in Nat : s = (period * a) + (s % HopInterval)
    OBVIOUS
  <2>1. PICK a \in Nat : s = (HopInterval * (FreqCount * a)) + (s % HopInterval)
    BY <1>4, SyncSlots
  <2>2. HopInterval * (FreqCount * a) = period * a
    BY <1>1
  <2> QED
    BY <2>1, <2>2
<1>6. H!MinLqForChaos = HopInterval * c
  BY DEF H!MinLqForChaos
<1> HIDE DEF S, period
<1>7. place \in [S -> grid]
  <2> SUFFICES ASSUME NEW s \in S
               PROVE  /\ (s - base) \div period \in 0 .. c - 1
                      /\ s % HopInterval \in 0 .. HopInterval - 1
    OBVIOUS
  <2>1. s \in Nat /\ s - base \in 0 .. Window - 1
    BY <1>4
  <2>2. (s - base) \div period \in 0 .. c - 1
    BY <1>1, <1>2, <2>1, PeriodsInWindow
  <2> QED
    BY <1>1, <2>1, <2>2, Divides
<1>8. ASSUME NEW s \in S, NEW t \in S, place[s] = place[t]
      PROVE  s = t
  <2>1. (s - base) \div period = (t - base) \div period /\ s % HopInterval = t % HopInterval
    BY <1>8
  <2>2. PICK a \in Nat : s = (period * a) + (s % HopInterval)
    BY <1>5
  <2>3. PICK b \in Nat : t = (period * b) + (t % HopInterval)
    BY <1>5
  <2>4. s \in Nat /\ t \in Nat /\ base <= s /\ base <= t
    BY <1>4
  <2> QED
    BY <1>1, <1>2, <2>1, <2>2, <2>3, <2>4, SlotsDiffer
<1>9. place \in Injection(S, grid)
  BY <1>7, <1>8 DEF Injection, IsInjective
<1> HIDE DEF c, place
<1>10. IsFiniteSet(grid) /\ Cardinality(grid) = c * HopInterval
  <2>1. \A n \in Nat : IsFiniteSet(0 .. n - 1) /\ Cardinality(0 .. n - 1) = n
    BY FS_Interval
  <2>2. /\ IsFiniteSet(0 .. c - 1) /\ Cardinality(0 .. c - 1) = c
        /\ IsFiniteSet(0 .. HopInterval - 1) /\ Cardinality(0 .. HopInterval - 1) = HopInterval
    BY <1>1, <1>3, <2>1, Zenon
  <2> DEFINE A == 0 .. c - 1
             D == 0 .. HopInterval - 1
  <2>3. IsFiniteSet(A) /\ IsFiniteSet(D) /\ Cardinality(A) = c /\ Cardinality(D) = HopInterval
    BY <2>2
  <2>4. grid = A \X D
    OBVIOUS
  <2> HIDE DEF A, D, grid
  <2>5. IsFiniteSet(A \X D) /\ Cardinality(A \X D) = Cardinality(A) * Cardinality(D)
    BY <2>3, FS_Product
  <2> QED
    BY <2>3, <2>4, <2>5
<1> HIDE DEF grid
<1>11. Cardinality(S) <= c * HopInterval
  BY <1>9, <1>10, FS_Injection
<1>12. H!Cardinality(S) = Cardinality(S)
  BY DEF Cardinality, H!Cardinality
<1>13. c * HopInterval = HopInterval * c
  BY <1>1, <1>3
<1> QED
  BY <1>6, <1>11, <1>12, <1>13 DEF S

\* FHSSrandomiseFHSSsequenceBuild and minLqForChaos(): the two ends meet on the sync
\* channel once a block and nowhere else, use the channels alike, and a receiver that
\* waits there takes no transmitter that it does not follow for its own.
THEOREM SequenceIsServed == H!Spec => []SequenceServes
<1>1. SequenceInv => SequenceServes
  <2> SUFFICES ASSUME SequenceInv
               PROVE  SequenceServes
    OBVIOUS
  <2>1. \A base \in 0 .. H!SequenceCount * HopInterval - 1 : base \in Nat
    OBVIOUS
  <2>2. H!ChanceIsNoLink
    BY <2>1, ChanceStep DEF H!ChanceIsNoLink
  <2> QED
    BY <2>2 DEF SequenceInv, SequenceServes, H!SequenceServes
<1> QED
  BY <1>1, SequenceInvariant, PTL

-------------------------------------------------------------------------------
\* The chunks of a message divide its length.
LEMMA ChunkFacts ==
  ASSUME NEW m \in DOMAIN MspLength, NEW c \in 0 .. M!NumChunks(m) - 1
  PROVE  /\ MspLength[m] \in Nat \ {0} /\ ChunkLen \in Nat \ {0} /\ M!NumChunks(m) \in Nat \ {0}
         /\ c \in Nat /\ c * ChunkLen \in Nat /\ c * ChunkLen <= MspLength[m]
         /\ (c + 1) * ChunkLen = (c * ChunkLen) + ChunkLen
         /\ c + 1 < M!NumChunks(m) => (c + 1) * ChunkLen <= MspLength[m]
         /\ c + 1 < M!NumChunks(m) /\ (c + 1) * ChunkLen = MspLength[m]
              => MspLength[m] % ChunkLen = 0
         /\ c + 1 = M!NumChunks(m) => (c + 1) * ChunkLen > MspLength[m]
<1>1. MspLength \in [DOMAIN MspLength -> Nat \ {0}] /\ ChunkLen \in Nat \ {0}
  BY StructuresAssumption DEF StructuresAssumption, M!ChunkAssumption
<1> DEFINE l == MspLength[m]
           q == l \div ChunkLen
           r == l % ChunkLen
<1>2. l \in Nat \ {0}
  BY <1>1
<1>3. q \in Nat /\ r \in 0 .. ChunkLen - 1 /\ l = (ChunkLen * q) + r
  BY <1>1, <1>2, Divides
<1>4. M!NumChunks(m) = q + 1
  BY DEF M!NumChunks
<1> HIDE DEF l, q
<1>5. c \in Nat /\ c <= q
  BY <1>3, <1>4
<1>6. c * ChunkLen \in Nat /\ c * ChunkLen <= ChunkLen * q
  BY <1>1, <1>3, <1>5
<1>7. (c + 1) * ChunkLen = (c * ChunkLen) + ChunkLen
  BY <1>1, <1>5
<1>8. ASSUME c + 1 <= q
      PROVE  (c + 1) * ChunkLen <= ChunkLen * q
  BY <1>1, <1>3, <1>5, <1>8
<1>9. ASSUME c = q
      PROVE  c * ChunkLen = ChunkLen * q
  BY <1>1, <1>3, <1>9
<1>10. ASSUME c + 1 <= q, (c + 1) * ChunkLen = l
       PROVE  l % ChunkLen = 0
  <2>1. (c + 1) * ChunkLen = ChunkLen * (c + 1) /\ c + 1 \in Nat
    BY <1>1, <1>5
  <2>2. l = (ChunkLen * (c + 1)) + 0
    BY <1>2, <1>10, <2>1
  <2>3. 0 \in 0 .. ChunkLen - 1
    BY <1>1
  <2> QED
    BY <1>1, <1>2, <2>1, <2>2, <2>3, DividesOnce
<1>11. c + 1 < M!NumChunks(m) <=> c + 1 <= q
  BY <1>3, <1>4, <1>5
<1>12. c + 1 = M!NumChunks(m) <=> c = q
  BY <1>3, <1>4, <1>5
<1>13. ChunkLen * q \in Nat /\ ChunkLen * q <= l
  BY <1>1, <1>2, <1>3
<1>14. ASSUME c = q
       PROVE  (c + 1) * ChunkLen > l
  BY <1>1, <1>2, <1>3, <1>6, <1>7, <1>9, <1>13, <1>14
<1>15. c * ChunkLen <= l /\ (c + 1 <= q => (c + 1) * ChunkLen <= l)
  BY <1>1, <1>2, <1>5, <1>6, <1>7, <1>8, <1>13
<1> QED
  BY <1>1, <1>2, <1>3, <1>4, <1>5, <1>6, <1>7, <1>10, <1>11, <1>12, <1>14, <1>15 DEF l

\* A chunk is the bytes that come next.
LEMMA PieceFacts ==
  ASSUME NEW m \in DOMAIN MspLength, NEW c \in 0 .. M!NumChunks(m) - 1
  PROVE  LET n == M!Lesser((c + 1) * ChunkLen, MspLength[m]) - (c * ChunkLen)
         IN  /\ n \in Nat
             /\ M!Piece(m, c) \in Seq(MspBytes) /\ Len(M!Piece(m, c)) = n
             /\ \A p \in 1 .. n : M!Piece(m, c)[p] = <<m, (c * ChunkLen) + p>>
<1> DEFINE l == MspLength[m]
           from == c * ChunkLen
           end == M!Lesser((c + 1) * ChunkLen, l)
           frame == M!Frame(m)
           n == end - from
<1>1. /\ l \in Nat /\ from \in Nat /\ from <= l /\ end \in Nat /\ from <= end /\ end <= l
  BY ChunkFacts DEF M!Lesser
<1>2. \A p \in 1 .. l : frame[p] = <<m, p>> /\ frame[p] \in MspBytes
  BY <1>1 DEF M!Frame, MspBytes
<1>3. M!Piece(m, c) = SubSeq(frame, from + 1, end)
  BY DEF M!Piece
<1> HIDE DEF frame, l, from, end
<1>4. \A p \in from + 1 .. end : frame[p] \in MspBytes
  BY <1>1, <1>2
<1>5. from + 1 \in Int /\ end \in Int
  BY <1>1
<1>6. /\ SubSeq(frame, from + 1, end) \in Seq(MspBytes)
      /\ Len(SubSeq(frame, from + 1, end)) = IF from + 1 <= end THEN end - (from + 1) + 1 ELSE 0
      /\ \A p \in 1 .. end - (from + 1) + 1 :
           SubSeq(frame, from + 1, end)[p] = frame[from + 1 + p - 1]
  BY <1>4, <1>5, SubSeqProperties
<1>7. n \in Nat /\ Len(SubSeq(frame, from + 1, end)) = n
      /\ \A p \in 1 .. n : SubSeq(frame, from + 1, end)[p] = <<m, from + p>>
  BY <1>1, <1>2, <1>6
<1> QED
  BY <1>3, <1>6, <1>7, Zenon DEF l, from, end, frame

\* A prefix of the length of the message is the message.
LEMMA WholeFrame ==
  ASSUME NEW m \in DOMAIN MspLength, NEW s, IsPrefix(s, m, MspLength[m]), MspLength[m] \in Nat
  PROVE  s = M!Frame(m)
<1>1. s = [p \in 1 .. Len(s) |-> s[p]]
  BY DEF IsPrefix
<1>2. Len(s) = MspLength[m] /\ \A p \in 1 .. MspLength[m] : s[p] = <<m, p>>
  BY DEF IsPrefix
<1>3. s = [p \in 1 .. MspLength[m] |-> <<m, p>>]
  BY <1>1, <1>2
<1> QED
  BY <1>3 DEF M!Frame

\* A chunk joins the bytes before it, and the message is handed on when it is whole.
LEMMA JoinFacts ==
  ASSUME NEW m \in DOMAIN MspLength, NEW c \in 0 .. M!NumChunks(m) - 1,
         NEW front, IsPrefix(front, m, c * ChunkLen),
         M!Join(front, MspLength[m], M!Piece(m, c))
  PROVE  /\ total' = TRUE /\ pktLen' = MspLength[m]
         /\ IsPrefix(got', m, M!Lesser((c + 1) * ChunkLen, MspLength[m]))
         /\ handed' = IF Len(got') = MspLength[m] THEN got' ELSE <<>>
<1> DEFINE l == MspLength[m]
           from == c * ChunkLen
           end == M!Lesser((c + 1) * ChunkLen, l)
           piece == M!Piece(m, c)
           n == end - from
           part == SubSeq(piece, 1, M!Lesser(Len(piece), l - Len(front)))
           whole == front \o part
<1>1. /\ l \in Nat /\ from \in Nat /\ from <= l /\ end \in Nat /\ from <= end /\ end <= l
  BY ChunkFacts DEF M!Lesser
<1>2. /\ n \in Nat /\ piece \in Seq(MspBytes) /\ Len(piece) = n
      /\ \A p \in 1 .. n : piece[p] = <<m, from + p>>
  BY PieceFacts
<1>3. front \in Seq(MspBytes) /\ Len(front) = from /\ \A p \in 1 .. from : front[p] = <<m, p>>
  BY DEF IsPrefix
<1>4. total' = TRUE /\ pktLen' = l /\ got' = whole
      /\ handed' = IF Len(whole) = l THEN whole ELSE <<>>
  BY DEF M!Join
<1> HIDE DEF l, from, end, piece
<1>5. M!Lesser(Len(piece), l - Len(front)) = Len(piece)
  BY <1>1, <1>2, <1>3 DEF M!Lesser
<1>6. part = piece
  <2>1. part = SubSeq(piece, 1, Len(piece))
    BY <1>5
  <2>2. SubSeq(piece, 1, Len(piece)) = piece
    BY <1>2, SubSeqFull
  <2> QED
    BY <2>1, <2>2, Zenon
<1> HIDE DEF part
<1>7. /\ whole \in Seq(MspBytes) /\ Len(whole) = Len(front) + Len(part)
      /\ \A j \in 1 .. Len(front) : whole[j] = front[j]
      /\ \A j \in 1 .. Len(part) : whole[Len(front) + j] = part[j]
  <2>1. front \in Seq(MspBytes) /\ part \in Seq(MspBytes)
    BY <1>2, <1>3, <1>6
  <2> QED
    BY <2>1, Joined
<1>8. Len(whole) = end
  BY <1>1, <1>2, <1>3, <1>6, <1>7
<1> HIDE DEF whole
<1>9. \A p \in 1 .. end : whole[p] = <<m, p>>
  <2> TAKE p \in 1 .. end
  <2>1. CASE p <= from
    BY <1>1, <1>3, <1>7, <2>1
  <2>2. CASE p > from
    <3>1. p - from \in 1 .. n /\ from + (p - from) = p
      BY <1>1, <2>2
    <3>2. whole[from + (p - from)] = piece[p - from]
      BY <1>2, <1>3, <1>6, <1>7, <3>1
    <3>3. piece[p - from] = <<m, from + (p - from)>>
      BY <1>2, <3>1
    <3> QED
      BY <3>1, <3>2, <3>3
  <2> QED
    BY <1>1, <2>1, <2>2
<1>10. IsPrefix(whole, m, end)
  BY <1>7, <1>8, <1>9 DEF IsPrefix
<1> QED
  BY <1>4, <1>8, <1>10 DEF l, end

\* Numbers that are not a whole turn apart differ.
LEMMA NumbersDiffer ==
  ASSUME NEW r \in Nat \ {0}, NEW a \in 0 .. r - 1, NEW k \in 1 .. r - 1
  PROVE  (a + 1 + k) % r # (a + 1) % r
<1> DEFINE u == a + 1
           v == a + 1 + k
<1>1. u \in Nat /\ v \in Nat /\ v - u = k
  OBVIOUS
<1> HIDE DEF u, v
<1>2. /\ u \div r \in Nat /\ u % r \in 0 .. r - 1 /\ u = (r * (u \div r)) + (u % r)
      /\ v \div r \in Nat /\ v % r \in 0 .. r - 1 /\ v = (r * (v \div r)) + (v % r)
  BY <1>1, Divides
<1> DEFINE p == u \div r
           q == v \div r
           x == u % r
<1>3. ASSUME v % r = u % r
      PROVE  FALSE
  <2>1. p \in Nat /\ q \in Nat /\ u = (r * p) + x /\ v = (r * q) + x /\ x \in Nat
    BY <1>2, <1>3
  <2> HIDE DEF p, q, x
  <2>2. (r * q) - (r * p) = k
    BY <1>1, <2>1
  <2>3. CASE q <= p
    <3>1. r * q <= r * p
      BY <2>1, <2>3
    <3> QED
      BY <2>1, <2>2, <3>1
  <2>4. CASE p + 1 <= q
    <3>1. r * (p + 1) <= r * q
      BY <2>1, <2>4
    <3>2. r * (p + 1) = (r * p) + r
      BY <2>1
    <3> QED
      BY <2>1, <2>2, <3>1, <3>2
  <2> QED
    BY <2>1, <2>3, <2>4
<1> QED
  BY <1>3 DEF u, v

\* What a chunk that arrives leaves, unless the numbers have made a whole turn.
LEMMA ArriveFacts ==
  ASSUME MspInv, NEW error \in BOOLEAN, M!Arrive(error)
  PROVE  /\ total' \in BOOLEAN /\ (handed' # <<>> => total')
         /\ total' /\ ~turned' =>
              /\ pktLen' = MspLength[sending]
              /\ IsPrefix(got', sending,
                          M!Lesser((chunk + 1) * ChunkLen, MspLength[sending]))
              /\ handed' = IF Len(got') = MspLength[sending] THEN got' ELSE <<>>
         /\ intact' /\ MspLength[sending] <= MaxLength => total' /\ ~turned'
<1> DEFINE l == MspLength[sending]
           piece == M!Piece(sending, chunk)
<1>1. /\ turned' = (turned /\ chunk # 0)
      /\ intact' = ((chunk = 0 \/ intact) /\ ~(error /\ chunk # 0))
  BY DEF M!Arrive
<1>2. MspTyped /\ sending \in DOMAIN MspLength /\ chunk \in 0 .. M!NumChunks(sending) - 1
  BY DEF MspInv, MspTyped
<1>3. M!SeqError(seqNum) <=> seqNum # (seqPrev + 1) % SeqRange
  BY DEF M!SeqError
<1>4. \/ chunk # 0 /\ (M!SeqError(seqNum) \/ error) /\ M!Reset
      \/ chunk # 0 /\ ~M!SeqError(seqNum) /\ ~error /\ ~total /\ M!Keep
      \/ chunk # 0 /\ ~M!SeqError(seqNum) /\ ~error /\ total /\ M!Join(got, pktLen, piece)
      \/ chunk = 0 /\ l > MaxLength /\ M!Reset
      \/ chunk = 0 /\ l <= MaxLength /\ M!Join(<<>>, l, piece)
  BY DEF M!Arrive, M!Parse
<1>5. ASSUME total, ~turned, chunk # 0, ~M!SeqError(seqNum)
      PROVE  lost = 0
  <2>1. SeqRange \in Nat \ {0} /\ seqPrev \in 0 .. SeqRange - 1 /\ lost \in 0 .. SeqRange
    BY StructuresAssumption, <1>2 DEF StructuresAssumption, M!ChunkAssumption, MspTyped
  <2>2. lost < SeqRange
    BY <1>5, <2>1 DEF MspInv, NumberTells
  <2>3. seqNum = (seqPrev + 1 + lost) % SeqRange /\ seqNum = (seqPrev + 1) % SeqRange
    BY <1>3, <1>5, <2>2 DEF MspInv, NumberTells
  <2>4. lost # 0 => lost \in 1 .. SeqRange - 1
    BY <2>1, <2>2
  <2> QED
    BY <2>1, <2>3, <2>4, NumbersDiffer
<1>6. l \in Nat /\ ChunkLen \in Nat
  BY <1>2, ChunkFacts
<1>7. ASSUME intact, chunk # 0, l <= MaxLength
      PROVE  ~M!SeqError(seqNum) /\ total /\ ~turned
  <2>1. total /\ lost = 0 /\ ~turned
    BY <1>7 DEF MspInv, IntactGoesOn
  <2>2. SeqRange \in Nat \ {0} /\ seqPrev \in 0 .. SeqRange - 1
    BY StructuresAssumption, <1>2 DEF StructuresAssumption, M!ChunkAssumption, MspTyped
  <2>3. seqNum = (seqPrev + 1 + 0) % SeqRange
    BY <2>1, <2>2 DEF MspInv, NumberTells
  <2> QED
    BY <1>3, <2>1, <2>2, <2>3
<1> HIDE DEF l, piece
<1>8. CASE chunk # 0 /\ (M!SeqError(seqNum) \/ error) /\ M!Reset
  BY <1>1, <1>7, <1>8 DEF M!Reset, l
<1>9. CASE chunk # 0 /\ ~M!SeqError(seqNum) /\ ~error /\ ~total /\ M!Keep
  BY <1>1, <1>2, <1>7, <1>9 DEF M!Keep, MspTyped, l
<1>10. CASE chunk # 0 /\ ~M!SeqError(seqNum) /\ ~error /\ total /\ M!Join(got, pktLen, piece)
  <2>1. total' = TRUE
    BY <1>10 DEF M!Join
  <2>2. turned' = turned
    BY <1>1, <1>2, <1>10 DEF MspTyped
  <2>3. ASSUME ~turned
        PROVE  /\ pktLen' = l
               /\ IsPrefix(got', sending, M!Lesser((chunk + 1) * ChunkLen, l))
               /\ handed' = IF Len(got') = l THEN got' ELSE <<>>
    <3>1. pktLen = l /\ IsPrefix(got, sending, chunk * ChunkLen)
      BY <1>5, <1>10, <2>3 DEF MspInv, HasPrefix, l
    <3>2. M!Join(got, l, piece)
      BY <1>10, <3>1
    <3> QED
      BY <1>2, <3>1, <3>2, JoinFacts DEF l, piece
  <2> QED
    BY <1>1, <1>7, <1>10, <2>1, <2>2, <2>3 DEF l
<1>11. CASE chunk = 0 /\ l > MaxLength /\ M!Reset
  <2>1. total' = FALSE /\ handed' = <<>>
    BY <1>11 DEF M!Reset
  <2>2. MaxLength \in Nat
    BY StructuresAssumption DEF StructuresAssumption, M!ChunkAssumption
  <2>3. ~(l <= MaxLength)
    BY <1>6, <1>11, <2>2
  <2> QED
    BY <2>1, <2>3 DEF l
<1>12. CASE chunk = 0 /\ l <= MaxLength /\ M!Join(<<>>, l, piece)
  <2>1. IsPrefix(<<>>, sending, chunk * ChunkLen)
    <3>1. chunk * ChunkLen = 0
      BY <1>6, <1>12
    <3> QED
      BY <3>1 DEF IsPrefix
  <2>2. /\ total' = TRUE /\ pktLen' = l
        /\ IsPrefix(got', sending, M!Lesser((chunk + 1) * ChunkLen, l))
        /\ handed' = IF Len(got') = l THEN got' ELSE <<>>
    BY <1>2, <1>12, <2>1, JoinFacts DEF l, piece
  <2>3. turned' = FALSE
    BY <1>1, <1>12
  <2> QED
    BY <2>2, <2>3 DEF l
<1> QED
  BY <1>4, <1>8, <1>9, <1>10, <1>11, <1>12

\* Counting goes on by one modulo the range.
LEMMA CountsOn ==
  ASSUME NEW r \in Nat \ {0}, NEW a \in 0 .. r - 1, NEW k \in Nat
  PROVE  /\ (((a + 1 + k) % r) + 1) % r = (a + 1 + (k + 1)) % r
         /\ (a + 1) % r \in 0 .. r - 1 /\ (a + 1) % r = (a + 1 + 0) % r
<1> DEFINE u == a + 1 + k
           q == u \div r
           x == u % r
<1>1. u \in Nat /\ u + 1 = a + 1 + (k + 1)
  OBVIOUS
<1>2. q \in Nat /\ x \in 0 .. r - 1 /\ u = (r * q) + x
  <2> HIDE DEF u
  <2> QED
    BY <1>1, Divides
<1> HIDE DEF u, q, x
<1>3. (x + 1) % r = (u + 1) % r
  <2>1. CASE x + 1 < r
    <3>1. x + 1 \in 0 .. r - 1 /\ x + 1 \in Nat /\ u + 1 \in Nat
          /\ u + 1 = (r * q) + (x + 1) /\ x + 1 = (r * 0) + (x + 1)
      BY <1>1, <1>2, <2>1
    <3>2. (u + 1) % r = x + 1
      BY <1>2, <3>1, DividesOnce
    <3>3. (x + 1) % r = x + 1
      BY <3>1, DividesOnce
    <3> QED
      BY <3>2, <3>3
  <2>2. CASE x + 1 = r
    <3>1. 0 \in 0 .. r - 1 /\ r \in Nat /\ u + 1 \in Nat /\ q + 1 \in Nat
          /\ u + 1 = (r * (q + 1)) + 0 /\ r = (r * 1) + 0
      BY <1>1, <1>2, <2>2
    <3>2. (u + 1) % r = 0
      BY <3>1, DividesOnce
    <3>3. r % r = 0
      BY <3>1, DividesOnce
    <3> QED
      BY <2>2, <3>2, <3>3
  <2> QED
    BY <1>2, <2>1, <2>2
<1>4. (a + 1) % r \in 0 .. r - 1 /\ a + 1 = a + 1 + 0
  <2>1. a + 1 \in Nat
    OBVIOUS
  <2> QED
    BY <2>1, Divides
<1> QED
  BY <1>1, <1>3, <1>4 DEF u, x

\* A message begins with no message before it.
LEMMA MspInitInv == M!Init => MspInv
<1> SUFFICES ASSUME M!Init
             PROVE  MspInv
  OBVIOUS
<1>1. SeqRange \in Nat \ {0, 1}
  BY StructuresAssumption DEF StructuresAssumption, M!ChunkAssumption
<1>2. /\ seqNum = 0 /\ sending \in DOMAIN MspLength /\ chunk = 0 /\ seqPrev = 0
      /\ total = FALSE /\ lost = 0 /\ times = 0 /\ turned = FALSE /\ intact = TRUE
  BY DEF M!Init
<1>3. M!NumChunks(sending) \in Nat \ {0}
  <2>1. MspLength[sending] \in Nat \ {0} /\ ChunkLen \in Nat \ {0}
    BY <1>2, StructuresAssumption DEF StructuresAssumption, M!ChunkAssumption
  <2>2. MspLength[sending] \div ChunkLen \in Nat
    BY <2>1, Divides
  <2> QED
    BY <2>2 DEF M!NumChunks
<1>4. MspTyped
  <2>1. total \in BOOLEAN /\ turned \in BOOLEAN /\ intact \in BOOLEAN
    BY <1>2
  <2>2. /\ sending \in DOMAIN MspLength /\ chunk \in 0 .. M!NumChunks(sending) - 1
        /\ seqNum \in 0 .. SeqRange - 1 /\ seqPrev \in 0 .. SeqRange - 1
        /\ lost \in 0 .. SeqRange /\ times \in Nat
    BY <1>1, <1>2, <1>3
  <2> QED
    BY <2>1, <2>2 DEF MspTyped
<1>5. NumberTells /\ HasPrefix /\ NotYetHanded /\ IntactGoesOn
  BY <1>1, <1>2 DEF NumberTells, HasPrefix, NotYetHanded, IntactGoesOn
<1> QED
  BY <1>4, <1>5 DEF MspInv

\* The sender goes on to the next chunk of the message, or to the first of any.
LEMMA AdvanceFacts ==
  ASSUME MspTyped, M!Advance
  PROVE  /\ sending' \in DOMAIN MspLength /\ chunk' \in 0 .. M!NumChunks(sending)' - 1
         /\ seqNum' = (seqNum + 1) % SeqRange /\ seqNum' \in 0 .. SeqRange - 1
         /\ \/ /\ chunk + 1 < M!NumChunks(sending)
               /\ chunk' = chunk + 1 /\ sending' = sending
            \/ chunk + 1 = M!NumChunks(sending) /\ chunk' = 0
<1>1. SeqRange \in Nat \ {0, 1} /\ SeqRange \in Nat \ {0} /\ seqNum \in 0 .. SeqRange - 1
  BY StructuresAssumption DEF StructuresAssumption, M!ChunkAssumption, MspTyped
<1>2. seqNum' = (seqNum + 1) % SeqRange
  BY DEF M!Advance
<1>3. seqNum' \in 0 .. SeqRange - 1
  <2>1. (seqNum + 1) % SeqRange \in 0 .. SeqRange - 1
    BY <1>1, CountsOn
  <2> QED
    BY <1>2, <2>1
<1>4. \A m \in DOMAIN MspLength : M!NumChunks(m) \in Nat \ {0}
  <2> TAKE m \in DOMAIN MspLength
  <2>1. MspLength[m] \in Nat \ {0} /\ ChunkLen \in Nat \ {0}
    BY StructuresAssumption DEF StructuresAssumption, M!ChunkAssumption
  <2>2. MspLength[m] \div ChunkLen \in Nat
    BY <2>1, Divides
  <2> QED
    BY <2>2 DEF M!NumChunks
<1>5. sending \in DOMAIN MspLength /\ chunk \in 0 .. M!NumChunks(sending) - 1
  BY DEF MspTyped
<1>6. M!NumChunks(sending)' = M!NumChunks(sending')
  BY DEF M!NumChunks
<1>7. CASE chunk + 1 < M!NumChunks(sending) /\ chunk' = chunk + 1 /\ sending' = sending
  BY <1>2, <1>3, <1>4, <1>5, <1>6, <1>7
<1>8. CASE chunk + 1 = M!NumChunks(sending) /\ chunk' = 0 /\ sending' \in DOMAIN MspLength
  <2>1. M!NumChunks(sending') \in Nat \ {0}
    BY <1>4, <1>8
  <2> QED
    BY <1>2, <1>3, <1>6, <1>8, <2>1
<1> QED
  BY <1>7, <1>8 DEF M!Advance

\* A chunk that is lost shows in the numbers.
LEMMA LoseStep ==
  ASSUME MspInv, M!Lose
  PROVE  MspInv'
<1>1. MspTyped /\ M!Advance
  BY DEF MspInv, M!Lose
<1>2. /\ lost' = M!Lesser(lost + 1, SeqRange) /\ turned' = (turned \/ lost' = SeqRange)
      /\ intact' = FALSE /\ times' = (IF chunk = 0 THEN 0 ELSE times)
      /\ seqPrev' = seqPrev /\ total' = total
  BY DEF M!Lose, M!receiverVars
<1>3. /\ SeqRange \in Nat \ {0} /\ SeqRange > 1
      /\ seqPrev \in 0 .. SeqRange - 1 /\ lost \in 0 .. SeqRange /\ lost \in Nat /\ times \in Nat
  BY <1>1, StructuresAssumption DEF StructuresAssumption, M!ChunkAssumption, MspTyped
<1>4. /\ lost' \in 0 .. SeqRange /\ lost' # 0
      /\ lost' < SeqRange => lost < SeqRange /\ lost' = lost + 1
  BY <1>2, <1>3 DEF M!Lesser
<1>5. MspTyped'
  <2>1. total' \in BOOLEAN /\ turned' \in BOOLEAN /\ intact' \in BOOLEAN
    BY <1>1, <1>2 DEF MspTyped
  <2>2. /\ sending' \in DOMAIN MspLength /\ chunk' \in 0 .. M!NumChunks(sending)' - 1
        /\ seqNum' \in 0 .. SeqRange - 1
    BY <1>1, AdvanceFacts
  <2>3. seqPrev' \in 0 .. SeqRange - 1 /\ times' \in Nat
    BY <1>2, <1>3
  <2> QED
    BY <1>4, <2>1, <2>2, <2>3 DEF MspTyped
<1>6. NumberTells'
  <2>1. ASSUME total', lost' < SeqRange
        PROVE  seqNum' = (seqPrev' + 1 + lost') % SeqRange
    <3>1. lost < SeqRange /\ lost' = lost + 1
      BY <1>4, <2>1
    <3>2. seqNum = (seqPrev + 1 + lost) % SeqRange
      BY <1>2, <2>1, <3>1 DEF MspInv, NumberTells
    <3>3. seqNum' = (seqNum + 1) % SeqRange
      BY <1>1, AdvanceFacts
    <3>4. (((seqPrev + 1 + lost) % SeqRange) + 1) % SeqRange
            = (seqPrev + 1 + (lost + 1)) % SeqRange
      BY <1>3, CountsOn
    <3> QED
      BY <1>2, <3>1, <3>2, <3>3, <3>4
  <2>2. lost' = SeqRange => turned'
    BY <1>2
  <2> QED
    BY <2>1, <2>2 DEF NumberTells
<1>7. HasPrefix' /\ IntactGoesOn'
  BY <1>2, <1>4 DEF HasPrefix, IntactGoesOn
<1>8. NotYetHanded'
  <2>1. ASSUME ~turned', chunk' # 0, MspLength[sending'] % ChunkLen # 0
        PROVE  times' = 0
    <3>1. sending' = sending
      BY <1>1, <2>1, AdvanceFacts
    <3>2. ~turned
      BY <1>2, <2>1
    <3> QED
      BY <1>2, <2>1, <3>1, <3>2 DEF MspInv, NotYetHanded
  <2> QED
    BY <2>1 DEF NotYetHanded
<1> QED
  BY <1>5, <1>6, <1>7, <1>8 DEF MspInv

\* What a chunk that arrives counts.
LEMMA HandedFacts ==
  ASSUME MspInv, NEW error \in BOOLEAN, M!Arrive(error)
  PROVE  /\ times' = (IF chunk = 0 THEN 0 ELSE times) + (IF handed' = <<>> THEN 0 ELSE 1)
         /\ times \in Nat /\ times' \in Nat
         /\ ~turned' /\ MspLength[sending] % ChunkLen # 0 =>
              /\ times' \in 0 .. 1
              /\ chunk + 1 < M!NumChunks(sending) => times' = 0
         /\ ~turned' /\ handed' # <<>> => handed' = M!Frame(sending)
         /\ chunk + 1 = M!NumChunks(sending) /\ intact' /\ MspLength[sending] <= MaxLength
              => times' >= 1
<1>1. times' = (IF chunk = 0 THEN 0 ELSE times) + (IF handed' = <<>> THEN 0 ELSE 1)
      /\ turned' = (turned /\ chunk # 0)
  BY DEF M!Arrive
<1>2. MspTyped /\ sending \in DOMAIN MspLength /\ chunk \in 0 .. M!NumChunks(sending) - 1
      /\ times \in Nat
  BY DEF MspInv, MspTyped
<1> DEFINE l == MspLength[sending]
           end == M!Lesser((chunk + 1) * ChunkLen, l)
<1>3. /\ l \in Nat \ {0} /\ (chunk + 1) * ChunkLen \in Nat
      /\ end # l => chunk + 1 < M!NumChunks(sending) /\ end = (chunk + 1) * ChunkLen
      /\ chunk + 1 < M!NumChunks(sending) /\ end = l => l % ChunkLen = 0
      /\ chunk + 1 = M!NumChunks(sending) => end = l
  <2> DEFINE next == (chunk + 1) * ChunkLen
             n == M!NumChunks(sending)
  <2>1. /\ l \in Nat \ {0} /\ n \in Nat \ {0} /\ chunk \in Nat /\ chunk * ChunkLen \in Nat
        /\ next = (chunk * ChunkLen) + ChunkLen /\ ChunkLen \in Nat
        /\ chunk + 1 < n => next <= l
        /\ chunk + 1 < n /\ next = l => l % ChunkLen = 0
        /\ chunk + 1 = n => next > l
    BY <1>2, ChunkFacts
  <2>2. chunk + 1 < n \/ chunk + 1 = n
    BY <1>2, <2>1
  <2>3. end = IF next < l THEN next ELSE l
    BY DEF M!Lesser
  <2> HIDE DEF next, n, l, end
  <2> QED
    BY <2>1, <2>2, <2>3 DEF next, n
<1>4. /\ handed' # <<>> => total'
      /\ total' /\ ~turned' =>
           IsPrefix(got', sending, end) /\ handed' = (IF Len(got') = l THEN got' ELSE <<>>)
      /\ intact' /\ l <= MaxLength => total' /\ ~turned'
  BY ArriveFacts
<1> HIDE DEF l, end
<1>5. ASSUME ~turned', handed' # <<>>
      PROVE  end = l /\ handed' = got' /\ IsPrefix(got', sending, l)
  <2>1. IsPrefix(got', sending, end) /\ handed' = (IF Len(got') = l THEN got' ELSE <<>>)
    BY <1>4, <1>5
  <2>2. Len(got') = l /\ handed' = got'
    BY <1>5, <2>1
  <2>3. Len(got') = end
    BY <2>1 DEF IsPrefix
  <2> QED
    BY <2>1, <2>2, <2>3
<1>6. ~turned' /\ handed' # <<>> => handed' = M!Frame(sending)
  BY <1>2, <1>3, <1>5, WholeFrame DEF l
<1>7. ASSUME chunk + 1 = M!NumChunks(sending), intact', l <= MaxLength
      PROVE  handed' # <<>>
  <2>1. IsPrefix(got', sending, l) /\ handed' = (IF Len(got') = l THEN got' ELSE <<>>)
    BY <1>3, <1>4, <1>7
  <2>2. Len(got') = l
    BY <2>1 DEF IsPrefix
  <2> QED
    BY <1>3, <2>1, <2>2
<1>8. ASSUME ~turned', l % ChunkLen # 0
      PROVE  /\ times' \in 0 .. 1
             /\ chunk + 1 < M!NumChunks(sending) => times' = 0
  <2>1. chunk # 0 => times = 0
    BY <1>1, <1>8 DEF MspInv, NotYetHanded, l
  <2>2. chunk + 1 < M!NumChunks(sending) => handed' = <<>>
    BY <1>3, <1>5, <1>8
  <2>3. (IF chunk = 0 THEN 0 ELSE times) = 0
    BY <2>1
  <2>4. times' = 0 + (IF handed' = <<>> THEN 0 ELSE 1)
    BY <1>1, <2>3
  <2> QED
    BY <2>2, <2>4
<1>9. handed' # <<>> => times' >= 1
  BY <1>1, <1>2
<1>10. times' \in Nat
  BY <1>1, <1>2
<1> QED
  BY <1>1, <1>2, <1>6, <1>7, <1>8, <1>9, <1>10 DEF l

\* A chunk that arrives goes on with what was there, or begins anew.
LEMMA ArriveStep ==
  ASSUME MspInv, NEW error \in BOOLEAN, M!Arrive(error)
  PROVE  MspInv'
<1>1. MspTyped /\ M!Advance
  BY DEF MspInv, M!Arrive
<1>2. /\ lost' = 0 /\ turned' = (turned /\ chunk # 0)
      /\ intact' = ((chunk = 0 \/ intact) /\ ~(error /\ chunk # 0))
      /\ seqPrev' = seqNum
  BY DEF M!Arrive, M!Parse
<1>3. /\ SeqRange \in Nat \ {0} /\ SeqRange > 1 /\ seqNum \in 0 .. SeqRange - 1
      /\ sending \in DOMAIN MspLength /\ chunk \in 0 .. M!NumChunks(sending) - 1
  BY <1>1, StructuresAssumption DEF StructuresAssumption, M!ChunkAssumption, MspTyped
<1>4. chunk' # 0 =>
        chunk + 1 < M!NumChunks(sending) /\ chunk' = chunk + 1 /\ sending' = sending
  BY <1>1, AdvanceFacts
<1>5. MspTyped'
  <2>1. turned' \in BOOLEAN /\ intact' \in BOOLEAN
    BY <1>2
  <2>2. total' \in BOOLEAN /\ times' \in Nat
    BY ArriveFacts, HandedFacts
  <2>3. /\ sending' \in DOMAIN MspLength /\ chunk' \in 0 .. M!NumChunks(sending)' - 1
        /\ seqNum' \in 0 .. SeqRange - 1
    BY <1>1, AdvanceFacts
  <2>4. lost' \in 0 .. SeqRange /\ seqPrev' \in 0 .. SeqRange - 1
    BY <1>2, <1>3
  <2> QED
    BY <2>1, <2>2, <2>3, <2>4 DEF MspTyped
<1>6. NumberTells'
  <2>1. seqNum' = (seqNum + 1) % SeqRange
    BY <1>1, AdvanceFacts
  <2>2. (seqNum + 1) % SeqRange = (seqNum + 1 + 0) % SeqRange
    BY <1>3, CountsOn
  <2>3. seqNum' = (seqPrev' + 1 + lost') % SeqRange
    BY <1>2, <2>1, <2>2
  <2> QED
    BY <1>2, <1>3, <2>3 DEF NumberTells
<1>7. ASSUME total', ~turned', chunk' # 0
      PROVE  pktLen' = MspLength[sending'] /\ IsPrefix(got', sending', chunk' * ChunkLen)
  <2>1. pktLen' = MspLength[sending]
        /\ IsPrefix(got', sending, M!Lesser((chunk + 1) * ChunkLen, MspLength[sending]))
    BY <1>7, ArriveFacts
  <2>2. M!Lesser((chunk + 1) * ChunkLen, MspLength[sending]) = (chunk + 1) * ChunkLen
    <3>1. /\ (chunk + 1) * ChunkLen <= MspLength[sending] /\ MspLength[sending] \in Nat
          /\ (chunk + 1) * ChunkLen = (chunk * ChunkLen) + ChunkLen
          /\ chunk * ChunkLen \in Nat /\ ChunkLen \in Nat
      BY <1>3, <1>4, <1>7, ChunkFacts
    <3> QED
      BY <3>1 DEF M!Lesser
  <2>3. chunk' = chunk + 1 /\ sending' = sending
    BY <1>4, <1>7
  <2> QED
    BY <2>1, <2>2, <2>3
<1>8. HasPrefix'
  BY <1>7 DEF HasPrefix, IsPrefix
<1>9. NotYetHanded'
  <2>1. ASSUME ~turned', chunk' # 0, MspLength[sending'] % ChunkLen # 0
        PROVE  times' = 0
    <3>1. sending' = sending /\ chunk + 1 < M!NumChunks(sending)
      BY <1>4, <2>1
    <3>2. MspLength[sending] % ChunkLen # 0
      BY <2>1, <3>1
    <3> QED
      BY <2>1, <3>1, <3>2, HandedFacts
  <2> QED
    BY <2>1 DEF NotYetHanded
<1>10. IntactGoesOn'
  <2>1. ASSUME intact', chunk' # 0, MspLength[sending'] <= MaxLength
        PROVE  total' /\ lost' = 0 /\ ~turned'
    <3>1. MspLength[sending] <= MaxLength
      BY <1>4, <2>1
    <3> QED
      BY <1>2, <2>1, <3>1, ArriveFacts
  <2> QED
    BY <2>1 DEF IntactGoesOn
<1> QED
  BY <1>5, <1>6, <1>8, <1>9, <1>10 DEF MspInv

\* Whichever chunks are lost, a frame is the message's as far as it goes.
THEOREM MspInvariant == M!Spec => []MspInv
<1>1. MspInv /\ [M!Next]_(M!vars) => MspInv'
  <2> SUFFICES ASSUME MspInv, [M!Next]_(M!vars)
               PROVE  MspInv'
    OBVIOUS
  <2>1. CASE UNCHANGED M!vars
    <3>1. UNCHANGED <<seqNum, sending, chunk, seqPrev, total, pktLen, got, lost, turned, intact,
                      times>>
      BY <2>1 DEF M!vars
    <3> QED
      BY <3>1
         DEF MspInv, MspTyped, NumberTells, HasPrefix, IsPrefix, NotYetHanded, IntactGoesOn,
             M!NumChunks
  <2> QED
    BY <2>1, LoseStep, ArriveStep DEF M!Next
<1> QED
  BY <1>1, MspInitInv, PTL DEF M!Spec

\* CROSSFIRE2MSP, MSP2CROSSFIRE: what is handed on is one message, whole and once (twice
\* when it ends with an empty chunk), whichever chunks are lost, short of a whole turn of
\* the sequence number; and a message that arrives chunk by chunk is handed on.
THEOREM ChunksAreJoined == M!Spec => ChunksJoin
<1> DEFINE Whole == handed' # <<>> => turned' \/ handed' = M!Frame(sending)
           Once ==
             /\ times' > 1 => turned' \/ MspLength[sending] % ChunkLen = 0
             /\ chunk + 1 = M!NumChunks(sending) /\ intact' /\ MspLength[sending] <= MaxLength
                  => times' >= 1
<1>1. ASSUME MspInv, M!Next
      PROVE  Whole /\ Once
  <2>1. CASE M!Lose
    <3>1. handed' = <<>> /\ intact' = FALSE /\ times' = IF chunk = 0 THEN 0 ELSE times
      BY <2>1 DEF M!Lose
    <3>2. times' > 1 => times' = times /\ chunk # 0
      BY <3>1
    <3>3. ~turned' => ~turned
      BY <2>1 DEF M!Lose
    <3>4. times' > 1 => turned' \/ MspLength[sending] % ChunkLen = 0
      BY <1>1, <3>2, <3>3 DEF MspInv, NotYetHanded
    <3> QED
      BY <3>1, <3>4
  <2>2. ASSUME NEW error \in BOOLEAN, M!Arrive(error)
        PROVE  Whole /\ Once
    <3>1. times' \in 0 .. 1 => ~(times' > 1)
      OBVIOUS
    <3> QED
      BY <1>1, <2>2, <3>1, HandedFacts
  <2> QED
    BY <1>1, <2>1, <2>2 DEF M!Next
<1>2. MspInv /\ [M!Next]_(M!vars) => [Whole]_(M!vars) /\ [Once]_(M!vars)
  BY <1>1
<1> HIDE DEF Whole, Once
<1>3. M!Spec => [][Whole]_(M!vars) /\ [][Once]_(M!vars)
  BY <1>2, MspInvariant, PTL DEF M!Spec
<1> QED
  BY <1>3, PTL DEF Whole, Once, ChunksJoin, M!ChunksJoin, M!WholeMessages, M!HandedOnce

-------------------------------------------------------------------------------
\* Within two rounds of the ring the remainder is a subtraction.
LEMMA WrapFacts ==
  /\ FifoSize \in Nat \ {0} /\ Byte \in Nat \ {0, 1}
  /\ \A x \in 0 .. FifoSize - 1 : F!Wrap(x) = x
  /\ \A x \in FifoSize .. (2 * FifoSize) - 1 : F!Wrap(x) = x - FifoSize
<1>1. FifoSize \in Nat \ {0} /\ Byte \in Nat \ {0, 1}
  BY StructuresAssumption DEF StructuresAssumption, F!FifoAssumption
<1>2. ASSUME NEW x \in 0 .. FifoSize - 1
      PROVE  F!Wrap(x) = x
  <2>1. x \in Nat /\ x = (FifoSize * 0) + x /\ 0 \in Nat
    BY <1>1
  <2> QED
    BY <1>1, <2>1, DividesOnce DEF F!Wrap
<1>3. ASSUME NEW x \in FifoSize .. (2 * FifoSize) - 1
      PROVE  F!Wrap(x) = x - FifoSize
  <2>1. /\ x \in Nat /\ x = (FifoSize * 1) + (x - FifoSize) /\ 1 \in Nat
        /\ x - FifoSize \in 0 .. FifoSize - 1
    BY <1>1
  <2> QED
    BY <1>1, <2>1, DividesOnce DEF F!Wrap
<1> QED
  BY <1>1, <1>2, <1>3

\* The bytes that wait are a sequence, each in the ring where it is counted to be.
LEMMA ContentsFacts ==
  ASSUME FifoInv
  PROVE  /\ F!Contents \in Seq(F!Bytes) /\ Len(F!Contents) = numElements
         /\ \A k \in 1 .. numElements : F!Contents[k] = buffer[F!Wrap(head + k - 1)]
         /\ \A k \in 1 .. numElements : F!Wrap(head + k - 1) \in F!Slots
<1>1. /\ FifoSize \in Nat \ {0} /\ head \in 0 .. FifoSize - 1 /\ numElements \in 0 .. FifoSize
      /\ buffer \in [F!Slots -> F!Bytes] /\ numElements \in Nat
  BY WrapFacts DEF FifoInv, F!Slots
<1>2. \A k \in 1 .. numElements : F!Wrap(head + k - 1) \in F!Slots
  BY <1>1, WrapFacts DEF F!Slots
<1>3. \A k \in 1 .. numElements : F!At(k - 1) = buffer[F!Wrap(head + k - 1)]
  <2> TAKE k \in 1 .. numElements
  <2>1. head + (k - 1) = head + k - 1
    BY <1>1
  <2> QED
    BY <2>1 DEF F!At
<1>4. \A k \in 1 .. numElements : F!At(k - 1) \in F!Bytes
  BY <1>1, <1>2, <1>3
<1>5. F!Contents \in [1 .. numElements -> F!Bytes]
  BY <1>4 DEF F!Contents
<1>6. F!Contents \in Seq(F!Bytes) /\ Len(F!Contents) = numElements
  BY <1>1, <1>5
<1>7. \A k \in 1 .. numElements : F!Contents[k] = F!At(k - 1)
  BY DEF F!Contents
<1> QED
  BY <1>2, <1>3, <1>6, <1>7

\* And so they are after a step.
LEMMA NextContentsFacts ==
  ASSUME FifoInv'
  PROVE  /\ F!Contents' \in Seq(F!Bytes) /\ Len(F!Contents') = numElements'
         /\ \A k \in 1 .. numElements' : F!Contents'[k] = buffer'[F!Wrap(head' + k - 1)]
         /\ \A k \in 1 .. numElements' : F!Wrap(head' + k - 1) \in F!Slots
<1>1. /\ FifoSize \in Nat \ {0} /\ head' \in 0 .. FifoSize - 1 /\ numElements' \in 0 .. FifoSize
      /\ buffer' \in [F!Slots -> F!Bytes] /\ numElements' \in Nat
  BY WrapFacts DEF FifoInv, F!Slots, F!Bytes
<1>2. \A k \in 1 .. numElements' : F!Wrap(head' + k - 1) \in F!Slots
  BY <1>1, WrapFacts DEF F!Slots
<1>3. F!Contents' = [k \in 1 .. numElements' |-> buffer'[F!Wrap(head' + (k - 1))]]
  BY DEF F!Contents, F!At, F!Wrap
<1>4. \A k \in 1 .. numElements' : F!Contents'[k] = buffer'[F!Wrap(head' + k - 1)]
  <2> TAKE k \in 1 .. numElements'
  <2>1. head' + (k - 1) = head' + k - 1
    BY <1>1
  <2> QED
    BY <1>3, <2>1
<1>5. \A k \in 1 .. numElements' : F!Contents'[k] \in F!Bytes
  BY <1>1, <1>2, <1>4
<1>6. F!Contents' \in [1 .. numElements' -> F!Bytes]
  <2>1. DOMAIN F!Contents' = 1 .. numElements'
        /\ F!Contents' = [k \in DOMAIN F!Contents' |-> F!Contents'[k]]
    BY <1>3
  <2> QED
    BY <1>5, <2>1
<1>7. F!Contents' \in Seq(F!Bytes) /\ Len(F!Contents') = numElements'
  BY <1>1, <1>6
<1> QED
  BY <1>2, <1>4, <1>7

\* Bytes that fit go behind the others, across the end of the ring.
LEMMA PushFacts ==
  ASSUME FifoInv, NEW data \in Seq(F!Bytes), F!PushBytes(data),
         numElements + Len(data) <= FifoSize
  PROVE  /\ FifoInv' /\ result' = <<>>
         /\ F!Contents' = F!Contents \o data
<1> DEFINE n == Len(data)
<1>1. /\ FifoSize \in Nat \ {0} /\ head \in 0 .. FifoSize - 1 /\ tail \in 0 .. FifoSize - 1
      /\ numElements \in 0 .. FifoSize /\ n \in Nat /\ numElements + n <= FifoSize
      /\ tail = F!Wrap(head + numElements) /\ head \in Nat /\ tail \in Nat /\ numElements \in Nat
      /\ buffer \in [F!Slots -> F!Bytes]
  BY WrapFacts DEF FifoInv, F!Slots, F!RingAgrees
<1>2. \A k \in 1 .. n : data[k] \in F!Bytes
  OBVIOUS
<1>3. /\ buffer' = [s \in F!Slots |-> IF F!Place(s, data) <= n
                                      THEN data[F!Place(s, data)] ELSE buffer[s]]
      /\ tail' = F!Wrap(tail + n) /\ numElements' = numElements + n
      /\ result' = <<>> /\ head' = head
  <2>1. ~(numElements + n > FifoSize)
    BY <1>1
  <2> QED
    BY <2>1 DEF F!PushBytes
<1> HIDE DEF n
<1>4. \A s \in F!Slots :
        F!Place(s, data) = IF s < tail THEN s - tail + FifoSize + 1 ELSE s - tail + 1
  <2> TAKE s \in F!Slots
  <2>1. s \in 0 .. FifoSize - 1
    BY DEF F!Slots
  <2>2. CASE s < tail
    <3>1. s - tail + FifoSize \in 0 .. FifoSize - 1
      BY <1>1, <2>1, <2>2
    <3>2. F!Wrap(s - tail + FifoSize) = s - tail + FifoSize
      BY <3>1, WrapFacts
    <3> QED
      BY <2>2, <3>2 DEF F!Place
  <2>3. CASE ~(s < tail)
    <3> DEFINE x == s - tail + FifoSize
    <3>1. x \in FifoSize .. (2 * FifoSize) - 1 /\ x - FifoSize = s - tail
      BY <1>1, <2>1, <2>3
    <3> HIDE DEF x
    <3>2. F!Wrap(x) = x - FifoSize
      BY <3>1, WrapFacts
    <3> QED
      BY <2>3, <3>1, <3>2 DEF F!Place, x
  <2> QED
    BY <2>2, <2>3
<1>5. \A s \in F!Slots : F!Place(s, data) \in Nat /\ F!Place(s, data) >= 1
  <2> TAKE s \in F!Slots
  <2>1. s \in 0 .. FifoSize - 1
    BY DEF F!Slots
  <2>2. F!Place(s, data) = IF s < tail THEN s - tail + FifoSize + 1 ELSE s - tail + 1
    BY <1>4
  <2> QED
    BY <1>1, <2>1, <2>2
<1>6. buffer' \in [F!Slots -> F!Bytes]
  BY <1>1, <1>2, <1>3, <1>5
<1>7. tail = IF head + numElements < FifoSize THEN head + numElements
             ELSE head + numElements - FifoSize
  BY <1>1, WrapFacts
<1>8. tail' \in 0 .. FifoSize - 1
      /\ tail' = IF tail + n < FifoSize THEN tail + n ELSE tail + n - FifoSize
  BY <1>1, <1>3, WrapFacts
<1>9. tail' = F!Wrap(head' + numElements')
  <2>1. head' + numElements' = head + numElements + n
    BY <1>1, <1>3
  <2>2. F!Wrap(head + numElements + n) =
          IF head + numElements + n < FifoSize THEN head + numElements + n
          ELSE head + numElements + n - FifoSize
    BY <1>1, WrapFacts
  <2> QED
    BY <1>1, <1>7, <1>8, <2>1, <2>2
<1>10. FifoInv'
  <2>1. F!RingAgrees'
    BY <1>9 DEF F!RingAgrees, F!Wrap
  <2>2. head' \in 0 .. FifoSize - 1 /\ numElements' \in 0 .. FifoSize
    BY <1>1, <1>3
  <2> QED
    BY <1>6, <1>8, <2>1, <2>2 DEF FifoInv, F!Slots, F!Bytes
<1>11. ASSUME NEW k \in 1 .. numElements
       PROVE  F!Contents'[k] = F!Contents[k]
  <2> DEFINE s == F!Wrap(head + k - 1)
  <2>1. s \in 0 .. FifoSize - 1
        /\ s = IF head + k - 1 < FifoSize THEN head + k - 1 ELSE head + k - 1 - FifoSize
    BY <1>1, WrapFacts
  <2>2. F!Contents[k] = buffer[s]
    BY ContentsFacts
  <2>3. F!Contents'[k] = buffer'[s]
    <3>1. k \in 1 .. numElements' /\ head' = head
      BY <1>1, <1>3
    <3> QED
      BY <1>10, <3>1, NextContentsFacts
  <2> HIDE DEF s
  <2>4. ~(F!Place(s, data) <= n)
    <3>1. F!Place(s, data) = IF s < tail THEN s - tail + FifoSize + 1 ELSE s - tail + 1
      BY <1>4, <2>1 DEF F!Slots
    <3> QED
      BY <1>1, <1>7, <2>1, <3>1
  <2> QED
    BY <1>3, <2>1, <2>2, <2>3, <2>4 DEF F!Slots
<1>12. ASSUME NEW j \in 1 .. n
       PROVE  F!Contents'[numElements + j] = data[j]
  <2> DEFINE k == numElements + j
             s == F!Wrap(head + k - 1)
  <2>1. k \in Nat /\ head + k - 1 \in 0 .. (2 * FifoSize) - 1
    BY <1>1
  <2>2. s \in 0 .. FifoSize - 1
        /\ s = IF head + k - 1 < FifoSize THEN head + k - 1 ELSE head + k - 1 - FifoSize
    <3> HIDE DEF k
    <3> QED
      BY <1>1, <2>1, WrapFacts
  <2>3. F!Contents'[k] = buffer'[s]
    <3>1. k \in 1 .. numElements' /\ head' = head
      BY <1>1, <1>3
    <3> HIDE DEF k
    <3> QED
      BY <1>10, <3>1, NextContentsFacts
  <2> HIDE DEF s
  <2>4. F!Place(s, data) = j
    <3>1. F!Place(s, data) = IF s < tail THEN s - tail + FifoSize + 1 ELSE s - tail + 1
      BY <1>4, <2>2 DEF F!Slots
    <3>2. s = IF head + numElements + j - 1 < FifoSize THEN head + numElements + j - 1
              ELSE head + numElements + j - 1 - FifoSize
      BY <1>1, <2>2
    <3> HIDE DEF k
    <3>3. CASE head + numElements < FifoSize
      <4>1. tail = head + numElements
        BY <1>7, <3>3
      <4> QED
        BY <1>1, <3>1, <3>2, <4>1, SMTT(40)
    <3>4. CASE ~(head + numElements < FifoSize)
      <4>1. tail = head + numElements - FifoSize
        BY <1>7, <3>4
      <4>2. s = head + numElements + j - 1 - FifoSize
        BY <1>1, <3>2, <3>4
      <4> QED
        BY <1>1, <3>1, <4>1, <4>2
    <3> QED
      BY <3>3, <3>4
  <2> QED
    BY <1>1, <1>3, <2>2, <2>3, <2>4 DEF F!Slots
<1>13. F!Contents \in Seq(F!Bytes) /\ Len(F!Contents) = numElements
       /\ F!Contents' \in Seq(F!Bytes) /\ Len(F!Contents') = numElements + n
  BY <1>3, <1>10, ContentsFacts, NextContentsFacts
<1> DEFINE joined == F!Contents \o data
<1>14. /\ joined \in Seq(F!Bytes) /\ Len(joined) = Len(F!Contents) + Len(data)
       /\ \A j \in 1 .. Len(F!Contents) : joined[j] = F!Contents[j]
       /\ \A j \in 1 .. Len(data) : joined[Len(F!Contents) + j] = data[j]
  <2>1. F!Contents \in Seq(F!Bytes) /\ data \in Seq(F!Bytes)
    BY <1>13
  <2> QED
    BY <2>1, Joined
<1> HIDE DEF joined
<1>15. /\ Len(joined) = numElements + n /\ joined \in Seq(F!Bytes)
       /\ \A j \in 1 .. numElements : joined[j] = F!Contents[j]
       /\ \A j \in 1 .. n : joined[numElements + j] = data[j]
  BY <1>13, <1>14 DEF n
<1>16. \A k \in 1 .. numElements + n : F!Contents'[k] = joined[k]
  <2> TAKE k \in 1 .. numElements + n
  <2>1. CASE k <= numElements
    BY <1>1, <1>11, <1>15, <2>1
  <2>2. CASE k > numElements
    <3>1. k - numElements \in 1 .. n /\ numElements + (k - numElements) = k
      BY <1>1, <2>2
    <3> QED
      BY <1>12, <1>15, <3>1
  <2> QED
    BY <1>1, <2>1, <2>2
<1>17. F!Contents' = joined
  <2> DEFINE c == F!Contents'
  <2>1. c \in Seq(F!Bytes) /\ joined \in Seq(F!Bytes) /\ Len(c) = Len(joined)
        /\ \A k \in 1 .. Len(c) : c[k] = joined[k]
    BY <1>13, <1>15, <1>16
  <2> HIDE DEF c
  <2> QED
    BY <2>1, SeqEqual DEF c
<1> QED
  BY <1>3, <1>10, <1>17 DEF joined

\* Bytes that leave are the first ones, and the others stay as they are.
LEMMA AdvanceFifo ==
  ASSUME FifoInv, NEW n \in 0 .. numElements, F!Advance(n)
  PROVE  FifoInv' /\ F!Contents' = SubSeq(F!Contents, n + 1, Len(F!Contents))
<1>1. /\ FifoSize \in Nat \ {0} /\ head \in 0 .. FifoSize - 1 /\ tail \in 0 .. FifoSize - 1
      /\ numElements \in 0 .. FifoSize /\ n \in Nat /\ n <= numElements
      /\ tail = F!Wrap(head + numElements) /\ head \in Nat /\ numElements \in Nat
      /\ buffer \in [F!Slots -> F!Bytes]
  BY WrapFacts DEF FifoInv, F!Slots, F!RingAgrees
<1>2. /\ head' = F!Wrap(head + n) /\ numElements' = numElements - n
      /\ buffer' = buffer /\ tail' = tail
  BY DEF F!Advance
<1>3. head' \in 0 .. FifoSize - 1
      /\ head' = IF head + n < FifoSize THEN head + n ELSE head + n - FifoSize
  BY <1>1, <1>2, WrapFacts
<1>4. FifoInv'
  <2>1. F!Wrap(head' + numElements') = F!Wrap(head + numElements)
    <3> DEFINE x == head' + numElements'
               y == head + numElements
    <3>1. x \in 0 .. (2 * FifoSize) - 1 /\ y \in 0 .. (2 * FifoSize) - 1
          /\ (x = y \/ x = y - FifoSize)
      BY <1>1, <1>2, <1>3
    <3> HIDE DEF x, y
    <3>2. F!Wrap(x) = IF x < FifoSize THEN x ELSE x - FifoSize
      BY <1>1, <3>1, WrapFacts
    <3>3. F!Wrap(y) = IF y < FifoSize THEN y ELSE y - FifoSize
      BY <1>1, <3>1, WrapFacts
    <3> QED
      BY <1>1, <3>1, <3>2, <3>3 DEF x, y
  <2>2. F!RingAgrees'
    BY <1>1, <1>2, <2>1 DEF F!RingAgrees, F!Wrap
  <2>3. numElements' \in 0 .. FifoSize
    BY <1>1, <1>2
  <2> QED
    BY <1>1, <1>2, <1>3, <2>2, <2>3 DEF FifoInv, F!Slots, F!Bytes
<1>5. \A k \in 1 .. numElements - n : F!Contents'[k] = F!Contents[n + k]
  <2> TAKE k \in 1 .. numElements - n
  <2> DEFINE x == head' + k - 1
             y == head + (n + k) - 1
  <2>1. x \in 0 .. (2 * FifoSize) - 1 /\ y \in 0 .. (2 * FifoSize) - 1
        /\ (x = y \/ x = y - FifoSize)
    BY <1>1, <1>2, <1>3
  <2>2. k \in 1 .. numElements' /\ n + k \in 1 .. numElements
    BY <1>1, <1>2
  <2>3. F!Contents'[k] = buffer'[F!Wrap(x)]
    BY <1>4, <2>2, NextContentsFacts
  <2>4. F!Contents[n + k] = buffer[F!Wrap(y)]
    <3> DEFINE l == n + k
    <3>1. l \in 1 .. numElements /\ y = head + l - 1
      BY <2>2
    <3> HIDE DEF l, y
    <3>2. F!Contents[l] = buffer[F!Wrap(head + l - 1)]
      BY <3>1, ContentsFacts
    <3> QED
      BY <3>1, <3>2 DEF l
  <2> HIDE DEF x, y
  <2>5. F!Wrap(x) = F!Wrap(y)
    <3>1. F!Wrap(x) = IF x < FifoSize THEN x ELSE x - FifoSize
      BY <1>1, <2>1, WrapFacts
    <3>2. F!Wrap(y) = IF y < FifoSize THEN y ELSE y - FifoSize
      BY <1>1, <2>1, WrapFacts
    <3> QED
      BY <1>1, <2>1, <3>1, <3>2
  <2> QED
    BY <1>2, <2>3, <2>4, <2>5
<1> DEFINE c == F!Contents
           d == F!Contents'
           rest == SubSeq(c, n + 1, Len(c))
<1>6. /\ c \in Seq(F!Bytes) /\ Len(c) = numElements
      /\ d \in Seq(F!Bytes) /\ Len(d) = numElements - n
  BY <1>2, <1>4, ContentsFacts, NextContentsFacts
<1>7. \A k \in 1 .. numElements - n : d[k] = c[n + k]
  BY <1>5
<1> HIDE DEF c, d
<1>8. /\ rest \in Seq(F!Bytes) /\ Len(rest) = numElements - n
      /\ \A k \in 1 .. numElements - n : rest[k] = c[n + k]
  BY <1>1, <1>6, SMT
<1> HIDE DEF rest
<1>9. d = rest
  <2>1. Len(d) = Len(rest) /\ d \in Seq(F!Bytes) /\ rest \in Seq(F!Bytes)
        /\ \A k \in 1 .. Len(d) : d[k] = rest[k]
    BY <1>6, <1>7, <1>8
  <2> QED
    BY <2>1, SeqEqual
<1> QED
  BY <1>4, <1>9 DEF c, d, rest

\* What is read are the first bytes.
LEMMA ReadFacts ==
  ASSUME FifoInv, NEW n \in 0 .. numElements
  PROVE  [k \in 1 .. n |-> F!At(k - 1)] = SubSeq(F!Contents, 1, n)
<1> DEFINE c == F!Contents
           read == [k \in 1 .. n |-> F!At(k - 1)]
           front == SubSeq(c, 1, n)
<1>1. n \in Nat /\ n <= numElements /\ numElements \in Nat
  BY WrapFacts DEF FifoInv
<1>2. c \in Seq(F!Bytes) /\ Len(c) = numElements
  BY ContentsFacts
<1>3. \A k \in 1 .. n : F!At(k - 1) = c[k] /\ c[k] \in F!Bytes
  <2> TAKE k \in 1 .. n
  <2>1. k \in 1 .. numElements
    BY <1>1
  <2>2. c[k] = F!At(k - 1)
    BY <2>1 DEF F!Contents
  <2> HIDE DEF c
  <2>3. c[k] \in F!Bytes
    BY <1>2, <2>1
  <2> QED
    BY <2>2, <2>3
<1> HIDE DEF c
<1>4. read \in [1 .. n -> F!Bytes]
  BY <1>3
<1>5. read \in Seq(F!Bytes) /\ Len(read) = n
  BY <1>1, <1>4
<1>6. \A k \in 1 .. n : read[k] = c[k]
  BY <1>3
<1> HIDE DEF read
<1>7. /\ front \in Seq(F!Bytes) /\ Len(front) = n
      /\ \A k \in 1 .. n : front[k] = c[k]
  BY <1>1, <1>2, SMT
<1> HIDE DEF front
<1>8. read = front
  BY <1>5, <1>6, <1>7, SeqEqual
<1> QED
  BY <1>8 DEF c, read, front

\* A byte that is overwritten is the one that was counted to.
LEMMA SetFacts ==
  ASSUME FifoInv, NEW at \in F!Slots, NEW b \in F!Bytes, F!Set(at, b)
  PROVE  /\ FifoInv' /\ result' = <<>> /\ at + 1 \in 1 .. numElements
         /\ F!Contents' = [F!Contents EXCEPT ![at + 1] = b]
<1>1. /\ FifoSize \in Nat \ {0} /\ head \in 0 .. FifoSize - 1 /\ tail \in 0 .. FifoSize - 1
      /\ numElements \in 0 .. FifoSize /\ at \in Nat /\ head \in Nat /\ numElements \in Nat
      /\ buffer \in [F!Slots -> F!Bytes]
  BY WrapFacts DEF FifoInv, F!Slots
<1>2. /\ at < numElements
      /\ buffer' = [buffer EXCEPT ![F!Wrap(head + at)] = b]
      /\ result' = <<>> /\ head' = head /\ tail' = tail /\ numElements' = numElements
  BY DEF F!Set
<1> DEFINE x == head + at
<1>3. x \in 0 .. (2 * FifoSize) - 1
  BY <1>1, <1>2
<1>4. F!Wrap(x) \in 0 .. FifoSize - 1
      /\ F!Wrap(x) = IF x < FifoSize THEN x ELSE x - FifoSize
  <2> HIDE DEF x
  <2> QED
    BY <1>1, <1>3, WrapFacts
<1>5. buffer' \in [F!Slots -> F!Bytes]
  BY <1>1, <1>2, <1>4 DEF F!Slots
<1>6. FifoInv'
  <2>1. F!RingAgrees'
    BY <1>2 DEF FifoInv, F!RingAgrees, F!Wrap
  <2> QED
    BY <1>2, <1>5, <2>1 DEF FifoInv, F!Slots, F!Bytes
<1>7. ASSUME NEW k \in 1 .. numElements
      PROVE  F!Contents'[k] = IF k = at + 1 THEN b ELSE F!Contents[k]
  <2> DEFINE y == head + k - 1
  <2>1. y \in 0 .. (2 * FifoSize) - 1 /\ (k = at + 1 <=> y = x)
        /\ y - x < FifoSize /\ x - y < FifoSize
    BY <1>1, <1>2
  <2>2. F!Contents'[k] = buffer'[F!Wrap(y)] /\ F!Contents[k] = buffer[F!Wrap(y)]
        /\ F!Wrap(y) \in F!Slots
    <3>1. k \in 1 .. numElements' /\ head' = head
      BY <1>2
    <3> QED
      BY <1>6, <3>1, ContentsFacts, NextContentsFacts
  <2> HIDE DEF x, y
  <2>3. F!Wrap(y) = IF y < FifoSize THEN y ELSE y - FifoSize
    BY <1>1, <2>1, WrapFacts
  <2>4. F!Wrap(y) = F!Wrap(x) <=> y = x
    BY <1>1, <1>3, <1>4, <2>1, <2>3
  <2>5. buffer'[F!Wrap(y)] = IF F!Wrap(y) = F!Wrap(x) THEN b ELSE buffer[F!Wrap(y)]
    BY <1>1, <1>2, <2>2 DEF x
  <2> QED
    BY <2>1, <2>2, <2>4, <2>5
<1> DEFINE c == F!Contents
           d == F!Contents'
           e == [c EXCEPT ![at + 1] = b]
<1>8. /\ c \in Seq(F!Bytes) /\ Len(c) = numElements
      /\ d \in Seq(F!Bytes) /\ Len(d) = numElements
  BY <1>2, <1>6, ContentsFacts, NextContentsFacts
<1>9. \A k \in 1 .. numElements : d[k] = IF k = at + 1 THEN b ELSE c[k]
  BY <1>7
<1> HIDE DEF c, d
<1>10. /\ e \in Seq(F!Bytes) /\ Len(e) = numElements
       /\ \A k \in 1 .. numElements : e[k] = IF k = at + 1 THEN b ELSE c[k]
  BY <1>1, <1>2, <1>8
<1> HIDE DEF e
<1>11. d = e
  BY <1>8, <1>9, <1>10, SeqEqual
<1> QED
  BY <1>1, <1>2, <1>6, <1>11 DEF c, d, e

\* An empty ring.
LEMMA FlushFacts ==
  ASSUME FifoInv, F!Flush
  PROVE  FifoInv' /\ result' = <<>> /\ F!Contents' = <<>>
<1>1. /\ head' = 0 /\ tail' = 0 /\ numElements' = 0 /\ result' = <<>> /\ buffer' = buffer
  BY DEF F!Flush
<1>2. FifoSize \in Nat \ {0} /\ F!Wrap(0) = 0
  BY WrapFacts
<1>3. F!RingAgrees'
  <2>1. F!Wrap(0 + 0) = 0
    BY <1>2
  <2> QED
    BY <1>1, <2>1 DEF F!RingAgrees, F!Wrap
<1>4. FifoInv'
  BY <1>1, <1>2, <1>3 DEF FifoInv, F!Slots, F!Bytes
<1>5. F!Contents' = <<>>
  <2> DEFINE d == F!Contents'
  <2>1. d \in Seq(F!Bytes) /\ Len(d) = 0
    BY <1>1, <1>4, NextContentsFacts
  <2> HIDE DEF d
  <2> QED
    BY <2>1 DEF d
<1> QED
  BY <1>1, <1>4, <1>5

\* A push is one of the queue's, or empties it.
LEMMA PushStep ==
  ASSUME FifoInv, NEW n \in 0 .. FifoSize + 1, NEW data \in F!Strings(n), F!PushBytes(data)
  PROVE  FifoInv' /\ F!Reference!Next
<1>1. FifoSize \in Nat \ {0} /\ n \in Nat /\ numElements \in 0 .. FifoSize
  BY WrapFacts DEF FifoInv
<1>2. data \in Seq(F!Bytes) /\ Len(data) = n
  BY <1>1 DEF F!Strings
<1>3. CASE numElements + Len(data) <= FifoSize
  <2>1. FifoInv' /\ result' = <<>> /\ F!Contents' = F!Contents \o data
    BY <1>2, <1>3, PushFacts
  <2>2. Len(F!Contents) = numElements
    BY ContentsFacts
  <2>3. F!Reference!Put(data)
    BY <1>3, <2>1, <2>2 DEF F!Reference!Put
  <2>4. n \in 0 .. FifoSize /\ data \in [1 .. n -> F!Bytes]
    BY <1>1, <1>2, <1>3 DEF F!Strings
  <2> QED
    BY <2>1, <2>3, <2>4 DEF F!Reference!Next
<1>4. CASE ~(numElements + Len(data) <= FifoSize)
  <2>1. F!Flush
    <3>1. numElements + Len(data) > FifoSize
      BY <1>1, <1>2, <1>4
    <3> QED
      BY <3>1 DEF F!PushBytes
  <2> QED
    BY <2>1, FlushFacts DEF F!Reference!Next, F!Reference!Empty
<1> QED
  BY <1>3, <1>4

\* So is a read, and it empties the queue if there is too little.
LEMMA PopStep ==
  ASSUME FifoInv, NEW n \in 0 .. FifoSize + 1, F!PopBytes(n)
  PROVE  FifoInv' /\ F!Reference!Next
<1>1. FifoSize \in Nat \ {0} /\ n \in Nat /\ numElements \in 0 .. FifoSize
  BY WrapFacts DEF FifoInv
<1>2. CASE numElements < n
  <2>1. F!Flush
    BY <1>2 DEF F!PopBytes
  <2> QED
    BY <2>1, FlushFacts DEF F!Reference!Next, F!Reference!Empty
<1>3. CASE ~(numElements < n)
  <2>1. F!Advance(n) /\ result' = [k \in 1 .. n |-> F!At(k - 1)] /\ n \in 0 .. numElements
    BY <1>1, <1>3 DEF F!PopBytes
  <2>2. FifoInv' /\ F!Contents' = SubSeq(F!Contents, n + 1, Len(F!Contents))
    BY <2>1, AdvanceFifo
  <2>3. [k \in 1 .. n |-> F!At(k - 1)] = SubSeq(F!Contents, 1, n)
    BY <2>1, ReadFacts
  <2>4. result' = SubSeq(F!Contents, 1, n)
    BY <2>1, <2>3
  <2>5. n <= Len(F!Contents)
    <3>1. Len(F!Contents) = numElements
      BY ContentsFacts
    <3> QED
      BY <1>1, <1>3, <3>1
  <2>6. F!Reference!Take(n)
    BY <2>2, <2>4, <2>5, Zenon DEF F!Reference!Take
  <2> QED
    BY <2>2, <2>6 DEF F!Reference!Next
<1> QED
  BY <1>2, <1>3

\* A skip gives up what there is.
LEMMA SkipStep ==
  ASSUME FifoInv, NEW n \in 0 .. FifoSize + 1, F!Skip(n)
  PROVE  FifoInv' /\ F!Reference!Next
<1> DEFINE m == F!Lesser(n, numElements)
<1>1. FifoSize \in Nat \ {0} /\ n \in Nat /\ numElements \in 0 .. FifoSize
  BY WrapFacts DEF FifoInv
<1>2. m \in 0 .. numElements /\ m \in 0 .. FifoSize + 1
  BY <1>1 DEF F!Lesser
<1>3. F!Advance(m) /\ result' = <<>>
  BY DEF F!Skip
<1> HIDE DEF m
<1>4. FifoInv' /\ F!Contents' = SubSeq(F!Contents, m + 1, Len(F!Contents))
  BY <1>2, <1>3, AdvanceFifo
<1>5. m <= Len(F!Contents)
  <2>1. Len(F!Contents) = numElements
    BY ContentsFacts
  <2> QED
    BY <1>1, <1>2, <2>1
<1>6. F!Reference!Discard(m)
  BY <1>3, <1>4, <1>5, Zenon DEF F!Reference!Discard
<1> QED
  BY <1>2, <1>4, <1>6 DEF F!Reference!Next

\* Every method of the FIFO is a step of the queue.
LEMMA FifoStep ==
  ASSUME FifoInv, F!Next
  PROVE  FifoInv' /\ F!Reference!Next
<1>1. FifoSize \in Nat \ {0} /\ numElements \in 0 .. FifoSize
  BY WrapFacts DEF FifoInv
<1>2. ASSUME NEW n \in 0 .. FifoSize, NEW data \in F!Strings(n), F!PushBytes(data)
      PROVE  FifoInv' /\ F!Reference!Next
  <2>1. n \in 0 .. FifoSize + 1
    BY <1>1
  <2> QED
    BY <1>2, <2>1, PushStep
<1>3. ASSUME NEW b \in F!Bytes, F!Push(b)
      PROVE  FifoInv' /\ F!Reference!Next
  <2>1. <<b>> \in F!Strings(1) /\ 1 \in 0 .. FifoSize + 1
    BY <1>1 DEF F!Strings
  <2>2. F!PushBytes(<<b>>)
    BY <1>3 DEF F!Push
  <2> QED
    BY <2>1, <2>2, PushStep
<1>4. ASSUME NEW b \in F!Bytes, NEW high \in F!Bytes, F!PushSize(b, high)
      PROVE  FifoInv' /\ F!Reference!Next
  <2>1. <<b, high>> \in F!Strings(2) /\ 2 \in 0 .. FifoSize + 1
    BY <1>1 DEF F!Strings
  <2>2. F!PushBytes(<<b, high>>)
    BY <1>4 DEF F!PushSize
  <2> QED
    BY <2>1, <2>2, PushStep
<1>5. ASSUME NEW n \in 0 .. FifoSize + 1, F!PopBytes(n) \/ F!Skip(n)
      PROVE  FifoInv' /\ F!Reference!Next
  BY <1>5, PopStep, SkipStep
<1>6. ASSUME result' = <<>>, UNCHANGED <<buffer, head, tail, numElements>>
      PROVE  FifoInv' /\ F!Reference!Next
  <2>1. FifoInv'
    BY <1>6 DEF FifoInv, F!Slots, F!Bytes, F!RingAgrees, F!Wrap
  <2>2. F!Contents' = F!Contents
    BY <1>6 DEF F!Contents, F!At, F!Wrap
  <2> QED
    BY <1>6, <2>1, <2>2 DEF F!Reference!Next, F!Reference!TakeNone
<1>7. CASE F!Pop \/ F!PopSize
  <2>1. 1 \in 0 .. FifoSize + 1 /\ 2 \in 0 .. FifoSize + 1
    BY <1>1
  <2> QED
    BY <1>6, <1>7, <2>1, PopStep DEF F!Pop, F!PopSize
<1>8. ASSUME NEW at \in F!Slots, NEW b \in F!Bytes, F!Set(at, b)
      PROVE  FifoInv' /\ F!Reference!Next
  <2>1. /\ FifoInv' /\ result' = <<>> /\ at + 1 \in 1 .. numElements
        /\ F!Contents' = [F!Contents EXCEPT ![at + 1] = b]
    BY <1>8, SetFacts
  <2>2. Len(F!Contents) = numElements /\ at + 1 \in 1 .. FifoSize
    BY <1>1, <2>1, ContentsFacts
  <2>3. F!Reference!Change(at + 1, b)
    BY <2>1, <2>2, Zenon DEF F!Reference!Change
  <2> QED
    BY <2>1, <2>2, <2>3 DEF F!Reference!Next
<1>9. CASE F!Flush
  BY <1>9, FlushFacts DEF F!Reference!Next, F!Reference!Empty
<1> QED
  BY <1>2, <1>3, <1>4, <1>5, <1>7, <1>8, <1>9 DEF F!Next

\* The ring begins empty.
LEMMA FifoInitInv == F!Init => FifoInv /\ F!Reference!Init
<1> SUFFICES ASSUME F!Init
             PROVE  FifoInv /\ F!Reference!Init
  OBVIOUS
<1>1. /\ buffer = [s \in F!Slots |-> 0] /\ head = 0 /\ tail = 0 /\ numElements = 0
      /\ result = <<>>
  BY DEF F!Init
<1>2. FifoSize \in Nat \ {0} /\ Byte \in Nat \ {0, 1} /\ F!Wrap(0) = 0
  BY WrapFacts
<1>3. F!RingAgrees
  <2>1. F!Wrap(0 + 0) = 0
    BY <1>2
  <2> QED
    BY <1>1, <2>1 DEF F!RingAgrees
<1>4. FifoInv
  BY <1>1, <1>2, <1>3 DEF FifoInv, F!Slots, F!Bytes
<1>5. F!Contents = <<>>
  <2> DEFINE d == F!Contents
  <2>1. d \in Seq(F!Bytes) /\ Len(d) = 0
    BY <1>1, <1>4, ContentsFacts
  <2> HIDE DEF d
  <2> QED
    BY <2>1 DEF d
<1> QED
  BY <1>1, <1>4, <1>5 DEF F!Reference!Init

\* Every step of the FIFO, or of something else, keeps the invariant and is one of the queue.
LEMMA FifoSteps ==
  ASSUME FifoInv, [F!Next]_(F!fifoVars)
  PROVE  FifoInv' /\ [F!Reference!Next]_<<F!Contents, result>>
<1>1. CASE F!Next
  BY <1>1, FifoStep
<1>2. CASE UNCHANGED F!fifoVars
  <2>1. UNCHANGED <<buffer, head, tail, numElements, result>>
    BY <1>2 DEF F!fifoVars
  <2>2. FifoInv'
    BY <2>1 DEF FifoInv, F!Slots, F!Bytes, F!RingAgrees, F!Wrap
  <2>3. F!Contents' = F!Contents
    BY <2>1 DEF F!Contents, F!At, F!Wrap
  <2> QED
    BY <2>1, <2>2, <2>3
<1> QED
  BY <1>1, <1>2

\* FIFO.h: head, tail and count agree.
THEOREM FifoInvariant == F!Spec => []FifoInv
<1> QED
  BY FifoInitInv, FifoSteps, PTL DEF F!Spec

\* FIFO.h is a queue of bytes, for a ring of any size.
THEOREM FifoIsQueue == F!Spec => F!ImplementsQueue
<1>1. F!Init => FifoInv /\ F!Reference!Init
  BY FifoInitInv
<1>2. FifoInv /\ [F!Next]_(F!fifoVars) => FifoInv' /\ [F!Reference!Next]_<<F!Contents, result>>
  BY FifoSteps
<1> QED
  BY <1>1, <1>2, PTL DEF F!Spec, F!ImplementsQueue, F!Reference!Spec

-------------------------------------------------------------------------------
\* A period before the current one is found by one subtraction.
LEMMA PlaceFacts ==
  ASSUME NEW n \in Nat \ {0}, NEW pos \in 0 .. n - 1, NEW k \in 0 .. n
  PROVE  (pos + n - k) % n = IF k <= pos THEN pos - k ELSE pos + n - k
<1> DEFINE x == pos + n - k
<1>1. CASE k <= pos
  <2>1. x \in Nat /\ pos - k \in 0 .. n - 1 /\ x = (n * 1) + (pos - k) /\ 1 \in Nat
    BY <1>1
  <2> HIDE DEF x
  <2>2. x % n = pos - k
    BY <2>1, DividesOnce
  <2> QED
    BY <1>1, <2>2 DEF x
<1>2. CASE ~(k <= pos)
  <2>1. x \in Nat /\ x \in 0 .. n - 1 /\ x = (n * 0) + x /\ 0 \in Nat
    BY <1>2
  <2> HIDE DEF x
  <2>2. x % n = x
    BY <2>1, DividesOnce
  <2> QED
    BY <1>2, <2>2 DEF x
<1> QED
  BY <1>1, <1>2

\* Every period has its word and its bit, and they are no other's.
LEMMA BitPlaces ==
  /\ Periods \in Nat \ {0} /\ WordBits \in Nat \ {0} /\ W!Words \in Nat
  /\ \A p \in 0 .. Periods - 1 :
       /\ p \div WordBits \in 0 .. W!Words - 1 /\ p % WordBits \in 0 .. WordBits - 1
       /\ p \div WordBits \in Nat
       /\ p = ((p \div WordBits) * WordBits) + (p % WordBits)
  /\ \A w \in Nat, b \in 0 .. WordBits - 1 :
       /\ (w * WordBits) + b \in Nat
       /\ ((w * WordBits) + b) \div WordBits = w /\ ((w * WordBits) + b) % WordBits = b
<1>1. Periods \in Nat \ {0} /\ WordBits \in Nat \ {0}
  BY StructuresAssumption DEF StructuresAssumption, W!LqAssumption
<1>2. W!Words \in Nat
  <2>1. Periods + WordBits - 1 \in Nat
    BY <1>1
  <2> QED
    BY <1>1, <2>1, Divides DEF W!Words
<1>3. ASSUME NEW p \in 0 .. Periods - 1
      PROVE  /\ p \div WordBits \in 0 .. W!Words - 1 /\ p % WordBits \in 0 .. WordBits - 1
             /\ p \div WordBits \in Nat
             /\ p = ((p \div WordBits) * WordBits) + (p % WordBits)
  <2>1. p \in Nat /\ WordBits + Periods - 1 = Periods + WordBits - 1
    BY <1>1
  <2> DEFINE q == p \div WordBits
  <2>2. q \in Nat /\ p % WordBits \in 0 .. WordBits - 1
        /\ p = (WordBits * q) + (p % WordBits)
    BY <1>1, <2>1, Divides
  <2>3. q \in 0 .. ((WordBits + Periods - 1) \div WordBits) - 1
    BY <1>1, PeriodsInWindow
  <2>4. q \in 0 .. W!Words - 1
    BY <2>1, <2>3 DEF W!Words
  <2> HIDE DEF q
  <2>5. WordBits * q = q * WordBits
    BY <1>1, <2>2
  <2> QED
    BY <2>2, <2>4, <2>5 DEF q
<1>4. ASSUME NEW w \in Nat, NEW b \in 0 .. WordBits - 1
      PROVE  /\ (w * WordBits) + b \in Nat
             /\ ((w * WordBits) + b) \div WordBits = w /\ ((w * WordBits) + b) % WordBits = b
  <2> DEFINE x == (w * WordBits) + b
  <2>1. x \in Nat /\ x = (WordBits * w) + b
    BY <1>1
  <2> HIDE DEF x
  <2>2. x \div WordBits = w /\ x % WordBits = b
    BY <1>1, <2>1, DividesOnce
  <2> QED
    BY <2>1, <2>2 DEF x
<1> QED
  BY <1>1, <1>2, <1>3, <1>4

\* The current period has the current word and bit.
LEMMA CurrentPlace ==
  ASSUME LqTyped
  PROVE  /\ W!Position \div WordBits = index /\ W!Position % WordBits = bit
         /\ index \in 0 .. W!Words - 1 /\ DOMAIN LQArray = 0 .. W!Words - 1
         /\ W!BitAt(W!Position) <=> W!CurrentIsSet
         /\ \A p \in 0 .. Periods - 1 : p # W!Position =>
              p \div WordBits # index \/ p % WordBits # bit
<1>1. /\ index \in Nat /\ bit \in 0 .. WordBits - 1 /\ W!Position \in 0 .. Periods - 1
      /\ W!Position = (index * WordBits) + bit
  BY DEF LqTyped, W!Position
<1>2. W!Position \div WordBits = index /\ W!Position % WordBits = bit
  BY <1>1, BitPlaces
<1>3. index \in 0 .. W!Words - 1
  BY <1>1, <1>2, BitPlaces
<1>4. W!BitAt(W!Position) <=> W!CurrentIsSet
  BY <1>2 DEF W!BitAt, W!CurrentIsSet
<1>5. ASSUME NEW p \in 0 .. Periods - 1, p # W!Position
      PROVE  p \div WordBits # index \/ p % WordBits # bit
  <2>1. p = ((p \div WordBits) * WordBits) + (p % WordBits)
    BY BitPlaces
  <2> QED
    BY <1>1, <1>5, <2>1
<1> QED
  BY <1>2, <1>3, <1>4, <1>5 DEF LqTyped

\* What an add changes is the current period.
LEMMA AddFacts ==
  ASSUME LqTyped, W!Add
  PROVE  /\ LqTyped' /\ LQ' = LQ + 1 /\ W!Position' = W!Position /\ count' = count
         /\ ~W!BitAt(W!Position)
         /\ \A p \in 0 .. Periods - 1 : W!BitAt(p)' <=> W!BitAt(p) \/ p = W!Position
<1>1. /\ ~W!CurrentIsSet /\ LQArray' = [LQArray EXCEPT ![index] = @ \union {bit}]
      /\ LQ' = LQ + 1 /\ index' = index /\ bit' = bit /\ count' = count
  BY DEF W!Add
<1>2. /\ index \in 0 .. W!Words - 1 /\ DOMAIN LQArray = 0 .. W!Words - 1
      /\ W!Position \div WordBits = index /\ W!Position % WordBits = bit
      /\ ~W!BitAt(W!Position)
  BY <1>1, CurrentPlace
<1>3. W!Position' = W!Position
  BY <1>1 DEF W!Position
<1>4. LqTyped'
  <2>1. LQArray' \in [0 .. W!Words - 1 -> SUBSET (0 .. WordBits - 1)]
    BY <1>1, <1>2 DEF LqTyped
  <2> QED
    BY <1>1, <1>3, <2>1 DEF LqTyped, W!Words
<1>5. ASSUME NEW p \in 0 .. Periods - 1
      PROVE  W!BitAt(p)' <=> W!BitAt(p) \/ p = W!Position
  <2>1. p \div WordBits \in 0 .. W!Words - 1
    BY BitPlaces
  <2>2. W!BitAt(p)' <=> p % WordBits \in LQArray'[p \div WordBits]
    BY DEF W!BitAt
  <2>3. W!BitAt(p) <=> p % WordBits \in LQArray[p \div WordBits]
    BY DEF W!BitAt
  <2>4. CASE p = W!Position
    BY <1>1, <1>2, <2>2, <2>4
  <2>5. CASE p # W!Position
    <3>1. p \div WordBits # index \/ p % WordBits # bit
      BY <2>5, CurrentPlace
    <3> QED
      BY <1>1, <1>2, <2>1, <2>2, <2>3, <2>5, <3>1
  <2> QED
    BY <2>4, <2>5
<1> QED
  BY <1>1, <1>2, <1>3, <1>4, <1>5

\* What an increment changes is the period that it goes on to, the next one of the ring.
LEMMA IncFacts ==
  ASSUME LqTyped, W!Inc
  PROVE  /\ LqTyped' /\ count' = (IF count < Periods THEN count + 1 ELSE count)
         /\ W!Position' = IF W!Position + 1 = Periods THEN 0 ELSE W!Position + 1
         /\ LQ' = IF W!BitAt(W!Position') THEN LQ - 1 ELSE LQ
         /\ \A p \in 0 .. Periods - 1 : W!BitAt(p)' <=> W!BitAt(p) /\ p # W!Position'
<1> DEFINE next == W!Shifted(index, bit)
           place == W!Wrapped(next)
<1>1. /\ index' = place[1] /\ bit' = place[2]
      /\ LQ' = IF bit' \in LQArray[index'] THEN LQ - 1 ELSE LQ
      /\ LQArray' = [LQArray EXCEPT ![index'] = @ \ {bit'}]
      /\ count' = IF count < Periods THEN count + 1 ELSE count
  BY DEF W!Inc
<1>2. /\ index \in Nat /\ bit \in 0 .. WordBits - 1 /\ W!Position \in 0 .. Periods - 1
      /\ W!Position = (index * WordBits) + bit /\ index \in 0 .. W!Words - 1
      /\ Periods \in Nat \ {0} /\ WordBits \in Nat \ {0} /\ count \in 1 .. Periods
  BY CurrentPlace, BitPlaces DEF LqTyped, W!Position
<1>3. PICK w \in Nat, b \in 0 .. WordBits - 1 :
        next = <<w, b>> /\ W!Position + 1 = (w * WordBits) + b
  <2>1. CASE bit + 1 = WordBits
    <3>1. (index + 1) * WordBits = (index * WordBits) + WordBits /\ index * WordBits \in Nat
      BY <1>2
    <3>2. next = <<index + 1, 0>> /\ W!Position + 1 = ((index + 1) * WordBits) + 0
      BY <1>2, <2>1, <3>1 DEF W!Shifted
    <3> QED
      BY <1>2, <3>2
  <2>2. CASE bit + 1 # WordBits
    <3>1. next = <<index, bit + 1>> /\ W!Position + 1 = (index * WordBits) + (bit + 1)
          /\ bit + 1 \in 0 .. WordBits - 1
      <4>1. index * WordBits \in Nat
        BY <1>2
      <4> QED
        BY <1>2, <2>2, <4>1 DEF W!Shifted
    <3> QED
      BY <1>2, <3>1
  <2> QED
    BY <2>1, <2>2
<1> HIDE DEF next
<1>4. next = <<Periods \div WordBits, Periods % WordBits>> <=> W!Position + 1 = Periods
  <2>1. ASSUME W!Position + 1 = Periods
        PROVE  Periods \div WordBits = w /\ Periods % WordBits = b
    <3>1. ((w * WordBits) + b) \div WordBits = w /\ ((w * WordBits) + b) % WordBits = b
      BY BitPlaces
    <3> QED
      BY <1>3, <2>1, <3>1
  <2>2. ASSUME w = Periods \div WordBits, b = Periods % WordBits
        PROVE  W!Position + 1 = Periods
    <3> DEFINE q == Periods \div WordBits
    <3>1. Periods = (WordBits * q) + (Periods % WordBits) /\ q \in Nat
      BY <1>2, Divides
    <3>2. w = q
      BY <2>2
    <3> HIDE DEF q
    <3>3. WordBits * q = q * WordBits
      BY <1>2, <3>1
    <3> QED
      BY <1>3, <2>2, <3>1, <3>2, <3>3
  <2> QED
    BY <1>3, <2>1, <2>2
<1>5. place = IF W!Position + 1 = Periods THEN <<0, 0>> ELSE <<w, b>>
  BY <1>3, <1>4 DEF W!Wrapped
<1> HIDE DEF place
<1> DEFINE pos == IF W!Position + 1 = Periods THEN 0 ELSE W!Position + 1
<1>6. /\ index' \in Nat /\ bit' \in 0 .. WordBits - 1
      /\ (index' * WordBits) + bit' = pos
  <2>1. CASE W!Position + 1 = Periods
    <3>1. index' = 0 /\ bit' = 0 /\ pos = 0
      BY <1>1, <1>5, <2>1
    <3>2. 0 * WordBits = 0
      BY <1>2
    <3> QED
      BY <1>2, <3>1, <3>2
  <2>2. CASE W!Position + 1 # Periods
    <3>1. index' = w /\ bit' = b /\ pos = W!Position + 1
      BY <1>1, <1>5, <2>2
    <3> QED
      BY <1>3, <3>1
  <2> QED
    BY <2>1, <2>2
<1>7. W!Position' = pos /\ pos \in 0 .. Periods - 1
  <2>1. pos \in 0 .. Periods - 1
    BY <1>2
  <2>2. W!Position' = (index' * WordBits) + bit'
    BY DEF W!Position
  <2> HIDE DEF pos
  <2> QED
    BY <1>6, <2>1, <2>2
<1>8. pos \div WordBits = index' /\ pos % WordBits = bit'
  BY <1>6, BitPlaces
<1>9. index' \in 0 .. W!Words - 1
  BY <1>7, <1>8, BitPlaces
<1>10. LQArray' \in [0 .. W!Words - 1 -> SUBSET (0 .. WordBits - 1)]
  BY <1>1, <1>9 DEF LqTyped
<1>11. LqTyped'
  <2>1. count' \in 1 .. Periods
    BY <1>1, <1>2
  <2> QED
    BY <1>6, <1>7, <1>10, <2>1 DEF LqTyped, W!Words
<1> HIDE DEF pos
<1>12. W!BitAt(pos) <=> bit' \in LQArray[index']
  BY <1>8 DEF W!BitAt
<1>13. ASSUME NEW p \in 0 .. Periods - 1
       PROVE  W!BitAt(p)' <=> W!BitAt(p) /\ p # pos
  <2>1. p \div WordBits \in 0 .. W!Words - 1 /\ DOMAIN LQArray = 0 .. W!Words - 1
    BY BitPlaces DEF LqTyped
  <2>2. W!BitAt(p)' <=> p % WordBits \in LQArray'[p \div WordBits]
    BY DEF W!BitAt
  <2>3. W!BitAt(p) <=> p % WordBits \in LQArray[p \div WordBits]
    BY DEF W!BitAt
  <2>4. CASE p = pos
    BY <1>1, <1>8, <1>9, <2>1, <2>2, <2>4
  <2>5. CASE p # pos
    <3>1. p \div WordBits # index' \/ p % WordBits # bit'
      BY <1>6, <2>5, BitPlaces
    <3> QED
      BY <1>1, <1>9, <2>1, <2>2, <2>3, <2>5, <3>1
  <2> QED
    BY <2>4, <2>5
<1> QED
  BY <1>1, <1>7, <1>11, <1>12, <1>13 DEF pos

\* Moving on drops the last period of the window.
LEMMA ShiftFacts ==
  ASSUME NEW n \in Nat \ {0}, NEW S \in SUBSET (0 .. n - 1),
         NEW moved, moved = {k \in 0 .. n - 1 : k # 0 /\ k - 1 \in S}
  PROVE  /\ IsFiniteSet(S) /\ IsFiniteSet(moved)
         /\ Cardinality(moved) = IF n - 1 \in S THEN Cardinality(S) - 1 ELSE Cardinality(S)
<1> DEFINE rest == S \ {n - 1}
           f == [x \in rest |-> x + 1]
<1>1. IsFiniteSet(S)
  <2>1. IsFiniteSet(0 .. n - 1)
    BY FS_Interval
  <2> QED
    BY <2>1, FS_Subset
<1>2. IsFiniteSet(rest)
      /\ Cardinality(rest) = IF n - 1 \in S THEN Cardinality(S) - 1 ELSE Cardinality(S)
  BY <1>1, FS_RemoveElement
<1>3. f \in [rest -> moved]
  OBVIOUS
<1>4. \A x, y \in rest : f[x] = f[y] => x = y
  OBVIOUS
<1>5. \A t \in moved : \E x \in rest : f[x] = t
  <2> TAKE t \in moved
  <2>1. t - 1 \in rest /\ t - 1 + 1 = t
    OBVIOUS
  <2> QED
    BY <2>1
<1> HIDE DEF f
<1>6. f \in Bijection(rest, moved)
  BY <1>3, <1>4, <1>5 DEF Bijection, Injection, Surjection, IsInjective
<1>7. ExistsBijection(rest, moved)
  BY <1>6 DEF ExistsBijection
<1> HIDE DEF rest
<1>8. IsFiniteSet(moved) /\ Cardinality(moved) = Cardinality(rest)
  BY <1>2, <1>7, FS_Bijection
<1> QED
  BY <1>1, <1>2, <1>8

\* An add makes the current period count.
LEMMA AddStep ==
  ASSUME LqInv, W!Add
  PROVE  LqInv' /\ \A k \in 0 .. Periods - 1 :
                     W!BitAt(Place(k))' <=> k = 0 \/ W!BitAt(Place(k))
<1>1. Periods \in Nat \ {0} /\ W!Position \in 0 .. Periods - 1 /\ LqTyped
  BY BitPlaces DEF LqInv, LqTyped
<1>2. /\ LqTyped' /\ LQ' = LQ + 1 /\ W!Position' = W!Position /\ count' = count
      /\ ~W!BitAt(W!Position)
      /\ \A p \in 0 .. Periods - 1 : W!BitAt(p)' <=> W!BitAt(p) \/ p = W!Position
  BY <1>1, AddFacts
<1>3. ASSUME NEW k \in 0 .. Periods - 1
      PROVE  /\ Place(k) \in 0 .. Periods - 1
             /\ Place(k) = W!Position <=> k = 0
             /\ Place(k)' = Place(k)
  <2>1. Place(k) = IF k <= W!Position THEN W!Position - k ELSE W!Position + Periods - k
    BY <1>1, PlaceFacts DEF Place
  <2>2. Place(k)' = Place(k)
    BY <1>2 DEF Place
  <2> QED
    BY <1>1, <2>1, <2>2
<1>4. ASSUME NEW k \in 0 .. Periods - 1
      PROVE  W!BitAt(Place(k))' <=> k = 0 \/ W!BitAt(Place(k))
  <2> DEFINE p == Place(k)
  <2>1. p \in 0 .. Periods - 1 /\ (p = W!Position <=> k = 0) /\ p' = p
    BY <1>3
  <2>2. W!BitAt(p)' <=> p' % WordBits \in LQArray'[p' \div WordBits]
    BY DEF W!BitAt
  <2>3. \A q \in 0 .. Periods - 1 :
          q % WordBits \in LQArray'[q \div WordBits] <=> W!BitAt(q) \/ q = W!Position
    BY <1>2 DEF W!BitAt
  <2> HIDE DEF p
  <2>4. W!BitAt(p)' <=> W!BitAt(p) \/ p = W!Position
    BY <2>1, <2>2, <2>3
  <2>5. k = 0 => ~W!BitAt(p)
    BY <1>2, <2>1
  <2> QED
    BY <2>1, <2>4 DEF p
<1>5. Seen' = {0} \union Seen /\ 0 \notin Seen /\ Seen \in SUBSET (0 .. Periods - 1)
  <2>1. Place(0) = W!Position /\ 0 \in 0 .. Periods - 1
    BY <1>1, <1>3
  <2>2. 0 \notin Seen
    BY <1>2, <2>1 DEF Seen
  <2>3. \A k \in 0 .. Periods - 1 : k \in Seen' <=> W!BitAt(Place(k))'
    BY DEF Seen
  <2>4. \A k \in 0 .. Periods - 1 : k \in Seen <=> W!BitAt(Place(k))
    BY DEF Seen
  <2>5. Seen' \in SUBSET (0 .. Periods - 1) /\ Seen \in SUBSET (0 .. Periods - 1)
    BY DEF Seen
  <2>6. \A k \in 0 .. Periods - 1 : k \in Seen' <=> k = 0 \/ k \in Seen
    BY <1>4, <2>3, <2>4
  <2> QED
    BY <2>1, <2>2, <2>5, <2>6
<1>6. LQ' = Cardinality(Seen')
  <2>1. IsFiniteSet(0 .. Periods - 1)
    BY <1>1, FS_Interval
  <2>2. IsFiniteSet(Seen)
    BY <1>5, <2>1, FS_Subset
  <2>3. Cardinality(Seen \union {0}) = Cardinality(Seen) + 1
    BY <1>5, <2>2, FS_AddElement
  <2>4. Seen' = Seen \union {0}
    BY <1>5
  <2> QED
    BY <1>2, <2>3, <2>4 DEF LqInv
<1>7. \A k \in Seen' : k < count'
  <2>1. \A k \in Seen : k < count
    BY DEF LqInv
  <2> QED
    BY <1>2, <1>5, <2>1 DEF LqTyped
<1> QED
  BY <1>2, <1>4, <1>6, <1>7 DEF LqInv

\* An increment moves the window on by a period, which does not count yet.
LEMMA IncStep ==
  ASSUME LqInv, W!Inc
  PROVE  LqInv' /\ \A k \in 0 .. Periods - 1 :
                     W!BitAt(Place(k))' <=> k # 0 /\ W!BitAt(Place(k - 1))
<1> DEFINE pos == W!Position
           goes == W!Position'
<1>1. Periods \in Nat \ {0} /\ pos \in 0 .. Periods - 1 /\ LqTyped
  BY BitPlaces DEF LqInv, LqTyped
<1>2. /\ LqTyped' /\ count' = (IF count < Periods THEN count + 1 ELSE count)
      /\ goes = IF pos + 1 = Periods THEN 0 ELSE pos + 1
      /\ LQ' = IF W!BitAt(goes) THEN LQ - 1 ELSE LQ
      /\ \A p \in 0 .. Periods - 1 : W!BitAt(p)' <=> W!BitAt(p) /\ p # goes
  BY <1>1, IncFacts
<1>3. goes \in 0 .. Periods - 1
  BY <1>1, <1>2
<1>4. ASSUME NEW k \in 0 .. Periods - 1
      PROVE  /\ Place(k) = IF k <= pos THEN pos - k ELSE pos + Periods - k
             /\ Place(k)' = IF k <= goes THEN goes - k ELSE goes + Periods - k
  <2>1. Place(k) = (pos + Periods - k) % Periods
    BY DEF Place
  <2>2. Place(k)' = (goes + Periods - k) % Periods
    BY DEF Place
  <2> HIDE DEF pos, goes
  <2>3. k \in 0 .. Periods
    BY <1>1
  <2>4. (pos + Periods - k) % Periods = IF k <= pos THEN pos - k ELSE pos + Periods - k
    BY <1>1, <2>3, PlaceFacts
  <2>5. (goes + Periods - k) % Periods = IF k <= goes THEN goes - k ELSE goes + Periods - k
    BY <1>1, <1>3, <2>3, PlaceFacts
  <2> QED
    BY <2>1, <2>2, <2>4, <2>5
<1> HIDE DEF pos, goes
<1>5. Place(Periods - 1) = goes
  <2>1. Periods - 1 \in 0 .. Periods - 1
    BY <1>1
  <2> QED
    BY <1>1, <1>2, <1>4, <2>1
<1>6. ASSUME NEW k \in 0 .. Periods - 1
      PROVE  /\ Place(k)' \in 0 .. Periods - 1
             /\ Place(k)' = goes <=> k = 0
             /\ k # 0 => Place(k)' = Place(k - 1)
  <2>1. k # 0 => k - 1 \in 0 .. Periods - 1
    BY <1>1
  <2> QED
    BY <1>1, <1>2, <1>3, <1>4, <2>1
<1>7. ASSUME NEW k \in 0 .. Periods - 1
      PROVE  W!BitAt(Place(k))' <=> k # 0 /\ W!BitAt(Place(k - 1))
  <2> DEFINE p == Place(k)'
  <2>1. p \in 0 .. Periods - 1 /\ (p = goes <=> k = 0) /\ (k # 0 => p = Place(k - 1))
    BY <1>6
  <2>2. W!BitAt(Place(k))' <=> p % WordBits \in LQArray'[p \div WordBits]
    BY DEF W!BitAt
  <2>3. \A q \in 0 .. Periods - 1 :
          q % WordBits \in LQArray'[q \div WordBits] <=> W!BitAt(q) /\ q # goes
    BY <1>2 DEF W!BitAt
  <2> HIDE DEF p
  <2>4. W!BitAt(Place(k))' <=> W!BitAt(p) /\ p # goes
    BY <2>1, <2>2, <2>3
  <2> QED
    BY <2>1, <2>4
<1>8. Seen \in SUBSET (0 .. Periods - 1)
      /\ Seen' = {k \in 0 .. Periods - 1 : k # 0 /\ k - 1 \in Seen}
  <2>1. \A k \in 0 .. Periods - 1 : k \in Seen' <=> W!BitAt(Place(k))'
    BY DEF Seen
  <2>2. \A k \in 0 .. Periods - 1 : k \in Seen <=> W!BitAt(Place(k))
    BY DEF Seen
  <2>3. Seen' \in SUBSET (0 .. Periods - 1) /\ Seen \in SUBSET (0 .. Periods - 1)
    BY DEF Seen
  <2>4. \A k \in 0 .. Periods - 1 : k # 0 => k - 1 \in 0 .. Periods - 1
    BY <1>1
  <2>5. \A k \in 0 .. Periods - 1 : k \in Seen' <=> k # 0 /\ k - 1 \in Seen
    BY <1>7, <2>1, <2>2, <2>4
  <2> QED
    BY <2>3, <2>5
<1>9. LQ' = Cardinality(Seen')
  <2> DEFINE S == Seen
             moved == Seen'
  <2>1. Periods - 1 \in S <=> W!BitAt(goes)
    BY <1>1, <1>5 DEF Seen
  <2>2. moved = {k \in 0 .. Periods - 1 : k # 0 /\ k - 1 \in S}
        /\ S \in SUBSET (0 .. Periods - 1) /\ LQ = Cardinality(S)
    BY <1>8 DEF LqInv
  <2> HIDE DEF S, moved
  <2>3. Cardinality(moved) = IF Periods - 1 \in S THEN Cardinality(S) - 1 ELSE Cardinality(S)
    BY <1>1, <2>2, ShiftFacts
  <2>4. LQ' = Cardinality(moved)
    BY <1>2, <2>1, <2>2, <2>3
  <2> QED
    BY <2>4 DEF moved
<1>10. \A k \in Seen' : k < count'
  <2>1. (\A k \in Seen : k < count) /\ count \in 1 .. Periods
    BY DEF LqInv, LqTyped
  <2> QED
    BY <1>1, <1>2, <1>8, <2>1
<1> QED
  BY <1>2, <1>7, <1>9, <1>10 DEF LqInv

\* With no bit set the window is empty.
LEMMA EmptyWindow ==
  ASSUME Periods \in Nat \ {0}, W!Position = 0, LQArray = [w \in 0 .. W!Words - 1 |-> {}]
  PROVE  Seen = {} /\ \A k \in 0 .. Periods - 1 : ~W!BitAt(Place(k))
<1>1. ASSUME NEW k \in 0 .. Periods - 1
      PROVE  ~W!BitAt(Place(k))
  <2>1. Place(k) = IF k <= 0 THEN 0 - k ELSE 0 + Periods - k
    <3>1. k \in 0 .. Periods /\ 0 \in 0 .. Periods - 1
      OBVIOUS
    <3> QED
      BY <3>1, PlaceFacts DEF Place
  <2>2. Place(k) \in 0 .. Periods - 1
    BY <2>1
  <2>3. Place(k) \div WordBits \in 0 .. W!Words - 1
    BY <2>2, BitPlaces
  <2> QED
    BY <2>3 DEF W!BitAt
<1> QED
  BY <1>1 DEF Seen

\* The ring starts empty.
LEMMA LqInitInv == W!Init => LqInv /\ \A k \in 0 .. Periods - 1 : ~W!BitAt(Place(k))
<1> SUFFICES ASSUME W!Init
             PROVE  LqInv /\ \A k \in 0 .. Periods - 1 : ~W!BitAt(Place(k))
  OBVIOUS
<1>1. Periods \in Nat \ {0} /\ WordBits \in Nat \ {0}
  BY BitPlaces
<1>2. W!Position = 0
  BY <1>1 DEF W!Init, W!Position
<1>3. Seen = {} /\ \A k \in 0 .. Periods - 1 : ~W!BitAt(Place(k))
  BY <1>1, <1>2, EmptyWindow DEF W!Init
<1>4. LqTyped
  BY <1>1, <1>2 DEF W!Init, LqTyped
<1> QED
  BY <1>3, <1>4, FS_EmptySet DEF LqInv, W!Init

\* A reset empties the ring.
LEMMA ResetStep ==
  ASSUME LqInv, W!Reset \/ W!Reset100
  PROVE  LqInv' /\ LQ' = 0 /\ \A k \in 0 .. Periods - 1 : ~W!BitAt(Place(k))'
<1>1. Periods \in Nat \ {0} /\ WordBits \in Nat \ {0} /\ count \in 1 .. Periods
  BY BitPlaces DEF LqInv, LqTyped
<1>2. /\ LQArray' = [w \in 0 .. W!Words - 1 |-> {}]
      /\ index' = 0 /\ bit' = 0 /\ LQ' = 0 /\ (count' = count \/ count' = 1)
  BY DEF W!Reset, W!Reset100
<1>3. W!Position' = 0
  BY <1>1, <1>2 DEF W!Position
<1>4. W!Words' = W!Words
  BY DEF W!Words
<1>5. ASSUME NEW k \in 0 .. Periods - 1
      PROVE  ~W!BitAt(Place(k))'
  <2> DEFINE p == Place(k)'
  <2>1. p = (0 + Periods - k) % Periods
    BY <1>3 DEF Place
  <2>2. (0 + Periods - k) % Periods = IF k <= 0 THEN 0 - k ELSE 0 + Periods - k
    <3>1. k \in 0 .. Periods /\ 0 \in 0 .. Periods - 1
      BY <1>1
    <3> QED
      BY <1>1, <3>1, PlaceFacts
  <2>3. p \in 0 .. Periods - 1
    BY <1>1, <2>1, <2>2
  <2>4. W!BitAt(Place(k))' <=> p % WordBits \in LQArray'[p \div WordBits]
    BY DEF W!BitAt
  <2> HIDE DEF p
  <2>5. p \div WordBits \in 0 .. W!Words - 1
    BY <2>3, BitPlaces
  <2> QED
    BY <1>2, <2>4, <2>5
<1>6. Seen' = {}
  BY <1>5 DEF Seen
<1>7. LqTyped'
  BY <1>1, <1>2, <1>3, <1>4 DEF LqTyped
<1> QED
  BY <1>1, <1>2, <1>5, <1>6, <1>7, FS_EmptySet DEF LqInv

\* A part of what was recorded is a percentage of it.
LEMMA PercentFacts ==
  ASSUME NEW c \in Nat \ {0}, NEW l \in 0 .. c
  PROVE  (l * 100) \div c \in 0 .. 100
<1> DEFINE x == l * 100
           q == x \div c
<1>1. x \in Nat /\ x <= c * 100
  OBVIOUS
<1> HIDE DEF x
<1>2. q \in Nat /\ x % c \in 0 .. c - 1 /\ x = (c * q) + (x % c)
  BY <1>1, Divides
<1> HIDE DEF q
<1>3. c * q <= c * 100
  BY <1>1, <1>2
<1>4. ASSUME q > 100
      PROVE  FALSE
  <2>1. PICK more \in Nat : q = 101 + more
    <3>1. q - 101 \in Nat /\ q = 101 + (q - 101)
      BY <1>2, <1>4
    <3> QED
      BY <3>1
  <2>2. c * q = (c * 101) + (c * more) /\ c * more >= 0
    BY <2>1
  <2> QED
    BY <1>2, <1>3, <2>2
<1> QED
  BY <1>2, <1>4 DEF q, x

\* The link quality is a percentage.
LEMMA LqIsPercent == LqInv => W!PercentOK
<1> SUFFICES ASSUME LqInv
             PROVE  W!PercentOK
  OBVIOUS
<1>1. Periods \in Nat \ {0} /\ count \in 1 .. Periods /\ LQ = Cardinality(Seen)
  BY BitPlaces DEF LqInv, LqTyped
<1>2. Seen \in SUBSET (0 .. count - 1)
  BY <1>1 DEF LqInv, Seen
<1>3. LQ \in 0 .. count
  <2>1. count - 1 \in Int /\ 0 \in Int
    BY <1>1
  <2>2. IsFiniteSet(0 .. count - 1)
        /\ Cardinality(0 .. count - 1) = IF 0 > count - 1 THEN 0 ELSE (count - 1) - 0 + 1
    BY <2>1, FS_Interval
  <2>3. IsFiniteSet(Seen) /\ Cardinality(Seen) <= Cardinality(0 .. count - 1)
    BY <1>2, <2>2, FS_Subset
  <2>4. Cardinality(Seen) \in Nat
    BY <2>3, FS_CardinalityType
  <2> QED
    BY <1>1, <2>2, <2>3, <2>4
<1>4. count \in Nat \ {0}
  BY <1>1
<1>5. (LQ * 100) \div count \in 0 .. 100
  BY <1>3, <1>4, PercentFacts
<1> QED
  BY <1>1, <1>5 DEF W!PercentOK, W!GetLQ

\* The count of the reference is the running total.
LEMMA CountFacts ==
  /\ W!Reference!Count(LqWindow) = Cardinality(Seen)
  /\ W!Reference!Count(LqWindow') = Cardinality(Seen')
<1>1. {k \in 0 .. Periods - 1 : LqWindow[k]} = Seen
  BY DEF LqWindow, Seen, Place
<1>2. {k \in 0 .. Periods - 1 : LqWindow'[k]} = Seen'
  BY DEF LqWindow, Seen, Place
<1> QED
  BY <1>1, <1>2 DEF W!Reference!Count, W!Reference!Cardinality, Cardinality

\* Every step of the ring, or of something else, keeps the invariant and is one of the
\* window.
LEMMA LqSteps ==
  ASSUME LqInv, [W!Next]_(W!lqVars)
  PROVE  LqInv' /\ [W!Reference!Next]_<<LqWindow, LQ>>
<1> DEFINE w == LqWindow
<1>1. /\ w = [k \in 0 .. Periods - 1 |-> W!BitAt(Place(k))]
      /\ w' = [k \in 0 .. Periods - 1 |-> W!BitAt(Place(k))']
      /\ W!Reference!Count(w) = Cardinality(Seen) /\ W!Reference!Count(w') = Cardinality(Seen')
      /\ Periods \in Nat \ {0} /\ LQ = Cardinality(Seen)
      /\ \A k \in 0 .. Periods - 1 :
           W!BitAt(Place(k)) \in BOOLEAN /\ W!BitAt(Place(k))' \in BOOLEAN
  <2>1. w = [k \in 0 .. Periods - 1 |-> W!BitAt(Place(k))]
    BY DEF LqWindow, Place
  <2>2. w' = [k \in 0 .. Periods - 1 |-> W!BitAt(Place(k))']
    BY DEF LqWindow, Place
  <2>3. \A k \in 0 .. Periods - 1 :
           W!BitAt(Place(k)) \in BOOLEAN /\ W!BitAt(Place(k))' \in BOOLEAN
    BY DEF W!BitAt
  <2> QED
    BY <2>1, <2>2, <2>3, CountFacts, BitPlaces DEF LqInv
<1>2. CASE W!Add
  <2>1. LqInv' /\ \A k \in 0 .. Periods - 1 :
                     W!BitAt(Place(k))' <=> k = 0 \/ W!BitAt(Place(k))
    BY <1>2, AddStep
  <2> HIDE DEF w
  <2>2. w' = [w EXCEPT ![0] = TRUE]
    <3>1. \A k \in 0 .. Periods - 1 : w'[k] = (k = 0 \/ w[k])
      BY <1>1, <2>1
    <3> QED
      BY <1>1, <3>1
  <2>3. LQ' = W!Reference!Count(w')
    BY <1>1, <2>1 DEF LqInv
  <2>4. W!Reference!Add
    BY <2>2, <2>3 DEF W!Reference!Add, w, LqWindow
  <2> QED
    BY <2>1, <2>4 DEF W!Reference!Next
<1>3. CASE W!Inc
  <2>1. LqInv' /\ \A k \in 0 .. Periods - 1 :
                     W!BitAt(Place(k))' <=> k # 0 /\ W!BitAt(Place(k - 1))
    BY <1>3, IncStep
  <2> HIDE DEF w
  <2>2. w' = [k \in 0 .. Periods - 1 |-> k # 0 /\ w[k - 1]]
    <3>1. \A k \in 0 .. Periods - 1 : w'[k] = (k # 0 /\ w[k - 1])
      <4>1. \A k \in 0 .. Periods - 1 : k # 0 => k - 1 \in 0 .. Periods - 1
        BY <1>1
      <4> QED
        BY <1>1, <2>1, <4>1
    <3> QED
      BY <1>1, <3>1
  <2>3. LQ' = W!Reference!Count(w')
    BY <1>1, <2>1 DEF LqInv
  <2>4. W!Reference!Inc
    BY <2>2, <2>3 DEF W!Reference!Inc, w, LqWindow
  <2> QED
    BY <2>1, <2>4 DEF W!Reference!Next
<1>4. CASE W!Reset \/ W!Reset100
  <2>1. LqInv' /\ LQ' = 0 /\ \A k \in 0 .. Periods - 1 : ~W!BitAt(Place(k))'
    BY <1>4, ResetStep
  <2> HIDE DEF w
  <2>2. w' = [k \in 0 .. Periods - 1 |-> FALSE]
    BY <1>1, <2>1
  <2>3. W!Reference!Reset
    BY <2>1, <2>2 DEF W!Reference!Reset, w, LqWindow
  <2> QED
    BY <2>1, <2>3 DEF W!Reference!Next
<1>5. CASE UNCHANGED W!lqVars
  <2>1. UNCHANGED <<LQArray, index, bit, LQ, count>>
    BY <1>5 DEF W!lqVars
  <2>2. w' = w /\ LQ' = LQ
    BY <2>1 DEF LqWindow, W!BitAt, W!Position
  <2>3. LqInv'
    BY <2>1 DEF LqInv, LqTyped, Seen, Place, W!BitAt, W!Position, W!Words
  <2> QED
    BY <2>2, <2>3
<1> QED
  BY <1>2, <1>3, <1>4, <1>5 DEF W!Next

\* LQCALC.h: the total counts the window.
THEOREM LqInvariant == W!Spec => []LqInv
<1>1. W!Init => LqInv
  BY LqInitInv
<1>2. LqInv /\ [W!Next]_(W!lqVars) => LqInv'
  BY LqSteps
<1> QED
  BY <1>1, <1>2, PTL DEF W!Spec

\* LQCALC.h is a window over the last periods, in percent.
THEOREM LqIsWindow == W!Spec => W!ImplementsWindow
<1>1. W!Init => LqInv /\ W!Reference!Init
  <2> SUFFICES ASSUME W!Init
               PROVE  LqInv /\ W!Reference!Init
    OBVIOUS
  <2>1. LqInv /\ LQ = 0 /\ \A k \in 0 .. Periods - 1 : ~W!BitAt(Place(k))
    BY LqInitInv DEF W!Init
  <2>2. LqWindow = [k \in 0 .. Periods - 1 |-> FALSE]
    <3>1. \A k \in 0 .. Periods - 1 : W!BitAt(Place(k)) = FALSE
      BY <2>1 DEF W!BitAt
    <3> QED
      BY <3>1 DEF LqWindow, Place
  <2> QED
    BY <2>1, <2>2 DEF W!Reference!Init, LqWindow
<1>2. LqInv /\ [W!Next]_(W!lqVars) => LqInv' /\ [W!Reference!Next]_<<LqWindow, LQ>>
  BY LqSteps
<1>3. LqInv => W!PercentOK
  BY LqIsPercent
<1> QED
  BY <1>1, <1>2, <1>3, PTL DEF W!Spec, W!ImplementsWindow, W!Reference!Spec, LqWindow

-------------------------------------------------------------------------------
\* In a run of the structures each of them runs by itself, or stands still.
LEMMA PartsRun == Spec => F!Spec /\ W!Spec /\ H!Spec /\ M!Spec /\ B!Spec
<1>1. Init => F!Init /\ W!Init /\ H!Init /\ M!Init /\ B!Init
  BY DEF Init
<1>2. [Next]_vars =>
        /\ [F!Next]_(F!fifoVars) /\ [W!Next]_(W!lqVars) /\ [H!Next]_(H!sequenceVars)
        /\ [M!Next]_(M!vars) /\ [B!Next]_(B!vars)
  <2> SUFFICES ASSUME [Next]_vars
               PROVE  /\ [F!Next]_fifoVars /\ [W!Next]_lqVars /\ [H!Next]_sequenceVars
                      /\ [M!Next]_mspVars /\ [B!Next]_bootVars
    BY DEF F!fifoVars, W!lqVars, H!sequenceVars, M!vars, B!vars, B!ramVars,
           fifoVars, lqVars, sequenceVars, mspVars, bootVars
  <2> QED
    BY DEF Next, Picked, Page, vars, mavlinkVars
<1> QED
  BY <1>1, <1>2, PTL DEF Spec, F!Spec, W!Spec, H!Spec, M!Spec, B!Spec

\* In every run of the structures the FIFO is a queue and the link quality a window.
THEOREM QueueAndWindow == Spec => ImplementsQueueAndWindow
BY PartsRun, FifoIsQueue, LqIsWindow DEF ImplementsQueueAndWindow
===============================================================================
