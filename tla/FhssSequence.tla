------------------------------ MODULE FhssSequence -----------------------------
(***************************************************************************)
(* The making of a hop sequence (FHSSrandomiseFHSSsequenceBuild): blocks   *)
(* of FreqCount entries, filled and then shuffled in place.  Both ends     *)
(* draw the same random numbers from the same seed; here any may come.     *)
(***************************************************************************)
EXTENDS Naturals, FiniteSets

CONSTANTS
  FreqCount,        \* channels of the regulatory domain
  SequenceLen,      \* FHSS_SEQUENCE_LEN, 256
  SyncChannel,      \* freq_count / 2
  HopInterval,      \* FHSShopInterval, the slots between two hops
  Window            \* the size of LQCalc, 100

SequenceAssumption ==
  /\ FreqCount \in Nat \ {0, 1} /\ SequenceLen \in Nat /\ FreqCount <= SequenceLen
  /\ SyncChannel \in 1 .. FreqCount - 1
  /\ HopInterval \in Nat \ {0} /\ Window \in Nat \ {0}

VARIABLES
  sequence,     \* inSequence
  i             \* the entry to be shuffled next

sequenceVars == <<sequence, i>>

SequenceCount == (SequenceLen \div FreqCount) * FreqCount
Entries == 0 .. SequenceCount - 1

StartsBlock(e) == e % FreqCount = 0
Offset(e) == (e \div FreqCount) * FreqCount

Initial(e) ==
  IF StartsBlock(e) THEN SyncChannel
  ELSE IF e % FreqCount = SyncChannel THEN 0 ELSE e % FreqCount

Init == sequence = [e \in Entries |-> Initial(e)] /\ i = 0

\* Mutant: any entry of the block.
RandomAny == 0 .. FreqCount - 1

\* rngN(freqCount - 1) + 1: an entry of the block, but not its first.
Random == 1 .. FreqCount - 1

Swap(e, f) == [sequence EXCEPT ![e] = sequence[f], ![f] = sequence[e]]

Shuffle(rand) ==
  /\ i < SequenceCount /\ ~StartsBlock(i)
  /\ sequence' = Swap(i, Offset(i) + rand)
  /\ i' = i + 1

KeepSync ==
  /\ i < SequenceCount /\ StartsBlock(i)
  /\ i' = i + 1 /\ UNCHANGED sequence

Done == i = SequenceCount /\ UNCHANGED sequenceVars

\* minLqForChaos(): the packets that a receiver which does not follow may hear.
MinLqForChaos ==
  HopInterval * ((HopInterval * FreqCount + Window - 1)
                   \div (HopInterval * FreqCount))

Next == KeepSync \/ Done \/ \E rand \in Random : Shuffle(rand)

Spec == Init /\ [][Next]_sequenceVars

-------------------------------------------------------------------------------
\* "0 every n hops": the two ends meet on the sync channel once a block and
\* nowhere else, the first entry included, whatever was drawn.
SyncEachBlock ==
  \A e \in Entries : (sequence[e] = SyncChannel) <=> StartsBlock(e)

\* "Equal occurance of each": no channel twice within a block of as many
\* entries as there are channels.
BlocksAreFair ==
  \A e, f \in Entries :
    Offset(e) = Offset(f) /\ e # f => sequence[e] # sequence[f]

\* "No two repeated channels", from the last entry to the first included.
NeverTwiceInARow ==
  \A e \in Entries : sequence[(e + 1) % SequenceCount] # sequence[e]

\* A receiver that waits on the sync channel does not hear more of the last
\* Window slots, wherever they begin, than it takes to be believed.
ChannelInSlot(s) == sequence[(s \div HopInterval) % SequenceCount]
ChanceIsNoLink ==
  \A first \in 0 .. SequenceCount * HopInterval - 1 :
    Cardinality({s \in first .. first + Window - 1 :
                   ChannelInSlot(s) = SyncChannel}) <= MinLqForChaos

\* What both ends and the rule for a new connection rely on.
SequenceServes == SyncEachBlock /\ BlocksAreFair /\ ChanceIsNoLink
===============================================================================
