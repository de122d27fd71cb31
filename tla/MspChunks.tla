-------------------------------- MODULE MspChunks ------------------------------
(***************************************************************************)
(* MSP messages in chunks over CRSF: msp2crsf.cpp cuts a message into      *)
(* frames with a sequence number, crsf2msp.cpp puts the message together   *)
(* again at the other end.  Frames on the way may be lost: the queues and  *)
(* links between drop whole frames.  A message's byte at p is <<m, p>>.    *)
(***************************************************************************)
EXTENDS Naturals, Sequences

CONSTANTS
  Messages,     \* kinds of MSP messages
  Length,       \* the length of each, without header and checksum
  ChunkLen,     \* CRSF_MSP_MAX_BYTES_PER_CHUNK
  MaxLength,    \* what fits the receiver's buffer
  SeqRange      \* sequence numbers count modulo this, 16

ChunkAssumption ==
  /\ Length \in [Messages -> Nat \ {0}]
  /\ ChunkLen \in Nat \ {0} /\ MaxLength \in Nat /\ SeqRange \in Nat \ {0, 1}

VARIABLES
  seqNum,      \* of the next chunk to be sent
  sending,     \* the message on its way
  chunk,       \* its next chunk, or 0 when it has not begun
  seqPrev,     \* seqNumberPrev of the receiver
  known,       \* whether MSPvers is set: a frame has begun
  pktLen,      \* length of the frame that is put together
  got,         \* outBuffer, as far as idx
  handed,      \* what the last chunk made the receiver hand on
  lost,        \* history: chunks lost in a row, at most SeqRange
  turned,      \* history: a whole turn of them, with no first chunk since
  intact,      \* history: every chunk of the current message arrived
  times        \* history: how often the current message was handed on

vars == <<seqNum, sending, chunk, seqPrev, known, pktLen, got, handed,
          lost, turned, intact, times>>
receiverVars == <<seqPrev, known, pktLen, got>>

Lesser(a, b) == IF a < b THEN a ELSE b
Frame(m) == [p \in 1 .. Length[m] |-> <<m, p>>]

\* "count the first chunk!": a length that is a multiple of ChunkLen has an
\* empty last chunk.
NumChunks(m) == Length[m] \div ChunkLen + 1
Piece(m, c) ==
  SubSeq(Frame(m), c * ChunkLen + 1, Lesser((c + 1) * ChunkLen, Length[m]))

Init ==
  /\ seqNum = 0 /\ sending \in Messages /\ chunk = 0
  /\ seqPrev = 0 /\ known = FALSE /\ pktLen = 0 /\ got = <<>>
  /\ handed = <<>> /\ lost = 0 /\ times = 0
  /\ turned = FALSE /\ intact = TRUE

Reset == known' = FALSE /\ pktLen' = 0 /\ got' = <<>> /\ handed' = <<>>

Keep == handed' = <<>> /\ UNCHANGED <<known, pktLen, got>>

\* Mutant: a missing chunk is not noticed.
SeqErrorNever(seq) == FALSE

\* Every chunk but the first has to follow the one before.
SeqError(seq) == seq # (seqPrev + 1) % SeqRange

\* A chunk joins what is there, and the frame that is complete is handed on.
Join(front, total, piece) ==
  LET whole == front \o SubSeq(piece, 1, Lesser(Len(piece), total - Len(front)))
  IN /\ known' = TRUE /\ pktLen' = total /\ got' = whole
     /\ handed' = IF Len(whole) = total THEN whole ELSE <<>>

\* CROSSFIRE2MSP::parse of a chunk, `total` being what a first chunk says.
Parse(isNew, error, seq, total, piece) ==
  /\ seqPrev' = seq
  /\ \/ ~isNew /\ (SeqError(seq) \/ error) /\ Reset
     \/ ~isNew /\ ~SeqError(seq) /\ ~error /\ ~known /\ Keep
     \/ ~isNew /\ ~SeqError(seq) /\ ~error /\ known /\ Join(got, pktLen, piece)
     \/ isNew /\ total > MaxLength /\ Reset
     \/ isNew /\ total <= MaxLength /\ Join(<<>>, total, piece)

\* The sender goes on to its next chunk, or to any message after the last.
Advance ==
  /\ seqNum' = (seqNum + 1) % SeqRange
  /\ \/ /\ chunk + 1 < NumChunks(sending)
        /\ chunk' = chunk + 1 /\ UNCHANGED sending
     \/ /\ chunk + 1 = NumChunks(sending)
        /\ chunk' = 0 /\ sending' \in Messages

\* The far end of MSP may answer with the error bit set; msp2crsf never does.
Arrive(error) ==
  /\ Advance
  /\ Parse(chunk = 0, error, seqNum, Length[sending], Piece(sending, chunk))
  /\ lost' = 0
  /\ turned' = (turned /\ chunk # 0)
  /\ intact' = ((chunk = 0 \/ intact) /\ ~(error /\ chunk # 0))
  /\ times' = (IF chunk = 0 THEN 0 ELSE times) + (IF handed' = <<>> THEN 0 ELSE 1)

Lose ==
  /\ Advance
  /\ lost' = Lesser(lost + 1, SeqRange)
  /\ turned' = (turned \/ lost' = SeqRange)
  /\ intact' = FALSE
  /\ times' = IF chunk = 0 THEN 0 ELSE times
  /\ handed' = <<>> /\ UNCHANGED receiverVars

Next == Lose \/ \E error \in BOOLEAN : Arrive(error)

Spec == Init /\ [][Next]_vars

-------------------------------------------------------------------------------
\* What is handed on is one message, whole, whichever chunks were lost: the end
\* of one is never joined to the beginning of another.  Only a whole turn of the
\* sequence number can hide that a first chunk is missing.
WholeMessages == [][handed' # <<>> => turned' \/ handed' = Frame(sending)]_vars

\* A message is handed on once, unless it ends with an empty chunk; and one that
\* arrived chunk by chunk is handed on, whatever was lost before.
HandedOnce ==
  [][ /\ times' > 1 => turned' \/ Length[sending] % ChunkLen = 0
      /\ chunk + 1 = NumChunks(sending) /\ intact' /\ Length[sending] <= MaxLength
           => times' >= 1 ]_vars

\* Both: what is handed on is whole, and once.
ChunksJoin == WholeMessages /\ HandedOnce

\* crsf2msp.h: "Takes a CRSF(MSP) frame and converts it to raw MSP frame".  One
\* whose length is a multiple of the chunk is handed on by the chunk that
\* completes it and by the empty one after it.
NeverTwice == turned \/ times <= 1
===============================================================================
