------------------------------ MODULE MCStructures ------------------------------
(***************************************************************************)
(* The data structures, algorithms and smaller machines, model-checked     *)
(* side by side: one of them is picked at the start and only it moves, so  *)
(* that the states are the sum of theirs and not the product.  MCShared    *)
(* has those that need more fairness than the page of parameters does.     *)
(***************************************************************************)
EXTENDS Naturals, FiniteSets

CONSTANTS
  FifoSize, Byte,                                              \* Fifo
  Periods, WordBits,                                           \* LqCalc
  FreqCount, SequenceLen, SyncChannel, HopInterval, Window,    \* FhssSequence
  MspLength, ChunkLen, MaxLength, SeqRange,                    \* MspChunks
  Kinds, Replaceable, Prioritised, Sizes, TelemetrySize, CountRange, MaxForwards,
                                                               \* TelemetryQueue
  RxParams, ReadOnly, QueueSize, PayloadUnits, MaxRequests,    \* RxMavlink
  TxFrames, MaxWrites,                                         \* TxMavlink
  Chunks, StatusChunks, MaxOnWay, MaxLosses                    \* ParameterPage

VARIABLES
  component,
  buffer, head, tail, numElements, result,
  LQArray, index, bit, LQ, count,
  sequence, i,
  seqNum, sending, chunk, seqPrev, total, pktLen, got, handed,
  lost, turned, intact, times,
  bootPc, saved, powerOnCounter, bound, unsaved, linkState, InBindingMode,
  due, quick, told,
  packet, first,
  messagePayloads, prioritizedCount, forwards, payload,
  paramMask, setReplyPending, setIndex, replyDue, snapshot, replies, overlooked, known,
  config, modified, setSinceCommit, expired, downlinkQueue, downlinkAhead,
  sender, connected, reconfigure, thrown, requests,
  rate, antenna, linkMode, pendingLinkMode, deferred, writes,
  loadQ, fieldChunk, fieldData, expectChunksRemain, fieldPopup, status, shown,
  step, nextStatusChunk, pageRequests, pageReplies, losses, torn, swallowed

F == INSTANCE Fifo
W == INSTANCE LqCalc WITH N <- Periods
H == INSTANCE FhssSequence

M == INSTANCE MspChunks WITH
  Messages <- DOMAIN MspLength, Length <- MspLength, known <- total

\* Shorter than a chunk of two, one and a half, two whole ones, and too long.
ShortToLong == <<1, 3, 4, 7>>

B == INSTANCE BootCounter WITH
  pc <- bootPc, count <- powerOnCounter, connectionState <- linkState,
  modified <- unsaved

C == INSTANCE Fec WITH BurstLen <- 16

T == INSTANCE TelemetryQueue WITH FifoSize <- TelemetrySize

R == INSTANCE RxMavlink WITH Params <- RxParams, MaxFrames <- 1, lost <- thrown

X == INSTANCE TxMavlink WITH Params <- 0 .. 2, MaxFrames <- TxFrames

P == INSTANCE ParameterPage WITH
  Patient <- TRUE, DialogueLost <- FALSE, Values <- {"value"},
  requests <- pageRequests, replies <- pageReplies

\* Two fields of more than one chunk, and a command whose status takes one or two.
TwoThree == <<2, 3>>
OneOrTwo == [idle |-> 1, executing |-> 2, ask |-> 2]

ASSUME StructuresAssumption ==
       /\ F!FifoAssumption /\ W!LqAssumption /\ H!SequenceAssumption
       /\ M!ChunkAssumption /\ T!TelemetryQueueAssumption
       /\ R!RxMavlinkAssumption /\ X!TxMavlinkAssumption /\ P!ParameterAssumption

fifoVars == <<buffer, head, tail, numElements, result>>
lqVars == <<LQArray, index, bit, LQ, count>>
sequenceVars == <<sequence, i>>
mspVars == <<seqNum, sending, chunk, seqPrev, total, pktLen, got, handed,
             lost, turned, intact, times>>
bootVars == <<bootPc, saved, powerOnCounter, bound, unsaved, linkState, InBindingMode,
              due, quick, told>>
fecVars == <<packet, first>>
telemetryVars == <<messagePayloads, prioritizedCount, forwards, payload>>
serverVars == <<paramMask, setReplyPending, setIndex, replyDue, snapshot, replies,
                overlooked, known>>
rxVars == <<config, modified, setSinceCommit, expired, downlinkQueue, downlinkAhead,
            sender, connected, reconfigure, thrown, requests>>
txVars == <<rate, antenna, linkMode, pendingLinkMode, deferred, writes>>
mavlinkVars == <<serverVars, rxVars, txVars>>
pageVars == <<loadQ, fieldChunk, fieldData, expectChunksRemain, fieldPopup, status, shown,
              step, nextStatusChunk, pageRequests, pageReplies, losses, torn, swallowed>>
vars == <<component, fifoVars, lqVars, sequenceVars, mspVars, bootVars, fecVars,
          telemetryVars, mavlinkVars, pageVars>>

\* The initial states of one that is not picked do not matter: it has one.  Of the
\* two parameter servers, which are one program text, the picked one has the state.
Init ==
  /\ component \in {"fifo", "lq", "sequence", "msp", "boot", "fec", "telemetry",
                   "rx_mavlink", "tx_mavlink", "page"}
  /\ F!Init /\ W!Init /\ H!Init /\ M!Init /\ B!Init /\ C!Init /\ T!Init
  /\ R!LinkInit /\ X!SettingsInit /\ P!Init
  /\ IF component = "tx_mavlink" THEN X!ServerInit(X!get) ELSE R!ServerInit(config)
  /\ component # "msp" => sending = CHOOSE m \in DOMAIN MspLength : TRUE
  /\ component # "boot" => saved.bound
  /\ component # "tx_mavlink" => rate = 0 /\ antenna = 0

Picked(name, A, others) == component = name /\ A /\ UNCHANGED <<component, others>>

Page(A) ==
  Picked("page", A, <<fifoVars, lqVars, sequenceVars, mspVars, bootVars, fecVars,
                      telemetryVars, mavlinkVars>>)

Next ==
  \/ Picked("fifo", F!Next, <<lqVars, sequenceVars, mspVars, bootVars, fecVars,
                              telemetryVars, mavlinkVars, pageVars>>)
  \/ Picked("lq", W!Next, <<fifoVars, sequenceVars, mspVars, bootVars, fecVars,
                            telemetryVars, mavlinkVars, pageVars>>)
  \/ Picked("sequence", H!Next, <<fifoVars, lqVars, mspVars, bootVars, fecVars,
                                  telemetryVars, mavlinkVars, pageVars>>)
  \/ Picked("msp", M!Next, <<fifoVars, lqVars, sequenceVars, bootVars, fecVars,
                             telemetryVars, mavlinkVars, pageVars>>)
  \/ Picked("boot", B!Next, <<fifoVars, lqVars, sequenceVars, mspVars, fecVars,
                              telemetryVars, mavlinkVars, pageVars>>)
  \/ Picked("fec", C!Next, <<fifoVars, lqVars, sequenceVars, mspVars, bootVars,
                             telemetryVars, mavlinkVars, pageVars>>)
  \/ Picked("telemetry", T!Next /\ ~T!Wraps,
            <<fifoVars, lqVars, sequenceVars, mspVars, bootVars, fecVars, mavlinkVars, pageVars>>)
  \/ Picked("rx_mavlink", R!Next,
            <<fifoVars, lqVars, sequenceVars, mspVars, bootVars, fecVars,
              telemetryVars, txVars, pageVars>>)
  \/ Picked("tx_mavlink", X!Next,
            <<fifoVars, lqVars, sequenceVars, mspVars, bootVars, fecVars,
              telemetryVars, rxVars, pageVars>>)
  \/ Page(P!Next)

Spec == Init /\ [][Next]_vars

\* The fairness of ParameterPage's FairSpec.
FairSpec ==
  /\ Spec
  /\ WF_vars(Page(P!Receive)) /\ SF_vars(Page(P!Ask))
  /\ SF_vars(Page(P!ServeRead \/ P!ServeRest \/ P!ServeCommand))
  /\ WF_vars(Page(P!ServeSilently))

-------------------------------------------------------------------------------
\* The FIFO is a queue of bytes; the link quality is a window over the last N
\* periods, in percent.
ImplementsQueueAndWindow == F!ImplementsQueue /\ W!ImplementsWindow

\* The hop sequence: the sync channel once a block and nowhere else, each
\* channel once a block, no link by chance.
SequenceServes == H!SequenceServes

\* MSP in chunks: whole messages, each handed on once.
ChunksJoin == M!ChunksJoin

\* Three plugs: a receiver binds by itself after three short starts only.
OnlyAfterPlugs == B!OnlyAfterPlugs

\* Forward error correction: a burst of two bytes is repaired.
BurstsRepaired == component = "fec" => C!BurstsRepaired

\* The telemetry queue is a mailbox, and loses for want of room only.
ImplementsMailbox == T!LostOnlyToRoom /\ T!ImplementsMailbox

\* The receiver's parameters: a held commit lets the reply go, unless the serial
\* driver is replaced.
OnlyNewDriverLoses == R!OnlyNewDriverLoses

\* The transmitter's: once nothing waits, the ground station knows every setting.
ToldWhatChanged == component = "tx_mavlink" => X!ToldWhatChanged

\* The page of parameters: what it shows is what the device sent, and it is loaded.
PageIsTrue == P!PageIsTrue
PageLoads == component = "page" => P!PageLoads
===============================================================================
