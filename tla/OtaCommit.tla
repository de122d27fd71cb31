------------------------------- MODULE OtaCommit -------------------------------
(***************************************************************************)
(* The two slot clocks while the transmitter commits its configuration and *)
(* its handset may fall silent: what can make a hop go missing.            *)
(***************************************************************************)
EXTENDS OtaLink

VARIABLE
  lapsed    \* since the receiver began to follow, a slot has passed that may
            \* not have ended in a TXdone interrupt, as every slot to send in does

stormVars == <<vars, lapsed>>

\* The handset is silent in a slot to be sent in, or a timer interrupt falls
\* between the last read of busyTransmitting and the store to commitInProgress.
Silence == TxTimer /\ ~committing /\ tlmPhase # "preReceiveGap" /\ ~busy'
UnclaimedTick == TxTimer /\ commitPc = "claim"

\* nonceAdvance takes the hop index, a byte, past the end of the sequence and, in a
\* commit of many slots, around, from an index that is not the sequence's start.
IndexWraps ==
  /\ TxTimer /\ committing
  /\ txFhss = FhssRange - 1 /\ txFhss' # txFhss
  /\ FhssRange % SequenceCount # 0

\* It is forgotten at the end of a slot without a receiver that follows.
Lapse ==
  lapsed' = \/ Silence \/ UnclaimedTick \/ IndexWraps
            \/ lapsed /\ (Following' \/ turn' # "timer")

Modify == SetSyncSpam /\ UNCHANGED <<rxVars, turn, air>>

Commit ==
  /\ CommitBegin \/ CommitWait \/ CommitClaim \/ CommitSettle \/ ConfigChangeCommit
  /\ UNCHANGED <<rxVars, turn, air>>

StormInit == Init /\ lapsed = FALSE

\* The receiver does not give its connection up here: OtaLink has that.
StormNext ==
  (Slot \/ TxLoop \/ RxConnects \/ RxSelects \/ Modify \/ Commit) /\ Lapse

StormSpec == StormInit /\ [][StormNext]_stormVars

-------------------------------------------------------------------------------
\* Whatever befalls the hops, both ends count slots alike: the CRC, which covers
\* the nonce, and the telemetry slots depend on it.
NonceInStep ==
  turn = "timer" /\ Following => rxNonce = NextNonce(txNonce)

\* So much holds always.  And nothing but a silent handset and that one unlucky
\* tick ever makes a receiver that follows lose its place: not the slots a commit
\* skips, nor the receive mode it breaks off, nor what was lost meanwhile.
InStepUnlessLapsed == NonceInStep /\ (~lapsed => InStep)

\* While a commit runs, no RF traffic of a scheduled transmission: a packet that
\* the timer put on the air has ended before the configuration changes.
QuietCommit == committing => ~busy

\* The hop index stays within the sequence.
HopIndexInRange == txFhss < SequenceCount

-------------------------------------------------------------------------------
\* A hop sequence for TLC.  The entries past its end are what the array holds there:
\* zeroes, another channel than sync.
PaddedThree == [i \in 0 .. 3 |-> <<1, 2, 3, 0>>[i + 1]]
===============================================================================
