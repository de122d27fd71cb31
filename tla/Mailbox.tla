-------------------------------- MODULE Mailbox --------------------------------
(***************************************************************************)
(* What the queue of outgoing telemetry promises.  A message of a          *)
(* replaceable kind is a reading: only the newest is worth sending.  The   *)
(* others are events, each of which counts.  Old messages may be dropped.  *)
(***************************************************************************)
EXTENDS Naturals

CONSTANTS
  Kinds,          \* kinds of messages
  Replaceable,    \* the kinds of which only the newest message is kept
  Prioritised     \* the kinds that go first

VARIABLES
  clock,      \* how many messages have been posted; it stamps them
  pending,    \* the messages waiting: [kind, stamp]
  taken       \* the message taken last: {} or {message}

mailboxVars == <<clock, pending, taken>>

MailboxInit == clock = 0 /\ pending = {} /\ taken = {}

SameReading(m, n) == m.kind = n.kind /\ m.kind \in Replaceable

Post(kind) ==
  /\ clock' = clock + 1
  /\ LET new == [kind |-> kind, stamp |-> clock']
         newest == {m \in pending : ~SameReading(m, new)} IN
     \E dropped \in SUBSET newest : pending' = (newest \ dropped) \cup {new}
  /\ UNCHANGED taken

\* m is behind n in the queue both wait in.
Behind(m, n) ==
  /\ n.stamp < m.stamp
  /\ {m.kind, n.kind} \cap Replaceable = {}
  /\ m.kind \in Prioritised <=> n.kind \in Prioritised

Take ==
  \E m \in pending :
    /\ (\E n \in pending : n.kind \in Prioritised) => m.kind \in Prioritised
    /\ \A n \in pending : ~Behind(m, n)
    /\ pending' = pending \ {m}
    /\ taken' = {m}
    /\ UNCHANGED clock

TakeNothing ==
  /\ pending = {}
  /\ taken' = {}
  /\ UNCHANGED <<clock, pending>>

MailboxNext == (\E kind \in Kinds : Post(kind)) \/ Take \/ TakeNothing

MailboxSpec == MailboxInit /\ [][MailboxNext]_mailboxVars
===============================================================================
