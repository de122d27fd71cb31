----------------------------- MODULE MavParamServer ----------------------------
(***************************************************************************)
(* The MAVLink parameter server (MavParamServer.cpp): a ground station     *)
(* reads and writes a table of settings.  Each kind of answer has one slot *)
(* and waits for tick(), which sends a few frames at a time; the reply to  *)
(* a write comes later, with every value that changed with it.             *)
(* A parameter is its index, and `get` the function that reads them all.   *)
(***************************************************************************)
EXTENDS Naturals, FiniteSets

CONSTANTS
  Params,       \* the indices listed_ has
  MaxFrames     \* maxFramesPerTick

ServerAssumption == IsFiniteSet(Params) /\ Params \subseteq Nat /\ MaxFrames \in Nat \ {0}

VARIABLES
  paramMask,          \* the values to be sent
  setReplyPending, setIndex,
  replyDue,           \* setReplyAt has been reached
  snapshot,           \* the values before the last write
  replies,            \* of "ftp", "ack", "version", "text", "heartbeat": what waits
  overlooked,         \* history: values changed with a write and not in its reply
  known               \* what the ground station has been told last

serverVars ==
  <<paramMask, setReplyPending, setIndex, replyDue, snapshot, replies, overlooked>>
setVars == <<setReplyPending, setIndex, replyDue, snapshot>>

ServerInit(get) ==
  /\ paramMask = {} /\ setReplyPending = FALSE
  /\ setIndex = CHOOSE i \in Params : \A j \in Params : i <= j
  /\ replyDue = FALSE /\ snapshot = get
  /\ replies = {} /\ overlooked = {} /\ known = get

HasPendingOutput ==
  paramMask # {} \/ setReplyPending \/ replies \ {"heartbeat"} # {}

Differing(get) == {i \in Params : get[i] # snapshot[i]}

-------------------------------------------------------------------------------
\* "A repeated request starts the list again".
RequestList ==
  /\ paramMask' = Params
  /\ UNCHANGED <<setVars, replies, overlooked>>

RequestRead(i) ==
  /\ paramMask' = paramMask \union {i}
  /\ UNCHANGED <<setVars, replies, overlooked>>

\* COMMAND_LONG and FILE_TRANSFER_PROTOCOL; also a heartbeat that falls due.
Ask(answers) ==
  /\ replies' = replies \union answers
  /\ UNCHANGED <<paramMask, setVars, overlooked>>

Answers == {{"ack"}, {"ack", "version"}, {"ftp"}, {"heartbeat"}}

\* rejectSet
RejectSet(i) ==
  /\ paramMask' = paramMask \union {i}
  /\ replies' = replies \union {"text"}
  /\ UNCHANGED <<setReplyPending, setIndex, replyDue>>

\* Read-only or locked: `set` is not called.
Locked(i) == RejectSet(i) /\ UNCHANGED <<snapshot, overlooked>>

\* A new snapshot forgets what the write before it has changed.
TakeSnapshot(get) ==
  /\ snapshot' = get
  /\ overlooked' = IF setReplyPending
                     THEN overlooked \union (Differing(get) \ (paramMask \union {setIndex}))
                     ELSE overlooked

\* `set` gives a reason.
Refuse(i, get) == RejectSet(i) /\ TakeSnapshot(get)

\* Mutant: only the last write is answered.
AcceptLast(i, get, due) ==
  /\ paramMask' = paramMask
  /\ setReplyPending' = TRUE /\ setIndex' = i /\ replyDue' = due
  /\ TakeSnapshot(get)
  /\ UNCHANGED replies

\* "Reply once the setting has taken effect, with every value it changed"; a reply
\* that waits for another parameter is given up for its value, at once.
Accept(i, get, due) ==
  /\ paramMask' = IF setReplyPending /\ setIndex # i THEN paramMask \union {setIndex}
                  ELSE paramMask
  /\ setReplyPending' = TRUE /\ setIndex' = i /\ replyDue' = due
  /\ TakeSnapshot(get)
  /\ UNCHANGED replies

ReplyFallsDue ==
  /\ setReplyPending /\ ~replyDue /\ replyDue' = TRUE
  /\ UNCHANGED <<paramMask, setReplyPending, setIndex, snapshot, replies, overlooked>>

-------------------------------------------------------------------------------
\* tick.  Any frame may be refused by the owner's queue: the other answers are
\* tried all the same, the values wait in their order.
Wanted(get) ==
  IF setReplyPending /\ replyDue THEN paramMask \union {setIndex} \union Differing(get)
  ELSE paramMask

FirstOf(set) == {told \in SUBSET set : \A i \in told, j \in set \ told : i < j}

Tick(get, answers, told) ==
  /\ answers \subseteq replies /\ told \in FirstOf(Wanted(get))
  /\ Cardinality(answers) + Cardinality(told) <= MaxFrames
  /\ replies' = replies \ answers
  /\ paramMask' = Wanted(get) \ told
  /\ setReplyPending' = (setReplyPending /\ ~replyDue)
  /\ replyDue' = FALSE
  /\ overlooked' = overlooked \ told
  /\ UNCHANGED <<setIndex, snapshot>>

\* The told values arrive: at once, or some time after the tick.
Learn(told, get) == known' = [i \in Params |-> IF i \in told THEN get[i] ELSE known[i]]
===============================================================================
