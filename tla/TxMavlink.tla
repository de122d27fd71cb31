------------------------------- MODULE TxMavlink -------------------------------
(***************************************************************************)
(* The transmitter's MAVLink parameters (tx_mavlink.cpp): some settings    *)
(* are applied by deferred functions, of which there are three slots, and  *)
(* one changes others with it.  Of the table, the packet rate, the antenna *)
(* mode it brings along, and the link mode are kept.  The deferred rate    *)
(* runs 10 ms after its write, a reply comes 100 ms after the last one:    *)
(* that order is kept, the link mode's 300 ms are left open.               *)
(***************************************************************************)
EXTENDS Integers, Sequences, MavParamServer

CONSTANT MaxWrites    \* bound: requests

\* Indices of the table; the second rate is a dual band one.
Rate == 0
Antenna == 1
LinkMode == 2

TxMavlinkAssumption == ServerAssumption /\ Params = 0 .. 2 /\ MaxWrites \in Nat

VARIABLES
  rate, antenna, linkMode,    \* of the config
  pendingLinkMode,
  deferred,                   \* the functions waiting: [of, to, antenna]
  writes

settingVars == <<rate, antenna, linkMode, pendingLinkMode, deferred>>
vars == <<settingVars, known, writes, serverVars>>

None == -1
Gemini == 0
TX_MAVLINK_MODE == 1
maxDeferredFunctions == 3

get ==
  [i \in Params |->
     CASE i = Rate -> rate
       [] i = Antenna -> antenna
       [] OTHER -> IF pendingLinkMode # None THEN pendingLinkMode ELSE linkMode]

SettingsInit ==
  /\ rate \in 0 .. 1 /\ antenna \in 0 .. 1 /\ (rate = 1 => antenna = Gemini)
  /\ linkMode = TX_MAVLINK_MODE /\ pendingLinkMode = None /\ deferred = <<>>
  /\ writes = 0

Init == SettingsInit /\ ServerInit(get)

\* The server is fed and served in MAVLink mode only.
Serving == linkMode = TX_MAVLINK_MODE

Request == Serving /\ writes < MaxWrites /\ writes' = writes + 1 /\ UNCHANGED known

\* Without a free slot the function is never run.
Defer(f) ==
  deferred' = IF Len(deferred) < maxDeferredFunctions THEN Append(deferred, f) ELSE deferred

\* setPacketRate, SetPacketRateIdx
SetPacketRate(v) ==
  /\ Request
  /\ Accept(Rate, get, FALSE)
  /\ IF v = rate THEN UNCHANGED deferred
     ELSE Defer([of |-> Rate, to |-> v, antenna |-> IF v = 1 THEN Gemini ELSE antenna])
  /\ UNCHANGED <<rate, antenna, linkMode, pendingLinkMode>>

\* setAntennaMode
SetAntennaMode(v) ==
  /\ Request
  /\ IF rate = 1 /\ v # Gemini
       THEN Refuse(Antenna, get) /\ UNCHANGED antenna
       ELSE Accept(Antenna, get, FALSE) /\ antenna' = v
  /\ UNCHANGED <<rate, linkMode, pendingLinkMode, deferred>>

\* setLinkMode
SetLinkMode(v) ==
  /\ Request
  /\ Accept(LinkMode, get, FALSE)
  /\ IF v = get[LinkMode] THEN UNCHANGED <<pendingLinkMode, deferred>>
     ELSE pendingLinkMode' = v /\ Defer([of |-> LinkMode, to |-> v, antenna |-> None])
  /\ UNCHANGED <<rate, antenna, linkMode>>

\* A value out of range.
SetRefused(i) == Request /\ Refuse(i, get) /\ UNCHANGED settingVars

ReadOrAsk ==
  /\ Request
  /\ \/ RequestList
     \/ \E i \in Params : RequestRead(i)
     \/ \E answers \in Answers : Ask(answers)
  /\ UNCHANGED settingVars

-------------------------------------------------------------------------------
\* executeDeferredFunction.  Of two for the same setting the first is older.
\* The link mode's function reads the pending mode when it runs, and the config
\* keeps two bits of what it is given.
RunDeferred(k) ==
  /\ k \in DOMAIN deferred
  /\ \A j \in 1 .. k - 1 : deferred[j].of # deferred[k].of
  /\ deferred' = SubSeq(deferred, 1, k - 1) \o SubSeq(deferred, k + 1, Len(deferred))
  /\ IF deferred[k].of = Rate
       THEN /\ rate' = deferred[k].to /\ antenna' = deferred[k].antenna
            /\ UNCHANGED <<linkMode, pendingLinkMode>>
       ELSE /\ linkMode' = pendingLinkMode % 4 /\ pendingLinkMode' = None
            /\ UNCHANGED <<rate, antenna>>
  /\ UNCHANGED <<known, writes, serverVars>>

ReplyDelayPasses ==
  /\ ReplyFallsDue
  /\ \A k \in DOMAIN deferred : deferred[k].of # Rate
  /\ UNCHANGED <<settingVars, known, writes>>

\* TxMavlink_Update; queuedFrames goes out between two frames of the vehicle.
Update ==
  /\ Serving
  /\ \E answers \in SUBSET replies, told \in SUBSET Wanted(get) :
       Tick(get, answers, told) /\ Learn(told, get)
  /\ UNCHANGED <<settingVars, writes>>

Next ==
  \/ \E v \in 0 .. 1 : SetPacketRate(v) \/ SetAntennaMode(v) \/ SetLinkMode(v)
  \/ \E i \in Params : SetRefused(i)
  \/ ReadOrAsk
  \/ \E k \in 1 .. maxDeferredFunctions : RunDeferred(k)
  \/ ReplyDelayPasses \/ Update

Spec == Init /\ [][Next]_vars

-------------------------------------------------------------------------------
\* Once nothing waits, the ground station knows every setting as it is, whatever
\* was written, refused or overtaken in between: except for what a write brought
\* along whose reply was overtaken by another write.
Quiet == Serving /\ ~HasPendingOutput /\ deferred = <<>>

ToldWhatChanged == Quiet => \A i \in Params \ overlooked : known[i] = get[i]

\* MavParamServer.h, 112: "The reply to a PARAM_SET covers every parameter whose
\* value changed with it".
NothingOverlooked == overlooked = {}

\* tx_mavlink.cpp, 238: "0:Normal,1:MAVLink".
LinkModeExists == linkMode \in 0 .. 1
===============================================================================
