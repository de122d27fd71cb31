----------------------------- MODULE ParameterPage -----------------------------
(***************************************************************************)
(* The page of parameters on the handset (lua/elrs.lua) and a device's     *)
(* CRSFEndpoint, which sends a parameter in chunks, as many as its data    *)
(* need at the size of packet the handset can take.  Requests and replies  *)
(* stay in order; some are lost, and any may be asked for again by a       *)
(* time-out.  One parameter is a command, with a pop-up and a dialogue.    *)
(***************************************************************************)
EXTENDS Integers, Sequences, SequencesExt

CONSTANTS
  Chunks,        \* of each field that is not the command, fields being 1, 2, ...
  StatusChunks,  \* of the command in each of its steps
  Patient,       \* the user waits until a page is loaded and nothing is on its way
  DialogueLost,  \* what is said for a command may be lost as well
  Values,        \* what is saved: a "value", or the one that is lcsQuery as well, "query"
  MaxOnWay, MaxLosses  \* bounds of what is asked before an answer, and of losses

Command == Len(Chunks) + 1
Fields == 1 .. Command
Steps == {"idle", "executing", "ask"}

ParameterAssumption ==
  /\ Chunks \in Seq(1 .. 255)
  /\ \A s \in Steps : StatusChunks[s] \in 1 .. 255
  /\ Patient \in BOOLEAN /\ DialogueLost \in BOOLEAN
  /\ Values \subseteq {"value", "query"}
  /\ MaxOnWay \in Nat \ {0, 1} /\ MaxLosses \in Nat

VARIABLES
  loadQ, fieldChunk, fieldData, expectChunksRemain,
  fieldPopup,            \* the pop-up is open
  status,                \* fields[Command].status
  shown,                 \* what the page has of each field: "nothing", "old" or "new"
  step, nextStatusChunk, \* the endpoint's
  requests, replies,     \* on their way
  losses,
  torn, swallowed        \* history: what was ever made of chunks that do not belong
                         \* together; a value was taken for a question

scriptVars == <<loadQ, fieldChunk, fieldData, expectChunksRemain, fieldPopup, status, shown>>
endpointVars == <<step, nextStatusChunk>>
vars == <<scriptVars, endpointVars, requests, replies, losses, torn, swallowed>>

Count(f, s) == IF f = Command THEN StatusChunks[s] ELSE Chunks[f]

\* A chunk of sendParameter, when the command is in step s; ChunksRemain is a byte.
Chunk(f, c, s) ==
  [field |-> f, chunk |-> c, step |-> IF f = Command THEN s ELSE "idle",
   remain |-> (Count(f, s) - (c + 1)) % 256]

Read(f, c) == [type |-> "read", field |-> f, arg |-> c]
Write(f, arg) == [type |-> "write", field |-> f, arg |-> arg]

\* Everything, the first field on top of the stack.
AllFields == Reverse([f \in Fields |-> f])

\* f is so far from the bottom.
AllFieldsBut(f) == RemoveAt(AllFields, Command + 1 - f)

Init ==
  /\ loadQ = AllFields /\ fieldChunk = 0 /\ fieldData = <<>> /\ expectChunksRemain = -1
  /\ fieldPopup = FALSE /\ status = "nil" /\ shown = [f \in Fields |-> "nothing"]
  /\ step = "idle" /\ nextStatusChunk = 0
  /\ requests = <<>> /\ replies = <<>> /\ losses = 0
  /\ torn = {} /\ swallowed = FALSE

-------------------------------------------------------------------------------
(* The endpoint: parameterUpdateReq.                                       *)
Push(message) == requests' = Append(requests, message)
Reply(chunk) == replies' = Append(replies, chunk)
Take == requests # <<>> /\ Len(replies) < MaxOnWay /\ requests' = Tail(requests)

\* The first chunk of a command resets it.
ServeRead ==
  /\ Take /\ Head(requests).type = "read"
  /\ LET r == Head(requests) IN
     /\ step' = IF r.field = Command /\ r.arg = 0 THEN "idle" ELSE step
     /\ Reply(Chunk(r.field, r.arg, step'))
  /\ UNCHANGED <<scriptVars, nextStatusChunk, losses, torn, swallowed>>

\* pushResponseChunk of a field under the step the command gets.
PushResponseChunk(f, c, s) ==
  /\ step' = s /\ Reply(Chunk(f, c, s))
  /\ nextStatusChunk' = IF Chunk(f, c, s).remain = 0 THEN 0 ELSE c + 1

\* lcsQuery while chunks of a status are left, of whichever field it is said.
ServeRest ==
  /\ Take /\ Head(requests).type = "write" /\ Head(requests).arg = "query"
  /\ nextStatusChunk # 0
  /\ PushResponseChunk(Head(requests).field, nextStatusChunk, step)
  /\ swallowed' = (swallowed \/ Head(requests).field # Command)
  /\ UNCHANGED <<scriptVars, losses, torn>>

\* The commands' callbacks, and what they make of the step.
After(arg) == CASE arg = "click" -> {"ask", "executing"}
                [] arg = "confirmed" -> {"executing"}
                [] arg = "cancel" -> {"idle"}
                [] arg = "query" -> {step, "idle"}
                [] OTHER -> {}

ServeCommand ==
  /\ Take /\ Head(requests).type = "write" /\ Head(requests).field = Command
  /\ ~(Head(requests).arg = "query" /\ nextStatusChunk # 0)
  /\ \E s \in After(Head(requests).arg) : PushResponseChunk(Command, 0, s)
  /\ UNCHANGED <<scriptVars, losses, torn, swallowed>>

\* A value, which is taken over; or a query of handleSimpleSendCmd, which goes
\* without an answer for two seconds.
ServeSilently ==
  /\ Take /\ Head(requests).type = "write"
  /\ \/ Head(requests).field # Command /\ ~(Head(requests).arg = "query" /\ nextStatusChunk # 0)
     \/ Head(requests).field = Command /\ Head(requests).arg = "query" /\ nextStatusChunk = 0
  /\ UNCHANGED <<scriptVars, endpointVars, replies, losses, torn, swallowed>>

Lose ==
  /\ losses < MaxLosses /\ losses' = losses + 1
  /\ \/ /\ requests # <<>> /\ (DialogueLost \/ Head(requests).type = "read")
        /\ requests' = Tail(requests) /\ UNCHANGED replies
     \/ /\ replies # <<>> /\ (DialogueLost \/ Head(replies).field # Command)
        /\ replies' = Tail(replies) /\ UNCHANGED requests
  /\ UNCHANGED <<scriptVars, endpointVars, torn, swallowed>>

-------------------------------------------------------------------------------
(* The script: parseParameterInfoMessage.                                  *)
Loading == IF fieldPopup THEN Command ELSE IF loadQ = <<>> THEN 0 ELSE Last(loadQ)

Whole(f, data) ==
  /\ \A i \in DOMAIN data : data[i].field = f /\ data[i].chunk = i - 1 /\ data[i].step = data[1].step
  /\ Last(data).remain = 0

\* Mutant: any chunk of the field will do.
OutOfTurnNever(m) == FALSE

\* The chunk does not follow on what is there.
OutOfTurn(m) == fieldData # <<>> /\ m.remain # expectChunksRemain

\* A field is complete, and shown; a command's status is in any one of its chunks.
Finish(f, data) ==
  /\ loadQ' = IF loadQ = <<>> THEN loadQ ELSE Front(loadQ)
  /\ fieldChunk' = 0 /\ fieldData' = <<>>
  /\ shown' = [shown EXCEPT ![f] = "new"]
  /\ torn' = IF Whole(f, data) THEN torn ELSE torn \cup {f}
  /\ IF f # Command THEN UNCHANGED <<status, fieldPopup>>
     ELSE /\ \E i \in DOMAIN data : status' = data[i].step
          /\ fieldPopup' = (fieldPopup /\ status' # "idle")
  /\ UNCHANGED expectChunksRemain

Receive ==
  /\ replies # <<>> /\ replies' = Tail(replies)
  /\ LET m == Head(replies) IN
     IF m.field # Loading
       THEN /\ fieldData' = <<>> /\ fieldChunk' = 0
            /\ UNCHANGED <<loadQ, expectChunksRemain, fieldPopup, status, shown, torn>>
     ELSE IF OutOfTurn(m) THEN UNCHANGED <<scriptVars, torn>>
     ELSE IF m.remain > 0
       THEN /\ fieldData' = Append(fieldData, m)
            /\ fieldChunk' = fieldChunk + 1
            /\ expectChunksRemain' = m.remain - 1
            /\ UNCHANGED <<loadQ, fieldPopup, status, shown, torn>>
     ELSE Finish(m.field, Append(fieldData, m))
  /\ UNCHANGED <<endpointVars, requests, losses, swallowed>>

\* Mutant: of a command that runs only.
AsksStatusOfRunning == status = "executing"

\* A command's status is asked for unless the user is to confirm it.
AsksStatus == status # "ask"

\* refreshNext asks at once after a reply, and again after a time-out.
Ask ==
  /\ \/ fieldPopup /\ AsksStatus /\ Push(Write(Command, "query"))
     \/ ~fieldPopup /\ loadQ # <<>> /\ Push(Read(Last(loadQ), fieldChunk))
  /\ Len(requests) < MaxOnWay
  /\ UNCHANGED <<scriptVars, endpointVars, replies, losses, torn, swallowed>>

-------------------------------------------------------------------------------
(* The user.                                                               *)
OnPage == ~fieldPopup /\ (Patient => loadQ = <<>> /\ requests = <<>> /\ replies = <<>>)

Aged(S) == [f \in Fields |-> IF f \in S /\ shown[f] = "new" THEN "old" ELSE shown[f]]

\* A value is saved, and fields at the same level reloaded.
Save(f, arg) ==
  /\ OnPage /\ shown[f] # "nothing"
  /\ Push(Write(f, arg))
  /\ loadQ' = loadQ \o AllFieldsBut(f) \o <<f>>
  /\ shown' = Aged(Fields)
  /\ UNCHANGED <<fieldChunk, fieldData, expectChunksRemain, fieldPopup, status,
                 endpointVars, replies, losses, torn, swallowed>>

reloadCurField(f) ==
  /\ fieldChunk' = 0 /\ fieldData' = <<>> /\ loadQ' = Append(loadQ, f)
  /\ shown' = Aged({f})
  /\ UNCHANGED <<expectChunksRemain, endpointVars, replies, losses, torn, swallowed>>

CancelEdit(f) ==
  /\ OnPage /\ shown[f] # "nothing"
  /\ reloadCurField(f) /\ UNCHANGED <<requests, fieldPopup, status>>

reloadAllField ==
  /\ OnPage /\ loadQ = <<>>
  /\ fieldChunk' = 0 /\ fieldData' = <<>> /\ loadQ' = AllFields
  /\ shown' = Aged(Fields)
  /\ UNCHANGED <<expectChunksRemain, fieldPopup, status, endpointVars, requests, replies,
                 losses, torn, swallowed>>

fieldCommandSave ==
  /\ OnPage /\ shown[Command] # "nothing"
  /\ reloadCurField(Command)
  /\ IF status = "confirmed" THEN UNCHANGED <<requests, fieldPopup, status>>
     ELSE status' = "click" /\ fieldPopup' = TRUE /\ Push(Write(Command, "click"))

\* runPopupPage.
Confirm ==
  /\ fieldPopup /\ status = "ask"
  /\ status' = "confirmed" /\ Push(Write(Command, "confirmed"))
  /\ UNCHANGED <<loadQ, fieldChunk, fieldData, expectChunksRemain, fieldPopup, shown,
                 endpointVars, replies, losses, torn, swallowed>>

\* A command that runs is cancelled twice, before and after the dialogue's answer.
Exit ==
  /\ fieldPopup
  /\ LET cancel == Write(Command, "cancel") IN
     requests' = requests \o IF status = "executing" THEN <<cancel, cancel>> ELSE <<cancel>>
  /\ fieldPopup' = (status \notin {"executing", "ask"})
  /\ UNCHANGED <<loadQ, fieldChunk, fieldData, expectChunksRemain, status, shown,
                 endpointVars, replies, losses, torn, swallowed>>

\* What a user who does not wait is bounded by.
Short == Len(loadQ) <= 2 * Command /\ Len(requests) <= MaxOnWay

UserActs ==
  \/ \E f \in DOMAIN Chunks : CancelEdit(f) \/ \E v \in Values : Save(f, v)
  \/ reloadAllField \/ fieldCommandSave \/ Confirm \/ Exit

Next ==
  \/ ServeRead \/ ServeRest \/ ServeCommand \/ ServeSilently \/ Lose
  \/ Receive \/ Ask
  \/ Short /\ UserActs

Spec == Init /\ [][Next]_vars

\* Both ends go on, and what is asked again and again is answered some time.
FairSpec ==
  /\ Spec
  /\ WF_vars(Receive) /\ SF_vars(Ask)
  /\ SF_vars(ServeRead \/ ServeRest \/ ServeCommand) /\ WF_vars(ServeSilently)

-------------------------------------------------------------------------------
\* A patient user sees what the device has: every field but the command is made of its
\* chunks, all of them, in order, whatever was asked for twice or lost on the way, and
\* no field that is to be reloaded is forgotten.
PageIsTrue ==
  /\ torn \subseteq {Command}
  /\ loadQ = <<>> => \A f \in Fields : shown[f] = "new"

\* A page is loaded to its end, and so is it after every change.
PageLoads == []<>(loadQ = <<>>)

\* What the user sets is not taken for a question about a status: false, as a
\* cancelled command may leave a chunk of it to be sent.
WritesTaken == ~swallowed
===============================================================================
