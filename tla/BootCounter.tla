------------------------------ MODULE BootCounter ------------------------------
(***************************************************************************)
(* Three plugs (rx_main.cpp, config.cpp): a receiver that is bound counts  *)
(* its starts in EEPROM and binds again at the third, unless one of them   *)
(* lasted two seconds or found the transmitter.  Power may go at any time. *)
(* RxConnection has the connection in full; only the serial port's MAVLink *)
(* server holds a commit back, and is left out here, as WiFi is.           *)
(***************************************************************************)
EXTENDS Naturals

VARIABLES
  pc,           \* where loop() is; "off", and "setup" before it
  saved,        \* in EEPROM: [count, bound]
  count, bound, \* PowerOnCounter and whether the UID is a bound one, in RAM
  modified,     \* config.IsModified()
  connectionState, InBindingMode,
  due,          \* the deferred function that clears the counter is to run
  quick,        \* history: starts since one lasted, as far as Plugs
  told          \* history: a bind packet came since the start

ramVars == <<count, bound, modified>>
vars == <<pc, saved, ramVars, connectionState, InBindingMode, due, quick, told>>

Plugs == 3
LoopPcs == {"config", "deferred", "commit", "got", "bind"}

Init ==
  /\ pc = "off" /\ saved \in [count : {0}, bound : BOOLEAN]
  /\ count = 0 /\ bound = FALSE /\ modified = FALSE
  /\ connectionState = "disconnected" /\ InBindingMode = FALSE
  /\ due = FALSE /\ quick = 0 /\ told = FALSE

Save == saved' = [count |-> count, bound |-> bound] /\ modified' = FALSE

PowerOff ==
  /\ pc # "off" /\ pc' = "off"
  /\ count' = 0 /\ bound' = FALSE /\ modified' = FALSE
  /\ connectionState' = "disconnected" /\ InBindingMode' = FALSE
  /\ due' = FALSE /\ told' = FALSE
  /\ UNCHANGED <<saved, quick>>

PowerOn ==
  /\ pc = "off" /\ pc' = "setup"
  /\ count' = saved.count /\ bound' = saved.bound
  /\ quick' = IF quick = Plugs THEN quick ELSE quick + 1
  /\ UNCHANGED <<saved, modified, connectionState, InBindingMode, due, told>>

\* setupConfigAndPocCheck, before the radio and the timer are started.
SetupConfigAndPocCheck ==
  /\ pc = "setup" /\ pc' = "config"
  /\ count' = IF bound /\ count < Plugs THEN count + 1 ELSE count
  /\ saved' = [saved EXCEPT !.count = count']
  /\ due' = TRUE
  /\ UNCHANGED <<bound, modified, connectionState, InBindingMode, quick, told>>

\* A start has lasted when a pass begins after its two seconds.
CheckConfigChangePending ==
  /\ pc = "config" /\ pc' = "deferred"
  /\ quick' = IF due THEN quick ELSE 0
  /\ IF modified /\ ~InBindingMode
       THEN Save /\ connectionState' = "disconnected"
       ELSE UNCHANGED <<saved, modified, connectionState>>
  /\ UNCHANGED <<count, bound, InBindingMode, due, told>>

NotYetDue ==
  /\ pc = "deferred" /\ pc' = "got"
  /\ UNCHANGED <<saved, ramVars, connectionState, InBindingMode, due, quick, told>>

\* The deferred function: the counter cleared and the first half of its commit.
ClearCounter ==
  /\ pc = "deferred" /\ due /\ due' = FALSE
  /\ IF connectionState # "connected" /\ count # 0
       THEN /\ pc' = "commit"
            /\ count' = 0 /\ modified' = TRUE
            /\ saved' = [count |-> 0, bound |-> bound]
       ELSE pc' = "got" /\ UNCHANGED <<saved, count, modified>>
  /\ UNCHANGED <<bound, connectionState, InBindingMode, quick, told>>

\* Whatever an interrupt has modified since is forgotten.
CommitDone ==
  /\ pc = "commit" /\ pc' = "got"
  /\ modified' = FALSE
  /\ UNCHANGED <<saved, count, bound, connectionState, InBindingMode, due, quick, told>>

GotOrLost ==
  /\ pc = "got" /\ pc' = "bind"
  /\ connectionState' \in {connectionState, "disconnected"}
       \union (IF connectionState = "tentative" THEN {"connected"} ELSE {})
  /\ UNCHANGED <<saved, ramVars, InBindingMode, due, quick, told>>

UpdateBindingMode ==
  /\ pc = "bind" /\ pc' = "config"
  /\ IF InBindingMode /\ modified
       THEN Save /\ InBindingMode' = FALSE /\ connectionState' = "disconnected"
       ELSE /\ IF ~InBindingMode /\ (count >= Plugs \/ ~bound)
                 THEN Save /\ InBindingMode' = TRUE
                 ELSE UNCHANGED <<saved, modified, InBindingMode>>
            /\ UNCHANGED connectionState
  /\ UNCHANGED <<count, bound, due, quick, told>>

\* Mutant: the counter is left to the deferred function.
TentativeConnectionCounting ==
  /\ pc \in LoopPcs /\ bound /\ ~InBindingMode
  /\ connectionState' = "tentative"
  /\ modified' \in {modified, TRUE}
  /\ UNCHANGED <<pc, saved, count, bound, InBindingMode, due, quick, told>>

\* The radio's interrupt: a sync packet makes the receiver tentative, which may
\* change the initial rate of the configuration too.
TentativeConnection ==
  /\ pc \in LoopPcs /\ bound /\ ~InBindingMode
  /\ connectionState' = "tentative"
  /\ count' = 0
  /\ modified' \in {modified \/ count # 0, TRUE}
  /\ UNCHANGED <<pc, saved, bound, InBindingMode, due, quick, told>>

BindPacket ==
  /\ pc \in LoopPcs /\ InBindingMode
  /\ bound' = TRUE /\ modified' = TRUE /\ told' = TRUE
  /\ UNCHANGED <<pc, saved, count, connectionState, InBindingMode, due, quick>>

Next ==
  \/ PowerOff \/ PowerOn \/ SetupConfigAndPocCheck
  \/ CheckConfigChangePending \/ NotYetDue \/ ClearCounter \/ CommitDone
  \/ GotOrLost \/ UpdateBindingMode
  \/ TentativeConnection \/ BindPacket

Spec == Init /\ [][Next]_vars

-------------------------------------------------------------------------------
\* A bound receiver starts to bind by itself only when the last three starts or
\* more were all short, wherever in the others the power went.
OnlyAfterPlugs ==
  [][bound /\ ~InBindingMode /\ InBindingMode' => quick >= Plugs]_vars

\* rx_main.cpp, 1833: "Exit binding mode if the config has been modified,
\* indicating UID has been set".  One that was told its UID and has left does
\* not go back.
LeavesForGood == [][told /\ ~InBindingMode => ~InBindingMode']_vars
===============================================================================
