------------------------------ MODULE DeviceEvents -----------------------------
(***************************************************************************)
(* The device framework on a chip with two cores (device.cpp).  Core 1 is  *)
(* the main loop, core 0 a task of its own that sleeps between rounds.     *)
(* Each brings up and serves the devices with its number; two semaphores   *)
(* interlock their start, and events go through one word of flags per      *)
(* core, which every thread changes with a load and a store.               *)
(***************************************************************************)
EXTENDS Naturals

CONSTANTS
  Devices, CoreOf,      \* the core of each device, 0 or 1
  Events, Subscribes,   \* the events each device asks for
  TakenFirst            \* whether core 1 is through with semCore0Complete
                        \* by the time that core 0 deletes it

DeviceAssumption ==
  /\ CoreOf \in [Devices -> {0, 1}]
  /\ Subscribes \in [Devices -> SUBSET Events] /\ TakenFirst \in BOOLEAN

Cores == {0, 1}

VARIABLES
  at,            \* where each core's thread is
  semBegin,      \* semCore0Begin has been given
  semComplete,   \* semCore0Complete has been given
  setUp,         \* semCore0Complete is nullptr: all is started
  initialized, started,     \* devices that are
  eventFired,    \* the word of flags of each core
  events,        \* the copy a running _devicesUpdate took
  todo,          \* devices it has still to look at
  trigger,       \* a running devicesTriggerEvent: [at, what, loaded]
  owed,          \* history: <<device, event>> triggered and not yet told
  collided       \* history: a store wrote over a flag that was set since

startVars == <<semComplete, setUp, initialized, started>>
eventVars == <<eventFired, events, todo, owed, collided>>
vars == <<at, semBegin, startVars, eventVars, trigger>>

NoTrigger == [at |-> "none", what |-> {}, loaded |-> {}]
DevicesOn(c) == {d \in Devices : CoreOf[d] = c}
ToTell(what) == {p \in Devices \X Events : p[2] \in Subscribes[p[1]] \cap what}

Init ==
  /\ at = [c \in Cores |-> IF c = 0 THEN "await_init" ELSE "init"]
  /\ semBegin = FALSE /\ semComplete = FALSE /\ setUp = FALSE
  /\ initialized = {} /\ started = {}
  /\ eventFired = [c \in Cores |-> {}] /\ events = [c \in Cores |-> {}]
  /\ todo = [c \in Cores |-> {}]
  /\ trigger = [c \in Cores |-> NoTrigger]
  /\ owed = {} /\ collided = FALSE

\* A thread is at l and not inside a call of devicesTriggerEvent.
Running(c, l) == at[c] = l /\ trigger[c].at = "none"
Go(c, l) == at' = [at EXCEPT ![c] = l]

-------------------------------------------------------------------------------
\* Starting up: devicesInit and devicesStart of core 1, deviceTask on core 0.

InitDevices(c, next) ==
  /\ Running(c, "init") /\ Go(c, next)
  /\ initialized' = initialized \union DevicesOn(c)
  /\ UNCHANGED <<semBegin, semComplete, setUp, started, eventVars, trigger>>

StartDevices(c, next) ==
  /\ Running(c, "start") /\ Go(c, next)
  /\ started' = started \union DevicesOn(c)
  /\ UNCHANGED <<semBegin, semComplete, setUp, initialized, eventVars, trigger>>

GiveBegin(from, next) ==
  /\ Running(1, from) /\ Go(1, next)
  /\ semBegin' = TRUE
  /\ UNCHANGED <<startVars, eventVars, trigger>>

TakeComplete(from, next) ==
  /\ Running(1, from) /\ semComplete /\ ~setUp /\ Go(1, next)
  /\ semComplete' = FALSE
  /\ UNCHANGED <<semBegin, setUp, initialized, started, eventVars, trigger>>

TakeBegin(from, next) ==
  /\ Running(0, from) /\ semBegin /\ Go(0, next)
  /\ semBegin' = FALSE
  /\ UNCHANGED <<startVars, eventVars, trigger>>

GiveComplete(from, next) ==
  /\ Running(0, from) /\ Go(0, next)
  /\ semComplete' = TRUE
  /\ UNCHANGED <<semBegin, setUp, initialized, started, eventVars, trigger>>

\* "use it as an indicator all setup has completed".  Nothing in the code makes
\* core 0 wait for core 1 to take it.
DeleteComplete ==
  /\ Running(0, "delete") /\ Go(0, "update")
  /\ TakenFirst => ~semComplete
  /\ setUp' = TRUE
  /\ UNCHANGED <<semBegin, semComplete, initialized, started, eventVars, trigger>>

Startup ==
  \/ InitDevices(1, "give_init") \/ GiveBegin("give_init", "wait_init")
  \/ TakeComplete("wait_init", "start") \/ StartDevices(1, "give_start")
  \/ GiveBegin("give_start", "wait_start")
  \/ TakeComplete("wait_start", "update")
  \/ TakeBegin("await_init", "init") \/ InitDevices(0, "init_done")
  \/ GiveComplete("init_done", "await_start")
  \/ TakeBegin("await_start", "start") \/ StartDevices(0, "start_done")
  \/ GiveComplete("start_done", "delete") \/ DeleteComplete

-------------------------------------------------------------------------------
\* _devicesUpdate, on either core.

ReadEvents(c) ==
  /\ Running(c, "update") /\ Go(c, "clear")
  /\ events' = [events EXCEPT ![c] = eventFired[c]]
  /\ UNCHANGED <<semBegin, startVars, eventFired, todo, owed, collided, trigger>>

ClearEvents(c) ==
  /\ Running(c, "clear") /\ Go(c, "tell")
  /\ eventFired' = [eventFired EXCEPT ![c] = {}]
  /\ collided' = (collided \/ eventFired[c] # events[c])
  /\ todo' = [todo EXCEPT ![c] = IF events[c] = {} THEN {} ELSE DevicesOn(c)]
  /\ UNCHANGED <<semBegin, startVars, events, owed, trigger>>

\* A device's event(), if it subscribes to one of them.
Tell(c, d) ==
  /\ Running(c, "tell") /\ d \in todo[c]
  /\ todo' = [todo EXCEPT ![c] = @ \ {d}]
  /\ owed' = owed \ {<<d, e>> : e \in Subscribes[d] \cap events[c]}
  /\ UNCHANGED <<at, semBegin, startVars, eventFired, events, collided, trigger>>

\* The time-outs follow; then core 1 goes round its loop and core 0 to sleep.
Told(c) ==
  /\ Running(c, "tell") /\ todo[c] = {}
  /\ Go(c, IF c = 0 THEN "sleep" ELSE "update")
  /\ UNCHANGED <<semBegin, startVars, eventVars, trigger>>

\* Asleep until an event, or until the next time-out if a device has one.
WakeUp == TakeBegin("sleep", "update")

TimeoutExpires ==
  /\ Running(0, "sleep") /\ Go(0, "update")
  /\ UNCHANGED <<semBegin, startVars, eventVars, trigger>>

-------------------------------------------------------------------------------
\* devicesTriggerEvent, from core 1's setup and loop or from a device's handler.

Step(c, l) == trigger[c].at = l
Proceed(c, l) == trigger' = [trigger EXCEPT ![c].at = l]

Trigger(c, what) ==
  /\ \/ c = 1 /\ \E l \in {"init", "start", "update", "tell"} : Running(c, l)
     \/ c = 0 /\ Running(c, "tell")
  /\ trigger' = [trigger EXCEPT ![c] =
                   [at |-> "load0", what |-> what, loaded |-> {}]]
  /\ owed' = owed \union ToTell(what)
  /\ UNCHANGED <<at, semBegin, startVars, eventFired, events, todo, collided>>

Load(c, word, here, next) ==
  /\ Step(c, here)
  /\ trigger' = [trigger EXCEPT ![c].at = next, ![c].loaded = eventFired[word]]
  /\ UNCHANGED <<at, semBegin, startVars, eventVars>>

Store(c, word, here, next) ==
  /\ Step(c, here) /\ Proceed(c, next)
  /\ eventFired' = [eventFired EXCEPT
                      ![word] = trigger[c].loaded \union trigger[c].what]
  /\ collided' = (collided \/ eventFired[word] # trigger[c].loaded)
  /\ UNCHANGED <<at, semBegin, startVars, events, todo, owed>>

\* Mutant: the semaphore is given at any time.
GiveAlways(c) ==
  /\ Step(c, "give")
  /\ trigger' = [trigger EXCEPT ![c] = NoTrigger]
  /\ semBegin' = TRUE
  /\ UNCHANGED <<at, startVars, eventVars>>

\* Mutant: core 0's own events do not wake it.
GiveFromCore1(c) ==
  /\ Step(c, "give")
  /\ trigger' = [trigger EXCEPT ![c] = NoTrigger]
  /\ semBegin' = (semBegin \/ (setUp /\ c = 1))
  /\ UNCHANGED <<at, startVars, eventVars>>

\* "Don't do this if all the deviceStart()s haven't completed"
GiveIfSetUp(c) ==
  /\ Step(c, "give")
  /\ trigger' = [trigger EXCEPT ![c] = NoTrigger]
  /\ semBegin' = (semBegin \/ setUp)
  /\ UNCHANGED <<at, startVars, eventVars>>

TriggerStep(c) ==
  \/ Load(c, 0, "load0", "store0") \/ Store(c, 0, "store0", "load1")
  \/ Load(c, 1, "load1", "store1") \/ Store(c, 1, "store1", "give")
  \/ GiveIfSetUp(c)

Update(c) ==
  \/ ReadEvents(c) \/ ClearEvents(c) \/ Told(c)
  \/ \E d \in Devices : Tell(c, d)

Next ==
  \/ Startup
  \/ WakeUp \/ TimeoutExpires
  \/ \E c \in Cores :
       Update(c) \/ TriggerStep(c) \/ \E e \in Events : Trigger(c, {e})

Spec == Init /\ [][Next]_vars

\* Both cores run.  When core 0 sleeps for ever, only the semaphore wakes it.
FairSpec ==
  /\ Spec
  /\ SF_vars(Startup) /\ SF_vars(WakeUp)
  /\ \A c \in Cores : SF_vars(Update(c)) /\ WF_vars(TriggerStep(c))

-------------------------------------------------------------------------------
TypeOK ==
  /\ semBegin \in BOOLEAN /\ semComplete \in BOOLEAN /\ setUp \in BOOLEAN
  /\ initialized \subseteq Devices /\ started \subseteq Devices
  /\ eventFired \in [Cores -> SUBSET Events]
  /\ events \in [Cores -> SUBSET Events]
  /\ \A c \in Cores : todo[c] \subseteq DevicesOn(c)
  /\ owed \subseteq Devices \X Events /\ collided \in BOOLEAN

\* The interlock: no device is started before every device is initialised, and
\* none is told of an event before every device is started, although events
\* are triggered while the cores start up.
InOrder ==
  /\ started # {} => initialized = Devices
  /\ (at[1] = "tell" /\ todo[1] # {}) \/ (at[0] = "tell" /\ todo[0] # {})
       => started = Devices

\* device.cpp, 200: "No longer need the complete semaphore".
NoLongerNeeded == setUp => at[1] # "wait_start"

\* A triggered event is not forgotten: until the device is told it is flagged,
\* in a copy that is being gone through, or about to be flagged.  Two threads
\* that change a word at once are the one way to lose it.
Remembered(d, e) ==
  LET c == CoreOf[d]
      Flagging(t) ==
        /\ e \in trigger[t].what
        /\ trigger[t].at \in IF c = 0 THEN {"load0", "store0"}
                             ELSE {"load0", "store0", "load1", "store1"}
  IN \/ e \in eventFired[c]
     \/ e \in events[c] /\ (at[c] = "clear" \/ d \in todo[c])
     \/ \E t \in Cores : Flagging(t)

NoEventForgotten == collided \/ \A p \in owed : Remembered(p[1], p[2])

\* Every device gets to hear of every event it subscribes to, one on the other
\* core included: core 0 does not sleep through it.
EventsReachDevices ==
  []~collided => \A d \in Devices, e \in Events : <<d, e>> \in owed ~> <<d, e>> \notin owed
===============================================================================
