------------------------------- MODULE UsbHost -------------------------------
(***************************************************************************)
(* The root port of the USB host: the gState machine of USBH_Process       *)
(* (usbh_core.c), run by the USB thread once per message of os_event,      *)
(* against the port and disconnect interrupts (stm32f7xx_hal_hcd.c), a     *)
(* device that is plugged and unplugged, and the bits of the port register *)
(* HPRT and of the interrupt mask GINTMSK that the two sides share.        *)
(*                                                                         *)
(* The interrupt preempts the thread, and the user is slower than both: no *)
(* thread step and no plug happens while an interrupt that the mask lets   *)
(* through is pending.  The outcome of a control request (enumeration,     *)
(* configuration, class requests) is a choice here; UsbControl models how  *)
(* it comes about.                                                         *)
(***************************************************************************)
EXTENDS Naturals

CONSTANTS
  QueueLength,   \* capacity of USBH_Queue (10 in USBH_Init)
  VbusSwitched,  \* the board's switch on PG6 really cuts the device's power
  Haste,         \* when the user acts, beside when the host is at rest
  Devices,       \* what is plugged: a subset of AllDevices
  MaxPlugs,      \* bound: how often the device is plugged
  MaxFails       \* bound: how often the enumeration fails

\* "unplug": before the class runs; "plug": while the thread is awake with nothing
\* to do; "replug": at any time, the thread still busy with the device that left.
AllHaste == {"unplug", "plug", "replug"}

\* "class": a device that MSC or HUB takes or refuses, or a phone in accessory mode;
\* "phone": one that knows the requests by which AOA asks for that mode; "other":
\* one that stalls them.  AOA is asked of every device of no other class.
AllDevices == {"class", "phone", "other"}

ASSUME UsbHostAssumption ==
  /\ QueueLength \in Nat \ {0}
  /\ VbusSwitched \in BOOLEAN
  /\ Haste \subseteq AllHaste
  /\ Devices \subseteq AllDevices
  /\ MaxPlugs \in Nat /\ MaxFails \in Nat

VARIABLES
  gState,     \* phost->gState
  connected,  \* phost->device.is_connected
  pipes,      \* the control pipes are allocated
  class,      \* phost->pActiveClass is set, and its Init has returned
  instances,  \* history: class instances initialised and not yet de-initialised
  queue,      \* number of messages in os_event
  pc,         \* where the USB thread is
  state,      \* gState as the switch of USBH_Process read it
  saved,      \* GINTMSK as the thread loaded it to mask HPRTINT
  mask,       \* GINTMSK: the HPRTINT and DISCINT bits
  port,       \* the plug, HPRT's PCDET, PENA and PENCHNG, and GINTSTS's DISCINT
  vbus,       \* the level of PG6
  plugs, fails

core   == <<gState, connected, pipes>>
classv == <<class, instances>>
thread == <<pc, state, saved>>
hw     == <<mask, port, vbus>>
bounds == <<plugs, fails>>
vars   == <<core, classv, queue, thread, hw, bounds>>

GStates ==
  {"IDLE", "WAIT_FOR_ATTACHMENT", "ATTACHED", "DISCONNECTED", "ENUMERATION",
   "INPUT", "SET_CONFIGURATION", "CHECK_CLASS", "CLASS_REQUEST", "CLASS", "ABORT"}

Masks == [hprt : BOOLEAN, disc : BOOLEAN]
Ports == [plugged : BOOLEAN, pcdet : BOOLEAN, pena : BOOLEAN, penchng : BOOLEAN,
          disc : BOOLEAN]

TypeOK ==
  /\ gState \in GStates /\ state \in GStates
  /\ connected \in BOOLEAN /\ pipes \in BOOLEAN /\ class \in BOOLEAN
  /\ instances \in Nat
  /\ queue \in 0 .. QueueLength
  /\ pc \in {"get", "load", "store", "switch", "case", "reset", "alloc",
             "stop", "clean", "start", "aoa", "aoaset", "stuck", "deinit", "unmask"}
  /\ saved \in Masks /\ mask \in Masks /\ port \in Ports
  /\ vbus \in BOOLEAN
  /\ plugs \in 0 .. MaxPlugs /\ fails \in 0 .. MaxFails

\* USBH_Init; USB_HostInit unmasks both interrupts; USBH_Start drives VBUS.
Init ==
  /\ gState = "IDLE" /\ connected = FALSE /\ pipes = FALSE
  /\ class = FALSE /\ instances = 0
  /\ queue = 0
  /\ mask = [hprt |-> TRUE, disc |-> TRUE]
  /\ pc = "get" /\ state = "IDLE" /\ saved = mask
  /\ port = [plugged |-> FALSE, pcdet |-> FALSE, pena |-> FALSE,
             penchng |-> FALSE, disc |-> FALSE]
  /\ vbus = TRUE
  /\ plugs = 0 /\ fails = 0

\* Mutant: the capacity is off by one.
PostedOneMore(q) == IF q <= QueueLength THEN q + 1 ELSE q

\* osMessagePut with timeout 0: a full queue drops the message.
Posted(q) == IF q < QueueLength THEN q + 1 ELSE q

Post == queue' = Posted(queue)

-----------------------------------------------------------------------------
(* Interrupts pending, the port hardware and the user's hand *)

DiscPending == mask.disc /\ port.disc
PortPending == mask.hprt /\ (port.pcdet \/ port.penchng)
Pending == DiscPending \/ PortPending

Powered == vbus \/ ~VbusSwitched
Present == port.plugged /\ Powered

\* A device appears: PCDET.  It leaves: DISCINT, and a port that was enabled is
\* disabled, with PENCHNG.
Arrived(p) == [p EXCEPT !.pcdet = TRUE]
Left(p) == [p EXCEPT !.disc = TRUE, !.pena = FALSE, !.penchng = @ \/ p.pena]

Plug ==
  /\ ~port.plugged /\ ~Pending
  /\ \/ pc = "get" /\ queue = 0
     \/ gState = "IDLE" /\ "plug" \in Haste
     \/ "replug" \in Haste
  /\ plugs < MaxPlugs /\ plugs' = plugs + 1
  /\ LET p == [port EXCEPT !.plugged = TRUE]
     IN  port' = IF Powered THEN Arrived(p) ELSE p
  /\ UNCHANGED <<core, classv, queue, thread, mask, vbus, fails>>

Unplug ==
  /\ port.plugged /\ ~Pending
  /\ "unplug" \in Haste \/ gState \in {"CLASS", "ABORT"}
  /\ LET p == [port EXCEPT !.plugged = FALSE]
     IN  port' = IF Powered THEN Left(p) ELSE p
  /\ UNCHANGED <<core, classv, queue, thread, mask, vbus, bounds>>

-----------------------------------------------------------------------------
(* The interrupt *)

\* USB_StopHost clears GINTSTS, and so a pending DISCINT.
Stopped(p) == [p EXCEPT !.disc = FALSE]


\* Mutant: the disconnection is not posted.
DisconnectIRQSilent ==
  /\ DiscPending
  /\ gState' = "DISCONNECTED" /\ connected' = FALSE /\ pipes' = FALSE
  /\ port' = Stopped(port)
  /\ UNCHANGED <<classv, queue, thread, mask, vbus, bounds>>

\* Mutant: is_connected stays.
DisconnectIRQStale ==
  /\ DiscPending
  /\ gState' = "DISCONNECTED" /\ pipes' = FALSE
  /\ port' = Stopped(port)
  /\ Post
  /\ UNCHANGED <<connected, classv, thread, mask, vbus, bounds>>

\* HAL_HCD_IRQHandler looks at DISCINT first: USBH_LL_Disconnect.
DisconnectIRQ ==
  /\ DiscPending
  /\ gState' = "DISCONNECTED" /\ connected' = FALSE /\ pipes' = FALSE
  /\ port' = Stopped(port)
  /\ Post
  /\ UNCHANGED <<classv, thread, mask, vbus, bounds>>


\* Mutant: the first connection already means that the device is attached.
ConnectNoReset(g, c) ==
  [gState    |-> IF g \in {"IDLE", "WAIT_FOR_ATTACHMENT"} THEN "ATTACHED" ELSE g,
   connected |-> c \/ g = "IDLE"]

\* USBH_LL_Connect, on gState and is_connected.
Connect(g, c) ==
  [gState    |-> IF g = "WAIT_FOR_ATTACHMENT" THEN "ATTACHED" ELSE g,
   connected |-> c \/ g = "IDLE"]

\* Mutant: a connection does not mask DISCINT.
MaskAfterKept(arrived, disabled) == [mask EXCEPT !.disc = @ \/ disabled]

\* A connection masks DISCINT, a disabled port unmasks it.
MaskAfter(arrived, disabled) ==
  [mask EXCEPT !.disc = disabled \/ (@ /\ ~arrived)]

\* HCD_Port_IRQHandler.  An enabled port is a second connection event.
PortIRQ ==
  LET arrived  == port.pcdet /\ Present
      enabled  == port.penchng /\ port.pena
      disabled == port.penchng /\ ~port.pena
      before   == [gState |-> gState, connected |-> connected]
      first    == IF arrived THEN Connect(gState, connected) ELSE before
      second   == IF enabled THEN Connect(first.gState, first.connected) ELSE first
  IN  /\ PortPending /\ ~DiscPending
      /\ gState' = second.gState
      /\ connected' = second.connected
      /\ mask' = MaskAfter(arrived, disabled)
      /\ port' = [port EXCEPT !.pcdet = FALSE, !.penchng = FALSE]
      /\ IF arrived \/ enabled THEN Post ELSE UNCHANGED queue
      /\ UNCHANGED <<pipes, classv, thread, vbus, bounds>>

IRQ == DisconnectIRQ \/ PortIRQ

-----------------------------------------------------------------------------
(* The USB thread: USBH_Process_OS and USBH_Process *)

\* The thread is at `from`, no interrupt preempts it, and it goes on to `to`.
Goes(from, to) == pc = from /\ ~Pending /\ pc' = to

\* osMessageGet returns a message.
Wake ==
  /\ Goes("get", "load") /\ queue > 0
  /\ queue' = queue - 1
  /\ UNCHANGED <<core, classv, state, saved, hw, bounds>>

\* GINTMSK &= ~HPRTINT is a load and a store.
MaskLoad ==
  /\ Goes("load", "store")
  /\ saved' = mask
  /\ UNCHANGED <<core, classv, queue, state, hw, bounds>>

MaskStore ==
  /\ Goes("store", "switch")
  /\ mask' = [saved EXCEPT !.hprt = FALSE]
  /\ UNCHANGED <<core, classv, queue, state, saved, port, vbus, bounds>>

\* switch (phost->gState).
Switch ==
  /\ Goes("switch", "case")
  /\ state' = gState
  /\ UNCHANGED <<core, classv, queue, saved, hw, bounds>>

\* A case of the switch, which goes on to `to`.
Case(s, to) == Goes("case", to) /\ state = s /\ UNCHANGED <<state, saved>>

\* A case that ends with a new gState, and with or without a message.
Leaves(g, posts) ==
  /\ gState' = g
  /\ queue' = IF posts THEN Posted(queue) ELSE queue
  /\ UNCHANGED <<connected, pipes, hw, plugs>>

Idle ==
  /\ IF connected
       THEN Case("IDLE", "reset") /\ gState' = "WAIT_FOR_ATTACHMENT"
       ELSE Case("IDLE", "unmask") /\ UNCHANGED gState
  /\ UNCHANGED <<connected, pipes, classv, queue, hw, bounds>>


\* Mutant: the port is reset too early, and is not enabled.
ResetPortTooEarly ==
  /\ Goes("reset", "unmask")
  /\ Post
  /\ UNCHANGED <<core, classv, state, saved, hw, bounds>>

\* After 200 ms, USBH_LL_ResetPort: the port of a device that is there is enabled.
ResetPort ==
  /\ Goes("reset", "unmask")
  /\ port' = IF Present THEN [port EXCEPT !.pena = TRUE, !.penchng = TRUE] ELSE port
  /\ Post
  /\ UNCHANGED <<core, classv, state, saved, mask, vbus, bounds>>

\* After 100 ms: gState first, then the control pipes.
Attached ==
  /\ Case("ATTACHED", "alloc")
  /\ gState' = "ENUMERATION"
  /\ UNCHANGED <<connected, pipes, classv, queue, hw, bounds>>

AllocPipes ==
  /\ Goes("alloc", "unmask")
  /\ pipes' = TRUE
  /\ Post
  /\ UNCHANGED <<gState, connected, classv, state, saved, hw, bounds>>

\* The device can answer: it is there, its port enabled, its pipes allocated.
Works == Present /\ port.pena /\ pipes /\ connected

\* USBH_HandleEnum returns USBH_BUSY; the transfer under way will post an event,
\* if there is a device to answer it.
EnumerationBusy ==
  /\ Case("ENUMERATION", "unmask")
  /\ Leaves(gState, Works)
  /\ UNCHANGED <<classv, fails>>

EnumerationDone ==
  /\ Case("ENUMERATION", "unmask") /\ Works
  /\ \E g \in {"SET_CONFIGURATION", "INPUT"} : Leaves(g, TRUE)
  /\ UNCHANGED <<classv, fails>>

\* USBH_FAIL: on to USBH_ReEnumerate.
EnumerationFails ==
  /\ Case("ENUMERATION", "stop")
  /\ fails < MaxFails /\ fails' = fails + 1
  /\ UNCHANGED <<core, classv, queue, hw, plugs>>

\* USBH_Stop: the host, VBUS and the control pipes.
ReEnumerateStop ==
  /\ Goes("stop", "clean")
  /\ vbus' = FALSE
  /\ port' = IF Present /\ VbusSwitched THEN Left(Stopped(port)) ELSE Stopped(port)
  /\ pipes' = FALSE
  /\ UNCHANGED <<gState, connected, classv, queue, state, saved, mask, bounds>>

\* After 200 ms, DeInitStateMachine.
ReEnumerateClean ==
  /\ Goes("clean", "start")
  /\ gState' = "IDLE" /\ pipes' = FALSE
  /\ UNCHANGED <<connected, classv, queue, state, saved, hw, bounds>>

\* USBH_Start, and the message at the end of USBH_ReEnumerate.
ReEnumerateStart ==
  /\ Goes("start", "unmask")
  /\ vbus' = TRUE
  /\ port' = IF port.plugged /\ VbusSwitched THEN Arrived(port) ELSE port
  /\ Post
  /\ UNCHANGED <<core, classv, state, saved, mask, bounds>>

ReEnumerate == ReEnumerateStop \/ ReEnumerateClean \/ ReEnumerateStart

\* The user's HOST_USER_SELECT_CONFIGURATION does nothing.
Input ==
  /\ Case("INPUT", "unmask")
  /\ Leaves("SET_CONFIGURATION", TRUE)
  /\ UNCHANGED <<classv, fails>>

\* USBH_SetCfg, busy or done.
SetConfiguration ==
  /\ Case("SET_CONFIGURATION", "unmask")
  /\ \/ Leaves(gState, Works)
     \/ Works /\ Leaves("CHECK_CLASS", TRUE)
  /\ UNCHANGED <<classv, fails>>

\* A class is found and initialised, or its Init fails.
ClassFound == Leaves("CLASS_REQUEST", TRUE) /\ class' = TRUE /\ instances' = instances + 1
ClassRefuses == Leaves("ABORT", TRUE) /\ class' = FALSE /\ UNCHANGED instances

\* The last registered class with the interface's code; if there is none, or if the
\* code is 0xFF, that is AOA.
CheckClass ==
  \/ /\ "class" \in Devices /\ Case("CHECK_CLASS", "unmask")
     /\ ClassFound \/ ClassRefuses
     /\ UNCHANGED fails
  \/ /\ \E to \in {"aoa", "stuck"} :
          /\ (IF to = "aoa" THEN "phone" ELSE "other") \in Devices
          /\ Case("CHECK_CLASS", to)
     /\ class' = FALSE
     /\ UNCHANGED <<core, instances, queue, hw, bounds>>

\* USBH_AOA_InterfaceInit repeats each request until it is served.  A device that
\* stalls the first one, or that leaves, keeps the thread in this loop.
AoaRequests ==
  /\ Goes("aoa", "aoaset") /\ Works
  /\ UNCHANGED <<core, classv, queue, state, saved, hw, bounds>>

\* The last request may also fail.
AoaSet ==
  /\ Goes("aoaset", "unmask")
  /\ (Works /\ ClassFound) \/ ClassRefuses
  /\ UNCHANGED <<state, saved, fails>>

\* The class's own requests, busy or done.
ClassRequest ==
  /\ Case("CLASS_REQUEST", "unmask")
  /\ \/ class /\ Leaves(gState, Works)
     \/ class /\ Works /\ Leaves("CLASS", TRUE)
     \/ ~class /\ Leaves("ABORT", TRUE)
  /\ UNCHANGED <<classv, fails>>

\* HOST_CLASS runs the class's background process; the others do nothing.
Nothing ==
  /\ \E s \in {"CLASS", "WAIT_FOR_ATTACHMENT", "ABORT"} : Case(s, "unmask")
  /\ Leaves(gState, FALSE)
  /\ UNCHANGED <<classv, fails>>


\* Mutant: the class is forgotten and not de-initialised.
DisconnectedForgets ==
  /\ Case("DISCONNECTED", "deinit")
  /\ class' = FALSE
  /\ UNCHANGED <<core, instances, queue, hw, bounds>>

\* HOST_DEV_DISCONNECTED: the class, then DeInitStateMachine.
Disconnected ==
  /\ Case("DISCONNECTED", "deinit")
  /\ class' = FALSE
  /\ instances' = IF class THEN instances - 1 ELSE instances
  /\ UNCHANGED <<core, queue, hw, bounds>>

DeInitStateMachine ==
  /\ Goes("deinit", "unmask")
  /\ gState' = "IDLE" /\ pipes' = FALSE
  /\ UNCHANGED <<connected, classv, queue, state, saved, hw, bounds>>

\* GINTMSK |= HPRTINT.
Unmask ==
  /\ Goes("unmask", "get")
  /\ mask' = [mask EXCEPT !.hprt = TRUE]
  /\ UNCHANGED <<core, classv, queue, state, saved, port, vbus, bounds>>

Process ==
  \/ Idle \/ ResetPort \/ Attached \/ AllocPipes
  \/ EnumerationBusy \/ EnumerationDone \/ EnumerationFails \/ ReEnumerate
  \/ Input \/ SetConfiguration \/ CheckClass \/ AoaRequests \/ AoaSet \/ ClassRequest
  \/ Nothing
  \/ Disconnected \/ DeInitStateMachine

Thread == Wake \/ MaskLoad \/ MaskStore \/ Switch \/ Process \/ Unmask

Next == Thread \/ IRQ \/ Plug \/ Unplug

Spec == Init /\ [][Next]_vars

\* The thread and the interrupts run, and a request to a device that works is
\* not busy for ever: UsbControl!RequestEnds, without the exceptions it names.
Fairness ==
  /\ WF_vars(Thread) /\ WF_vars(IRQ)
  /\ SF_vars(EnumerationDone)
  /\ SF_vars(SetConfiguration /\ gState' # gState)
  /\ SF_vars(ClassRequest /\ gState' # gState)

FairSpec == Spec /\ Fairness

-----------------------------------------------------------------------------
(* Properties *)

\* A class is not initialised a second time before it was de-initialised:
\* pActiveClass->Init allocates, and HOST_CHECK_CLASS drops the old pointer.
OneInstance == instances = IF class THEN 1 ELSE 0

ClassStates == {"CLASS_REQUEST", "CLASS", "DISCONNECTED"}
AttachStates == {"IDLE", "WAIT_FOR_ATTACHMENT", "ATTACHED"}

\* No pipe is left allocated when a new attachment starts: USBH_AllocPipe would
\* run out of pipes.
PipesFreeWhenIdle == gState \in AttachStates => ~pipes

\* The next call of USBH_Process would do something.
WouldAct ==
  \/ gState = "IDLE" /\ connected
  \/ gState \in {"ATTACHED", "INPUT", "CHECK_CLASS", "DISCONNECTED"}
  \/ gState \in {"ENUMERATION", "SET_CONFIGURATION", "CLASS_REQUEST"} /\ Works

\* While the thread sleeps in osMessageGet with a state that the next call would
\* act upon, os_event holds a message, although osMessagePut drops its message
\* when the queue is full.
NoLostWakeup == pc = "get" /\ WouldAct => queue > 0

\* The inductive invariant behind the three properties above, in parts.
\* The class lives in the class states, as gState and as the switch read it.
ClassPlaced ==
  class => /\ gState \in ClassStates
           /\ pc = "case" => state \in ClassStates
           /\ pc \in {"get", "load", "store", "switch", "case", "unmask"}

\* The pipes are free while the switch acts for an attach state, and the thread
\* allocates them for an enumeration, or too late.
PipesPlaced ==
  /\ pc = "case" /\ state \in AttachStates => ~pipes
  /\ pc = "alloc" => gState \in {"ENUMERATION", "DISCONNECTED"}

\* A port is enabled only with a device on it.
EnabledIsPresent == port.pena => Present

\* A disconnected device is not connected, and its clean-up is not overtaken.
DisconnectPlaced ==
  /\ gState = "DISCONNECTED" => ~connected
  /\ pc = "deinit" \/ (pc = "case" /\ state = "DISCONNECTED")
       => gState = "DISCONNECTED"

\* An interrupt that changes gState under the switch posts a message, and the
\* thread goes back to sleep with a message for what is left to do.
WakeupKept ==
  /\ pc = "case" /\ gState # state => queue > 0
  /\ pc \in {"get", "unmask"} /\ WouldAct => queue > 0

HostInv ==
  /\ OneInstance /\ PipesFreeWhenIdle
  /\ ClassPlaced /\ PipesPlaced /\ EnabledIsPresent /\ DisconnectPlaced /\ WakeupKept

\* A device comes only to a thread at rest, and leaves only a class that runs: in
\* the state after each, its interrupt is pending.
Calm ==
  /\ port.pcdet => pc = "get" /\ queue = 0
  /\ port.disc /\ ~port.plugged => gState \in {"CLASS", "ABORT"}

\* A device is enumerated only on a port that was reset for it: while the thread
\* sleeps in HOST_ENUMERATION and no interrupt is pending, the port is enabled.
\* This and PluggedIsServed hold of a calm user only.
EnumeratesEnabled ==
  []Calm => [](gState = "ENUMERATION" /\ pc = "get" /\ ~Pending => port.pena)

\* HOST_DEV_DISCONNECTED, set by the interrupt, is never overwritten by a case of
\* USBH_Process that was chosen before: only DeInitStateMachine leaves it.
DisconnectStands ==
  [][ gState = "DISCONNECTED" /\ gState' # gState => pc = "deinit" ]_vars

\* usbh_core.c: "Re-Initilaize Host for new Enumeration", "Perform a new
\* Enumeration phase".  A device that stays plugged is enumerated, and its class
\* runs or is refused.
PluggedIsServed ==
  []Calm => port.plugged ~> (gState \in {"CLASS", "ABORT"} \/ ~port.plugged)

\* When a device is gone its class is de-initialised.
UnplugIsHandled == ~port.plugged ~> (~class \/ port.plugged)
=============================================================================
