-------------------------------- MODULE UsbHub --------------------------------
(***************************************************************************)
(* A hub on the root port and the devices behind it: the background        *)
(* process of the hub class (usbh_hub.c), which polls the hub's interrupt  *)
(* endpoint, reads and clears the status of each port that changed, resets *)
(* it, and makes, enumerates and removes a child handle for its device;    *)
(* the pipes and addresses that the handles share (usbh_pipes.c,           *)
(* usbh_core.c); and the hub's ports, which change at any time.            *)
(*                                                                         *)
(* The events that wake the USB thread are left to UsbHost: here it always *)
(* runs.  The outcome of a control request is a choice, as in UsbHost.     *)
(***************************************************************************)
EXTENDS Naturals, FiniteSets

CONSTANTS
  NumPorts,      \* ports of the hub (the code has room for USBH_MAX_NUM_CHILD = 4)
  NumPipes,      \* USBH_MAX_PIPES_NBR = 15
  NumAddresses,  \* USBH_MAX_NUM_DEVICE = 8
  Msc,           \* the ports whose device is a mass storage
  Aoa,           \* the ports whose device is a phone, of the class AOA; else a CH340
  Refused,       \* the ports whose device its class may refuse
  AoaTakesAll,   \* AOA is registered last: it is the class of every CH340 too
  Haste          \* what may happen, beside plugging at rest

Ports == 1 .. NumPorts
Root == 0
Handles == Ports \union {Root}
PipeNos == 0 .. NumPipes - 1
Addresses == 1 .. NumAddresses

\* "early": devices come and go at any time.  "root": the hub itself goes.
\* "timeout": a request to the hub fails.  "slow": a child is not enumerated in
\* 5000 steps, or its enumeration fails.  "stall": the interrupt endpoint halts.
AllHaste == {"early", "root", "timeout", "slow", "stall"}

ASSUME UsbHubAssumption ==
  /\ NumPorts \in Nat /\ NumPipes \in Nat /\ NumAddresses \in Nat
  /\ Msc \subseteq Ports /\ Aoa \subseteq Ports /\ Refused \subseteq Ports \ Aoa
  /\ Msc \intersect Aoa = {} /\ AoaTakesAll \in BOOLEAN
  /\ Haste \subseteq AllHaste

VARIABLES
  pipes,   \* phost->Pipes: the pipes with the allocated bit, shared by all handles
  addrs,   \* phost->address: the addresses that are taken
  handle,  \* the root handle, and children[port - 1] or, at pc = "child", tmp
  msc,     \* the pipes in the MSC class's one pData
  port,    \* the ports of the hub, and the device on each
  ctl,     \* HUB_Handle->ctl_state
  urb,     \* the URB state of the interrupt pipe
  buf,     \* hub_intr_buf: the ports that changed
  state,   \* HUB_Handle->port_state
  req,     \* phost->RequestState: a ClearFeature is under way
  halted,  \* the interrupt endpoint is halted
  todo,    \* tmp_port_state and port: the ports still to look at
  data,    \* phost->device.Data: the port status that was read last
  pc       \* where the USB thread is

pool  == <<pipes, addrs, msc>>
poll  == <<ctl, urb, buf, state>>
stall == <<req, halted>>
loop  == <<todo, data, pc>>
vars  == <<pool, handle, port, poll, stall, loop>>

Phases == {"none", "idle", "setaddr", "addr", "aoa", "request", "class", "abort",
           "gone"}
Handle == [phase : Phases, ctl : SUBSET PipeNos, bulk : SUBSET PipeNos,
           addr : Addresses \union {0}]
Port == [conn : BOOLEAN, enab : BOOLEAN, cconn : BOOLEAN, creset : BOOLEAN,
         addr : Addresses \union {0}]

NoHandle == [phase |-> "none", ctl |-> {}, bulk |-> {}, addr |-> 0]
NoDevice == [conn |-> FALSE, enab |-> FALSE, cconn |-> FALSE, creset |-> FALSE,
             addr |-> 0]

TypeOK ==
  /\ pipes \subseteq PipeNos /\ addrs \subseteq Addresses /\ msc \subseteq PipeNos
  /\ handle \in [Handles -> Handle]
  /\ port \in [Ports -> Port] /\ data \in Port
  /\ ctl \in {"SCAN_PORT", "SCAN_PORT_WAIT", "CLR_FEATURE", "ENUM_PORT"}
  /\ urb \in {"IDLE", "DONE", "NOTREADY", "STALL"}
  /\ buf \subseteq Ports /\ state \subseteq Ports /\ todo \subseteq Ports
  /\ req \in BOOLEAN /\ halted \in BOOLEAN
  /\ pc \in {"get", "ports", "clear", "act", "reset", "child", "aoa", "aoaset", "fault"}

Init ==
  /\ pipes = {} /\ addrs = {} /\ msc = {}
  /\ handle = [h \in Handles |-> NoHandle]
  /\ port = [p \in Ports |-> NoDevice] /\ data = NoDevice
  /\ ctl = "SCAN_PORT" /\ urb = "IDLE" /\ buf = {} /\ state = {}
  /\ req = FALSE /\ halted = FALSE
  /\ todo = {} /\ pc = "get"

-----------------------------------------------------------------------------
(* Pipes and addresses *)

\* T is what n calls of USBH_AllocPipe return: the lowest pipes that are free.
Allocates(n, T) ==
  /\ T \subseteq PipeNos \ pipes /\ Cardinality(T) = n
  /\ \A t \in T, q \in PipeNos \ (pipes \union T) : t < q

\* Without a free pipe USBH_AllocPipe returns 0xFF, and USBH_OpenPipe then writes
\* to hc[0xFF], beyond the array.
OutOfPipes(n) == Cardinality(PipeNos \ pipes) < n

\* Mutant: an address is given away twice.
GetsOneAddressAgain(a) == a \in Addresses /\ \A b \in Addresses : a <= b

\* USBH_Get_One_Address: the lowest address that is free.
GetsOneAddress(a) ==
  /\ a \in Addresses \ addrs
  /\ \A b \in Addresses \ addrs : a <= b

Used(h) == handle[h].ctl \union handle[h].bulk

-----------------------------------------------------------------------------
(* The hub's ports, and the user *)

Up == handle[Root].phase = "class"

Plug(p) ==
  /\ Up /\ pc # "fault" /\ ~port[p].conn
  /\ "early" \in Haste \/ (handle[p].phase = "none" /\ ~port[p].cconn)
  /\ port' = [port EXCEPT ![p] = [NoDevice EXCEPT !.conn = TRUE, !.cconn = TRUE]]
  /\ UNCHANGED <<pool, handle, poll, stall, loop>>

Unplug(p) ==
  /\ Up /\ pc # "fault" /\ port[p].conn
  /\ \/ "early" \in Haste
     \/ pc = "get" /\ ~port[p].creset /\ handle[p].phase \in {"class", "abort"}
  /\ port' = [port EXCEPT ![p] = [NoDevice EXCEPT !.cconn = TRUE]]
  /\ UNCHANGED <<pool, handle, poll, stall, loop>>

Changed == {p \in Ports : port[p].cconn \/ port[p].creset}

\* The hub answers the poll of its interrupt endpoint.  An answer that comes while
\* the thread does not wait for it is gone with the next poll.  USB_HC_Init leaves
\* NAK and STALL of an interrupt channel masked, so that NOTREADY and STALL need
\* another interrupt of the channel too (see HostChannel).
UrbAnswer ==
  /\ Up /\ pc = "get" /\ ctl = "SCAN_PORT_WAIT" /\ urb = "IDLE"
  /\ urb' = IF halted THEN "STALL" ELSE IF Changed = {} THEN "NOTREADY" ELSE "DONE"
  /\ buf' = IF urb' = "DONE" THEN Changed ELSE buf
  /\ UNCHANGED <<pool, handle, port, ctl, state, stall, loop>>

\* The interrupt endpoint halts.
Halt ==
  /\ "stall" \in Haste /\ Up /\ pc # "fault"
  /\ halted' = TRUE
  /\ UNCHANGED <<pool, handle, port, poll, req, loop>>

-----------------------------------------------------------------------------
(* The root handle *)

\* A hub is attached and enumerated (UsbHost): control pipes, an address, the
\* class's interrupt pipe, and power for the ports.
RootAttach ==
  /\ pc = "get" /\ handle[Root].phase = "none"
  /\ \E C \in SUBSET PipeNos, n \in PipeNos, a \in Addresses :
       /\ Allocates(2, C) /\ Allocates(3, C \union {n}) /\ n \notin C
       /\ GetsOneAddress(a)
       /\ pipes' = pipes \union C \union {n}
       /\ addrs' = addrs \union {a}
       /\ handle' = [handle EXCEPT ![Root] =
            [phase |-> "class", ctl |-> C, bulk |-> {n}, addr |-> a]]
  /\ ctl' = "SCAN_PORT" /\ urb' = "IDLE" /\ state' = {}
  /\ req' = FALSE /\ halted' = FALSE
  /\ data' = [NoDevice EXCEPT !.conn = TRUE]  \* bytes of the hub descriptor
  /\ UNCHANGED <<msc, port, buf, todo, pc>>

\* Mutant: the interrupt clears all the pipes, the thread still using its own.
DisconnectClearsPipes ==
  /\ "root" \in Haste /\ Up /\ pc # "fault"
  /\ pipes' = {}
  /\ handle' = [handle EXCEPT ![Root].phase = "gone", ![Root].ctl = {}]
  /\ port' = [p \in Ports |-> NoDevice]
  /\ UNCHANGED <<addrs, msc, poll, stall, loop>>

\* USBH_LL_Disconnect in the interrupt, whatever the thread does.
Disconnect ==
  /\ "root" \in Haste /\ Up /\ pc # "fault"
  /\ pipes' = pipes \ handle[Root].ctl
  /\ handle' = [handle EXCEPT ![Root].phase = "gone", ![Root].ctl = {}]
  /\ port' = [p \in Ports |-> NoDevice]
  /\ UNCHANGED <<addrs, msc, poll, stall, loop>>

Children == {p \in Ports : handle[p].phase # "none"}
WithClass == {p \in Ports : handle[p].phase \in {"request", "class"}}

\* The classes give the address back, except AOA.
FreedAddresses(S) == {handle[h].addr : h \in S \ Aoa}

\* HOST_DEV_DISCONNECTED: USBH_HUB_InterfaceDeInit calls the class of every child,
\* then DeInitStateMachine clears all the pipes.
Teardown ==
  /\ pc = "get" /\ handle[Root].phase = "gone" /\ Children = WithClass
  /\ pipes' = {} /\ msc' = {}
  /\ addrs' = addrs \ FreedAddresses(WithClass \union {Root})
  /\ handle' = [h \in Handles |-> NoHandle]
  /\ UNCHANGED <<port, poll, stall, loop>>

\* children[idx]->pActiveClass->DeInit of a child without a class.
TeardownFault ==
  /\ pc = "get" /\ handle[Root].phase = "gone" /\ Children # WithClass
  /\ pc' = "fault"
  /\ UNCHANGED <<pool, handle, port, poll, stall, todo, data>>

-----------------------------------------------------------------------------
(* USBH_HUB_Process: the poll *)

\* Mutant: it polls, and leaves the state.
SOFProcessPollsOnly ==
  /\ Up /\ pc = "get"
  /\ urb' = "IDLE"
  /\ UNCHANGED <<pool, handle, port, ctl, buf, state, stall, loop>>

\* USBH_HUB_SOFProcess polls again, and from SCAN_PORT on the thread waits.  A poll
\* while the thread is in the loop over the ports leaves nothing that is read.
SOFProcess ==
  /\ Up /\ pc = "get"
  /\ urb' = "IDLE"
  /\ ctl' = IF ctl = "SCAN_PORT" THEN "SCAN_PORT_WAIT" ELSE ctl
  /\ UNCHANGED <<pool, handle, port, buf, state, stall, loop>>

\* HUB_REQ_SCAN_PORT_WAIT.
ScanPortWait ==
  /\ Up /\ pc = "get" /\ ctl = "SCAN_PORT_WAIT" /\ urb # "IDLE"
  /\ ctl' = CASE urb = "DONE" -> "ENUM_PORT"
              [] urb = "STALL" -> "CLR_FEATURE"
              [] urb = "NOTREADY" -> "SCAN_PORT"
  /\ state' = IF urb = "DONE" THEN buf ELSE state
  /\ UNCHANGED <<pool, handle, port, urb, buf, stall, loop>>

EnumPort == pc' = "ports" /\ todo' = state

\* HUB_REQ_CLR_FEATURE: sends the request, is busy with it, or completes it, and
\* in each case falls through to HUB_REQ_ENUM_PORT.
ClrFeature ==
  /\ Up /\ pc = "get" /\ ctl = "CLR_FEATURE"
  /\ \/ req' = TRUE /\ UNCHANGED halted
     \/ (req /\ req' = FALSE /\ halted' = FALSE)
  /\ ctl' = IF req /\ ~req' THEN "SCAN_PORT" ELSE ctl
  /\ EnumPort
  /\ UNCHANGED <<pool, handle, port, urb, buf, state, data>>

StartEnumPort ==
  /\ Up /\ pc = "get" /\ ctl = "ENUM_PORT"
  /\ EnumPort
  /\ UNCHANGED <<pool, handle, port, poll, stall, data>>

EndEnumPort ==
  /\ pc = "ports" /\ todo = {}
  /\ ctl' = "SCAN_PORT" /\ pc' = "get"
  /\ UNCHANGED <<pool, handle, port, urb, buf, state, stall, todo, data>>

-----------------------------------------------------------------------------
(* USBH_HUB_Process: the loop over the ports *)

\* The thread is at `at` in the loop, with port p.
Turn(at, p) == pc = at /\ p \in todo /\ \A q \in todo : p <= q

\* Mutant: tmp_port_state is shifted the wrong way.
NextPortWrongWay(p) == todo' = {q + 1 : q \in todo \ {p}} /\ pc' = "ports"

\* ++port, tmp_port_state >>= 1.
NextPort(p) == todo' = todo \ {p} /\ pc' = "ports"

\* USBH_HUB_GetPortStatus.  With a ClearFeature under way, it is that request which
\* completes, and device.Data is what it was.
GetPortStatus(p) ==
  /\ Turn("ports", p) /\ Up
  /\ data' = IF req THEN data ELSE port[p]
  /\ req' = FALSE
  /\ halted' = (halted /\ ~req)
  /\ pc' = "clear"
  /\ UNCHANGED <<pool, handle, port, poll, todo>>

GetPortStatusFails(p) ==
  /\ Turn("ports", p) /\ (~Up \/ "timeout" \in Haste)
  /\ req' = FALSE
  /\ NextPort(p)
  /\ UNCHANGED <<pool, handle, port, poll, halted, data>>

\* USBH_HUB_ClearPort for the changes that were read, on what the port has now.
Cleared(q) ==
  [q EXCEPT !.cconn = @ /\ ~data.cconn, !.creset = @ /\ ~data.creset]

ClearPort(p) ==
  /\ Turn("clear", p)
  /\ \/ Up /\ port' = [port EXCEPT ![p] = Cleared(port[p])]
     \/ (~Up \/ "timeout" \in Haste) /\ UNCHANGED port
  /\ pc' = "act"
  /\ UNCHANGED <<pool, handle, poll, stall, todo, data>>

WasReset(q) == IF q.conn THEN [q EXCEPT !.enab = TRUE, !.creset = TRUE, !.addr = 0] ELSE q

\* Mutant: the next port is looked at before the device of this one has an address.
ResetPortAndOn(p) ==
  /\ Turn("reset", p) \/ (Turn("act", p) /\ data.conn /\ ~data.enab)
  /\ \/ Up /\ port' = [port EXCEPT ![p] = WasReset(port[p])]
     \/ (~Up \/ "timeout" \in Haste) /\ UNCHANGED port
  /\ NextPort(p)
  /\ UNCHANGED <<pool, handle, poll, stall, data>>

\* RESET_PORT, and 150 ms: the same port is read again.
ResetPort(p) ==
  /\ Turn("reset", p) \/ (Turn("act", p) /\ data.conn /\ ~data.enab)
  /\ \/ Up /\ port' = [port EXCEPT ![p] = WasReset(port[p])]
     \/ (~Up \/ "timeout" \in Haste) /\ UNCHANGED port
  /\ pc' = "ports"
  /\ UNCHANGED <<pool, handle, poll, stall, todo, data>>

KeepChild(p) ==
  /\ Turn("act", p) /\ data.conn /\ data.enab /\ p \in Children
  /\ NextPort(p)
  /\ UNCHANGED <<pool, handle, port, poll, stall, data>>

\* Mutant: the class of the device is not de-initialised.
FreedPipesCtlOnly(p) == handle[p].ctl

\* The control pipes, and those of the class: CH340 keeps them in the handle, MSC
\* in its one pData, AOA does not free them.  Pipe 0 counts as none.
FreedPipes(p) ==
  LET class == IF p \notin WithClass \/ p \in Aoa THEN {}
               ELSE IF p \in Msc THEN msc ELSE handle[p].bulk
  IN  handle[p].ctl \union (class \ {0})

\* Mutant: the child stays in children[port - 1].
RemoveChildKept(p) ==
  /\ Turn("act", p) /\ ~data.conn
  /\ NextPort(p)
  /\ UNCHANGED <<pool, handle, port, poll, stall, data>>

\* Mutant: children[port] is removed and not children[port - 1].
RemoveNextChild(p) ==
  LET q == IF p < NumPorts THEN p + 1 ELSE p
  IN  /\ Turn("act", p) /\ ~data.conn
      /\ pipes' = pipes \ FreedPipes(q)
      /\ addrs' = addrs \ FreedAddresses({q} \intersect WithClass)
      /\ msc' = IF q \in WithClass \intersect Msc THEN {} ELSE msc
      /\ handle' = [handle EXCEPT ![q] = NoHandle]
      /\ NextPort(p)
      /\ UNCHANGED <<port, poll, stall, data>>

\* The port is empty: USBH_LL_Disconnect of the child, its class's DeInit,
\* HUB_Child_DeInitStateMachine.
RemoveChild(p) ==
  /\ Turn("act", p) /\ ~data.conn
  /\ pipes' = pipes \ FreedPipes(p)
  /\ addrs' = addrs \ FreedAddresses({p} \intersect WithClass)
  /\ msc' = IF p \in WithClass \intersect Msc THEN {} ELSE msc
  /\ handle' = [handle EXCEPT ![p] = NoHandle]
  /\ NextPort(p)
  /\ UNCHANGED <<port, poll, stall, data>>

\* Mutant: the pipes are not marked.
NewChildUnmarked(p) ==
  /\ Turn("act", p) /\ data.conn /\ data.enab /\ p \notin Children
  /\ \E C \in SUBSET PipeNos :
       /\ Allocates(2, C)
       /\ handle' = [handle EXCEPT ![p] = [NoHandle EXCEPT !.phase = "idle", !.ctl = C]]
  /\ pc' = "child"
  /\ UNCHANGED <<pool, port, poll, stall, todo, data>>

NewChild(p) ==
  /\ Turn("act", p) /\ data.conn /\ data.enab /\ p \notin Children
  /\ \E C \in SUBSET PipeNos :
       /\ Allocates(2, C)
       /\ pipes' = pipes \union C
       /\ handle' = [handle EXCEPT ![p] = [NoHandle EXCEPT !.phase = "idle", !.ctl = C]]
  /\ pc' = "child"
  /\ UNCHANGED <<addrs, msc, port, poll, stall, todo, data>>

NewChildFault(p) ==
  /\ Turn("act", p) /\ data.conn /\ data.enab /\ p \notin Children
  /\ OutOfPipes(2)
  /\ pc' = "fault"
  /\ UNCHANGED <<pool, handle, port, poll, stall, todo, data>>

-----------------------------------------------------------------------------
(* USBH_Process of a child: in the loop that enumerates it, or once per message
   when that loop gave up *)

Runs(p) == Up /\ (Turn("child", p) \/ pc = "get")

\* The device on port p answers a request to address a.
Answers(p, a) == port[p].conn /\ port[p].enab /\ port[p].addr = a

\* The device descriptor is read, and ENUM_SET_ADDR takes an address.
TakeAddress(p) ==
  /\ Runs(p) /\ handle[p].phase = "idle" /\ Answers(p, 0)
  /\ \E a \in Addresses :
       /\ GetsOneAddress(a)
       /\ addrs' = addrs \union {a}
       /\ handle' = [handle EXCEPT ![p].phase = "setaddr", ![p].addr = a]
  /\ UNCHANGED <<pipes, msc, port, poll, stall, loop>>

\* The device has its address.
SetAddress(p) ==
  /\ Runs(p) /\ handle[p].phase = "setaddr" /\ Answers(p, 0)
  /\ port' = [port EXCEPT ![p].addr = handle[p].addr]
  /\ handle' = [handle EXCEPT ![p].phase = "addr"]
  /\ UNCHANGED <<pool, poll, stall, loop>>

\* A CH340 and AOA have one class code, 0xFF, and the last registered class wins.
Stalls(p) == AoaTakesAll /\ p \notin Msc \union Aoa

\* The descriptors are read, the configuration is set, a class is initialised.
InitClass(p) ==
  /\ Runs(p) /\ handle[p].phase = "addr" /\ Answers(p, handle[p].addr)
  /\ ~Stalls(p)
  /\ \E T \in SUBSET PipeNos :
       /\ Allocates(2, T)
       /\ pipes' = pipes \union T
       /\ handle' = [handle EXCEPT ![p].phase = "request", ![p].bulk = T]
       /\ msc' = IF p \in Msc THEN T ELSE msc
  /\ UNCHANGED <<addrs, port, poll, stall, loop>>

\* USBH_AOA_InterfaceInit of a device that is not in accessory mode.
AoaStart(p) ==
  /\ Runs(p) /\ handle[p].phase = "addr" /\ Answers(p, handle[p].addr)
  /\ p \in Aoa \/ Stalls(p)
  /\ handle' = [handle EXCEPT ![p].phase = "aoa"]
  /\ pc' = "aoa"
  /\ UNCHANGED <<pool, port, poll, stall, todo, data>>

\* It repeats each request until it is served: a device that stalls the first one, or
\* that leaves, keeps the thread in this loop.
AoaRequests(p) ==
  /\ pc = "aoa" /\ handle[p].phase = "aoa" /\ Answers(p, handle[p].addr)
  /\ p \in Aoa
  /\ pc' = "aoaset"
  /\ UNCHANGED <<pool, handle, port, poll, stall, todo, data>>

\* The last request is served, for a phone that will be plugged again as an accessory,
\* or fails.  The thread was in the loop over the ports, or had no port to look at.
AoaSet(p) ==
  /\ pc = "aoaset" /\ handle[p].phase = "aoa" /\ p \in Aoa
  /\ \/ Answers(p, handle[p].addr) /\ handle' = [handle EXCEPT ![p].phase = "request"]
     \/ handle' = [handle EXCEPT ![p].phase = "abort"]
  /\ pc' = IF todo = {} THEN "get" ELSE "child"
  /\ UNCHANGED <<pool, port, poll, stall, todo, data>>

InitClassFault(p) ==
  /\ Runs(p) /\ handle[p].phase = "addr" /\ Answers(p, handle[p].addr)
  /\ ~Stalls(p) /\ OutOfPipes(2)
  /\ pc' = "fault"
  /\ UNCHANGED <<pool, handle, port, poll, stall, todo, data>>

NoClass(p) ==
  /\ Runs(p) /\ handle[p].phase = "addr" /\ Answers(p, handle[p].addr)
  /\ p \in Refused /\ ~Stalls(p)
  /\ handle' = [handle EXCEPT ![p].phase = "abort"]
  /\ UNCHANGED <<pool, port, poll, stall, loop>>

\* The class's own requests.
StartClass(p) ==
  /\ Runs(p) /\ handle[p].phase = "request" /\ Answers(p, handle[p].addr)
  /\ handle' = [handle EXCEPT ![p].phase = "class"]
  /\ UNCHANGED <<pool, port, poll, stall, loop>>

\* The loop ends: the class runs, the device is refused, or after 5000 steps.
Unfinished(p) == handle[p].phase \notin {"class", "abort"}
Silent(p) ==
  \/ ~Up \/ "slow" \in Haste
  \/ ~Answers(p, IF handle[p].phase \in {"idle", "setaddr"} THEN 0 ELSE handle[p].addr)

StoreChild(p) ==
  /\ Turn("child", p)
  /\ Unfinished(p) => Silent(p)
  /\ NextPort(p)
  /\ UNCHANGED <<pool, handle, port, poll, stall, data>>

\* USBH_HandleEnum fails, for a device that is silent or when no address is left:
\* goto RESET_PORT, and tmp is lost with its pipes.
EnumFails(p) ==
  /\ Turn("child", p) /\ handle[p].phase = "idle"
  /\ Silent(p) \/ addrs = Addresses
  /\ handle' = [handle EXCEPT ![p] = NoHandle]
  /\ pc' = "reset"
  /\ UNCHANGED <<pool, port, poll, stall, todo, data>>

ChildProcess(p) ==
  \/ TakeAddress(p) \/ SetAddress(p) \/ InitClass(p) \/ InitClassFault(p)
  \/ AoaStart(p) \/ AoaRequests(p) \/ AoaSet(p) \/ NoClass(p) \/ StartClass(p)

LoopStep(p) ==
  \/ GetPortStatus(p) \/ GetPortStatusFails(p) \/ ClearPort(p) \/ ResetPort(p)
  \/ KeepChild(p) \/ RemoveChild(p) \/ NewChild(p) \/ NewChildFault(p)
  \/ StoreChild(p) \/ EnumFails(p)

RootStep ==
  \/ RootAttach \/ Teardown \/ TeardownFault
  \/ ScanPortWait \/ ClrFeature \/ StartEnumPort \/ EndEnumPort

Interrupt == SOFProcess \/ UrbAnswer \/ Disconnect \/ Halt

Next ==
  \/ RootStep \/ Interrupt
  \/ \E p \in Ports : LoopStep(p) \/ ChildProcess(p) \/ Plug(p) \/ Unplug(p)

Spec == Init /\ [][Next]_vars

\* The thread runs, frames start, the hub answers; and between two polls the
\* thread finds the time to look at the answer.
Fairness ==
  /\ WF_vars(RootStep) /\ WF_vars(SOFProcess) /\ WF_vars(UrbAnswer)
  /\ SF_vars(ScanPortWait)
  /\ \A p \in Ports : WF_vars(LoopStep(p)) /\ WF_vars(ChildProcess(p))

FairSpec == Spec /\ Fairness

-----------------------------------------------------------------------------
(* Properties *)

\* No pipe belongs to two handles, and every pipe in use is marked as allocated,
\* whatever is plugged, unplugged, slow or refused: two handles on one pipe would
\* send each other's transfers.
PipesExclusive ==
  /\ \A h \in Handles : Used(h) \subseteq pipes /\ handle[h].ctl \intersect handle[h].bulk = {}
  /\ \A g, h \in Handles : g # h => Used(g) \intersect Used(h) = {}

\* No address is given to two handles, and every address in use is marked.
AddressesExclusive ==
  /\ \A h \in Handles : handle[h].addr \in addrs \union {0}
  /\ \A g, h \in Handles : g # h /\ handle[g].addr = handle[h].addr => handle[g].addr = 0

\* What keeps the pipes apart when a child is removed: a child without a class has
\* no class pipes, and the MSC class's pData is about the child that it is used for.
ClassPipes ==
  \A p \in Ports :
    /\ p \notin WithClass => handle[p].bulk = {}
    /\ p \in WithClass \intersect Msc => msc = handle[p].bulk

HubInv == PipesExclusive /\ AddressesExclusive /\ ClassPipes

\* No two devices on the bus listen to one address.
BusAddressesDiffer ==
  /\ \A p, q \in Ports : p # q /\ port[p].addr = port[q].addr => port[p].addr = 0
  /\ \A p \in Ports : Up => port[p].addr # handle[Root].addr

\* At most one device listens to the default address: the hub's ports are reset
\* one at a time, the next one when the device of the last has its address.
OneAtDefaultAddress ==
  Cardinality({p \in Ports : port[p].enab /\ port[p].addr = 0}) <= 1

\* At rest every pipe and every address that is taken belongs to a handle.
NothingLeaks ==
  pc = "get" =>
    /\ pipes = UNION {Used(h) : h \in Handles}
    /\ addrs = {handle[h].addr : h \in Handles} \ {0}

\* The thread never calls through a null class or opens a pipe it did not get.
NeverFaults == pc # "fault"

\* A child is removed only when its port has lost the device that it stands for:
\* the port is empty, or the device that is there has not been addressed yet.
RemovedIsGone ==
  [][ \A p \in Ports :
        Up /\ handle[p].phase = "class" /\ handle'[p].phase = "none"
          => port[p].addr # handle[p].addr ]_vars

\* A device that stays plugged ends with a handle whose class runs and that knows
\* the address the device listens to.
Attended(p) == handle[p].phase = "class" /\ port[p].addr = handle[p].addr
PluggedIsAttended == \A p \in Ports : port[p].conn ~> (Attended(p) \/ ~port[p].conn)

\* The handle of a device that is gone goes too, unless a new device comes.
UnpluggedIsRemoved ==
  \A p \in Ports : ~port[p].conn ~> (handle[p].phase = "none" \/ port[p].conn)
=============================================================================
