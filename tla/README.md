# TLA+ models of the stm32f767_usb host

The program is a USB host for an STM32F767 board under FreeRTOS: ST's host
library, extended by its author with a hub class, children behind the hub, a pool
of device addresses, and classes for CH340 serial converters and Android
accessories (AOA). This directory models the part of it where several actors
change one state: the USB thread, the controller's interrupts, the application's
threads, the devices and the person who plugs them.

    PacketStream    <== implemented by ==  HostChannel   the packets of one bulk pipe
    ControlService  <== implemented by ==  UsbControl    one control transfer
                                           UsbHost       the root port, its interrupts
                                           UsbHub        a hub and the devices behind it
                                           Msc           a mass storage: units, commands
                                           Ch340App      a serial adapter, its application

Paths below are short: `core` is `Core/Src/usbh_core.c`, `ctlreq` is
`Core/Src/usbh_ctlreq.c`, `conf` is `Core/Src/usbh_conf.c`, `hub`, `aoa`, `msc`,
`ch340` are `Class/*/Src/usbh_*.c` (`bot` is `usbh_msc_bot.c`), all under
`src/Middle/STM32_USB_Host_Library/`; `hcd` is
`src/Driver/Src/stm32f7xx_hal_hcd.c`, `ll_usb` is `stm32f7xx_ll_usb.c` beside it,
`main` and `app_ch340` are in `src/User/`.

## 1. Inventory

**Root port and enumeration** (`core`). State: `gState`, `device.is_connected`,
`EnumState`, `pActiveClass`, and the queue `os_event` on which the USB thread
sleeps. `USBH_Process_OS` takes one message and calls `USBH_Process` once; each
call runs one case of `gState` and posts a message when there is more to do. The
interrupt calls `USBH_LL_Connect` and `USBH_LL_Disconnect`, which write the same
fields. What is hard: an interrupt in the middle of a case, messages that a full
queue drops, the interrupt mask that both sides write, a user who does not wait.
Correct means: no wake-up is lost, one class instance at a time, a device that
leaves is cleaned up, one that stays is served.

**Control transfers** (`ctlreq`). State: `Control.state`, `RequestState`,
`errorcount`, and `urb_state` of two host channels, written by the interrupt. A
transfer has a setup, perhaps a data, and a status stage; each call of
`USBH_HandleControl` submits a URB or looks at its answer. Each handle has its own
machine: the root's, and that of each child behind the hub, for which some of the glue
does nothing (`USBH_LL_Stop`, `conf:257`). What is hard: answers of an earlier transfer,
retries, channels that an error leaves running, a device that leaves between two calls.
Correct means: success is reported only for a request that the device executed, and a
request ends.

**Host channels** (`hcd`, `ll_usb`, `usbh_ioreq.c`, `conf`). State per channel: `state`,
`urb_state`, `ErrCnt`, the toggles, and the registers HCINT, HCINTMSK, HCCHAR.
`HAL_HCD_HC_SubmitRequest` starts a transfer from a thread or from the start-of-frame
interrupt; the channel's interrupt handlers answer each bit of HCINT, halt the channel
and judge at the halt what became of the transfer. What is hard: lost packets and lost
handshakes, a poll that starts over a channel that still halts, one error counter
raised in several places. Correct means: what was sent arrives in order and once, is
reported when it arrived, and a failure is final only after several strikes.

**HUB class** (`hub`). State: `ctl_state`, `port_state`, `children[]`,
`hub_intr_buf`. The start-of-frame interrupt polls the hub's interrupt endpoint; the
background process reads the ports that changed, clears the changes, resets a port
that has a new device, allocates a handle and two pipes and runs the child's own
`USBH_Process` in a loop until its class runs. What is hard: ports that change while
they are looked at, requests that fail, one default address, pipes and addresses
shared by all handles. Correct means: no pipe and no address in two hands, nothing
leaks, each device gets a class and each that left is removed.

**Pipes and addresses** (`usbh_pipes.c`, `core:83-111`). 15 pipes, 8 addresses.

**MSC class** (`usbh_msc*.c`). State: the units with their state and error, the
transport's `state` and `cmd_state`, the toggles of two bulk pipes; the device has its
own idea of all of it. What is hard: each stage may be refused, stalled or fail; a
command that takes too long is given up in the middle. Correct means: a command is
reported as completed only when the device has done it, and ends in any case.

**CH340 class and application** (`ch340`, `app_ch340`). State: the class's `state`,
written by two threads; the application's queue of one message; the log ring, filled
by a callback of the USB thread and emptied by a thread of its own. What is hard: the
ring's two ends and their wrap, messages that are dropped, a de-initialisation that
waits for the thread that it tells to end. Correct means: bytes stay in order, and the
application ends. At this commit no application is ever made: `get_activeclass_app`
(`main:64`) always returns -1, and a CH340 gets the AOA class. What can go wrong in it is
therefore in the tables of this file and not among the hazards of `PROJECT.json`.
`sdram_alloc.c` gives it one buffer.

**AOA class** (`aoa`): a handshake that turns a phone into an accessory.
`main:160` registers MSC, CH340, HUB and AOA in this order.

**The rest**: `main.c` also starts a DHCP thread over LwIP. `file_operations.c` calls
FatFs, whose driver `usbh_diskio_dma.c` calls `USBH_MSC_Read` and `USBH_MSC_Write`;
`cdc_*.c` are not in the Keil project.

**Third party**: FreeRTOS and CMSIS-RTOS, HAL, LwIP, FatFs, the AUDIO, CDC, HID and
MTP classes that `main.c` does not register.

`PROJECT.json` lists every component with what is modelled of it, and under
`hazards` each place of this code that a test would hardly reach.

## 2. The models

### HostChannel and PacketStream

One channel, whose endpoint is bulk IN, bulk OUT or interrupt IN (`kind`). `hc` joins
`hhcd->hc[i]` and the channel's registers: HCINT (`int`), the mask of CHH, the enabled
channel (`on`), CHDIS (`halting`), the toggle of the packet (`pid`). `InIRQ` and
`OutIRQ` are the two handlers, as functions from a channel to a channel; the IN handler
is two chains of tests, one after the other. `caller` is the class in the three writes
of `HAL_HCD_HC_SubmitRequest` that an interrupt may come between; `Poll` is the hub
class's, from the start-of-frame interrupt. `dev` is the endpoint with its toggle. A
fault is a lost packet, a lost handshake, a stall, a frame overrun. `got`, `done` and
`strikes` are histories.

The controller is OTG_FS without DMA: NAKs come, and ACK is masked. A URB is one
packet; a longer one adds packets that `hcd` counts in the same place. Left out: high
speed (PING, NYET), isochronous channels, AHB errors, babble, the halt while the
request queue is full (`USB_HC_Halt` with HNPTXSTS = 0), the HAL lock. What a class does
with URB_STALL is in Msc and UsbHub.

`PacketStream` is what a class may rely on: packets arrive in order, each once, and one
URB is reported as done per packet that arrived. `HostChannel!StreamKept` says that the
channel implements it, with the same variables `got` and `done`.

### UsbControl

One control transfer at a time, from `USBH_CtlReq` down. `ctl` is `phost->Control`
with `RequestState`; `urb` and `chan` are the two channels; `queue` counts the
messages of `os_event`, whose values nobody reads; `pc` is where the thread is:
asleep (`get`), at the `switch` of `USBH_Process`, at the head of `USBH_CtlReq`
(`check`), in `USBH_HandleControl` (`control`). One action per case of the switch and
answer. Between any two steps a channel interrupt or the disconnect interrupt may
come. `link` joins what `USBH_LL_Disconnect` changes at once: connected, the two
allocated bits, `gState`. `dev` is a history variable, the stages of the request that
the device has executed; the device acts on the token it sees, not on what the host
means by it. `gaveup` is another: a request was given up since the channels were last
stopped.

`is_child` chooses the handle. For a child `USBH_LL_Stop` does nothing (`Stopped`), its
pipes are allocated without a message, it leaves without an interrupt of its own
(`Vanish`, after which `link` is "gone") until the hub frees it (`Remove`), and the
root's recovery, `HAL_HCD_Stop`, halts its channels (`RootStops`). `Poll` is a caller that
does not sleep: the hub with the `USBH_Process` of a new child, and the loops of the hub's
and of AOA's own requests; it is allowed and never relied on.

A channel sends a token: SETUP, DATA, or EMPTY, the packet of a status stage. In slave
mode the re-activation after an error sets CHENA and writes nothing into the FIFO, which
only the submission fills (`ll_usb:1636`): an IN token and the EMPTY packet go out again,
a SETUP or DATA packet does not (`Reactivated`), until the thread submits it again. For a
SETUP packet it never does.

Not in the model: handshakes that are lost (HostChannel has them); which failure reaches
the limit of `ErrCnt`, so that NOTREADY or ERROR is a choice; a caller that stops asking in
the middle of a request, and the handle that the hub drops (`hub:742`), which are UsbHub's.

The values of requests, lengths and data are left out, and so is everything the
callers do with a result: `CtlReqSend` starts any request. `USBH_HandleControl`
reads nothing else.

`ControlService` is what a caller of `USBH_CtlReq` may rely on, without pipes, URBs
and messages: `Start`, `Serve` (the device), `Succeed`, `GiveUp`, `Reject`.
`UsbControl!ServiceKept` says that the transfer implements it, with `pending` =
`RequestState = CMD_WAIT`, `served` = all needed stages are in `dev`, `ok` = the last
call returned `USBH_OK`.

### UsbHost

`gState` of the root handle against the port. `port` holds the plug and the bits
PCDET, PENA, PENCHNG of HPRT and DISCINT of GINTSTS; `mask` the two bits of GINTMSK.
`MaskLoad` and `MaskStore` are the two halves of `GINTMSK &= ~HPRTINT`
(`core:454`); `Switch` reads `gState` into `state`, and the cases are guarded by
`state`, so that an interrupt may change `gState` under a running case. Cases that
wait (100 or 200 ms) or make several calls are several steps. An interrupt that the
mask lets through preempts the thread at once (`Goes`), as on the single core.

A control request is a choice here: busy, done or failed. It can be done only while
the device works (`Works`); `UsbControl` has the steps. `Devices` says what is
plugged: a device of a registered class, a phone that knows AOA's requests, or
another device of no other class. `CheckClass` follows `HOST_CHECK_CLASS`: the search
takes the last match, CH340 and AOA share the code 0xFF and AOA is registered last,
and a device without a match is tried with AOA as well. So every device that is no
mass storage and no hub enters `USBH_AOA_InterfaceInit`, which repeats each request
until it succeeds: `pc` = `aoa` for a phone, `stuck` for a device that stalls.

### UsbHub

`handle` has the root handle and one slot per port, which stands for
`children[port - 1]` and, while the child is enumerated, for the local `tmp`. A
handle has its phase, its pipes (`ctl`, `bulk`) and its address; `pipes`, `addrs` and
`msc` are the shared pools and the MSC class's one `pData`; `port` is the hub's own
view of its ports; `data` is the status that was read last, in `device.Data`. The
loop over the ports is a program counter `pc` and the set `todo` of ports left, in
order. A port may change between any two steps: status read, changes cleared, reset,
handle made, each step of the enumeration, the child stored.

What is abstracted:
- the root hub's own enumeration is one step (`RootAttach`): UsbHost has it;
- the messages that wake the thread: here it always runs (UsbHost, UsbControl);
- a request to the hub or to a child succeeds, or fails when its target is gone or
  the run says so; a child is silent only when it is not there, not enabled, or slow;
- which class a device gets is fixed per port by constants; whether a phone is asked
  or already in accessory mode is a choice at each enumeration;
- a hub with at most four ports, powered, no hub behind it, which never reports a
  change of its own (bit 0); memory never runs out;
- polls while the thread is in the loop over the ports: nothing reads what they leave;
- `pc = "fault"` is the end of what can be modelled: a call through a null class, or
  a pipe number 0xFF that indexes beyond the channels.

`AoaTakesAll` is TRUE for the registration order of `main.c`. With FALSE the CH340
class serves the CH340s, as in a build that does not register AOA: the hub is then
checked with the devices the program is named for.

### Msc

`msc` is `MSC_Handle->state` and `current_lun`, `unit` the units, `bot` the transport
with the CBW and what is left of its data, `pipe` the two bulk channels. One action per
case of `USBH_MSC_BOT_Process` that acts, which takes the unit and yields a result; the
SCSI request around it, and the unit's state machine or `USBH_MSC_RdWrProcess` around
that, are conjuncts of the same step, as they are one call in the code. `dev` is the
device: where it is in the command, which endpoints are halted, its toggles. A command
fails at the device, an endpoint halts, an answer takes so long that the application's
command times out (`TimedOut`), which tells neither the unit nor the transport.

A packet ends as HostChannel shows: delivered, or dropped by the receiver that waits
for the other toggle. `parted` is a history: a halt was cleared and the two toggles of
the pipe differ since. The content of sense data and capacities is a choice. The reset
of the transport is never reached: nothing returns `USBH_UNRECOVERED_ERROR`.

### Ch340App

One life of an adapter, from the class request to the removal. `cdc` is `CDC_Handle`,
whose `state` the USB thread and the application's thread write; `pipe` the bulk IN
channel; `app` the application's thread, its queue of one place and `g_stop_flag`;
`ring` the log ring with its bytes, `log` the thread that empties it. The bytes the
adapter sends are numbered, so that the ring's order is visible. `Width` is the 2^32 of
`p_read` and `p_write`, and is reached. A thread waits one tick where it posts with
timeout 0: a message is dropped only when the place is still taken then. This is real
for DISCONNECT, since the application posts READY_CHECK to itself in a loop.
`data_rx_state`, `urb_state` and the size of the last transfer start with any value, as
nobody sets them; `torn` is a history, that the class has acted on them between the two
writes of `USBH_CDC_Receive`.

Left out: sending, but for its write of the common state; an application that finds no
memory; `LOG_Task` after the deletion, when it reads freed memory.

## 3. The runs

All runs use `tlc -config X.cfg M`; each ends within about a minute. Deadlock is
checked nowhere: each run has a budget of faults, plugs or bytes at whose end the
system legitimately stops, and the liveness properties say where it must not stop
before.

| run | what it shows |
|---|---|
| channel | packets arrive in order, once, and are reported when they arrived: PacketStream is implemented; an error is final only after three strikes; all is transferred, reports keep coming |
| control_faults | the root and a child, with NAK, STALL, errors, disconnects, halts by the root's recovery: `USBH_OK` means served; ControlService is implemented; no wake-up is lost; a SETUP packet starts on a quiet bus, except after a request that was given up and for a child that counts errors; each request ends, but for five named cases (Findings) |
| host_unplug | with unplugging at any moment: one class instance, no lost wake-up, `HOST_DEV_DISCONNECTED` never overwritten, what left is de-initialised; in behaviours that are `Calm` from the start on, what stays is served, on an enabled port |
| hub_calm | three ports, users who wait: one device at address 0, no leak, no fault, each device attended, each that left removed |
| hub_any | the hub itself goes, requests time out, the endpoint halts, a class refuses, too few pipes: the inductive invariant of the proofs |
| hub_early | devices exchanged under the reading, clearing, resetting, enumerating: pipes exclusive, addresses on the bus differ, only what is gone is removed |
| msc | a command is completed only when the device has done it; the class becomes active; each command ends |
| ch340_app | the application ends when it is told to, unless its message was dropped; unless the class acts on the `data_rx_state` of malloc's memory, the ring keeps its order, and all is logged if it never was full |

Four more runs, `control_retry`, `host_vendor`, `hub_msc` and `msc_result`, show a
violation each (see Findings).

### Bounds

*UsbControl.* `MaxErrorCount` is the code's 2. `QueueLength` (10 in the code) is 2 in
the runs, the smallest with "empty", "some" and "full"; the proofs hold for any
length. `MaxFaults` 5 allows three retries, one more than `MaxErrorCount`, and two
other faults. One run has both handles: `is_child` is free at the start.

*UsbHost.* `MaxPlugs` 4: a device, one that replaces it while the thread is busy with
the first, and two that find what these left. `MaxFails` 3: a failed enumeration, one
after the recovery, one more.

*UsbHub.* Three ports where their order matters, else two, one per kind of device;
enough pipes for all (2 per child, 2 per class, 3 of the hub) in `hub_calm`, and too few
in `hub_any` and `hub_early`, so that the ends of the pools are reached. Faults and plugs
are unbounded.

*HostChannel.* `MaxPackets` 3: both toggles, and the first again. `MaxFaults` 7 passes the error
limit of an OUT pipe (five) and leaves two; an IN pipe counts an error twice and
passes it with three. `MaxPollFaults` 3 for the interrupt pipe, whose state does not
grow with them.

*Msc.* `MaxLun` 2 is the code's `MAX_SUPPORTED_LUN`. `Packets` 2: a first and a last.
`MaxCommands` 3 and `MaxFaults` 3: a command given up, one that meets what it left, one
more; two halts of one pipe, so that its toggle is 1 and 0 when it is cleared.

*Ch340App.* A ring of 4 bytes with packets of 1 to 3, positions that wrap at 8 and 10
bytes: the ring wraps twice and the positions once. `Requests` is the code's 7. The memory
that nobody initialises takes every value: `data_rx_state` (`ch340:417` does not set it),
`urb_state` and the size of the channel's last transfer (`hcd:193`).

### Fairness

`WF(Thread)`, `WF(Process)`, `WF(App)`: the RTOS schedules a thread that has work.
`WF(IRQ)`, `WF(UrbDone)`: pending interrupts are taken, and a present device answers a
token that the hardware repeats. `SF` of a request's completion in UsbHost, of the
device's data in HostChannel and of its acceptance in Msc: a device that works does not
answer busy for ever. `SF(ScanPortWait)` in UsbHub: the start-of-frame interrupt resets
the answer of the poll each time it polls again, and the thread reads it in between at
some time, since the interval of the poll is longer than one turn of the thread.
`WF(Poll)` in HostChannel for the same interrupt. No fairness is assumed of the user,
of faults or of timeouts.

`Haste` says when users act. Empty: only when the system is at rest. Liveness is
checked for such users, and for those who unplug the root device at any moment; for
hastier ones safety is checked, and the next section lists where liveness fails.

### Findings

Four runs have `"expect": "violation"` and a line of the repository quoted in
`PROJECT.json`:

- `control_retry`: after an error the SETUP packet is not sent again; nobody posts a
  message (`ctlreq:847`).
- `host_vendor`: a CH340 gets AOA and the thread never returns (`core:585`,
  `aoa:262`).
- `hub_msc`: one `pData` for all mass storages, and the removal of one frees the pipes
  of another (`msc:171`).
- `msc_result`: a read or a write that the device failed returns `USBH_OK`
  (`msc:742`).

The models show more when a passing run's cfg, or a property's premise or exception, is
changed as said here:

| module, change | violated | because |
|---|---|---|
| UsbControl, SetupOnQuietBus without `is_child /\ ...` | SetupOnQuietBus | `USBH_LL_Stop` does nothing for a child (`conf:259`): each retry behind a hub (`ctlreq:850`) runs beside the IN channel that the error has re-activated |
| UsbControl, SetupOnQuietBus without `gaveup` | SetupOnQuietBus | a request that is given up (`ctlreq:856`) stops nothing: the next one runs beside its channel |
| UsbControl, RequestEnds without `Unheard` | RequestEnds | one lost SETUP packet: NOTREADY has no case in `CTRL_SETUP_WAIT` (`ctlreq:608`), and the packet is never sent again; the STALL of the status stage of a read has none either (`ctlreq:803`) |
| UsbControl, RequestEnds without `HaltedByRoot` | RequestEnds | the recovery of the root's requests halts the channels of the children (`conf:262`), who wait for them |
| UsbControl, RequestEnds without `Overtaken` | RequestEnds | a channel that was left running, or the status packet that both the re-activation and the thread repeat, takes the answer that the thread then waits for |
| UsbControl, RequestEnds without `link = "gone"` | RequestEnds | a child that left is asked until its hub looks at the port |
| UsbHost, `Haste = {"replug"}` | PluggedIsServed | a connection in `HOST_DEV_DISCONNECTED` is lost (`core:1065`) |
| UsbHost, EnumeratesEnabled without its premise `Calm` | EnumeratesEnabled | any connection counts as the one after the reset (`core:1076`) |
| UsbHost, `Haste = {"unplug", "plug"}` | UnplugIsHandled, DisconnectStands | the read-modify-write of GINTMSK loses the interrupt's change (`core:454`) |
| UsbHost, `VbusSwitched = TRUE` | PluggedIsServed | the VBUS cycle of `USBH_ReEnumerate` with DISCINT masked (`core:430`) |
| UsbHub, `Aoa = {1}`, `AoaTakesAll = TRUE` | NothingLeaks | AOA frees neither pipes nor address (`aoa:350`) |
| UsbHub, `Refused = {1}` | NothingLeaks, NeverFaults | the address of a child without a class is freed by nobody (`hub:784`), then enumerations fail and lose two pipes each (`hub:742`) |
| UsbHub, `Haste = {"early"}` | PluggedIsAttended | a change between the reading and the clearing of a port is cleared unseen (`hub:622`); a device exchanged between two polls keeps its predecessor's child (`hub:758`) |
| UsbHub, `Haste = {"stall"}` | RemovedIsGone, with three ports BusAddressesDiffer | the case that clears the halt has no break: a ClearFeature completes in the place of GetPortStatus and the status read last is acted upon (`hub:595`) |
| Msc, BecomesActive or CommandEnds without `[]~parted` | both | a cleared halt resets the device's toggle and not the host's: the next packet is dropped as a repetition (`bot:427`) |
| Msc, CompletedMeansServed without `Clean` | CompletedMeansServed | a command that was given up on one unit leaves the transport in its middle, and the next one on the other unit goes on from there (`msc:735`) |
| Ch340App, StopEnds without its premise | StopEnds | DISCONNECT is dropped when the queue's place is taken, and the USB thread waits for ever (`ch340:507`) |
| Ch340App, AllLogged without `~Full` | AllLogged | a full ring ends the reception for good (`app_ch340:70`) |
| Ch340App, AllLogged without `~Early` | AllLogged | the application asks for the attachment before HOST_CLASS, is told USBH_OK, and waits (`app_ch340:240`) |
| Ch340App, RingInOrder or AllLogged without `~torn` | both | `USBH_CDC_Receive` writes `state` before `data_rx_state` (`ch340:981`), which malloc's memory may have as RECEIVE or WAIT (`ch340:417`): the class starts a reception, whose packet the next one overwrites, or takes the last transfer of the channel's user before for a packet of zeros |

A stalled data or status stage changes no state (`ctlreq:683`), although the comment
says "return to previous machine state". In Ch340App, `attach_state` shows the end of
the attachment before `state` is written (`ch340:308`), so that a line coding set in
between is overwritten, and a line coding that fails goes to the same idle state as one
that succeeded: the application goes on in both cases.

### Mutants

Every property of a passing run has a mutant in the module (marked `Mutant:`): a
definition with a bug that this code could have had (a dropped message, pipes not
marked, the toggle that stays, a status that is not looked at), under which the run's
own cfg finds the property violated.

## 4. The proofs

Seven modules hold proofs checked by TLAPS, for every value of the constants that their
`ASSUME`s allow: any queue length, any number of packets, faults, commands, bytes, ports,
pipes and addresses. Each proof of an invariant has one step per action; the invariants
were checked by TLC first. Every safety invariant and every action property of a passing
run is a theorem. Some theorems have a hypothesis on the constants, that is on the users
and devices; each is met by the run that checks the property, and where a weaker one would
not do TLC shows the violation (table of Findings):

| hypothesis | says | of |
|---|---|---|
| `OneMsc` | at most one mass storage on the hub | UsbHub: what needs pipes or addresses kept apart; `hub_msc` |
| `NoStall` | no interrupt endpoint halts | UsbHub: `BusAddressesDiffer`, `RemovedIsGone`; `Haste = {"stall"}` |
| `Calm` (UsbHub) | users wait, requests are answered, no AOA device, no refused one, `NumPipes >= 4 * NumPorts + 3`, one address more than ports | `OneAtDefaultAddress`, `NothingLeaks`, `NeverFaults`; `Aoa = {1}`, `Refused = {1}` |
| `PlugsAtRest` | a device comes only while the host is at rest; it may leave at any time | `DisconnectStands`; `Haste = {"unplug", "plug"}` |

**UsbControl_proofs.** `NoLostWakeup` alone is not inductive: the thread in
`USBH_HandleControl` may lose its link and submit nothing (`WakeupKept`). `OkMeansServed`
needs what the device has executed at every point of the machine: the stages that it has
passed are in `dev` (`StagesServed`), and the stage it is in belongs to the request
(`StageFits`). A stage counts as passed when its URB is DONE, so a URB of an older request
must never end in the place of a new one: `ChannelsStopped` says which channels are at
rest in which state, and `LeftRunning` which one may run beside a new request: an IN
channel that an error has re-activated, after a request that was given up or for a child.
It never runs with the token of a SETUP packet, and the OUT channel runs with none but its
own request's, so the stage of the new request is not taken for executed. The invariant
holds of the root and of a child alike, also where no error is ever retried
(`MaxErrorCount` = 0). `ControlInv` joins the five; from it `NoWakeupLost`, `OkIsServed` and
`RetriesOnQuietBus`, and `TransferImplementsService`, the refinement: the lemma before it
maps each action to a step of `ControlService` or to a stutter. The lemma `PostedBounds`
is about the bounded counter: a post leaves at least one message however full the queue
was, which is why dropping is harmless.

**UsbHost_proofs.** `HostInvariant`: `TypeOK /\ HostInv` is inductive. `OneInstance`
needs to know in which states the class lives, also while the switch acts on an older
`gState` (`ClassPlaced`); `PipesFreeWhenIdle` where the thread allocates
(`PipesPlaced`); the wake-up that an enabled port has a device
(`EnabledIsPresent`), that a disconnection is not overtaken (`DisconnectPlaced`) and
that an interrupt under the switch leaves a message (`WakeupKept`). From it:
`ClassInitialisedOnce`, `PipesFree`, `NoWakeupLost`.

`DisconnectNotOverwritten` needs more, since the thread writes `gState` at the end of
cases that it entered before the interrupt. `MaskInv` says why that is safe: while the
thread is in a case that will write (`Writing`), DISCINT is masked (`DiscMasked`); the
thread's saved copy of GINTMSK is never weaker than the register (`PortMasked`); and the
interrupt that unmasks DISCINT comes with the DISCINT of the device that left
(`DisabledIsGone`). This last holds only if no device arrives in between, hence
`PlugsAtRest`. `OnlyEnabledEnumerated` adds `CalmInv`: which states the host can be in
while a device is there or not (`HostAttends`), that the switch's choice still stands
(`ChosenStands`), and that a pending DISCINT belongs to the device of now (`DiscIsFresh`).
Both hold with and without the switched VBUS.

**UsbHub_proofs.** `HubInvariant`: `PipesExclusive`, `AddressesExclusive` and
`ClassPipes` together are inductive, since a removal frees what the handle and the
class data name: they must name the handle's own. The lemma `OneChanges` is the frame
argument used by each step: a step through one handle that takes what is free and
gives back what is its own keeps the pools apart; `FreesOwn` says that a removal does.
`PipesNeverShared` and `AddressesNeverShared` follow.

`BusInvariant` is about the addresses that the devices listen to: a device on a port has
the address of its handle (`HandleAddresses`), or none, and the status that the thread
has read (`Seen`) is not of a device before (`DeviceAddresses`); `NoClearFeature` keeps
out the one state in which a status is acted upon that was read long ago. With
`AddressesExclusive` it gives `BusAddressesNeverEqual`; alone, `RemovedOnlyWhenGone`.
Both hold for users as hasty as they like.

**UsbHubCalm_proofs.** `CalmInvariant`, beside the two invariants above. `Flow` follows
the loop over the ports: the thread's view of each port is still true of it
(`StatusRead`, `Matched`), and only the port that the loop is at can have a device at
address 0 (`DefaultAddress`). `Pools` counts: a child has two pipes and its class two
(`TwoAndTwo`), all that is taken belongs to a handle (`Owned`), so that 3 pipes, and 4
more for each port that is served, are taken (`Counted`). The count is by the theorems on
finite sets of the library: as long as the port at hand is not counted, two pipes are
left (`Enough`). The bound is exact: 15 pipes, the code's `USBH_MAX_PIPES_NBR`, are
enough for three ports; a hub with four would need 19. From it `NeverOutOfPipes`,
`NoLeak`, `OneListens`.

**HostChannel_proofs.** `ChannelKept`: a transfer is in exactly one place, the wire, a
pending bit of HCINT, or the caller (`OnePlace`, `CallerPlaced`), and the toggles of the
two ends tell whether the packet under way has arrived (`InAgrees`, `OutAgrees`). From
this `ChannelImplementsStream`: a step that adds to what arrived adds the next packet, and
only then, and a report follows an arrival.

`ErrorOnlyAfterStrikes`: `ErrCnt` is not the number of failures, because an IN channel
counts a transaction error when it shows and again when the halt is served.
`StrikesCounted` says that a failure is counted twice at most, and what is still to be
counted of the one under way: `err + 2` and `err + 1` are within twice the strikes while a
bit or the halt is pending. ERROR needs an `ErrCnt` above 3 there, hence three strikes.
The lemmas `InServed` and `OutServed`, what one call of a handler does to the record of
the channel, serve both proofs.

**Msc_proofs.** `MscInvariant`. `Agree` puts the transport's state beside the device's
place in the command: for every state, what is on the pipes, how many packets have moved,
which endpoints are halted, whether a failed verdict waits in the CSW. It survives one
call of the transport (`BotAgrees`), a SCSI request around it (`ScsiAgrees`) and the
device (`DeviceAgrees`). `InitLinked` and `AppLinked` tie the command to the unit and to
the application, as long as the toggles fit. An application that gave up a command on one
unit and uses another breaks them: `Clean` says that it has not, and a new command makes it
false if it has, so no step needs to bring it back. What holds in any case (`Bounded`,
`Engaged`) carries the types.

Once a cleared halt has parted the toggles of a pipe, `Agree` is lost for good and
`Strayed` takes its place: it names every state from there on. The call that parts them
(`PartingCall`) leaves the IN pipe ahead, so that the CSW is dropped as a repetition
(`CswDropped`), or the OUT pipe, after a halt that made the command fail: its CSW says so
(`FailureDue`), and the CBW of the REQUEST SENSE that follows is dropped in its turn
(`SenseDropped`), after which the host waits for data of a command that the device never
saw. Each leads only to itself or to the next (`CswDroppedCall`, `FailureDueCall`,
`SenseDroppedCall`, `StrayedDevice`), and none to a completed command. While units come up
only the first can happen, for nothing but CBWs is sent then (`NoDataOut`). Hence
`CompletedIsServed` needs no premise on the toggles. It is a safety result with a price:
on a medium where no other unit was given up, no command is completed any more, and only the
application's time-out ends one.

**Ch340App_proofs.** `p_read` and `p_write` run through 2^32 and index the ring by their
remainder, so the proof begins with lemmas about remainders: two numbers that differ by
less than the size have different places, also across the wrap of the positions
(`Between`), since `Width` is a multiple of `Size`. `RingBounded`: the callback checks for
room, and `log_task` counts only what it saw; no hypothesis on the memory is needed.
`RingKeepsOrder` needs in addition `OneMessage` (once the application has heard of its
start only DISCONNECT is in its queue, so that it asks for the first reception once),
`Asked` (before that the class can act on the data only between the two writes of
`USBH_CDC_Receive`, which the history `torn` records) and, unless `torn`, `Exact`: all that
the adapter sent is counted, in the ring, or in the one packet that the class has, and no
transfer is under way while there is one. The theorem has no hypothesis: what malloc and
the channel's last user left is any value. The assumption on the sizes of a
packet, at most `Width - Size`, keeps the test for room from wrapping; in the code a
transfer of whichever user of the channel is below 2^16, and the bound is 2^32 - 2^20.

What stays with TLC: liveness under fairness, which is out of the prover's reach
(`PluggedIsServed`, `UnplugIsHandled`, `RequestEnds`, `PluggedIsAttended`,
`UnpluggedIsRemoved`, `AllTransferred`, `ReportsRead`, `BecomesActive`, `CommandEnds`,
`StopEnds`, `AllLogged`).

## 5. Not modelled

- *Third party and generated code*: HAL but for the host channels, CMSIS, FreeRTOS, LwIP,
  FatFs with its code pages, the USB classes that the program does not register. It is
  almost all of the repository's lines; the models cover the program's own logic, the
  host library and the part of the HAL that it runs on. FreeRTOS queues and the HPRT and
  HCINT registers appear as their callers see them.
- *Register set-up, the drivers of `src/Hardware` (IIC, PCF8574, SDRAM), printing*: no state
  that a property could be about.
- *High speed, isochronous and split transfers, DMA*: the board runs OTG_FS without DMA.
- *The HAL's lock* (`hcd:193`) and *11 channels for 15 pipes* (`hcd:517`): both are
  hazards in `PROJECT.json`; the models have channels that are always free to use.
- *UsbHost and UsbHub in one model*: a child runs `USBH_Process` inside that of its hub and
  unmasks HPRTINT at its end. Each model has the whole handler of its own side; their
  product is beyond what TLC explores in minutes.
- *The descriptor parser, CH340's baud rate divisor, `sdram_alloc.c`*: sequential
  arithmetic on bytes. A length of 0 in a descriptor is listed as a hazard.
- *DHCP*: a thread that polls LwIP.
- *CH340's sending*: it shares the receiver's `state` and is modelled by that write alone.
- *Undefined behaviour* without a state in the models (`address[-1]`, a null `Name`) is
  listed as a hazard.

The order in which to go on: an abstract specification of the hub's pools and of the
ring, and their refinement; the composition of UsbHost and UsbHub; the parser and the
divisor against a reference over bounded inputs; DHCP.
