---------------------------------- MODULE Msc ----------------------------------
(***************************************************************************)
(* A mass storage behind its bulk pipes: the units and their commands      *)
(* (usbh_msc.c), the SCSI requests (usbh_msc_scsi.c) and the bulk-only     *)
(* transport (usbh_msc_bot.c), against a device with its own view of the   *)
(* command, its endpoints' halts and its data toggles.                     *)
(*                                                                         *)
(* An URB of one packet ends as HostChannel shows: delivered once, in      *)
(* order, or dropped by a receiver that expects the other toggle.  The     *)
(* device is external: it does what the bulk-only transport asks of it.    *)
(***************************************************************************)
EXTENDS Naturals

CONSTANTS
  MaxLun,       \* MSC_Handle->max_lun: the units are 0 .. MaxLun - 1
  Packets,      \* how many packets a read or a write moves
  MaxCommands,  \* bound: how many commands the application gives
  MaxFaults,    \* bound: how many commands fail, or endpoints halt
  FaultKinds    \* which

\* "fail": a command fails.  "stall": an endpoint halts.  "slow": an answer takes
\* so long that the application's command times out, or the device is unplugged.
AllFaultKinds == {"fail", "stall", "slow"}

ASSUME MscAssumption ==
  /\ MaxLun \in 1..2  \* MAX_SUPPORTED_LUN
  /\ Packets \in Nat \ {0}
  /\ MaxCommands \in Nat /\ MaxFaults \in Nat /\ FaultKinds \subseteq AllFaultKinds

VARIABLES
  msc,     \* MSC_Handle->state and current_lun
  unit,    \* MSC_Handle->unit: state and error of each unit
  bot,     \* MSC_Handle->hbot: states, and the CBW
  pipe,    \* the channels of the two bulk pipes: urb_state and toggle
  dev,     \* the device: its command, halts and toggles
  app,     \* the application in USBH_MSC_Read or USBH_MSC_Write
  parted,  \* history: clearing a halt has left a pipe's toggles apart
  count    \* how many commands and faults there have been

vars == <<msc, unit, bot, pipe, dev, app, parted, count>>

Luns == 0 .. MaxLun - 1
Toggles == {0, 1}
InitOps == {"INQUIRY", "READY", "CAPACITY", "SENSE"}
Commands == {"READ", "WRITE"}
Ops == InitOps \union Commands
Verdicts == {"passed", "failed"}
Results == {"BUSY", "OK", "FAIL"}
UnitStates == Ops \union {"INIT", "IDLE", "UNRECOVERED"}
BotStates ==
  {"SEND_CBW", "SEND_CBW_WAIT", "DATA_IN", "DATA_IN_WAIT", "DATA_OUT",
   "DATA_OUT_WAIT", "RECEIVE_CSW", "RECEIVE_CSW_WAIT", "ERROR_IN", "ERROR_OUT"}

\* What a packet holds: the CBW, a CSW, or the n-th part of the data.
Loads == {<<"cbw", 0>>, <<"passed", 0>>, <<"failed", 0>>} \union {"data"} \X (1..Packets)

Channel ==
  [urb : {"IDLE", "DONE", "NOTREADY", "STALL"}, on : BOOLEAN, toggle : Toggles, load : Loads]

Transports ==
  [state : BotStates, cmd : {"SEND", "WAIT"}, op : Ops, lun : Luns,
   size : 0..Packets, left : 0..Packets, intact : BOOLEAN]

Disks ==
  [phase : {"cbw", "in", "out", "csw", "invalid"}, op : Ops, lun : Luns,
   size : 0..Packets, moved : 0..Packets, intact : BOOLEAN, verdict : Verdicts,
   halted : SUBSET {"in", "out"}, toggle : [{"in", "out"} -> Toggles]]

TypeOK ==
  /\ msc \in [state : {"INIT", "IDLE"} \union Commands, lun : 0..MaxLun]
  /\ unit \in [Luns -> [state : UnitStates, error : {"OK", "NOT_READY", "ERROR"}]]
  /\ bot \in Transports /\ dev \in Disks
  /\ pipe \in [{"in", "out"} -> Channel]
  /\ app \in [busy : BOOLEAN, op : Commands, lun : Luns,
              rdwr : Results, ret : {"none", "OK", "FAIL"}]
  /\ parted \in BOOLEAN
  /\ count \in [commands : 0..MaxCommands, faults : 0..MaxFaults]

\* USBH_MSC_InterfaceInit, USBH_MSC_BOT_Init, and the units of GetMaxLUN.
Init ==
  /\ msc = [state |-> "INIT", lun |-> 0]
  /\ unit = [l \in Luns |-> [state |-> "INIT", error |-> "OK"]]
  /\ bot = [state |-> "SEND_CBW", cmd |-> "SEND", op |-> "INQUIRY", lun |-> 0,
            size |-> 0, left |-> 0, intact |-> TRUE]
  /\ pipe = [p \in {"in", "out"} |->
               [urb |-> "IDLE", on |-> FALSE, toggle |-> 0, load |-> <<"cbw", 0>>]]
  /\ dev = [phase |-> "cbw", op |-> "INQUIRY", lun |-> 0, size |-> 0, moved |-> 0,
            intact |-> TRUE, verdict |-> "passed", halted |-> {},
            toggle |-> [p \in {"in", "out"} |-> 0]]
  /\ app = [busy |-> FALSE, op |-> "READ", lun |-> 0, rdwr |-> "BUSY", ret |-> "none"]
  /\ parted = FALSE
  /\ count = [commands |-> 0, faults |-> 0]

Flip(t) == 1 - t
DataIn(op) == op \notin {"READY", "WRITE"}
Size(op) == CASE op = "READY" -> 0 [] op \in Commands -> Packets [] OTHER -> 1

-----------------------------------------------------------------------------
(* The bulk-only transport: one call of USBH_MSC_BOT_Process and its result *)

\* USBH_BulkSendData and USBH_BulkReceiveData.
Sends(load) ==
  [pipe EXCEPT !["out"] = [@ EXCEPT !.urb = "IDLE", !.on = TRUE, !.load = load]]
Receives == [pipe EXCEPT !["in"] = [@ EXCEPT !.urb = "IDLE", !.on = TRUE]]

\* The case of the switch, the state it leaves, and that nothing is submitted.
Case(s, to) == bot.state = s /\ bot' = [bot EXCEPT !.state = to]
Answer(p, u) == pipe[p].urb = u
NoDevice == UNCHANGED <<pipe, dev, parted>>

SendCBW(l, r) ==
  /\ bot.state = "SEND_CBW" /\ r = "BUSY"
  /\ bot' = [bot EXCEPT !.state = "SEND_CBW_WAIT", !.lun = l]
  /\ pipe' = Sends(<<"cbw", 0>>)
  /\ UNCHANGED <<dev, parted>>

\* The stage after the CBW.
FirstStage ==
  IF bot.left = 0 THEN "RECEIVE_CSW" ELSE IF DataIn(bot.op) THEN "DATA_IN" ELSE "DATA_OUT"

\* Mutant: the CBW is not sent again.
SentCBWOnce(r) ==
  /\ r = "BUSY"
  /\ \/ Answer("out", "DONE") /\ Case("SEND_CBW_WAIT", FirstStage)
     \/ Answer("out", "STALL") /\ Case("SEND_CBW_WAIT", "ERROR_OUT")
  /\ NoDevice

SentCBW(r) ==
  /\ r = "BUSY"
  /\ \/ Answer("out", "DONE") /\ Case("SEND_CBW_WAIT", FirstStage)
     \/ Answer("out", "NOTREADY") /\ Case("SEND_CBW_WAIT", "SEND_CBW")
     \/ Answer("out", "STALL") /\ Case("SEND_CBW_WAIT", "ERROR_OUT")
  /\ NoDevice

\* The part of the data that is under way.
Part(left) == <<"data", bot.size - left + 1>>

Transfer(r) ==
  /\ r = "BUSY"
  /\ \/ Case("DATA_IN", "DATA_IN_WAIT") /\ pipe' = Receives
     \/ Case("DATA_OUT", "DATA_OUT_WAIT") /\ pipe' = Sends(Part(bot.left))
     \/ Case("RECEIVE_CSW", "RECEIVE_CSW_WAIT") /\ pipe' = Receives
  /\ UNCHANGED <<dev, parted>>

\* Mutant: one packet more than the command asks for.
MovedOneMore(p, intact) ==
  /\ Answer(p, "DONE")
  /\ bot' = [bot EXCEPT !.left = bot.left - 1, !.intact = @ /\ intact,
                        !.state = IF bot.left >= 1 THEN @ ELSE "RECEIVE_CSW"]
  /\ pipe' = IF bot.left = 0 THEN pipe
             ELSE IF p = "in" THEN Receives ELSE Sends(Part(bot.left - 1))
  /\ UNCHANGED <<dev, parted>>

\* A packet of data has come or gone: the next one, or the CSW.
Moved(p, intact) ==
  /\ Answer(p, "DONE")
  /\ bot' = [bot EXCEPT !.left = bot.left - 1, !.intact = @ /\ intact,
                        !.state = IF bot.left > 1 THEN @ ELSE "RECEIVE_CSW"]
  /\ pipe' = IF bot.left = 1 THEN pipe
             ELSE IF p = "in" THEN Receives ELSE Sends(Part(bot.left - 1))
  /\ UNCHANGED <<dev, parted>>

\* Mutant: the packet that was not taken is counted as sent.
SentDataNotReady(r) ==
  /\ r = "BUSY" /\ bot.state = "DATA_OUT_WAIT"
  /\ \/ Moved("out", TRUE)
     \/ /\ Answer("out", "NOTREADY")
        /\ bot' = [bot EXCEPT !.left = @ - 1,
                              !.state = IF bot.left > 1 THEN "DATA_OUT" ELSE "RECEIVE_CSW"]
        /\ NoDevice
     \/ Answer("out", "STALL") /\ Case("DATA_OUT_WAIT", "ERROR_OUT") /\ NoDevice

SentData(r) ==
  /\ r = "BUSY" /\ bot.state = "DATA_OUT_WAIT"
  /\ \/ Moved("out", TRUE)
     \/ Answer("out", "NOTREADY") /\ Case("DATA_OUT_WAIT", "DATA_OUT") /\ NoDevice
     \/ Answer("out", "STALL") /\ Case("DATA_OUT_WAIT", "ERROR_OUT") /\ NoDevice

ReceivedData(r) ==
  /\ r = "BUSY" /\ bot.state = "DATA_IN_WAIT"
  /\ \/ Moved("in", pipe["in"].load = Part(bot.left))
     \/ Answer("in", "STALL") /\ Case("DATA_IN_WAIT", "ERROR_IN") /\ NoDevice

\* Mutant: the status of the CSW is not looked at.
DecodeCSWAny == "OK"

\* USBH_MSC_DecodeCSW: a packet that is no CSW has another length.
DecodeCSW == IF pipe["in"].load = <<"passed", 0>> THEN "OK" ELSE "FAIL"

ReceivedCSW(r) ==
  /\ \/ /\ Answer("in", "DONE") /\ bot.state = "RECEIVE_CSW_WAIT" /\ r = DecodeCSW
        /\ bot' = [bot EXCEPT !.state = "SEND_CBW", !.cmd = "SEND"]
     \/ Answer("in", "STALL") /\ Case("RECEIVE_CSW_WAIT", "ERROR_IN") /\ r = "BUSY"
  /\ NoDevice

\* The device takes ClearFeature(ENDPOINT_HALT): its toggle starts again.
Cleared(p) ==
  [dev EXCEPT !.halted = IF dev.phase = "invalid" THEN @ ELSE @ \ {p}, !.toggle[p] = 0]

\* The host sets its toggles by hand, or not.
ToggledOut(ch) ==
  [ch EXCEPT !["out"].toggle = Flip(@), !["in"].toggle = 0]

\* USBH_MSC_BOT_Abort is called until the request succeeds; it may be refused by
\* a stall of the control pipe in between.
Abort(s, p, to) ==
  /\ Case(s, to)
  /\ dev' = Cleared(p)
  /\ pipe' = IF p = "out" THEN ToggledOut(pipe) ELSE pipe
  /\ parted' = (parted \/ pipe'[p].toggle # 0)

BotProcess(l, r) ==
  \/ SendCBW(l, r) \/ SentCBW(r) \/ Transfer(r)
  \/ SentData(r) \/ ReceivedData(r) \/ ReceivedCSW(r)
  \/ Abort("ERROR_IN", "in", "RECEIVE_CSW") /\ r = "BUSY"
  \/ Abort("ERROR_OUT", "out", "ERROR_IN") /\ r = "BUSY"

-----------------------------------------------------------------------------
(* The SCSI requests and the units *)

\* BOT_CMD_SEND: the CBW of the command.
Prepare(op, size, r) ==
  /\ bot.cmd = "SEND" /\ r = "BUSY"
  /\ bot' = [bot EXCEPT !.state = "SEND_CBW", !.cmd = "WAIT", !.op = op,
                        !.size = size, !.left = size, !.intact = TRUE]
  /\ NoDevice

\* USBH_MSC_SCSI_Inquiry, TestUnitReady, ReadCapacity, RequestSense, Read, Write.
Scsi(l, op, size, r) ==
  \/ Prepare(op, size, r)
  \/ bot.cmd = "WAIT" /\ BotProcess(l, r)

UnitIs(l, s, e) == unit' = [unit EXCEPT ![l] = [state |-> s, error |-> e]]
NextLun == msc' = [msc EXCEPT !.lun = @ + 1]

\* Mutant: the unit whose sense was read stays the current one.
SensedStays(l) == UnitIs(l, "IDLE", "NOT_READY") /\ UNCHANGED msc

\* The sense of a unit that does not come up: it is tried again when it only is not
\* ready and less than 10 s have gone, or left as it is.
Sensed(l) ==
  \/ UnitIs(l, "READY", "NOT_READY") /\ UNCHANGED msc
  \/ UnitIs(l, "IDLE", "NOT_READY") /\ NextLun

\* USBH_MSC_Process in MSC_INIT, after the result of the request of this state.
InitResult(l, op, r) ==
  CASE r = "BUSY" -> UnitIs(l, op, "NOT_READY") /\ UNCHANGED msc
    [] r = "OK" /\ op = "INQUIRY" -> UnitIs(l, "READY", "NOT_READY") /\ UNCHANGED msc
    [] r = "OK" /\ op = "READY" -> UnitIs(l, "CAPACITY", "OK") /\ UNCHANGED msc
    [] r = "OK" /\ op = "CAPACITY" -> UnitIs(l, "IDLE", "OK") /\ NextLun
    [] r = "OK" /\ op = "SENSE" -> Sensed(l)
    [] r = "FAIL" /\ op = "SENSE" -> UnitIs(l, "UNRECOVERED", "NOT_READY") /\ UNCHANGED msc
    [] OTHER -> UnitIs(l, "SENSE", "NOT_READY") /\ UNCHANGED msc

InitUnit ==
  /\ msc.state = "INIT" /\ msc.lun < MaxLun
  /\ LET s  == unit[msc.lun].state
         op == IF s = "INIT" THEN "INQUIRY" ELSE s IN
       /\ op \in InitOps
       /\ \E r \in Results : Scsi(msc.lun, op, Size(op), r) /\ InitResult(msc.lun, op, r)
  /\ UNCHANGED <<app, count>>

GiveUpUnit ==
  /\ msc.state = "INIT" /\ msc.lun < MaxLun /\ unit[msc.lun].state = "UNRECOVERED"
  /\ unit' = [unit EXCEPT ![msc.lun].error = "NOT_READY"]
  /\ NextLun
  /\ UNCHANGED <<bot, pipe, dev, parted, app, count>>

\* HOST_USER_CLASS_ACTIVE.
Active ==
  /\ msc.state = "INIT" /\ msc.lun >= MaxLun
  /\ msc' = [state |-> "IDLE", lun |-> 0]
  /\ UNCHANGED <<unit, bot, pipe, dev, parted, app, count>>

-----------------------------------------------------------------------------
(* USBH_MSC_Read and USBH_MSC_Write *)

\* The application uses a unit once the class is active, and one at a time.  The
\* result of the first call of the SCSI request is not looked at.
Start(op, l) ==
  /\ msc.state = "IDLE" /\ ~app.busy /\ count.commands < MaxCommands
  /\ unit[l].state = "IDLE"
  /\ msc' = [msc EXCEPT !.state = op]
  /\ unit' = [unit EXCEPT ![l].state = op]
  /\ \E r \in Results : Scsi(l, op, Packets, r)
  /\ app' = [busy |-> TRUE, op |-> op, lun |-> l, rdwr |-> "BUSY", ret |-> "none"]
  /\ count' = [count EXCEPT !.commands = @ + 1]

\* The end of USBH_MSC_Read and Write: USBH_OK, also when USBH_MSC_RdWrProcess
\* returned USBH_FAIL.
Return(r) ==
  /\ msc' = [msc EXCEPT !.state = "IDLE"]
  /\ app' = [app EXCEPT !.busy = FALSE, !.rdwr = r, !.ret = "OK"]

\* USBH_MSC_RdWrProcess: a failed command is followed by REQUEST SENSE, and a failed
\* REQUEST SENSE by another.
RdWrResult(op, r) ==
  LET l == app.lun IN
  CASE r = "BUSY" -> UNCHANGED <<unit, msc, app>>
    [] r = "OK" /\ op # "SENSE" -> unit' = [unit EXCEPT ![l].state = "IDLE"] /\ Return("OK")
    [] r = "OK" /\ op = "SENSE" -> UnitIs(l, "IDLE", "ERROR") /\ Return("FAIL")
    [] OTHER -> unit' = [unit EXCEPT ![l].state = "SENSE"] /\ UNCHANGED <<msc, app>>

\* Here a read or a write is prepared with neither a buffer nor a length.
RdWr ==
  /\ app.busy
  /\ LET op == unit[app.lun].state IN
       \E r \in Results :
         /\ Scsi(app.lun, op, IF op = "SENSE" THEN 1 ELSE 0, r)
         /\ RdWrResult(op, r)
  /\ UNCHANGED count

\* The command is given up, and neither the unit nor the transport are told.
TimedOut ==
  /\ app.busy /\ "slow" \in FaultKinds
  /\ msc' = [msc EXCEPT !.state = "IDLE"]
  /\ app' = [app EXCEPT !.busy = FALSE, !.ret = "FAIL"]
  /\ UNCHANGED <<unit, bot, pipe, dev, parted, count>>

-----------------------------------------------------------------------------
(* The device (external) *)

Commit(kind) ==
  /\ kind \in FaultKinds /\ count.faults < MaxFaults
  /\ count' = [count EXCEPT !.faults = @ + 1]

\* The end of the transfer on pipe p; a packet that was acknowledged flips the toggle.
Ends(p, u) ==
  LET t == pipe[p].toggle IN
  pipe' = [pipe EXCEPT ![p] =
    [@ EXCEPT !.urb = u, !.on = FALSE, !.toggle = IF u = "DONE" THEN Flip(t) ELSE t]]

NotReady ==
  /\ pipe["out"].on /\ "out" \notin dev.halted
  /\ Ends("out", "NOTREADY")
  /\ UNCHANGED <<msc, unit, bot, dev, app, parted, count>>

Stalled(p) ==
  /\ pipe[p].on /\ p \in dev.halted
  /\ Ends(p, "STALL")
  /\ UNCHANGED <<msc, unit, bot, dev, app, parted, count>>

Takes == pipe["out"].on /\ "out" \notin dev.halted /\ dev.phase \in {"cbw", "out"}
ToggleFits(p) == dev.toggle[p] = pipe[p].toggle
Host == <<msc, unit, bot, app, parted>>

\* A packet with the other toggle is taken for the last one again.
DropOut ==
  /\ Takes /\ ~ToggleFits("out")
  /\ Ends("out", "DONE")
  /\ UNCHANGED <<Host, dev, count>>

\* The CBW: the device finds out whether the command can be done.
TakeCBW ==
  /\ Takes /\ ToggleFits("out") /\ dev.phase = "cbw" /\ pipe["out"].load = <<"cbw", 0>>
  /\ Ends("out", "DONE")
  /\ \E v \in Verdicts :
       /\ IF v = "failed" THEN Commit("fail") ELSE UNCHANGED count
       /\ dev' = [dev EXCEPT !.phase = IF bot.size = 0 THEN "csw"
                                       ELSE IF DataIn(bot.op) THEN "in" ELSE "out",
                             !.op = bot.op, !.lun = bot.lun, !.size = bot.size, !.moved = 0,
                             !.intact = TRUE, !.verdict = v, !.toggle["out"] = Flip(@)]
  /\ UNCHANGED Host

\* Data where a CBW is due: both endpoints halt until a reset.
TakeInvalid ==
  /\ Takes /\ ToggleFits("out") /\ dev.phase = "cbw" /\ pipe["out"].load # <<"cbw", 0>>
  /\ Ends("out", "DONE")
  /\ dev' = [dev EXCEPT !.phase = "invalid", !.halted = {"in", "out"}, !.toggle["out"] = Flip(@)]
  /\ UNCHANGED <<Host, count>>

\* The next part of the data.
Advance(p) ==
  [dev EXCEPT !.moved = @ + 1, !.toggle[p] = Flip(@),
              !.phase = IF dev.moved + 1 = dev.size THEN "csw" ELSE @]

TakeData ==
  /\ Takes /\ ToggleFits("out") /\ dev.phase = "out"
  /\ Ends("out", "DONE")
  /\ dev' = [Advance("out") EXCEPT
               !.intact = @ /\ pipe["out"].load = <<"data", dev.moved + 1>>]
  /\ UNCHANGED <<Host, count>>

\* A packet of data or the CSW is sent; the host drops the one with the other toggle,
\* and has acknowledged it.
Send ==
  /\ pipe["in"].on /\ "in" \notin dev.halted /\ dev.phase \in {"in", "csw"}
  /\ dev' = IF dev.phase = "in" THEN Advance("in")
            ELSE [dev EXCEPT !.phase = "cbw", !.toggle["in"] = Flip(@)]
  /\ pipe' = IF ToggleFits("in")
               THEN [pipe EXCEPT !["in"] =
                 [urb |-> "DONE", on |-> FALSE, toggle |-> Flip(@.toggle),
                  load |-> IF dev.phase = "in" THEN <<"data", dev.moved + 1>>
                           ELSE <<dev.verdict, 0>>]]
               ELSE pipe
  /\ UNCHANGED <<Host, count>>

\* The device halts the endpoint of the data, for it cannot go on, or that of the CSW.
Halt ==
  /\ dev.phase \in {"in", "out", "csw"} /\ Commit("stall")
  /\ dev' = [dev EXCEPT
       !.halted = @ \union {IF dev.phase = "out" THEN "out" ELSE "in"},
       !.verdict = IF dev.phase = "csw" THEN @ ELSE "failed",
       !.phase = "csw"]
  /\ UNCHANGED <<Host, pipe>>

Accepts == TakeCBW \/ TakeInvalid \/ TakeData \/ DropOut

Device == NotReady \/ Stalled("in") \/ Stalled("out") \/ Accepts \/ Send \/ Halt

Application == \E op \in Commands, l \in Luns : Start(op, l)

Process == InitUnit \/ GiveUpUnit \/ Active

Next == Process \/ Application \/ RdWr \/ TimedOut \/ Device

Spec == Init /\ [][Next]_vars

\* The threads run, and the device answers in the end, also one that is busy now.
Fairness ==
  /\ WF_vars(Process) /\ WF_vars(RdWr)
  /\ WF_vars(Stalled("in")) /\ WF_vars(Stalled("out")) /\ WF_vars(Send) /\ SF_vars(Accepts)

FairSpec == Spec /\ Fairness
-----------------------------------------------------------------------------
(* Properties *)

\* A unit in the middle of a command; without an application, one given up.
Underway(l) == unit[l].state \in Commands \union {"SENSE"}
Clean == \A l \in Luns : Underway(l) => l = app.lun

Served ==
  /\ dev.op = app.op /\ dev.lun = app.lun /\ dev.verdict = "passed"
  /\ dev.moved = Packets /\ dev.intact /\ bot.intact

\* When USBH_MSC_RdWrProcess returns USBH_OK the device has executed this command on
\* this unit, and all its data arrived in order; unless another unit was given up.
CompletedMeansServed == app.rdwr = "OK" /\ Clean => Served

\* usbh_diskio_dma.c takes USBH_OK of USBH_MSC_Read and Write for RES_OK, and looks
\* into the sense data otherwise.
OkMeansServed == app.ret = "OK" /\ Clean => Served

(* Where the command is, and what the two ends know of it. *)

Quiet(p) == ~pipe[p].on
Waits == dev.phase = "cbw" /\ dev.halted = {}
Told == dev.op = bot.op /\ dev.lun = bot.lun /\ dev.size = bot.size /\ dev.intact
Direction == IF DataIn(bot.op) THEN "in" ELSE "out"

\* The device has moved m packets, and goes on or has halted the endpoint.
Begun(m) ==
  /\ Told /\ dev.moved = m
  /\ \/ m < dev.size /\ dev.phase = Direction /\ dev.halted = {}
     \/ /\ m < dev.size /\ dev.phase = "csw" /\ dev.verdict = "failed"
        /\ Direction \in dev.halted /\ dev.halted \subseteq {Direction, "in"}
     \/ m = dev.size /\ dev.phase = "csw" /\ dev.halted \subseteq {"in"}

Complete == dev.verdict = "passed" => dev.moved = dev.size
CswDue == Told /\ Complete /\ dev.phase = "csw" /\ dev.halted \subseteq {"in"}

\* The host's place in the command is the device's.
AtCBW ==
  \/ bot.state = "SEND_CBW" /\ Waits /\ Quiet("out")
  \/ /\ bot.state = "SEND_CBW_WAIT"
     /\ \/ pipe["out"].on /\ pipe["out"].load = <<"cbw", 0>> /\ Waits
        \/ Quiet("out") /\ Answer("out", "NOTREADY") /\ Waits
        \/ Quiet("out") /\ Answer("out", "DONE") /\ Begun(0)
  /\ (bot.cmd = "WAIT" => bot.left = bot.size) /\ Quiet("in")

AtDataIn ==
  /\ DataIn(bot.op) /\ bot.left > 0 /\ Quiet("out")
  /\ \/ bot.state = "DATA_IN" /\ Quiet("in") /\ Begun(bot.size - bot.left)
     \/ /\ bot.state = "DATA_IN_WAIT"
        /\ \/ pipe["in"].on /\ Begun(bot.size - bot.left)
           \/ /\ Quiet("in") /\ Answer("in", "DONE") /\ pipe["in"].load = Part(bot.left)
              /\ Begun(bot.size - bot.left + 1)
           \/ /\ Quiet("in") /\ Answer("in", "STALL") /\ "in" \in dev.halted
              /\ Begun(bot.size - bot.left)

AtDataOut ==
  /\ ~DataIn(bot.op) /\ bot.left > 0 /\ Quiet("in")
  /\ \/ bot.state = "DATA_OUT" /\ Quiet("out") /\ Begun(bot.size - bot.left)
     \/ /\ bot.state = "DATA_OUT_WAIT"
        /\ \/ /\ pipe["out"].on /\ pipe["out"].load = Part(bot.left)
              /\ Begun(bot.size - bot.left)
           \/ Quiet("out") /\ Answer("out", "NOTREADY") /\ Begun(bot.size - bot.left)
           \/ Quiet("out") /\ Answer("out", "DONE") /\ Begun(bot.size - bot.left + 1)
           \/ /\ Quiet("out") /\ Answer("out", "STALL") /\ "out" \in dev.halted
              /\ Begun(bot.size - bot.left)

AtCSW ==
  /\ Quiet("out")
  /\ \/ bot.state = "RECEIVE_CSW" /\ Quiet("in") /\ CswDue
     \/ /\ bot.state = "RECEIVE_CSW_WAIT"
        /\ \/ pipe["in"].on /\ CswDue
           \/ /\ Quiet("in") /\ Answer("in", "DONE") /\ pipe["in"].load = <<dev.verdict, 0>>
              /\ Told /\ Complete /\ Waits
           \/ Quiet("in") /\ Answer("in", "STALL") /\ "in" \in dev.halted /\ CswDue

AtError ==
  /\ Quiet("in") /\ Quiet("out")
  /\ \/ bot.state = "ERROR_IN" /\ CswDue
     \/ /\ bot.state = "ERROR_OUT" /\ Told /\ dev.phase = "csw"
        /\ dev.verdict = "failed" /\ "out" \in dev.halted

\* The toggles agree; the host resets that of the IN pipe before it clears its halt.
TogglesFit ==
  /\ ToggleFits("out")
  /\ ToggleFits("in") \/ (bot.state = "ERROR_IN" /\ pipe["in"].toggle = 0)

Agree ==
  /\ TogglesFit /\ bot.intact
  /\ AtCBW \/ AtDataIn \/ AtDataOut \/ AtCSW \/ AtError
  /\ bot.cmd = "SEND" => bot.state = "SEND_CBW"

\* The command of the transport is that of the unit, whose state says so.
InitLinked == bot.cmd = "WAIT" => msc.lun < MaxLun /\ unit[msc.lun].state = bot.op

AppLinked ==
  /\ bot.cmd = "WAIT" =>
       /\ Underway(app.lun) /\ unit[app.lun].state = bot.op
       /\ bot.state # "SEND_CBW" => bot.lun = app.lun
  /\ unit[app.lun].state \in Commands =>
       bot.cmd = "WAIT" /\ unit[app.lun].state = app.op /\ bot.size = Packets
  /\ app.rdwr = "OK" => ~Underway(app.lun) /\ Served
  /\ app.busy => app.rdwr = "BUSY"

\* What holds whatever was given up: data is sent and asked for while there is some
\* left,
Bounded ==
  /\ bot.left <= bot.size
  /\ bot.state \in {"DATA_IN", "DATA_IN_WAIT", "DATA_OUT", "DATA_OUT_WAIT"} => bot.left > 0
  /\ dev.phase \in {"in", "out"} => dev.moved < dev.size
  /\ \A p \in {"in", "out"} : pipe[p].on => pipe[p].urb = "IDLE"

\* and a busy application has a command under way.
Engaged ==
  /\ app.busy => Underway(app.lun)
  /\ msc.state = "INIT" =>
       ~app.busy /\ app.rdwr = "BUSY" /\ \A l \in Luns : unit[l].state \notin Commands

(* Where the command is once a cleared halt has left the toggles apart: without an end. *)

HostAhead(p) == pipe[p].toggle = 1 /\ dev.toggle[p] = 0
CswReady == dev.phase = "csw" /\ dev.halted \subseteq {"in"}
CswStrays == CswReady /\ HostAhead("in")
CswFits == CswReady /\ pipe["in"].toggle = 0 /\ dev.toggle["in"] = 0

\* The host drops the CSW, or did: it comes with the other toggle.
CswDropped ==
  /\ bot.cmd = "WAIT" /\ Quiet("out")
  /\ \/ bot.state \in {"ERROR_IN", "RECEIVE_CSW"} /\ Quiet("in") /\ CswStrays
     \/ /\ bot.state = "RECEIVE_CSW_WAIT"
        /\ \/ pipe["in"].on /\ (CswStrays \/ Waits)
           \/ Quiet("in") /\ Answer("in", "STALL") /\ CswStrays

\* The toggles of the OUT pipe are apart, and the CSW still due says that the command
\* failed.
FailureDue ==
  /\ bot.cmd = "WAIT" /\ Quiet("out") /\ HostAhead("out") /\ dev.verdict = "failed"
  /\ \/ bot.state = "ERROR_IN" /\ Quiet("in") /\ CswReady /\ pipe["in"].toggle = 0
     \/ bot.state = "RECEIVE_CSW" /\ Quiet("in") /\ CswFits
     \/ /\ bot.state = "RECEIVE_CSW_WAIT"
        /\ \/ pipe["in"].on /\ CswFits
           \/ Quiet("in") /\ Answer("in", "STALL") /\ CswFits
           \/ /\ Quiet("in") /\ Answer("in", "DONE")
              /\ pipe["in"].load = <<"failed", 0>> /\ Waits

\* The device drops the CBW of the REQUEST SENSE that follows, and the host waits for
\* the data of a command that the device never saw.
SenseDropped ==
  /\ Waits
  /\ \/ bot.cmd = "SEND" /\ Quiet("in") /\ Quiet("out") /\ HostAhead("out")
     \/ /\ bot.cmd = "WAIT" /\ bot.op = "SENSE" /\ bot.left > 0
        /\ \/ bot.state = "SEND_CBW" /\ Quiet("in") /\ Quiet("out") /\ HostAhead("out")
           \/ /\ bot.state = "SEND_CBW_WAIT" /\ Quiet("in")
              /\ \/ pipe["out"].on /\ HostAhead("out")
                 \/ Quiet("out") /\ Answer("out", "NOTREADY") /\ HostAhead("out")
                 \/ Quiet("out") /\ Answer("out", "DONE")
           \/ bot.state = "DATA_IN" /\ Quiet("in") /\ Quiet("out")
           \/ bot.state = "DATA_IN_WAIT" /\ pipe["in"].on /\ Quiet("out")

\* So the unit does not come up, or the application's command is never completed.
Strayed ==
  IF msc.state = "INIT" THEN InitLinked /\ CswDropped
  ELSE Clean => /\ app.rdwr = "BUSY" /\ Underway(app.lun)
                /\ \/ CswDropped \/ FailureDue
                   \/ SenseDropped /\ unit[app.lun].state = "SENSE"

\* A unit that comes up sends no data, so that the halt of its OUT endpoint is never one
\* to clear.
NoDataOut ==
  /\ bot.op = "READY" => bot.size = 0
  /\ msc.state = "INIT" => bot.state # "ERROR_OUT"

\* The inductive invariant behind CompletedMeansServed.
MscInv ==
  /\ Bounded /\ Engaged /\ NoDataOut
  /\ IF parted THEN Strayed
     ELSE IF msc.state = "INIT" THEN Agree /\ InitLinked
     ELSE Clean => Agree /\ AppLinked

\* The class becomes active, and each command ends, unless a cleared halt has left
\* the toggles apart.
BecomesActive == []~parted => <>(msc.state # "INIT")
CommandEnds == []~parted => (app.busy /\ Clean ~> ~app.busy)
=============================================================================
