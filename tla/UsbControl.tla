------------------------------ MODULE UsbControl ------------------------------
(***************************************************************************)
(* The control transfer of the USB host core: USBH_CtlReq and              *)
(* USBH_HandleControl (usbh_ctlreq.c), run by the USB thread each time it  *)
(* takes a message from os_event (USBH_Process_OS, usbh_core.c), against   *)
(* the channel interrupts of the HAL (stm32f7xx_hal_hcd.c), which set      *)
(* urb_state and post an event, and the device that leaves between any two *)
(* steps.                                                                  *)
(*                                                                         *)
(* The handle is the root's or a child's, of a device behind a hub         *)
(* (is_child, usbh_hub.c), which differs in three ways: USBH_LL_Stop does  *)
(* nothing for it, the thread hears from its hub that it left and not from *)
(* an interrupt, and the root's recovery halts its channels.               *)
(*                                                                         *)
(* os_event is a counter: its messages carry a value that the thread never *)
(* reads.  The link variable stands for state that changes together:       *)
(* device.is_connected, the two allocated bits of the control pipes, and   *)
(* gState being none of IDLE and DISCONNECTED.                             *)
(***************************************************************************)
EXTENDS Naturals

CONSTANTS
  MaxErrorCount,  \* USBH_MAX_ERROR_COUNT (usbh_def.h)
  QueueLength,    \* capacity of USBH_Queue (10 in USBH_Init)
  MaxFaults,      \* bound: how many faults the device and the bus commit
  FaultKinds      \* which: a subset of AllFaultKinds

AllFaultKinds == {"nak", "stall", "txerr", "disconnect", "rootstop"}

ASSUME UsbControlAssumption ==
  /\ MaxErrorCount \in Nat
  /\ QueueLength \in Nat \ {0}
  /\ MaxFaults \in Nat
  /\ FaultKinds \subseteq AllFaultKinds

VARIABLES
  is_child,  \* phost->is_child: the device is behind a hub
  ctl,     \* phost->Control, phost->RequestState and the pending setup packet
  link,    \* "up": connected, pipes allocated; "gone": so says a child's handle, but the
           \* device has left; "lost": DISCONNECTED; "down": IDLE, or no such child
  urb,     \* hc[pipe].urb_state of the two control pipes
  chan,    \* the token each host channel is sending, or "none"
  queue,   \* number of messages in os_event
  pc,      \* where the USB thread is
  ret,     \* what the last call of USBH_CtlReq returned
  dev,     \* history: the stages of the pending request the device has executed
  gaveup,  \* history: a request was given up since the channels were last stopped
  faults   \* how many faults have been committed

vars == <<is_child, ctl, link, urb, chan, queue, pc, ret, dev, gaveup, faults>>

Pipes == {"in", "out"}

\* bmRequestType's direction, and whether wLength is not 0.
Requests == [dir : {"D2H", "H2D"}, data : BOOLEAN]

CtrlStates ==
  {"IDLE", "SETUP", "SETUP_WAIT", "DATA_IN", "DATA_IN_WAIT", "DATA_OUT",
   "DATA_OUT_WAIT", "STATUS_IN", "STATUS_IN_WAIT", "STATUS_OUT",
   "STATUS_OUT_WAIT", "ERROR", "STALLED"}

UrbStates == {"IDLE", "DONE", "NOTREADY", "ERROR", "STALL"}

Stages == {"setup", "data", "status"}

\* What a channel sends; EMPTY is the packet of the status stage, which has no data.
Tokens == {"none", "SETUP", "DATA", "EMPTY"}

Controls == [request : {"SEND", "WAIT"}, state : CtrlStates,
             setup : Requests, errorcount : 0 .. MaxErrorCount]

TypeOK ==
  /\ is_child \in BOOLEAN
  /\ ctl \in Controls
  /\ link \in {"up", "gone", "lost", "down"}
  /\ urb \in [Pipes -> UrbStates]
  /\ chan \in [Pipes -> Tokens]
  /\ queue \in 0 .. QueueLength
  /\ pc \in {"get", "switch", "check", "control"}
  /\ ret \in {"OK", "BUSY", "FAIL", "NOT_SUPPORTED"}
  /\ dev \subseteq Stages
  /\ gaveup \in BOOLEAN
  /\ faults \in 0 .. MaxFaults

NoRequest == [dir |-> "H2D", data |-> FALSE]

\* What DeInitStateMachine sets; the setup packet of the last request stays.
DeInitialised(c) ==
  [request |-> "SEND", state |-> "SETUP", setup |-> c.setup, errorcount |-> 0]

Init ==
  /\ is_child \in BOOLEAN
  /\ ctl = DeInitialised([setup |-> NoRequest])
  /\ link = "down"
  /\ urb = [p \in Pipes |-> "IDLE"]
  /\ chan = [p \in Pipes |-> "none"]
  /\ queue = 0
  /\ pc = "get"
  /\ ret = "BUSY"
  /\ dev = {}
  /\ gaveup = FALSE
  /\ faults = 0

\* device.is_connected, and both bits of Pipes: what the handle believes.
Connected == link \in {"up", "gone"}

\* osMessagePut with timeout 0: a full queue drops the message.
Posted(q) == IF q < QueueLength THEN q + 1 ELSE q

-----------------------------------------------------------------------------
(* The USB thread *)

\* osMessageGet returns a message.
Wake ==
  /\ pc = "get" /\ queue > 0
  /\ queue' = queue - 1
  /\ pc' = "switch"
  /\ UNCHANGED <<is_child, ctl, link, urb, chan, ret, dev, gaveup, faults>>

\* A caller that does not sleep: the hub runs its new child's USBH_Process, and the
\* hub's and AOA's own requests call USBH_CtlReq, in a loop.
Poll ==
  /\ pc = "get" /\ Connected
  /\ pc' = "check"
  /\ UNCHANGED <<is_child, ctl, link, urb, chan, queue, ret, dev, gaveup, faults>>

\* USBH_Process reads gState: HOST_DEV_DISCONNECTED re-initialises the machine
\* (DeInitStateMachine), HOST_IDLE does nothing, another state calls USBH_CtlReq.
Process ==
  /\ pc = "switch"
  /\ \/ /\ link = "lost"
        /\ link' = "down"
        /\ ctl' = DeInitialised(ctl)
        /\ pc' = "get"
     \/ link = "down" /\ pc' = "get" /\ UNCHANGED <<ctl, link>>
     \/ Connected /\ pc' = "check" /\ UNCHANGED <<ctl, link>>
  /\ UNCHANGED <<is_child, urb, chan, queue, ret, dev, gaveup, faults>>

\* The control pipes are allocated: of the root in HOST_DEV_ATTACHED, with an event, of
\* a child by its hub, without one.
Attach ==
  /\ pc = "get" /\ link = "down"
  /\ link' = "up"
  /\ queue' = IF is_child THEN queue ELSE Posted(queue)
  /\ UNCHANGED <<is_child, ctl, urb, chan, pc, ret, dev, gaveup, faults>>

\* The test at the head of USBH_CtlReq: the control pipes are allocated.
PipesAllocated == Connected

CtlReqNoPipes ==
  /\ pc = "check" /\ ~PipesAllocated
  /\ ctl' = [ctl EXCEPT !.request = "SEND"]
  /\ ret' = "FAIL"
  /\ pc' = "get"
  /\ UNCHANGED <<is_child, link, urb, chan, queue, dev, gaveup, faults>>

\* CMD_SEND: a caller has filled Control.setup, the transfer will start with the
\* next event.
CtlReqSend ==
  /\ pc = "check" /\ PipesAllocated /\ ctl.request = "SEND"
  /\ \E r \in Requests :
       ctl' = [ctl EXCEPT !.request = "WAIT", !.state = "SETUP", !.setup = r]
  /\ ret' = "BUSY"
  /\ queue' = Posted(queue)
  /\ dev' = {}
  /\ pc' = "get"
  /\ UNCHANGED <<is_child, link, urb, chan, gaveup, faults>>

\* CMD_WAIT: on to USBH_HandleControl.
CtlReqWait ==
  /\ pc = "check" /\ PipesAllocated /\ ctl.request = "WAIT"
  /\ pc' = "control"
  /\ UNCHANGED <<is_child, ctl, link, urb, chan, queue, ret, dev, gaveup, faults>>

\* USBH_HandleControl and USBH_CtlReq return; posts says whether an event was put.
Return(c, status, posts) ==
  /\ ctl' = c
  /\ ret' = status
  /\ queue' = IF posts THEN Posted(queue) ELSE queue
  /\ pc' = "get"
  /\ UNCHANGED <<is_child, link, dev, faults>>


\* Mutant: the resubmitted URB keeps the answer of the last one.
SubmitURBStale(p, token) ==
  IF Connected
    THEN chan' = [chan EXCEPT ![p] = token] /\ UNCHANGED urb
    ELSE UNCHANGED <<urb, chan>>

\* USBH_LL_SubmitURB resets urb_state and starts the channel; without a connected
\* device it does neither and returns USBH_FAIL, which USBH_CtlSendSetup,
\* USBH_CtlSendData and USBH_CtlReceiveData ignore.
SubmitURB(p, token) ==
  IF Connected
    THEN /\ urb' = [urb EXCEPT ![p] = "IDLE"]
         /\ chan' = [chan EXCEPT ![p] = token]
    ELSE UNCHANGED <<urb, chan>>

\* The states that submit, with the pipe and the token they use.
SendingOn(p) == IF p = "in" THEN {"DATA_IN", "STATUS_IN"}
                            ELSE {"SETUP", "DATA_OUT", "STATUS_OUT"}

Token(s) == CASE s = "SETUP"      -> "SETUP"
              [] s = "STATUS_OUT" -> "EMPTY"
              [] OTHER            -> "DATA"

WaitAfter(s) == CASE s = "SETUP"      -> "SETUP_WAIT"
                  [] s = "DATA_IN"    -> "DATA_IN_WAIT"
                  [] s = "DATA_OUT"   -> "DATA_OUT_WAIT"
                  [] s = "STATUS_IN"  -> "STATUS_IN_WAIT"
                  [] s = "STATUS_OUT" -> "STATUS_OUT_WAIT"

\* The pipe whose urb_state a waiting state reads.
WaitingOn(p) == IF p = "in" THEN {"DATA_IN_WAIT", "STATUS_IN_WAIT"}
                ELSE {"SETUP_WAIT", "DATA_OUT_WAIT", "STATUS_OUT_WAIT"}

HandleSend ==
  /\ pc = "control"
  /\ \E p \in Pipes :
       /\ ctl.state \in SendingOn(p)
       /\ SubmitURB(p, Token(ctl.state))
  /\ Return([ctl EXCEPT !.state = WaitAfter(ctl.state)], "BUSY", FALSE)
  /\ UNCHANGED gaveup


\* Mutant: the data stage is left out.
NextStageNoData == IF ctl.setup.dir = "D2H" THEN "STATUS_OUT" ELSE "STATUS_IN"

\* Where a transfer goes when its setup or data stage is done.
NextStage ==
  CASE ctl.state = "SETUP_WAIT" /\ ctl.setup.data ->
         IF ctl.setup.dir = "D2H" THEN "DATA_IN" ELSE "DATA_OUT"
    [] ctl.state = "SETUP_WAIT" /\ ~ctl.setup.data ->
         IF ctl.setup.dir = "D2H" THEN "STATUS_OUT" ELSE "STATUS_IN"
    [] ctl.state = "DATA_IN_WAIT"  -> "STATUS_OUT"
    [] ctl.state = "DATA_OUT_WAIT" -> "STATUS_IN"

Reads(p, s) == ctl.state \in WaitingOn(p) /\ urb[p] = s


\* Mutant: the transfer moves on without an event.
StageDoneSilent ==
  /\ pc = "control"
  /\ ctl.state \in {"SETUP_WAIT", "DATA_IN_WAIT", "DATA_OUT_WAIT"}
  /\ \E p \in Pipes : Reads(p, "DONE")
  /\ Return([ctl EXCEPT !.state = NextStage], "BUSY", FALSE)
  /\ UNCHANGED <<urb, chan, gaveup>>

StageDone ==
  /\ pc = "control"
  /\ ctl.state \in {"SETUP_WAIT", "DATA_IN_WAIT", "DATA_OUT_WAIT"}
  /\ \E p \in Pipes : Reads(p, "DONE")
  /\ Return([ctl EXCEPT !.state = NextStage], "BUSY", TRUE)
  /\ UNCHANGED <<urb, chan, gaveup>>

\* CTRL_COMPLETE, which USBH_CtlReq turns into CTRL_IDLE at once.
TransferDone ==
  /\ pc = "control"
  /\ ctl.state \in {"STATUS_IN_WAIT", "STATUS_OUT_WAIT"}
  /\ \E p \in Pipes : Reads(p, "DONE")
  /\ Return([ctl EXCEPT !.state = "IDLE", !.request = "SEND"], "OK", TRUE)
  /\ UNCHANGED <<urb, chan, gaveup>>

\* URB_ERROR.  CTRL_DATA_OUT_WAIT also returns USBH_FAIL, for which USBH_CtlReq
\* goes back to CMD_SEND: its CTRL_ERROR is never handled.
StageError ==
  /\ pc = "control"
  /\ \E p \in Pipes : Reads(p, "ERROR")
  /\ LET c == [ctl EXCEPT !.state = "ERROR"]
     IN  IF ctl.state = "DATA_OUT_WAIT"
           THEN Return([c EXCEPT !.request = "SEND"], "FAIL", TRUE)
           ELSE Return(c, "BUSY", TRUE)
  /\ UNCHANGED <<urb, chan, gaveup>>

\* URB_STALL: CTRL_SETUP_WAIT and CTRL_STATUS_OUT_WAIT do not look for it.
StageStalled ==
  /\ pc = "control"
  /\ \/ /\ Reads("in", "STALL")
        /\ Return(ctl, "NOT_SUPPORTED", TRUE)
     \/ /\ ctl.state = "DATA_OUT_WAIT" /\ Reads("out", "STALL")
        /\ Return([ctl EXCEPT !.state = "STALLED"], "NOT_SUPPORTED", TRUE)
  /\ UNCHANGED <<urb, chan, gaveup>>


\* Mutant: the packet is to be sent again, but without an event.
SendAgainSilent ==
  /\ pc = "control"
  /\ ctl.state \in {"DATA_OUT_WAIT", "STATUS_OUT_WAIT"}
  /\ Reads("out", "NOTREADY")
  /\ Return([ctl EXCEPT !.state = IF ctl.state = "DATA_OUT_WAIT"
                                    THEN "DATA_OUT" ELSE "STATUS_OUT"],
            "BUSY", FALSE)
  /\ UNCHANGED <<urb, chan, gaveup>>

\* URB_NOTREADY sends the OUT packet again.
SendAgain ==
  /\ pc = "control"
  /\ ctl.state \in {"DATA_OUT_WAIT", "STATUS_OUT_WAIT"}
  /\ Reads("out", "NOTREADY")
  /\ Return([ctl EXCEPT !.state = IF ctl.state = "DATA_OUT_WAIT"
                                    THEN "DATA_OUT" ELSE "STATUS_OUT"],
            "BUSY", TRUE)
  /\ UNCHANGED <<urb, chan, gaveup>>

\* The urb_state values a waiting state acts upon.
Answers(s) ==
  CASE s = "SETUP_WAIT"      -> {"DONE", "ERROR"}
    [] s = "DATA_IN_WAIT"    -> {"DONE", "ERROR", "STALL"}
    [] s = "STATUS_IN_WAIT"  -> {"DONE", "ERROR", "STALL"}
    [] s = "DATA_OUT_WAIT"   -> {"DONE", "ERROR", "STALL", "NOTREADY"}
    [] s = "STATUS_OUT_WAIT" -> {"DONE", "ERROR", "NOTREADY"}

\* No answer yet, or a state the switch has no case for.
StillBusy ==
  /\ pc = "control"
  /\ \/ \E p \in Pipes :
          ctl.state \in WaitingOn(p) /\ urb[p] \notin Answers(ctl.state)
     \/ ctl.state \in {"STALLED", "IDLE"}
  /\ Return(ctl, "BUSY", FALSE)
  /\ UNCHANGED <<urb, chan, gaveup>>


\* The retry and the end of CTRL_ERROR.
StartOver == Return([ctl EXCEPT !.state = "SETUP", !.request = "SEND", !.errorcount = @ + 1],
                    "BUSY", FALSE)
GiveUp == Return([ctl EXCEPT !.request = "SEND", !.errorcount = 0], "FAIL", FALSE)

Quiet == [p \in Pipes |-> "none"]

\* USBH_LL_Stop halts every channel, but does nothing when is_child is set.
Stopped == IF is_child THEN chan ELSE Quiet

\* Mutant: the host is not stopped before the transfer starts over.
HandleErrorNoStop ==
  /\ pc = "control" /\ ctl.state = "ERROR"
  /\ \/ ctl.errorcount < MaxErrorCount /\ StartOver /\ UNCHANGED <<chan, gaveup>>
     \/ ctl.errorcount >= MaxErrorCount /\ GiveUp /\ UNCHANGED chan /\ gaveup' = TRUE
  /\ UNCHANGED urb

\* Mutant: one retry too many.
HandleErrorOffByOne ==
  /\ pc = "control" /\ ctl.state = "ERROR"
  /\ \/ /\ ctl.errorcount <= MaxErrorCount /\ StartOver /\ chan' = Stopped
        /\ gaveup' = (is_child /\ gaveup)
     \/ ctl.errorcount > MaxErrorCount /\ GiveUp /\ UNCHANGED chan /\ gaveup' = TRUE
  /\ UNCHANGED urb

\* CTRL_ERROR: stop the host and start over, or give up after MaxErrorCount, which stops
\* nothing.
HandleError ==
  /\ pc = "control" /\ ctl.state = "ERROR"
  /\ \/ /\ ctl.errorcount < MaxErrorCount
        /\ StartOver
        /\ chan' = Stopped
        /\ gaveup' = (is_child /\ gaveup)
     \/ /\ ctl.errorcount >= MaxErrorCount
        /\ GiveUp
        /\ UNCHANGED chan
        /\ gaveup' = TRUE
  /\ UNCHANGED urb

HandleControl ==
  \/ HandleSend \/ StageDone \/ TransferDone \/ StageError \/ StageStalled
  \/ SendAgain \/ StillBusy \/ HandleError

\* A step of the thread, but for the polls, which only some callers make.
Thread == \/ Wake \/ Process \/ CtlReqNoPipes \/ CtlReqSend \/ CtlReqWait
          \/ HandleControl

-----------------------------------------------------------------------------
(* The device and the channel interrupts *)

\* A channel interrupt stores urb_state, posts an event, and leaves the channel
\* sending `token` ("none" once it is halted for good).
ChannelHalted(p, state, token) ==
  /\ urb' = [urb EXCEPT ![p] = state]
  /\ chan' = [chan EXCEPT ![p] = token]
  /\ queue' = Posted(queue)
  /\ UNCHANGED <<is_child, ctl, link, pc, ret, gaveup>>

Commit(kind) == kind \in FaultKinds /\ faults < MaxFaults /\ faults' = faults + 1

\* The stage the device executes when it acknowledges the token of pipe p: it
\* follows the request it latched, whatever the host means by the token.
StageOf(p) ==
  IF chan[p] = "SETUP" THEN "setup"
  ELSE IF ctl.setup.data /\ (ctl.setup.dir = "D2H") = (p = "in")
    THEN "data" ELSE "status"

\* The device takes any SETUP, and no token of a request that it has completed.
Accepts(p) == /\ link = "up" /\ chan[p] # "none"
              /\ chan[p] = "SETUP" \/ "status" \notin dev

\* What the device has executed of the pending request when it has acknowledged the
\* token; before it latches the request, a token is about the one before.
Executed(p) == IF chan[p] = "SETUP" THEN {"setup"}
               ELSE IF "setup" \in dev THEN dev \union {StageOf(p)} ELSE dev

\* XFRC then CHH: the token was acknowledged.
UrbDone(p) ==
  /\ Accepts(p)
  /\ dev' = Executed(p)
  /\ ChannelHalted(p, "DONE", "none")
  /\ UNCHANGED faults

\* NAK then CHH: an IN channel is re-activated, an OUT channel is not.  A device
\* never answers a SETUP token with NAK.
UrbNak(p) ==
  /\ link = "up" /\ chan[p] \in {"DATA", "EMPTY"}
  /\ Commit("nak")
  /\ ChannelHalted(p, "NOTREADY", IF p = "in" THEN chan[p] ELSE "none")
  /\ UNCHANGED dev

\* STALL then CHH, in a data or status stage.
UrbStall(p) ==
  /\ link = "up" /\ chan[p] \in {"DATA", "EMPTY"}
  /\ Commit("stall")
  /\ ChannelHalted(p, "STALL", "none")
  /\ UNCHANGED dev

\* Re-activation enables the channel, and writes no packet into the FIFO: only an IN
\* token and the packet without data go out again.
Reactivated(p) == IF p = "in" \/ chan[p] = "EMPTY" THEN chan[p] ELSE "none"

\* TXERR or DTERR then CHH: NOTREADY below the limit of ErrCnt, ERROR beyond; the channel
\* is re-activated in both cases.  Of a device that has left there is no other answer.
UrbTxErr(p) ==
  /\ chan[p] # "none"
  /\ \/ Commit("txerr")
     \/ link = "gone" /\ UNCHANGED faults
  /\ \E s \in {"NOTREADY", "ERROR"} : ChannelHalted(p, s, Reactivated(p))
  /\ UNCHANGED dev

ChannelIRQ == \E p \in Pipes : UrbDone(p) \/ UrbNak(p) \/ UrbStall(p) \/ UrbTxErr(p)

\* USBH_LL_Disconnect: the device is gone, the host stopped and restarted, the
\* control pipes freed, gState is HOST_DEV_DISCONNECTED.
Disconnect ==
  /\ ~is_child /\ link = "up"
  /\ Commit("disconnect")
  /\ link' = "lost"
  /\ chan' = Quiet
  /\ gaveup' = FALSE
  /\ queue' = Posted(queue)
  /\ UNCHANGED <<is_child, ctl, urb, pc, ret, dev>>

\* A child leaves, alone, or with its hub, whose interrupt stops the host; its own handle
\* hears nothing of it.
Vanish ==
  /\ is_child /\ link = "up"
  /\ Commit("disconnect")
  /\ link' = "gone"
  /\ \/ UNCHANGED <<chan, queue>>
     \/ chan' = Quiet /\ queue' = Posted(queue)
  /\ UNCHANGED <<is_child, ctl, urb, pc, ret, dev, gaveup>>

\* The hub finds the port empty, or goes itself: it frees the handle and halts its pipes,
\* in the first case with the event of USBH_LL_Disconnect.
Remove ==
  /\ is_child /\ pc = "get" /\ link = "gone"
  /\ link' = "down"
  /\ ctl' = DeInitialised(ctl)
  /\ chan' = Quiet
  /\ gaveup' = FALSE
  /\ queue' \in {queue, Posted(queue)}
  /\ UNCHANGED <<is_child, urb, pc, ret, dev, faults>>

\* USBH_LL_Stop for an error of the root, the hub: HAL_HCD_Stop halts the channels of
\* its children as well, and they are not told.
RootStops ==
  /\ is_child /\ pc = "get" /\ Connected
  /\ Commit("rootstop")
  /\ chan' = Quiet
  /\ gaveup' = FALSE
  /\ UNCHANGED <<is_child, ctl, link, urb, queue, pc, ret, dev>>

Next == \/ Thread \/ Poll \/ Attach \/ ChannelIRQ
        \/ Disconnect \/ Vanish \/ Remove \/ RootStops

Spec == Init /\ [][Next]_vars

\* The thread is scheduled, a device that is plugged is attached, and a device answers
\* a token that is about a stage it has still to execute.
Fairness ==
  /\ WF_vars(Thread) /\ WF_vars(Attach)
  /\ \A p \in Pipes : WF_vars(UrbDone(p) /\ dev' # dev)

FairSpec == Spec /\ Fairness

-----------------------------------------------------------------------------
(* Properties *)

\* The stages of the pending request, and that the device has executed them all.
Needed == {"setup", "status"} \union IF ctl.setup.data THEN {"data"} ELSE {}
Served == Needed \subseteq dev

\* USBH_CtlReq returns USBH_OK only for a request whose every stage the device
\* has executed: no stale urb_state of an earlier transfer, of a retry or of a
\* submission that failed because the device left is taken for an answer.
OkMeansServed == ret = "OK" => Served

\* The thread waits for a request in CMD_WAIT: its next call would act.
WouldAct ==
  \/ \E p \in Pipes : ctl.state \in SendingOn(p)
  \/ ctl.state = "ERROR"
  \/ \E p \in Pipes : ctl.state \in WaitingOn(p) /\ urb[p] \in Answers(ctl.state)

\* No wake-up is lost: while the thread sleeps in osMessageGet with a transfer
\* under way that the next call would move on, os_event holds a message, although
\* every osMessagePut drops its message when the queue is full.
NoLostWakeup ==
  pc = "get" /\ ctl.request = "WAIT" /\ WouldAct => queue > 0

\* What NoLostWakeup rests on: the machine at rest has no request under way, and a
\* device that left while USBH_HandleControl runs, so that its submission fails and
\* an old urb_state stays, has left a message behind.
WakeupKept ==
  /\ link = "down" => ctl.request = "SEND"
  /\ pc = "control" => ctl.request = "WAIT"
  /\ pc = "control" /\ ~Connected => queue > 0
  /\ NoLostWakeup

Pending(states) == ctl.request = "WAIT" /\ ctl.state \in states

\* A channel is quiet once its URB is done, and both are without a connected device.
ChannelsStopped ==
  \A p \in Pipes : (urb[p] = "DONE" \/ ~Connected) => chan[p] = "none"

\* Which channels a request may find running: its own, or an IN channel that an error has
\* re-activated and nobody has stopped, because its request was given up or the handle
\* is a child's.
LeftRunning ==
  /\ chan["in"] \in {"none", "DATA"}
  /\ chan["in"] = "DATA" =>
       \/ Pending({"DATA_IN_WAIT", "STATUS_IN_WAIT", "ERROR"})
       \/ gaveup
       \/ is_child /\ ctl.errorcount > 0
  /\ chan["out"] = "SETUP" => Pending({"SETUP_WAIT"}) /\ urb["out"] = "IDLE" /\ dev = {}
  /\ Pending({"SETUP"}) => dev = {}
  /\ Pending({"SETUP_WAIT"}) => chan["out"] \in {"none", "SETUP"}

\* The stage the machine is in is one of the request's.
StageFits ==
  /\ Pending({"DATA_IN", "DATA_IN_WAIT"}) => ctl.setup = [dir |-> "D2H", data |-> TRUE]
  /\ Pending({"DATA_OUT", "DATA_OUT_WAIT"}) => ctl.setup = [dir |-> "H2D", data |-> TRUE]
  /\ Pending({"STATUS_IN", "STATUS_IN_WAIT"}) => ctl.setup.dir = "H2D"
  /\ Pending({"STATUS_OUT", "STATUS_OUT_WAIT"}) => ctl.setup.dir = "D2H"

\* The device has executed the stages the machine has passed, and the one whose URB
\* is done; unless the last URB could not be submitted because the device left.
Passed ==
  /\ ctl.state \notin {"IDLE", "SETUP", "SETUP_WAIT", "ERROR", "STALLED"} => "setup" \in dev
  /\ ctl.state \in {"STATUS_IN", "STATUS_IN_WAIT", "STATUS_OUT", "STATUS_OUT_WAIT"}
        /\ ctl.setup.data => "data" \in dev
  /\ ctl.state = "SETUP_WAIT" /\ urb["out"] = "DONE" => "setup" \in dev
  /\ ctl.state = "DATA_IN_WAIT" /\ urb["in"] = "DONE" => "data" \in dev
  /\ ctl.state = "DATA_OUT_WAIT" /\ urb["out"] = "DONE" => "data" \in dev
  /\ ctl.state = "STATUS_IN_WAIT" /\ urb["in"] = "DONE" => "status" \in dev
  /\ ctl.state = "STATUS_OUT_WAIT" /\ urb["out"] = "DONE" => "status" \in dev

StagesServed ==
  /\ ctl.request = "WAIT" /\ (Connected \/ pc = "control") => Passed
  /\ ctl.request = "WAIT" => ret # "OK"
  /\ OkMeansServed

\* The inductive invariant: of the wake-ups, and of what the device has executed.
ControlInv ==
  WakeupKept /\ ChannelsStopped /\ LeftRunning /\ StageFits /\ StagesServed

\* No SETUP packet goes out while the control IN channel still asks for the data or the
\* status of an older request: USBH_LL_Stop has stopped it.  Except where the code stops
\* nothing: after a request that was given up, and for a child that counts errors, whose
\* every retry runs beside the channel that the error re-activated.
SetupOnQuietBus ==
  [][ (chan'["out"] = "SETUP" /\ chan["out"] # "SETUP")
        => \/ chan["in"] = "none"
           \/ gaveup
           \/ is_child /\ ctl.errorcount > 0 ]_vars

\* The thread waits for a channel that is off and has no answer that it looks for.
Silent == \E p \in Pipes : /\ Pending(WaitingOn(p)) /\ chan[p] = "none"
                         /\ urb[p] \notin Answers(ctl.state)

\* Two answers have no case: NOTREADY of a SETUP packet that was lost once, and the STALL
\* of the status stage of a read.
Unheard == /\ Silent
           /\ \/ ctl.state = "SETUP_WAIT" /\ urb["out"] = "NOTREADY"
              \/ ctl.state = "STATUS_OUT_WAIT" /\ urb["out"] = "STALL"

\* The root's recovery has halted the channel of a child.
HaltedByRoot == Silent /\ is_child

\* A channel that was left running has taken the answer this stage waits for: of an older
\* request, or the status packet that both the re-activation and the thread repeat.
Overtaken ==
  /\ \E p \in Pipes : ctl.state \in WaitingOn(p) /\ urb[p] # "DONE"
  /\ \/ Pending({"STATUS_OUT_WAIT"}) /\ "status" \in dev
     \/ /\ gaveup \/ is_child
        /\ \/ Pending({"STATUS_IN_WAIT"}) /\ "status" \in dev
           \/ Pending({"DATA_IN_WAIT", "DATA_OUT_WAIT"}) /\ dev \cap {"data", "status"} # {}

\* A request that was started ends, with success or not, whatever NAKs, errors and
\* disconnections it meets.  The five exceptions are where the code waits for ever, or for
\* what happens outside this module: a stall of which the caller is told; an answer that
\* has no case; a child that left, until its hub removes it; a child whose channel the
\* root's recovery halted; an answer taken by a channel that was left running.
RequestEnds ==
  ctl.request = "WAIT" ~>
    \/ ctl.request = "SEND" \/ ret = "NOT_SUPPORTED" \/ ctl.state = "STALLED"
    \/ Unheard \/ link = "gone" \/ HaltedByRoot \/ Overtaken

\* usbh_ctlreq.c: "try to recover control", "Do the transmission again, starting
\* from SETUP Packet".  After an error of the root's the SETUP packet goes out again.
RetryIsSent ==
  (~is_child /\ ctl.state = "SETUP" /\ ctl.errorcount > 0) ~>
    (ctl.state = "SETUP_WAIT" \/ link # "up")

\* The control transfer keeps the promise of ControlService.
Service == INSTANCE ControlService WITH
             pending <- ctl.request = "WAIT",
             served  <- Served,
             ok      <- ret = "OK"
ServiceKept == Service!Spec
=============================================================================
