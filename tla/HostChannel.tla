------------------------------ MODULE HostChannel ------------------------------
(***************************************************************************)
(* One host channel of the USB controller: HAL_HCD_HC_SubmitRequest and    *)
(* the channel interrupts (stm32f7xx_hal_hcd.c) on the channel's registers *)
(* (USB_HC_Init, USB_HC_StartXfer and USB_HC_Halt of stm32f7xx_ll_usb.c),  *)
(* between the class that submits URBs of one packet and reads urb_state,  *)
(* and an endpoint, with the data toggle at both ends.                     *)
(*                                                                         *)
(* The controller is used at full speed and without DMA.  The registers    *)
(* and the endpoint are external: modelled by what the driver relies on.   *)
(* A class that finds URB_STALL goes on in Msc and UsbHub, not here.       *)
(***************************************************************************)
EXTENDS Naturals, Sequences

CONSTANTS
  Kinds,       \* the endpoint of the channel is one of these kinds
  MaxPackets,  \* bound: how many packets the sender has
  MaxFaults,   \* bound: how many faults a bulk endpoint and its bus commit
  MaxPollFaults, \* bound: how many an interrupt endpoint
  FaultKinds   \* which

AllKinds == {"bulk_in", "bulk_out", "intr_in"}

\* "txerr": a packet is lost.  "lost": its handshake is.  "stall": the endpoint
\* halts.  "frmor": a periodic transfer does not end in its frame.
AllFaultKinds == {"txerr", "lost", "stall", "frmor"}

ASSUME HostChannelAssumption ==
  /\ Kinds \subseteq AllKinds /\ FaultKinds \subseteq AllFaultKinds
  /\ MaxPackets \in Nat /\ MaxFaults \in Nat /\ MaxPollFaults \in Nat

VARIABLES
  kind,    \* hc->ep_type and ep_is_in: the kind of the endpoint
  hc,      \* hhcd->hc[i] and the registers of the channel
  rx,      \* an IN packet is in the RX FIFO, its transfer not complete
  caller,  \* the class, in the submission of a URB, and the packet it sends
  dev,     \* the endpoint: its toggle, and the packet it sends or has received
  got,     \* history: the packets that arrived at their receiver
  done,    \* history: how many URBs the interrupt reported as done
  strikes, \* history: transactions that failed since ErrCnt was 0
  faults   \* how many faults have been committed

ghosts == <<got, done, strikes, faults>>
vars   == <<kind, hc, rx, caller, dev, ghosts>>

Toggles == {0, 1}
UrbStates == {"IDLE", "DONE", "NOTREADY", "STALL", "ERROR"}
HcStates == {"IDLE", "XFRC", "NAK", "STALL", "XACTERR", "DATATGLERR"}
Interrupts == {"XFRC", "ACK", "STALL", "NAK", "TXERR", "DTERR", "FRMOR", "CHH"}

Channels ==
  [state : HcStates, urb : UrbStates, err : Nat, toggle : Toggles,
   int : SUBSET Interrupts,  \* HCINT
   chh : BOOLEAN,            \* HCINTMSK: CHH is unmasked
   on : BOOLEAN,             \* HCCHAR: the channel sends its token
   halting : BOOLEAN,        \* HCCHAR: CHDIS
   pid : Toggles]            \* HCTSIZ: the toggle of the packet

TypeOK ==
  /\ kind \in Kinds
  /\ hc \in Channels /\ rx \in BOOLEAN
  /\ caller \in [pc : {"ready", "pid", "idle", "wait"}, pid : Toggles, packet : Nat]
  /\ dev \in [toggle : Toggles, packet : Nat]
  /\ got \in Seq(Nat) /\ done \in Nat
  /\ strikes \in Nat /\ faults \in Nat

IsIn == kind \in {"bulk_in", "intr_in"}
IsBulk == kind \in {"bulk_in", "bulk_out"}

\* Mutant: the toggle is not kept to one bit.
FlipUp(t) == t + 1

\* toggle ^= 1.
Flip(t) == 1 - t

\* USBH_OpenPipe: USB_HC_Init clears HCINT.  The device sends its first packet.
Init ==
  /\ kind \in Kinds
  /\ hc = [state |-> "IDLE", urb |-> "IDLE", err |-> 0, toggle |-> 0, int |-> {},
           chh |-> FALSE, on |-> FALSE, halting |-> FALSE, pid |-> 0]
  /\ rx = FALSE
  /\ caller = [pc |-> "ready", pid |-> 0, packet |-> 1]
  /\ dev = [toggle |-> 0, packet |-> 1]
  /\ got = <<>> /\ done = 0 /\ strikes = 0 /\ faults = 0

\* USB_HC_Init.  ACK is masked at full speed.
Unmasked ==
  (IF IsBulk THEN {"XFRC", "STALL", "TXERR", "DTERR", "NAK"}
             ELSE {"XFRC", "STALL", "TXERR", "DTERR", "NAK", "FRMOR"})
  \union (IF hc.chh THEN {"CHH"} ELSE {})

-----------------------------------------------------------------------------
(* The class, and HAL_HCD_HC_SubmitRequest *)

\* It takes the data PID from the toggle,
SubmitPid ==
  /\ IsBulk /\ caller.pc = "ready" /\ caller.packet <= MaxPackets
  /\ caller' = [caller EXCEPT !.pc = "pid", !.pid = hc.toggle]
  /\ UNCHANGED <<kind, hc, rx, dev, ghosts>>

\* sets urb_state and state,
SubmitIdle ==
  /\ caller.pc = "pid"
  /\ hc' = [hc EXCEPT !.urb = "IDLE", !.state = "IDLE"]
  /\ caller' = [caller EXCEPT !.pc = "idle"]
  /\ UNCHANGED <<kind, rx, dev, ghosts>>

\* Mutant: an interrupt of the last transfer is cleared.
StartedClean(c, pid) == [c EXCEPT !.on = TRUE, !.pid = pid, !.int = {}]

\* USB_HC_StartXfer: HCTSIZ, CHENA without CHDIS, and the packet in the FIFO.
Started(c, pid) == [c EXCEPT !.on = TRUE, !.pid = pid]

SubmitStart ==
  /\ caller.pc = "idle"
  /\ hc' = Started(hc, caller.pid)
  /\ caller' = [caller EXCEPT !.pc = "wait"]
  /\ UNCHANGED <<kind, rx, dev, ghosts>>

\* The class reads DONE: on to the next packet.
Advance ==
  /\ caller.pc = "wait" /\ hc.urb = "DONE"
  /\ caller' = [caller EXCEPT !.pc = "ready", !.packet = @ + 1]
  /\ UNCHANGED <<kind, hc, rx, dev, ghosts>>

\* The class reads NOTREADY of an OUT pipe: the same packet again.
Resend ==
  /\ caller.pc = "wait" /\ hc.urb = "NOTREADY" /\ kind = "bulk_out"
  /\ caller' = [caller EXCEPT !.pc = "ready"]
  /\ UNCHANGED <<kind, hc, rx, dev, ghosts>>

\* USBH_HUB_SOFProcess polls whatever became of the poll before; it runs in the
\* interrupt, just before the channel's own interrupts are served.  Its period is
\* longer than a channel takes to halt.
Poll ==
  /\ kind = "intr_in" /\ ~hc.halting
  /\ hc.on => hc.int \intersect Unmasked = {}
  /\ hc' = Started([hc EXCEPT !.urb = "IDLE", !.state = "IDLE"], hc.toggle)
  /\ UNCHANGED <<kind, rx, caller, dev, ghosts>>

Caller == SubmitPid \/ SubmitIdle \/ SubmitStart \/ Advance \/ Resend

-----------------------------------------------------------------------------
(* The interrupts *)

Clear(c, bits) == [c EXCEPT !.int = @ \ bits]

\* __HAL_HCD_UNMASK_HALT_HC_INT and USB_HC_Halt.
Halt(c) == [c EXCEPT !.chh = TRUE, !.halting = TRUE]

\* __HAL_HCD_MASK_HALT_HC_INT, and CHH is cleared.
HaltServed(c) == [c EXCEPT !.chh = FALSE, !.int = @ \ {"CHH"}]

\* Mutant: the channel stays halted.
ReactivateNot(c) == c

\* CHENA without CHDIS.  An OUT channel sends nothing before USB_HC_StartXfer
\* writes a packet into the FIFO.
Reactivate(c) == [c EXCEPT !.on = IsIn]

\* Mutant: the limit is one.
CountFailureTwice(c) ==
  Reactivate(IF c.err > 1 THEN [c EXCEPT !.err = 0, !.urb = "ERROR"]
                          ELSE [c EXCEPT !.err = @ + 1, !.urb = "NOTREADY"])

\* CHH in the states XACTERR and DATATGLERR.
CountFailure(c) ==
  Reactivate(IF c.err > 3 THEN [c EXCEPT !.err = 0, !.urb = "ERROR"]
                          ELSE [c EXCEPT !.err = @ + 1, !.urb = "NOTREADY"])

InFirst(c) ==
  CASE "ACK" \in c.int   -> Clear(c, {"ACK"})
    [] "STALL" \in c.int -> [Halt(Clear(c, {"NAK", "STALL"})) EXCEPT !.state = "STALL"]
    [] "DTERR" \in c.int ->
         [Halt(Clear(c, {"NAK", "DTERR"})) EXCEPT !.state = "DATATGLERR"]
    [] OTHER -> c

InHalted(c) ==
  CASE c.state = "XFRC"  -> [c EXCEPT !.urb = "DONE"]
    [] c.state = "STALL" -> [c EXCEPT !.urb = "STALL"]
    [] c.state \in {"XACTERR", "DATATGLERR"} -> CountFailure(c)
    [] c.state = "NAK"   -> Reactivate([c EXCEPT !.urb = "NOTREADY"])
    [] OTHER -> IF IsBulk THEN c ELSE [c EXCEPT !.urb = "NOTREADY"]

\* Mutant: the toggle of an IN pipe stays.
InCompleteSameToggle(c) ==
  LET d == [Clear(c, {"XFRC"}) EXCEPT !.state = "XFRC", !.err = 0]
  IN  IF IsBulk THEN Halt(Clear(d, {"NAK"})) ELSE [d EXCEPT !.urb = "DONE"]

InComplete(c) ==
  LET d == [Clear(c, {"XFRC"}) EXCEPT !.state = "XFRC", !.err = 0, !.toggle = Flip(@)]
  IN  IF IsBulk THEN Halt(Clear(d, {"NAK"})) ELSE [d EXCEPT !.urb = "DONE"]

InNak(c) ==
  LET d == Halt(Clear([c EXCEPT !.err = 0], {"NAK"}))
  IN  IF IsBulk THEN [d EXCEPT !.state = "NAK"] ELSE d

InSecond(c) ==
  CASE "FRMOR" \in c.int -> Halt(Clear(c, {"FRMOR"}))
    [] "XFRC" \in c.int  -> InComplete(c)
    [] "CHH" \in c.int   -> InHalted(HaltServed(c))
    [] "TXERR" \in c.int ->
         Halt([Clear(c, {"TXERR"}) EXCEPT !.state = "XACTERR", !.err = @ + 1])
    [] "NAK" \in c.int   -> InNak(c)
    [] OTHER -> c

\* HCD_HC_IN_IRQHandler: two chains of tests, one after the other.
InIRQ(c) == InSecond(InFirst(c))

OutHalted(c) ==
  CASE c.state = "XFRC"  -> [c EXCEPT !.urb = "DONE", !.toggle = Flip(@)]
    [] c.state = "NAK"   -> [c EXCEPT !.urb = "NOTREADY"]
    [] c.state = "STALL" -> [c EXCEPT !.urb = "STALL"]
    [] c.state \in {"XACTERR", "DATATGLERR"} -> CountFailure(c)
    [] OTHER -> c

\* HCD_HC_OUT_IRQHandler: one chain.
OutIRQ(c) ==
  CASE "XFRC" \in c.int  -> [Halt(Clear(c, {"XFRC"})) EXCEPT !.err = 0, !.state = "XFRC"]
    [] "STALL" \in c.int -> [Halt(Clear(c, {"STALL"})) EXCEPT !.state = "STALL"]
    [] "NAK" \in c.int   -> [Halt(Clear(c, {"NAK"})) EXCEPT !.err = 0, !.state = "NAK"]
    [] "TXERR" \in c.int -> [Halt(Clear(c, {"TXERR"})) EXCEPT !.state = "XACTERR"]
    [] "CHH" \in c.int   -> OutHalted(HaltServed(c))
    [] OTHER -> c

\* One call of the handler.
IRQ ==
  /\ hc.int \intersect Unmasked # {}
  /\ hc' = IF IsIn THEN InIRQ(hc) ELSE OutIRQ(hc)
  /\ done' = IF IsBulk /\ hc'.urb = "DONE" /\ "CHH" \in hc.int \ hc'.int
               THEN done + 1 ELSE done
  /\ strikes' = IF \/ hc'.err = 0 /\ hc.err # 0
                   \/ hc'.state \in {"XFRC", "NAK"} THEN 0 ELSE strikes
  /\ UNCHANGED <<kind, rx, caller, dev, got, faults>>

-----------------------------------------------------------------------------
(* The controller and the endpoint *)

\* The transaction on the bus is over: the channel sends no more, and shows it.
Answered(bit) == hc' = [hc EXCEPT !.on = FALSE, !.int = @ \union {bit}]

Commit(fault) ==
  /\ fault \in FaultKinds
  /\ faults < IF IsBulk THEN MaxFaults ELSE MaxPollFaults
  /\ faults' = faults + 1

Struck == IF IsBulk THEN strikes + 1 ELSE strikes

Nak ==
  /\ hc.on
  /\ Answered("NAK")
  /\ UNCHANGED <<kind, rx, caller, dev, ghosts>>

Stall ==
  /\ hc.on /\ Commit("stall")
  /\ Answered("STALL")
  /\ UNCHANGED <<kind, rx, caller, dev, got, done, strikes>>

Overrun ==
  /\ kind = "intr_in" /\ hc.on /\ Commit("frmor")
  /\ Answered("FRMOR")
  /\ UNCHANGED <<kind, rx, caller, dev, got, done, strikes>>

\* The packet, or the endpoint's answer to it, does not arrive.
TransactionError ==
  /\ hc.on /\ Commit("txerr")
  /\ Answered("TXERR")
  /\ strikes' = Struck
  /\ UNCHANGED <<kind, rx, caller, dev, got, done>>

\* The endpoint has seen the handshake: it sends the next packet, or is ready for
\* it.  The reports of an interrupt endpoint are not numbered.
NextPacket(d) == [toggle |-> Flip(d.toggle), packet |-> IF IsBulk THEN d.packet + 1 ELSE 1]

\* An IN packet with the toggle the channel waits for.  ACK is masked; that of a
\* bulk packet goes with its XFRC, a poll may come before that of a report.
DataIn ==
  /\ IsIn /\ hc.on /\ dev.packet <= MaxPackets /\ dev.toggle = hc.pid
  /\ hc' = [hc EXCEPT !.on = FALSE, !.int = IF IsBulk THEN @ ELSE @ \union {"ACK"}]
  /\ rx' = TRUE
  /\ got' = IF IsBulk THEN Append(got, dev.packet) ELSE got
  /\ \/ dev' = NextPacket(dev) /\ UNCHANGED faults
     \/ Commit("lost") /\ UNCHANGED dev
  /\ UNCHANGED <<kind, caller, done, strikes>>

\* The driver has read the RX FIFO (HCD_RXQLVL_IRQHandler).
DataInComplete ==
  /\ rx /\ rx' = FALSE
  /\ hc' = [hc EXCEPT !.int = @ \union {"XFRC"}]
  /\ UNCHANGED <<kind, caller, dev, ghosts>>

\* An IN packet with the other toggle is acknowledged and dropped.
DataInToggle ==
  /\ IsIn /\ hc.on /\ dev.packet <= MaxPackets /\ dev.toggle # hc.pid
  /\ Answered("DTERR")
  /\ \/ dev' = NextPacket(dev) /\ UNCHANGED faults
     \/ Commit("lost") /\ UNCHANGED dev
  /\ strikes' = Struck
  /\ UNCHANGED <<kind, rx, caller, got, done>>

\* The endpoint takes an OUT packet with the toggle it waits for, drops one with
\* the other toggle, and acknowledges both.
Received ==
  IF dev.toggle = hc.pid
    THEN got' = Append(got, caller.packet) /\ dev' = NextPacket(dev)
    ELSE UNCHANGED <<got, dev>>

DataOut ==
  /\ ~IsIn /\ hc.on
  /\ Received
  /\ \/ Answered("XFRC") /\ UNCHANGED <<faults, strikes>>
     \/ Answered("TXERR") /\ Commit("lost") /\ strikes' = Struck
  /\ UNCHANGED <<kind, rx, caller, done>>

\* The channel is halted: CHH.
Halted ==
  /\ hc.halting
  /\ hc' = [hc EXCEPT !.halting = FALSE, !.on = FALSE, !.int = @ \union {"CHH"}]
  /\ UNCHANGED <<kind, rx, caller, dev, ghosts>>

Device ==
  Nak \/ Stall \/ Overrun \/ TransactionError \/ DataIn \/ DataInToggle \/ DataOut

Next == Caller \/ Poll \/ IRQ \/ Device \/ DataInComplete \/ Halted

Spec == Init /\ [][Next]_vars

\* The class runs and polls, the interrupt is served, the controller ends what it
\* has begun, and an endpoint that is asked again and again has data, or room, in
\* the end.
Fairness ==
  /\ WF_vars(Caller) /\ WF_vars(Poll) /\ WF_vars(IRQ)
  /\ WF_vars(DataInComplete) /\ WF_vars(Halted)
  /\ SF_vars(DataIn \/ DataInToggle \/ DataOut)

FairSpec == Spec /\ Fairness

-----------------------------------------------------------------------------
(* Properties *)

\* The packets of a bulk pipe arrive in order, each once, and each is reported as
\* done once and not before it arrived, whatever is lost and repeated.
Stream == INSTANCE PacketStream
StreamKept == Stream!Spec

(* Where the transfer of a bulk channel is, and what the two ends know of it. *)

Bits == {"XFRC", "STALL", "NAK", "TXERR", "DTERR", "CHH"}

\* The transfer of a bulk channel is in one place: the bus, the RX FIFO, a bit of
\* HCINT, or the halt of the channel; or the channel is quiet.
OnePlace ==
  /\ hc.int = {} \/ \E b \in Bits : hc.int = {b}
  /\ hc.on => ~rx /\ ~hc.halting /\ hc.int = {}
  /\ rx => ~hc.halting /\ hc.int = {} /\ kind = "bulk_in"
  /\ hc.halting => hc.int = {}

Quiet == ~hc.on /\ ~rx /\ ~hc.halting /\ hc.int = {}

\* The channel halts, or has halted.
Ends == hc.halting \/ hc.int = {"CHH"}

\* The interrupt of a complete transfer is still to come, or has come.
Complete == rx \/ hc.int = {"XFRC"}
Completed == Ends /\ hc.state = "XFRC"

\* The class submits to a quiet channel only, and reads DONE of a quiet one.
CallerPlaced ==
  /\ caller.pc # "wait" => Quiet
  /\ caller.pc = "pid" => caller.pid = hc.toggle
  /\ caller.pc = "idle" =>
       caller.pid = hc.toggle /\ hc.state = "IDLE" /\ hc.urb = "IDLE"
  /\ caller.pc = "wait" /\ hc.urb = "DONE" => Quiet
  /\ caller.pc = "wait" /\ hc.urb = "NOTREADY" /\ kind = "bulk_out" => Quiet
  /\ ~Quiet => hc.state # "XFRC" \/ Completed
  /\ Ends => hc.state # "IDLE"
  /\ ~Quiet /\ ~Completed => hc.pid = hc.toggle
  /\ hc.int = {"DTERR"} => kind = "bulk_in"

\* The toggle of the next new IN packet, and the packet the device sends: a new one
\* with this toggle, or the last one with the other.
NextToggle == IF Complete THEN Flip(hc.toggle) ELSE hc.toggle

InAgrees ==
  /\ Len(got) = IF Complete \/ Completed THEN done + 1 ELSE done
  /\ \/ dev.toggle = NextToggle /\ dev.packet = Len(got) + 1
     \/ dev.toggle = Flip(NextToggle) /\ dev.packet = Len(got)

\* An OUT packet has arrived, or the toggles agree.
OutAgrees ==
  /\ caller.packet = IF caller.pc = "wait" /\ hc.urb = "DONE" THEN done ELSE done + 1
  /\ \/ dev.toggle = hc.toggle /\ Len(got) = done /\ ~Complete /\ ~Completed
     \/ dev.toggle = Flip(hc.toggle) /\ Len(got) = done + 1

\* The inductive invariant behind StreamKept.
ChannelInv ==
  IsBulk => /\ OnePlace /\ CallerPlaced
            /\ kind = "bulk_in" => InAgrees
            /\ kind = "bulk_out" => OutAgrees

\* A failure is only final after three transactions in a row that failed.
ErrorAfterStrikes ==
  [][IsBulk /\ hc'.urb = "ERROR" /\ hc.urb # "ERROR" => strikes >= 3]_vars

\* Every packet of a bulk pipe is transferred in the end, unless the endpoint halts
\* or the transfer of an OUT packet fails for good.
AllTransferred ==
  []( hc.urb # "STALL" /\ (hc.urb = "ERROR" => kind = "bulk_in") )
    => <>(IsBulk => done = MaxPackets)

\* The reports of an interrupt endpoint are read again and again, although a poll
\* may race the end of the poll before, and the toggles part.
ReportsRead == kind = "intr_in" => []<>(hc.urb = "DONE")
===============================================================================
