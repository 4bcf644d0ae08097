------------------------------ MODULE Msc_proofs ------------------------------
(***************************************************************************)
(* TLAPS proofs about Msc, for every number of packets of a command and of *)
(* units: type correctness, and that a command is completed only when the  *)
(* device has executed it.  Once a cleared halt has parted the toggles the *)
(* proof follows the command to the place where it waits for ever.         *)
(***************************************************************************)
EXTENDS Msc, TLAPS

Sides == {"in", "out"}

-----------------------------------------------------------------------------
(* Types *)

LEMMA SizeTypes == \A op \in Ops : Size(op) \in 0..Packets
BY MscAssumption DEF Size, Ops, InitOps, Commands

LEMMA LoadTypes ==
  /\ <<"cbw", 0>> \in Loads
  /\ \A v \in Verdicts : <<v, 0>> \in Loads
  /\ \A n \in 1..Packets : <<"data", n>> \in Loads
BY DEF Loads, Verdicts

LEMMA PartTypes ==
  ASSUME TypeOK, NEW n \in Nat, n > 0, n <= bot.size
  PROVE  Part(n) \in Loads
<1>1. bot.size \in 0..Packets
  BY DEF TypeOK, Transports
<1>2. bot.size - n + 1 \in 1..Packets
  BY <1>1, MscAssumption
<1>3. QED
  BY <1>2, LoadTypes DEF Part

\* Starting a transfer keeps the channels' types, and sets the URB to idle.
LEMMA ReceivesTypes ==
  ASSUME TypeOK
  PROVE  /\ Receives \in [Sides -> Channel]
         /\ Receives["out"] = pipe["out"]
         /\ Receives["in"].on /\ Receives["in"].urb = "IDLE"
         /\ Receives["in"].toggle = pipe["in"].toggle
BY DEF TypeOK, Receives, Channel, Sides

LEMMA SendsTypes ==
  ASSUME TypeOK, NEW load \in Loads
  PROVE  /\ Sends(load) \in [Sides -> Channel]
         /\ Sends(load)["in"] = pipe["in"]
         /\ Sends(load)["out"].on /\ Sends(load)["out"].urb = "IDLE"
         /\ Sends(load)["out"].toggle = pipe["out"].toggle
         /\ Sends(load)["out"].load = load
BY DEF TypeOK, Sends, Channel, Sides

\* The end of a transfer.
LEMMA EndsTypes ==
  ASSUME TypeOK, NEW p \in Sides, NEW u \in {"DONE", "NOTREADY", "STALL"}, Ends(p, u)
  PROVE  /\ pipe' \in [Sides -> Channel]
         /\ \A q \in Sides \ {p} : pipe'[q] = pipe[q]
         /\ ~pipe'[p].on /\ pipe'[p].urb = u /\ pipe'[p].load = pipe[p].load
         /\ pipe'[p].toggle = IF u = "DONE" THEN Flip(pipe[p].toggle) ELSE pipe[p].toggle
<1> DEFINE t == IF u = "DONE" THEN Flip(pipe[p].toggle) ELSE pipe[p].toggle
<1> DEFINE ch == [pipe[p] EXCEPT !.urb = u, !.on = FALSE, !.toggle = t]
<1>1. pipe[p] \in Channel /\ pipe \in [Sides -> Channel]
  BY DEF TypeOK, Sides
<1>2. t \in Toggles
  BY <1>1 DEF Channel, Toggles, Flip
<1>3. pipe' = [pipe EXCEPT ![p] = ch]
  BY DEF Ends
<1> HIDE DEF t
<1>4. /\ ch \in Channel
      /\ ~ch.on /\ ch.urb = u /\ ch.load = pipe[p].load /\ ch.toggle = t
  BY <1>1, <1>2 DEF Channel
<1> HIDE DEF ch
<1>5. pipe' \in [Sides -> Channel] /\ pipe'[p] = ch /\ \A q \in Sides \ {p} : pipe'[q] = pipe[q]
  BY <1>1, <1>3, <1>4
<1>6. QED
  BY <1>4, <1>5 DEF t

\* What the types of the two ends say.
LEMMA Typed ==
  ASSUME TypeOK
  PROVE  /\ bot \in Transports /\ dev \in Disks /\ pipe \in [Sides -> Channel]
         /\ pipe["in"] \in Channel /\ pipe["out"] \in Channel
         /\ bot.left \in Nat /\ bot.size \in Nat /\ dev.moved \in Nat /\ dev.size \in Nat
BY MscAssumption DEF TypeOK, Sides, Transports, Disks

\* Moving on to another state of the transport.
LEMMA CaseTypes ==
  ASSUME TypeOK, NEW s, NEW to \in BotStates, Case(s, to)
  PROVE  /\ bot' \in Transports /\ bot.state = s /\ bot'.state = to
         /\ bot'.cmd = bot.cmd /\ bot'.op = bot.op /\ bot'.lun = bot.lun
         /\ bot'.size = bot.size /\ bot'.left = bot.left /\ bot'.intact = bot.intact
BY Typed DEF Case, Transports

\* A packet of data was moved.
LEMMA MovedTypes ==
  ASSUME TypeOK, Bounded, NEW p \in Sides, NEW intact \in BOOLEAN, Moved(p, intact),
         bot.state \in {"DATA_IN_WAIT", "DATA_OUT_WAIT"}
  PROVE  /\ bot' \in Transports /\ UNCHANGED <<dev, parted>> /\ pipe[p].urb = "DONE"
         /\ bot'.cmd = bot.cmd /\ bot'.op = bot.op /\ bot'.lun = bot.lun
         /\ bot'.size = bot.size /\ bot'.intact = (bot.intact /\ intact)
         /\ bot'.left = bot.left - 1 /\ bot.left > 0
         /\ \/ /\ bot.left = 1 /\ bot'.state = "RECEIVE_CSW" /\ pipe' = pipe
            \/ /\ bot.left > 1 /\ bot'.state = bot.state
               /\ pipe' = IF p = "in" THEN Receives ELSE Sends(Part(bot.left - 1))
<1>1. /\ bot.left \in 0..Packets /\ bot.left > 0 /\ bot.left <= bot.size
      /\ UNCHANGED <<dev, parted>> /\ pipe[p].urb = "DONE"
  BY Typed DEF Bounded, Moved, Answer, Transports
<1>2. bot.left - 1 \in 0..Packets
  BY <1>1, MscAssumption
<1>3. bot' = [bot EXCEPT !.left = bot.left - 1, !.intact = bot.intact /\ intact,
                         !.state = IF bot.left > 1 THEN bot.state ELSE "RECEIVE_CSW"]
  BY DEF Moved
<1>4. pipe' = IF bot.left = 1 THEN pipe
              ELSE IF p = "in" THEN Receives ELSE Sends(Part(bot.left - 1))
  BY DEF Moved
<1>5. CASE bot.left = 1
  <2>1. bot' = [bot EXCEPT !.left = bot.left - 1, !.intact = bot.intact /\ intact,
                           !.state = "RECEIVE_CSW"]
    BY <1>3, <1>5
  <2>2. QED
    BY <1>1, <1>2, <1>4, <1>5, <2>1, Typed DEF Transports, BotStates
<1>6. CASE bot.left > 1
  <2>1. bot' = [bot EXCEPT !.left = bot.left - 1, !.intact = bot.intact /\ intact,
                           !.state = bot.state]
    BY <1>3, <1>6
  <2>2. /\ bot' \in Transports
        /\ bot'.cmd = bot.cmd /\ bot'.op = bot.op /\ bot'.lun = bot.lun
        /\ bot'.size = bot.size /\ bot'.intact = (bot.intact /\ intact)
        /\ bot'.left = bot.left - 1 /\ bot'.state = bot.state
    BY <1>2, <2>1, Typed DEF Transports
  <2>3. QED
    BY <1>1, <1>4, <1>6, <2>2
<1>7. QED
  BY <1>1, <1>5, <1>6

\* The stage after the CBW.
LEMMA FirstStageTypes ==
  ASSUME TypeOK
  PROVE  /\ FirstStage \in {"RECEIVE_CSW", "DATA_IN", "DATA_OUT"}
         /\ bot.left = 0 <=> FirstStage = "RECEIVE_CSW"
         /\ FirstStage = "DATA_IN" => DataIn(bot.op)
         /\ FirstStage = "DATA_OUT" => ~DataIn(bot.op)
BY DEF FirstStage

\* One call of the transport keeps the types and the bounds, and ends the command when
\* its result is not busy.
LEMMA BotTypes ==
  ASSUME TypeOK, Bounded, NEW l \in Luns, NEW r, BotProcess(l, r)
  PROVE  /\ bot' \in Transports /\ pipe' \in [Sides -> Channel] /\ dev' \in Disks
         /\ parted' \in BOOLEAN /\ r \in Results /\ Bounded'
         /\ bot'.op = bot.op /\ bot'.size = bot.size
         /\ bot'.cmd = IF r = "BUSY" THEN bot.cmd ELSE "SEND"
<1> DEFINE Goal ==
      /\ bot' \in Transports /\ pipe' \in [Sides -> Channel] /\ dev' \in Disks
      /\ parted' \in BOOLEAN /\ r \in Results /\ Bounded'
      /\ bot'.op = bot.op /\ bot'.size = bot.size
      /\ bot'.cmd = IF r = "BUSY" THEN bot.cmd ELSE "SEND"
<1> SUFFICES Goal
  OBVIOUS
<1> USE Typed DEF Results
<1>1. parted \in BOOLEAN
  BY DEF TypeOK
<1>2. CASE SendCBW(l, r)
  <2>1. /\ bot' \in Transports /\ bot'.state = "SEND_CBW_WAIT" /\ r = "BUSY"
        /\ bot'.op = bot.op /\ bot'.size = bot.size /\ bot'.left = bot.left
        /\ bot'.cmd = bot.cmd
    BY <1>2 DEF SendCBW, Transports, BotStates
  <2>2. pipe' = Sends(<<"cbw", 0>>) /\ UNCHANGED <<dev, parted>>
    BY <1>2 DEF SendCBW
  <2>3. Bounded'
    BY <2>1, <2>2, SendsTypes, LoadTypes DEF Bounded
  <2>4. QED
    BY <1>1, <2>1, <2>2, <2>3, SendsTypes, LoadTypes
<1>3. CASE SentCBW(r)
  <2>1. UNCHANGED <<pipe, dev, parted>> /\ r = "BUSY"
    BY <1>3 DEF SentCBW, NoDevice
  <2>2. PICK to \in {FirstStage, "SEND_CBW", "ERROR_OUT"} : Case("SEND_CBW_WAIT", to)
    BY <1>3 DEF SentCBW
  <2>3. to \in BotStates
    BY <2>2, FirstStageTypes DEF BotStates
  <2>4. Bounded'
    BY <2>1, <2>2, <2>3, CaseTypes, FirstStageTypes DEF Bounded
  <2>5. QED
    BY <1>1, <2>1, <2>2, <2>3, <2>4, CaseTypes
<1>4. CASE Transfer(r)
  <2>1. UNCHANGED <<dev, parted>> /\ r = "BUSY"
    BY <1>4 DEF Transfer
  <2>2. CASE Case("DATA_IN", "DATA_IN_WAIT") /\ pipe' = Receives
    <3>1. Bounded'
      BY <2>1, <2>2, CaseTypes, ReceivesTypes DEF Bounded, BotStates
    <3>2. QED
      BY <1>1, <2>1, <2>2, <3>1, CaseTypes, ReceivesTypes DEF BotStates
  <2>3. CASE Case("DATA_OUT", "DATA_OUT_WAIT") /\ pipe' = Sends(Part(bot.left))
    <3>1. Part(bot.left) \in Loads
      BY <2>3, CaseTypes, PartTypes DEF Bounded, BotStates
    <3>2. Bounded'
      BY <2>1, <2>3, <3>1, CaseTypes, SendsTypes DEF Bounded, BotStates
    <3>3. QED
      BY <1>1, <2>1, <2>3, <3>1, <3>2, CaseTypes, SendsTypes DEF BotStates
  <2>4. CASE Case("RECEIVE_CSW", "RECEIVE_CSW_WAIT") /\ pipe' = Receives
    <3>1. Bounded'
      BY <2>1, <2>4, CaseTypes, ReceivesTypes DEF Bounded, BotStates
    <3>2. QED
      BY <1>1, <2>1, <2>4, <3>1, CaseTypes, ReceivesTypes DEF BotStates
  <2>5. QED
    BY <1>4, <2>2, <2>3, <2>4 DEF Transfer
<1>5. ASSUME NEW p \in Sides, NEW intact \in BOOLEAN, Moved(p, intact), r = "BUSY",
             bot.state \in {"DATA_IN_WAIT", "DATA_OUT_WAIT"}
      PROVE  Goal
  <2>1. bot.left > 1 => Part(bot.left - 1) \in Loads
    BY <1>5, MovedTypes, PartTypes DEF Bounded
  <2>2. pipe' \in [Sides -> Channel]
    BY <1>5, <2>1, MovedTypes, ReceivesTypes, SendsTypes
  <2>3. \A q \in Sides : pipe'[q].on => pipe'[q].urb = "IDLE"
    BY <1>5, <2>1, MovedTypes, ReceivesTypes, SendsTypes DEF Bounded, Sides
  <2>4. Bounded'
    BY <1>5, <2>3, MovedTypes DEF Bounded, Sides
  <2>5. QED
    BY <1>1, <1>5, <2>2, <2>4, MovedTypes
<1>6. ASSUME NEW s, NEW to \in {"DATA_OUT", "ERROR_OUT", "ERROR_IN", "RECEIVE_CSW"}, Case(s, to),
             to = "DATA_OUT" => s = "DATA_OUT_WAIT",
             UNCHANGED <<pipe, dev, parted>>, r = "BUSY"
      PROVE  Goal
  <2>1. to \in BotStates
    BY DEF BotStates
  <2>2. Bounded'
    BY <1>6, <2>1, CaseTypes DEF Bounded
  <2>3. QED
    BY <1>1, <1>6, <2>1, <2>2, CaseTypes
<1>7. CASE SentData(r)
  <2>1. r = "BUSY" /\ bot.state = "DATA_OUT_WAIT"
    BY <1>7 DEF SentData
  <2>2. CASE Moved("out", TRUE)
    BY <1>5, <2>1, <2>2 DEF Sides
  <2>3. CASE ~Moved("out", TRUE)
    <3>1. PICK to \in {"DATA_OUT", "ERROR_OUT"} :
            Case("DATA_OUT_WAIT", to) /\ UNCHANGED <<pipe, dev, parted>>
      BY <1>7, <2>3 DEF SentData, NoDevice
    <3>2. QED
      BY <1>6, <2>1, <3>1
  <2>4. QED
    BY <2>2, <2>3
<1>8. CASE ReceivedData(r)
  <2>1. r = "BUSY" /\ bot.state = "DATA_IN_WAIT"
    BY <1>8 DEF ReceivedData
  <2>2. CASE Moved("in", pipe["in"].load = Part(bot.left))
    BY <1>5, <2>1, <2>2 DEF Sides
  <2>3. CASE ~Moved("in", pipe["in"].load = Part(bot.left))
    <3>1. Case("DATA_IN_WAIT", "ERROR_IN") /\ UNCHANGED <<pipe, dev, parted>>
      BY <1>8, <2>3 DEF ReceivedData, NoDevice
    <3>2. QED
      BY <1>6, <2>1, <3>1
  <2>4. QED
    BY <2>2, <2>3
<1>9. CASE ReceivedCSW(r)
  <2>1. UNCHANGED <<pipe, dev, parted>>
    BY <1>9 DEF ReceivedCSW, NoDevice
  <2>2. CASE Case("RECEIVE_CSW_WAIT", "ERROR_IN") /\ r = "BUSY"
    BY <1>6, <2>1, <2>2
  <2>3. CASE r = DecodeCSW /\ bot' = [bot EXCEPT !.state = "SEND_CBW", !.cmd = "SEND"]
    <3>1. r \in {"OK", "FAIL"}
      BY <2>3 DEF DecodeCSW
    <3>2. /\ bot' \in Transports /\ bot'.state = "SEND_CBW" /\ bot'.cmd = "SEND"
          /\ bot'.op = bot.op /\ bot'.size = bot.size /\ bot'.left = bot.left
      BY <2>3 DEF Transports, BotStates
    <3>3. Bounded'
      BY <2>1, <3>2 DEF Bounded
    <3>4. QED
      BY <1>1, <2>1, <3>1, <3>2, <3>3
  <2>4. QED
    BY <1>9, <2>2, <2>3 DEF ReceivedCSW
<1>10. ASSUME NEW s, NEW p \in Sides, NEW to \in {"RECEIVE_CSW", "ERROR_IN"}, Abort(s, p, to), r = "BUSY"
       PROVE  Goal
  <2>1. bot' \in Transports /\ UNCHANGED <<bot.op, bot.size, bot.cmd, bot.left>> /\ bot'.state = to
    BY <1>10, CaseTypes DEF Abort, BotStates
  <2>2. dev' = Cleared(p) /\ pipe' = (IF p = "out" THEN ToggledOut(pipe) ELSE pipe)
    BY <1>10 DEF Abort
  <2>3. dev' \in Disks /\ UNCHANGED <<dev.phase, dev.moved, dev.size>>
    BY <2>2 DEF Cleared, Disks, Sides, Toggles
  <2>4. ToggledOut(pipe) \in [Sides -> Channel]
    BY DEF ToggledOut, Channel, Sides, Toggles, Flip
  <2>5. \A q \in Sides : ToggledOut(pipe)[q].on = pipe[q].on /\ ToggledOut(pipe)[q].urb = pipe[q].urb
    BY DEF ToggledOut, Channel, Sides
  <2>6. Bounded'
    BY <2>1, <2>2, <2>3, <2>5 DEF Bounded, Sides
  <2>7. parted' \in BOOLEAN
    BY <1>1, <1>10, Zenon DEF Abort
  <2>8. QED
    BY <1>10, <2>1, <2>2, <2>3, <2>4, <2>6, <2>7
<1>11. QED
  BY <1>2, <1>3, <1>4, <1>7, <1>8, <1>9, <1>10 DEF BotProcess, Sides
\* The same for a call of a SCSI request, which may have to prepare its command first.
LEMMA ScsiTypes ==
  ASSUME TypeOK, Bounded, NEW l \in Luns, NEW op \in Ops, NEW size \in 0..Packets, NEW r,
         Scsi(l, op, size, r)
  PROVE  /\ bot' \in Transports /\ pipe' \in [Sides -> Channel] /\ dev' \in Disks
         /\ parted' \in BOOLEAN /\ r \in Results /\ Bounded'
<1>1. CASE Prepare(op, size, r)
  <2>1. UNCHANGED <<pipe, dev, parted>> /\ r = "BUSY"
    BY <1>1 DEF Prepare, NoDevice
  <2>2. bot' = [bot EXCEPT !.state = "SEND_CBW", !.cmd = "WAIT", !.op = op,
                           !.size = size, !.left = size, !.intact = TRUE]
    BY <1>1 DEF Prepare
  <2>3. bot' \in Transports /\ bot'.state = "SEND_CBW" /\ bot'.left = bot'.size
    BY <2>2, Typed DEF Transports, BotStates
  <2>4. Bounded'
    BY <2>1, <2>3, MscAssumption DEF Bounded, Transports
  <2>5. QED
    BY <2>1, <2>3, <2>4, Typed DEF Results, TypeOK
<1>2. CASE BotProcess(l, r)
  BY <1>2, BotTypes
<1>3. QED
  BY <1>1, <1>2 DEF Scsi

Units == [Luns -> [state : UnitStates, error : {"OK", "NOT_READY", "ERROR"}]]
MscStates == [state : {"INIT", "IDLE"} \union Commands, lun : 0..MaxLun]

LEMMA UnitTypes ==
  ASSUME TypeOK, NEW l \in Luns, NEW u \in UnitStates, NEW e \in {"OK", "NOT_READY", "ERROR"},
         UnitIs(l, u, e)
  PROVE  /\ unit' \in Units /\ unit'[l].state = u
         /\ \A k \in Luns \ {l} : unit'[k] = unit[k]
BY DEF TypeOK, UnitIs, Units

LEMMA NextLunTypes ==
  ASSUME TypeOK, NextLun, msc.lun < MaxLun
  PROVE  msc' \in MscStates /\ msc'.state = msc.state /\ msc'.lun = msc.lun + 1
BY MscAssumption DEF TypeOK, NextLun, MscStates

\* A unit that comes up keeps the types, and is never taken for one in use.
LEMMA InitResultTypes ==
  ASSUME TypeOK, NEW l \in Luns, NEW op \in InitOps, NEW r \in Results, msc.lun < MaxLun,
         InitResult(l, op, r)
  PROVE  /\ unit' \in Units /\ msc' \in MscStates /\ msc'.state = msc.state
         /\ \A k \in Luns : unit'[k] = unit[k] \/ unit'[k].state \notin Commands
         /\ r = "BUSY" => unit'[l].state = op /\ msc' = msc
<1>1. PICK u \in UnitStates \ Commands, e \in {"OK", "NOT_READY", "ERROR"} :
        UnitIs(l, u, e) /\ (r = "BUSY" => u = op)
  BY DEF InitResult, Sensed, UnitStates, Commands, Ops, InitOps, Results
<1>2. NextLun \/ UNCHANGED msc
  BY DEF InitResult, Sensed, InitOps, Results
<1>3. r = "BUSY" => UNCHANGED msc
  BY DEF InitResult
<1>4. msc \in MscStates
  BY DEF TypeOK, MscStates
<1>5. QED
  BY <1>1, <1>2, <1>3, <1>4, UnitTypes, NextLunTypes

LEMMA LunTypes == MaxLun \in Nat /\ Luns \subseteq Nat /\ \A n \in 0..MaxLun : n < MaxLun => n \in Luns
BY MscAssumption DEF Luns

\* The fields of the application.
Applications ==
  [busy : BOOLEAN, op : Commands, lun : Luns, rdwr : Results, ret : {"none", "OK", "FAIL"}]

LEMMA ReturnTypes ==
  ASSUME TypeOK, NEW r \in Results, Return(r)
  PROVE  /\ msc' \in MscStates /\ msc'.state = "IDLE" /\ app' \in Applications
         /\ ~app'.busy /\ app'.rdwr = r /\ app'.lun = app.lun /\ app'.op = app.op
BY DEF TypeOK, Return, MscStates, Applications

LEMMA RdWrResultTypes ==
  ASSUME TypeOK, NEW op \in Commands \union {"SENSE"}, NEW r \in Results,
         RdWrResult(op, r)
  PROVE  /\ unit' \in Units /\ msc' \in MscStates /\ app' \in Applications
         /\ msc'.state \in {"IDLE", msc.state} /\ app'.lun = app.lun /\ app'.op = app.op
         /\ \A k \in Luns \ {app.lun} : unit'[k] = unit[k]
         /\ \/ r = "BUSY" /\ UNCHANGED <<unit, msc, app>>
            \/ /\ r = "OK" /\ op # "SENSE" /\ unit'[app.lun].state = "IDLE"
               /\ ~app'.busy /\ app'.rdwr = "OK"
            \/ /\ r = "OK" /\ op = "SENSE" /\ unit'[app.lun].state = "IDLE"
               /\ ~app'.busy /\ app'.rdwr = "FAIL"
            \/ r = "FAIL" /\ unit'[app.lun].state = "SENSE" /\ UNCHANGED <<msc, app>>
<1>1. app \in Applications /\ msc \in MscStates /\ unit \in Units /\ app.lun \in Luns
  BY DEF TypeOK, Applications, MscStates, Units
<1>2. ASSUME NEW u \in UnitStates, unit' = [unit EXCEPT ![app.lun].state = u]
      PROVE  /\ unit' \in Units /\ unit'[app.lun].state = u
             /\ \A k \in Luns \ {app.lun} : unit'[k] = unit[k]
  BY <1>1, <1>2 DEF Units
<1>3. CASE r = "BUSY"
  BY <1>1, <1>3 DEF RdWrResult
<1>4. CASE r = "OK" /\ op # "SENSE"
  <2>1. unit' = [unit EXCEPT ![app.lun].state = "IDLE"] /\ Return("OK")
    BY <1>4 DEF RdWrResult
  <2>2. QED
    BY <1>2, <1>4, <2>1, ReturnTypes DEF UnitStates, Results
<1>5. CASE r = "OK" /\ op = "SENSE"
  <2>1. UnitIs(app.lun, "IDLE", "ERROR") /\ Return("FAIL")
    BY <1>5 DEF RdWrResult
  <2>2. QED
    BY <1>1, <1>5, <2>1, UnitTypes, ReturnTypes DEF UnitStates, Results
<1>6. CASE r = "FAIL"
  <2>1. unit' = [unit EXCEPT ![app.lun].state = "SENSE"] /\ UNCHANGED <<msc, app>>
    BY <1>6 DEF RdWrResult
  <2>2. QED
    BY <1>1, <1>2, <1>6, <2>1 DEF UnitStates, Ops, InitOps
<1>7. QED
  BY <1>3, <1>4, <1>5, <1>6 DEF Results
-----------------------------------------------------------------------------
(* Every step keeps the types and the bounds *)

\* The invariant of the types: with what a busy application and the phases mean.
TypeInv == TypeOK /\ Bounded /\ Engaged

\* The toggles of the device, with that of endpoint p flipped.
Flipped(p) == [dev.toggle EXCEPT ![p] = Flip(dev.toggle[p])]

LEMMA FlippedTypes ==
  ASSUME TypeOK, NEW p \in Sides
  PROVE  /\ Flipped(p) \in [Sides -> Toggles] /\ Flipped(p)[p] = Flip(dev.toggle[p])
         /\ \A q \in Sides \ {p} : Flipped(p)[q] = dev.toggle[q]
BY Typed DEF Disks, Sides, Toggles, Flip, Flipped

\* The next packet of data.
LEMMA AdvanceTypes ==
  ASSUME TypeOK, Bounded, dev.phase \in {"in", "out"}, NEW p \in Sides
  PROVE  /\ Advance(p) \in Disks
         /\ Advance(p).moved = dev.moved + 1 /\ Advance(p).toggle = Flipped(p)
         /\ Advance(p).op = dev.op /\ Advance(p).lun = dev.lun /\ Advance(p).size = dev.size
         /\ Advance(p).intact = dev.intact /\ Advance(p).verdict = dev.verdict
         /\ Advance(p).halted = dev.halted
         /\ \/ dev.moved + 1 = dev.size /\ Advance(p).phase = "csw"
            \/ dev.moved + 1 < dev.size /\ Advance(p).phase = dev.phase
<1>1. dev.moved < dev.size /\ dev.size \in 0..Packets /\ dev.moved \in Nat
  BY Typed DEF Bounded, Disks
<1>2. dev.moved + 1 \in 0..Packets
  BY <1>1, MscAssumption
<1>3. Advance(p) = [dev EXCEPT !.moved = dev.moved + 1, !.toggle = Flipped(p),
                               !.phase = IF dev.moved + 1 = dev.size THEN "csw" ELSE dev.phase]
  BY Typed DEF Advance, Disks, Flipped
<1> DEFINE ph == IF dev.moved + 1 = dev.size THEN "csw" ELSE dev.phase
<1>4. dev \in Disks /\ Flipped(p) \in [Sides -> Toggles]
  BY Typed, FlippedTypes
<1>5. /\ ph \in {"in", "out", "csw"}
      /\ \/ dev.moved + 1 = dev.size /\ ph = "csw"
         \/ dev.moved + 1 < dev.size /\ ph = dev.phase
  BY <1>1
<1> HIDE DEF ph
<1>6. Advance(p) = [dev EXCEPT !.moved = dev.moved + 1, !.toggle = Flipped(p), !.phase = ph]
  BY <1>3 DEF ph
<1>7. QED
  BY <1>2, <1>4, <1>5, <1>6 DEF Disks, Sides

\* The device keeps the types and the bounds, and changes neither the transport nor the
\* units.
LEMMA DeviceTypes ==
  ASSUME TypeInv, Device
  PROVE  /\ pipe' \in [Sides -> Channel] /\ dev' \in Disks /\ Bounded'
         /\ count' \in [commands : 0..MaxCommands, faults : 0..MaxFaults]
         /\ UNCHANGED <<msc, unit, bot, app, parted>>
<1> USE Typed DEF TypeInv
<1> DEFINE Goal ==
      /\ pipe' \in [Sides -> Channel] /\ dev' \in Disks /\ Bounded'
      /\ count' \in [commands : 0..MaxCommands, faults : 0..MaxFaults]
      /\ UNCHANGED <<msc, unit, bot, app, parted>>
<1> SUFFICES Goal
  OBVIOUS
<1>1. count \in [commands : 0..MaxCommands, faults : 0..MaxFaults]
  BY DEF TypeOK
<1>2. ASSUME NEW kind, Commit(kind)
      PROVE  count' \in [commands : 0..MaxCommands, faults : 0..MaxFaults]
  BY <1>1, <1>2, MscAssumption DEF Commit
<1>3. ASSUME NEW p \in Sides, NEW u \in {"DONE", "NOTREADY", "STALL"}, Ends(p, u),
             dev' \in Disks, dev'.phase \in {"in", "out"} => dev'.moved < dev'.size,
             UNCHANGED <<msc, unit, bot, app, parted>>,
             count' \in [commands : 0..MaxCommands, faults : 0..MaxFaults]
      PROVE  Goal
  <2>1. \A q \in Sides : pipe'[q].on => pipe'[q].urb = "IDLE"
    BY <1>3, EndsTypes DEF Bounded, Sides
  <2>2. QED
    BY <1>3, <2>1, EndsTypes DEF Bounded, Sides
<1>4. CASE NotReady
  BY <1>1, <1>3, <1>4 DEF NotReady, Sides, Bounded
<1>5. CASE Stalled("in") \/ Stalled("out")
  BY <1>1, <1>3, <1>5 DEF Stalled, Sides, Bounded
<1>6. CASE DropOut
  BY <1>1, <1>3, <1>6 DEF DropOut, Host, Sides, Bounded
<1>7. dev.phase \in {"in", "out"} =>
        \A p \in Sides : Advance(p).phase \in {"in", "out"} => Advance(p).moved < Advance(p).size
  BY AdvanceTypes
<1>8. CASE TakeCBW
  <2>1. PICK v \in Verdicts :
          /\ IF v = "failed" THEN Commit("fail") ELSE UNCHANGED count
          /\ dev' = [dev EXCEPT !.phase = IF bot.size = 0 THEN "csw"
                                          ELSE IF DataIn(bot.op) THEN "in" ELSE "out",
                                !.op = bot.op, !.lun = bot.lun, !.size = bot.size, !.moved = 0,
                                !.intact = TRUE, !.verdict = v, !.toggle = Flipped("out")]
    BY <1>8 DEF TakeCBW, Disks, Flipped
  <2>2. count' \in [commands : 0..MaxCommands, faults : 0..MaxFaults]
    BY <1>1, <1>2, <2>1
  <2>3. dev' \in Disks /\ (dev'.phase \in {"in", "out"} => dev'.moved < dev'.size)
    <3>1. bot.op \in Ops /\ bot.lun \in Luns /\ bot.size \in 0..Packets /\ bot.size \in Nat
      BY DEF Transports
    <3>2. DEFINE ph == IF bot.size = 0 THEN "csw" ELSE IF DataIn(bot.op) THEN "in" ELSE "out"
    <3>3. ph \in {"csw", "in", "out"} /\ (ph \in {"in", "out"} => 0 < bot.size)
      BY <3>1
    <3> HIDE DEF ph
    <3>4. dev' = [dev EXCEPT !.phase = ph, !.op = bot.op, !.lun = bot.lun, !.size = bot.size,
                             !.moved = 0, !.intact = TRUE, !.verdict = v,
                             !.toggle = Flipped("out")]
      BY <2>1 DEF ph
    <3>5. Flipped("out") \in [Sides -> Toggles] /\ 0 \in 0..Packets
      BY FlippedTypes, MscAssumption DEF Sides
    <3>6. QED
      BY <3>1, <3>3, <3>4, <3>5 DEF Disks, Sides
  <2>4. QED
    BY <1>3, <1>8, <2>2, <2>3 DEF TakeCBW, Host, Sides
<1>9. CASE TakeInvalid
  <2>1. dev' \in Disks /\ dev'.phase = "invalid"
    <3>1. dev' = [dev EXCEPT !.phase = "invalid", !.halted = {"in", "out"},
                             !.toggle = Flipped("out")]
      BY <1>9 DEF TakeInvalid, Disks, Flipped
    <3>2. QED
      BY <3>1, FlippedTypes DEF Disks, Sides
  <2>2. QED
    BY <1>1, <1>3, <1>9, <2>1 DEF TakeInvalid, Host, Sides
<1>10. CASE TakeData
  <2>1. dev' \in Disks /\ dev'.phase = Advance("out").phase /\ dev'.moved = Advance("out").moved
        /\ dev'.size = Advance("out").size
    BY <1>10, AdvanceTypes DEF TakeData, Disks, Sides
  <2>2. QED
    BY <1>1, <1>3, <1>7, <1>10, <2>1 DEF TakeData, Host, Sides
<1>11. CASE Send
  <2>1. dev' \in Disks /\ (dev'.phase \in {"in", "out"} => dev'.moved < dev'.size)
    <3>1. CASE dev.phase = "in"
      BY <1>7, <1>11, <3>1, AdvanceTypes DEF Send, Sides
    <3>2. CASE dev.phase # "in"
      <4>1. dev' = [dev EXCEPT !.phase = "cbw", !.toggle = Flipped("in")]
        BY <1>11, <3>2 DEF Send, Disks, Flipped
      <4>2. QED
        BY <4>1, FlippedTypes DEF Disks, Sides
    <3>3. QED
      BY <3>1, <3>2
  <2>2. pipe' \in [Sides -> Channel] /\ pipe'["out"] = pipe["out"]
        /\ (pipe'["in"].on => pipe'["in"] = pipe["in"])
    <3>1. dev.phase = "in" => <<"data", dev.moved + 1>> \in Loads
      <4>1. dev.phase = "in" => dev.moved + 1 \in 1..Packets
        BY MscAssumption DEF Bounded, Disks
      <4>2. QED
        BY <4>1, LoadTypes
    <3>2. dev.phase # "in" => <<dev.verdict, 0>> \in Loads
      BY LoadTypes DEF Disks
    <3>3. QED
      BY <1>11, <3>1, <3>2 DEF Send, Channel, Sides, Toggles, Flip
  <2>3. Bounded'
    BY <1>11, <2>1, <2>2 DEF Send, Host, Bounded, Sides
  <2>4. QED
    BY <1>1, <1>11, <2>1, <2>2, <2>3 DEF Send, Host
<1>12. CASE Halt
  <2>1. dev' \in Disks /\ dev'.phase = "csw"
    BY <1>12 DEF Halt, Disks, Verdicts, Sides
  <2>2. QED
    BY <1>2, <1>12, <2>1 DEF Halt, Host, Bounded
<1>13. QED
  BY <1>4, <1>5, <1>6, <1>8, <1>9, <1>10, <1>11, <1>12 DEF Device, Accepts

\* Every step keeps the invariant of the types.
LEMMA TypeStep == TypeInv /\ [Next]_vars => TypeInv'
<1> SUFFICES ASSUME TypeInv, [Next]_vars
             PROVE  TypeInv'
  OBVIOUS
<1> USE DEF TypeInv
<1>1. /\ unit \in Units /\ msc \in MscStates /\ app \in Applications /\ parted \in BOOLEAN
      /\ count \in [commands : 0..MaxCommands, faults : 0..MaxFaults]
      /\ app.lun \in Luns /\ msc.lun \in 0..MaxLun
  BY DEF TypeOK, Units, MscStates, Applications
<1>2. ASSUME unit' \in Units, msc' \in MscStates, app' \in Applications,
             bot' \in Transports, pipe' \in [Sides -> Channel], dev' \in Disks, parted' \in BOOLEAN,
             count' \in [commands : 0..MaxCommands, faults : 0..MaxFaults]
      PROVE  TypeOK'
  BY <1>2 DEF TypeOK, Units, MscStates, Applications, Sides
<1>3. CASE InitUnit
  <2>1. msc.state = "INIT" /\ msc.lun \in Luns /\ msc.lun < MaxLun /\ UNCHANGED <<app, count>>
    BY <1>1, <1>3, LunTypes DEF InitUnit
  <2>2. PICK op \in InitOps, r \in Results :
          Scsi(msc.lun, op, Size(op), r) /\ InitResult(msc.lun, op, r)
    BY <1>3, Zenon DEF InitUnit
  <2>3. op \in Ops /\ Size(op) \in 0..Packets
    BY SizeTypes DEF Ops
  <2>4. /\ bot' \in Transports /\ pipe' \in [Sides -> Channel] /\ dev' \in Disks
        /\ parted' \in BOOLEAN /\ Bounded'
    BY <2>1, <2>2, <2>3, ScsiTypes
  <2>5. /\ unit' \in Units /\ msc' \in MscStates /\ msc'.state = "INIT"
        /\ \A k \in Luns : unit'[k] = unit[k] \/ unit'[k].state \notin Commands
    BY <2>1, <2>2, InitResultTypes
  <2>6. Engaged'
    BY <2>1, <2>5 DEF Engaged, Underway
  <2>7. QED
    BY <1>1, <1>2, <2>1, <2>4, <2>5, <2>6
<1>4. CASE GiveUpUnit
  <2>1. /\ msc.state = "INIT" /\ msc.lun \in Luns /\ msc.lun < MaxLun /\ NextLun
        /\ unit' = [unit EXCEPT ![msc.lun].error = "NOT_READY"]
        /\ UNCHANGED <<bot, pipe, dev, parted, app, count>>
    BY <1>1, <1>4, LunTypes DEF GiveUpUnit
  <2>2. unit' \in Units /\ \A k \in Luns : unit'[k].state = unit[k].state
    BY <1>1, <2>1 DEF Units
  <2>3. msc' \in MscStates /\ msc'.state = "INIT"
    BY <2>1, NextLunTypes
  <2>4. Bounded' /\ Engaged'
    BY <2>1, <2>2, <2>3 DEF Bounded, Engaged, Underway
  <2>5. QED
    BY <1>1, <1>2, <2>1, <2>2, <2>3, <2>4, Typed
<1>5. CASE Active
  <2>1. msc' = [state |-> "IDLE", lun |-> 0] /\ UNCHANGED <<unit, bot, pipe, dev, parted, app, count>>
    BY <1>5 DEF Active
  <2>2. msc' \in MscStates /\ msc'.state = "IDLE"
    BY <2>1, MscAssumption DEF MscStates
  <2>3. Bounded' /\ Engaged'
    BY <2>1, <2>2 DEF Bounded, Engaged, Underway
  <2>4. QED
    BY <1>1, <1>2, <2>1, <2>2, <2>3, Typed
<1>6. ASSUME NEW op \in Commands, NEW l \in Luns, Start(op, l)
      PROVE  TypeInv'
  <2>1. PICK r \in Results : Scsi(l, op, Packets, r)
    BY <1>6 DEF Start
  <2>2. op \in Ops /\ Packets \in 0..Packets
    BY MscAssumption DEF Ops
  <2>3. /\ bot' \in Transports /\ pipe' \in [Sides -> Channel] /\ dev' \in Disks
        /\ parted' \in BOOLEAN /\ Bounded'
    BY <2>1, <2>2, ScsiTypes
  <2>4. /\ msc' = [msc EXCEPT !.state = op] /\ unit' = [unit EXCEPT ![l].state = op]
        /\ app' = [busy |-> TRUE, op |-> op, lun |-> l, rdwr |-> "BUSY", ret |-> "none"]
    BY <1>6 DEF Start
  <2>5. unit' \in Units /\ unit'[l].state = op
    BY <1>1, <2>2, <2>4 DEF Units, UnitStates
  <2>6. msc' \in MscStates /\ msc'.state = op /\ app' \in Applications
    BY <1>1, <2>4 DEF MscStates, Applications, Results
  <2>7. count' \in [commands : 0..MaxCommands, faults : 0..MaxFaults]
    BY <1>1, <1>6, MscAssumption DEF Start
  <2>8. Engaged'
    BY <2>4, <2>5, <2>6 DEF Engaged, Underway, Commands
  <2>9. QED
    BY <1>2, <2>3, <2>5, <2>6, <2>7, <2>8
<1>7. CASE RdWr
  <2>1. app.busy /\ Underway(app.lun) /\ msc.state # "INIT" /\ UNCHANGED count
    BY <1>7 DEF RdWr, Engaged
  <2>2. PICK op \in Commands \union {"SENSE"}, r \in Results :
          Scsi(app.lun, op, IF op = "SENSE" THEN 1 ELSE 0, r) /\ RdWrResult(op, r)
    BY <1>7, <2>1, Zenon DEF RdWr, Underway
  <2>3. op \in Ops /\ (IF op = "SENSE" THEN 1 ELSE 0) \in 0..Packets
    BY MscAssumption DEF Ops, InitOps
  <2>4. /\ bot' \in Transports /\ pipe' \in [Sides -> Channel] /\ dev' \in Disks
        /\ parted' \in BOOLEAN /\ Bounded'
    BY <1>1, <2>2, <2>3, ScsiTypes
  <2>5. /\ unit' \in Units /\ msc' \in MscStates /\ app' \in Applications
        /\ msc'.state # "INIT" /\ (app'.busy => Underway(app.lun)') /\ app'.lun = app.lun
    BY <2>1, <2>2, RdWrResultTypes DEF Underway
  <2>6. Engaged'
    BY <2>5 DEF Engaged, Underway
  <2>7. QED
    BY <1>1, <1>2, <2>1, <2>4, <2>5, <2>6
<1>8. CASE TimedOut
  <2>1. /\ msc' = [msc EXCEPT !.state = "IDLE"]
        /\ app' = [app EXCEPT !.busy = FALSE, !.ret = "FAIL"]
        /\ UNCHANGED <<unit, bot, pipe, dev, parted, count>>
    BY <1>8 DEF TimedOut
  <2>2. msc' \in MscStates /\ msc'.state = "IDLE" /\ app' \in Applications /\ ~app'.busy
    BY <1>1, <2>1 DEF MscStates, Applications
  <2>3. Bounded' /\ Engaged'
    BY <2>1, <2>2 DEF Bounded, Engaged
  <2>4. QED
    BY <1>1, <1>2, <2>1, <2>2, <2>3, Typed
<1>9. CASE Device
  <2>1. Engaged'
    BY <1>9, DeviceTypes DEF Engaged, Underway
  <2>2. QED
    BY <1>1, <1>2, <1>9, <2>1, DeviceTypes, Typed
<1>10. CASE UNCHANGED vars
  BY <1>10 DEF vars, TypeOK, Bounded, Engaged, Underway
<1>11. QED
  BY <1>3, <1>4, <1>5, <1>6, <1>7, <1>8, <1>9, <1>10 DEF Next, Process, Application

\* The initial state has the types.
LEMMA TypeInit == Init => TypeInv
<1> SUFFICES ASSUME Init
             PROVE  TypeInv
  OBVIOUS
<1>1. 0 \in Luns /\ 0 \in 0..MaxLun /\ 0 \in 0..Packets /\ 0 \in 0..MaxCommands /\ 0 \in 0..MaxFaults
  BY MscAssumption DEF Luns
<1>2. TypeOK
  BY <1>1 DEF Init, TypeOK, Transports, Disks, Channel, Loads, Toggles, Ops, InitOps, Commands,
     UnitStates, BotStates, Verdicts, Results
<1>3. Bounded /\ Engaged
  BY <1>1 DEF Init, Bounded, Engaged, Commands
<1>4. QED
  BY <1>2, <1>3 DEF TypeInv

\* The types hold in every reachable state.
THEOREM TypeCorrect == Spec => []TypeOK
<1>1. TypeInv => TypeOK
  BY DEF TypeInv
<1>2. QED
  BY <1>1, TypeInit, TypeStep, PTL DEF Spec
-----------------------------------------------------------------------------
(* The two ends agree on the place of the command *)

\* One call of the transport: the ends agree after it, and a command that ends well was
\* executed by the device.
LEMMA BotAgrees ==
  ASSUME TypeOK, Bounded, Agree, bot.cmd = "WAIT",
         NEW l \in Luns, NEW r, BotProcess(l, r), ~parted'
  PROVE  /\ Agree'
         /\ r = "OK" => /\ Told' /\ bot.state # "SEND_CBW" /\ bot'.lun = bot.lun
                        /\ dev'.verdict = "passed" /\ dev'.moved = dev'.size
<1> DEFINE Goal ==
      /\ Agree'
      /\ r = "OK" => /\ Told' /\ bot.state # "SEND_CBW" /\ bot'.lun = bot.lun
                     /\ dev'.verdict = "passed" /\ dev'.moved = dev'.size
<1> SUFFICES Goal
  OBVIOUS
<1> USE DEF Agree, TogglesFit, ToggleFits, Quiet, Answer
<1>1. CASE SendCBW(l, r)
  <2>1. /\ bot.state = "SEND_CBW" /\ r = "BUSY" /\ UNCHANGED <<dev, parted>>
        /\ pipe' = Sends(<<"cbw", 0>>)
        /\ bot' = [bot EXCEPT !.state = "SEND_CBW_WAIT", !.lun = l]
    BY <1>1 DEF SendCBW
  <2>2. /\ bot'.state = "SEND_CBW_WAIT" /\ bot'.cmd = bot.cmd /\ bot'.intact = bot.intact
        /\ bot'.left = bot.left /\ bot'.size = bot.size
    BY <2>1, Typed DEF Transports
  <2>3. AtCBW /\ Waits /\ ~pipe["in"].on
    BY <2>1 DEF AtCBW, AtDataIn, AtDataOut, AtCSW, AtError
  <2>4. AtCBW'
    BY <2>1, <2>2, <2>3, SendsTypes, LoadTypes DEF AtCBW, Waits
  <2>5. QED
    BY <2>1, <2>2, <2>4, SendsTypes, LoadTypes
<1>2. CASE SentCBW(r)
  <2>1. r = "BUSY" /\ UNCHANGED <<pipe, dev, parted>> /\ bot.state = "SEND_CBW_WAIT"
    BY <1>2 DEF SentCBW, Case, NoDevice
  <2>2. AtCBW /\ bot.left = bot.size /\ ~pipe["in"].on
    BY <2>1 DEF AtCBW, AtDataIn, AtDataOut, AtCSW, AtError
  <2>3. CASE pipe["out"].urb = "DONE" /\ Case("SEND_CBW_WAIT", FirstStage)
    <3>1. ~pipe["out"].on /\ Begun(0)
      BY <2>1, <2>2, <2>3 DEF AtCBW, Bounded
    <3>2. FirstStage \in BotStates
      BY FirstStageTypes DEF BotStates
    <3>3. /\ bot'.state = FirstStage /\ bot'.cmd = bot.cmd /\ bot'.intact = bot.intact
          /\ bot'.op = bot.op /\ bot'.lun = bot.lun
          /\ bot'.left = bot.left /\ bot'.size = bot.size
      BY <2>3, <3>2, CaseTypes
    <3>4. Begun(0)'
      BY <2>1, <3>1, <3>3 DEF Begun, Told, Direction
    <3>5. CASE FirstStage = "RECEIVE_CSW"
      <4>1. bot.size = 0 /\ dev.size = 0
        BY <2>2, <3>1, <3>5, FirstStageTypes DEF Begun, Told
      <4>2. CswDue'
        BY <2>1, <3>4, <4>1 DEF CswDue, Begun, Complete
      <4>3. AtCSW'
        BY <2>1, <2>2, <3>1, <3>3, <3>5, <4>2 DEF AtCSW
      <4>4. QED
        BY <2>1, <3>3, <3>5, <4>3
    <3>6. CASE FirstStage = "DATA_IN"
      <4>1. bot.left > 0 /\ DataIn(bot.op)
        BY <3>6, FirstStageTypes, Typed
      <4>2. bot'.size - bot'.left = 0
        BY <2>2, <3>3, Typed
      <4>3. AtDataIn'
        BY <2>1, <2>2, <3>1, <3>3, <3>4, <3>6, <4>1, <4>2 DEF AtDataIn
      <4>4. QED
        BY <2>1, <3>3, <3>6, <4>3
    <3>7. CASE FirstStage = "DATA_OUT"
      <4>1. bot.left > 0 /\ ~DataIn(bot.op)
        BY <3>7, FirstStageTypes, Typed
      <4>2. bot'.size - bot'.left = 0
        BY <2>2, <3>3, Typed
      <4>3. AtDataOut'
        BY <2>1, <2>2, <3>1, <3>3, <3>4, <3>7, <4>1, <4>2 DEF AtDataOut
      <4>4. QED
        BY <2>1, <3>3, <3>7, <4>3
    <3>8. QED
      BY <3>5, <3>6, <3>7, FirstStageTypes
  <2>4. CASE pipe["out"].urb = "NOTREADY" /\ Case("SEND_CBW_WAIT", "SEND_CBW")
    <3>1. ~pipe["out"].on /\ Waits
      BY <2>1, <2>2, <2>4 DEF AtCBW, Bounded
    <3>2. /\ bot'.state = "SEND_CBW" /\ bot'.cmd = bot.cmd /\ bot'.intact = bot.intact
          /\ bot'.left = bot.left /\ bot'.size = bot.size
      BY <2>4, CaseTypes DEF BotStates
    <3>3. AtCBW'
      BY <2>1, <2>2, <3>1, <3>2 DEF AtCBW, Waits
    <3>4. QED
      BY <2>1, <3>2, <3>3
  <2>5. pipe["out"].urb # "STALL"
    BY <2>1, <2>2 DEF AtCBW, Bounded
  <2>6. QED
    BY <1>2, <2>3, <2>4, <2>5 DEF SentCBW
<1>3. CASE Transfer(r)
  <2>1. r = "BUSY" /\ UNCHANGED <<dev, parted>>
    BY <1>3 DEF Transfer
  <2>2. CASE Case("DATA_IN", "DATA_IN_WAIT") /\ pipe' = Receives
    <3>1. /\ bot.state = "DATA_IN" /\ bot'.state = "DATA_IN_WAIT" /\ bot'.cmd = bot.cmd
          /\ bot'.op = bot.op /\ bot'.lun = bot.lun /\ bot'.intact = bot.intact
          /\ bot'.left = bot.left /\ bot'.size = bot.size
      BY <2>2, CaseTypes DEF BotStates
    <3>2. AtDataIn
      BY <3>1 DEF AtCBW, AtDataIn, AtDataOut, AtCSW, AtError
    <3>3. AtDataIn'
      BY <2>1, <2>2, <3>1, <3>2, ReceivesTypes DEF AtDataIn, Begun, Told, Direction
    <3>4. QED
      BY <2>1, <2>2, <3>1, <3>3, ReceivesTypes
  <2>3. CASE Case("DATA_OUT", "DATA_OUT_WAIT") /\ pipe' = Sends(Part(bot.left))
    <3>1. /\ bot.state = "DATA_OUT" /\ bot'.state = "DATA_OUT_WAIT" /\ bot'.cmd = bot.cmd
          /\ bot'.op = bot.op /\ bot'.lun = bot.lun /\ bot'.intact = bot.intact
          /\ bot'.left = bot.left /\ bot'.size = bot.size
      BY <2>3, CaseTypes DEF BotStates
    <3>2. AtDataOut
      BY <3>1 DEF AtCBW, AtDataIn, AtDataOut, AtCSW, AtError
    <3>3. Part(bot.left) \in Loads /\ Part(bot.left) = Part(bot.left)'
      BY <3>1, <3>2, PartTypes, Typed DEF AtDataOut, Bounded, Part
    <3>4. AtDataOut'
      BY <2>1, <2>3, <3>1, <3>2, <3>3, SendsTypes DEF AtDataOut, Begun, Told, Direction
    <3>5. QED
      BY <2>1, <2>3, <3>1, <3>3, <3>4, SendsTypes
  <2>4. CASE Case("RECEIVE_CSW", "RECEIVE_CSW_WAIT") /\ pipe' = Receives
    <3>1. /\ bot.state = "RECEIVE_CSW" /\ bot'.state = "RECEIVE_CSW_WAIT" /\ bot'.cmd = bot.cmd
          /\ bot'.op = bot.op /\ bot'.lun = bot.lun /\ bot'.intact = bot.intact
          /\ bot'.left = bot.left /\ bot'.size = bot.size
      BY <2>4, CaseTypes DEF BotStates
    <3>2. AtCSW
      BY <3>1 DEF AtCBW, AtDataIn, AtDataOut, AtCSW, AtError
    <3>3. AtCSW'
      BY <2>1, <2>4, <3>1, <3>2, ReceivesTypes DEF AtCSW, CswDue, Complete, Told
    <3>4. QED
      BY <2>1, <2>4, <3>1, <3>3, ReceivesTypes
  <2>5. QED
    BY <1>3, <2>2, <2>3, <2>4 DEF Transfer
<1>4. CASE SentData(r)
  <2>1. r = "BUSY" /\ bot.state = "DATA_OUT_WAIT"
    BY <1>4 DEF SentData
  <2>2. AtDataOut
    BY <2>1 DEF AtCBW, AtDataIn, AtDataOut, AtCSW, AtError
  <2>3. CASE Moved("out", TRUE)
    <3>1. /\ UNCHANGED <<dev, parted>> /\ pipe["out"].urb = "DONE"
          /\ bot'.cmd = bot.cmd /\ bot'.op = bot.op /\ bot'.lun = bot.lun
          /\ bot'.size = bot.size /\ bot'.intact = (bot.intact /\ TRUE)
          /\ bot'.left = bot.left - 1 /\ bot.left > 0
          /\ \/ bot.left = 1 /\ bot'.state = "RECEIVE_CSW" /\ pipe' = pipe
             \/ /\ bot.left > 1 /\ bot'.state = bot.state
                /\ pipe' = Sends(Part(bot.left - 1))
      BY <2>1, <2>3, MovedTypes DEF Sides
    <3>2. ~pipe["out"].on /\ ~pipe["in"].on /\ Begun(bot.size - bot.left + 1)
      BY <2>1, <2>2, <3>1 DEF AtDataOut, Bounded
    <3>3. Begun(bot.size - bot.left)'
      <4>1. bot'.size - bot'.left = bot.size - bot.left + 1
        BY <3>1, Typed
      <4>2. QED
        BY <3>1, <3>2, <4>1 DEF Begun, Told, Direction
    <3>4. CASE bot.left = 1
      <4>1. bot'.state = "RECEIVE_CSW" /\ pipe' = pipe /\ dev.moved = dev.size
        BY <3>1, <3>2, <3>4, Typed DEF Begun, Told
      <4>2. CswDue'
        BY <3>1, <3>2, <4>1, Typed DEF Begun, Told, CswDue, Complete
      <4>3. AtCSW'
        BY <3>2, <4>1, <4>2 DEF AtCSW
      <4>4. QED
        BY <2>1, <3>1, <4>1, <4>3
    <3>5. CASE bot.left > 1
      <4>1. pipe' = Sends(Part(bot.left - 1)) /\ bot'.state = "DATA_OUT_WAIT"
        BY <2>1, <3>1, <3>5
      <4>2. Part(bot.left - 1) \in Loads
        <5>1. bot.left - 1 \in Nat /\ bot.left - 1 > 0 /\ bot.left - 1 <= bot.size
          BY <3>5, Typed DEF Bounded
        <5>2. QED
          BY <5>1, PartTypes
      <4>3. Part(bot.left - 1) = Part(bot.left)'
        BY <3>1 DEF Part
      <4>4. AtDataOut'
        BY <2>2, <3>1, <3>2, <3>3, <3>5, <4>1, <4>2, <4>3, SendsTypes, Typed DEF AtDataOut
      <4>5. QED
        BY <2>1, <3>1, <4>1, <4>2, <4>4, SendsTypes
    <3>6. QED
      BY <3>1, <3>4, <3>5
  <2>4. CASE pipe["out"].urb = "NOTREADY" /\ Case("DATA_OUT_WAIT", "DATA_OUT") /\ NoDevice
    <3>1. /\ bot'.state = "DATA_OUT" /\ bot'.cmd = bot.cmd
          /\ bot'.op = bot.op /\ bot'.lun = bot.lun /\ bot'.intact = bot.intact
          /\ bot'.left = bot.left /\ bot'.size = bot.size /\ UNCHANGED <<pipe, dev, parted>>
      BY <2>4, CaseTypes DEF BotStates, NoDevice
    <3>2. AtDataOut'
      BY <2>1, <2>2, <2>4, <3>1 DEF AtDataOut, Begun, Told, Direction, Bounded
    <3>3. QED
      BY <2>1, <3>1, <3>2
  <2>5. CASE pipe["out"].urb = "STALL" /\ Case("DATA_OUT_WAIT", "ERROR_OUT") /\ NoDevice
    <3>1. /\ bot'.state = "ERROR_OUT" /\ bot'.cmd = bot.cmd
          /\ bot'.op = bot.op /\ bot'.lun = bot.lun /\ bot'.intact = bot.intact
          /\ bot'.left = bot.left /\ bot'.size = bot.size /\ UNCHANGED <<pipe, dev, parted>>
      BY <2>5, CaseTypes DEF BotStates, NoDevice
    <3>2. ~pipe["out"].on /\ "out" \in dev.halted /\ Begun(bot.size - bot.left)
      BY <2>1, <2>2, <2>5 DEF AtDataOut, Bounded
    <3>3. Told' /\ dev.phase = "csw" /\ dev.verdict = "failed"
      BY <2>2, <3>1, <3>2, Typed DEF Begun, Told, AtDataOut
    <3>4. AtError'
      BY <2>2, <3>1, <3>2, <3>3 DEF AtError, AtDataOut
    <3>5. QED
      BY <2>1, <3>1, <3>4
  <2>6. QED
    BY <1>4, <2>3, <2>4, <2>5 DEF SentData
<1>5. CASE ReceivedData(r)
  <2>1. r = "BUSY" /\ bot.state = "DATA_IN_WAIT"
    BY <1>5 DEF ReceivedData
  <2>2. AtDataIn
    BY <2>1 DEF AtCBW, AtDataIn, AtDataOut, AtCSW, AtError
  <2>3. CASE Moved("in", pipe["in"].load = Part(bot.left))
    <3>1. /\ UNCHANGED <<dev, parted>> /\ pipe["in"].urb = "DONE"
          /\ bot'.cmd = bot.cmd /\ bot'.op = bot.op /\ bot'.lun = bot.lun
          /\ bot'.size = bot.size
          /\ bot'.intact = (bot.intact /\ (pipe["in"].load = Part(bot.left)))
          /\ bot'.left = bot.left - 1 /\ bot.left > 0
          /\ \/ bot.left = 1 /\ bot'.state = "RECEIVE_CSW" /\ pipe' = pipe
             \/ bot.left > 1 /\ bot'.state = bot.state /\ pipe' = Receives
      BY <2>1, <2>3, MovedTypes DEF Sides
    <3>2. /\ ~pipe["in"].on /\ ~pipe["out"].on /\ Begun(bot.size - bot.left + 1)
          /\ pipe["in"].load = Part(bot.left)
      BY <2>1, <2>2, <3>1 DEF AtDataIn, Bounded
    <3>3. Begun(bot.size - bot.left)'
      <4>1. bot'.size - bot'.left = bot.size - bot.left + 1
        BY <3>1, Typed
      <4>2. QED
        BY <3>1, <3>2, <4>1 DEF Begun, Told, Direction
    <3>4. bot'.intact
      BY <3>1, <3>2
    <3>5. CASE bot.left = 1
      <4>1. bot'.state = "RECEIVE_CSW" /\ pipe' = pipe /\ dev.moved = dev.size
        BY <3>1, <3>2, <3>5, Typed DEF Begun, Told
      <4>2. CswDue'
        BY <3>1, <3>2, <4>1, Typed DEF Begun, Told, CswDue, Complete
      <4>3. AtCSW'
        BY <3>2, <4>1, <4>2 DEF AtCSW
      <4>4. QED
        BY <2>1, <3>1, <3>4, <4>1, <4>3
    <3>6. CASE bot.left > 1
      <4>1. pipe' = Receives /\ bot'.state = "DATA_IN_WAIT"
        BY <2>1, <3>1, <3>6
      <4>2. AtDataIn'
        BY <2>2, <3>1, <3>2, <3>3, <3>6, <4>1, ReceivesTypes, Typed DEF AtDataIn
      <4>3. QED
        BY <2>1, <3>1, <3>4, <4>1, <4>2, ReceivesTypes
    <3>7. QED
      BY <3>1, <3>5, <3>6
  <2>4. CASE pipe["in"].urb = "STALL" /\ Case("DATA_IN_WAIT", "ERROR_IN") /\ NoDevice
    <3>1. /\ bot'.state = "ERROR_IN" /\ bot'.cmd = bot.cmd
          /\ bot'.op = bot.op /\ bot'.lun = bot.lun /\ bot'.intact = bot.intact
          /\ bot'.left = bot.left /\ bot'.size = bot.size /\ UNCHANGED <<pipe, dev, parted>>
      BY <2>4, CaseTypes DEF BotStates, NoDevice
    <3>2. ~pipe["in"].on /\ "in" \in dev.halted /\ Begun(bot.size - bot.left)
      BY <2>1, <2>2, <2>4 DEF AtDataIn, Bounded
    <3>3. /\ Told' /\ dev.phase = "csw" /\ dev.verdict = "failed"
          /\ dev.halted \subseteq {"in"}
      BY <2>2, <3>1, <3>2, Typed DEF Begun, Told, AtDataIn, Direction
    <3>4. AtError'
      BY <2>2, <3>1, <3>2, <3>3 DEF AtError, AtDataIn, CswDue, Complete
    <3>5. QED
      BY <2>1, <3>1, <3>4
  <2>5. QED
    BY <1>5, <2>3, <2>4 DEF ReceivedData
<1>6. CASE ReceivedCSW(r)
  <2>1. bot.state = "RECEIVE_CSW_WAIT" /\ UNCHANGED <<pipe, dev, parted>>
    BY <1>6 DEF ReceivedCSW, Case, NoDevice
  <2>2. AtCSW
    BY <2>1 DEF AtCBW, AtDataIn, AtDataOut, AtCSW, AtError
  <2>3. CASE /\ pipe["in"].urb = "DONE" /\ r = DecodeCSW
             /\ bot' = [bot EXCEPT !.state = "SEND_CBW", !.cmd = "SEND"]
    <3>1. /\ bot'.state = "SEND_CBW" /\ bot'.cmd = "SEND"
          /\ bot'.op = bot.op /\ bot'.lun = bot.lun /\ bot'.intact = bot.intact
          /\ bot'.left = bot.left /\ bot'.size = bot.size
      BY <2>3, Typed DEF Transports
    <3>2. /\ ~pipe["in"].on /\ ~pipe["out"].on /\ Waits /\ Told /\ Complete
          /\ pipe["in"].load = <<dev.verdict, 0>>
      BY <2>1, <2>2, <2>3 DEF AtCSW, Bounded
    <3>3. AtCBW'
      BY <2>1, <3>1, <3>2 DEF AtCBW, Waits
    <3>4. Told'
      BY <2>1, <3>1, <3>2 DEF Told
    <3>5. r = "OK" => dev.verdict = "passed"
      BY <2>3, <3>2 DEF DecodeCSW
    <3>6. QED
      BY <2>1, <3>1, <3>2, <3>3, <3>4, <3>5 DEF Complete
  <2>4. CASE pipe["in"].urb = "STALL" /\ Case("RECEIVE_CSW_WAIT", "ERROR_IN") /\ r = "BUSY"
    <3>1. /\ bot'.state = "ERROR_IN" /\ bot'.cmd = bot.cmd
          /\ bot'.op = bot.op /\ bot'.lun = bot.lun /\ bot'.intact = bot.intact
          /\ bot'.left = bot.left /\ bot'.size = bot.size
      BY <2>4, CaseTypes DEF BotStates
    <3>2. ~pipe["in"].on /\ ~pipe["out"].on /\ CswDue
      BY <2>1, <2>2, <2>4 DEF AtCSW, Bounded
    <3>3. AtError'
      BY <2>1, <3>1, <3>2 DEF AtError, CswDue, Complete, Told
    <3>4. QED
      BY <2>1, <2>4, <3>1, <3>3
  <2>5. QED
    BY <1>6, <2>3, <2>4 DEF ReceivedCSW
<1>7. CASE Abort("ERROR_IN", "in", "RECEIVE_CSW") /\ r = "BUSY"
  <2>1. /\ bot.state = "ERROR_IN" /\ bot'.state = "RECEIVE_CSW" /\ bot'.cmd = bot.cmd
        /\ bot'.op = bot.op /\ bot'.lun = bot.lun /\ bot'.intact = bot.intact
        /\ bot'.left = bot.left /\ bot'.size = bot.size
    BY <1>7, CaseTypes DEF Abort, BotStates
  <2>2. dev' = Cleared("in") /\ pipe' = pipe /\ pipe["in"].toggle = 0
    BY <1>7 DEF Abort
  <2>3. AtError /\ CswDue
    BY <2>1 DEF AtCBW, AtDataIn, AtDataOut, AtCSW, AtError
  <2>4. /\ dev'.phase = dev.phase /\ dev'.op = dev.op /\ dev'.lun = dev.lun
        /\ dev'.size = dev.size /\ dev'.moved = dev.moved /\ dev'.intact = dev.intact
        /\ dev'.verdict = dev.verdict /\ dev'.halted = dev.halted \ {"in"}
        /\ dev'.toggle["in"] = 0 /\ dev'.toggle["out"] = dev.toggle["out"]
    BY <2>2, <2>3, Typed DEF Cleared, CswDue, Disks
  <2>5. AtCSW'
    BY <2>1, <2>2, <2>3, <2>4 DEF AtError, AtCSW, CswDue, Complete, Told
  <2>6. QED
    BY <1>7, <2>1, <2>2, <2>4, <2>5
<1>8. CASE Abort("ERROR_OUT", "out", "ERROR_IN") /\ r = "BUSY"
  <2>1. /\ bot.state = "ERROR_OUT" /\ bot'.state = "ERROR_IN" /\ bot'.cmd = bot.cmd
        /\ bot'.op = bot.op /\ bot'.lun = bot.lun /\ bot'.intact = bot.intact
        /\ bot'.left = bot.left /\ bot'.size = bot.size
    BY <1>8, CaseTypes DEF Abort, BotStates
  <2>2. dev' = Cleared("out") /\ pipe' = ToggledOut(pipe) /\ pipe'["out"].toggle = 0
    BY <1>8 DEF Abort
  <2>3. AtError /\ Told /\ dev.phase = "csw" /\ dev.verdict = "failed"
    BY <2>1 DEF AtCBW, AtDataIn, AtDataOut, AtCSW, AtError
  <2>4. /\ dev'.phase = dev.phase /\ dev'.op = dev.op /\ dev'.lun = dev.lun
        /\ dev'.size = dev.size /\ dev'.moved = dev.moved /\ dev'.intact = dev.intact
        /\ dev'.verdict = dev.verdict /\ dev'.halted = dev.halted \ {"out"}
        /\ dev'.toggle["out"] = 0
    BY <2>2, <2>3, Typed DEF Cleared, Disks
  <2>5. /\ pipe'["out"].on = pipe["out"].on /\ pipe'["in"].on = pipe["in"].on
        /\ pipe'["in"].toggle = 0
    BY <2>2, Typed DEF ToggledOut, Channel, Sides
  <2>6. dev'.halted \subseteq {"in"}
    BY <2>4, Typed DEF Disks
  <2>7. AtError'
    BY <2>1, <2>3, <2>4, <2>5, <2>6 DEF AtError, CswDue, Complete, Told
  <2>8. QED
    BY <1>8, <2>1, <2>2, <2>4, <2>5, <2>7
<1>9. QED
  BY <1>1, <1>2, <1>3, <1>4, <1>5, <1>6, <1>7, <1>8 DEF BotProcess

\* The device keeps to its place in the command, also when it fails it or halts.
LEMMA DeviceAgrees ==
  ASSUME TypeInv, Agree, Device
  PROVE  Agree'
<1> USE DEF Agree, TogglesFit, ToggleFits, Quiet, Answer, TypeInv
<1>1. UNCHANGED <<msc, unit, bot, app, parted>>
  BY DeviceTypes
<1>2. CASE NotReady
  <2>1. pipe["out"].on /\ Ends("out", "NOTREADY") /\ UNCHANGED dev
    BY <1>2 DEF NotReady
  <2>2. /\ pipe'["in"] = pipe["in"] /\ ~pipe'["out"].on /\ pipe'["out"].urb = "NOTREADY"
        /\ pipe'["out"].toggle = pipe["out"].toggle
    BY <2>1, EndsTypes DEF Sides
  <2>3. AtCBW \/ AtDataOut
    BY <2>1 DEF AtDataIn, AtCSW, AtError
  <2>4. AtCBW => AtCBW'
    BY <1>1, <2>1, <2>2 DEF AtCBW, Waits
  <2>5. AtDataOut => AtDataOut'
    BY <1>1, <2>1, <2>2 DEF AtDataOut, Begun, Told, Direction
  <2>6. QED
    BY <1>1, <2>1, <2>2, <2>3, <2>4, <2>5
<1>3. CASE Stalled("in")
  <2>1. pipe["in"].on /\ "in" \in dev.halted /\ Ends("in", "STALL") /\ UNCHANGED dev
    BY <1>3 DEF Stalled
  <2>2. /\ pipe'["out"] = pipe["out"] /\ ~pipe'["in"].on /\ pipe'["in"].urb = "STALL"
        /\ pipe'["in"].toggle = pipe["in"].toggle
    BY <2>1, EndsTypes DEF Sides
  <2>3. AtDataIn \/ AtCSW
    BY <2>1 DEF AtCBW, AtDataOut, AtError
  <2>4. AtDataIn => AtDataIn'
    BY <1>1, <2>1, <2>2 DEF AtDataIn, Begun, Told, Direction
  <2>5. AtCSW => AtCSW'
    BY <1>1, <2>1, <2>2 DEF AtCSW, CswDue, Complete, Told
  <2>6. QED
    BY <1>1, <2>1, <2>2, <2>3, <2>4, <2>5
<1>4. CASE Stalled("out")
  <2>1. pipe["out"].on /\ "out" \in dev.halted /\ Ends("out", "STALL") /\ UNCHANGED dev
    BY <1>4 DEF Stalled
  <2>2. /\ pipe'["in"] = pipe["in"] /\ ~pipe'["out"].on /\ pipe'["out"].urb = "STALL"
        /\ pipe'["out"].toggle = pipe["out"].toggle
    BY <2>1, EndsTypes DEF Sides
  <2>3. AtDataOut
    BY <2>1 DEF AtCBW, AtDataIn, AtCSW, AtError, Waits
  <2>4. AtDataOut'
    BY <1>1, <2>1, <2>2, <2>3 DEF AtDataOut, Begun, Told, Direction
  <2>5. QED
    BY <1>1, <2>1, <2>2, <2>4
<1>5. ~DropOut
  BY DEF DropOut
<1>6. CASE TakeCBW
  <2>1. pipe["out"].on /\ dev.phase = "cbw" /\ Ends("out", "DONE")
    BY <1>6 DEF TakeCBW, Takes
  <2>2. PICK v \in Verdicts :
          dev' = [dev EXCEPT !.phase = IF bot.size = 0 THEN "csw"
                                       ELSE IF DataIn(bot.op) THEN "in" ELSE "out",
                             !.op = bot.op, !.lun = bot.lun, !.size = bot.size, !.moved = 0,
                             !.intact = TRUE, !.verdict = v, !.toggle = Flipped("out")]
    BY <1>6, Typed DEF TakeCBW, Disks, Flipped
  <2>3. AtCBW /\ Waits /\ bot.state = "SEND_CBW_WAIT"
    BY <2>1 DEF AtCBW, AtDataIn, AtDataOut, AtCSW, AtError, Begun, Direction
  <2>4. /\ dev'.op = bot.op /\ dev'.lun = bot.lun /\ dev'.size = bot.size /\ dev'.moved = 0
        /\ dev'.intact /\ dev'.halted = {} /\ dev'.toggle = Flipped("out")
        /\ dev'.phase = IF bot.size = 0 THEN "csw" ELSE Direction
    BY <2>2, <2>3, Typed DEF Disks, Waits, Direction
  <2>5. /\ pipe'["in"] = pipe["in"] /\ ~pipe'["out"].on /\ pipe'["out"].urb = "DONE"
        /\ pipe'["out"].toggle = Flip(pipe["out"].toggle)
    BY <2>1, EndsTypes DEF Sides
  <2>6. Begun(0)'
    BY <1>1, <2>4, Typed DEF Begun, Told, Direction
  <2>7. AtCBW'
    BY <1>1, <2>3, <2>5, <2>6 DEF AtCBW
  <2>8. ToggleFits("out")' /\ ToggleFits("in")'
    BY <2>3, <2>4, <2>5, FlippedTypes DEF Sides
  <2>9. QED
    BY <1>1, <2>7, <2>8
<1>7. ~TakeInvalid
  <2>1. TakeInvalid => pipe["out"].on /\ dev.phase = "cbw" /\ pipe["out"].load # <<"cbw", 0>>
    BY DEF TakeInvalid, Takes
  <2>2. QED
    BY <2>1 DEF AtCBW, AtDataIn, AtDataOut, AtCSW, AtError, Begun, Direction
<1>8. CASE TakeData
  <2>1. /\ pipe["out"].on /\ dev.phase = "out" /\ "out" \notin dev.halted /\ Ends("out", "DONE")
        /\ dev' = [Advance("out") EXCEPT
                     !.intact = Advance("out").intact
                                  /\ pipe["out"].load = <<"data", dev.moved + 1>>]
    BY <1>8 DEF TakeData, Takes
  <2>2. /\ AtDataOut /\ bot.state = "DATA_OUT_WAIT" /\ pipe["out"].load = Part(bot.left)
        /\ Begun(bot.size - bot.left)
    BY <2>1 DEF AtCBW, AtDataIn, AtDataOut, AtCSW, AtError, Waits
  <2>3. /\ dev.moved = bot.size - bot.left /\ dev.halted = {} /\ Told /\ dev.moved < dev.size
        /\ pipe["out"].load = <<"data", dev.moved + 1>>
    BY <2>1, <2>2 DEF Begun, Part, Told
  <2>4. dev' = [Advance("out") EXCEPT !.intact = TRUE] /\ Advance("out") \in Disks
    BY <2>1, <2>3, AdvanceTypes DEF Told, Sides
  <2>5. /\ dev'.op = dev.op /\ dev'.lun = dev.lun /\ dev'.size = dev.size /\ dev'.intact
        /\ dev'.moved = dev.moved + 1 /\ dev'.halted = {} /\ dev'.toggle = Flipped("out")
        /\ \/ dev.moved + 1 = dev.size /\ dev'.phase = "csw"
           \/ dev.moved + 1 < dev.size /\ dev'.phase = "out"
    BY <2>1, <2>3, <2>4, AdvanceTypes DEF Disks, Sides
  <2>6. /\ pipe'["in"] = pipe["in"] /\ ~pipe'["out"].on /\ pipe'["out"].urb = "DONE"
        /\ pipe'["out"].toggle = Flip(pipe["out"].toggle)
    BY <2>1, EndsTypes DEF Sides
  <2>7. dev'.moved = bot'.size - bot'.left + 1
    BY <1>1, <2>3, <2>5
  <2>8. Begun(bot.size - bot.left + 1)'
    BY <1>1, <2>2, <2>3, <2>5, <2>7 DEF Begun, Told, Direction, AtDataOut
  <2>9. AtDataOut'
    BY <1>1, <2>2, <2>6, <2>8 DEF AtDataOut
  <2>10. ToggleFits("out")' /\ ToggleFits("in")'
    BY <2>2, <2>5, <2>6, FlippedTypes DEF Sides
  <2>11. QED
    BY <1>1, <2>9, <2>10
<1>9. CASE Send
  <2>1. /\ pipe["in"].on /\ "in" \notin dev.halted /\ dev.phase \in {"in", "csw"}
        /\ dev' = (IF dev.phase = "in" THEN Advance("in")
                   ELSE [dev EXCEPT !.phase = "cbw", !.toggle = Flipped("in")])
    BY <1>9, Typed DEF Send, Disks, Flipped
  <2>2. /\ ToggleFits("in")
        /\ \/ AtDataIn /\ bot.state = "DATA_IN_WAIT" /\ Begun(bot.size - bot.left)
           \/ AtCSW /\ bot.state = "RECEIVE_CSW_WAIT" /\ CswDue
    BY <2>1 DEF AtCBW, AtDataIn, AtDataOut, AtCSW, AtError
  <2>3. /\ pipe'["out"] = pipe["out"] /\ ~pipe'["in"].on /\ pipe'["in"].urb = "DONE"
        /\ pipe'["in"].toggle = Flip(pipe["in"].toggle)
        /\ pipe'["in"].load = IF dev.phase = "in" THEN <<"data", dev.moved + 1>>
                              ELSE <<dev.verdict, 0>>
    BY <1>9, <2>2, Typed DEF Send, Sides
  <2>4. CASE AtDataIn /\ bot.state = "DATA_IN_WAIT" /\ Begun(bot.size - bot.left)
    <3>1. /\ dev.moved = bot.size - bot.left /\ dev.halted = {} /\ Told /\ dev.moved < dev.size
          /\ dev.phase = "in"
      BY <2>1, <2>4, Typed DEF AtDataIn, Begun, Told, Direction
    <3>2. /\ dev'.op = dev.op /\ dev'.lun = dev.lun /\ dev'.size = dev.size
          /\ dev'.intact = dev.intact
          /\ dev'.moved = dev.moved + 1 /\ dev'.halted = {} /\ dev'.toggle = Flipped("in")
          /\ \/ dev.moved + 1 = dev.size /\ dev'.phase = "csw"
             \/ dev.moved + 1 < dev.size /\ dev'.phase = "in"
      BY <2>1, <3>1, AdvanceTypes DEF Sides
    <3>3. dev'.moved = bot'.size - bot'.left + 1
      BY <1>1, <3>1, <3>2
    <3>4. Begun(bot.size - bot.left + 1)'
      BY <1>1, <2>4, <3>1, <3>2, <3>3 DEF Begun, Told, Direction, AtDataIn
    <3>5. pipe'["in"].load = Part(bot.left)'
      BY <1>1, <2>3, <3>1 DEF Part
    <3>6. AtDataIn'
      BY <1>1, <2>3, <2>4, <3>4, <3>5 DEF AtDataIn
    <3>7. ToggleFits("out")' /\ ToggleFits("in")'
      BY <2>2, <2>3, <3>2, FlippedTypes DEF Sides
    <3>8. QED
      BY <1>1, <3>6, <3>7
  <2>5. CASE AtCSW /\ bot.state = "RECEIVE_CSW_WAIT" /\ CswDue
    <3>1. dev.phase = "csw" /\ dev.halted = {} /\ Told /\ Complete
      BY <2>1, <2>5 DEF CswDue
    <3>2. dev' = [dev EXCEPT !.phase = "cbw", !.toggle = Flipped("in")]
      BY <2>1, <3>1
    <3>3. /\ dev'.op = dev.op /\ dev'.lun = dev.lun /\ dev'.size = dev.size
          /\ dev'.intact = dev.intact /\ dev'.moved = dev.moved /\ dev'.halted = {}
          /\ dev'.verdict = dev.verdict /\ dev'.phase = "cbw" /\ dev'.toggle = Flipped("in")
      BY <3>1, <3>2, Typed DEF Disks
    <3>4. AtCSW'
      BY <1>1, <2>3, <2>5, <3>1, <3>3 DEF AtCSW, Told, Complete, Waits
    <3>5. ToggleFits("out")' /\ ToggleFits("in")'
      BY <2>2, <2>3, <3>3, FlippedTypes DEF Sides
    <3>6. QED
      BY <1>1, <3>4, <3>5
  <2>6. QED
    BY <2>2, <2>4, <2>5
<1>10. CASE Halt
  <2>1. /\ dev.phase \in {"in", "out", "csw"} /\ pipe' = pipe
        /\ dev' = [dev EXCEPT
             !.halted = dev.halted \union {IF dev.phase = "out" THEN "out" ELSE "in"},
             !.verdict = IF dev.phase = "csw" THEN dev.verdict ELSE "failed",
             !.phase = "csw"]
    BY <1>10 DEF Halt
  <2>2. /\ dev'.op = dev.op /\ dev'.lun = dev.lun /\ dev'.size = dev.size
        /\ dev'.intact = dev.intact /\ dev'.moved = dev.moved /\ dev'.toggle = dev.toggle
        /\ dev'.phase = "csw"
        /\ dev'.verdict = (IF dev.phase = "csw" THEN dev.verdict ELSE "failed")
        /\ dev'.halted = dev.halted \union {IF dev.phase = "out" THEN "out" ELSE "in"}
    BY <2>1, Typed DEF Disks
  <2>3. Told => Told'
    BY <1>1, <2>2 DEF Told
  <2>4. CswDue => CswDue'
    BY <2>2, <2>3 DEF CswDue, Complete
  <2>5. ASSUME NEW m \in Nat, Begun(m)
        PROVE  Told' /\ dev'.moved = m
               /\ \/ /\ m < dev'.size /\ dev'.verdict = "failed"
                     /\ Direction \in dev'.halted /\ dev'.halted \subseteq {Direction, "in"}
                  \/ m = dev'.size /\ dev'.halted \subseteq {"in"}
    BY <2>1, <2>2, <2>3, <2>5 DEF Begun, Direction
  <2>6. ASSUME NEW m \in Nat, Begun(m)
        PROVE  Begun(m)'
    BY <1>1, <2>2, <2>5, <2>6 DEF Begun, Direction
  <2>7. 0 \in Nat /\ (bot.left <= bot.size => /\ bot.size - bot.left \in Nat
                                              /\ bot.size - bot.left + 1 \in Nat)
    BY Typed
  <2>8. AtCBW => AtCBW'
    <3>1. AtCBW => bot.state = "SEND_CBW_WAIT" /\ Quiet("out") /\ Answer("out", "DONE") /\ Begun(0)
      BY <2>1 DEF AtCBW, Waits
    <3>2. Begun(0) => Begun(0)'
      BY <2>6, <2>7
    <3>3. QED
      BY <1>1, <2>1, <3>1, <3>2 DEF AtCBW
  <2>9. Begun(bot.size - bot.left) => Begun(bot.size - bot.left)'
    BY <1>1, <2>6, <2>7 DEF Bounded
  <2>10. Begun(bot.size - bot.left + 1) => Begun(bot.size - bot.left + 1)'
    BY <1>1, <2>6, <2>7 DEF Bounded
  <2>11. AtDataIn => AtDataIn'
    BY <1>1, <2>1, <2>2, <2>9, <2>10 DEF AtDataIn, Part
  <2>12. AtDataOut => AtDataOut'
    BY <1>1, <2>1, <2>2, <2>9, <2>10 DEF AtDataOut, Part
  <2>13. AtCSW => AtCSW'
    BY <1>1, <2>1, <2>2, <2>4 DEF AtCSW, Waits
  <2>14. AtError => AtError'
    BY <1>1, <2>1, <2>2, <2>3, <2>4 DEF AtError
  <2>15. QED
    BY <1>1, <2>1, <2>2, <2>8, <2>11, <2>12, <2>13, <2>14
<1>11. QED
  BY <1>2, <1>3, <1>4, <1>5, <1>6, <1>7, <1>8, <1>9, <1>10 DEF Device, Accepts

\* One call of a SCSI request: the ends agree after it; its command carries the unit it was
\* called for, and ends well only when the device has executed it.
LEMMA ScsiAgrees ==
  ASSUME TypeOK, Bounded, Agree, NEW l \in Luns, NEW op \in Ops, NEW size \in 0..Packets,
         NEW r \in Results, Scsi(l, op, size, r), ~parted'
  PROVE  /\ Agree'
         /\ \/ /\ bot.cmd = "SEND" /\ r = "BUSY" /\ bot'.state = "SEND_CBW" /\ bot'.cmd = "WAIT"
               /\ bot'.op = op /\ bot'.size = size
            \/ /\ bot.cmd = "WAIT" /\ bot'.op = bot.op /\ bot'.size = bot.size
               /\ bot'.cmd = IF r = "BUSY" THEN "WAIT" ELSE "SEND"
               /\ (bot.state # "SEND_CBW" => bot.lun = l) =>
                    (bot'.state # "SEND_CBW" => bot'.lun = l)
               /\ r = "OK" => /\ Told' /\ bot.state # "SEND_CBW" /\ bot'.lun = bot.lun
                              /\ dev'.verdict = "passed" /\ dev'.moved = dev'.size
<1>1. CASE Prepare(op, size, r)
  <2>1. /\ bot.cmd = "SEND" /\ r = "BUSY" /\ UNCHANGED <<pipe, dev, parted>>
        /\ bot' = [bot EXCEPT !.state = "SEND_CBW", !.cmd = "WAIT", !.op = op,
                              !.size = size, !.left = size, !.intact = TRUE]
    BY <1>1 DEF Prepare, NoDevice
  <2>2. /\ bot'.state = "SEND_CBW" /\ bot'.cmd = "WAIT" /\ bot'.op = op /\ bot'.size = size
        /\ bot'.left = size /\ bot'.intact
    BY <2>1, Typed DEF Transports
  <2>3. bot.state = "SEND_CBW" /\ AtCBW
    BY <2>1 DEF Agree, AtCBW, AtDataIn, AtDataOut, AtCSW, AtError
  <2>4. AtCBW'
    BY <2>1, <2>2, <2>3 DEF AtCBW, Waits, Quiet
  <2>5. Agree'
    BY <2>1, <2>2, <2>3, <2>4 DEF Agree, TogglesFit, ToggleFits
  <2>6. QED
    BY <2>1, <2>2, <2>5
<1>2. CASE bot.cmd = "WAIT" /\ BotProcess(l, r)
  <2>1. /\ bot'.op = bot.op /\ bot'.size = bot.size
        /\ bot'.cmd = IF r = "BUSY" THEN "WAIT" ELSE "SEND"
    BY <1>2, BotTypes
  <2>2. (bot.state # "SEND_CBW" => bot.lun = l) => (bot'.state # "SEND_CBW" => bot'.lun = l)
    <3>1. CASE SendCBW(l, r)
      BY <3>1, Typed DEF SendCBW, Transports
    <3>2. CASE SentCBW(r) \/ Transfer(r)
      BY <3>2, Typed DEF SentCBW, Transfer, Case, Transports
    <3>3. CASE SentData(r) \/ ReceivedData(r)
      BY <3>3, Typed DEF SentData, ReceivedData, Moved, Case, Transports
    <3>4. CASE ReceivedCSW(r)
      BY <3>4, Typed DEF ReceivedCSW, Case, Transports
    <3>5. CASE Abort("ERROR_IN", "in", "RECEIVE_CSW") \/ Abort("ERROR_OUT", "out", "ERROR_IN")
      BY <3>5, Typed DEF Abort, Case, Transports
    <3>6. QED
      BY <1>2, <3>1, <3>2, <3>3, <3>4, <3>5 DEF BotProcess
  <2>3. QED
    BY <1>2, <2>1, <2>2, BotAgrees
<1>3. QED
  BY <1>1, <1>2 DEF Scsi

\* Toggles once parted are parted for good.
LEMMA PartedStays == TypeOK /\ [Next]_vars /\ ~parted' => ~parted
<1> SUFFICES ASSUME TypeOK, [Next]_vars, ~parted', parted
             PROVE  FALSE
  OBVIOUS
<1>1. ASSUME NEW l, NEW op, NEW size, NEW r, Scsi(l, op, size, r)
      PROVE  FALSE
  BY <1>1, Zenon DEF Scsi, Prepare, NoDevice, BotProcess, SendCBW, SentCBW, Transfer, SentData,
     ReceivedData, Moved, ReceivedCSW, Abort
<1>2. ~InitUnit
  BY <1>1, Zenon DEF InitUnit
<1>3. ~Application
  BY <1>1, Zenon DEF Application, Start
<1>4. ~RdWr
  BY <1>1, Zenon DEF RdWr
<1>5. ~Device
  BY DEF Device, NotReady, Stalled, Accepts, TakeCBW, TakeInvalid, TakeData, DropOut, Send, Halt, Host
<1>6. QED
  BY <1>2, <1>3, <1>4, <1>5 DEF Next, Process, GiveUpUnit, Active, TimedOut, vars
-----------------------------------------------------------------------------
(* A completed command was served *)

\* The agreement of the ends, and what links the command to its unit, before and after the
\* class becomes active.
Linked == IF msc.state = "INIT" THEN Agree /\ InitLinked ELSE Clean => Agree /\ AppLinked

\* The state of unit l is that of a command under way exactly if it was.
SameUnderway == app'.lun = app.lun /\ \A l \in Luns \ {app.lun} : unit'[l] = unit[l]

LEMMA CleanStays == TypeInv /\ SameUnderway /\ Clean' => Clean
BY DEF SameUnderway, Clean, Underway

\* The agreement is about the transport, the pipes and the device only.
LEMMA AgreeStays == Agree /\ UNCHANGED <<bot, pipe, dev>> => Agree'
<1> SUFFICES ASSUME Agree, UNCHANGED <<bot, pipe, dev>>
             PROVE  Agree'
  OBVIOUS
<1> USE DEF Quiet, Answer, Waits
<1>1. ASSUME NEW m, Begun(m)
      PROVE  Begun(m)'
  BY <1>1 DEF Begun, Told, Direction
<1>2. CswDue => CswDue'
  BY DEF CswDue, Told, Complete
<1>3. AtCBW => AtCBW'
  BY <1>1 DEF AtCBW
<1>4. AtDataIn => AtDataIn'
  BY <1>1 DEF AtDataIn, Part
<1>5. AtDataOut => AtDataOut'
  BY <1>1 DEF AtDataOut, Part
<1>6. AtCSW => AtCSW'
  BY <1>2 DEF AtCSW, Told, Complete
<1>7. AtError => AtError'
  BY <1>2 DEF AtError, Told
<1>8. QED
  BY <1>3, <1>4, <1>5, <1>6, <1>7 DEF Agree, TogglesFit, ToggleFits

\* Units come up.
LEMMA InitLinks ==
  ASSUME TypeInv, ~parted, ~parted', Linked, Process
  PROVE  Linked'
<1> USE DEF TypeInv
<1>1. msc.state = "INIT" /\ Agree /\ InitLinked
  BY DEF Process, InitUnit, GiveUpUnit, Active, Linked
<1>2. /\ msc \in MscStates /\ unit \in Units /\ msc.lun \in 0..MaxLun
      /\ app.lun \in Luns /\ bot.op \in Ops
  BY Typed DEF TypeOK, MscStates, Units, Transports
<1>3. CASE InitUnit
  <2>1. msc.lun \in Luns /\ msc.lun < MaxLun
    BY <1>2, <1>3, LunTypes DEF InitUnit
  <2>2. PICK op \in InitOps, r \in Results :
          /\ op = (IF unit[msc.lun].state = "INIT" THEN "INQUIRY" ELSE unit[msc.lun].state)
          /\ Scsi(msc.lun, op, Size(op), r) /\ InitResult(msc.lun, op, r)
    BY <1>3, Zenon DEF InitUnit
  <2>3. op \in Ops /\ Size(op) \in 0..Packets
    BY SizeTypes DEF Ops
  <2>4. /\ msc'.state = "INIT"
        /\ r = "BUSY" => unit'[msc.lun].state = op /\ msc' = msc
    BY <1>1, <2>1, <2>2, InitResultTypes
  <2>5. /\ Agree'
        /\ \/ r = "BUSY" /\ bot'.cmd = "WAIT" /\ bot'.op = op
           \/ /\ bot.cmd = "WAIT" /\ bot'.op = bot.op
              /\ bot'.cmd = IF r = "BUSY" THEN "WAIT" ELSE "SEND"
    BY <1>1, <2>1, <2>2, <2>3, ScsiAgrees
  <2>6. bot.cmd = "WAIT" => op = bot.op
    BY <1>1, <1>2, <2>2 DEF InitLinked, Ops, InitOps, Commands
  <2>7. InitLinked'
    BY <2>1, <2>4, <2>5, <2>6 DEF InitLinked
  <2>8. QED
    BY <2>4, <2>5, <2>7 DEF Linked
<1>4. CASE GiveUpUnit
  <2>1. /\ msc.lun \in Luns /\ msc.lun < MaxLun /\ unit[msc.lun].state = "UNRECOVERED" /\ NextLun
        /\ UNCHANGED <<bot, pipe, dev, parted, app, count>>
    BY <1>2, <1>4, LunTypes DEF GiveUpUnit
  <2>2. msc'.state = "INIT"
    BY <1>1, <2>1, NextLunTypes
  <2>3. bot.cmd # "WAIT"
    BY <1>1, <1>2, <2>1 DEF InitLinked, Ops, InitOps, Commands
  <2>4. Agree'
    BY <1>1, <2>1, AgreeStays
  <2>5. QED
    BY <2>1, <2>2, <2>3, <2>4 DEF Linked, InitLinked
<1>5. CASE Active
  <2>1. /\ msc.lun >= MaxLun /\ msc' = [state |-> "IDLE", lun |-> 0]
        /\ UNCHANGED <<unit, bot, pipe, dev, parted, app, count>>
    BY <1>5 DEF Active
  <2>2. bot.cmd # "WAIT"
    BY <1>1, <1>2, <2>1, MscAssumption DEF InitLinked
  <2>3. Agree'
    BY <1>1, <2>1, AgreeStays
  <2>4. AppLinked'
    BY <1>1, <1>2, <2>1, <2>2 DEF AppLinked, Engaged
  <2>5. QED
    BY <2>1, <2>3, <2>4 DEF Linked
<1>6. QED
  BY <1>3, <1>4, <1>5 DEF Process

\* A command starts: if no other unit was given up, the transport is free for it.
LEMMA StartLinks ==
  ASSUME TypeInv, ~parted, ~parted', Linked, NEW op \in Commands, NEW l \in Luns, Start(op, l)
  PROVE  Linked'
<1> USE DEF TypeInv
<1>1. /\ msc.state = "IDLE" /\ ~app.busy /\ unit[l].state = "IDLE"
      /\ msc' = [msc EXCEPT !.state = op] /\ unit' = [unit EXCEPT ![l].state = op]
      /\ app' = [busy |-> TRUE, op |-> op, lun |-> l, rdwr |-> "BUSY", ret |-> "none"]
  BY DEF Start
<1>2. msc \in MscStates /\ unit \in Units /\ app.lun \in Luns
  BY DEF TypeOK, MscStates, Units
<1>3. /\ msc'.state = op /\ op # "INIT" /\ unit'[l].state = op
      /\ \A k \in Luns \ {l} : unit'[k] = unit[k]
  BY <1>1, <1>2 DEF MscStates, Units, Commands
<1>4. SUFFICES ASSUME Clean'
               PROVE  Agree' /\ AppLinked'
  BY <1>3 DEF Linked
<1>5. \A k \in Luns : ~Underway(k)
  BY <1>1, <1>3, <1>4 DEF Clean, Underway, Commands
<1>6. Agree /\ AppLinked
  BY <1>1, <1>5 DEF Linked, Clean
<1>7. bot.cmd # "WAIT"
  BY <1>2, <1>5, <1>6 DEF AppLinked
<1>8. PICK r \in Results : Scsi(l, op, Packets, r)
  BY DEF Start
<1>9. op \in Ops /\ Packets \in 0..Packets
  BY MscAssumption DEF Ops
<1>10. /\ Agree' /\ bot'.state = "SEND_CBW" /\ bot'.cmd = "WAIT"
       /\ bot'.op = op /\ bot'.size = Packets
  BY <1>6, <1>7, <1>8, <1>9, ScsiAgrees
<1>11. AppLinked'
  BY <1>1, <1>3, <1>10 DEF AppLinked, Underway
<1>12. QED
  BY <1>10, <1>11

\* A command goes on, fails or is completed.
LEMMA RdWrLinks ==
  ASSUME TypeInv, ~parted, ~parted', Linked, RdWr
  PROVE  Linked'
<1> USE DEF TypeInv
<1>1. app.busy /\ msc.state # "INIT" /\ Underway(app.lun) /\ app.lun \in Luns
  BY DEF RdWr, Engaged, TypeOK
<1>2. PICK op \in Commands \union {"SENSE"}, r \in Results :
        /\ op = unit[app.lun].state
        /\ Scsi(app.lun, op, IF op = "SENSE" THEN 1 ELSE 0, r) /\ RdWrResult(op, r)
  BY <1>1, Zenon DEF RdWr, Underway
<1>3. op \in Ops /\ (IF op = "SENSE" THEN 1 ELSE 0) \in 0..Packets
  BY MscAssumption DEF Ops, InitOps
<1>4. /\ msc'.state # "INIT" /\ app'.lun = app.lun /\ app'.op = app.op /\ SameUnderway
      /\ \/ r = "BUSY" /\ UNCHANGED <<unit, msc, app>>
         \/ /\ r = "OK" /\ op # "SENSE" /\ unit'[app.lun].state = "IDLE"
            /\ ~app'.busy /\ app'.rdwr = "OK"
         \/ /\ r = "OK" /\ op = "SENSE" /\ unit'[app.lun].state = "IDLE"
            /\ ~app'.busy /\ app'.rdwr = "FAIL"
         \/ r = "FAIL" /\ unit'[app.lun].state = "SENSE" /\ UNCHANGED <<msc, app>>
  BY <1>1, <1>2, RdWrResultTypes DEF SameUnderway
<1>5. SUFFICES ASSUME Clean'
               PROVE  Agree' /\ AppLinked'
  BY <1>4 DEF Linked
<1>6. Agree /\ AppLinked
  BY <1>1, <1>4, <1>5, CleanStays DEF Linked
<1>7. /\ Agree'
      /\ \/ /\ bot.cmd = "SEND" /\ r = "BUSY" /\ bot'.state = "SEND_CBW" /\ bot'.cmd = "WAIT"
            /\ bot'.op = op
         \/ /\ bot.cmd = "WAIT" /\ bot'.op = bot.op /\ bot'.size = bot.size
            /\ bot'.cmd = IF r = "BUSY" THEN "WAIT" ELSE "SEND"
            /\ (bot.state # "SEND_CBW" => bot.lun = app.lun) =>
                 (bot'.state # "SEND_CBW" => bot'.lun = app.lun)
            /\ r = "OK" => /\ Told' /\ bot.state # "SEND_CBW" /\ bot'.lun = bot.lun
                           /\ dev'.verdict = "passed" /\ dev'.moved = dev'.size
  BY <1>1, <1>2, <1>3, <1>6, ScsiAgrees
<1>8. CASE bot.cmd = "SEND"
  <2>1. op = "SENSE" /\ r = "BUSY" /\ UNCHANGED <<unit, msc, app>>
    BY <1>2, <1>4, <1>6, <1>7, <1>8 DEF AppLinked
  <2>2. AppLinked'
    BY <1>1, <1>2, <1>6, <1>7, <1>8, <2>1 DEF AppLinked, Underway, Commands
  <2>3. QED
    BY <1>7, <2>2
<1>9. CASE bot.cmd = "WAIT"
  <2>1. bot.op = op /\ (bot.state # "SEND_CBW" => bot.lun = app.lun) /\ app.rdwr = "BUSY"
    BY <1>1, <1>2, <1>6, <1>9 DEF AppLinked
  <2>2. CASE r = "BUSY"
    <3>1. UNCHANGED <<unit, app>>
      BY <1>4, <2>2
    <3>2. AppLinked'
      BY <1>1, <1>2, <1>6, <1>7, <1>9, <2>1, <2>2, <3>1 DEF AppLinked, Underway
    <3>3. QED
      BY <1>7, <3>2
  <2>3. CASE r = "OK" /\ op # "SENSE"
    <3>1. op \in Commands /\ op = app.op /\ bot.size = Packets
      BY <1>2, <1>6, <2>3 DEF AppLinked
    <3>2. /\ unit'[app'.lun].state = "IDLE" /\ ~app'.busy /\ app'.rdwr = "OK"
      BY <1>4, <2>3
    <3>3. /\ Told' /\ bot'.lun = app.lun /\ dev'.verdict = "passed" /\ dev'.moved = dev'.size
          /\ bot'.op = op /\ bot'.size = Packets /\ bot'.cmd = "SEND"
      BY <1>7, <1>9, <2>1, <2>3, <3>1
    <3>4. Served'
      BY <1>4, <1>7, <3>1, <3>3 DEF Served, Told, Agree
    <3>5. AppLinked'
      BY <3>2, <3>3, <3>4 DEF AppLinked, Underway, Commands
    <3>6. QED
      BY <1>7, <3>5
  <2>4. CASE r = "OK" /\ op = "SENSE"
    BY <1>4, <1>7, <1>9, <2>4 DEF AppLinked, Commands
  <2>5. CASE r = "FAIL"
    BY <1>4, <1>7, <1>9, <2>1, <2>5 DEF AppLinked, Commands
  <2>6. QED
    BY <2>2, <2>3, <2>4, <2>5 DEF Results
<1>10. QED
  BY <1>7, <1>8, <1>9

\* A command is given up.
LEMMA TimedOutLinks ==
  ASSUME TypeInv, ~parted, Linked, TimedOut
  PROVE  Linked'
<1> USE DEF TypeInv
<1>1. /\ app.busy /\ msc' = [msc EXCEPT !.state = "IDLE"]
      /\ app' = [app EXCEPT !.busy = FALSE, !.ret = "FAIL"]
      /\ UNCHANGED <<unit, bot, pipe, dev, parted, count>>
  BY DEF TimedOut
<1>2. /\ msc.state # "INIT" /\ msc'.state = "IDLE" /\ ~app'.busy
      /\ app'.lun = app.lun /\ app'.op = app.op /\ app'.rdwr = app.rdwr
  BY <1>1 DEF Engaged, TypeOK
<1>3. SUFFICES ASSUME Clean'
               PROVE  Agree' /\ AppLinked'
  BY <1>2 DEF Linked
<1>4. Agree /\ AppLinked
  BY <1>1, <1>2, <1>3, CleanStays DEF Linked, SameUnderway
<1>5. Agree'
  BY <1>1, <1>4, AgreeStays
<1>6. AppLinked'
  BY <1>1, <1>2, <1>4 DEF AppLinked, Underway
<1>7. QED
  BY <1>5, <1>6

\* The device moves: never after a command was completed, until the next one.
LEMMA DeviceLinks ==
  ASSUME TypeInv, ~parted, Linked, Device
  PROVE  Linked'
<1>1. UNCHANGED <<msc, unit, bot, app, parted>>
  BY DeviceTypes
<1>2. Agree => Agree'
  BY DeviceAgrees
<1>3. ASSUME Agree, AppLinked
      PROVE  AppLinked'
  <2>1. app.rdwr # "OK"
    <3>1. SUFFICES ASSUME app.rdwr = "OK"
                   PROVE  FALSE
      OBVIOUS
    <3>2. bot.cmd = "SEND"
      BY <1>3, <3>1, Typed DEF AppLinked, TypeInv, Transports
    <3>3. Waits /\ Quiet("in") /\ Quiet("out")
      BY <1>3, <3>2 DEF Agree, AtCBW, AtDataIn, AtDataOut, AtCSW, AtError
    <3>4. QED
      BY <3>3 DEF Device, NotReady, Stalled, Accepts, TakeCBW, TakeInvalid, TakeData, DropOut,
         Takes, Send, Halt, Waits, Quiet
  <2>2. QED
    BY <1>1, <1>3, <2>1 DEF AppLinked, Underway
<1>4. QED
  BY <1>1, <1>2, <1>3 DEF Linked, InitLinked, Clean, Underway

\* Every step keeps the two ends and the application in agreement.
LEMMA MscStep == TypeInv /\ (~parted => Linked) /\ [Next]_vars => (~parted => Linked)'
<1> SUFFICES ASSUME TypeInv, ~parted => Linked, [Next]_vars, ~parted'
             PROVE  Linked'
  OBVIOUS
<1>1. ~parted /\ Linked
  BY PartedStays DEF TypeInv
<1>2. CASE Process
  BY <1>1, <1>2, InitLinks
<1>3. CASE Application
  BY <1>1, <1>3, StartLinks DEF Application
<1>4. CASE RdWr
  BY <1>1, <1>4, RdWrLinks
<1>5. CASE TimedOut
  BY <1>1, <1>5, TimedOutLinks
<1>6. CASE Device
  BY <1>1, <1>6, DeviceLinks
<1>7. CASE UNCHANGED vars
  <2>1. UNCHANGED <<msc, unit, bot, pipe, dev, app>>
    BY <1>7 DEF vars
  <2>2. Agree => Agree'
    BY <2>1, AgreeStays
  <2>3. InitLinked' = InitLinked /\ Clean' = Clean
    BY <2>1 DEF InitLinked, Clean, Underway
  <2>4. AppLinked => AppLinked'
    BY <2>1 DEF AppLinked, Underway, Served
  <2>5. QED
    BY <1>1, <2>1, <2>2, <2>3, <2>4 DEF Linked
<1>8. QED
  BY <1>2, <1>3, <1>4, <1>5, <1>6, <1>7 DEF Next

LEMMA MscInit == Init => (~parted => Linked)
BY DEF Init, Linked, Agree, InitLinked, TogglesFit, ToggleFits, AtCBW, Waits, Quiet

-----------------------------------------------------------------------------
(* Once the toggles are apart: the command has no end *)

\* A call of the transport that waits for the CSW, or clears the halt of its endpoint.
LEMMA CswCalls ==
  ASSUME TypeOK, Bounded, bot.cmd = "WAIT", NEW l \in Luns, NEW r, BotProcess(l, r),
         bot.state \in {"ERROR_IN", "RECEIVE_CSW", "RECEIVE_CSW_WAIT"}
  PROVE  \/ /\ bot.state = "RECEIVE_CSW" /\ bot'.state = "RECEIVE_CSW_WAIT"
            /\ r = "BUSY" /\ bot'.cmd = "WAIT" /\ UNCHANGED <<dev, pipe["out"]>>
            /\ pipe'["in"].on /\ pipe'["in"].toggle = pipe["in"].toggle
         \/ /\ bot.state = "RECEIVE_CSW_WAIT" /\ Answer("in", "STALL") /\ bot'.state = "ERROR_IN"
            /\ r = "BUSY" /\ bot'.cmd = "WAIT" /\ UNCHANGED <<dev, pipe>>
         \/ /\ bot.state = "RECEIVE_CSW_WAIT" /\ Answer("in", "DONE")
            /\ r = DecodeCSW /\ bot'.cmd = "SEND" /\ UNCHANGED <<dev, pipe>>
         \/ /\ bot.state = "ERROR_IN" /\ bot'.state = "RECEIVE_CSW"
            /\ r = "BUSY" /\ bot'.cmd = "WAIT" /\ UNCHANGED pipe
            /\ dev'.phase = dev.phase /\ dev'.verdict = dev.verdict
            /\ dev'.halted \subseteq dev.halted
            /\ dev'.toggle["in"] = 0 /\ dev'.toggle["out"] = dev.toggle["out"]
<1>1. CASE Transfer(r)
  <2>1. /\ Case("RECEIVE_CSW", "RECEIVE_CSW_WAIT") /\ pipe' = Receives
        /\ r = "BUSY" /\ UNCHANGED dev
    BY <1>1 DEF Transfer, Case
  <2>2. QED
    BY <2>1, CaseTypes, ReceivesTypes DEF BotStates
<1>2. CASE ReceivedCSW(r)
  <2>1. UNCHANGED <<dev, pipe>>
    BY <1>2 DEF ReceivedCSW, NoDevice
  <2>2. CASE Answer("in", "STALL") /\ Case("RECEIVE_CSW_WAIT", "ERROR_IN") /\ r = "BUSY"
    BY <2>1, <2>2, CaseTypes DEF BotStates
  <2>3. CASE /\ Answer("in", "DONE") /\ bot.state = "RECEIVE_CSW_WAIT" /\ r = DecodeCSW
             /\ bot' = [bot EXCEPT !.state = "SEND_CBW", !.cmd = "SEND"]
    BY <2>1, <2>3, Typed DEF Transports
  <2>4. QED
    BY <1>2, <2>2, <2>3 DEF ReceivedCSW
<1>3. CASE Abort("ERROR_IN", "in", "RECEIVE_CSW") /\ r = "BUSY"
  <2>1. Case("ERROR_IN", "RECEIVE_CSW") /\ dev' = Cleared("in") /\ UNCHANGED pipe
    BY <1>3 DEF Abort
  <2>2. /\ dev'.phase = dev.phase /\ dev'.verdict = dev.verdict
        /\ dev'.halted \subseteq dev.halted
        /\ dev'.toggle["in"] = 0 /\ dev'.toggle["out"] = dev.toggle["out"]
    BY <2>1, Typed DEF Cleared, Disks
  <2>3. QED
    BY <1>3, <2>1, <2>2, CaseTypes DEF BotStates
<1>4. QED
  BY <1>1, <1>2, <1>3 DEF BotProcess, SendCBW, SentCBW, SentData, ReceivedData, Abort, Case

\* What the device does while nothing is sent to it and it has no data to move.
LEMMA CswDevice ==
  ASSUME TypeInv, Device, Quiet("out"), dev.phase \in {"cbw", "csw"}
  PROVE  /\ UNCHANGED <<bot, pipe["out"]>>
         /\ dev'.toggle["out"] = dev.toggle["out"] /\ dev'.verdict = dev.verdict
         /\ \/ /\ pipe["in"].on /\ "in" \in dev.halted /\ UNCHANGED dev
               /\ ~pipe'["in"].on /\ pipe'["in"].urb = "STALL"
               /\ pipe'["in"].toggle = pipe["in"].toggle
            \/ /\ pipe["in"].on /\ "in" \notin dev.halted /\ dev.phase = "csw"
               /\ dev'.phase = "cbw" /\ dev'.halted = dev.halted
               /\ IF ToggleFits("in")
                    THEN /\ ~pipe'["in"].on /\ pipe'["in"].urb = "DONE"
                         /\ pipe'["in"].load = <<dev.verdict, 0>>
                    ELSE UNCHANGED pipe
            \/ /\ dev.phase = "csw" /\ dev'.phase = "csw"
               /\ dev'.halted = dev.halted \union {"in"}
               /\ dev'.toggle = dev.toggle /\ UNCHANGED pipe
<1> USE DEF TypeInv
<1>1. UNCHANGED bot
  BY DeviceTypes
<1>2. CASE Stalled("in")
  <2>1. pipe["in"].on /\ "in" \in dev.halted /\ Ends("in", "STALL") /\ UNCHANGED dev
    BY <1>2 DEF Stalled
  <2>2. QED
    BY <1>1, <2>1, EndsTypes DEF Sides
<1>3. CASE Send
  <2>1. /\ pipe["in"].on /\ "in" \notin dev.halted /\ dev.phase = "csw"
        /\ dev' = [dev EXCEPT !.phase = "cbw", !.toggle = Flipped("in")]
    BY <1>3, Typed DEF Send, Disks, Flipped
  <2>2. /\ dev'.phase = "cbw" /\ dev'.halted = dev.halted /\ dev'.verdict = dev.verdict
        /\ dev'.toggle["out"] = dev.toggle["out"]
    BY <2>1, Typed, FlippedTypes DEF Disks, Sides
  <2>3. CASE ToggleFits("in")
    <3>1. pipe' = [pipe EXCEPT !["in"] =
                    [urb |-> "DONE", on |-> FALSE, toggle |-> Flip(pipe["in"].toggle),
                     load |-> <<dev.verdict, 0>>]]
      BY <1>3, <2>1, <2>3 DEF Send
    <3>2. QED
      BY <1>1, <2>1, <2>2, <2>3, <3>1, Typed DEF Sides
  <2>4. CASE ~ToggleFits("in")
    <3>1. UNCHANGED pipe
      BY <1>3, <2>4 DEF Send
    <3>2. QED
      BY <1>1, <2>1, <2>2, <2>4, <3>1
  <2>5. QED
    BY <2>3, <2>4
<1>4. CASE Halt
  <2>1. /\ dev.phase = "csw" /\ UNCHANGED pipe
        /\ dev' = [dev EXCEPT !.halted = dev.halted \union {"in"}, !.verdict = dev.verdict,
                              !.phase = "csw"]
    BY <1>4 DEF Halt
  <2>2. QED
    BY <1>1, <2>1, Typed DEF Disks
<1>5. ~NotReady /\ ~Stalled("out") /\ ~Takes
  BY DEF NotReady, Stalled, Takes, Quiet
<1>6. ~Accepts
  BY <1>5, Zenon DEF Accepts, TakeCBW, TakeInvalid, TakeData, DropOut
<1>7. Stalled("in") \/ Send \/ Halt
  BY <1>5, <1>6, Zenon DEF Device
<1>8. QED
  BY <1>2, <1>3, <1>4, <1>7

\* A command whose CSW is dropped goes on without an end.
LEMMA CswDroppedCall ==
  ASSUME TypeOK, Bounded, CswDropped, NEW l \in Luns, NEW r, BotProcess(l, r)
  PROVE  r = "BUSY" /\ CswDropped'
<1> USE DEF Quiet, Answer, CswStrays, CswReady, HostAhead
<1>1. pipe["in"].on => ~Answer("in", "STALL") /\ ~Answer("in", "DONE")
  BY DEF Bounded
<1>2. CASE bot.state \in {"ERROR_IN", "RECEIVE_CSW"}
  <2>1. ~pipe["out"].on /\ ~pipe["in"].on /\ CswStrays
    BY <1>2 DEF CswDropped
  <2>2. QED
    BY <1>2, <2>1, CswCalls DEF CswDropped
<1>3. CASE bot.state = "RECEIVE_CSW_WAIT"
  <2>1. ~pipe["out"].on /\ (~pipe["in"].on => Answer("in", "STALL") /\ CswStrays)
    BY <1>3 DEF CswDropped
  <2>2. QED
    BY <1>1, <1>3, <2>1, CswCalls DEF CswDropped
<1>4. QED
  BY <1>2, <1>3 DEF CswDropped

\* A command whose CSW says that it failed ends so.
LEMMA FailureDueCall ==
  ASSUME TypeOK, Bounded, FailureDue, NEW l \in Luns, NEW r, BotProcess(l, r)
  PROVE  \/ r = "BUSY" /\ FailureDue'
         \/ r = "FAIL" /\ SenseDropped'
<1> USE DEF Quiet, Answer, CswFits, CswReady, HostAhead
<1>1. pipe["in"].on => ~Answer("in", "STALL") /\ ~Answer("in", "DONE")
  BY DEF Bounded
<1>2. CASE bot.state = "ERROR_IN"
  BY <1>2, CswCalls DEF FailureDue
<1>3. CASE bot.state = "RECEIVE_CSW"
  BY <1>3, CswCalls DEF FailureDue
<1>4. CASE bot.state = "RECEIVE_CSW_WAIT" /\ Answer("in", "STALL")
  BY <1>1, <1>4, CswCalls DEF FailureDue
<1>5. CASE bot.state = "RECEIVE_CSW_WAIT" /\ Answer("in", "DONE")
  <2>1. ~pipe["in"].on /\ pipe["in"].load = <<"failed", 0>> /\ Waits
    BY <1>1, <1>5 DEF FailureDue
  <2>2. DecodeCSW = "FAIL"
    BY <2>1 DEF DecodeCSW
  <2>3. QED
    BY <1>5, <2>1, <2>2, CswCalls DEF FailureDue, SenseDropped, Waits
<1>6. CASE bot.state = "RECEIVE_CSW_WAIT" /\ ~Answer("in", "STALL") /\ ~Answer("in", "DONE")
  BY <1>6, CswCalls DEF FailureDue
<1>7. QED
  BY <1>2, <1>3, <1>4, <1>5, <1>6 DEF FailureDue

\* A REQUEST SENSE that the device never sees goes on without an end.
LEMMA SenseDroppedCall ==
  ASSUME TypeOK, Bounded, SenseDropped, bot.cmd = "WAIT", NEW l \in Luns, NEW r, BotProcess(l, r)
  PROVE  r = "BUSY" /\ SenseDropped'
<1> USE DEF Quiet, Answer, Waits, HostAhead
<1>1. /\ bot.op = "SENSE" /\ bot.left > 0 /\ Waits
      /\ bot.state \in {"SEND_CBW", "SEND_CBW_WAIT", "DATA_IN", "DATA_IN_WAIT"}
  BY DEF SenseDropped
<1>2. CASE bot.state = "SEND_CBW"
  <2>1. /\ r = "BUSY" /\ UNCHANGED dev /\ pipe' = Sends(<<"cbw", 0>>)
        /\ bot' = [bot EXCEPT !.state = "SEND_CBW_WAIT", !.lun = l]
    BY <1>2 DEF BotProcess, SendCBW, SentCBW, Transfer, SentData, ReceivedData, ReceivedCSW,
       Abort, Case
  <2>2. /\ bot'.state = "SEND_CBW_WAIT" /\ bot'.cmd = "WAIT" /\ bot'.op = bot.op
        /\ bot'.left = bot.left
    BY <2>1, Typed DEF Transports
  <2>3. QED
    BY <1>1, <1>2, <2>1, <2>2, SendsTypes, LoadTypes DEF SenseDropped
<1>3. CASE bot.state = "SEND_CBW_WAIT"
  <2>1. SentCBW(r)
    BY <1>3 DEF BotProcess, SendCBW, SentCBW, Transfer, SentData, ReceivedData, ReceivedCSW,
       Abort, Case
  <2>2. r = "BUSY" /\ UNCHANGED <<dev, pipe>>
    BY <2>1 DEF SentCBW, NoDevice
  <2>3. pipe["out"].urb # "STALL" /\ ~pipe["in"].on
        /\ (pipe["out"].urb \in {"DONE", "NOTREADY"} => ~pipe["out"].on)
    BY <1>3 DEF SenseDropped, Bounded
  <2>4. FirstStage = "DATA_IN"
    BY <1>1, Typed DEF FirstStage, DataIn
  <2>5. CASE pipe["out"].urb = "DONE" /\ Case("SEND_CBW_WAIT", "DATA_IN")
    BY <1>1, <2>2, <2>3, <2>5, CaseTypes DEF SenseDropped, BotStates
  <2>6. CASE pipe["out"].urb = "NOTREADY" /\ Case("SEND_CBW_WAIT", "SEND_CBW")
    BY <1>1, <1>3, <2>2, <2>3, <2>6, CaseTypes DEF SenseDropped, BotStates
  <2>7. QED
    BY <2>1, <2>3, <2>4, <2>5, <2>6 DEF SentCBW
<1>4. CASE bot.state = "DATA_IN"
  <2>1. Case("DATA_IN", "DATA_IN_WAIT") /\ pipe' = Receives /\ r = "BUSY" /\ UNCHANGED dev
    BY <1>4 DEF BotProcess, SendCBW, SentCBW, Transfer, SentData, ReceivedData, ReceivedCSW,
       Abort, Case
  <2>2. QED
    BY <1>1, <1>4, <2>1, CaseTypes, ReceivesTypes DEF SenseDropped, BotStates
<1>5. bot.state # "DATA_IN_WAIT"
  <2>1. bot.state = "DATA_IN_WAIT" => pipe["in"].urb = "IDLE"
    BY DEF SenseDropped, Bounded
  <2>2. QED
    BY <2>1 DEF BotProcess, SendCBW, SentCBW, Transfer, SentData, ReceivedData, Moved, ReceivedCSW,
       Abort, Case
<1>6. QED
  BY <1>1, <1>2, <1>3, <1>4, <1>5

\* The device gives none of them an end.
LEMMA StrayedDevice ==
  ASSUME TypeInv, Device
  PROVE  /\ CswDropped => CswDropped'
         /\ FailureDue => FailureDue'
         /\ SenseDropped => SenseDropped'
<1> USE DEF Quiet, Answer, Waits, CswStrays, CswFits, CswReady, HostAhead, TypeInv
<1>1. UNCHANGED bot
  BY DeviceTypes
<1>2. CswDropped => CswDropped'
  <2> SUFFICES ASSUME CswDropped
               PROVE  CswDropped'
    OBVIOUS
  <2>1. ~pipe["out"].on /\ dev.phase \in {"cbw", "csw"} /\ dev.halted \subseteq {"in"}
    BY DEF CswDropped
  <2>2. QED
    BY <1>1, <2>1, CswDevice DEF CswDropped, ToggleFits
<1>3. FailureDue => FailureDue'
  <2> SUFFICES ASSUME FailureDue
               PROVE  FailureDue'
    OBVIOUS
  <2>1. /\ ~pipe["out"].on /\ dev.phase \in {"cbw", "csw"} /\ dev.halted \subseteq {"in"}
        /\ dev.verdict = "failed" /\ (pipe["in"].on => CswFits)
    BY DEF FailureDue
  <2>2. QED
    BY <1>1, <2>1, CswDevice DEF FailureDue, ToggleFits
<1>4. SenseDropped => SenseDropped'
  <2> SUFFICES ASSUME SenseDropped
               PROVE  SenseDropped'
    OBVIOUS
  <2>1. Waits /\ (pipe["out"].on => HostAhead("out"))
    BY DEF SenseDropped
  <2>2. ~Stalled("in") /\ ~Stalled("out") /\ ~Send /\ ~Halt
    BY <2>1 DEF Stalled, Send, Halt
  <2>3. ~TakeCBW /\ ~TakeInvalid /\ ~TakeData
    <3>1. ~(Takes /\ ToggleFits("out"))
      BY <2>1 DEF Takes, ToggleFits
    <3>2. QED
      BY <3>1, Zenon DEF TakeCBW, TakeInvalid, TakeData
  <2>4. /\ pipe["out"].on /\ UNCHANGED dev
        /\ Ends("out", "NOTREADY") \/ Ends("out", "DONE")
    BY <2>2, <2>3 DEF Device, Accepts, NotReady, DropOut, Takes
  <2>5. /\ pipe'["in"] = pipe["in"] /\ ~pipe'["out"].on
        /\ \/ pipe'["out"].urb = "NOTREADY" /\ pipe'["out"].toggle = pipe["out"].toggle
           \/ pipe'["out"].urb = "DONE"
    BY <2>4, EndsTypes DEF Sides
  <2>6. QED
    BY <1>1, <2>1, <2>4, <2>5 DEF SenseDropped
<1>5. QED
  BY <1>2, <1>3, <1>4

\* The three are about the transport, the pipes and the device only.
LEMMA StrayedSame ==
  ASSUME UNCHANGED <<bot, pipe, dev>>
  PROVE  /\ CswDropped => CswDropped'
         /\ FailureDue => FailureDue'
         /\ SenseDropped => SenseDropped'
BY DEF CswDropped, FailureDue, SenseDropped, Quiet, Answer, Waits, CswStrays, CswFits, CswReady,
   HostAhead

\* The call that parts the toggles clears the halt of an endpoint, while the CSW is due: its
\* own, or after the halt of the OUT endpoint that of a command that failed.
LEMMA PartingCall ==
  ASSUME TypeOK, Bounded, Agree, bot.cmd = "WAIT", ~parted,
         NEW l \in Luns, NEW r, BotProcess(l, r), parted'
  PROVE  /\ r = "BUSY"
         /\ CswDropped' \/ (bot.state = "ERROR_OUT" /\ FailureDue')
<1> USE DEF Quiet, CswStrays, CswReady, HostAhead
<1>1. \/ Abort("ERROR_IN", "in", "RECEIVE_CSW") /\ r = "BUSY"
      \/ Abort("ERROR_OUT", "out", "ERROR_IN") /\ r = "BUSY"
  BY Zenon DEF BotProcess, SendCBW, SentCBW, Transfer, SentData, ReceivedData, Moved, ReceivedCSW,
     NoDevice
<1>2. pipe["in"].toggle \in {0, 1} /\ pipe["out"].toggle \in {0, 1}
  BY Typed DEF Channel, Toggles
<1>3. CASE Abort("ERROR_IN", "in", "RECEIVE_CSW")
  <2>1. /\ Case("ERROR_IN", "RECEIVE_CSW") /\ dev' = Cleared("in") /\ UNCHANGED pipe
        /\ pipe["in"].toggle = 1
    BY <1>2, <1>3 DEF Abort
  <2>2. AtError /\ CswDue
    BY <2>1 DEF Case, Agree, AtCBW, AtDataIn, AtDataOut, AtCSW, AtError
  <2>3. /\ dev'.phase = "csw" /\ dev'.halted \subseteq {"in"} /\ dev'.toggle["in"] = 0
    BY <2>1, <2>2, Typed DEF Cleared, CswDue, Disks
  <2>4. QED
    BY <1>1, <2>1, <2>2, <2>3, CaseTypes DEF CswDropped, AtError, BotStates, Abort, Case
<1>4. CASE Abort("ERROR_OUT", "out", "ERROR_IN")
  <2>1. /\ Case("ERROR_OUT", "ERROR_IN") /\ dev' = Cleared("out") /\ pipe' = ToggledOut(pipe)
        /\ pipe'["out"].toggle # 0
    BY <1>4 DEF Abort
  <2>2. AtError /\ dev.phase = "csw" /\ dev.verdict = "failed"
    BY <2>1 DEF Case, Agree, AtCBW, AtDataIn, AtDataOut, AtCSW, AtError
  <2>3. /\ dev'.phase = "csw" /\ dev'.halted \subseteq {"in"} /\ dev'.toggle["out"] = 0
        /\ dev'.verdict = "failed"
    BY <2>1, <2>2, Typed DEF Cleared, Disks
  <2>4. /\ pipe'["out"].on = pipe["out"].on /\ pipe'["in"].on = pipe["in"].on
        /\ pipe'["in"].toggle = 0 /\ pipe'["out"].toggle = 1
    BY <1>2, <2>1, Typed DEF ToggledOut, Channel, Sides, Flip
  <2>5. QED
    BY <1>1, <2>1, <2>2, <2>3, <2>4, CaseTypes DEF FailureDue, AtError, BotStates, Abort, Case
<1>5. QED
  BY <1>1, <1>3, <1>4

\* Where the command is, whether or not the toggles are apart.
Placed == IF parted THEN Strayed ELSE Linked

\* A call of a request that comes up with a unit: nothing is sent but the CBW.
LEMMA NoDataOutCall ==
  ASSUME TypeInv, NoDataOut, Placed, msc.state = "INIT",
         NEW l \in Luns, NEW op \in Ops, NEW size \in 0..Packets, NEW r, Scsi(l, op, size, r)
  PROVE  bot'.state # "ERROR_OUT"
<1> USE DEF TypeInv
<1>1. CASE Prepare(op, size, r)
  <2>1. bot' = [bot EXCEPT !.state = "SEND_CBW", !.cmd = "WAIT", !.op = op,
                           !.size = size, !.left = size, !.intact = TRUE]
    BY <1>1 DEF Prepare
  <2>2. QED
    BY <2>1, Typed DEF Transports
<1>2. CASE bot.cmd = "WAIT" /\ BotProcess(l, r) /\ parted
  BY <1>2, CswDroppedCall DEF Placed, Strayed, CswDropped
<1>3. CASE bot.cmd = "WAIT" /\ BotProcess(l, r) /\ ~parted
  <2>1. Agree /\ InitLinked
    BY <1>3 DEF Placed, Linked
  <2>2. bot.op \notin Commands
    <3>1. msc.lun \in 0..MaxLun /\ msc.lun < MaxLun /\ unit[msc.lun].state = bot.op
      BY <1>3, <2>1 DEF InitLinked, TypeOK
    <3>2. QED
      BY <3>1, LunTypes DEF Engaged
  <2>3. ~AtDataOut
    BY <2>2, Typed DEF AtDataOut, DataIn, NoDataOut, Commands, Bounded
  <2>4. \/ SendCBW(l, r) \/ SentCBW(r) \/ Transfer(r) \/ ReceivedData(r) \/ ReceivedCSW(r)
        \/ Abort("ERROR_IN", "in", "RECEIVE_CSW") \/ Abort("ERROR_OUT", "out", "ERROR_IN")
    <3>1. ~SentData(r)
      BY <2>1, <2>3 DEF SentData, Agree, AtCBW, AtDataIn, AtCSW, AtError
    <3>2. QED
      BY <1>3, <3>1, Zenon DEF BotProcess
  <2>5. CASE SentCBW(r)
    <3>1. PICK to \in {FirstStage, "SEND_CBW", "ERROR_OUT"} :
            /\ Case("SEND_CBW_WAIT", to)
            /\ to \in {FirstStage, "SEND_CBW"} \/ Answer("out", "STALL")
      BY <2>5 DEF SentCBW
    <3>2. to \in BotStates /\ bot.state = "SEND_CBW_WAIT"
      BY <3>1, FirstStageTypes DEF BotStates, Case
    <3>3. ~Answer("out", "STALL")
      BY <2>1, <3>2 DEF Agree, AtCBW, AtDataIn, AtDataOut, AtCSW, AtError, Answer, Bounded
    <3>4. QED
      BY <3>1, <3>2, <3>3, CaseTypes, FirstStageTypes
  <2>6. CASE SendCBW(l, r)
    BY <2>6, Typed DEF SendCBW, Transports
  <2>7. CASE Transfer(r)
    BY <2>7, CaseTypes DEF Transfer, BotStates
  <2>8. CASE ReceivedData(r)
    BY <2>8, Typed DEF ReceivedData, Moved, Case, Transports
  <2>9. CASE ReceivedCSW(r)
    BY <2>9, Typed DEF ReceivedCSW, Case, Transports
  <2>10. CASE Abort("ERROR_IN", "in", "RECEIVE_CSW") \/ Abort("ERROR_OUT", "out", "ERROR_IN")
    BY <2>10, Typed DEF Abort, Case, Transports
  <2>11. QED
    BY <2>4, <2>5, <2>6, <2>7, <2>8, <2>9, <2>10
<1>4. QED
  BY <1>1, <1>2, <1>3 DEF Scsi

\* No request asks a unit whether it is ready with a length.
LEMMA ReadyCall ==
  ASSUME TypeInv, NoDataOut, NEW l \in Luns, NEW op \in Ops, NEW size \in 0..Packets, NEW r,
         op = "READY" => size = 0, Scsi(l, op, size, r)
  PROVE  bot'.op = "READY" => bot'.size = 0
<1>1. CASE Prepare(op, size, r)
  <2>1. bot' = [bot EXCEPT !.state = "SEND_CBW", !.cmd = "WAIT", !.op = op,
                           !.size = size, !.left = size, !.intact = TRUE]
    BY <1>1 DEF Prepare
  <2>2. QED
    BY <2>1, Typed DEF Transports, TypeInv
<1>2. CASE BotProcess(l, r)
  BY <1>2, BotTypes DEF TypeInv, NoDataOut
<1>3. QED
  BY <1>1, <1>2 DEF Scsi

LEMMA NoDataOutStep == TypeInv /\ NoDataOut /\ Placed /\ [Next]_vars => NoDataOut'
<1> SUFFICES ASSUME TypeInv, NoDataOut, Placed, [Next]_vars
             PROVE  NoDataOut'
  OBVIOUS
<1> USE DEF TypeInv
<1>1. /\ msc \in MscStates /\ msc.lun \in 0..MaxLun /\ app.lun \in Luns
  BY DEF TypeOK, MscStates
<1>2. CASE InitUnit
  <2>1. msc.state = "INIT" /\ msc.lun \in Luns
    BY <1>1, <1>2, LunTypes DEF InitUnit
  <2>2. PICK op \in InitOps, r \in Results : Scsi(msc.lun, op, Size(op), r)
    BY <1>2, Zenon DEF InitUnit
  <2>3. op \in Ops /\ Size(op) \in 0..Packets /\ (op = "READY" => Size(op) = 0)
    BY SizeTypes DEF Ops, Size, Commands
  <2>4. QED
    BY <2>1, <2>2, <2>3, NoDataOutCall, ReadyCall DEF NoDataOut
<1>3. ASSUME NEW op \in Commands, NEW l \in Luns, Start(op, l)
      PROVE  NoDataOut'
  <2>1. PICK r \in Results : Scsi(l, op, Packets, r)
    BY <1>3 DEF Start
  <2>2. op \in Ops /\ Packets \in 0..Packets /\ op # "READY"
    BY MscAssumption DEF Ops, Commands
  <2>3. msc'.state # "INIT"
    BY <1>1, <1>3 DEF Start, MscStates, Commands
  <2>4. QED
    BY <2>1, <2>2, <2>3, ReadyCall DEF NoDataOut
<1>4. CASE RdWr
  <2>1. Underway(app.lun) /\ msc.state # "INIT"
    BY <1>4 DEF RdWr, Engaged
  <2>2. PICK op \in Commands \union {"SENSE"}, r \in Results :
          Scsi(app.lun, op, IF op = "SENSE" THEN 1 ELSE 0, r) /\ RdWrResult(op, r)
    BY <1>4, <2>1, Zenon DEF RdWr, Underway
  <2>3. op \in Ops /\ (IF op = "SENSE" THEN 1 ELSE 0) \in 0..Packets /\ op # "READY"
    BY MscAssumption DEF Ops, InitOps, Commands
  <2>4. msc'.state # "INIT"
    BY <2>1, <2>2, RdWrResultTypes
  <2>5. QED
    BY <1>1, <2>2, <2>3, <2>4, ReadyCall DEF NoDataOut
<1>5. CASE GiveUpUnit
  BY <1>1, <1>5, NextLunTypes DEF GiveUpUnit, NoDataOut
<1>6. CASE Active \/ TimedOut
  BY <1>1, <1>6 DEF Active, TimedOut, MscStates, NoDataOut
<1>7. CASE Device
  BY <1>7, DeviceTypes DEF NoDataOut
<1>8. CASE UNCHANGED vars
  BY <1>8 DEF vars, NoDataOut
<1>9. QED
  BY <1>2, <1>3, <1>4, <1>5, <1>6, <1>7, <1>8 DEF Next, Process, Application

\* A unit that comes up never does.
LEMMA InitStrays ==
  ASSUME TypeInv, NoDataOut, Placed, Process, parted'
  PROVE  Strayed'
<1> USE DEF TypeInv
<1>1. /\ msc.state = "INIT" /\ InitLinked
      /\ IF parted THEN CswDropped ELSE Agree
  BY DEF Process, InitUnit, GiveUpUnit, Active, Placed, Strayed, Linked
<1>2. /\ msc \in MscStates /\ unit \in Units /\ msc.lun \in 0..MaxLun /\ bot.op \in Ops
  BY Typed DEF TypeOK, MscStates, Units, Transports
<1>3. CASE InitUnit
  <2>1. msc.lun \in Luns /\ msc.lun < MaxLun
    BY <1>2, <1>3, LunTypes DEF InitUnit
  <2>2. PICK op \in InitOps, r \in Results :
          /\ op = (IF unit[msc.lun].state = "INIT" THEN "INQUIRY" ELSE unit[msc.lun].state)
          /\ Scsi(msc.lun, op, Size(op), r) /\ InitResult(msc.lun, op, r)
    BY <1>3, Zenon DEF InitUnit
  <2>3. bot.cmd = "WAIT" /\ BotProcess(msc.lun, r)
    <3>1. CASE parted
      BY <1>1, <2>2, <3>1 DEF CswDropped, Scsi, Prepare
    <3>2. CASE ~parted
      BY <2>2, <3>2, Zenon DEF Scsi, Prepare, NoDevice
    <3>3. QED
      BY <3>1, <3>2
  <2>4. r = "BUSY" /\ CswDropped'
    <3>1. CASE parted
      BY <1>1, <2>1, <2>3, <3>1, CswDroppedCall
    <3>2. CASE ~parted
      <4>1. bot.state # "ERROR_OUT"
        BY <1>1 DEF NoDataOut
      <4>2. QED
        BY <1>1, <2>1, <2>3, <3>2, <4>1, PartingCall
    <3>3. QED
      BY <3>1, <3>2
  <2>5. /\ msc'.state = "INIT" /\ unit'[msc.lun].state = op /\ msc' = msc
    BY <1>1, <2>1, <2>2, <2>4, InitResultTypes
  <2>6. bot'.op = bot.op /\ op = bot.op
    BY <1>1, <1>2, <2>1, <2>2, <2>3, BotTypes DEF InitLinked, Ops, InitOps, Commands
  <2>7. QED
    BY <2>1, <2>4, <2>5, <2>6 DEF Strayed, InitLinked
<1>4. ~GiveUpUnit /\ ~Active
  <2>1. SUFFICES ASSUME GiveUpUnit \/ Active
                 PROVE  FALSE
    OBVIOUS
  <2>2. bot.cmd = "WAIT"
    BY <1>1, <2>1 DEF GiveUpUnit, Active, CswDropped
  <2>3. msc.lun < MaxLun /\ unit[msc.lun].state \in Ops
    BY <1>1, <1>2, <2>2 DEF InitLinked
  <2>4. ~Active
    <3>1. ~(msc.lun >= MaxLun)
      BY <1>2, <2>3, LunTypes
    <3>2. QED
      BY <3>1, Zenon DEF Active
  <2>5. unit[msc.lun].state # "UNRECOVERED"
    BY <2>3 DEF Ops, InitOps, Commands
  <2>6. QED
    BY <2>1, <2>4, <2>5 DEF GiveUpUnit
<1>5. QED
  BY <1>3, <1>4 DEF Process

\* No command starts on a clean medium: one unit was given up.
LEMMA StartStrays ==
  ASSUME TypeInv, Placed, NEW op \in Commands, NEW l \in Luns, Start(op, l), parted'
  PROVE  Strayed'
<1> USE DEF TypeInv
<1>1. /\ msc.state = "IDLE" /\ unit[l].state = "IDLE"
      /\ msc' = [msc EXCEPT !.state = op] /\ unit' = [unit EXCEPT ![l].state = op]
      /\ app' = [busy |-> TRUE, op |-> op, lun |-> l, rdwr |-> "BUSY", ret |-> "none"]
  BY DEF Start
<1>2. msc \in MscStates /\ unit \in Units /\ app.lun \in Luns
  BY DEF TypeOK, MscStates, Units
<1>3. /\ msc'.state = op /\ op # "INIT"
      /\ \A k \in Luns \ {l} : unit'[k] = unit[k]
  BY <1>1, <1>2 DEF MscStates, Units, Commands
<1>4. SUFFICES ASSUME Clean'
               PROVE  FALSE
  BY <1>3 DEF Strayed
<1>5. \A k \in Luns : ~Underway(k)
  BY <1>1, <1>3, <1>4 DEF Clean, Underway, Commands
<1>6. ~parted /\ AppLinked
  BY <1>1, <1>2, <1>5 DEF Placed, Strayed, Linked, Clean
<1>7. bot.cmd # "WAIT"
  BY <1>2, <1>5, <1>6 DEF AppLinked
<1>8. PICK r \in Results : Scsi(l, op, Packets, r)
  BY DEF Start
<1>9. parted' = parted
  BY <1>7, <1>8, Zenon DEF Scsi, Prepare, NoDevice
<1>10. QED
  BY <1>6, <1>9

\* A command under way is not completed.
LEMMA RdWrStrays ==
  ASSUME TypeInv, Placed, RdWr, parted'
  PROVE  Strayed'
<1> USE DEF TypeInv
<1>1. app.busy /\ msc.state # "INIT" /\ Underway(app.lun) /\ app.lun \in Luns
  BY DEF RdWr, Engaged, TypeOK
<1>2. PICK op \in Commands \union {"SENSE"}, r \in Results :
        /\ op = unit[app.lun].state
        /\ Scsi(app.lun, op, IF op = "SENSE" THEN 1 ELSE 0, r) /\ RdWrResult(op, r)
  BY <1>1, Zenon DEF RdWr, Underway
<1>3. /\ msc'.state # "INIT" /\ app'.lun = app.lun /\ SameUnderway
      /\ r = "BUSY" => UNCHANGED <<unit, app>>
      /\ r = "FAIL" => unit'[app.lun].state = "SENSE" /\ UNCHANGED app
  BY <1>1, <1>2, RdWrResultTypes DEF SameUnderway
<1>4. SUFFICES ASSUME Clean'
               PROVE  Strayed'
  BY <1>3 DEF Strayed
<1>5. Clean
  BY <1>3, <1>4, CleanStays
<1>6. CASE ~parted
  <2>1. Agree /\ app.rdwr = "BUSY"
    BY <1>1, <1>5, <1>6 DEF Placed, Linked, AppLinked
  <2>2. bot.cmd = "WAIT" /\ BotProcess(app.lun, r)
    BY <1>2, <1>6, Zenon DEF Scsi, Prepare, NoDevice
  <2>3. r = "BUSY" /\ (CswDropped' \/ FailureDue')
    BY <1>1, <1>6, <2>1, <2>2, PartingCall
  <2>4. QED
    BY <1>1, <1>3, <2>1, <2>3 DEF Strayed, Underway
<1>7. ASSUME parted, app.rdwr = "BUSY", bot.cmd = "WAIT"
      PROVE  BotProcess(app.lun, r)
  BY <1>2, <1>7 DEF Scsi, Prepare
<1>8. CASE parted
  <2>1. /\ app.rdwr = "BUSY"
        /\ CswDropped \/ FailureDue \/ (SenseDropped /\ op = "SENSE")
    BY <1>1, <1>2, <1>5, <1>8 DEF Placed, Strayed
  <2>2. CASE CswDropped
    <3>1. r = "BUSY" /\ CswDropped'
      BY <1>1, <1>7, <1>8, <2>1, <2>2, CswDroppedCall DEF CswDropped
    <3>2. QED
      BY <1>1, <1>3, <2>1, <3>1 DEF Strayed, Underway
  <2>3. CASE FailureDue
    <3>1. bot.cmd = "WAIT" /\ BotProcess(app.lun, r)
      BY <1>7, <1>8, <2>1, <2>3 DEF FailureDue
    <3>2. (r = "BUSY" /\ FailureDue') \/ (r = "FAIL" /\ SenseDropped')
      BY <1>1, <2>3, <3>1, FailureDueCall
    <3>3. QED
      BY <1>1, <1>3, <2>1, <3>2 DEF Strayed, Underway
  <2>4. CASE SenseDropped /\ op = "SENSE"
    <3>1. r = "BUSY" /\ SenseDropped'
      <4>1. CASE bot.cmd = "WAIT"
        BY <1>1, <1>7, <1>8, <2>1, <2>4, <4>1, SenseDroppedCall
      <4>2. CASE bot.cmd # "WAIT"
        <5>1. /\ r = "BUSY" /\ UNCHANGED <<pipe, dev>>
              /\ bot' = [bot EXCEPT !.state = "SEND_CBW", !.cmd = "WAIT", !.op = "SENSE",
                                    !.size = 1, !.left = 1, !.intact = TRUE]
          BY <1>2, <2>4, <4>2 DEF Scsi, Prepare, NoDevice
        <5>2. /\ bot'.state = "SEND_CBW" /\ bot'.cmd = "WAIT" /\ bot'.op = "SENSE"
              /\ bot'.left = 1
          BY <5>1, Typed DEF Transports
        <5>3. QED
          BY <2>4, <4>2, <5>1, <5>2 DEF SenseDropped, Waits, Quiet, HostAhead
      <4>3. QED
        BY <4>1, <4>2
    <3>2. QED
      BY <1>1, <1>2, <1>3, <2>1, <2>4, <3>1 DEF Strayed, Underway
  <2>5. QED
    BY <2>1, <2>2, <2>3, <2>4
<1>9. QED
  BY <1>6, <1>8

\* Every step keeps the place of the command, whether or not the toggles are apart.
LEMMA PlacedStep == TypeInv /\ NoDataOut /\ Placed /\ [Next]_vars => Placed'
<1> SUFFICES ASSUME TypeInv, NoDataOut, Placed, [Next]_vars
             PROVE  Placed'
  OBVIOUS
<1> USE DEF TypeInv
<1>1. CASE ~parted'
  BY <1>1, MscStep DEF Placed
<1>2. CASE parted'
  <2>1. CASE Process
    BY <1>2, <2>1, InitStrays DEF Placed
  <2>2. CASE Application
    BY <1>2, <2>2, StartStrays DEF Placed, Application
  <2>3. CASE RdWr
    BY <1>2, <2>3, RdWrStrays DEF Placed
  <2>4. CASE TimedOut
    <3>1. /\ msc' = [msc EXCEPT !.state = "IDLE"] /\ app.busy /\ parted
          /\ app' = [app EXCEPT !.busy = FALSE, !.ret = "FAIL"]
          /\ UNCHANGED <<unit, bot, pipe, dev>>
      BY <1>2, <2>4 DEF TimedOut
    <3>2. /\ msc.state # "INIT" /\ msc'.state = "IDLE"
          /\ app'.lun = app.lun /\ app'.rdwr = app.rdwr
      BY <3>1 DEF Engaged, TypeOK
    <3>3. Clean' => Clean
      BY <3>1, <3>2 DEF Clean, Underway
    <3>4. QED
      BY <1>2, <3>1, <3>2, <3>3, StrayedSame DEF Placed, Strayed, Underway
  <2>5. CASE Device
    <3>1. UNCHANGED <<msc, unit, bot, app, parted>>
      BY <2>5, DeviceTypes
    <3>2. QED
      BY <1>2, <2>5, <3>1, StrayedDevice DEF Placed, Strayed, InitLinked, Clean, Underway
  <2>6. CASE UNCHANGED vars
    BY <1>2, <2>6, StrayedSame DEF vars, Placed, Strayed, InitLinked, Clean, Underway
  <2>7. QED
    BY <2>1, <2>2, <2>3, <2>4, <2>5, <2>6 DEF Next
<1>3. QED
  BY <1>1, <1>2

LEMMA PlacedInit == Init => NoDataOut /\ Placed
BY MscInit DEF Init, NoDataOut, Placed

\* The two ends and the application agree on the place of the command in every reachable
\* state, for every number of packets, units, commands and faults; or the toggles are apart,
\* and the command has no end.
THEOREM MscInvariant == Spec => []MscInv
<1>1. TypeInv /\ NoDataOut /\ Placed => MscInv
  BY DEF TypeInv, MscInv, Placed, Linked
<1>2. QED
  BY <1>1, TypeInit, TypeStep, PlacedInit, NoDataOutStep, PlacedStep, PTL DEF Spec

\* When a read or a write is completed the device has executed it, unless another unit was
\* given up: also after a cleared halt has left the toggles apart, for then none is.
THEOREM CompletedIsServed == Spec => []CompletedMeansServed
<1>1. TypeInv /\ MscInv => CompletedMeansServed
  BY DEF MscInv, Strayed, CompletedMeansServed, AppLinked, TypeInv, Engaged
<1>2. QED
  BY <1>1, MscInvariant, TypeInit, TypeStep, PTL DEF Spec
=============================================================================
