--------------------------- MODULE UsbControl_proofs ---------------------------
(***************************************************************************)
(* TLAPS proofs about UsbControl, for every queue capacity, every retry    *)
(* limit and every set and number of faults: type correctness, that no     *)
(* wake-up of the USB thread is lost, that success means served, when a    *)
(* SETUP packet goes out on a quiet bus, and that the transfer implements  *)
(* ControlService.  All of it for the root's handle and for a child's.     *)
(***************************************************************************)
EXTENDS UsbControl, TLAPS

\* An osMessagePut leaves the queue non-empty, whether or not it drops its message.
LEMMA PostedBounds ==
  ASSUME NEW q \in 0 .. QueueLength
  PROVE  Posted(q) \in 1 .. QueueLength
BY UsbControlAssumption DEF Posted

\* Type correctness of every step.
THEOREM TypeCorrect == Spec => []TypeOK
<1>1. Init => TypeOK
  <2> SUFFICES ASSUME Init PROVE TypeOK
    OBVIOUS
  <2>1. ctl \in Controls
    BY UsbControlAssumption
    DEF Init, Controls, DeInitialised, NoRequest, Requests, CtrlStates
  <2>2. is_child \in BOOLEAN /\ gaveup \in BOOLEAN
    BY DEF Init
  <2>3. QED
    BY <2>1, <2>2, UsbControlAssumption DEF Init, TypeOK, UrbStates, Stages, Tokens
<1>2. TypeOK /\ [Next]_vars => TypeOK'
  <2> SUFFICES ASSUME TypeOK, [Next]_vars PROVE TypeOK'
    OBVIOUS
  <2> USE UsbControlAssumption, PostedBounds DEF TypeOK, Controls, Tokens, Quiet
  <2>1. CASE Wake
    BY <2>1 DEF Wake
  <2>2. CASE Process
    BY <2>2 DEF Process, DeInitialised, CtrlStates
  <2>3. CASE CtlReqNoPipes
    BY <2>3 DEF CtlReqNoPipes
  <2>4. CASE CtlReqSend
    <3>1. PICK r \in Requests :
            ctl' = [ctl EXCEPT !.request = "WAIT", !.state = "SETUP", !.setup = r]
      BY <2>4 DEF CtlReqSend
    <3>2. ctl' \in Controls
      BY <3>1 DEF CtrlStates
    <3>3. QED
      BY <2>4, <3>2 DEF CtlReqSend, Stages
  <2>5. CASE CtlReqWait
    BY <2>5 DEF CtlReqWait
  <2>6. CASE HandleSend
    BY <2>6 DEF HandleSend, Return, SubmitURB, SendingOn, Token, WaitAfter,
                Pipes, CtrlStates, UrbStates
  <2>7. CASE StageDone
    BY <2>7 DEF StageDone, Return, NextStage, CtrlStates
  <2>8. CASE TransferDone
    <3>1. ctl' \in Controls
      BY <2>8 DEF TransferDone, Return, CtrlStates
    <3>2. QED
      BY <2>8, <3>1 DEF TransferDone, Return
  <2>9. CASE StageError
    <3>1. ctl' \in Controls
      BY <2>9 DEF StageError, Return, CtrlStates
    <3>2. QED
      BY <2>9, <3>1 DEF StageError, Return
  <2>10. CASE StageStalled
    BY <2>10 DEF StageStalled, Return, CtrlStates
  <2>11. CASE SendAgain
    BY <2>11 DEF SendAgain, Return, CtrlStates
  <2>12. CASE StillBusy
    BY <2>12 DEF StillBusy, Return
  <2>13. CASE HandleError
    <3>1. CASE ctl.errorcount < MaxErrorCount
      <4>1. /\ StartOver /\ chan' = Stopped /\ gaveup' = (is_child /\ gaveup)
            /\ UNCHANGED urb
        BY <2>13, <3>1 DEF HandleError
      <4>2. ctl.errorcount + 1 \in 0 .. MaxErrorCount
        BY <3>1
      <4>3. ctl' \in Controls
        BY <4>1, <4>2 DEF StartOver, Return, CtrlStates
      <4>4. gaveup' \in BOOLEAN
        BY <4>1
      <4>5. QED
        BY <4>1, <4>3, <4>4 DEF StartOver, Return, Stopped
    <3>2. CASE ~(ctl.errorcount < MaxErrorCount)
      <4>1. GiveUp /\ gaveup' = TRUE /\ UNCHANGED <<urb, chan>>
        BY <2>13, <3>2 DEF HandleError
      <4>2. ctl' \in Controls
        <5>1. ctl' = [ctl EXCEPT !.request = "SEND", !.errorcount = 0]
          BY <4>1 DEF GiveUp, Return
        <5>2. 0 \in 0 .. MaxErrorCount
          OBVIOUS
        <5>3. QED
          BY <5>1, <5>2
      <4>3. gaveup' \in BOOLEAN
        BY <4>1
      <4>4. QED
        BY <4>1, <4>2, <4>3 DEF GiveUp, Return
    <3>3. QED
      BY <3>1, <3>2
  <2>14. CASE Attach
    BY <2>14 DEF Attach
  <2>15. CASE ChannelIRQ
    <3>1. PICK p \in Pipes : UrbDone(p) \/ UrbNak(p) \/ UrbStall(p) \/ UrbTxErr(p)
      BY <2>15 DEF ChannelIRQ
    <3>2. CASE UrbDone(p)
      BY <3>2 DEF UrbDone, ChannelHalted, Executed, StageOf, Stages, UrbStates
    <3>3. CASE UrbNak(p)
      BY <3>3 DEF UrbNak, ChannelHalted, Commit, UrbStates
    <3>4. CASE UrbStall(p)
      BY <3>4 DEF UrbStall, ChannelHalted, Commit, UrbStates
    <3>5. CASE UrbTxErr(p)
      BY <3>5 DEF UrbTxErr, ChannelHalted, Reactivated, Commit, UrbStates
    <3>6. QED
      BY <3>1, <3>2, <3>3, <3>4, <3>5
  <2>16. CASE Disconnect
    <3>1. chan' \in [Pipes -> Tokens] /\ gaveup' \in BOOLEAN
      BY <2>16 DEF Disconnect
    <3>2. QED
      BY <2>16, <3>1 DEF Disconnect, Commit
  <2>17. CASE Poll
    BY <2>17 DEF Poll
  <2>18. CASE Vanish
    BY <2>18 DEF Vanish, Commit
  <2>19. CASE Remove
    <3>1. chan' \in [Pipes -> Tokens] /\ gaveup' \in BOOLEAN
      BY <2>19 DEF Remove
    <3>2. ctl' \in Controls
      BY <2>19 DEF Remove, DeInitialised, CtrlStates
    <3>3. queue' \in 0 .. QueueLength
      BY <2>19 DEF Remove
    <3>4. QED
      BY <2>19, <3>1, <3>2, <3>3 DEF Remove
  <2>20. CASE RootStops
    <3>1. chan' \in [Pipes -> Tokens] /\ gaveup' \in BOOLEAN
      BY <2>20 DEF RootStops
    <3>2. QED
      BY <2>20, <3>1 DEF RootStops, Commit
  <2>21. CASE UNCHANGED vars
    BY <2>21 DEF vars
  <2>22. QED
    BY <2>1, <2>2, <2>3, <2>4, <2>5, <2>6, <2>7, <2>8, <2>9, <2>10, <2>11,
       <2>12, <2>13, <2>14, <2>15, <2>16, <2>17, <2>18, <2>19, <2>20, <2>21
    DEF Next, Thread, HandleControl
<1>3. QED
  BY <1>1, <1>2, PTL DEF Spec

\* Every step keeps the wake-up invariant.
LEMMA WakeupStep == TypeOK /\ WakeupKept /\ [Next]_vars => WakeupKept'
<1> SUFFICES ASSUME TypeOK, WakeupKept, [Next]_vars PROVE WakeupKept'
  OBVIOUS
<1> USE UsbControlAssumption, PostedBounds DEF TypeOK, Connected, WakeupKept, NoLostWakeup
<1>1. CASE Wake
  BY <1>1 DEF Wake
<1>2. CASE Process
  BY <1>2 DEF Process, DeInitialised
<1>3. CASE Attach
  BY <1>3 DEF Attach
<1>4. CASE CtlReqNoPipes
  BY <1>4 DEF CtlReqNoPipes, PipesAllocated, Controls
<1>5. CASE CtlReqSend
  BY <1>5 DEF CtlReqSend, PipesAllocated
<1>6. CASE CtlReqWait
  BY <1>6 DEF CtlReqWait, PipesAllocated
<1>7. CASE HandleSend
  <2>1. PICK p \in Pipes :
          /\ ctl.state \in SendingOn(p)
          /\ SubmitURB(p, Token(ctl.state))
    BY <1>7 DEF HandleSend
  <2>2. ctl' = [ctl EXCEPT !.state = WaitAfter(ctl.state)] /\ UNCHANGED <<link, queue>>
    BY <1>7 DEF HandleSend, Return
  <2>3. CASE Connected
    <3>1. urb' = [urb EXCEPT ![p] = "IDLE"]
      BY <2>1, <2>3 DEF SubmitURB
    <3>2. ctl'.state = WaitAfter(ctl.state) /\ WaitAfter(ctl.state) \in WaitingOn(p)
      BY <2>1, <2>2 DEF Controls, Pipes, SendingOn, WaitAfter, WaitingOn
    <3>3. ~WouldAct'
      BY <3>1, <3>2 DEF WouldAct, Pipes, SendingOn, WaitingOn, Answers
    <3>4. pc' = "get"
      BY <1>7 DEF HandleSend, Return
    <3>5. QED
      BY <2>2, <2>3, <3>3, <3>4
  <2>4. CASE ~Connected
    BY <1>7, <2>2, <2>4 DEF HandleSend, Controls
  <2>5. QED
    BY <2>3, <2>4
<1>8. CASE StageDone
  BY <1>8 DEF StageDone, Return, Controls
<1>9. CASE TransferDone
  BY <1>9 DEF TransferDone, Return, Controls
<1>10. CASE StageError
  <2>1. queue' \in 1 .. QueueLength /\ UNCHANGED link /\ pc' = "get"
    BY <1>10 DEF StageError, Return
  <2>2. ctl'.request \in {ctl.request, "SEND"}
    BY <1>10 DEF StageError, Return, Controls
  <2>3. QED
    BY <2>1, <2>2
<1>11. CASE StageStalled
  BY <1>11 DEF StageStalled, Return, Controls
<1>12. CASE SendAgain
  BY <1>12 DEF SendAgain, Return, Controls
<1>13. CASE StillBusy
  <2>1. ~WouldAct
    BY <1>13 DEF StillBusy, WouldAct, Pipes, SendingOn, WaitingOn, Answers
  <2>2. WouldAct' = WouldAct
    BY <1>13 DEF StillBusy, Return, WouldAct
  <2>3. QED
    BY <1>13, <2>1, <2>2 DEF StillBusy, Return
<1>14. CASE HandleError
  BY <1>14 DEF HandleError, StartOver, GiveUp, Return, Controls
<1>15. CASE ChannelIRQ
  <2>1. queue' \in 1 .. QueueLength /\ UNCHANGED <<ctl, link, pc>>
    BY <1>15 DEF ChannelIRQ, UrbDone, UrbNak, UrbStall, UrbTxErr, ChannelHalted
  <2>2. QED
    BY <2>1
<1>16. CASE Disconnect
  BY <1>16 DEF Disconnect
<1>17. CASE Poll
  BY <1>17 DEF Poll
<1>18. CASE Vanish
  BY <1>18 DEF Vanish, WouldAct
<1>19. CASE Remove
  BY <1>19 DEF Remove, DeInitialised
<1>20. CASE RootStops
  BY <1>20 DEF RootStops, WouldAct
<1>21. CASE UNCHANGED vars
  BY <1>21 DEF vars, WouldAct
<1>22. QED
  BY <1>1, <1>2, <1>3, <1>4, <1>5, <1>6, <1>7, <1>8, <1>9, <1>10, <1>11, <1>12,
     <1>13, <1>14, <1>15, <1>16, <1>17, <1>18, <1>19, <1>20, <1>21
  DEF Next, Thread, HandleControl

\* Every step keeps what is known of the channels and of the stages executed.
LEMMA TransferStep ==
  TypeOK /\ ControlInv /\ [Next]_vars
    => (ChannelsStopped /\ LeftRunning /\ StageFits /\ StagesServed)'
<1> SUFFICES ASSUME TypeOK, ControlInv, [Next]_vars
             PROVE  (ChannelsStopped /\ LeftRunning /\ StageFits /\ StagesServed)'
  OBVIOUS
<1> USE UsbControlAssumption
    DEF TypeOK, Controls, Requests, Pipes, ControlInv, WakeupKept, ChannelsStopped, LeftRunning,
        StageFits, StagesServed, Passed, Pending, OkMeansServed, Served, Needed,
        Connected, Quiet
<1>1. CASE Wake
  BY <1>1 DEF Wake
<1>2. CASE Process
  <2>1. UNCHANGED <<is_child, urb, chan, dev, ret, gaveup>>
    BY <1>2 DEF Process
  <2>2. CASE link = "lost"
    <3>1. ctl' = DeInitialised(ctl) /\ link' = "down"
      BY <1>2, <2>2 DEF Process
    <3>2. /\ ctl'.request = "SEND" /\ ctl'.errorcount = 0
          /\ ctl'.setup = ctl.setup /\ chan' = [p \in Pipes |-> "none"]
      BY <2>1, <2>2, <3>1 DEF DeInitialised
    <3>3. QED
      BY <2>1, <3>1, <3>2
  <2>3. CASE link # "lost"
    <3>1. UNCHANGED <<ctl, link>> /\ pc' # "control"
      BY <1>2, <2>3 DEF Process
    <3>2. (ChannelsStopped /\ LeftRunning /\ StageFits)'
      BY <2>1, <3>1
    <3>3. StagesServed'
      BY <2>1, <3>1
    <3>4. QED
      BY <3>2, <3>3
  <2>4. QED
    BY <2>2, <2>3
<1>3. CASE Attach
  BY <1>3 DEF Attach
<1>4. CASE CtlReqNoPipes
  BY <1>4 DEF CtlReqNoPipes, PipesAllocated
<1>5. CASE CtlReqSend
  BY <1>5 DEF CtlReqSend, PipesAllocated
<1>6. CASE CtlReqWait
  BY <1>6 DEF CtlReqWait, PipesAllocated
<1>7. CASE HandleSend
  <2>1. PICK p \in Pipes :
          /\ ctl.state \in SendingOn(p)
          /\ SubmitURB(p, Token(ctl.state))
    BY <1>7 DEF HandleSend
  <2>2. /\ pc = "control" /\ ctl.request = "WAIT" /\ ret' = "BUSY" /\ pc' = "get"
        /\ ctl' = [ctl EXCEPT !.state = WaitAfter(ctl.state)]
        /\ UNCHANGED <<is_child, link, dev, gaveup>>
    BY <1>7 DEF HandleSend, Return
  <2>3. /\ ctl'.request = "WAIT" /\ ctl'.setup = ctl.setup /\ ctl'.errorcount = ctl.errorcount
        /\ ctl'.state = WaitAfter(ctl.state)
    BY <2>2
  <2>4. CASE ~Connected
    <3>1. UNCHANGED <<urb, chan>>
      BY <2>1, <2>4 DEF SubmitURB
    <3>2. QED
      BY <2>1, <2>2, <2>3, <2>4, <3>1 DEF SendingOn, WaitAfter
  <2>5. CASE Connected /\ p = "in"
    <3>1. urb' = [urb EXCEPT !["in"] = "IDLE"] /\ chan' = [chan EXCEPT !["in"] = "DATA"]
      BY <2>1, <2>5 DEF SubmitURB, SendingOn, Token
    <3>2. \/ ctl.state = "DATA_IN" /\ ctl'.state = "DATA_IN_WAIT"
          \/ ctl.state = "STATUS_IN" /\ ctl'.state = "STATUS_IN_WAIT"
      BY <2>1, <2>3, <2>5 DEF SendingOn, WaitAfter
    <3>3. QED
      BY <2>2, <2>3, <2>5, <3>1, <3>2
  <2>6. CASE Connected /\ p = "out" /\ ctl.state = "SETUP"
    <3>1. urb' = [urb EXCEPT !["out"] = "IDLE"] /\ chan' = [chan EXCEPT !["out"] = "SETUP"]
      BY <2>1, <2>6 DEF SubmitURB, Token
    <3>2. ctl'.state = "SETUP_WAIT"
      BY <2>3, <2>6 DEF WaitAfter
    <3>3. QED
      BY <2>2, <2>3, <2>6, <3>1, <3>2
  <2>7. CASE Connected /\ p = "out" /\ ctl.state # "SETUP"
    <3>1. /\ urb' = [urb EXCEPT !["out"] = "IDLE"]
          /\ chan' = [chan EXCEPT !["out"] = Token(ctl.state)]
      BY <2>1, <2>7 DEF SubmitURB
    <3>2. \/ ctl.state = "DATA_OUT" /\ ctl'.state = "DATA_OUT_WAIT"
          \/ ctl.state = "STATUS_OUT" /\ ctl'.state = "STATUS_OUT_WAIT"
      BY <2>1, <2>3, <2>7 DEF SendingOn, WaitAfter
    <3>3. Token(ctl.state) \in {"DATA", "EMPTY"}
      BY <3>2 DEF Token
    <3>4. QED
      BY <2>2, <2>3, <2>7, <3>1, <3>2, <3>3
  <2>8. QED
    BY <2>4, <2>5, <2>6, <2>7
<1>8. CASE StageDone
  BY <1>8 DEF StageDone, Return, Reads, WaitingOn, NextStage
<1>9. CASE TransferDone
  BY <1>9 DEF TransferDone, Return, Reads, WaitingOn
<1>10. CASE StageError
  <2>1. /\ pc = "control" /\ pc' = "get" /\ UNCHANGED <<is_child, urb, chan, link, dev, gaveup>> /\ ret' # "OK"
        /\ \E p \in Pipes : Reads(p, "ERROR")
    BY <1>10 DEF StageError, Return
  <2>2. /\ ctl'.setup = ctl.setup /\ ctl'.errorcount = ctl.errorcount /\ ctl'.state = "ERROR"
        /\ ctl'.request = IF ctl.state = "DATA_OUT_WAIT" THEN "SEND" ELSE ctl.request
    BY <1>10 DEF StageError, Return
  <2>3. ctl.state \in {"SETUP_WAIT", "DATA_IN_WAIT", "DATA_OUT_WAIT", "STATUS_IN_WAIT",
                       "STATUS_OUT_WAIT"}
    BY <2>1 DEF Reads, WaitingOn
  <2>4. ChannelsStopped' /\ StageFits'
    BY <2>1, <2>2, <2>3
  <2>5. StagesServed'
    BY <2>1, <2>2, <2>3
  <2>6. LeftRunning'
    BY <2>1, <2>2, <2>3 DEF Reads, WaitingOn
  <2>7. QED
    BY <2>4, <2>5, <2>6
<1>11. CASE StageStalled
  BY <1>11 DEF StageStalled, Return, Reads, WaitingOn
<1>12. CASE SendAgain
  BY <1>12 DEF SendAgain, Return, Reads, WaitingOn
<1>13. CASE StillBusy
  BY <1>13 DEF StillBusy, Return
<1>14. CASE HandleError
  <2>1. /\ ctl.request = "WAIT" /\ ctl.state = "ERROR" /\ pc' = "get"
        /\ ret' # "OK" /\ ctl'.request = "SEND" /\ UNCHANGED <<is_child, urb, link, dev>>
    BY <1>14 DEF HandleError, StartOver, GiveUp, Return
  <2>2. CASE ctl.errorcount < MaxErrorCount
    <3>1. StartOver /\ chan' = Stopped /\ gaveup' = (is_child /\ gaveup)
      BY <1>14, <2>2 DEF HandleError
    <3>2. ctl'.errorcount = ctl.errorcount + 1
      BY <3>1 DEF StartOver, Return
    <3>3. is_child => ctl'.errorcount > 0
      BY <3>2
    <3>4. chan["out"] # "SETUP"
      BY <2>1
    <3>5. QED
      BY <2>1, <3>1, <3>3, <3>4 DEF Stopped
  <2>3. CASE ~(ctl.errorcount < MaxErrorCount)
    <3>1. chan' = chan /\ gaveup' = TRUE
      BY <1>14, <2>3 DEF HandleError
    <3>2. QED
      BY <2>1, <3>1
  <2>4. QED
    BY <2>2, <2>3
<1>15. CASE ChannelIRQ
  <2>1. PICK p \in Pipes : UrbDone(p) \/ UrbNak(p) \/ UrbStall(p) \/ UrbTxErr(p)
    BY <1>15 DEF ChannelIRQ
  <2>2. CASE UrbDone(p)
    <3>1. /\ urb' = [urb EXCEPT ![p] = "DONE"] /\ chan' = [chan EXCEPT ![p] = "none"]
          /\ UNCHANGED <<is_child, ctl, link, pc, ret, gaveup>>
          /\ dev' = Executed(p) /\ link = "up" /\ chan[p] # "none"
      BY <2>2 DEF UrbDone, ChannelHalted, Accepts
    <3>2. ChannelsStopped' /\ StageFits'
      BY <3>1
    <3>3. CASE chan[p] = "SETUP"
      <4>1. p = "out" /\ dev' = {"setup"}
        BY <3>1, <3>3 DEF Executed
      <4>2. LeftRunning'
        BY <3>1, <3>3, <4>1
      <4>3. StagesServed'
        BY <3>1, <3>3, <4>1
      <4>4. QED
        BY <3>2, <4>2, <4>3
    <3>4. CASE chan[p] # "SETUP" /\ "setup" \in dev
      <4>1. dev' = dev \union {StageOf(p)}
        BY <3>1, <3>4 DEF Executed
      <4>2. LeftRunning'
        BY <3>1, <3>4, <4>1
      <4>3. StagesServed'
        <5>1. dev \subseteq dev'
          BY <4>1
        <5>2. (ctl.request = "WAIT" => ret' # "OK") /\ OkMeansServed'
          BY <3>1, <5>1
        <5>3. ASSUME ctl.request = "WAIT" PROVE Passed'
          <6>1. Passed
            BY <3>1, <5>3
          <6>2. CASE p = "in"
            <7>1. urb'["out"] = urb["out"]
              BY <3>1, <6>2
            <7>2. ctl.state = "DATA_IN_WAIT" => "data" \in dev'
              BY <3>4, <4>1, <5>3, <6>2 DEF StageOf
            <7>3. ctl.state = "STATUS_IN_WAIT" => "status" \in dev'
              BY <3>4, <4>1, <5>3, <6>2 DEF StageOf
            <7>4. QED
              BY <3>1, <5>1, <6>1, <7>1, <7>2, <7>3
          <6>3. CASE p = "out"
            <7>1. urb'["in"] = urb["in"]
              BY <3>1, <6>3
            <7>2. ctl.state = "DATA_OUT_WAIT" => "data" \in dev'
              BY <3>4, <4>1, <5>3, <6>3 DEF StageOf
            <7>3. ctl.state = "STATUS_OUT_WAIT" => "status" \in dev'
              BY <3>4, <4>1, <5>3, <6>3 DEF StageOf
            <7>4. QED
              BY <3>1, <3>4, <5>1, <6>1, <7>1, <7>2, <7>3
          <6>4. QED
            BY <6>2, <6>3
        <5>4. QED
          BY <3>1, <5>1, <5>2, <5>3
      <4>4. QED
        BY <3>2, <4>2, <4>3
    <3>5. CASE chan[p] # "SETUP" /\ "setup" \notin dev
      <4>1. dev' = dev
        BY <3>1, <3>5 DEF Executed
      <4>2. LeftRunning'
        BY <3>1, <3>5, <4>1
      <4>3. ctl.request = "WAIT" => ctl.state \in {"IDLE", "SETUP", "SETUP_WAIT", "ERROR", "STALLED"}
        BY <3>1, <3>5
      <4>4. ctl.request = "WAIT" /\ ctl.state = "SETUP_WAIT" => p = "in"
        BY <3>1, <3>5
      <4>5. StagesServed'
        BY <3>1, <4>1, <4>3, <4>4
      <4>6. QED
        BY <3>2, <4>2, <4>5
    <3>6. QED
      BY <3>3, <3>4, <3>5
  <2>3. CASE UrbNak(p)
    BY <2>3 DEF UrbNak, ChannelHalted
  <2>4. CASE UrbStall(p)
    BY <2>4 DEF UrbStall, ChannelHalted
  <2>5. CASE UrbTxErr(p)
    BY <2>5 DEF UrbTxErr, ChannelHalted, Reactivated
  <2>6. QED
    BY <2>1, <2>2, <2>3, <2>4, <2>5
<1>16. CASE Disconnect
  BY <1>16 DEF Disconnect
<1>17. CASE Poll
  BY <1>17 DEF Poll
<1>18. CASE Vanish
  BY <1>18 DEF Vanish
<1>19. CASE Remove
  BY <1>19 DEF Remove, DeInitialised
<1>20. CASE RootStops
  BY <1>20 DEF RootStops
<1>21. CASE UNCHANGED vars
  BY <1>21 DEF vars
<1>22. QED
  BY <1>1, <1>2, <1>3, <1>4, <1>5, <1>6, <1>7, <1>8, <1>9, <1>10, <1>11, <1>12,
     <1>13, <1>14, <1>15, <1>16, <1>17, <1>18, <1>19, <1>20, <1>21
  DEF Next, Thread, HandleControl

\* The inductive invariant of the control transfer.
THEOREM ControlInvariant == Spec => []ControlInv
<1>1. Init => ControlInv
  BY DEF Init, ControlInv, WakeupKept, NoLostWakeup, ChannelsStopped, LeftRunning, StageFits,
         StagesServed, OkMeansServed, Pending, DeInitialised, Pipes, Connected
<1>2. TypeOK /\ ControlInv /\ [Next]_vars => ControlInv'
  BY WakeupStep, TransferStep DEF ControlInv
<1>3. QED
  BY <1>1, <1>2, TypeCorrect, PTL DEF Spec

\* The USB thread never sleeps on a control transfer that its next call would move
\* on, whatever the capacity of os_event and whatever the device does.
THEOREM NoWakeupLost == Spec => []NoLostWakeup
<1>1. ControlInv => NoLostWakeup
  BY DEF ControlInv, WakeupKept
<1>2. QED
  BY <1>1, ControlInvariant, PTL

\* USBH_CtlReq returns USBH_OK only for a request whose every stage the device has
\* executed, whatever is stalled, lost, given up or unplugged before.
THEOREM OkIsServed == Spec => []OkMeansServed
<1>1. ControlInv => OkMeansServed
  BY DEF ControlInv, StagesServed
<1>2. QED
  BY <1>1, ControlInvariant, PTL

\* A SETUP packet goes out while the control IN channel has nothing under way, of the root
\* unless a request was given up, of a child unless it counts errors.
THEOREM RetriesOnQuietBus == Spec => SetupOnQuietBus
<1>1. TypeOK /\ ControlInv /\ [Next]_vars
        => [ (chan'["out"] = "SETUP" /\ chan["out"] # "SETUP")
               => \/ chan["in"] = "none"
                  \/ gaveup
                  \/ is_child /\ ctl.errorcount > 0 ]_vars
  <2> SUFFICES ASSUME TypeOK, ControlInv, Next, chan'["out"] = "SETUP", chan["out"] # "SETUP"
               PROVE  \/ chan["in"] = "none"
                      \/ gaveup
                      \/ is_child /\ ctl.errorcount > 0
    BY DEF vars
  <2>1. HandleSend /\ ctl.state = "SETUP"
    <3>1. CASE HandleSend
      BY <3>1 DEF HandleSend, SubmitURB, Token, TypeOK, Pipes
    <3>2. CASE ChannelIRQ
      BY <3>2 DEF ChannelIRQ, UrbDone, UrbNak, UrbStall, UrbTxErr, ChannelHalted, Reactivated,
                  TypeOK, Pipes
    <3>3. CASE HandleError
      BY <3>3 DEF HandleError, Stopped, Quiet, Pipes
    <3>4. CASE Disconnect \/ Vanish \/ Remove \/ RootStops
      BY <3>4 DEF Disconnect, Vanish, Remove, RootStops, Quiet, Pipes
    <3>5. CASE /\ Thread \/ Poll \/ Attach
               /\ ~HandleSend /\ ~HandleError
      BY <3>5 DEF Thread, Wake, Poll, Process, Attach, CtlReqNoPipes, CtlReqSend, CtlReqWait,
                  HandleControl, StageDone, TransferDone, StageError, StageStalled, SendAgain,
                  StillBusy
    <3>6. QED
      BY <3>1, <3>2, <3>3, <3>4, <3>5 DEF Next
  <2>2. QED
    <3>1. ctl.request = "WAIT" /\ ctl.state = "SETUP"
      BY <2>1 DEF HandleSend, ControlInv, WakeupKept
    <3>2. chan["in"] \in {"none", "DATA"}
      BY DEF ControlInv, LeftRunning
    <3>3. CASE chan["in"] = "DATA"
      BY <3>1, <3>3 DEF ControlInv, LeftRunning, Pending
    <3>4. QED
      BY <3>2, <3>3
<1>2. QED
  BY <1>1, TypeCorrect, ControlInvariant, PTL DEF Spec, SetupOnQuietBus

\* What a step of the service is, in terms of a request that is pending, served, and
\* reported as done.
LEMMA ServiceCases ==
  LET pending == ctl.request = "WAIT"
      ok      == ret = "OK"
  IN  \/ (pending' <=> pending) /\ (Served' <=> Served) /\ (ok' <=> ok)
      \/ ~pending /\ pending' /\ ~Served' /\ ~ok'
      \/ pending /\ pending' /\ ~Served /\ Served' /\ (ok' <=> ok)
      \/ pending /\ Served /\ ~pending' /\ ok' /\ (Served' <=> Served)
      \/ ~pending' /\ ~ok' /\ (Served' <=> Served)
      \/ ~pending /\ ~pending' /\ ~ok'
      => [Service!Next]_Service!vars
<1> DEFINE pending == ctl.request = "WAIT"
           ok      == ret = "OK"
<1>1. Served \in BOOLEAN /\ Served' \in BOOLEAN
  BY DEF Served
<1>2. ASSUME pending' <=> pending, Served' <=> Served, ok' <=> ok
      PROVE  UNCHANGED Service!vars
  BY <1>1, <1>2, Zenon DEF Service!vars
<1>3. ASSUME ~pending, pending', ~Served', ~ok' PROVE Service!Start
  BY <1>3, Zenon DEF Service!Start
<1>4. ASSUME pending, pending', ~Served, Served', ok' <=> ok PROVE Service!Serve
  BY <1>4, Zenon DEF Service!Serve
<1>5. ASSUME pending, Served, ~pending', ok', Served' <=> Served PROVE Service!Succeed
  BY <1>1, <1>5, Zenon DEF Service!Succeed
<1>6. ASSUME pending, ~pending', ~ok', Served' <=> Served PROVE Service!GiveUp
  BY <1>1, <1>6, Zenon DEF Service!GiveUp
<1>7. ASSUME ~pending, ~pending', ~ok' PROVE Service!Reject
  BY <1>1, <1>7, Zenon DEF Service!Reject
<1>8. QED
  BY <1>2, <1>3, <1>4, <1>5, <1>6, <1>7, Zenon DEF Service!Next

\* A step of the control transfer is a step of the service it gives to its callers.
LEMMA ServiceStep ==
  TypeOK /\ ControlInv /\ ControlInv' /\ [Next]_vars => [Service!Next]_Service!vars
<1> SUFFICES ASSUME TypeOK, ControlInv, ControlInv', [Next]_vars
             PROVE  [Service!Next]_Service!vars
  OBVIOUS
<1>1. /\ ctl.request \in {"SEND", "WAIT"}
      /\ ctl.request = "WAIT" => ret # "OK"
      /\ pc = "control" => ctl.request = "WAIT"
      /\ OkMeansServed /\ OkMeansServed'
  BY DEF TypeOK, Controls, ControlInv, WakeupKept, StagesServed
<1>2. ASSUME UNCHANGED <<ctl, dev, ret>> PROVE [Service!Next]_Service!vars
  BY <1>2, ServiceCases DEF Served, Needed
<1>3. ASSUME UNCHANGED dev, ctl'.setup = ctl.setup PROVE Served' <=> Served
  BY <1>3 DEF Served, Needed
<1>4. ASSUME pc = "control", UNCHANGED dev, ctl'.setup = ctl.setup,
             ret' # "OK" PROVE [Service!Next]_Service!vars
  BY <1>1, <1>3, <1>4, ServiceCases
<1>5. CASE Wake \/ Poll \/ Attach \/ CtlReqWait \/ UNCHANGED vars
  BY <1>2, <1>5 DEF Wake, Poll, Attach, CtlReqWait, vars
<1>6. CASE Process \/ Remove
  <2>1. UNCHANGED <<dev, ret>> /\ ctl'.setup = ctl.setup
    BY <1>6 DEF Process, Remove, DeInitialised
  <2>2. ctl' = ctl \/ ctl'.request = "SEND"
    BY <1>6 DEF Process, Remove, DeInitialised
  <2>3. QED
    BY <1>1, <1>3, <2>1, <2>2, ServiceCases
<1>7. CASE CtlReqNoPipes
  <2>1. UNCHANGED dev /\ ctl'.setup = ctl.setup /\ ctl'.request = "SEND" /\ ret' = "FAIL"
    BY <1>7 DEF CtlReqNoPipes, TypeOK, Controls
  <2>2. QED
    BY <1>3, <2>1, ServiceCases
<1>8. CASE CtlReqSend
  <2>1. ctl.request = "SEND" /\ ctl'.request = "WAIT" /\ ret' = "BUSY" /\ dev' = {}
    BY <1>8 DEF CtlReqSend, TypeOK, Controls
  <2>2. ~Served'
    BY <2>1 DEF Served, Needed
  <2>3. QED
    BY <2>1, <2>2, ServiceCases
<1>9. CASE TransferDone
  <2>1. /\ UNCHANGED dev /\ ctl'.setup = ctl.setup /\ pc = "control"
        /\ ctl'.request = "SEND" /\ ret' = "OK"
    BY <1>9 DEF TransferDone, Return, TypeOK, Controls
  <2>2. Served'
    BY <1>1, <2>1 DEF OkMeansServed
  <2>3. QED
    BY <1>1, <1>3, <2>1, <2>2, ServiceCases
<1>10. CASE HandleControl /\ ~TransferDone
  <2>1. pc = "control" /\ UNCHANGED dev /\ ctl'.setup = ctl.setup
    BY <1>10 DEF HandleControl, HandleSend, StageDone, StageError, StageStalled, SendAgain,
                 StillBusy, HandleError, StartOver, GiveUp, Return, TypeOK, Controls
  <2>2. ret' # "OK" /\ ctl'.request \in {"SEND", "WAIT"}
    BY <1>10 DEF HandleControl, HandleSend, StageDone, StageError, StageStalled, SendAgain,
                 StillBusy, HandleError, StartOver, GiveUp, Return, TypeOK, Controls
  <2>3. QED
    BY <1>4, <2>1, <2>2
<1>11. CASE ChannelIRQ
  <2>1. PICK p \in Pipes : UrbDone(p) \/ UrbNak(p) \/ UrbStall(p) \/ UrbTxErr(p)
    BY <1>11 DEF ChannelIRQ
  <2>2. CASE UrbNak(p) \/ UrbStall(p) \/ UrbTxErr(p)
    BY <1>2, <2>2 DEF UrbNak, UrbStall, UrbTxErr, ChannelHalted
  <2>3. CASE UrbDone(p)
    <3>1. UNCHANGED <<ctl, ret>>
      BY <2>3 DEF UrbDone, ChannelHalted
    <3>2. CASE chan[p] = "SETUP"
      <4>1. p = "out" /\ ctl.request = "WAIT" /\ dev = {}
        BY <3>2 DEF Pipes, ControlInv, LeftRunning, Pending
      <4>2. dev' = {"setup"}
        BY <2>3, <3>2 DEF UrbDone, Executed
      <4>3. ~Served /\ ~Served'
        BY <4>1, <4>2 DEF Served, Needed
      <4>4. QED
        BY <1>1, <3>1, <4>1, <4>3, ServiceCases
    <3>3. CASE chan[p] # "SETUP"
      <4>1. dev \subseteq dev'
        BY <2>3, <3>3 DEF UrbDone, Executed
      <4>2. Served => Served'
        BY <3>1, <4>1 DEF Served, Needed
      <4>3. ret = "OK" => Served
        BY <1>1 DEF OkMeansServed
      <4>4. QED
        BY <1>1, <3>1, <4>2, <4>3, ServiceCases
    <3>4. QED
      BY <3>2, <3>3
  <2>4. QED
    BY <2>1, <2>2, <2>3
<1>12. CASE Disconnect \/ Vanish \/ RootStops
  BY <1>2, <1>12 DEF Disconnect, Vanish, RootStops
<1>13. QED
  BY <1>5, <1>6, <1>7, <1>8, <1>9, <1>10, <1>11, <1>12 DEF Next, Thread, HandleControl

\* The control transfer implements ControlService: its callers see requests that are
\* started, served, answered with success only then, or given up.
THEOREM TransferImplementsService == Spec => ServiceKept
<1>1. Init => Service!Init
  BY DEF Init, Service!Init, DeInitialised, Served, Needed
<1>2. TypeOK /\ ControlInv /\ ControlInv' /\ [Next]_vars => [Service!Next]_Service!vars
  BY ServiceStep
<1>3. QED
  BY <1>1, <1>2, TypeCorrect, ControlInvariant, PTL DEF Spec, ServiceKept, Service!Spec
=============================================================================
