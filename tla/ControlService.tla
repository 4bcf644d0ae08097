---------------------------- MODULE ControlService ----------------------------
(***************************************************************************)
(* What a caller of USBH_CtlReq is promised, with no pipes, no URBs and no *)
(* event queue: a request that was started may be served by the device,    *)
(* and USBH_OK is returned only for a request the device has served.  The  *)
(* host may give a request up, and then the caller starts again.           *)
(***************************************************************************)

VARIABLES
  pending,  \* RequestState = CMD_WAIT: a request has been started
  served,   \* the device has executed every stage of the pending request
  ok        \* the last call of USBH_CtlReq returned USBH_OK

vars == <<pending, served, ok>>

TypeOK == pending \in BOOLEAN /\ served \in BOOLEAN /\ ok \in BOOLEAN

Init == ~pending /\ ~served /\ ~ok

\* The caller starts a request: nothing of it has been executed yet.
Start == ~pending /\ pending' /\ ~served' /\ ~ok'

\* The device executes the last stage.
Serve == pending /\ ~served /\ served' /\ UNCHANGED <<pending, ok>>

\* The host reports success, of a request that was served and of no other.
Succeed == pending /\ served /\ ~pending' /\ ok' /\ UNCHANGED served

\* The host gives the request up: an error, a detached device, a retry.
GiveUp == pending /\ ~pending' /\ ~ok' /\ served' \in {FALSE, served}

\* With no request under way a call may fail, a device may go away, and a request
\* that was given up may still be executed, too late to count.
Reject == ~pending /\ ~pending' /\ ~ok' /\ served' \in BOOLEAN

Next == Start \/ Serve \/ Succeed \/ GiveUp \/ Reject

Spec == Init /\ [][Next]_vars
=============================================================================
