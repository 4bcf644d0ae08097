------------------------------- MODULE Ch340App -------------------------------
(***************************************************************************)
(* One life of a CH340 serial adapter and its application: the USB thread  *)
(* in the class (usbh_ch340.c), the application's two threads, its queue   *)
(* of one message and its log ring (app_ch340.c), from the announcement of *)
(* the class to its removal.                                               *)
(*                                                                         *)
(* The USB thread and the application's thread have one priority and       *)
(* interleave; the thread of the log has a lower one and never runs inside *)
(* the callback of the USB thread.  Sending has variables and a pipe of    *)
(* its own, and is left out but for its writes to the common state.        *)
(***************************************************************************)
EXTENDS Naturals

CONSTANTS
  Size,        \* LOG_BUFF_SIZE
  Width,       \* 2^32, where p_read and p_write wrap
  Requests,    \* the vendor requests of the attachment (7)
  PacketSizes, \* how many bytes a packet from the device may have, and the last one of
               \* the channel's user before: with a full ring they stay below 2^32
  Total        \* bound: how many bytes the device sends

\* A value that is none of the enumeration does what IDLE does.
RxStates == {"IDLE", "RECEIVE", "WAIT"}

ASSUME Ch340Assumption ==
  /\ Size \in Nat \ {0} /\ Width \in Nat /\ Width > Size /\ Width % Size = 0
  /\ Requests \in Nat \ {0} /\ Total \in Nat
  /\ PacketSizes \subseteq 1 .. Width - Size

VARIABLES
  gState,  \* of the handle of the adapter
  usb,     \* where the USB thread is
  cdc,     \* CDC_Handle: state, attach_state (how many requests), data_rx_state
  pipe,    \* the bulk IN pipe: urb_state, under way, and the last packet's size
  app,     \* its queue, where its thread is, what it posts next, g_stop_flag
  ring,    \* log_buf: its bytes, p_read, p_write
  log,     \* where LOG_Task is, its len, and rx_total_num
  sent,    \* the bytes the device has sent: the n-th is n
  torn     \* history: the class has acted on a data_rx_state that nobody wrote, between
           \* the two writes of USBH_CDC_Receive

vars == <<gState, usb, cdc, pipe, app, ring, log, sent, torn>>

Messages == {"READY", "READY_CHECK", "SETTING_LINECODE", "RUNNING", "DISCONNECT"}

TypeOK ==
  /\ gState \in {"CLASS_REQUEST", "CLASS", "DISCONNECTED"}
  /\ usb \in {"request", "announced", "class", "attached", "stop", "stopped", "deinit", "free"}
  /\ cdc \in [state : {"IDLE", "ATTACH_INIT", "SET_LINE_CODING", "GET_LAST_LINE_CODING",
                       "TRANSFER_DATA", "ERROR"},
              attach : 0..Requests, rx : RxStates]
  /\ pipe \in [urb : {"IDLE", "DONE"}, on : BOOLEAN, size : {0} \union PacketSizes]
  /\ app \in [queue : Messages \union {"none"}, next : Messages, stop : BOOLEAN,
              at : Messages \union {"none", "get", "post", "receive", "loop", "deleted"}]
  /\ ring \in [bytes : [0..Size-1 -> 0..Total], read : 0..Width-1, write : 0..Width-1]
  /\ log \in [at : {"none", "look", "count", "ended"}, len : 0..Size-1, total : Nat]
  /\ sent \in 0..Total /\ torn \in BOOLEAN

\* After new_CH340_Application and the class' InterfaceInit, which does not set
\* data_rx_state in the memory malloc returns, as HAL_HCD_HC_Init does not set the
\* urb_state and the xfer_count of the channel's last user.
Init ==
  /\ gState = "CLASS_REQUEST" /\ usb = "request"
  /\ cdc \in [state : {"IDLE"}, attach : {0}, rx : RxStates]
  /\ pipe \in [urb : {"IDLE", "DONE"}, on : {FALSE}, size : {0} \union PacketSizes]
  /\ app = [queue |-> "none", at |-> "none", next |-> "READY", stop |-> FALSE]
  /\ ring = [bytes |-> [i \in 0..Size-1 |-> 0], read |-> 0, write |-> 0]
  /\ log = [at |-> "none", len |-> 0, total |-> 0]
  /\ sent = 0 /\ torn = FALSE

\* osMessagePut with timeout 0 waits one tick and drops the message when the queue's
\* only place is still taken.
Put(queue, m) == IF queue = "none" THEN m ELSE queue

-----------------------------------------------------------------------------
(* The USB thread *)

Usb(from, to) == usb = from /\ usb' = to

\* ClassRequest: HOST_USER_CLASS_ACTIVE calls start_CH340_Application.
ClassRequest ==
  /\ Usb("request", "announced")
  /\ app' = [app EXCEPT !.at = "get", !.queue = Put(@, "READY")]
  /\ log' = [log EXCEPT !.at = "look"]
  /\ UNCHANGED <<gState, cdc, pipe, ring, sent, torn>>

EnterClass ==
  /\ Usb("announced", "class")
  /\ gState' = "CLASS"
  /\ UNCHANGED <<cdc, pipe, app, ring, log, sent, torn>>

\* CDC_ATTACH_INIT_STATE: one of the requests of ch34x_attach has succeeded; one that
\* fails is made again.
Attach ==
  /\ cdc.state = "ATTACH_INIT" /\ cdc.attach < Requests
  /\ cdc' = [cdc EXCEPT !.attach = @ + 1]
  /\ Usb("class", IF cdc.attach + 1 = Requests THEN "attached" ELSE "class")
  /\ UNCHANGED <<gState, pipe, app, ring, log, sent, torn>>

\* The state after the attachment is written when attach_state tells of its end.
Attached ==
  /\ Usb("attached", "class")
  /\ cdc' = [cdc EXCEPT !.state = "IDLE"]
  /\ UNCHANGED <<gState, pipe, app, ring, log, sent, torn>>

\* The end of a request of the state s of the class.
Request(s, to) ==
  /\ Usb("class", "class") /\ cdc.state = s
  /\ cdc' = [cdc EXCEPT !.state = to]
  /\ UNCHANGED <<gState, pipe, app, ring, log, sent, torn>>

SetLineCoding ==
  Request("SET_LINE_CODING", "GET_LAST_LINE_CODING") \/ Request("SET_LINE_CODING", "ERROR")
GetLineCoding == Request("GET_LAST_LINE_CODING", "IDLE")
ClearFeature == Request("ERROR", "IDLE")

\* USBH_CDC_Receive has written the state and not yet data_rx_state.
Tears == torn' = (torn \/ app.at = "receive")

\* CDC_ProcessReception in CDC_RECEIVE_DATA.
ReceiveData ==
  /\ Usb("class", "class") /\ cdc.state = "TRANSFER_DATA" /\ cdc.rx = "RECEIVE"
  /\ cdc' = [cdc EXCEPT !.rx = "WAIT"]
  /\ pipe' = [pipe EXCEPT !.urb = "IDLE", !.on = TRUE]
  /\ Tears /\ UNCHANGED <<gState, app, ring, log, sent>>

Used == ((ring.write + Width) - ring.read) % Width

\* Mutant: the test forgets the packet.
NoRoomForgets == Used >= Size
NoRoom == (Used + pipe.size) % Width >= Size

\* The byte k of recv_buf: of the last packet, or 0 when there was none.
Received(k) == IF sent = 0 THEN 0 ELSE (sent - pipe.size) + 1 + k

\* The packet at the place of p_write, and from the start of the ring what goes beyond
\* its end.
Copied ==
  LET offset(i) == ((i + Size) - (ring.write % Size)) % Size IN
  [i \in 0..Size-1 |->
     IF offset(i) < pipe.size THEN Received(offset(i)) ELSE ring.bytes[i]]

\* Mutant: the next transfer is not started.
ReceiveCallbackOnce ==
  /\ cdc' = [cdc EXCEPT !.rx = "IDLE"]
  /\ IF NoRoom THEN UNCHANGED ring
     ELSE ring' = [ring EXCEPT !.bytes = Copied, !.write = (@ + pipe.size) % Width]

\* USBH_CDC_ReceiveCallback: without room the packet is dropped, and no transfer is
\* started any more.
ReceiveCallback ==
  IF NoRoom
    THEN cdc' = [cdc EXCEPT !.rx = "IDLE"] /\ UNCHANGED ring
    ELSE /\ ring' = [ring EXCEPT !.bytes = Copied, !.write = (@ + pipe.size) % Width]
         /\ cdc' = [cdc EXCEPT !.rx = "RECEIVE"]

\* CDC_ProcessReception in CDC_RECEIVE_DATA_WAIT.
ReceiveDone ==
  /\ Usb("class", "class") /\ cdc.state = "TRANSFER_DATA"
  /\ cdc.rx = "WAIT" /\ pipe.urb = "DONE"
  /\ ReceiveCallback
  /\ Tears /\ UNCHANGED <<gState, pipe, app, log, sent>>

Process ==
  \/ ClassRequest \/ EnterClass
  \/ Attach \/ Attached \/ SetLineCoding \/ GetLineCoding \/ ClearFeature
  \/ ReceiveData \/ ReceiveDone

\* USBH_LL_Disconnect, between two calls of USBH_Process: first stop_CH340_Application.
Unplug ==
  /\ Usb("class", "stop")
  /\ app' = [app EXCEPT !.stop = TRUE]
  /\ UNCHANGED <<gState, cdc, pipe, ring, log, sent, torn>>

\* Mutant: the application is not told.
StopSilent ==
  /\ Usb("stop", "stopped")
  /\ UNCHANGED <<gState, cdc, pipe, app, ring, log, sent, torn>>

Stop ==
  /\ Usb("stop", "stopped")
  /\ app' = [app EXCEPT !.queue = Put(@, "DISCONNECT")]
  /\ UNCHANGED <<gState, cdc, pipe, ring, log, sent, torn>>

Disconnected ==
  /\ Usb("stopped", "deinit")
  /\ gState' = "DISCONNECTED" /\ pipe' = [pipe EXCEPT !.on = FALSE]
  /\ UNCHANGED <<cdc, app, ring, log, sent, torn>>

\* InterfaceDeInit waits until there is no app_data, and frees the pipes and CDC_Handle.
DeInit ==
  /\ Usb("deinit", "free") /\ app.at = "deleted"
  /\ UNCHANGED <<gState, cdc, pipe, app, ring, log, sent, torn>>

Removal == Stop \/ Disconnected \/ DeInit

-----------------------------------------------------------------------------
(* Start_CH340_Application_Thread *)

Others == UNCHANGED <<gState, usb, pipe, ring, log, sent, torn>>
Posts(m) == app' = [app EXCEPT !.at = "post", !.next = m]
Waits == app' = [app EXCEPT !.at = "get"]

Get ==
  /\ app.at = "get" /\ app.queue # "none"
  /\ app' = [app EXCEPT !.at = app.queue, !.queue = "none"]
  /\ UNCHANGED cdc /\ Others

Post ==
  /\ app.at = "post"
  /\ app' = [app EXCEPT !.at = "get", !.queue = Put(@, app.next)]
  /\ UNCHANGED cdc /\ Others

\* USBH_CDC_AttachInit and SetLineCoding return USBH_OK also when they are ignored.
SetsState(s) == cdc' = IF gState = "CLASS" THEN [cdc EXCEPT !.state = s] ELSE cdc

Ready ==
  /\ app.at = "READY"
  /\ SetsState("ATTACH_INIT") /\ Posts("READY_CHECK")
  /\ Others

ReadyCheck ==
  /\ app.at = "READY_CHECK"
  /\ \/ gState # "CLASS" /\ Waits
     \/ gState = "CLASS" /\ cdc.attach = Requests /\ Posts("SETTING_LINECODE")
     \/ gState = "CLASS" /\ cdc.attach # Requests /\ Posts("READY_CHECK")
  /\ UNCHANGED cdc /\ Others

SettingLinecode ==
  /\ app.at = "SETTING_LINECODE"
  /\ SetsState("SET_LINE_CODING") /\ Posts("RUNNING")
  /\ Others

\* The state must be CDC_IDLE_STATE; USBH_CDC_Receive writes it and then data_rx_state.
Running ==
  /\ app.at = "RUNNING"
  /\ IF cdc.state = "IDLE"
       THEN /\ cdc' = [cdc EXCEPT !.state = "TRANSFER_DATA"]
            /\ app' = [app EXCEPT !.at = "receive"]
       ELSE Posts("RUNNING") /\ UNCHANGED cdc
  /\ Others

Receive ==
  /\ app.at = "receive"
  /\ cdc' = [cdc EXCEPT !.rx = "RECEIVE"] /\ app' = [app EXCEPT !.at = "loop"]
  /\ Others

\* USBH_CDC_Transmit, each 10 ms.
Transmit ==
  /\ app.at = "loop" /\ ~app.stop
  /\ cdc.state \in {"IDLE", "TRANSFER_DATA"}
  /\ cdc' = [cdc EXCEPT !.state = "TRANSFER_DATA"]
  /\ UNCHANGED app /\ Others

EndLoop ==
  /\ app.at = "loop" /\ app.stop /\ Waits
  /\ UNCHANGED cdc /\ Others

\* The end of the thread: delete_CH340_Application frees the ring and app_data.
Delete ==
  /\ app.at = "DISCONNECT" /\ app.stop
  /\ app' = [app EXCEPT !.at = "deleted"]
  /\ UNCHANGED cdc /\ Others

App ==
  \/ Get \/ Post \/ Ready \/ ReadyCheck \/ SettingLinecode \/ Running
  \/ Receive \/ Transmit \/ EndLoop \/ Delete

-----------------------------------------------------------------------------
(* LOG_Task, and the adapter (external) *)

Look ==
  /\ log.at = "look"
  /\ IF app.stop THEN log' = [log EXCEPT !.at = "ended"]
     ELSE Used > 0 /\ log' = [log EXCEPT !.at = "count", !.len = Used]
  /\ UNCHANGED <<gState, usb, cdc, pipe, app, ring, sent, torn>>

\* Mutant: p_read jumps to p_write, which the callback has moved since.
CountAll ==
  /\ log.at = "count"
  /\ log' = [log EXCEPT !.at = "look", !.total = @ + log.len]
  /\ ring' = [ring EXCEPT !.read = ring.write]
  /\ UNCHANGED <<gState, usb, cdc, pipe, app, sent, torn>>

Count ==
  /\ log.at = "count"
  /\ log' = [log EXCEPT !.at = "look", !.total = @ + log.len]
  /\ ring' = [ring EXCEPT !.read = (@ + log.len) % Width]
  /\ UNCHANGED <<gState, usb, cdc, pipe, app, sent, torn>>

LogTask == Look \/ Count

Send ==
  /\ pipe.on
  /\ \E n \in PacketSizes :
       /\ sent + n <= Total
       /\ pipe' = [urb |-> "DONE", on |-> FALSE, size |-> n]
       /\ sent' = sent + n
  /\ UNCHANGED <<gState, usb, cdc, app, ring, log, torn>>

Next == Process \/ Unplug \/ Removal \/ App \/ LogTask \/ Send

Spec == Init /\ [][Next]_vars

\* The threads run (the application's sleeps, and lets LOG_Task run), the adapter
\* grants its vendor requests in the end, and sends what it has.
FairSpec ==
  /\ Spec
  /\ WF_vars(Process) /\ WF_vars(Removal) /\ WF_vars(App) /\ WF_vars(LogTask)
  /\ WF_vars(Send)
-----------------------------------------------------------------------------
(* Properties *)

\* The ring is never full to its last byte, and between p_read and p_write holds what
\* the adapter sent after the bytes LOG_Task has counted, in order, wherever the ring
\* and the two positions wrap (USBH_CDC_ReceiveCallback, LOG_Task); the order is lost
\* where the class has acted between the two writes of USBH_CDC_Receive on what malloc
\* left in data_rx_state: it starts a transfer whose packet is overwritten by the next,
\* or takes the last transfer of the channel's user before for a packet.
RingInOrder ==
  /\ Used < Size
  /\ ~torn => \A k \in 0 .. Used - 1 : ring.bytes[(ring.read + k) % Size] = log.total + 1 + k

\* The message of stop_CH340_Application was dropped.
Dropped == usb \in {"stopped", "deinit"} /\ app.queue \notin {"none", "DISCONNECT"}

\* An application that is told to stop ends, wherever its thread is, and the USB thread
\* comes out of the de-initialisation that waits for it (InterfaceDeInit); unless the
\* queue had no place for the message.
StopEnds == []~Dropped => (app.stop ~> usb = "free")

\* The application ran before the USB thread left HOST_CLASS_REQUEST: its attachment is
\* ignored and it waits for a state that never comes.
Early == gState = "CLASS_REQUEST" /\ app.at \notin {"none", "get"}

\* The callback found no room.
Full == cdc.rx = "IDLE" /\ pipe.urb = "DONE" /\ NoRoom

\* The attachment, the line coding and the reception are carried out, and everything
\* the adapter sends is counted by LOG_Task, once, as long as it is plugged, the ring had
\* room each time and data_rx_state was not acted upon before it was written.
AllLogged == [](~app.stop /\ ~Full /\ ~Early /\ ~torn) => <>(log.total = Total)
=============================================================================
