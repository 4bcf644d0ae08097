---------------------------- MODULE UsbHost_proofs ----------------------------
(***************************************************************************)
(* TLAPS proofs about UsbHost, for every queue capacity, every bound and   *)
(* every way the user plugs and unplugs the device: its types, and that    *)
(* HostInv is an inductive invariant, from which the class is never        *)
(* initialised twice, no pipe is left allocated for the next attachment,   *)
(* and the USB thread never sleeps on work to do.  If a device comes only  *)
(* while the host is at rest, MaskInv is inductive beside it, and a        *)
(* disconnection is never overwritten; with a calm user so is CalmInv, and *)
(* what is enumerated was reset.                                           *)
(***************************************************************************)
EXTENDS UsbHost, TLAPS

\* An osMessagePut leaves the queue non-empty, whether or not it drops its message.
LEMMA PostedBounds ==
  ASSUME NEW q \in 0 .. QueueLength
  PROVE  Posted(q) \in 1 .. QueueLength
BY UsbHostAssumption DEF Posted

\* The port hardware keeps its type.
LEMMA PortTypes ==
  ASSUME NEW p \in Ports
  PROVE  Arrived(p) \in Ports /\ Left(p) \in Ports /\ Stopped(p) \in Ports
BY DEF Arrived, Left, Stopped, Ports

\* The program starts with the invariant.
LEMMA InitInv == Init => TypeOK /\ HostInv
<1> SUFFICES ASSUME Init PROVE TypeOK /\ HostInv
  OBVIOUS
<1>1. TypeOK
  <2>1. mask \in Masks /\ saved \in Masks /\ port \in Ports
    BY DEF Init, Masks, Ports
  <2>2. connected \in BOOLEAN /\ pipes \in BOOLEAN /\ class \in BOOLEAN /\ vbus \in BOOLEAN
    BY Zenon DEF Init
  <2>3. queue \in 0 .. QueueLength /\ plugs \in 0 .. MaxPlugs /\ fails \in 0 .. MaxFails
    BY UsbHostAssumption DEF Init
  <2>4. gState \in GStates /\ state \in GStates /\ instances \in Nat /\ pc = "get"
    BY DEF Init, GStates
  <2>5. QED
    BY <2>1, <2>2, <2>3, <2>4 DEF TypeOK
<1>2. HostInv
  BY DEF Init, HostInv, OneInstance, PipesFreeWhenIdle, ClassPlaced, PipesPlaced,
         EnabledIsPresent, DisconnectPlaced, WakeupKept, WouldAct, AttachStates,
         ClassStates, Works
<1>3. QED
  BY <1>1, <1>2

\* Every step keeps the types; a class instance is removed only if there is one.
LEMMA TypeStep == TypeOK /\ HostInv /\ [Next]_vars => TypeOK'
<1> SUFFICES ASSUME TypeOK, OneInstance, [Next]_vars PROVE TypeOK'
  BY DEF HostInv
<1> USE UsbHostAssumption, PostedBounds
    DEF TypeOK, core, classv, thread, hw, bounds, Goes, Case, Leaves, Post
<1>1. CASE Wake
  BY <1>1 DEF Wake
<1>2. CASE MaskLoad
  BY <1>2 DEF MaskLoad
<1>3. CASE MaskStore
  BY <1>3 DEF MaskStore, Masks
<1>4. CASE Switch
  BY <1>4 DEF Switch
<1>5. CASE Idle
  BY <1>5 DEF Idle, GStates
<1>6. CASE ResetPort
  <2>1. port' \in Ports
    BY <1>6 DEF ResetPort, Ports
  <2>2. queue' \in 0 .. QueueLength
    BY <1>6 DEF ResetPort
  <2>3. QED
    BY <1>6, <2>1, <2>2 DEF ResetPort
<1>7. CASE Attached
  BY <1>7 DEF Attached, GStates
<1>8. CASE AllocPipes
  BY <1>8 DEF AllocPipes
<1>9. CASE EnumerationBusy
  BY <1>9 DEF EnumerationBusy
<1>10. CASE EnumerationDone
  BY <1>10 DEF EnumerationDone, GStates
<1>11. CASE EnumerationFails
  BY <1>11 DEF EnumerationFails
<1>12. CASE ReEnumerateStop
  <2>1. port' \in Ports
    BY <1>12, PortTypes DEF ReEnumerateStop
  <2>2. QED
    BY <1>12, <2>1 DEF ReEnumerateStop
<1>13. CASE ReEnumerateClean
  BY <1>13 DEF ReEnumerateClean, GStates
<1>14. CASE ReEnumerateStart
  <2>1. port' \in Ports
    BY <1>14, PortTypes DEF ReEnumerateStart
  <2>2. queue' \in 0 .. QueueLength
    BY <1>14 DEF ReEnumerateStart
  <2>3. QED
    BY <1>14, <2>1, <2>2 DEF ReEnumerateStart
<1>15. CASE Input
  BY <1>15 DEF Input, GStates
<1>16. CASE SetConfiguration
  BY <1>16 DEF SetConfiguration, GStates
<1>17. CASE CheckClass
  <2>1. gState' \in GStates /\ queue' \in 0 .. QueueLength
    BY <1>17 DEF CheckClass, ClassFound, ClassRefuses, GStates
  <2>2. class' \in BOOLEAN
    BY <1>17, Zenon DEF CheckClass, ClassFound, ClassRefuses
  <2>3. instances' \in Nat
    BY <1>17 DEF CheckClass, ClassFound, ClassRefuses
  <2>4. QED
    BY <1>17, <2>1, <2>2, <2>3 DEF CheckClass, ClassFound, ClassRefuses
<1>18. CASE ClassRequest
  BY <1>18 DEF ClassRequest, GStates
<1>19. CASE Nothing
  BY <1>19 DEF Nothing
<1>20. CASE Disconnected
  <2>1. instances' \in Nat
    BY <1>20 DEF Disconnected, OneInstance
  <2>2. QED
    BY <1>20, <2>1 DEF Disconnected
<1>21. CASE DeInitStateMachine
  BY <1>21 DEF DeInitStateMachine, GStates
<1>22. CASE Unmask
  BY <1>22 DEF Unmask, Masks
<1>23. CASE DisconnectIRQ
  <2>1. port' \in Ports
    BY <1>23, PortTypes DEF DisconnectIRQ
  <2>2. queue' \in 0 .. QueueLength
    BY <1>23 DEF DisconnectIRQ
  <2>3. QED
    BY <1>23, <2>1, <2>2 DEF DisconnectIRQ, GStates
<1>24. CASE PortIRQ
  <2>1. gState' \in GStates /\ connected' \in BOOLEAN
    BY <1>24 DEF PortIRQ, Connect, GStates
  <2>2. mask' \in Masks
    BY <1>24 DEF PortIRQ, MaskAfter, Masks, Ports, Present, Powered
  <2>3. port' \in Ports
    BY <1>24 DEF PortIRQ, Ports
  <2>4. queue' \in 0 .. QueueLength
    BY <1>24 DEF PortIRQ
  <2>5. QED
    BY <1>24, <2>1, <2>2, <2>3, <2>4 DEF PortIRQ
<1>25. CASE Plug
  <2>1. [port EXCEPT !.plugged = TRUE] \in Ports
    BY DEF Ports
  <2>2. port' \in Ports
    BY <1>25, <2>1, PortTypes DEF Plug
  <2>3. QED
    BY <1>25, <2>2 DEF Plug
<1>26. CASE Unplug
  <2>1. [port EXCEPT !.plugged = FALSE] \in Ports
    BY DEF Ports
  <2>2. port' \in Ports
    BY <1>26, <2>1, PortTypes DEF Unplug
  <2>3. QED
    BY <1>26, <2>2 DEF Unplug
<1>27. CASE UNCHANGED vars
  BY <1>27 DEF vars
<1>28. CASE AoaRequests
  BY <1>28 DEF AoaRequests
<1>29. CASE AoaSet
  <2>1. gState' \in GStates /\ queue' \in 0 .. QueueLength
    BY <1>29 DEF AoaSet, ClassFound, ClassRefuses, GStates
  <2>2. class' \in BOOLEAN
    BY <1>29, Zenon DEF AoaSet, ClassFound, ClassRefuses
  <2>3. instances' \in Nat
    BY <1>29 DEF AoaSet, ClassFound, ClassRefuses
  <2>4. QED
    BY <1>29, <2>1, <2>2, <2>3 DEF AoaSet, ClassFound, ClassRefuses
<1>30. QED
  BY <1>1, <1>2, <1>3, <1>4, <1>5, <1>6, <1>7, <1>8, <1>9, <1>10, <1>11, <1>12,
     <1>13, <1>14, <1>15, <1>16, <1>17, <1>18, <1>19, <1>20, <1>21, <1>22, <1>23,
     <1>24, <1>25, <1>26, <1>27, <1>28, <1>29
  DEF Next, Thread, Process, ReEnumerate, IRQ

\* Every step keeps the invariant.
LEMMA InvStep == TypeOK /\ HostInv /\ [Next]_vars => HostInv'
<1> SUFFICES ASSUME TypeOK, HostInv, [Next]_vars PROVE HostInv'
  OBVIOUS
<1> USE UsbHostAssumption, PostedBounds
    DEF TypeOK, HostInv, OneInstance, PipesFreeWhenIdle, ClassPlaced, PipesPlaced,
        EnabledIsPresent, DisconnectPlaced, WakeupKept, WouldAct, Works, Present,
        Powered, AttachStates, ClassStates,
        core, classv, thread, hw, bounds, Goes, Case, Leaves, Post
<1>1. CASE Wake
  BY <1>1 DEF Wake
<1>2. CASE MaskLoad
  BY <1>2 DEF MaskLoad
<1>3. CASE MaskStore
  BY <1>3 DEF MaskStore
<1>4. CASE Switch
  BY <1>4 DEF Switch
<1>5. CASE Idle
  BY <1>5 DEF Idle
<1>6. CASE ResetPort
  BY <1>6 DEF ResetPort, Ports
<1>7. CASE Attached
  BY <1>7 DEF Attached
<1>8. CASE AllocPipes
  BY <1>8 DEF AllocPipes
<1>9. CASE EnumerationBusy
  BY <1>9 DEF EnumerationBusy
<1>10. CASE EnumerationDone
  BY <1>10 DEF EnumerationDone
<1>11. CASE EnumerationFails
  BY <1>11 DEF EnumerationFails
<1>12. CASE ReEnumerateStop
  BY <1>12 DEF ReEnumerateStop, Left, Stopped, Ports
<1>13. CASE ReEnumerateClean
  BY <1>13 DEF ReEnumerateClean
<1>14. CASE ReEnumerateStart
  BY <1>14 DEF ReEnumerateStart, Arrived, Ports
<1>15. CASE Input
  BY <1>15 DEF Input
<1>16. CASE SetConfiguration
  BY <1>16 DEF SetConfiguration
<1>17. CASE CheckClass
  BY <1>17 DEF CheckClass, ClassFound, ClassRefuses
<1>18. CASE ClassRequest
  BY <1>18 DEF ClassRequest
<1>19. CASE Nothing
  BY <1>19 DEF Nothing
<1>20. CASE Disconnected
  BY <1>20 DEF Disconnected
<1>21. CASE DeInitStateMachine
  BY <1>21 DEF DeInitStateMachine
<1>22. CASE Unmask
  BY <1>22 DEF Unmask
<1>23. CASE DisconnectIRQ
  BY <1>23 DEF DisconnectIRQ, Stopped, Ports
<1>24. CASE PortIRQ
  BY <1>24 DEF PortIRQ, Connect, Ports
<1>25. CASE Plug
  BY <1>25 DEF Plug, Arrived, Ports
<1>26. CASE Unplug
  BY <1>26 DEF Unplug, Left, Ports
<1>27. CASE UNCHANGED vars
  BY <1>27 DEF vars
<1>28. CASE AoaRequests
  BY <1>28 DEF AoaRequests
<1>29. CASE AoaSet
  BY <1>29 DEF AoaSet, ClassFound, ClassRefuses
<1>30. QED
  BY <1>1, <1>2, <1>3, <1>4, <1>5, <1>6, <1>7, <1>8, <1>9, <1>10, <1>11, <1>12,
     <1>13, <1>14, <1>15, <1>16, <1>17, <1>18, <1>19, <1>20, <1>21, <1>22, <1>23,
     <1>24, <1>25, <1>26, <1>27, <1>28, <1>29
  DEF Next, Thread, Process, ReEnumerate, IRQ

\* The inductive invariant.
THEOREM HostInvariant == Spec => [](TypeOK /\ HostInv)
BY InitInv, TypeStep, InvStep, PTL DEF Spec

\* Every variable keeps its type.
THEOREM TypeCorrect == Spec => []TypeOK
BY HostInvariant, PTL

\* However the user plugs and unplugs, pActiveClass->Init is called only when the
\* class of the last device was de-initialised.
THEOREM ClassInitialisedOnce == Spec => []OneInstance
<1>1. HostInv => OneInstance
  BY DEF HostInv
<1>2. QED
  BY <1>1, HostInvariant, PTL

\* However the user plugs and unplugs, and whatever fails, an attachment starts
\* with every pipe free.
THEOREM PipesFree == Spec => []PipesFreeWhenIdle
<1>1. HostInv => PipesFreeWhenIdle
  BY DEF HostInv
<1>2. QED
  BY <1>1, HostInvariant, PTL

\* The USB thread never sleeps with work to do, whatever the capacity of os_event.
THEOREM NoWakeupLost == Spec => []NoLostWakeup
<1>1. HostInv => NoLostWakeup
  BY DEF HostInv, WakeupKept, NoLostWakeup
<1>2. QED
  BY <1>1, HostInvariant, PTL

-----------------------------------------------------------------------------
(* A disconnection is not overwritten *)

\* The user plugs a device only when the host is at rest; the device may leave at any time.
PlugsAtRest == Haste \subseteq {"unplug"}

\* The states that no case of the switch leaves, unless the device is connected.
Quiet == {"IDLE", "DISCONNECTED", "WAIT_FOR_ATTACHMENT"}

\* The thread is in a case that will write gState.
Writing ==
  \/ pc \in {"stop", "clean", "aoa", "aoaset"}
  \/ pc = "case" /\ state \notin Quiet

\* The thread runs a case with the port interrupt masked, VBUS off only to re-enumerate,
\* and what it loaded of the mask is no weaker when it stores it.
PortMasked ==
  /\ mask.hprt <=> pc \in {"get", "load", "store"}
  /\ ~vbus => pc \in {"clean", "start"}
  /\ port.pcdet => pc \in {"get", "unmask"}
  /\ pc = "store" /\ saved.disc => mask.disc

\* DISCINT is unmasked only while there is nothing to overwrite: in a quiet state, or with
\* the interrupt pending, which the thread does not overtake.
DiscMasked ==
  /\ Writing => ~mask.disc /\ gState \notin Quiet
  /\ mask.disc /\ gState \notin Quiet => port.disc /\ pc \in {"get", "load", "store"}
  /\ pc = "start" => ~mask.disc
  /\ pc = "reset" /\ Present => ~mask.disc

\* The interrupt of a port that was disabled unmasks DISCINT: it comes with the DISCINT of
\* the device that left.
DisabledIsGone ==
  /\ port.pena => ~mask.disc
  /\ connected /\ Present /\ mask.disc => (port.pcdet \/ port.disc) /\ pc = "get"
  /\ port.plugged /\ port.penchng /\ ~port.pena
       => port.disc /\ ~mask.disc /\ pc \in {"clean", "start", "unmask", "get"}
  /\ port.penchng /\ ~port.pena /\ gState \notin Quiet /\ pc # "clean" => port.disc

MaskInv == PortMasked /\ DiscMasked /\ DisabledIsGone

\* Every step keeps it, if a device comes only while the thread waits for a message.
LEMMA MaskStep ==
  ASSUME TypeOK, HostInv, MaskInv, [Next]_vars, Plug => pc = "get" PROVE MaskInv'
<1> USE DEF TypeOK, HostInv, EnabledIsPresent, DisconnectPlaced, MaskInv, PortMasked,
            DiscMasked, DisabledIsGone, Writing, Quiet, Works, Present, Powered,
            core, classv, thread, hw, bounds, Goes, Case, Leaves,
            Pending, DiscPending, PortPending, Masks, Ports
<1>1. CASE Wake
  BY <1>1 DEF Wake
<1>2. CASE MaskLoad
  BY <1>2 DEF MaskLoad
<1>3. CASE MaskStore
  BY <1>3 DEF MaskStore
<1>4. CASE Switch
  BY <1>4 DEF Switch
<1>5. CASE Idle
  BY <1>5 DEF Idle
<1>6. CASE ResetPort
  BY <1>6 DEF ResetPort
<1>7. CASE Attached
  BY <1>7 DEF Attached
<1>8. CASE AllocPipes
  BY <1>8 DEF AllocPipes
<1>9. CASE EnumerationBusy
  BY <1>9 DEF EnumerationBusy
<1>10. CASE EnumerationDone
  BY <1>10 DEF EnumerationDone
<1>11. CASE EnumerationFails
  BY <1>11 DEF EnumerationFails
<1>12. CASE ReEnumerateStop
  BY <1>12 DEF ReEnumerateStop, Left, Stopped
<1>13. CASE ReEnumerateClean
  BY <1>13 DEF ReEnumerateClean
<1>14. CASE ReEnumerateStart
  BY <1>14 DEF ReEnumerateStart, Arrived
<1>15. CASE Input
  BY <1>15 DEF Input
<1>16. CASE SetConfiguration
  BY <1>16 DEF SetConfiguration
<1>17. CASE CheckClass
  BY <1>17 DEF CheckClass, ClassFound, ClassRefuses
<1>18. CASE ClassRequest
  BY <1>18 DEF ClassRequest
<1>19. CASE Nothing
  BY <1>19 DEF Nothing
<1>20. CASE Disconnected
  BY <1>20 DEF Disconnected
<1>21. CASE DeInitStateMachine
  BY <1>21 DEF DeInitStateMachine
<1>22. CASE Unmask
  BY <1>22 DEF Unmask
<1>23. CASE DisconnectIRQ
  BY <1>23 DEF DisconnectIRQ, Stopped
<1>24. CASE PortIRQ
  BY <1>24 DEF PortIRQ, Connect, MaskAfter
<1>25. CASE Plug
  BY <1>25 DEF Plug, Arrived
<1>26. CASE Unplug
  BY <1>26 DEF Unplug, Left
<1>27. CASE UNCHANGED vars
  BY <1>27 DEF vars
<1>28. CASE AoaRequests
  BY <1>28 DEF AoaRequests
<1>29. CASE AoaSet
  BY <1>29 DEF AoaSet, ClassFound, ClassRefuses
<1>30. QED
  BY <1>1, <1>2, <1>3, <1>4, <1>5, <1>6, <1>7, <1>8, <1>9, <1>10, <1>11, <1>12,
     <1>13, <1>14, <1>15, <1>16, <1>17, <1>18, <1>19, <1>20, <1>21, <1>22, <1>23,
     <1>24, <1>25, <1>26, <1>27, <1>28, <1>29
  DEF Next, Thread, Process, ReEnumerate, IRQ

LEMMA InitMask == Init => MaskInv
BY DEF Init, MaskInv, PortMasked, DiscMasked, DisabledIsGone, Writing, Quiet, Present,
       Powered

\* What the interrupt of a disconnection writes to gState is taken back only by the
\* clean-up that it asks for, at whatever moment the device leaves.
THEOREM DisconnectNotOverwritten == ASSUME PlugsAtRest PROVE Spec => DisconnectStands
<1>1. TypeOK /\ HostInv /\ MaskInv /\ [Next]_vars =>
        [gState = "DISCONNECTED" /\ gState' # gState => pc = "deinit"]_vars
  <2> SUFFICES ASSUME TypeOK, HostInv, MaskInv, Next, gState = "DISCONNECTED",
                      gState' # gState, pc # "deinit"
               PROVE  FALSE
    BY DEF vars
  <2> USE DEF TypeOK, core, classv, thread, hw, bounds, Goes, Case, Leaves
  <2>1. ~connected
    BY DEF HostInv, DisconnectPlaced
  <2>2. /\ pc \notin {"stop", "clean", "aoa", "aoaset"}
        /\ pc = "case" => state \in Quiet
    BY DEF MaskInv, DiscMasked, Writing, Quiet
  <2>3. CASE IRQ \/ Plug \/ Unplug
    BY <2>3 DEF IRQ, DisconnectIRQ, PortIRQ, Connect, Plug, Unplug
  <2>4. CASE Wake \/ MaskLoad \/ MaskStore \/ Switch \/ Unmask
    BY <2>4 DEF Wake, MaskLoad, MaskStore, Switch, Unmask
  <2>5. CASE Idle \/ ResetPort \/ Attached \/ AllocPipes
    BY <2>1, <2>2, <2>5 DEF Idle, ResetPort, Attached, AllocPipes, Quiet
  <2>6. CASE EnumerationBusy \/ EnumerationDone \/ EnumerationFails \/ ReEnumerate
    BY <2>2, <2>6 DEF EnumerationBusy, EnumerationDone, EnumerationFails, ReEnumerate,
                      ReEnumerateStop, ReEnumerateClean, ReEnumerateStart, Quiet
  <2>7. CASE Input \/ SetConfiguration \/ CheckClass \/ AoaRequests \/ AoaSet
    BY <2>2, <2>7 DEF Input, SetConfiguration, CheckClass, AoaRequests, AoaSet, Quiet
  <2>8. CASE ClassRequest \/ Nothing \/ Disconnected \/ DeInitStateMachine
    BY <2>2, <2>8 DEF ClassRequest, Nothing, Disconnected, DeInitStateMachine, Quiet
  <2>9. QED
    BY <2>3, <2>4, <2>5, <2>6, <2>7, <2>8 DEF Next, Thread, Process
<1>2. Init => TypeOK /\ HostInv /\ MaskInv
  BY InitInv, InitMask
<1>3. TypeOK /\ HostInv /\ MaskInv /\ [Next]_vars => (TypeOK /\ HostInv /\ MaskInv)'
  <2>1. Plug => pc = "get"
    BY DEF Plug, PlugsAtRest
  <2>2. QED
    BY <2>1, TypeStep, InvStep, MaskStep
<1>4. QED
  BY <1>1, <1>2, <1>3, PTL DEF Spec, DisconnectStands

-----------------------------------------------------------------------------
(* A device is enumerated on a port that was reset for it *)

\* With a calm user, the host attends to a device that is there, or is about to hear
\* that it left.
HostAttends ==
  /\ gState \notin {"IDLE", "DISCONNECTED"} /\ ~port.plugged => port.disc
  /\ connected /\ gState = "IDLE" => port.plugged
  /\ gState = "WAIT_FOR_ATTACHMENT" => ~port.pcdet

\* A device that is past its attachment has its port enabled, except while the host
\* re-enumerates it.
EnabledForIt ==
  gState \notin Quiet /\ port.plugged => port.pena \/ pc = "clean"

\* What the switch chose is still the state, if its case writes to gState.
ChosenStands ==
  /\ pc = "case" /\ state \notin {"IDLE", "WAIT_FOR_ATTACHMENT", "CLASS", "ABORT"}
       => gState = state
  /\ pc \in {"stop", "clean"} => gState = "ENUMERATION"
  /\ pc = "start" => gState = "IDLE"

\* The device stays while the host re-enumerates it, and a switch that cuts its power
\* looks like a disconnection.
StaysPlugged ==
  /\ pc \in {"stop", "clean", "start"} => port.plugged
  /\ pc \in {"clean", "start"} => (port.disc <=> VbusSwitched)

\* DISCINT is not left over from a device that was there before.
DiscIsFresh ==
  port.disc => IF port.plugged THEN pc \in {"clean", "start"}
               ELSE mask.disc \/ (port.penchng /\ ~port.pena)

CalmInv ==
  HostAttends /\ EnabledForIt /\ ChosenStands /\ StaysPlugged /\ DiscIsFresh

\* Every step of a calm user keeps it.
LEMMA CalmStep ==
  ASSUME TypeOK, HostInv, MaskInv, CalmInv, Calm, Calm', [Next]_vars PROVE CalmInv'
<1> USE DEF TypeOK, HostInv, EnabledIsPresent, DisconnectPlaced, ClassPlaced, ClassStates,
            MaskInv, PortMasked, DiscMasked, DisabledIsGone, Writing, Quiet,
            CalmInv, Calm, HostAttends, EnabledForIt, ChosenStands, StaysPlugged,
            DiscIsFresh,
            Works, Present, Powered, core, classv, thread, hw, bounds, Goes, Case, Leaves,
            Pending, DiscPending, PortPending, Masks, Ports
<1>1. CASE Wake
  BY <1>1 DEF Wake
<1>2. CASE MaskLoad
  BY <1>2 DEF MaskLoad
<1>3. CASE MaskStore
  BY <1>3 DEF MaskStore
<1>4. CASE Switch
  BY <1>4 DEF Switch
<1>5. CASE Idle
  BY <1>5 DEF Idle
<1>6. CASE ResetPort
  BY <1>6 DEF ResetPort
<1>7. CASE Attached
  BY <1>7 DEF Attached
<1>8. CASE AllocPipes
  BY <1>8 DEF AllocPipes
<1>9. CASE EnumerationBusy
  BY <1>9 DEF EnumerationBusy
<1>10. CASE EnumerationDone
  BY <1>10 DEF EnumerationDone
<1>11. CASE EnumerationFails
  BY <1>11 DEF EnumerationFails
<1>12. CASE ReEnumerateStop
  BY <1>12 DEF ReEnumerateStop, Left, Stopped
<1>13. CASE ReEnumerateClean
  BY <1>13 DEF ReEnumerateClean
<1>14. CASE ReEnumerateStart
  BY <1>14 DEF ReEnumerateStart, Arrived
<1>15. CASE Input
  BY <1>15 DEF Input
<1>16. CASE SetConfiguration
  BY <1>16 DEF SetConfiguration
<1>17. CASE CheckClass
  BY <1>17 DEF CheckClass, ClassFound, ClassRefuses
<1>18. CASE ClassRequest
  BY <1>18 DEF ClassRequest
<1>19. CASE Nothing
  BY <1>19 DEF Nothing
<1>20. CASE Disconnected
  BY <1>20 DEF Disconnected
<1>21. CASE DeInitStateMachine
  BY <1>21 DEF DeInitStateMachine
<1>22. CASE Unmask
  BY <1>22 DEF Unmask
<1>23. CASE DisconnectIRQ
  BY <1>23 DEF DisconnectIRQ, Stopped
<1>24. CASE PortIRQ
  BY <1>24 DEF PortIRQ, Connect, MaskAfter
<1>25. CASE Plug
  BY <1>25 DEF Plug, Arrived
<1>26. CASE Unplug
  BY <1>26 DEF Unplug, Left
<1>27. CASE UNCHANGED vars
  BY <1>27 DEF vars
<1>28. CASE AoaRequests
  BY <1>28 DEF AoaRequests
<1>29. CASE AoaSet
  BY <1>29 DEF AoaSet, ClassFound, ClassRefuses
<1>30. QED
  BY <1>1, <1>2, <1>3, <1>4, <1>5, <1>6, <1>7, <1>8, <1>9, <1>10, <1>11, <1>12,
     <1>13, <1>14, <1>15, <1>16, <1>17, <1>18, <1>19, <1>20, <1>21, <1>22, <1>23,
     <1>24, <1>25, <1>26, <1>27, <1>28, <1>29
  DEF Next, Thread, Process, ReEnumerate, IRQ

LEMMA InitCalm == Init => CalmInv
BY DEF Init, CalmInv, HostAttends, EnabledForIt, ChosenStands,
       StaysPlugged, DiscIsFresh, Quiet

\* While the thread sleeps in HOST_ENUMERATION the port is enabled: the first request never
\* goes to a device that was not reset, however often the enumeration fails.
THEOREM OnlyEnabledEnumerated == Spec => EnumeratesEnabled
<1>1. CalmInv /\ Calm =>
        (gState = "ENUMERATION" /\ pc = "get" /\ ~Pending => port.pena)
  BY DEF CalmInv, Calm, HostAttends, EnabledForIt, Quiet
<1>2. TypeOK /\ HostInv /\ MaskInv /\ CalmInv /\ Calm /\ Calm' /\ [Next]_vars
        => MaskInv' /\ CalmInv'
  <2> SUFFICES ASSUME TypeOK, HostInv, MaskInv, CalmInv, Calm, Calm', [Next]_vars
               PROVE  MaskInv' /\ CalmInv'
    OBVIOUS
  <2>1. Plug => pc = "get"
    BY DEF TypeOK, Plug, Arrived, Calm, CalmInv, StaysPlugged, MaskInv, PortMasked, Powered,
           Ports, thread
  <2>2. QED
    BY <2>1, MaskStep, CalmStep
<1>3. QED
  BY <1>1, <1>2, InitMask, InitCalm, HostInvariant, PTL DEF Spec, EnumeratesEnabled
=============================================================================
