----------------------------- MODULE UsbHub_proofs -----------------------------
(***************************************************************************)
(* TLAPS proofs about UsbHub, for any number of ports, pipes and addresses *)
(* and whatever is plugged, unplugged, slow, refused or halted: its types, *)
(* and, with at most one mass storage, that no pipe and no address is ever *)
(* in use by two handles (HubInv); and, unless an interrupt endpoint       *)
(* halts, that a device listens to the address its handle knows (BusInv),  *)
(* so that addresses on the bus differ and only what is gone is removed.   *)
(***************************************************************************)
EXTENDS UsbHub, TLAPS

\* The hub has one mass storage at most: the MSC class keeps its pipes in one pData.
OneMsc == \A p, q \in Msc : p = q

-----------------------------------------------------------------------------
(* Types *)

\* The ports keep their type when a device comes or goes, or its port is reset or
\* its changes are cleared.
LEMMA PortTypes ==
  ASSUME NEW q \in Port, data \in Port, NEW a \in Addresses \union {0}
  PROVE  /\ Cleared(q) \in Port /\ WasReset(q) \in Port
         /\ NoDevice \in Port /\ [q EXCEPT !.addr = a] \in Port
         /\ [NoDevice EXCEPT !.conn = TRUE] \in Port
         /\ [NoDevice EXCEPT !.cconn = TRUE] \in Port
         /\ [NoDevice EXCEPT !.conn = TRUE, !.cconn = TRUE] \in Port
<1>1. NoDevice \in Port
  BY Zenon DEF NoDevice, Port
<1>2. /\ [q EXCEPT !.addr = a] \in Port
      /\ WasReset(q) \in Port
      /\ [NoDevice EXCEPT !.conn = TRUE] \in Port
      /\ [NoDevice EXCEPT !.cconn = TRUE] \in Port
      /\ [NoDevice EXCEPT !.conn = TRUE, !.cconn = TRUE] \in Port
  BY <1>1 DEF WasReset, Port, NoDevice
<1>3. Cleared(q) \in Port
  BY DEF Cleared, Port
<1>4. QED
  BY <1>1, <1>2, <1>3

\* A handle without a device is a handle.
LEMMA HandleTypes ==
  /\ NoHandle \in Handle
  /\ \A C \in SUBSET PipeNos : [NoHandle EXCEPT !.phase = "idle", !.ctl = C] \in Handle
BY DEF NoHandle, Handle, Phases

\* A handle stays one when its phase, its address or its pipes change.
LEMMA HandleChanges ==
  ASSUME handle \in [Handles -> Handle], NEW h \in Handles, NEW s \in Phases,
         NEW a \in Addresses \union {0}, NEW T \in SUBSET PipeNos
  PROVE  /\ [handle EXCEPT ![h].phase = s] \in [Handles -> Handle]
         /\ [handle EXCEPT ![h].phase = s, ![h].addr = a] \in [Handles -> Handle]
         /\ [handle EXCEPT ![h].phase = s, ![h].bulk = T] \in [Handles -> Handle]
         /\ [handle EXCEPT ![h].phase = s, ![h].ctl = T] \in [Handles -> Handle]
<1>1. [handle EXCEPT ![h].phase = s] \in [Handles -> Handle]
  BY DEF Handle
<1>2. [handle EXCEPT ![h].phase = s, ![h].addr = a] \in [Handles -> Handle]
  BY DEF Handle
<1>3. [handle EXCEPT ![h].phase = s, ![h].bulk = T] \in [Handles -> Handle]
  BY DEF Handle
<1>4. [handle EXCEPT ![h].phase = s, ![h].ctl = T] \in [Handles -> Handle]
  BY DEF Handle
<1>5. QED
  BY <1>1, <1>2, <1>3, <1>4

\* The steps of the loop over the ports keep the types.
LEMMA LoopTypes == ASSUME TypeOK, NEW p \in Ports, LoopStep(p) PROVE TypeOK'
<1> USE PortTypes, HandleTypes DEF pool, poll, stall, loop, Turn, NextPort, Handles
<1>1. CASE GetPortStatus(p)
  <2>1. data' \in Port
    BY <1>1 DEF GetPortStatus, TypeOK
  <2>2. halted' \in BOOLEAN /\ req' \in BOOLEAN
    BY <1>1, Zenon DEF GetPortStatus, TypeOK
  <2>3. QED
    BY <1>1, <2>1, <2>2 DEF GetPortStatus, TypeOK
<1>2. CASE GetPortStatusFails(p)
  BY <1>2 DEF GetPortStatusFails, TypeOK
<1>3. CASE ClearPort(p)
  <2>1. port' \in [Ports -> Port]
    BY <1>3 DEF ClearPort, TypeOK
  <2>2. QED
    BY <1>3, <2>1 DEF ClearPort, TypeOK
<1>4. CASE ResetPort(p)
  <2>1. port' \in [Ports -> Port]
    BY <1>4 DEF ResetPort, TypeOK
  <2>2. QED
    BY <1>4, <2>1 DEF ResetPort, TypeOK
<1>5. CASE KeepChild(p)
  BY <1>5 DEF KeepChild, TypeOK
<1>6. CASE RemoveChild(p)
  <2>1. handle' \in [Handles -> Handle]
    BY <1>6 DEF RemoveChild, TypeOK
  <2>2. QED
    BY <1>6, <2>1 DEF RemoveChild, TypeOK
<1>7. CASE NewChild(p)
  <2>1. PICK C \in SUBSET PipeNos :
          /\ pipes' = pipes \union C
          /\ handle' = [handle EXCEPT ![p] = [NoHandle EXCEPT !.phase = "idle", !.ctl = C]]
    BY <1>7 DEF NewChild
  <2>2. handle' \in [Handles -> Handle] /\ pipes' \subseteq PipeNos
    BY <2>1 DEF TypeOK
  <2>3. QED
    BY <1>7, <2>2 DEF NewChild, TypeOK
<1>8. CASE NewChildFault(p)
  BY <1>8 DEF NewChildFault, TypeOK
<1>9. CASE StoreChild(p)
  BY <1>9 DEF StoreChild, TypeOK
<1>10. CASE EnumFails(p)
  <2>1. handle' \in [Handles -> Handle]
    BY <1>10 DEF EnumFails, TypeOK
  <2>2. QED
    BY <1>10, <2>1 DEF EnumFails, TypeOK
<1>11. QED
  BY <1>1, <1>2, <1>3, <1>4, <1>5, <1>6, <1>7, <1>8, <1>9, <1>10 DEF LoopStep

\* The steps of a child's enumeration keep the types.
LEMMA ChildTypes == ASSUME TypeOK, NEW p \in Ports, ChildProcess(p) PROVE TypeOK'
<1> USE DEF pool, poll, stall, loop
<1>a. handle \in [Handles -> Handle] /\ p \in Handles
  BY DEF TypeOK, Handles
<1>b. addrs \subseteq Addresses /\ pipes \subseteq PipeNos /\ msc \subseteq PipeNos
  BY DEF TypeOK
<1>1. CASE TakeAddress(p)
  <2>1. PICK a \in Addresses :
          /\ addrs' = addrs \union {a}
          /\ handle' = [handle EXCEPT ![p].phase = "setaddr", ![p].addr = a]
    BY <1>1 DEF TakeAddress
  <2>2. addrs' \subseteq Addresses
    BY <1>b, <2>1
  <2>3. "setaddr" \in Phases /\ a \in Addresses \union {0}
    BY DEF Phases
  <2>4. handle' \in [Handles -> Handle]
    BY <1>a, <2>1, <2>3, HandleChanges
  <2>5. QED
    BY <1>1, <2>2, <2>4 DEF TakeAddress, TypeOK
<1>2. CASE SetAddress(p)
  <2>1. handle[p].addr \in Addresses \union {0}
    BY <1>a DEF Handle
  <2>2. port' \in [Ports -> Port]
    BY <1>2, <2>1, PortTypes DEF SetAddress, TypeOK
  <2>3. handle' = [handle EXCEPT ![p].phase = "addr"] /\ "addr" \in Phases
    BY <1>2 DEF SetAddress, Phases
  <2>4. handle' \in [Handles -> Handle]
    BY <1>a, <2>3, <2>1, HandleChanges
  <2>5. QED
    BY <1>2, <2>2, <2>4 DEF SetAddress, TypeOK
<1>3. CASE InitClass(p)
  <2>1. PICK T \in SUBSET PipeNos :
          /\ pipes' = pipes \union T
          /\ handle' = [handle EXCEPT ![p].phase = "request", ![p].bulk = T]
          /\ msc' = IF p \in Msc THEN T ELSE msc
    BY <1>3 DEF InitClass
  <2>2. "request" \in Phases
    BY DEF Phases
  <2>3. handle' \in [Handles -> Handle]
    BY <1>a, <2>1, <2>2, HandleChanges
  <2>4. pipes' \subseteq PipeNos /\ msc' \subseteq PipeNos
    BY <1>b, <2>1
  <2>5. QED
    BY <1>3, <2>3, <2>4 DEF InitClass, TypeOK
<1>4. CASE InitClassFault(p)
  BY <1>4 DEF InitClassFault, TypeOK
<1>5. CASE NoClass(p)
  BY <1>5, <1>a, HandleChanges DEF NoClass, TypeOK, Phases
<1>6. CASE StartClass(p)
  BY <1>6, <1>a, HandleChanges DEF StartClass, TypeOK, Phases
<1>7. CASE AoaStart(p)
  BY <1>7, <1>a, HandleChanges DEF AoaStart, TypeOK, Phases
<1>8. CASE AoaRequests(p)
  BY <1>8 DEF AoaRequests, TypeOK
<1>9. CASE AoaSet(p)
  <2>1. PICK s \in {"request", "abort"} : handle' = [handle EXCEPT ![p].phase = s]
    BY <1>9 DEF AoaSet
  <2>2. s \in Phases /\ 0 \in Addresses \union {0}
    BY DEF Phases
  <2>3. handle' \in [Handles -> Handle]
    BY <1>a, <2>1, <2>2, HandleChanges
  <2>4. QED
    BY <1>9, <2>3 DEF AoaSet, TypeOK
<1>10. QED
  BY <1>1, <1>2, <1>3, <1>4, <1>5, <1>6, <1>7, <1>8, <1>9 DEF ChildProcess

\* Every step keeps the types.
LEMMA TypeStep == TypeOK /\ [Next]_vars => TypeOK'
<1> SUFFICES ASSUME TypeOK, [Next]_vars PROVE TypeOK'
  OBVIOUS
<1> USE PortTypes, HandleTypes DEF pool, poll, stall, loop, Handles
<1>1. CASE RootAttach
  <2>1. PICK C \in SUBSET PipeNos, n \in PipeNos, a \in Addresses :
          /\ pipes' = pipes \union C \union {n}
          /\ addrs' = addrs \union {a}
          /\ handle' = [handle EXCEPT ![Root] =
               [phase |-> "class", ctl |-> C, bulk |-> {n}, addr |-> a]]
    BY <1>1, Zenon DEF RootAttach
  <2>2. [phase |-> "class", ctl |-> C, bulk |-> {n}, addr |-> a] \in Handle
    BY DEF Handle, Phases
  <2>3. handle' \in [Handles -> Handle]
    BY <2>1, <2>2 DEF TypeOK
  <2>4. pipes' \subseteq PipeNos /\ addrs' \subseteq Addresses
    BY <2>1 DEF TypeOK
  <2>5. data' \in Port
    BY <1>1, PortTypes DEF RootAttach, TypeOK
  <2>6. QED
    BY <1>1, <2>3, <2>4, <2>5 DEF RootAttach, TypeOK
<1>2. CASE Disconnect
  <2>0. /\ handle' = [handle EXCEPT ![Root].phase = "gone", ![Root].ctl = {}]
        /\ Root \in Handles /\ "gone" \in Phases /\ {} \in SUBSET PipeNos
    BY <1>2 DEF Disconnect, Phases
  <2>1. handle' \in [Handles -> Handle]
    BY <2>0, HandleChanges DEF TypeOK
  <2>2. port' \in [Ports -> Port]
    BY <1>2 DEF Disconnect, TypeOK, Port, NoDevice
  <2>3. QED
    BY <1>2, <2>1, <2>2 DEF Disconnect, TypeOK
<1>3. CASE Teardown
  BY <1>3 DEF Teardown, TypeOK
<1>4. CASE TeardownFault
  BY <1>4 DEF TeardownFault, TypeOK
<1>5. CASE ScanPortWait
  <2>1. ctl' \in {"SCAN_PORT", "SCAN_PORT_WAIT", "CLR_FEATURE", "ENUM_PORT"}
    BY <1>5 DEF ScanPortWait, TypeOK
  <2>2. state' \subseteq Ports
    BY <1>5 DEF ScanPortWait, TypeOK
  <2>3. QED
    BY <1>5, <2>1, <2>2 DEF ScanPortWait, TypeOK
<1>6. CASE ClrFeature
  BY <1>6 DEF ClrFeature, EnumPort, TypeOK
<1>7. CASE StartEnumPort
  BY <1>7 DEF StartEnumPort, EnumPort, TypeOK
<1>8. CASE EndEnumPort
  BY <1>8 DEF EndEnumPort, TypeOK
<1>9. CASE SOFProcess
  BY <1>9 DEF SOFProcess, TypeOK
<1>10. CASE UrbAnswer
  BY <1>10 DEF UrbAnswer, Changed, TypeOK
<1>11. CASE Halt
  BY <1>11 DEF Halt, TypeOK
<1>12. ASSUME NEW p \in Ports, LoopStep(p) \/ ChildProcess(p) PROVE TypeOK'
  BY <1>12, LoopTypes, ChildTypes
<1>13. ASSUME NEW p \in Ports, Plug(p) \/ Unplug(p) PROVE TypeOK'
  <2>1. port' \in [Ports -> Port]
    BY <1>13 DEF Plug, Unplug, TypeOK
  <2>2. QED
    BY <1>13, <2>1 DEF Plug, Unplug, TypeOK
<1>14. CASE UNCHANGED vars
  BY <1>14 DEF vars, TypeOK
<1>15. QED
  BY <1>1, <1>2, <1>3, <1>4, <1>5, <1>6, <1>7, <1>8, <1>9, <1>10, <1>11, <1>12,
     <1>13, <1>14
  DEF Next, RootStep, Interrupt

\* The program starts with its types.
LEMMA InitType == Init => TypeOK
<1> SUFFICES ASSUME Init PROVE TypeOK
  OBVIOUS
<1>1. NoDevice \in Port
  BY Zenon DEF NoDevice, Port
<1>2. port \in [Ports -> Port] /\ data \in Port
  BY <1>1, Zenon DEF Init
<1>3. handle \in [Handles -> Handle]
  BY HandleTypes, Zenon DEF Init
<1>4. req \in BOOLEAN /\ halted \in BOOLEAN
  BY Zenon DEF Init
<1>5. QED
  BY <1>2, <1>3, <1>4 DEF Init, TypeOK

\* Every variable keeps its type.
THEOREM TypeCorrect == Spec => []TypeOK
BY InitType, TypeStep, PTL DEF Spec

-----------------------------------------------------------------------------
(* No two handles share a pipe or an address *)

\* What a step may do to the shared pipes and addresses through one handle h: take
\* what is free, and give back what is h's own.
LEMMA OneChanges ==
  ASSUME TypeOK, TypeOK', PipesExclusive, AddressesExclusive,
         NEW h \in Handles,
         \A g \in Handles \ {h} : handle'[g] = handle[g],
         handle'[h].ctl \intersect handle'[h].bulk = {},
         Used(h)' \intersect (pipes \ Used(h)) = {},
         Used(h)' \subseteq pipes',
         pipes \ Used(h) \subseteq pipes',
         handle'[h].addr \in {0, handle[h].addr} \/ handle'[h].addr \notin addrs,
         handle'[h].addr \in addrs' \union {0},
         addrs \ {handle[h].addr} \subseteq addrs'
  PROVE  PipesExclusive' /\ AddressesExclusive'
<1>1. \A g \in Handles \ {h} : Used(g)' = Used(g)
  BY DEF Used
<1>2. \A g \in Handles \ {h} : Used(g) \subseteq pipes \ Used(h)
  BY DEF PipesExclusive
<1>3. PipesExclusive'
  <2>1. \A g \in Handles :
          Used(g)' \subseteq pipes' /\ handle'[g].ctl \intersect handle'[g].bulk = {}
    BY <1>1, <1>2 DEF PipesExclusive
  <2>2. \A g \in Handles \ {h} : Used(g)' \intersect Used(h)' = {}
    BY <1>1, <1>2
  <2>3. \A g, k \in Handles \ {h} : g # k => Used(g)' \intersect Used(k)' = {}
    BY <1>1 DEF PipesExclusive
  <2>4. QED
    BY <2>1, <2>2, <2>3 DEF PipesExclusive
<1>4. AddressesExclusive'
  <2>1. 0 \notin Addresses
    BY DEF Addresses
  <2>2. \A g \in Handles : handle[g].addr \in addrs \union {0}
    BY DEF AddressesExclusive
  <2>3. \A g \in Handles \ {h} :
          handle[g].addr = handle[h].addr => handle[g].addr = 0
    BY DEF AddressesExclusive
  <2>4. \A g \in Handles : handle'[g].addr \in addrs' \union {0}
    BY <2>2, <2>3
  <2>5. \A g \in Handles \ {h} :
          handle'[g].addr = handle'[h].addr => handle'[g].addr = 0
    BY <2>2, <2>3
  <2>6. \A g, k \in Handles \ {h} :
          g # k /\ handle'[g].addr = handle'[k].addr => handle'[g].addr = 0
    BY DEF AddressesExclusive
  <2>7. QED
    BY <2>4, <2>5, <2>6 DEF AddressesExclusive
<1>5. QED
  BY <1>3, <1>4

\* A step that leaves the handles and the pools alone.
LEMMA NothingChanges ==
  ASSUME HubInv, UNCHANGED <<pipes, addrs, msc, handle>> PROVE HubInv'
BY DEF HubInv, PipesExclusive, AddressesExclusive, ClassPipes, Used, WithClass

\* A child that is removed gives back its own pipes only.
LEMMA FreesOwn ==
  ASSUME HubInv, NEW p \in Ports PROVE FreedPipes(p) \subseteq Used(p)
BY DEF HubInv, ClassPipes, FreedPipes, Used

\* The steps of the loop over the ports keep the invariant.
LEMMA LoopInv ==
  ASSUME OneMsc, TypeOK, TypeOK', HubInv, NEW p \in Ports, LoopStep(p) PROVE HubInv'
<1>0. p \in Handles
  BY DEF Handles
<1> USE <1>0 DEF pool, poll, stall, loop
<1>1. CASE \/ GetPortStatus(p) \/ GetPortStatusFails(p) \/ ClearPort(p) \/ ResetPort(p)
           \/ KeepChild(p) \/ NewChildFault(p) \/ StoreChild(p)
  BY <1>1, NothingChanges
  DEF GetPortStatus, GetPortStatusFails, ClearPort, ResetPort, KeepChild,
      NewChildFault, StoreChild
<1>2. CASE RemoveChild(p)
  <2>1. /\ handle' = [handle EXCEPT ![p] = NoHandle]
        /\ pipes' = pipes \ FreedPipes(p)
        /\ addrs' = addrs \ FreedAddresses({p} \intersect WithClass)
        /\ msc' = IF p \in WithClass \intersect Msc THEN {} ELSE msc
    BY <1>2 DEF RemoveChild
  <2>2. handle'[p] = NoHandle /\ \A g \in Handles \ {p} : handle'[g] = handle[g]
    BY <2>1 DEF TypeOK
  <2>3. FreedAddresses({p} \intersect WithClass) \subseteq {handle[p].addr}
    BY DEF FreedAddresses
  <2>4. /\ handle'[p].ctl = {} /\ handle'[p].bulk = {} /\ handle'[p].addr = 0
        /\ Used(p)' = {}
    BY <2>2 DEF NoHandle, Used
  <2>5. pipes \ Used(p) \subseteq pipes' /\ addrs \ {handle[p].addr} \subseteq addrs'
    BY <2>1, <2>3, FreesOwn
  <2>6. PipesExclusive' /\ AddressesExclusive'
    BY <2>2, <2>4, <2>5, OneChanges DEF HubInv
  <2>7. ClassPipes'
    BY <2>1, <2>2 DEF HubInv, ClassPipes, WithClass, NoHandle, OneMsc, Handles
  <2>8. QED
    BY <2>6, <2>7 DEF HubInv
<1>3. CASE NewChild(p)
  <2>1. PICK C \in SUBSET PipeNos :
          /\ C \subseteq PipeNos \ pipes
          /\ pipes' = pipes \union C
          /\ handle' = [handle EXCEPT ![p] = [NoHandle EXCEPT !.phase = "idle", !.ctl = C]]
    BY <1>3 DEF NewChild, Allocates
  <2>2. /\ handle'[p] = [NoHandle EXCEPT !.phase = "idle", !.ctl = C]
        /\ \A g \in Handles \ {p} : handle'[g] = handle[g]
    BY <2>1 DEF TypeOK
  <2>3. /\ handle'[p].phase = "idle" /\ handle'[p].ctl = C
        /\ handle'[p].bulk = {} /\ handle'[p].addr = 0
    BY <2>2 DEF NoHandle
  <2>4. addrs' = addrs /\ msc' = msc
    BY <1>3 DEF NewChild
  <2>5. PipesExclusive' /\ AddressesExclusive'
    BY <2>1, <2>2, <2>3, <2>4, OneChanges DEF HubInv, Used
  <2>6. ClassPipes'
    BY <2>2, <2>3, <2>4 DEF HubInv, ClassPipes, WithClass, Handles
  <2>7. QED
    BY <2>5, <2>6 DEF HubInv
<1>4. CASE EnumFails(p)
  <2>1. /\ handle' = [handle EXCEPT ![p] = NoHandle]
        /\ pipes' = pipes /\ addrs' = addrs /\ msc' = msc
    BY <1>4 DEF EnumFails
  <2>2. handle'[p] = NoHandle /\ \A g \in Handles \ {p} : handle'[g] = handle[g]
    BY <2>1 DEF TypeOK
  <2>3. PipesExclusive' /\ AddressesExclusive'
    BY <2>1, <2>2, OneChanges DEF HubInv, NoHandle, Used
  <2>4. ClassPipes'
    BY <2>1, <2>2 DEF HubInv, ClassPipes, WithClass, NoHandle, Handles
  <2>5. QED
    BY <2>3, <2>4 DEF HubInv
<1>5. QED
  BY <1>1, <1>2, <1>3, <1>4 DEF LoopStep

\* The steps of a child's enumeration keep the invariant.
LEMMA ChildInv ==
  ASSUME OneMsc, TypeOK, TypeOK', HubInv, NEW p \in Ports, ChildProcess(p) PROVE HubInv'
<1>0. p \in Handles /\ handle[p] \in Handle
  BY DEF Handles, TypeOK
<1> USE <1>0 DEF pool, poll, stall, loop
<1>1. CASE TakeAddress(p)
  <2>1. PICK a \in Addresses \ addrs :
          /\ addrs' = addrs \union {a}
          /\ handle' = [handle EXCEPT ![p].phase = "setaddr", ![p].addr = a]
    BY <1>1 DEF TakeAddress, GetsOneAddress
  <2>2. /\ handle'[p].phase = "setaddr" /\ handle'[p].addr = a
        /\ handle'[p].ctl = handle[p].ctl /\ handle'[p].bulk = handle[p].bulk
        /\ \A g \in Handles \ {p} : handle'[g] = handle[g]
    BY <2>1 DEF TypeOK, Handle
  <2>3. pipes' = pipes /\ msc' = msc /\ handle[p].phase = "idle"
    BY <1>1 DEF TakeAddress
  <2>4. Used(p)' = Used(p) /\ Used(p) \subseteq pipes'
        /\ handle'[p].ctl \intersect handle'[p].bulk = {}
    BY <2>2, <2>3 DEF HubInv, Used, PipesExclusive
  <2>5. handle'[p].addr \notin addrs /\ handle'[p].addr \in addrs' /\ addrs \subseteq addrs'
    BY <2>1, <2>2
  <2>6. PipesExclusive' /\ AddressesExclusive'
    BY <2>2, <2>3, <2>4, <2>5, OneChanges DEF HubInv
  <2>7. ClassPipes'
    BY <2>2, <2>3 DEF HubInv, ClassPipes, WithClass, Handles
  <2>8. QED
    BY <2>6, <2>7 DEF HubInv
<1>2. CASE InitClass(p)
  <2>1. PICK T \in SUBSET PipeNos :
          /\ T \subseteq PipeNos \ pipes
          /\ pipes' = pipes \union T
          /\ handle' = [handle EXCEPT ![p].phase = "request", ![p].bulk = T]
          /\ msc' = IF p \in Msc THEN T ELSE msc
    BY <1>2 DEF InitClass, Allocates
  <2>2. /\ handle'[p].phase = "request" /\ handle'[p].addr = handle[p].addr
        /\ handle'[p].ctl = handle[p].ctl /\ handle'[p].bulk = T
        /\ \A g \in Handles \ {p} : handle'[g] = handle[g]
    BY <2>1 DEF TypeOK, Handle
  <2>3. addrs' = addrs
    BY <1>2 DEF InitClass
  <2>4. handle[p].ctl \subseteq pipes /\ handle[p].addr \in addrs \union {0}
    BY DEF HubInv, PipesExclusive, AddressesExclusive, Used
  <2>5. PipesExclusive' /\ AddressesExclusive'
    BY <2>1, <2>2, <2>3, <2>4, OneChanges DEF HubInv, Used
  <2>6. ClassPipes'
    BY <2>1, <2>2 DEF HubInv, ClassPipes, WithClass, OneMsc, Handles
  <2>7. QED
    BY <2>5, <2>6 DEF HubInv
<1>3. CASE InitClassFault(p) \/ AoaRequests(p)
  BY <1>3, NothingChanges DEF InitClassFault, AoaRequests
<1>4. CASE SetAddress(p) \/ NoClass(p) \/ StartClass(p) \/ AoaStart(p) \/ AoaSet(p)
  <2>1. PICK ph \in Phases :
          /\ handle' = [handle EXCEPT ![p].phase = ph]
          /\ \/ ph \in {"request", "class"} <=> handle[p].phase \in {"request", "class"}
             \/ handle[p].phase \notin {"request", "class"} /\ p \notin Msc
    <3>1. CASE SetAddress(p)
      BY <3>1 DEF SetAddress, Phases
    <3>2. CASE NoClass(p)
      BY <3>2 DEF NoClass, Phases
    <3>3. CASE StartClass(p)
      BY <3>3 DEF StartClass, Phases
    <3>4. CASE AoaStart(p)
      BY <3>4 DEF AoaStart, Phases
    <3>5. CASE AoaSet(p)
      <4>1. p \notin Msc /\ handle[p].phase = "aoa"
        BY <3>5, UsbHubAssumption DEF AoaSet
      <4>2. QED
        BY <3>5, <4>1 DEF AoaSet, Phases
    <3>6. QED
      BY <1>4, <3>1, <3>2, <3>3, <3>4, <3>5
  <2>2. /\ handle'[p].phase = ph /\ handle'[p].addr = handle[p].addr
        /\ handle'[p].ctl = handle[p].ctl /\ handle'[p].bulk = handle[p].bulk
        /\ \A g \in Handles \ {p} : handle'[g] = handle[g]
    BY <2>1 DEF TypeOK, Handle
  <2>3. pipes' = pipes /\ addrs' = addrs /\ msc' = msc
    BY <1>4 DEF SetAddress, NoClass, StartClass, AoaStart, AoaSet
  <2>4. PipesExclusive' /\ AddressesExclusive'
    BY <2>2, <2>3, OneChanges DEF HubInv, Used, PipesExclusive, AddressesExclusive
  <2>5. ClassPipes'
    BY <2>1, <2>2, <2>3 DEF HubInv, ClassPipes, WithClass, Handles
  <2>6. QED
    BY <2>4, <2>5 DEF HubInv
<1>5. QED
  BY <1>1, <1>2, <1>3, <1>4 DEF ChildProcess

\* Every step keeps the invariant.
LEMMA InvStep ==
  ASSUME OneMsc PROVE TypeOK /\ HubInv /\ [Next]_vars => HubInv'
<1> SUFFICES ASSUME TypeOK, HubInv, [Next]_vars PROVE HubInv'
  OBVIOUS
<1>0. TypeOK' /\ Root \in Handles /\ Root \notin Ports
  BY TypeStep DEF Handles, Root, Ports
<1> USE <1>0 DEF pool, poll, stall, loop
<1>1. CASE RootAttach
  <2>1. PICK C \in SUBSET PipeNos, n \in PipeNos, a \in Addresses :
          /\ C \union {n} \subseteq PipeNos \ pipes /\ n \notin C /\ a \notin addrs
          /\ pipes' = pipes \union C \union {n}
          /\ addrs' = addrs \union {a}
          /\ handle' = [handle EXCEPT ![Root] =
               [phase |-> "class", ctl |-> C, bulk |-> {n}, addr |-> a]]
    BY <1>1, Zenon DEF RootAttach, Allocates, GetsOneAddress
  <2>2. /\ handle'[Root].ctl = C /\ handle'[Root].bulk = {n} /\ handle'[Root].addr = a
        /\ \A g \in Handles \ {Root} : handle'[g] = handle[g]
    BY <2>1 DEF TypeOK
  <2>3. msc' = msc
    BY <1>1 DEF RootAttach
  <2>4. PipesExclusive' /\ AddressesExclusive'
    BY <2>1, <2>2, OneChanges DEF HubInv, Used
  <2>5. ClassPipes'
    BY <2>2, <2>3 DEF HubInv, ClassPipes, WithClass, Handles
  <2>6. QED
    BY <2>4, <2>5 DEF HubInv
<1>2. CASE Disconnect
  <2>1. /\ handle' = [handle EXCEPT ![Root].phase = "gone", ![Root].ctl = {}]
        /\ pipes' = pipes \ handle[Root].ctl /\ addrs' = addrs /\ msc' = msc
    BY <1>2 DEF Disconnect
  <2>2. /\ handle'[Root].ctl = {} /\ handle'[Root].bulk = handle[Root].bulk
        /\ handle'[Root].addr = handle[Root].addr
        /\ \A g \in Handles \ {Root} : handle'[g] = handle[g]
    BY <2>1 DEF TypeOK, Handle
  <2>3. /\ Used(Root)' \subseteq Used(Root) /\ Used(Root)' \subseteq pipes'
        /\ pipes \ Used(Root) \subseteq pipes'
        /\ handle'[Root].ctl \intersect handle'[Root].bulk = {}
    BY <2>1, <2>2 DEF HubInv, Used, PipesExclusive
  <2>4. handle'[Root].addr \in addrs' \union {0} /\ addrs \subseteq addrs'
    BY <2>1, <2>2 DEF HubInv, AddressesExclusive
  <2>5. PipesExclusive' /\ AddressesExclusive'
    BY <2>2, <2>3, <2>4, OneChanges DEF HubInv
  <2>6. ClassPipes'
    BY <2>1, <2>2 DEF HubInv, ClassPipes, WithClass, Handles
  <2>7. QED
    BY <2>5, <2>6 DEF HubInv
<1>3. CASE Teardown
  <2>1. handle' = [h \in Handles |-> NoHandle]
    BY <1>3 DEF Teardown
  <2>2. PipesExclusive' /\ AddressesExclusive'
    BY <2>1 DEF PipesExclusive, AddressesExclusive, Used, NoHandle
  <2>3. ClassPipes'
    BY <2>1 DEF ClassPipes, WithClass, NoHandle, Handles
  <2>4. QED
    BY <2>2, <2>3 DEF HubInv
<1>4. CASE TeardownFault \/ ScanPortWait \/ ClrFeature \/ StartEnumPort \/ EndEnumPort
  BY <1>4, NothingChanges
  DEF TeardownFault, ScanPortWait, ClrFeature, StartEnumPort, EndEnumPort
<1>5. CASE SOFProcess \/ UrbAnswer \/ Halt
  BY <1>5, NothingChanges DEF SOFProcess, UrbAnswer, Halt
<1>6. ASSUME NEW p \in Ports, LoopStep(p) \/ ChildProcess(p) PROVE HubInv'
  BY <1>6, LoopInv, ChildInv
<1>7. ASSUME NEW p \in Ports, Plug(p) \/ Unplug(p) PROVE HubInv'
  BY <1>7, NothingChanges DEF Plug, Unplug
<1>8. CASE UNCHANGED vars
  BY <1>8, NothingChanges DEF vars
<1>9. QED
  BY <1>1, <1>2, <1>3, <1>4, <1>5, <1>6, <1>7, <1>8 DEF Next, RootStep, Interrupt

\* The program starts with the invariant.
LEMMA InitInv == Init => HubInv
BY DEF Init, HubInv, PipesExclusive, AddressesExclusive, ClassPipes, Used, WithClass,
       NoHandle, Handles

\* The inductive invariant.
THEOREM HubInvariant == ASSUME OneMsc PROVE Spec => []HubInv
<1>1. Init => TypeOK /\ HubInv
  BY InitType, InitInv
<1>2. TypeOK /\ HubInv /\ [Next]_vars => (TypeOK /\ HubInv)'
  BY TypeStep, InvStep
<1>3. QED
  BY <1>1, <1>2, PTL DEF Spec

\* However the devices come, go, stall or are refused, no pipe is allocated to two
\* handles.
THEOREM PipesNeverShared == ASSUME OneMsc PROVE Spec => []PipesExclusive
<1>1. HubInv => PipesExclusive
  BY DEF HubInv
<1>2. QED
  BY <1>1, HubInvariant, PTL

\* Nor is an address given to two handles.
THEOREM AddressesNeverShared == ASSUME OneMsc PROVE Spec => []AddressesExclusive
<1>1. HubInv => AddressesExclusive
  BY DEF HubInv
<1>2. QED
  BY <1>1, HubInvariant, PTL

-----------------------------------------------------------------------------
(* The addresses of the devices on the bus *)

\* While no interrupt endpoint halts, device.Data is the status of the port that the
\* thread looks at: no ClearFeature takes the place of a GetPortStatus.
NoStall == "stall" \notin Haste
NoClearFeature == ~req /\ ~halted /\ urb # "STALL" /\ ctl # "CLR_FEATURE"

\* A handle has an address from ENUM_SET_ADDR on.
Addressed(s) == s \notin {"none", "idle"}
HandleAddresses ==
  /\ \A p \in Ports :
       /\ handle[p].phase = "none" => handle[p] = NoHandle
       /\ handle[p].addr # 0 <=> Addressed(handle[p].phase)
  /\ Up => handle[Root].addr # 0

\* A device listens to the address that its handle knows, or to none: also while the
\* handle waits to be removed, which happens only after the port was seen empty.
Seen(p) == pc \in {"clear", "act"} /\ p \in todo /\ \A q \in todo : p <= q
DeviceAddresses ==
  \A p \in Ports :
    /\ port[p].addr \in {0, handle[p].addr}
    /\ ~port[p].conn => port[p].addr = 0
    /\ Seen(p) /\ ~data.conn => port[p].addr = 0
    /\ handle[Root].phase = "gone" => port[p].addr = 0

BusInv == NoClearFeature /\ HandleAddresses /\ DeviceAddresses

\* The ports and the handles stay as they are, and the thread does not read a status.
LEMMA BusKept ==
  ASSUME BusInv, NoClearFeature', UNCHANGED <<handle, port, data>>,
         \A p \in Ports : Seen(p)' => Seen(p)
  PROVE  BusInv'
<1>1. HandleAddresses'
  BY DEF BusInv, HandleAddresses, Up
<1>2. DeviceAddresses'
  BY DEF BusInv, DeviceAddresses
<1>3. QED
  BY <1>1, <1>2 DEF BusInv

\* Only the phase of a child changes, between two that have an address or not.
LEMMA PhaseChanges ==
  ASSUME TypeOK, BusInv, NEW p \in Ports, NEW s \in Phases,
         handle' = [handle EXCEPT ![p].phase = s], s # "none",
         Addressed(s) <=> Addressed(handle[p].phase), handle[p].phase # "none"
  PROVE  HandleAddresses' /\ \A q \in Handles : handle'[q].addr = handle[q].addr
<1>0. p # Root
  BY DEF Ports, Root
<1>1. /\ handle'[p].phase = s /\ handle'[p].addr = handle[p].addr
      /\ \A q \in Handles : q # p => handle'[q] = handle[q]
  BY DEF TypeOK, Handle, Handles
<1>2. Root \in Handles /\ p \in Handles /\ \A q \in Ports : q \in Handles
  BY DEF Handles
<1>3. QED
  BY <1>0, <1>1, <1>2 DEF BusInv, HandleAddresses, Up

\* The steps of the loop over the ports.
LEMMA LoopBus ==
  ASSUME NoStall, TypeOK, BusInv, NEW p \in Ports, LoopStep(p) PROVE BusInv'
<1>0. /\ p \in Handles /\ p # Root /\ Root \in Handles
      /\ \A q \in Ports : q \in Handles
  BY DEF Handles, Ports, Root
<1>a. handle \in [Handles -> Handle] /\ port \in [Ports -> Port]
  BY DEF TypeOK
<1> USE DEF pool, poll, stall, loop, Turn, NextPort
<1>n. NoClearFeature'
  <2>1. UNCHANGED poll
    BY DEF LoopStep, GetPortStatus, GetPortStatusFails, ClearPort, ResetPort, KeepChild,
           RemoveChild, NewChild, NewChildFault, StoreChild, EnumFails
  <2>2. ~req' /\ ~halted'
    <3>1. ~req /\ ~halted
      BY DEF BusInv, NoClearFeature
    <3>2. CASE GetPortStatus(p)
      BY <3>1, <3>2, Zenon DEF GetPortStatus
    <3>3. CASE GetPortStatusFails(p)
      BY <3>1, <3>3, Zenon DEF GetPortStatusFails
    <3>4. CASE UNCHANGED stall
      BY <3>1, <3>4
    <3>5. QED
      BY <3>2, <3>3, <3>4
      DEF LoopStep, ClearPort, ResetPort, KeepChild, RemoveChild, NewChild, NewChildFault,
          StoreChild, EnumFails
  <2>3. QED
    BY <2>1, <2>2 DEF BusInv, NoClearFeature
<1>1. CASE GetPortStatus(p)
  <2>1. data' = port[p] /\ UNCHANGED <<handle, port, todo>>
    BY <1>1 DEF GetPortStatus, BusInv, NoClearFeature
  <2>2. \A q \in Ports : Seen(q)' => q = p
    BY <1>1 DEF GetPortStatus, Seen, Ports
  <2>3. HandleAddresses'
    BY <2>1 DEF BusInv, HandleAddresses, Up
  <2>4. DeviceAddresses'
    BY <2>1, <2>2 DEF BusInv, DeviceAddresses
  <2>5. QED
    BY <1>n, <2>3, <2>4 DEF BusInv
<1>2. CASE GetPortStatusFails(p)
  <2>1. UNCHANGED <<handle, port, data>> /\ \A q \in Ports : ~Seen(q)'
    BY <1>2 DEF GetPortStatusFails, Seen
  <2>2. QED
    BY <1>n, <2>1, BusKept
<1>3. CASE ClearPort(p) \/ ResetPort(p)
  <2>1. /\ UNCHANGED <<handle, data>>
        /\ \A q \in Ports : port'[q].addr \in {0, port[q].addr} /\ port'[q].conn = port[q].conn
        /\ \A q \in Ports : Seen(q)' => Seen(q)
    <3>1. UNCHANGED <<handle, data>> /\ \A q \in Ports : Seen(q)' => Seen(q)
      BY <1>3 DEF ClearPort, ResetPort, Seen
    <3>2. \A q \in Ports : q # p => port'[q] = port[q]
      BY <1>3, <1>a DEF ClearPort, ResetPort
    <3>3. port'[p] \in {port[p], Cleared(port[p]), WasReset(port[p])}
      BY <1>3, <1>a DEF ClearPort, ResetPort
    <3>4. port[p] \in Port
      BY <1>a
    <3>5. port'[p].addr \in {0, port[p].addr} /\ port'[p].conn = port[p].conn
      BY <3>3, <3>4 DEF Cleared, WasReset, Port
    <3>6. QED
      BY <3>1, <3>2, <3>5
  <2>2. HandleAddresses'
    BY <2>1 DEF BusInv, HandleAddresses, Up
  <2>3. DeviceAddresses'
    BY <2>1 DEF BusInv, DeviceAddresses
  <2>4. QED
    BY <1>n, <2>2, <2>3 DEF BusInv
<1>4. CASE KeepChild(p) \/ NewChildFault(p) \/ StoreChild(p)
  <2>1. UNCHANGED <<handle, port, data>> /\ \A q \in Ports : ~Seen(q)'
    BY <1>4 DEF KeepChild, NewChildFault, StoreChild, Seen
  <2>2. QED
    BY <1>n, <2>1, BusKept
<1>5. CASE RemoveChild(p) \/ EnumFails(p)
  <2>1. /\ handle' = [handle EXCEPT ![p] = NoHandle] /\ UNCHANGED <<port, data>>
        /\ \A q \in Ports : ~Seen(q)'
    BY <1>5 DEF RemoveChild, EnumFails, Seen
  <2>2. /\ handle'[p] = NoHandle
        /\ \A q \in Handles : q # p => handle'[q] = handle[q]
    BY <1>0, <1>a, <2>1
  <2>3. NoHandle.addr = 0 /\ NoHandle.phase = "none"
    BY DEF NoHandle
  <2>4. port[p].addr = 0
    <3>1. CASE RemoveChild(p)
      BY <3>1 DEF RemoveChild, BusInv, DeviceAddresses, Seen
    <3>2. CASE EnumFails(p)
      BY <3>2 DEF EnumFails, BusInv, DeviceAddresses, HandleAddresses, Addressed
    <3>3. QED
      BY <1>5, <3>1, <3>2
  <2>5. HandleAddresses'
    BY <1>0, <2>2, <2>3 DEF BusInv, HandleAddresses, Up, Addressed
  <2>6. DeviceAddresses'
    BY <1>0, <2>1, <2>2, <2>3, <2>4 DEF BusInv, DeviceAddresses
  <2>7. QED
    BY <1>n, <2>5, <2>6 DEF BusInv
<1>6. CASE NewChild(p)
  <2>1. PICK C \in SUBSET PipeNos :
          handle' = [handle EXCEPT ![p] = [NoHandle EXCEPT !.phase = "idle", !.ctl = C]]
    BY <1>6 DEF NewChild
  <2>2. /\ handle'[p].phase = "idle" /\ handle'[p].addr = 0
        /\ \A q \in Handles : q # p => handle'[q] = handle[q]
    BY <1>0, <1>a, <2>1 DEF NoHandle
  <2>3. UNCHANGED <<port, data>> /\ handle[p].phase = "none" /\ \A q \in Ports : ~Seen(q)'
    BY <1>6 DEF NewChild, Children, Seen
  <2>4. handle[p].addr = 0
    BY <2>3 DEF BusInv, HandleAddresses, NoHandle
  <2>5. HandleAddresses'
    BY <1>0, <2>2 DEF BusInv, HandleAddresses, Up, Addressed
  <2>6. DeviceAddresses'
    BY <1>0, <2>2, <2>3, <2>4 DEF BusInv, DeviceAddresses
  <2>7. QED
    BY <1>n, <2>5, <2>6 DEF BusInv
<1>7. QED
  BY <1>1, <1>2, <1>3, <1>4, <1>5, <1>6 DEF LoopStep

\* The steps of a child's enumeration.
LEMMA ChildBus ==
  ASSUME NoStall, TypeOK, BusInv, NEW p \in Ports, ChildProcess(p) PROVE BusInv'
<1>0. /\ p \in Handles /\ p # Root /\ Root \in Handles
      /\ \A q \in Ports : q \in Handles
  BY DEF Handles, Ports, Root
<1>a. handle \in [Handles -> Handle] /\ port \in [Ports -> Port]
  BY DEF TypeOK
<1> USE DEF pool, poll, stall, loop
<1>n. NoClearFeature'
  BY DEF BusInv, NoClearFeature, ChildProcess, TakeAddress, SetAddress, InitClass,
         InitClassFault, AoaStart, AoaRequests, AoaSet, NoClass, StartClass
<1>s. \A q \in Ports : Seen(q)' => Seen(q)
  <2>1. data' = data /\ todo' = todo /\ (pc' = pc \/ pc' \notin {"clear", "act"})
    BY DEF ChildProcess, TakeAddress, SetAddress, InitClass,
         InitClassFault, AoaStart, AoaRequests, AoaSet, NoClass, StartClass
  <2>2. QED
    BY <2>1 DEF Seen
<1>d. data' = data
  BY DEF ChildProcess, TakeAddress, SetAddress, InitClass,
         InitClassFault, AoaStart, AoaRequests, AoaSet, NoClass, StartClass
<1>1. CASE TakeAddress(p)
  <2>1. PICK a \in Addresses :
          handle' = [handle EXCEPT ![p].phase = "setaddr", ![p].addr = a]
    BY <1>1 DEF TakeAddress
  <2>2. /\ handle'[p].phase = "setaddr" /\ handle'[p].addr = a /\ a # 0
        /\ \A q \in Handles : q # p => handle'[q] = handle[q]
    BY <1>0, <1>a, <2>1 DEF Handle, Addresses
  <2>3. port' = port /\ port[p].addr = 0
    BY <1>1 DEF TakeAddress, Answers
  <2>4. HandleAddresses'
    BY <1>0, <2>2 DEF BusInv, HandleAddresses, Up, Addressed
  <2>5. DeviceAddresses'
    BY <1>0, <1>s, <1>d, <2>2, <2>3 DEF BusInv, DeviceAddresses
  <2>6. QED
    BY <1>n, <2>4, <2>5 DEF BusInv
<1>2. CASE SetAddress(p)
  <2>1. /\ port' = [port EXCEPT ![p].addr = handle[p].addr]
        /\ handle' = [handle EXCEPT ![p].phase = "addr"]
        /\ handle[p].phase = "setaddr" /\ port[p].conn /\ Up
        /\ ~Seen(p)
    BY <1>2 DEF SetAddress, Answers, Runs, Turn, Seen
  <2>2. /\ HandleAddresses' /\ \A q \in Handles : handle'[q].addr = handle[q].addr
    BY <2>1, PhaseChanges DEF Phases, Addressed
  <2>3. /\ port'[p].addr = handle[p].addr /\ port'[p].conn
        /\ \A q \in Ports : q # p => port'[q] = port[q]
    BY <1>a, <2>1 DEF Port
  <2>4. handle'[Root].phase # "gone"
    BY <1>0, <1>a, <2>1 DEF Up
  <2>5. DeviceAddresses'
    BY <1>0, <1>s, <1>d, <2>1, <2>2, <2>3, <2>4 DEF BusInv, DeviceAddresses
  <2>6. QED
    BY <1>n, <2>2, <2>5 DEF BusInv
<1>3. CASE InitClass(p)
  <2>1. PICK T \in SUBSET PipeNos :
          handle' = [handle EXCEPT ![p].phase = "request", ![p].bulk = T]
    BY <1>3 DEF InitClass
  <2>2. /\ handle'[p].phase = "request" /\ handle'[p].addr = handle[p].addr
        /\ \A q \in Handles : q # p => handle'[q] = handle[q]
    BY <1>0, <1>a, <2>1 DEF Handle
  <2>3. port' = port /\ handle[p].phase = "addr"
    BY <1>3 DEF InitClass
  <2>4. HandleAddresses'
    BY <1>0, <2>2, <2>3 DEF BusInv, HandleAddresses, Up, Addressed
  <2>5. DeviceAddresses'
    BY <1>0, <1>s, <1>d, <2>2, <2>3 DEF BusInv, DeviceAddresses
  <2>6. QED
    BY <1>n, <2>4, <2>5 DEF BusInv
<1>4. CASE InitClassFault(p) \/ AoaRequests(p)
  <2>1. UNCHANGED <<handle, port>>
    BY <1>4 DEF InitClassFault, AoaRequests
  <2>2. QED
    BY <1>n, <1>s, <1>d, <2>1, BusKept
<1>5. CASE AoaStart(p) \/ AoaSet(p) \/ NoClass(p) \/ StartClass(p)
  <2>1. PICK s \in Phases :
          /\ handle' = [handle EXCEPT ![p].phase = s]
          /\ Addressed(s) /\ Addressed(handle[p].phase)
    BY <1>5 DEF AoaStart, AoaSet, NoClass, StartClass, Phases, Addressed
  <2>2. port' = port
    BY <1>5 DEF AoaStart, AoaSet, NoClass, StartClass
  <2>3. s # "none" /\ handle[p].phase # "none"
    BY <2>1 DEF Addressed
  <2>4. HandleAddresses' /\ \A q \in Handles : handle'[q].addr = handle[q].addr
    BY <2>1, <2>3, PhaseChanges
  <2>5. handle'[Root].phase = handle[Root].phase
    BY <1>0, <1>a, <2>1
  <2>6. DeviceAddresses'
    BY <1>0, <1>s, <1>d, <2>2, <2>4, <2>5 DEF BusInv, DeviceAddresses
  <2>7. QED
    BY <1>n, <2>4, <2>6 DEF BusInv
<1>6. QED
  BY <1>1, <1>2, <1>3, <1>4, <1>5 DEF ChildProcess

\* Every step keeps the addresses on the bus.
LEMMA BusStep == ASSUME NoStall PROVE TypeOK /\ BusInv /\ [Next]_vars => BusInv'
<1> SUFFICES ASSUME TypeOK, BusInv, [Next]_vars PROVE BusInv'
  OBVIOUS
<1>0. /\ Root \in Handles /\ Root \notin Ports
      /\ \A q \in Ports : q \in Handles /\ q # Root
  BY DEF Handles, Root, Ports
<1>a. handle \in [Handles -> Handle] /\ port \in [Ports -> Port]
  BY DEF TypeOK
<1> USE DEF pool, poll, stall, loop
<1>1. CASE RootAttach
  <2>1. PICK C \in SUBSET PipeNos, n \in PipeNos, a \in Addresses :
          handle' = [handle EXCEPT ![Root] =
            [phase |-> "class", ctl |-> C, bulk |-> {n}, addr |-> a]]
    BY <1>1, Zenon DEF RootAttach
  <2>2. /\ handle'[Root].phase = "class" /\ handle'[Root].addr = a /\ a # 0
        /\ \A q \in Ports : handle'[q] = handle[q]
    BY <1>0, <1>a, <2>1 DEF Addresses
  <2>3. port' = port /\ NoClearFeature' /\ \A q \in Ports : ~Seen(q)'
    BY <1>1 DEF RootAttach, NoClearFeature, Seen
  <2>4. HandleAddresses'
    BY <2>2 DEF BusInv, HandleAddresses, Up
  <2>5. DeviceAddresses'
    BY <2>2, <2>3 DEF BusInv, DeviceAddresses
  <2>6. QED
    BY <2>3, <2>4, <2>5 DEF BusInv
<1>2. CASE Disconnect
  <2>1. /\ handle' = [handle EXCEPT ![Root].phase = "gone", ![Root].ctl = {}]
        /\ \A q \in Ports : port'[q].addr = 0
    BY <1>2 DEF Disconnect, NoDevice
  <2>2. /\ handle'[Root].phase = "gone" /\ \A q \in Ports : handle'[q] = handle[q]
    BY <1>0, <1>a, <2>1 DEF Handle
  <2>3. NoClearFeature'
    BY <1>2 DEF Disconnect, BusInv, NoClearFeature
  <2>4. HandleAddresses'
    BY <2>2 DEF BusInv, HandleAddresses, Up
  <2>5. DeviceAddresses'
    BY <2>1 DEF DeviceAddresses
  <2>6. QED
    BY <2>3, <2>4, <2>5 DEF BusInv
<1>3. CASE Teardown
  <2>1. /\ handle' = [h \in Handles |-> NoHandle] /\ handle[Root].phase = "gone"
        /\ port' = port /\ NoClearFeature'
    BY <1>3 DEF Teardown, BusInv, NoClearFeature
  <2>2. \A h \in Handles : handle'[h] = NoHandle
    BY <2>1
  <2>3. HandleAddresses'
    BY <1>0, <2>2 DEF HandleAddresses, Up, Addressed, NoHandle
  <2>4. \A q \in Ports : port'[q].addr = 0
    BY <2>1 DEF BusInv, DeviceAddresses
  <2>5. DeviceAddresses'
    BY <2>4 DEF DeviceAddresses
  <2>6. QED
    BY <2>1, <2>3, <2>5 DEF BusInv
<1>4. CASE TeardownFault \/ ScanPortWait \/ ClrFeature \/ StartEnumPort \/ EndEnumPort
  <2>1. /\ UNCHANGED <<handle, port, data>> /\ \A q \in Ports : Seen(q)' => Seen(q)
    BY <1>4
    DEF TeardownFault, ScanPortWait, ClrFeature, StartEnumPort, EndEnumPort, EnumPort, Seen
  <2>2. NoClearFeature'
    <3>1. ~req /\ ~halted /\ urb # "STALL" /\ ctl # "CLR_FEATURE"
      BY DEF BusInv, NoClearFeature
    <3>2. ~ClrFeature
      BY <3>1 DEF ClrFeature
    <3>3. CASE ScanPortWait
      <4>1. urb \in {"DONE", "NOTREADY"}
        BY <3>1, <3>3 DEF ScanPortWait, TypeOK
      <4>2. ctl' \in {"ENUM_PORT", "SCAN_PORT"}
        BY <3>3, <4>1 DEF ScanPortWait
      <4>3. UNCHANGED <<req, halted, urb>>
        BY <3>3 DEF ScanPortWait
      <4>4. QED
        BY <3>1, <4>2, <4>3 DEF NoClearFeature
    <3>4. CASE TeardownFault \/ StartEnumPort \/ EndEnumPort
      <4>1. UNCHANGED <<req, halted, urb>> /\ (ctl' = ctl \/ ctl' = "SCAN_PORT")
        BY <3>4 DEF TeardownFault, StartEnumPort, EndEnumPort
      <4>2. QED
        BY <3>1, <4>1 DEF NoClearFeature
    <3>5. QED
      BY <1>4, <3>2, <3>3, <3>4
  <2>3. QED
    BY <2>1, <2>2, BusKept
<1>5. CASE SOFProcess \/ UrbAnswer \/ Halt
  <2>1. /\ UNCHANGED <<handle, port, data>> /\ \A q \in Ports : Seen(q)' => Seen(q)
    BY <1>5 DEF SOFProcess, UrbAnswer, Halt, Seen
  <2>2. NoClearFeature'
    BY <1>5 DEF SOFProcess, UrbAnswer, Halt, BusInv, NoClearFeature, NoStall
  <2>3. QED
    BY <2>1, <2>2, BusKept
<1>6. ASSUME NEW p \in Ports, LoopStep(p) \/ ChildProcess(p) PROVE BusInv'
  BY <1>6, LoopBus, ChildBus
<1>7. ASSUME NEW p \in Ports, Plug(p) \/ Unplug(p) PROVE BusInv'
  <2>1. /\ UNCHANGED <<handle, data, pc, todo>> /\ NoClearFeature'
        /\ port'[p].addr = 0 /\ \A q \in Ports : q # p => port'[q] = port[q]
    <3>1. UNCHANGED <<handle, data, pc, todo>> /\ NoClearFeature'
      BY <1>7 DEF Plug, Unplug, BusInv, NoClearFeature
    <3>2. PICK d \in {[NoDevice EXCEPT !.conn = TRUE, !.cconn = TRUE],
                      [NoDevice EXCEPT !.cconn = TRUE]} : port' = [port EXCEPT ![p] = d]
      BY <1>7, Zenon DEF Plug, Unplug
    <3>3. d.addr = 0
      BY <3>2 DEF NoDevice
    <3>4. QED
      BY <1>a, <3>1, <3>2, <3>3
  <2>2. HandleAddresses'
    BY <2>1 DEF BusInv, HandleAddresses, Up
  <2>3. DeviceAddresses'
    BY <2>1 DEF BusInv, DeviceAddresses, Seen
  <2>4. QED
    BY <2>1, <2>2, <2>3 DEF BusInv
<1>8. CASE UNCHANGED vars
  <2>1. /\ UNCHANGED <<handle, port, data>> /\ \A q \in Ports : Seen(q)' => Seen(q)
        /\ NoClearFeature'
    BY <1>8 DEF vars, Seen, BusInv, NoClearFeature
  <2>2. QED
    BY <2>1, BusKept
<1>9. QED
  BY <1>1, <1>2, <1>3, <1>4, <1>5, <1>6, <1>7, <1>8 DEF Next, RootStep, Interrupt

\* The program starts with no device on the bus.
LEMMA InitBus == Init => BusInv
<1> SUFFICES ASSUME Init PROVE BusInv
  OBVIOUS
<1>1. /\ \A h \in Handles : handle[h] = NoHandle
      /\ \A p \in Ports : port[p].addr = 0 /\ p \in Handles
      /\ Root \in Handles
  BY DEF Init, NoDevice, Handles
<1>2. NoHandle.phase = "none" /\ NoHandle.addr = 0
  BY DEF NoHandle
<1>3. NoClearFeature
  BY DEF Init, NoClearFeature
<1>4. HandleAddresses
  BY <1>1, <1>2 DEF HandleAddresses, Up, Addressed
<1>5. DeviceAddresses
  BY <1>1 DEF DeviceAddresses
<1>6. QED
  BY <1>3, <1>4, <1>5 DEF BusInv

\* Devices may come and go at any time, be slow, refused or plugged with the hub, and the
\* hub may not answer: as long as no interrupt endpoint halts, a device listens to the
\* address that its handle knows or to none.
THEOREM BusInvariant == ASSUME NoStall PROVE Spec => []BusInv
<1>1. Init => TypeOK /\ BusInv
  BY InitType, InitBus
<1>2. TypeOK /\ BusInv /\ [Next]_vars => (TypeOK /\ BusInv)'
  BY TypeStep, BusStep
<1>3. QED
  BY <1>1, <1>2, PTL DEF Spec

\* So no two devices on the bus, the hub among them, listen to one address.
THEOREM BusAddressesNeverEqual ==
  ASSUME NoStall, OneMsc PROVE Spec => []BusAddressesDiffer
<1>1. AddressesExclusive /\ BusInv => BusAddressesDiffer
  <2> SUFFICES ASSUME AddressesExclusive, BusInv PROVE BusAddressesDiffer
    OBVIOUS
  <2>1. /\ Root \in Handles /\ \A p \in Ports : p \in Handles /\ p # Root
    BY DEF Handles, Ports, Root
  <2>2. \A p \in Ports : port[p].addr \in {0, handle[p].addr}
    BY DEF BusInv, DeviceAddresses
  <2>3. \A p, q \in Ports : p # q /\ port[p].addr = port[q].addr => port[p].addr = 0
    BY <2>1, <2>2 DEF AddressesExclusive
  <2>4. \A p \in Ports : Up => port[p].addr # handle[Root].addr
    BY <2>1, <2>2 DEF AddressesExclusive, BusInv, HandleAddresses
  <2>5. QED
    BY <2>3, <2>4 DEF BusAddressesDiffer
<1>2. QED
  BY <1>1, AddressesNeverShared, BusInvariant, PTL

\* And a handle whose class runs is given up only when the device that it stands for has
\* left its port.
THEOREM RemovedOnlyWhenGone == ASSUME NoStall PROVE Spec => RemovedIsGone
<1>1. TypeOK /\ BusInv /\ [Next]_vars =>
        [ \A p \in Ports :
            Up /\ handle[p].phase = "class" /\ handle'[p].phase = "none"
              => port[p].addr # handle[p].addr ]_vars
  <2> SUFFICES ASSUME TypeOK, BusInv, [Next]_vars,
                      NEW p \in Ports, Up, handle[p].phase = "class",
                      handle'[p].phase = "none"
               PROVE  port[p].addr # handle[p].addr
    OBVIOUS
  <2>0. /\ p \in Handles /\ p # Root /\ handle \in [Handles -> Handle]
    BY DEF Handles, Ports, Root, TypeOK
  <2> USE DEF pool, poll, stall, loop
  <2>1. handle[p].addr # 0
    BY DEF BusInv, HandleAddresses, Addressed
  <2>2. CASE RootAttach
    <3>1. PICK r : handle' = [handle EXCEPT ![Root] = r]
      BY <2>2, Zenon DEF RootAttach
    <3>2. QED
      BY <2>0, <3>1
  <2>3. CASE Disconnect
    BY <2>0, <2>3 DEF Disconnect
  <2>4. CASE Teardown
    BY <2>4 DEF Teardown, Up
  <2>5. CASE \/ TeardownFault \/ ScanPortWait \/ ClrFeature \/ StartEnumPort
             \/ EndEnumPort \/ SOFProcess \/ UrbAnswer \/ Halt \/ UNCHANGED vars
    BY <2>5 DEF TeardownFault, ScanPortWait, ClrFeature, StartEnumPort, EndEnumPort,
                SOFProcess, UrbAnswer, Halt, vars
  <2>6. ASSUME NEW q \in Ports, LoopStep(q) PROVE port[p].addr # handle[p].addr
    <3>1. CASE RemoveChild(q)
      <4>1. q = p
        BY <2>0, <3>1 DEF RemoveChild
      <4>2. Seen(p) /\ ~data.conn
        BY <3>1, <4>1 DEF RemoveChild, Turn, Seen
      <4>3. QED
        BY <2>1, <4>2 DEF BusInv, DeviceAddresses
    <3>2. CASE NewChild(q)
      <4>1. PICK C : handle' = [handle EXCEPT ![q] = [NoHandle EXCEPT !.phase = "idle", !.ctl = C]]
        BY <3>2 DEF NewChild
      <4>2. q # p
        BY <3>2 DEF NewChild, Children
      <4>3. QED
        BY <2>0, <4>1, <4>2
    <3>3. CASE EnumFails(q)
      BY <2>0, <3>3 DEF EnumFails
    <3>4. QED
      BY <2>6, <3>1, <3>2, <3>3
      DEF LoopStep, GetPortStatus, GetPortStatusFails, ClearPort, ResetPort, KeepChild,
          NewChildFault, StoreChild
  <2>7. ASSUME NEW q \in Ports, ChildProcess(q) PROVE port[p].addr # handle[p].addr
    <3>1. CASE TakeAddress(q)
      <4>1. PICK a : handle' = [handle EXCEPT ![q].phase = "setaddr", ![q].addr = a]
        BY <3>1 DEF TakeAddress
      <4>2. QED
        BY <2>0, <4>1 DEF Handle
    <3>2. CASE InitClass(q)
      <4>1. PICK T : handle' = [handle EXCEPT ![q].phase = "request", ![q].bulk = T]
        BY <3>2 DEF InitClass
      <4>2. QED
        BY <2>0, <4>1 DEF Handle
    <3>3. CASE InitClassFault(q) \/ AoaRequests(q)
      BY <3>3 DEF InitClassFault, AoaRequests
    <3>4. CASE SetAddress(q) \/ AoaStart(q) \/ AoaSet(q) \/ NoClass(q) \/ StartClass(q)
      <4>1. PICK s \in Phases \ {"none"} : handle' = [handle EXCEPT ![q].phase = s]
        BY <3>4 DEF SetAddress, AoaStart, AoaSet, NoClass, StartClass, Phases
      <4>2. QED
        BY <2>0, <4>1 DEF Handle
    <3>5. QED
      BY <2>7, <3>1, <3>2, <3>3, <3>4 DEF ChildProcess
  <2>8. ASSUME NEW q \in Ports, Plug(q) \/ Unplug(q) PROVE port[p].addr # handle[p].addr
    BY <2>8 DEF Plug, Unplug
  <2>9. QED
    BY <2>2, <2>3, <2>4, <2>5, <2>6, <2>7, <2>8 DEF Next, RootStep, Interrupt
<1>2. QED
  BY <1>1, TypeCorrect, BusInvariant, PTL DEF Spec, RemovedIsGone
=====
