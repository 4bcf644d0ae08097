--------------------------- MODULE UsbHubCalm_proofs ---------------------------
(***************************************************************************)
(* TLAPS proofs about UsbHub with users who wait for the hub, for any      *)
(* number of ports and enough pipes and addresses: the thread never calls  *)
(* through a null class nor runs out of pipes, one device at a time is at  *)
(* the default address, and nothing that was taken is lost.  The inductive *)
(* invariant is CalmInv, beside those of UsbHub_proofs.                    *)
(***************************************************************************)
EXTENDS UsbHub_proofs, FiniteSetTheorems

\* The users wait: a device is plugged into an empty port that is at rest, and leaves when
\* its class runs.  Every request is answered in time, no device is refused or a phone,
\* and there are pipes and addresses for a device on every port: four pipes each, and
\* three of the hub.
Calm ==
  /\ Haste = {} /\ Aoa = {} /\ Refused = {}
  /\ NumPipes >= 4 * NumPorts + 3 /\ NumAddresses >= NumPorts + 1

-----------------------------------------------------------------------------
(* The inductive invariant *)

\* A port is enabled with a device only, and has an address or ends a reset enabled.
PortShape ==
  \A p \in Ports :
    /\ port[p].enab => port[p].conn
    /\ port[p].creset => port[p].enab
    /\ port[p].addr # 0 => port[p].enab

\* The hub stays; before it comes nothing is there, and it gets pipe 0 (which the classes
\* of its children count as no pipe).
RootShape ==
  /\ handle[Root].phase \in {"none", "class"}
  /\ Up => 0 \in handle[Root].ctl
  /\ ~Up =>
       /\ \A h \in Handles : handle[h] = NoHandle
       /\ \A p \in Ports : port[p] = NoDevice
       /\ pipes = {} /\ addrs = {} /\ pc = "get"

\* The port that the loop over the ports looks at.
At(p) == p \in todo /\ \A q \in todo : p <= q

\* A child is between "idle" and "class" only inside the loop that enumerates it, or for
\* ever in the one of AOA.
Starting == {"idle", "setaddr", "addr", "request"}
Enumerating ==
  /\ pc \in {"get", "ports", "clear", "act", "child", "aoa"}
  /\ \A p \in Ports :
       /\ handle[p].phase \in Starting \union {"none", "aoa", "class"}
       /\ handle[p].phase \in Starting => pc = "child" /\ At(p)
       /\ handle[p].phase = "aoa" => pc = "aoa"
       /\ pc = "child" /\ At(p) => handle[p].phase # "none"

\* A handle stands for the device that is on its port, if one is, and an address belongs
\* to a handle.
Matched ==
  \A p \in Ports :
    /\ handle[p].phase = "none" => port[p].addr = 0
    /\ handle[p].phase \in {"idle", "setaddr"} =>
         port[p].conn /\ port[p].enab /\ port[p].addr = 0
    /\ handle[p].phase \in {"addr", "request"} =>
         port[p].conn /\ port[p].enab /\ port[p].addr = handle[p].addr
    /\ handle[p].phase \in {"aoa", "class"} /\ port[p].conn =>
         port[p].enab /\ port[p].addr = handle[p].addr

\* What the thread has read of the port is still true of it, up to a new device on a port
\* without a handle.
StatusRead ==
  \A p \in Ports :
    pc \in {"clear", "act"} /\ At(p) =>
      IF data.conn THEN port[p].conn /\ data.enab = port[p].enab
      ELSE handle[p].phase = "none" \/ ~port[p].conn

\* The device that listens to the default address is the one the loop is busy with.
DefaultAddress ==
  \A p \in Ports :
    port[p].enab /\ port[p].addr = 0 =>
      /\ At(p) /\ pc \in {"ports", "clear", "act", "child"}
      /\ pc \in {"clear", "act"} => data.conn /\ data.enab

\* Every child has two control pipes, and two of its class.
TwoAndTwo ==
  \A p \in Ports :
    /\ p \in Children => Cardinality(handle[p].ctl) = 2
    /\ p \in WithClass => Cardinality(handle[p].bulk) = 2

\* Every pipe and every address that is taken belongs to a handle.
Owned ==
  /\ pipes = UNION {Used(h) : h \in Handles}
  /\ addrs = {handle[h].addr : h \in Handles} \ {0}

\* How many are taken.
WithAddress == {p \in Ports : handle[p].addr # 0}
Counted ==
  Up =>
    /\ Cardinality(pipes) = 3 + 2 * Cardinality(Children) + 2 * Cardinality(WithClass)
    /\ Cardinality(addrs) = 1 + Cardinality(WithAddress)

Flow == PortShape /\ RootShape /\ Enumerating /\ Matched /\ StatusRead /\ DefaultAddress
Pools == TwoAndTwo /\ Owned /\ Counted
CalmInv == Flow /\ Pools

-----------------------------------------------------------------------------
(* Which steps there are *)

\* The loop looks at one port.
LEMMA OneAt == ASSUME NEW p \in Ports, NEW q \in Ports, At(p), At(q) PROVE p = q
BY DEF At, Ports

\* The ports, the pipes and the addresses are finite sets.
LEMMA Finite ==
  /\ NumPorts \in Nat /\ NumPipes \in Nat /\ NumAddresses \in Nat
  /\ IsFiniteSet(Ports) /\ Cardinality(Ports) = NumPorts
  /\ IsFiniteSet(PipeNos) /\ Cardinality(PipeNos) = NumPipes
  /\ IsFiniteSet(Addresses) /\ Cardinality(Addresses) = NumAddresses
<1>1. NumPorts \in Nat /\ NumPipes \in Nat /\ NumAddresses \in Nat
  BY UsbHubAssumption
<1>2. IsFiniteSet(1 .. NumPorts) /\ Cardinality(1 .. NumPorts) = NumPorts
  BY <1>1, FS_Interval
<1>3. IsFiniteSet(0 .. NumPipes - 1) /\ Cardinality(0 .. NumPipes - 1) = NumPipes
  BY <1>1, FS_Interval
<1>4. IsFiniteSet(1 .. NumAddresses) /\ Cardinality(1 .. NumAddresses) = NumAddresses
  BY <1>1, FS_Interval
<1>5. QED
  BY <1>1, <1>2, <1>3, <1>4 DEF Ports, PipeNos, Addresses

\* The sizes of a set and of one that is disjoint from it, or a part of it.
LEMMA Sizes ==
  ASSUME NEW S, NEW T, IsFiniteSet(S), IsFiniteSet(T)
  PROVE  /\ IsFiniteSet(S \union T) /\ IsFiniteSet(S \ T)
         /\ Cardinality(S) \in Nat /\ Cardinality(T) \in Nat
         /\ S \intersect T = {} => Cardinality(S \union T) = Cardinality(S) + Cardinality(T)
         /\ T \subseteq S => /\ Cardinality(S \ T) = Cardinality(S) - Cardinality(T)
                             /\ Cardinality(T) <= Cardinality(S)
<1>1. Cardinality(S) \in Nat /\ Cardinality(T) \in Nat
  BY FS_CardinalityType
<1>2. /\ IsFiniteSet(S \union T)
      /\ Cardinality(S \union T) =
           Cardinality(S) + Cardinality(T) - Cardinality(S \intersect T)
  BY FS_Union
<1>3. /\ IsFiniteSet(S \ T)
      /\ Cardinality(S \ T) = Cardinality(S) - Cardinality(S \intersect T)
  BY FS_Difference
<1>4. ASSUME S \intersect T = {}
      PROVE  Cardinality(S \union T) = Cardinality(S) + Cardinality(T)
  <2>1. Cardinality(S \intersect T) = 0
    BY <1>4, FS_EmptySet
  <2>2. QED
    BY <1>1, <1>2, <2>1
<1>5. ASSUME T \subseteq S
      PROVE  /\ Cardinality(S \ T) = Cardinality(S) - Cardinality(T)
             /\ Cardinality(T) <= Cardinality(S)
  <2>1. S \intersect T = T
    BY <1>5
  <2>2. QED
    BY <1>3, <1>5, <2>1, FS_Subset
<1>6. QED
  BY <1>1, <1>2, <1>3, <1>4, <1>5

\* While a port is without a child, or its child without a class or an address, there are
\* pipes for it, and an address.
LEMMA Enough ==
  ASSUME Calm, TypeOK, Up, Counted, NEW p \in Ports
  PROVE  /\ p \notin WithClass => ~OutOfPipes(2)
         /\ p \notin WithAddress => addrs # Addresses
<1>1. /\ NumPipes \in Nat /\ NumPorts \in Nat /\ NumAddresses \in Nat
      /\ NumPipes >= 4 * NumPorts + 3 /\ NumAddresses >= NumPorts + 1
  BY Finite DEF Calm
<1>2. /\ IsFiniteSet(Children) /\ Cardinality(Children) \in Nat
      /\ Cardinality(Children) <= NumPorts
  <2>1. Children \in SUBSET Ports
    BY DEF Children
  <2>2. QED
    BY <2>1, Finite, FS_Subset, FS_CardinalityType
<1>3. ASSUME NEW S \in SUBSET Ports, p \notin S
      PROVE  Cardinality(S) \in Nat /\ Cardinality(S) <= NumPorts - 1
  <2>1. IsFiniteSet(Ports \ {p}) /\ Cardinality(Ports \ {p}) = NumPorts - 1
    BY Finite, FS_RemoveElement
  <2>2. S \in SUBSET (Ports \ {p})
    BY <1>3
  <2>3. QED
    BY <2>1, <2>2, FS_Subset, FS_CardinalityType
<1>4. ASSUME p \notin WithClass PROVE ~OutOfPipes(2)
  <2>1. /\ Cardinality(WithClass) \in Nat /\ Cardinality(WithClass) <= NumPorts - 1
    BY <1>3, <1>4 DEF WithClass
  <2>2. Cardinality(pipes) = 3 + 2 * Cardinality(Children) + 2 * Cardinality(WithClass)
    BY DEF Counted
  <2>3. pipes \subseteq PipeNos /\ IsFiniteSet(pipes)
    BY Finite, FS_Subset DEF TypeOK
  <2>4. Cardinality(PipeNos \ pipes) = NumPipes - Cardinality(pipes)
    BY <2>3, Finite, Sizes
  <2>5. Cardinality(PipeNos \ pipes) >= 2
    BY <1>1, <1>2, <2>1, <2>2, <2>4
  <2>6. Cardinality(PipeNos \ pipes) \in Nat
    BY <1>1, <1>2, <2>1, <2>2, <2>4, <2>5
  <2>7. QED
    BY <2>5, <2>6 DEF OutOfPipes
<1>5. ASSUME p \notin WithAddress PROVE addrs # Addresses
  <2>1. /\ Cardinality(WithAddress) \in Nat /\ Cardinality(WithAddress) <= NumPorts - 1
    BY <1>3, <1>5 DEF WithAddress
  <2>2. Cardinality(addrs) = 1 + Cardinality(WithAddress)
    BY DEF Counted
  <2>3. QED
    BY <1>1, <2>1, <2>2, Finite
<1>6. QED
  BY <1>4, <1>5

\* The steps of the loop that happen when the users wait.
CalmLoopStep(p) ==
  \/ GetPortStatus(p) \/ ClearPort(p) \/ ResetPort(p) \/ KeepChild(p) \/ RemoveChild(p)
  \/ NewChild(p)
  \/ StoreChild(p) /\ handle[p].phase = "class"
CalmChildStep(p) ==
  TakeAddress(p) \/ SetAddress(p) \/ InitClass(p) \/ AoaStart(p) \/ StartClass(p)
CalmRootStep ==
  RootAttach \/ ScanPortWait \/ StartEnumPort \/ EndEnumPort \/ SOFProcess \/ UrbAnswer

\* The thread is at a port only while the hub is there.
LEMMA AtIsUp == ASSUME RootShape, pc # "get" PROVE Up
BY DEF RootShape

\* No request fails, the enumeration of a child neither, and the loop that enumerates it
\* ends with its class.
LEMMA CalmLoop ==
  ASSUME Calm, TypeOK, BusInv, CalmInv, NEW p \in Ports, LoopStep(p) PROVE CalmLoopStep(p)
<1> USE DEF Turn
<1>0. pc # "get"
  BY DEF LoopStep, GetPortStatus, GetPortStatusFails, ClearPort, ResetPort, KeepChild,
         RemoveChild, NewChild, NewChildFault, StoreChild, EnumFails
<1>1. Up
  BY <1>0, AtIsUp DEF CalmInv, Flow
<1>2. Haste = {}
  BY DEF Calm
<1>3. ~GetPortStatusFails(p)
  BY <1>1, <1>2 DEF GetPortStatusFails
<1>4. ~NewChildFault(p)
  <2>1. SUFFICES ASSUME NewChildFault(p) PROVE FALSE
    OBVIOUS
  <2>2. p \notin WithClass
    BY <2>1 DEF NewChildFault, Children, WithClass
  <2>3. QED
    BY <1>1, <2>1, <2>2, Enough DEF NewChildFault, CalmInv, Pools
<1>5. ~EnumFails(p)
  <2>1. SUFFICES ASSUME EnumFails(p) PROVE FALSE
    OBVIOUS
  <2>2. handle[p].phase = "idle" /\ (Silent(p) \/ addrs = Addresses)
    BY <2>1 DEF EnumFails
  <2>3. p \notin WithAddress
    BY <2>2 DEF BusInv, HandleAddresses, Addressed, WithAddress
  <2>4. addrs # Addresses
    BY <1>1, <2>3, Enough DEF CalmInv, Pools
  <2>5. Answers(p, 0)
    BY <2>2 DEF CalmInv, Flow, Matched, Answers
  <2>6. QED
    BY <1>1, <1>2, <2>2, <2>4, <2>5 DEF Silent
<1>6. StoreChild(p) => handle[p].phase = "class"
  <2>1. SUFFICES ASSUME StoreChild(p), handle[p].phase # "class" PROVE FALSE
    OBVIOUS
  <2>2. pc = "child" /\ At(p)
    BY <2>1 DEF StoreChild, At
  <2>3. handle[p].phase \in Starting
    BY <2>1, <2>2 DEF CalmInv, Flow, Enumerating
  <2>4. Answers(p, IF handle[p].phase \in {"idle", "setaddr"} THEN 0 ELSE handle[p].addr)
    BY <2>3 DEF CalmInv, Flow, Matched, Answers, Starting
  <2>5. ~Silent(p)
    BY <1>1, <1>2, <2>4 DEF Silent
  <2>6. Unfinished(p)
    BY <2>3 DEF Unfinished, Starting
  <2>7. QED
    BY <2>1, <2>5, <2>6 DEF StoreChild
<1>7. QED
  BY <1>3, <1>4, <1>5, <1>6 DEF LoopStep, CalmLoopStep

LEMMA CalmChild ==
  ASSUME Calm, TypeOK, BusInv, CalmInv, NEW p \in Ports, ChildProcess(p)
  PROVE  CalmChildStep(p)
<1>1. ~AoaRequests(p) /\ ~AoaSet(p) /\ ~NoClass(p)
  BY DEF Calm, AoaRequests, AoaSet, NoClass
<1>2. ~InitClassFault(p)
  <2>1. SUFFICES ASSUME InitClassFault(p) PROVE FALSE
    OBVIOUS
  <2>2. Up /\ OutOfPipes(2) /\ handle[p].phase = "addr"
    BY <2>1 DEF InitClassFault, Runs
  <2>3. p \notin WithClass
    BY <2>2 DEF WithClass
  <2>4. QED
    BY <2>2, <2>3, Enough DEF CalmInv, Pools
<1>3. QED
  BY <1>1, <1>2 DEF ChildProcess, CalmChildStep

LEMMA CalmRoot ==
  ASSUME Calm, TypeOK, BusInv, CalmInv, RootStep \/ Interrupt PROVE CalmRootStep
<1>1. handle[Root].phase # "gone"
  BY DEF CalmInv, Flow, RootShape
<1>2. ~Teardown /\ ~TeardownFault
  BY <1>1 DEF Teardown, TeardownFault
<1>3. ~Disconnect /\ ~Halt
  BY DEF Calm, Disconnect, Halt
<1>4. ~ClrFeature
  BY DEF BusInv, NoClearFeature, ClrFeature
<1>5. QED
  BY <1>2, <1>3, <1>4 DEF RootStep, Interrupt, CalmRootStep

-----------------------------------------------------------------------------
(* The flow of the loop *)

\* A step at the port p, whose handle and port alone it may change: what is left to say
\* of p, and that the loop was at p before.
LEMMA FlowAt ==
  ASSUME TypeOK, BusInv, Flow, NEW p \in Ports, At(p), pc # "get", pc # "aoa",
         pc' \in {"ports", "clear", "act", "child", "aoa"},
         \A q \in Ports : q # p => handle'[q] = handle[q] /\ port'[q] = port[q],
         handle'[Root] = handle[Root],
         todo' = todo \/ (todo' = todo \ {p} /\ pc' = "ports"),
         handle'[p].phase \in Starting \union {"none", "aoa", "class"},
         handle'[p].phase \in Starting => pc' = "child",
         handle'[p].phase = "aoa" => pc' = "aoa",
         pc' = "child" => handle'[p].phase # "none" /\ todo' = todo,
         port'[p].enab => port'[p].conn,
         port'[p].creset => port'[p].enab,
         port'[p].addr # 0 => port'[p].enab,
         handle'[p].phase = "none" => port'[p].addr = 0,
         handle'[p].phase \in {"idle", "setaddr"} =>
           port'[p].conn /\ port'[p].enab /\ port'[p].addr = 0,
         handle'[p].phase \in {"addr", "request"} =>
           port'[p].conn /\ port'[p].enab /\ port'[p].addr = handle'[p].addr,
         handle'[p].phase \in {"aoa", "class"} /\ port'[p].conn =>
           port'[p].enab /\ port'[p].addr = handle'[p].addr,
         pc' \in {"clear", "act"} =>
           IF data'.conn THEN port'[p].conn /\ data'.enab = port'[p].enab
           ELSE handle'[p].phase = "none" \/ ~port'[p].conn,
         port'[p].enab /\ port'[p].addr = 0 =>
           /\ todo' = todo /\ pc' # "aoa"
           /\ pc' \in {"clear", "act"} => data'.conn /\ data'.enab
  PROVE  Flow'
<1>1. \A q \in Ports : At(q) => q = p
  BY OneAt
<1>2. Up /\ Up' /\ RootShape'
  BY AtIsUp DEF Flow, RootShape, Up
<1>3. PortShape'
  BY DEF Flow, PortShape
<1>4. Matched'
  BY DEF Flow, Matched
<1>5. \A q \in Ports : todo' = todo => (At(q)' <=> At(q))
  BY DEF At
<1>6. \A q \in Ports : q # p => handle[q].phase \in {"none", "class"}
  BY <1>1 DEF Flow, Enumerating, Starting
<1>7. Enumerating'
  <2>1. ASSUME NEW q \in Ports
        PROVE  /\ handle'[q].phase \in Starting \union {"none", "aoa", "class"}
               /\ handle'[q].phase \in Starting => pc' = "child" /\ At(q)'
               /\ handle'[q].phase = "aoa" => pc' = "aoa"
               /\ pc' = "child" /\ At(q)' => handle'[q].phase # "none"
    <3>1. CASE q = p
      BY <1>5, <3>1
    <3>2. CASE q # p
      BY <1>1, <1>5, <1>6, <3>2 DEF Starting
    <3>3. QED
      BY <3>1, <3>2
  <2>2. QED
    BY <2>1 DEF Enumerating
<1>8. StatusRead'
  BY <1>1, <1>5 DEF StatusRead
<1>9. DefaultAddress'
  <2>1. ASSUME NEW q \in Ports, port'[q].enab, port'[q].addr = 0
        PROVE  /\ At(q)' /\ pc' \in {"ports", "clear", "act", "child"}
               /\ pc' \in {"clear", "act"} => data'.conn /\ data'.enab
    <3>1. q = p
      BY <1>1, <2>1 DEF Flow, DefaultAddress
    <3>2. QED
      BY <1>5, <2>1, <3>1
  <2>2. QED
    BY <2>1 DEF DefaultAddress
<1>10. QED
  BY <1>2, <1>3, <1>4, <1>7, <1>8, <1>9 DEF Flow

\* What the step knows of the port and the child it is at.
LEMMA FlowFacts ==
  ASSUME TypeOK, BusInv, Flow, NEW p \in Ports, At(p), pc # "get", pc # "aoa"
  PROVE  /\ p \in Handles /\ Root \in Handles /\ p # Root
         /\ handle \in [Handles -> Handle] /\ port \in [Ports -> Port]
         /\ \A q \in Ports : q \in Handles
         /\ pc # "child" => handle[p].phase \in {"none", "class"}
         /\ handle[p].phase \notin {"none", "idle"} => handle[p].addr # 0
<1>1. /\ p \in Handles /\ Root \in Handles /\ p # Root
      /\ \A q \in Ports : q \in Handles
  BY DEF Handles, Ports, Root
<1>2. pc # "child" => handle[p].phase \in {"none", "class"}
  BY DEF Flow, Enumerating, Starting
<1>3. handle[p].phase \notin {"none", "idle"} => handle[p].addr # 0
  BY DEF BusInv, HandleAddresses, Addressed
<1>4. QED
  BY <1>1, <1>2, <1>3 DEF TypeOK

\* The steps of the loop over the ports.
LEMMA LoopFlow ==
  ASSUME TypeOK, BusInv, Flow, NEW p \in Ports, CalmLoopStep(p) PROVE Flow'
<1> USE DEF pool, poll, stall, loop, NextPort
<1>0. At(p) /\ pc # "get" /\ pc # "aoa"
  BY DEF CalmLoopStep, GetPortStatus, ClearPort, ResetPort, KeepChild, RemoveChild,
         NewChild, StoreChild, Turn, At
<1>a. /\ p \in Handles /\ Root \in Handles /\ p # Root
      /\ handle \in [Handles -> Handle] /\ port \in [Ports -> Port]
      /\ \A q \in Ports : q \in Handles
      /\ pc # "child" => handle[p].phase \in {"none", "class"}
      /\ handle[p].phase \notin {"none", "idle"} => handle[p].addr # 0
  BY <1>0, FlowFacts
<1>b. /\ port[p].enab => port[p].conn
      /\ port[p].creset => port[p].enab
      /\ port[p].addr # 0 => port[p].enab
      /\ handle[p].phase = "none" => port[p].addr = 0
      /\ handle[p].phase = "class" /\ port[p].conn =>
           port[p].enab /\ port[p].addr = handle[p].addr
      /\ pc \in {"clear", "act"} =>
           IF data.conn THEN port[p].conn /\ data.enab = port[p].enab
           ELSE handle[p].phase = "none" \/ ~port[p].conn
      /\ port[p].enab /\ port[p].addr = 0 /\ pc \in {"clear", "act"} =>
           data.conn /\ data.enab
  BY <1>0 DEF Flow, PortShape, Matched, StatusRead, DefaultAddress
<1>1. CASE GetPortStatus(p)
  <2>1. /\ pc = "ports" /\ pc' = "clear" /\ data' = port[p]
        /\ UNCHANGED <<handle, port, todo>>
    BY <1>1 DEF GetPortStatus, Turn, BusInv, NoClearFeature
  <2>2. QED
    BY <1>0, <1>a, <1>b, <2>1, FlowAt DEF Starting
<1>2. CASE ClearPort(p)
  <2>1. /\ pc = "clear" /\ pc' = "act" /\ UNCHANGED <<handle, data, todo>>
        /\ \A q \in Ports : q # p => port'[q] = port[q]
        /\ port'[p] \in {port[p], Cleared(port[p])}
    BY <1>2, <1>a DEF ClearPort, Turn
  <2>2. port[p] \in Port
    BY <1>a
  <2>3. /\ Cleared(port[p]).conn = port[p].conn /\ Cleared(port[p]).enab = port[p].enab
        /\ Cleared(port[p]).addr = port[p].addr
        /\ Cleared(port[p]).creset => port[p].creset
    BY <2>2 DEF Cleared, Port
  <2>4. /\ port'[p].conn = port[p].conn /\ port'[p].enab = port[p].enab
        /\ port'[p].addr = port[p].addr
        /\ port'[p].creset => port[p].creset
    BY <2>1, <2>3
  <2>5. QED
    BY <1>0, <1>a, <1>b, <2>1, <2>4, FlowAt DEF Starting
<1>3. CASE ResetPort(p)
  <2>1. /\ pc = "act" /\ pc' = "ports" /\ UNCHANGED <<handle, data, todo>>
        /\ data.conn /\ ~data.enab
        /\ \A q \in Ports : q # p => port'[q] = port[q]
        /\ port'[p] \in {port[p], WasReset(port[p])}
    BY <1>3, <1>a DEF ResetPort, Turn, Flow, Enumerating
  <2>2. port[p].conn /\ ~port[p].enab
    BY <1>b, <2>1
  <2>3. handle[p].phase = "none"
    BY <1>a, <1>b, <2>1, <2>2
  <2>4. /\ port'[p].conn /\ port'[p].addr = 0
        /\ (port'[p].creset => port'[p].enab)
    BY <1>a, <1>b, <2>1, <2>2, <2>3 DEF WasReset, Port
  <2>5. QED
    BY <1>0, <1>a, <1>b, <2>1, <2>3, <2>4, FlowAt DEF Starting
<1>4. CASE KeepChild(p)
  <2>1. /\ pc = "act" /\ pc' = "ports" /\ todo' = todo \ {p}
        /\ UNCHANGED <<handle, port, data>> /\ data.conn /\ data.enab
        /\ handle[p].phase # "none"
    BY <1>4 DEF KeepChild, Turn, Children
  <2>2. handle[p].phase = "class" /\ port[p].conn /\ port[p].addr # 0
    BY <1>a, <1>b, <2>1
  <2>3. QED
    BY <1>0, <1>a, <1>b, <2>1, <2>2, FlowAt DEF Starting
<1>5. CASE RemoveChild(p)
  <2>1. /\ pc = "act" /\ pc' = "ports" /\ todo' = todo \ {p}
        /\ UNCHANGED <<port, data>> /\ ~data.conn
        /\ handle' = [handle EXCEPT ![p] = NoHandle]
    BY <1>5 DEF RemoveChild, Turn
  <2>2. /\ handle'[p].phase = "none" /\ handle'[Root] = handle[Root]
        /\ \A q \in Ports : q # p => handle'[q] = handle[q]
    BY <1>a, <2>1 DEF NoHandle
  <2>3. port[p].addr = 0 /\ ~port[p].enab
    BY <1>a, <1>b, <2>1
  <2>4. QED
    BY <1>0, <1>a, <1>b, <2>1, <2>2, <2>3, FlowAt DEF Starting
<1>6. CASE NewChild(p)
  <2>1. PICK C \in SUBSET PipeNos :
          handle' = [handle EXCEPT ![p] = [NoHandle EXCEPT !.phase = "idle", !.ctl = C]]
    BY <1>6 DEF NewChild
  <2>2. /\ pc = "act" /\ pc' = "child"
        /\ UNCHANGED <<port, data, todo>> /\ data.conn /\ data.enab
        /\ handle[p].phase = "none"
    BY <1>6 DEF NewChild, Turn, Children
  <2>3. /\ handle'[p].phase = "idle" /\ handle'[Root] = handle[Root]
        /\ \A q \in Ports : q # p => handle'[q] = handle[q]
    BY <1>a, <2>1 DEF NoHandle
  <2>4. port[p].conn /\ port[p].enab /\ port[p].addr = 0
    BY <1>b, <2>2
  <2>5. QED
    BY <1>0, <1>a, <1>b, <2>2, <2>3, <2>4, FlowAt DEF Starting
<1>7. CASE StoreChild(p) /\ handle[p].phase = "class"
  <2>1. /\ pc = "child" /\ pc' = "ports" /\ todo' = todo \ {p}
        /\ UNCHANGED <<handle, port, data>>
    BY <1>7 DEF StoreChild, Turn
  <2>2. ~port[p].enab \/ port[p].addr # 0
    BY <1>7, <1>a, <1>b
  <2>3. QED
    BY <1>0, <1>7, <1>a, <1>b, <2>1, <2>2, FlowAt DEF Starting
<1>8. QED
  BY <1>1, <1>2, <1>3, <1>4, <1>5, <1>6, <1>7 DEF CalmLoopStep

\* The steps of a child's enumeration.
LEMMA ChildFlow ==
  ASSUME TypeOK, BusInv, Flow, NEW p \in Ports, CalmChildStep(p) PROVE Flow'
<1> USE DEF pool, poll, stall, loop
<1>0. At(p) /\ pc = "child" /\ UNCHANGED <<todo, data>>
  <2>1. handle[p].phase \in Starting
    BY DEF CalmChildStep, TakeAddress, SetAddress, InitClass, AoaStart, StartClass, Starting
  <2>2. QED
    BY <2>1 DEF Flow, Enumerating, CalmChildStep, TakeAddress, SetAddress, InitClass,
                AoaStart, StartClass
<1>a. /\ p \in Handles /\ Root \in Handles /\ p # Root
      /\ handle \in [Handles -> Handle] /\ port \in [Ports -> Port]
      /\ \A q \in Ports : q \in Handles
      /\ handle[p].phase \notin {"none", "idle"} => handle[p].addr # 0
  BY <1>0, FlowFacts
<1>b. /\ port[p].creset => port[p].enab
      /\ handle[p].phase \in {"idle", "setaddr"} =>
           port[p].conn /\ port[p].enab /\ port[p].addr = 0
      /\ handle[p].phase \in {"addr", "request"} =>
           port[p].conn /\ port[p].enab /\ port[p].addr = handle[p].addr
  BY DEF Flow, PortShape, Matched
<1>1. CASE TakeAddress(p)
  <2>1. PICK a \in Addresses :
          handle' = [handle EXCEPT ![p].phase = "setaddr", ![p].addr = a]
    BY <1>1 DEF TakeAddress
  <2>2. /\ handle'[p].phase = "setaddr" /\ handle'[Root] = handle[Root]
        /\ \A q \in Ports : q # p => handle'[q] = handle[q]
    BY <1>a, <2>1 DEF Handle
  <2>3. UNCHANGED <<port, pc>> /\ handle[p].phase = "idle"
    BY <1>1 DEF TakeAddress
  <2>4. QED
    BY <1>0, <1>a, <1>b, <2>2, <2>3, FlowAt DEF Starting
<1>2. CASE SetAddress(p)
  <2>1. /\ handle' = [handle EXCEPT ![p].phase = "addr"] /\ handle[p].phase = "setaddr"
        /\ port' = [port EXCEPT ![p].addr = handle[p].addr] /\ pc' = pc
    BY <1>2 DEF SetAddress
  <2>2. /\ handle'[p].phase = "addr" /\ handle'[Root] = handle[Root]
        /\ handle'[p].addr = handle[p].addr /\ handle[p].addr # 0
        /\ \A q \in Ports : q # p => handle'[q] = handle[q]
    BY <1>a, <2>1 DEF Handle
  <2>3. /\ port'[p].addr = handle[p].addr /\ port'[p].conn = port[p].conn
        /\ port'[p].enab = port[p].enab /\ port'[p].creset = port[p].creset
        /\ \A q \in Ports : q # p => port'[q] = port[q]
    BY <1>a, <2>1 DEF Port
  <2>4. QED
    BY <1>0, <1>a, <1>b, <2>1, <2>2, <2>3, FlowAt DEF Starting
<1>3. CASE InitClass(p)
  <2>1. PICK T \in SUBSET PipeNos :
          handle' = [handle EXCEPT ![p].phase = "request", ![p].bulk = T]
    BY <1>3 DEF InitClass
  <2>2. /\ handle'[p].phase = "request" /\ handle'[Root] = handle[Root]
        /\ handle'[p].addr = handle[p].addr
        /\ \A q \in Ports : q # p => handle'[q] = handle[q]
    BY <1>a, <2>1 DEF Handle
  <2>3. UNCHANGED <<port, pc>> /\ handle[p].phase = "addr"
    BY <1>3 DEF InitClass
  <2>4. QED
    BY <1>0, <1>a, <1>b, <2>2, <2>3, FlowAt DEF Starting
<1>4. CASE AoaStart(p)
  <2>1. /\ handle' = [handle EXCEPT ![p].phase = "aoa"] /\ handle[p].phase = "addr"
        /\ port' = port /\ pc' = "aoa"
    BY <1>4 DEF AoaStart
  <2>2. /\ handle'[p].phase = "aoa" /\ handle'[Root] = handle[Root]
        /\ handle'[p].addr = handle[p].addr
        /\ \A q \in Ports : q # p => handle'[q] = handle[q]
    BY <1>a, <2>1 DEF Handle
  <2>3. QED
    BY <1>0, <1>a, <1>b, <2>1, <2>2, FlowAt DEF Starting
<1>5. CASE StartClass(p)
  <2>1. /\ handle' = [handle EXCEPT ![p].phase = "class"] /\ handle[p].phase = "request"
        /\ UNCHANGED <<port, pc>>
    BY <1>5 DEF StartClass
  <2>2. /\ handle'[p].phase = "class" /\ handle'[Root] = handle[Root]
        /\ handle'[p].addr = handle[p].addr
        /\ \A q \in Ports : q # p => handle'[q] = handle[q]
    BY <1>a, <2>1 DEF Handle
  <2>3. QED
    BY <1>0, <1>a, <1>b, <2>1, <2>2, FlowAt DEF Starting
<1>6. QED
  BY <1>1, <1>2, <1>3, <1>4, <1>5 DEF CalmChildStep

\* The hub and its poll.
LEMMA RootFlow == ASSUME Calm, TypeOK, BusInv, Flow, CalmRootStep PROVE Flow'
<1> USE DEF pool, poll, stall, loop
<1>0. /\ Root \in Handles /\ \A q \in Ports : q \in Handles /\ q # Root
  BY DEF Handles, Ports, Root
<1>1. CASE RootAttach
  <2>1. PICK C \in SUBSET PipeNos, n \in PipeNos, a \in Addresses :
          /\ Allocates(2, C)
          /\ handle' = [handle EXCEPT ![Root] =
               [phase |-> "class", ctl |-> C, bulk |-> {n}, addr |-> a]]
    BY <1>1, Zenon DEF RootAttach
  <2>2. handle[Root].phase = "none" /\ pc' = pc /\ todo' = todo /\ port' = port
    BY <1>1 DEF RootAttach
  <2>3. /\ \A h \in Handles : handle[h] = NoHandle
        /\ \A p \in Ports : port[p] = NoDevice
        /\ pipes = {} /\ addrs = {} /\ pc = "get"
    BY <2>2 DEF Flow, RootShape, Up
  <2>4. 0 \in C
    <3>1. Cardinality(C) = 2 /\ \A t \in C, q \in PipeNos \ C : t < q
      BY <2>1, <2>3 DEF Allocates
    <3>2. C # {}
      BY <3>1, FS_EmptySet
    <3>3. PICK t \in C : t \in 0 .. NumPipes - 1
      BY <2>1, <3>2 DEF PipeNos
    <3>4. 0 \in PipeNos /\ ~(t < 0)
      BY <3>3, Finite DEF PipeNos
    <3>5. QED
      BY <3>1, <3>4
  <2>5. /\ handle'[Root].phase = "class" /\ handle'[Root].ctl = C
        /\ \A p \in Ports : handle'[p] = NoHandle
    BY <1>0, <2>1, <2>3 DEF TypeOK
  <2>6. /\ \A p \in Ports : port'[p] = NoDevice
        /\ pc' = "get"
    BY <2>2, <2>3
  <2>7. NoHandle.phase = "none" /\ ~NoDevice.enab /\ ~NoDevice.creset /\ NoDevice.addr = 0
        /\ ~NoDevice.conn
    BY DEF NoHandle, NoDevice
  <2>8. RootShape'
    BY <2>4, <2>5 DEF RootShape, Up
  <2>9. PortShape' /\ StatusRead' /\ DefaultAddress'
    BY <2>6, <2>7 DEF PortShape, StatusRead, DefaultAddress
  <2>10. Enumerating' /\ Matched'
    BY <2>5, <2>6, <2>7 DEF Enumerating, Matched, Starting
  <2>11. QED
    BY <2>8, <2>9, <2>10 DEF Flow
<1>2. CASE ScanPortWait \/ SOFProcess \/ UrbAnswer
  <2>1. UNCHANGED <<handle, port, data, pc, todo, pipes, addrs>>
    BY <1>2 DEF ScanPortWait, SOFProcess, UrbAnswer
  <2>2. PortShape' /\ RootShape'
    BY <2>1 DEF Flow, PortShape, RootShape, Up
  <2>3. Enumerating' /\ Matched'
    BY <2>1 DEF Flow, Enumerating, Matched, At
  <2>4. StatusRead' /\ DefaultAddress'
    BY <2>1 DEF Flow, StatusRead, DefaultAddress, At
  <2>5. QED
    BY <2>2, <2>3, <2>4 DEF Flow
<1>3. CASE StartEnumPort \/ EndEnumPort
  <2>1. /\ UNCHANGED <<handle, port>> /\ pc' \in {"get", "ports"} /\ Up
        /\ pc = "get" \/ (pc = "ports" /\ todo = {})
    BY <1>3, AtIsUp DEF StartEnumPort, EnumPort, EndEnumPort, Flow
  <2>2. PortShape' /\ RootShape' /\ Matched'
    BY <2>1 DEF Flow, PortShape, RootShape, Matched, Up
  <2>3. \A p \in Ports : handle[p].phase \in {"none", "class"}
    BY <2>1 DEF Flow, Enumerating, Starting
  <2>4. Enumerating'
    BY <2>1, <2>3 DEF Enumerating, Starting
  <2>5. \A p \in Ports : ~(port[p].enab /\ port[p].addr = 0)
    BY <2>1 DEF Flow, DefaultAddress, At
  <2>6. StatusRead' /\ DefaultAddress'
    BY <2>1, <2>5 DEF StatusRead, DefaultAddress
  <2>7. QED
    BY <2>2, <2>4, <2>6 DEF Flow
<1>4. QED
  BY <1>1, <1>2, <1>3 DEF CalmRootStep

\* The users: a device comes to a port that is at rest, and leaves one that the thread is
\* not at.
LEMMA UserFlow ==
  ASSUME Calm, TypeOK, BusInv, Flow, NEW p \in Ports, Plug(p) \/ Unplug(p) PROVE Flow'
<1> USE DEF pool, poll, stall, loop
<1>0. /\ UNCHANGED <<handle, data, pc, todo, pipes, addrs>> /\ Up
      /\ \A q \in Ports : q # p => port'[q] = port[q]
  BY DEF Plug, Unplug, TypeOK
<1>1. PICK d \in {[NoDevice EXCEPT !.conn = TRUE, !.cconn = TRUE],
                  [NoDevice EXCEPT !.cconn = TRUE]} :
        /\ port' = [port EXCEPT ![p] = d]
        /\ d.conn => handle[p].phase = "none" /\ ~port[p].conn
        /\ ~d.conn => pc = "get" /\ handle[p].phase = "class"
  <2>1. CASE Plug(p)
    <3>1. [NoDevice EXCEPT !.conn = TRUE, !.cconn = TRUE].conn
      BY DEF NoDevice
    <3>2. QED
      BY <2>1, <3>1 DEF Plug, Calm
  <2>2. CASE Unplug(p)
    <3>1. ~[NoDevice EXCEPT !.cconn = TRUE].conn
      BY DEF NoDevice
    <3>2. pc = "get" /\ handle[p].phase \in {"class", "abort"}
      BY <2>2 DEF Unplug, Calm
    <3>3. handle[p].phase = "class"
      BY <3>2 DEF Flow, Enumerating, Starting
    <3>4. port' = [port EXCEPT ![p] = [NoDevice EXCEPT !.cconn = TRUE]]
      BY <2>2 DEF Unplug
    <3>5. QED
      BY <3>1, <3>2, <3>3, <3>4
  <2>3. QED
    BY <2>1, <2>2
<1>2. /\ ~port'[p].enab /\ ~port'[p].creset /\ port'[p].addr = 0
      /\ port'[p].conn => handle[p].phase = "none" /\ ~port[p].conn
      /\ ~port'[p].conn => pc = "get" /\ handle[p].phase = "class"
  <2>1. port'[p] = d
    BY <1>1 DEF TypeOK
  <2>2. ~d.enab /\ ~d.creset /\ d.addr = 0
    BY <1>1 DEF NoDevice
  <2>3. QED
    BY <1>1, <2>1, <2>2
<1>3. PortShape' /\ RootShape'
  BY <1>0, <1>2 DEF Flow, PortShape, RootShape, Up
<1>4. Enumerating'
  BY <1>0 DEF Flow, Enumerating, At
<1>5. Matched'
  BY <1>0, <1>2 DEF Flow, Matched
<1>6. StatusRead'
  BY <1>0, <1>2 DEF Flow, StatusRead, At
<1>7. DefaultAddress'
  BY <1>0, <1>2 DEF Flow, DefaultAddress, At
<1>8. QED
  BY <1>3, <1>4, <1>5, <1>6, <1>7 DEF Flow

-----------------------------------------------------------------------------
(* What is taken belongs to a handle *)

\* A port is added to a set of ports, or removed from it.
LEMMA OneMore ==
  ASSUME NEW S \in SUBSET Ports, NEW p \in Ports
  PROVE  /\ Cardinality(S) \in Nat
         /\ p \notin S => Cardinality(S \union {p}) = Cardinality(S) + 1
         /\ p \in S => Cardinality(S) = Cardinality(S \ {p}) + 1
<1>1. IsFiniteSet(S) /\ Cardinality(S) \in Nat
  BY Finite, FS_Subset, FS_CardinalityType
<1>2. p \notin S => Cardinality(S \union {p}) = Cardinality(S) + 1
  BY <1>1, FS_AddElement
<1>3. ASSUME p \in S PROVE Cardinality(S) = Cardinality(S \ {p}) + 1
  <2>1. Cardinality(S \ {p}) = Cardinality(S) - 1
    BY <1>1, <1>3, FS_RemoveElement
  <2>2. QED
    BY <1>1, <2>1
<1>4. QED
  BY <1>1, <1>2, <1>3

\* A handle h gives back all that it had, and has what it took.
LEMMA OwnedChanges ==
  ASSUME TypeOK, PipesExclusive, AddressesExclusive, Owned, NEW h \in Handles,
         \A g \in Handles : g # h => handle'[g] = handle[g],
         pipes' = (pipes \ Used(h)) \union Used(h)',
         addrs' = (addrs \ {handle[h].addr}) \union ({handle'[h].addr} \ {0})
  PROVE  Owned'
<1>1. \A g \in Handles : g # h => Used(g)' = Used(g) /\ Used(g) \intersect Used(h) = {}
  BY DEF Used, PipesExclusive
<1>2. \A x : x \in pipes <=> \E g \in Handles : x \in Used(g)
  BY DEF Owned
<1>3. \A x : x \in pipes' <=> \E g \in Handles : x \in Used(g)'
  BY <1>1, <1>2
<1>4. pipes' = UNION {Used(g)' : g \in Handles}
  BY <1>3
<1>5. \A x : x \in addrs <=> x # 0 /\ \E g \in Handles : x = handle[g].addr
  BY DEF Owned
<1>6. \A g \in Handles : g # h /\ handle[g].addr = handle[h].addr => handle[h].addr = 0
  BY DEF AddressesExclusive
<1>7. \A x : x \in addrs' <=> x # 0 /\ \E g \in Handles : x = handle'[g].addr
  <2>1. ASSUME NEW x, x \in addrs' PROVE x # 0 /\ \E g \in Handles : x = handle'[g].addr
    BY <1>5, <2>1
  <2>2. ASSUME NEW x, x # 0, NEW g \in Handles, x = handle'[g].addr PROVE x \in addrs'
    BY <1>5, <1>6, <2>2
  <2>3. QED
    BY <2>1, <2>2
<1>8. addrs' = {handle'[g].addr : g \in Handles} \ {0}
  BY <1>7
<1>9. QED
  BY <1>4, <1>8 DEF Owned

\* No pipe and no address is taken or given back, and no child comes, goes or gets its class.
LEMMA PoolsKept ==
  ASSUME TypeOK, Pools, UNCHANGED <<pipes, addrs>>, Up' <=> Up,
         \A h \in Handles : /\ handle'[h].ctl = handle[h].ctl
                            /\ handle'[h].bulk = handle[h].bulk
                            /\ handle'[h].addr = handle[h].addr,
         \A p \in Ports :
           /\ handle'[p].phase = "none" <=> handle[p].phase = "none"
           /\ handle'[p].phase \in {"request", "class"} <=>
                handle[p].phase \in {"request", "class"}
  PROVE  Pools'
<1>1. \A p \in Ports : p \in Handles
  BY DEF Handles
<1>2. Children' = Children /\ WithClass' = WithClass /\ WithAddress' = WithAddress
  BY <1>1 DEF Children, WithClass, WithAddress
<1>3. TwoAndTwo'
  BY <1>1, <1>2 DEF Pools, TwoAndTwo
<1>4. \A h \in Handles : Used(h)' = Used(h)
  BY DEF Used
<1>5. Owned'
  <2>1. UNION {Used(h)' : h \in Handles} = UNION {Used(h) : h \in Handles}
    BY <1>4
  <2>2. {handle'[h].addr : h \in Handles} = {handle[h].addr : h \in Handles}
    OBVIOUS
  <2>3. QED
    BY <2>1, <2>2 DEF Pools, Owned
<1>6. Counted'
  BY <1>2 DEF Pools, Counted
<1>7. QED
  BY <1>3, <1>5, <1>6 DEF Pools

\* The sets of children change at p only.
LEMMA ChildrenAt ==
  ASSUME TypeOK, NEW p \in Ports, \A g \in Handles : g # p => handle'[g] = handle[g]
  PROVE  /\ Up' <=> Up
         /\ IF handle'[p].phase # "none" THEN Children' = Children \union {p}
            ELSE Children' = Children \ {p}
         /\ IF handle'[p].phase \in {"request", "class"} THEN WithClass' = WithClass \union {p}
            ELSE WithClass' = WithClass \ {p}
         /\ IF handle'[p].addr # 0 THEN WithAddress' = WithAddress \union {p}
            ELSE WithAddress' = WithAddress \ {p}
         /\ Children \in SUBSET Ports /\ WithClass \in SUBSET Ports
         /\ WithAddress \in SUBSET Ports
<1>1. p # Root /\ Root \in Handles /\ \A q \in Ports : q \in Handles
  BY DEF Ports, Root, Handles
<1>2. Up' <=> Up
  BY <1>1 DEF Up
<1>3. \A q \in Ports : q # p => handle'[q] = handle[q]
  BY <1>1
<1>4. /\ Children \in SUBSET Ports /\ WithClass \in SUBSET Ports
      /\ WithAddress \in SUBSET Ports
  BY DEF Children, WithClass, WithAddress
<1>5. IF handle'[p].phase # "none" THEN Children' = Children \union {p}
      ELSE Children' = Children \ {p}
  BY <1>3 DEF Children
<1>6. IF handle'[p].phase \in {"request", "class"} THEN WithClass' = WithClass \union {p}
      ELSE WithClass' = WithClass \ {p}
  BY <1>3 DEF WithClass
<1>7. IF handle'[p].addr # 0 THEN WithAddress' = WithAddress \union {p}
      ELSE WithAddress' = WithAddress \ {p}
  BY <1>3 DEF WithAddress
<1>8. QED
  BY <1>2, <1>4, <1>5, <1>6, <1>7

\* The pipes and the addresses that are taken are finitely many.
LEMMA FiniteTaken == ASSUME TypeOK PROVE IsFiniteSet(pipes) /\ IsFiniteSet(addrs)
BY Finite, FS_Subset DEF TypeOK

\* A hub that is attached takes three pipes and an address.
LEMMA AttachPools == ASSUME TypeOK, Flow, RootAttach PROVE Pools'
<1>1. PICK C \in SUBSET PipeNos, n \in PipeNos, a \in Addresses :
        /\ Allocates(3, C \union {n})
        /\ pipes' = pipes \union C \union {n}
        /\ addrs' = addrs \union {a}
        /\ handle' = [handle EXCEPT ![Root] =
             [phase |-> "class", ctl |-> C, bulk |-> {n}, addr |-> a]]
  BY Zenon DEF RootAttach
<1>2. /\ \A h \in Handles : handle[h] = NoHandle
      /\ pipes = {} /\ addrs = {}
  BY DEF Flow, RootShape, Up, RootAttach
<1>3. /\ Root \in Handles /\ \A p \in Ports : p \in Handles /\ p # Root
  BY DEF Handles, Ports, Root
<1>4. /\ handle'[Root].ctl = C /\ handle'[Root].bulk = {n} /\ handle'[Root].addr = a
      /\ \A h \in Handles : h # Root => handle'[h] = NoHandle
  BY <1>1, <1>2, <1>3 DEF TypeOK
<1>5. /\ NoHandle.phase = "none" /\ NoHandle.ctl = {} /\ NoHandle.bulk = {}
      /\ NoHandle.addr = 0
  BY DEF NoHandle
<1>6. pipes' = C \union {n} /\ addrs' = {a} /\ a # 0
  BY <1>1, <1>2 DEF Addresses
<1>7. Children' = {} /\ WithClass' = {} /\ WithAddress' = {}
  BY <1>3, <1>4, <1>5 DEF Children, WithClass, WithAddress
<1>8. TwoAndTwo'
  BY <1>7 DEF TwoAndTwo
<1>9. Owned'
  <2>1. /\ Used(Root)' = C \union {n}
        /\ \A h \in Handles : h # Root => Used(h)' = {} /\ handle'[h].addr = 0
    BY <1>4, <1>5 DEF Used
  <2>2. UNION {Used(h)' : h \in Handles} = C \union {n}
    BY <1>3, <2>1
  <2>3. {handle'[h].addr : h \in Handles} \ {0} = {a}
    BY <1>3, <1>4, <1>6, <2>1
  <2>4. QED
    BY <1>6, <2>2, <2>3 DEF Owned
<1>10. Counted'
  <2>1. Cardinality(pipes') = 3
    BY <1>1, <1>6 DEF Allocates
  <2>2. Cardinality(addrs') = 1
    BY <1>6, FS_Singleton
  <2>3. Cardinality(Children') = 0 /\ Cardinality(WithClass') = 0 /\ Cardinality(WithAddress') = 0
    BY <1>7, FS_EmptySet
  <2>4. QED
    BY <2>1, <2>2, <2>3 DEF Counted
<1>11. QED
  BY <1>8, <1>9, <1>10 DEF Pools

\* A new child takes two pipes.
LEMMA NewPools ==
  ASSUME TypeOK, HubInv, BusInv, CalmInv, NEW p \in Ports, NewChild(p) PROVE Pools'
<1>1. PICK C \in SUBSET PipeNos :
        /\ Allocates(2, C) /\ pipes' = pipes \union C
        /\ handle' = [handle EXCEPT ![p] = [NoHandle EXCEPT !.phase = "idle", !.ctl = C]]
  BY DEF NewChild
<1>2. /\ p \in Handles /\ handle[p] = NoHandle /\ addrs' = addrs
      /\ C \intersect pipes = {} /\ Cardinality(C) = 2
  BY <1>1 DEF NewChild, pool, Handles, Children, BusInv, HandleAddresses, Allocates
<1>3. /\ handle'[p].phase = "idle" /\ handle'[p].ctl = C /\ handle'[p].bulk = {}
      /\ handle'[p].addr = 0
      /\ \A g \in Handles : g # p => handle'[g] = handle[g]
  BY <1>1, <1>2 DEF TypeOK, NoHandle
<1>4. /\ handle[p].phase = "none" /\ handle[p].ctl = {} /\ handle[p].bulk = {}
      /\ handle[p].addr = 0
  BY <1>2 DEF NoHandle
<1>5. /\ Up' <=> Up
      /\ Children' = Children \union {p} /\ p \notin Children
      /\ WithClass' = WithClass \ {p} /\ p \notin WithClass
      /\ WithAddress' = WithAddress \ {p} /\ p \notin WithAddress
      /\ Children \in SUBSET Ports
  BY <1>3, <1>4, ChildrenAt DEF Children, WithClass, WithAddress
<1>6. WithClass' = WithClass /\ WithAddress' = WithAddress
  BY <1>5
<1>7. TwoAndTwo'
  <2>1. \A q \in Ports : q # p => handle'[q] = handle[q]
    BY <1>3 DEF Handles
  <2>2. QED
    BY <1>2, <1>3, <1>5, <1>6, <2>1 DEF CalmInv, Pools, TwoAndTwo
<1>8. Owned'
  <2>1. Used(p) = {} /\ Used(p)' = C
    BY <1>3, <1>4 DEF Used
  <2>2. /\ pipes' = (pipes \ Used(p)) \union Used(p)'
        /\ addrs' = (addrs \ {handle[p].addr}) \union ({handle'[p].addr} \ {0})
    <3>1. 0 \notin addrs
      BY DEF CalmInv, Pools, Owned
    <3>2. QED
      BY <1>1, <1>2, <1>3, <1>4, <2>1, <3>1
  <2>3. QED
    BY <1>2, <1>3, <2>2, OwnedChanges DEF HubInv, CalmInv, Pools
<1>9. Counted'
  <2>1. SUFFICES ASSUME Up PROVE
          /\ Cardinality(pipes') = 3 + 2 * Cardinality(Children') + 2 * Cardinality(WithClass')
          /\ Cardinality(addrs') = 1 + Cardinality(WithAddress')
    BY <1>5 DEF Counted
  <2>2. IsFiniteSet(pipes) /\ IsFiniteSet(C)
    BY FiniteTaken, Finite, FS_Subset
  <2>3. Cardinality(pipes') = Cardinality(pipes) + 2
    BY <1>1, <1>2, <2>2, Sizes
  <2>4. Cardinality(Children') = Cardinality(Children) + 1 /\ Cardinality(Children) \in Nat
    BY <1>5, OneMore
  <2>5. Cardinality(WithClass) \in Nat
    BY OneMore DEF WithClass
  <2>6. QED
    BY <1>2, <1>6, <2>1, <2>3, <2>4, <2>5 DEF CalmInv, Pools, Counted
<1>10. QED
  BY <1>7, <1>8, <1>9 DEF Pools

\* ENUM_SET_ADDR takes an address.
LEMMA AddressPools ==
  ASSUME TypeOK, HubInv, BusInv, CalmInv, NEW p \in Ports, TakeAddress(p) PROVE Pools'
<1>1. PICK a \in Addresses :
        /\ a \notin addrs /\ addrs' = addrs \union {a}
        /\ handle' = [handle EXCEPT ![p].phase = "setaddr", ![p].addr = a]
  BY DEF TakeAddress, GetsOneAddress
<1>2. /\ p \in Handles /\ handle[p].phase = "idle" /\ handle[p].addr = 0
      /\ pipes' = pipes /\ a # 0
  BY DEF TakeAddress, Handles, BusInv, HandleAddresses, Addressed, Addresses
<1>3. /\ handle'[p].phase = "setaddr" /\ handle'[p].ctl = handle[p].ctl
      /\ handle'[p].bulk = handle[p].bulk /\ handle'[p].addr = a
      /\ \A g \in Handles : g # p => handle'[g] = handle[g]
  BY <1>1, <1>2 DEF TypeOK, Handle
<1>4. /\ Up' <=> Up
      /\ Children' = Children \union {p} /\ p \in Children
      /\ WithClass' = WithClass \ {p} /\ p \notin WithClass
      /\ WithAddress' = WithAddress \union {p} /\ p \notin WithAddress
      /\ WithAddress \in SUBSET Ports
  BY <1>2, <1>3, ChildrenAt DEF Children, WithClass, WithAddress
<1>5. WithClass' = WithClass /\ Children' = Children
  BY <1>4
<1>6. TwoAndTwo'
  <2>1. \A q \in Ports : handle'[q].ctl = handle[q].ctl /\ handle'[q].bulk = handle[q].bulk
    BY <1>3 DEF Handles
  <2>2. QED
    BY <1>5, <2>1 DEF CalmInv, Pools, TwoAndTwo
<1>7. Owned'
  <2>1. Used(p)' = Used(p) /\ Used(p) \subseteq pipes
    BY <1>2, <1>3 DEF Used, HubInv, PipesExclusive
  <2>2. /\ pipes' = (pipes \ Used(p)) \union Used(p)'
        /\ addrs' = (addrs \ {handle[p].addr}) \union ({handle'[p].addr} \ {0})
    <3>1. 0 \notin addrs
      BY DEF CalmInv, Pools, Owned
    <3>2. QED
      BY <1>1, <1>2, <1>3, <2>1, <3>1
  <2>3. QED
    BY <1>2, <1>3, <2>2, OwnedChanges DEF HubInv, CalmInv, Pools
<1>8. Counted'
  <2>1. SUFFICES ASSUME Up PROVE
          /\ Cardinality(pipes') = 3 + 2 * Cardinality(Children') + 2 * Cardinality(WithClass')
          /\ Cardinality(addrs') = 1 + Cardinality(WithAddress')
    BY <1>4 DEF Counted
  <2>2. Cardinality(addrs') = Cardinality(addrs) + 1
    BY <1>1, FiniteTaken, FS_AddElement
  <2>3. /\ Cardinality(WithAddress') = Cardinality(WithAddress) + 1
        /\ Cardinality(WithAddress) \in Nat
    BY <1>4, OneMore
  <2>4. QED
    BY <1>2, <1>5, <2>1, <2>2, <2>3 DEF CalmInv, Pools, Counted
<1>9. QED
  BY <1>6, <1>7, <1>8 DEF Pools

\* A class takes two pipes.
LEMMA ClassPools ==
  ASSUME TypeOK, HubInv, BusInv, CalmInv, NEW p \in Ports, InitClass(p) PROVE Pools'
<1>1. PICK T \in SUBSET PipeNos :
        /\ Allocates(2, T) /\ pipes' = pipes \union T
        /\ handle' = [handle EXCEPT ![p].phase = "request", ![p].bulk = T]
  BY DEF InitClass
<1>2. /\ p \in Handles /\ handle[p].phase = "addr" /\ addrs' = addrs
      /\ T \intersect pipes = {} /\ Cardinality(T) = 2
  BY <1>1 DEF InitClass, Handles, Allocates
<1>3. /\ handle'[p].phase = "request" /\ handle'[p].ctl = handle[p].ctl
      /\ handle'[p].bulk = T /\ handle'[p].addr = handle[p].addr /\ handle[p].addr # 0
      /\ \A g \in Handles : g # p => handle'[g] = handle[g]
  BY <1>1, <1>2 DEF TypeOK, Handle, BusInv, HandleAddresses, Addressed
<1>4. /\ Up' <=> Up
      /\ Children' = Children \union {p} /\ p \in Children
      /\ WithClass' = WithClass \union {p} /\ p \notin WithClass
      /\ WithAddress' = WithAddress \union {p} /\ p \in WithAddress
      /\ WithClass \in SUBSET Ports
  BY <1>2, <1>3, ChildrenAt DEF Children, WithClass, WithAddress
<1>5. Children' = Children /\ WithAddress' = WithAddress
  BY <1>4
<1>6. TwoAndTwo'
  <2>1. \A q \in Ports : /\ handle'[q].ctl = handle[q].ctl
                         /\ q # p => handle'[q].bulk = handle[q].bulk
    BY <1>3 DEF Handles
  <2>2. QED
    BY <1>2, <1>3, <1>4, <1>5, <2>1 DEF CalmInv, Pools, TwoAndTwo
<1>7. Owned'
  <2>1. handle[p].bulk = {} /\ handle[p].ctl \subseteq pipes
    BY <1>2, <1>4 DEF HubInv, ClassPipes, PipesExclusive, Used
  <2>2. Used(p) = handle[p].ctl /\ Used(p)' = handle[p].ctl \union T
    BY <1>3, <2>1 DEF Used
  <2>3. handle[p].addr \in addrs
    BY <1>2, <1>3 DEF HubInv, AddressesExclusive
  <2>4. /\ pipes' = (pipes \ Used(p)) \union Used(p)'
        /\ addrs' = (addrs \ {handle[p].addr}) \union ({handle'[p].addr} \ {0})
    BY <1>1, <1>2, <1>3, <2>1, <2>2, <2>3
  <2>5. QED
    BY <1>2, <1>3, <2>4, OwnedChanges DEF HubInv, CalmInv, Pools
<1>8. Counted'
  <2>1. SUFFICES ASSUME Up PROVE
          /\ Cardinality(pipes') = 3 + 2 * Cardinality(Children') + 2 * Cardinality(WithClass')
          /\ Cardinality(addrs') = 1 + Cardinality(WithAddress')
    BY <1>4 DEF Counted
  <2>2. IsFiniteSet(pipes) /\ IsFiniteSet(T)
    BY FiniteTaken, Finite, FS_Subset
  <2>3. Cardinality(pipes') = Cardinality(pipes) + 2
    BY <1>1, <1>2, <2>2, Sizes
  <2>4. Cardinality(WithClass') = Cardinality(WithClass) + 1 /\ Cardinality(WithClass) \in Nat
    BY <1>4, OneMore
  <2>5. Cardinality(Children) \in Nat
    BY OneMore DEF Children
  <2>6. QED
    BY <1>2, <1>5, <2>1, <2>3, <2>4, <2>5 DEF CalmInv, Pools, Counted
<1>9. QED
  BY <1>6, <1>7, <1>8 DEF Pools

\* A child that is removed gives back all that it has: pipe 0 is the hub's.
LEMMA GivesAllBack ==
  ASSUME Calm, TypeOK, HubInv, BusInv, CalmInv, NEW p \in Ports, RemoveChild(p)
  PROVE  /\ handle[p] = NoHandle \/ handle[p].phase = "class"
         /\ pipes' = pipes \ Used(p)
         /\ addrs' = addrs \ {handle[p].addr}
<1>1. /\ pc = "act" /\ p \in Handles /\ Root \in Handles /\ p # Root
      /\ pipes' = pipes \ FreedPipes(p)
      /\ addrs' = addrs \ FreedAddresses({p} \intersect WithClass)
  BY DEF RemoveChild, Turn, Handles, Ports, Root
<1>2. handle[p].phase \in {"none", "class"}
  BY <1>1 DEF CalmInv, Flow, Enumerating, Starting
<1>3. CASE handle[p].phase = "none"
  <2>1. handle[p] = NoHandle /\ p \notin WithClass
    BY <1>3 DEF BusInv, HandleAddresses, WithClass
  <2>2. Used(p) = {} /\ FreedPipes(p) = {} /\ handle[p].addr = 0
    BY <2>1 DEF Used, FreedPipes, NoHandle
  <2>3. FreedAddresses({p} \intersect WithClass) = {}
    BY <2>1 DEF FreedAddresses
  <2>4. 0 \notin addrs
    BY DEF CalmInv, Pools, Owned
  <2>5. QED
    BY <1>1, <2>1, <2>2, <2>3, <2>4
<1>4. CASE handle[p].phase = "class"
  <2>1. p \in WithClass /\ Aoa = {}
    BY <1>4 DEF WithClass, Calm
  <2>2. 0 \notin handle[p].bulk
    <3>1. 0 \in Used(Root)
      BY <1>1, AtIsUp DEF CalmInv, Flow, RootShape, Used
    <3>2. QED
      BY <1>1, <3>1 DEF HubInv, PipesExclusive, Used
  <2>3. p \in Msc => msc = handle[p].bulk
    BY <2>1 DEF HubInv, ClassPipes
  <2>4. FreedPipes(p) = Used(p)
    BY <2>1, <2>2, <2>3 DEF FreedPipes, Used
  <2>5. FreedAddresses({p} \intersect WithClass) = {handle[p].addr}
    BY <2>1 DEF FreedAddresses
  <2>6. QED
    BY <1>1, <1>4, <2>4, <2>5
<1>5. QED
  BY <1>2, <1>3, <1>4

LEMMA RemovePools ==
  ASSUME Calm, TypeOK, HubInv, BusInv, CalmInv, NEW p \in Ports, RemoveChild(p)
  PROVE  Pools'
<1>1. /\ p \in Handles /\ handle' = [handle EXCEPT ![p] = NoHandle]
      /\ handle[p] = NoHandle \/ handle[p].phase = "class"
      /\ pipes' = pipes \ Used(p) /\ addrs' = addrs \ {handle[p].addr}
  BY GivesAllBack DEF RemoveChild, Handles
<1>2. /\ handle'[p].phase = "none" /\ Used(p)' = {} /\ handle'[p].addr = 0
      /\ \A g \in Handles : g # p => handle'[g] = handle[g]
  <2>1. handle'[p] = NoHandle /\ \A g \in Handles : g # p => handle'[g] = handle[g]
    BY <1>1 DEF TypeOK
  <2>2. QED
    BY <2>1 DEF NoHandle, Used
<1>3. /\ Up' <=> Up
      /\ Children' = Children \ {p} /\ WithClass' = WithClass \ {p}
      /\ WithAddress' = WithAddress \ {p}
      /\ Children \in SUBSET Ports /\ WithClass \in SUBSET Ports
      /\ WithAddress \in SUBSET Ports
  BY <1>2, ChildrenAt
<1>4. TwoAndTwo'
  <2>1. \A q \in Ports : q # p => handle'[q] = handle[q]
    BY <1>2 DEF Handles
  <2>2. QED
    BY <1>3, <2>1 DEF CalmInv, Pools, TwoAndTwo
<1>5. Owned'
  <2>1. /\ pipes' = (pipes \ Used(p)) \union Used(p)'
        /\ addrs' = (addrs \ {handle[p].addr}) \union ({handle'[p].addr} \ {0})
    BY <1>1, <1>2
  <2>2. QED
    BY <1>1, <1>2, <2>1, OwnedChanges DEF HubInv, CalmInv, Pools
<1>6. Counted'
  <2>1. SUFFICES ASSUME Up PROVE
          /\ Cardinality(pipes') = 3 + 2 * Cardinality(Children') + 2 * Cardinality(WithClass')
          /\ Cardinality(addrs') = 1 + Cardinality(WithAddress')
    BY <1>3 DEF Counted
  <2>2. /\ Cardinality(pipes) = 3 + 2 * Cardinality(Children) + 2 * Cardinality(WithClass)
        /\ Cardinality(addrs) = 1 + Cardinality(WithAddress)
    BY <2>1 DEF CalmInv, Pools, Counted
  <2>3. CASE handle[p] = NoHandle
    <3>1. p \notin Children /\ p \notin WithClass /\ p \notin WithAddress
      BY <2>3 DEF NoHandle, Children, WithClass, WithAddress
    <3>2. Used(p) = {} /\ handle[p].addr = 0 /\ 0 \notin addrs
      BY <2>3 DEF NoHandle, Used, CalmInv, Pools, Owned
    <3>3. pipes' = pipes /\ addrs' = addrs
      BY <1>1, <3>2
    <3>4. Children' = Children /\ WithClass' = WithClass /\ WithAddress' = WithAddress
      BY <1>3, <3>1
    <3>5. QED
      BY <2>2, <3>3, <3>4
  <2>4. CASE handle[p].phase = "class"
    <3>1. handle[p].addr # 0
      BY <2>4 DEF BusInv, HandleAddresses, Addressed
    <3>2. p \in Children /\ p \in WithClass /\ p \in WithAddress
      BY <2>4, <3>1 DEF Children, WithClass, WithAddress
    <3>3. /\ Cardinality(Children) = Cardinality(Children') + 1
          /\ Cardinality(WithClass) = Cardinality(WithClass') + 1
          /\ Cardinality(WithAddress) = Cardinality(WithAddress') + 1
      BY <1>3, <3>2, OneMore
    <3>4. /\ Cardinality(Children') \in Nat /\ Cardinality(WithClass') \in Nat
          /\ Cardinality(WithAddress') \in Nat
      <4>1. /\ Children' \in SUBSET Ports /\ WithClass' \in SUBSET Ports
            /\ WithAddress' \in SUBSET Ports
        BY <1>3
      <4>2. QED
        BY <4>1, OneMore
    <3>5. Used(p) \subseteq pipes /\ handle[p].addr \in addrs
      BY <1>1, <3>1 DEF HubInv, PipesExclusive, AddressesExclusive
    <3>6. Cardinality(Used(p)) = 4 /\ IsFiniteSet(Used(p))
      <4>1. /\ Cardinality(handle[p].ctl) = 2 /\ Cardinality(handle[p].bulk) = 2
        BY <3>2 DEF CalmInv, Pools, TwoAndTwo
      <4>2. handle[p].ctl \intersect handle[p].bulk = {}
        BY <1>1 DEF HubInv, PipesExclusive
      <4>3. IsFiniteSet(handle[p].ctl) /\ IsFiniteSet(handle[p].bulk)
        BY <3>5, FiniteTaken, FS_Subset DEF Used
      <4>4. QED
        BY <4>1, <4>2, <4>3, Sizes DEF Used
    <3>7. Cardinality(pipes') = Cardinality(pipes) - 4
      <4>1. IsFiniteSet(pipes)
        BY FiniteTaken
      <4>2. Cardinality(pipes \ Used(p)) = Cardinality(pipes) - Cardinality(Used(p))
        BY <3>5, <3>6, <4>1, Sizes
      <4>3. QED
        BY <1>1, <3>6, <4>2
    <3>8. Cardinality(addrs') = Cardinality(addrs) - 1
      BY <1>1, <3>5, FiniteTaken, FS_RemoveElement
    <3>9. QED
      BY <2>2, <3>3, <3>4, <3>7, <3>8
  <2>5. QED
    BY <1>1, <2>3, <2>4
<1>7. QED
  BY <1>4, <1>5, <1>6 DEF Pools

\* The other steps leave the pools alone.
LEMMA LoopPools ==
  ASSUME Calm, TypeOK, HubInv, BusInv, CalmInv, NEW p \in Ports, CalmLoopStep(p)
  PROVE  Pools'
<1>1. CASE RemoveChild(p)
  BY <1>1, RemovePools
<1>2. CASE NewChild(p)
  BY <1>2, NewPools
<1>3. CASE \/ GetPortStatus(p) \/ ClearPort(p) \/ ResetPort(p) \/ KeepChild(p)
           \/ StoreChild(p)
  <2>1. UNCHANGED <<handle, pipes, addrs>>
    BY <1>3 DEF GetPortStatus, ClearPort, ResetPort, KeepChild, StoreChild, pool
  <2>2. QED
    BY <2>1, PoolsKept DEF CalmInv, Up
<1>4. QED
  BY <1>1, <1>2, <1>3 DEF CalmLoopStep

LEMMA ChildPools ==
  ASSUME TypeOK, HubInv, BusInv, CalmInv, NEW p \in Ports, CalmChildStep(p) PROVE Pools'
<1>1. CASE TakeAddress(p)
  BY <1>1, AddressPools
<1>2. CASE InitClass(p)
  BY <1>2, ClassPools
<1>3. ASSUME NEW s \in {"addr", "aoa", "class"}, UNCHANGED <<pipes, addrs>>,
             handle' = [handle EXCEPT ![p].phase = s], handle[p].phase # "none",
             s = "class" <=> handle[p].phase \in {"request", "class"}
      PROVE  Pools'
  <2>1. /\ p \in Handles /\ Root \in Handles /\ p # Root
        /\ \A q \in Ports : q \in Handles
    BY DEF Handles, Ports, Root
  <2>2. /\ handle'[p].phase = s /\ handle'[p].ctl = handle[p].ctl
        /\ handle'[p].bulk = handle[p].bulk /\ handle'[p].addr = handle[p].addr
        /\ \A g \in Handles : g # p => handle'[g] = handle[g]
    BY <1>3, <2>1 DEF TypeOK, Handle
  <2>3. Up' <=> Up
    BY <2>1, <2>2 DEF Up
  <2>4. \A h \in Handles : /\ handle'[h].ctl = handle[h].ctl
                           /\ handle'[h].bulk = handle[h].bulk
                           /\ handle'[h].addr = handle[h].addr
    BY <2>2
  <2>5. \A q \in Ports :
           /\ handle'[q].phase = "none" <=> handle[q].phase = "none"
           /\ handle'[q].phase \in {"request", "class"} <=>
                handle[q].phase \in {"request", "class"}
    <3>1. handle'[p].phase # "none" /\ handle[p].phase # "none"
      BY <1>3, <2>2
    <3>2. handle'[p].phase \in {"request", "class"} <=>
            handle[p].phase \in {"request", "class"}
      BY <1>3, <2>2
    <3>3. QED
      BY <2>1, <2>2, <3>1, <3>2
  <2>6. QED
    BY <1>3, <2>3, <2>4, <2>5, PoolsKept DEF CalmInv
<1>4. CASE SetAddress(p)
  BY <1>3, <1>4 DEF SetAddress, pool
<1>5. CASE AoaStart(p)
  BY <1>3, <1>5 DEF AoaStart, pool
<1>6. CASE StartClass(p)
  BY <1>3, <1>6 DEF StartClass, pool
<1>7. QED
  BY <1>1, <1>2, <1>4, <1>5, <1>6 DEF CalmChildStep

-----------------------------------------------------------------------------
(* Theorems *)

\* Every step keeps the invariant.
LEMMA CalmStep ==
  ASSUME Calm PROVE TypeOK /\ HubInv /\ BusInv /\ CalmInv /\ [Next]_vars => CalmInv'
<1> SUFFICES ASSUME TypeOK, HubInv, BusInv, CalmInv, [Next]_vars PROVE CalmInv'
  OBVIOUS
<1>1. ASSUME NEW p \in Ports, LoopStep(p) PROVE CalmInv'
  BY <1>1, CalmLoop, LoopFlow, LoopPools DEF CalmInv
<1>2. ASSUME NEW p \in Ports, ChildProcess(p) PROVE CalmInv'
  BY <1>2, CalmChild, ChildFlow, ChildPools DEF CalmInv
<1>3. ASSUME NEW p \in Ports, Plug(p) \/ Unplug(p) PROVE CalmInv'
  <2>1. UNCHANGED <<handle, pipes, addrs>>
    BY <1>3 DEF Plug, Unplug, pool
  <2>2. Pools'
    BY <2>1, PoolsKept DEF CalmInv, Up
  <2>3. QED
    BY <1>3, <2>2, UserFlow DEF CalmInv
<1>4. CASE RootStep \/ Interrupt
  <2>1. CalmRootStep
    BY <1>4, CalmRoot
  <2>2. CASE RootAttach
    BY <2>1, <2>2, RootFlow, AttachPools DEF CalmInv
  <2>3. CASE ~RootAttach
    <3>1. UNCHANGED <<handle, pipes, addrs>>
      BY <2>1, <2>3 DEF CalmRootStep, ScanPortWait, StartEnumPort, EndEnumPort, SOFProcess,
                        UrbAnswer, pool
    <3>2. Pools'
      BY <3>1, PoolsKept DEF CalmInv, Up
    <3>3. QED
      BY <2>1, <3>2, RootFlow DEF CalmInv
  <2>4. QED
    BY <2>2, <2>3
<1>5. CASE UNCHANGED vars
  <2>1. UNCHANGED <<handle, port, data, pc, todo, pipes, addrs>>
    BY <1>5 DEF vars, pool, loop
  <2>2. Pools'
    BY <2>1, PoolsKept DEF CalmInv, Up
  <2>3. PortShape' /\ RootShape' /\ Enumerating'
    BY <2>1 DEF CalmInv, Flow, PortShape, RootShape, Up, Enumerating, At
  <2>4. Matched' /\ StatusRead' /\ DefaultAddress'
    BY <2>1 DEF CalmInv, Flow, Matched, StatusRead, DefaultAddress, At
  <2>5. QED
    BY <2>2, <2>3, <2>4 DEF CalmInv, Flow
<1>6. QED
  BY <1>1, <1>2, <1>3, <1>4, <1>5 DEF Next

\* The program starts without a hub.
LEMMA InitCalm == Init => CalmInv
<1> SUFFICES ASSUME Init PROVE CalmInv
  OBVIOUS
<1>1. /\ Root \in Handles /\ \A p \in Ports : p \in Handles
      /\ \A h \in Handles : handle[h] = NoHandle
      /\ \A p \in Ports : port[p] = NoDevice
      /\ pipes = {} /\ addrs = {} /\ pc = "get"
  BY DEF Init, Handles
<1>2. /\ NoHandle.phase = "none" /\ NoHandle.ctl = {} /\ NoHandle.bulk = {}
      /\ NoHandle.addr = 0
      /\ ~NoDevice.enab /\ ~NoDevice.creset /\ NoDevice.addr = 0 /\ ~NoDevice.conn
  BY DEF NoHandle, NoDevice
<1>3. PortShape /\ RootShape /\ StatusRead /\ DefaultAddress
  BY <1>1, <1>2 DEF PortShape, RootShape, StatusRead, DefaultAddress, Up
<1>4. Enumerating /\ Matched
  BY <1>1, <1>2 DEF Enumerating, Matched, Starting
<1>5. ~Up /\ Children = {} /\ WithClass = {}
  BY <1>1, <1>2 DEF Up, Children, WithClass
<1>6. TwoAndTwo /\ Counted
  BY <1>5 DEF TwoAndTwo, Counted
<1>7. Owned
  <2>1. \A h \in Handles : Used(h) = {} /\ handle[h].addr = 0
    BY <1>1, <1>2 DEF Used
  <2>2. QED
    BY <1>1, <2>1 DEF Owned
<1>8. QED
  BY <1>3, <1>4, <1>6, <1>7 DEF CalmInv, Flow, Pools

\* Users who wait, and a hub and devices that answer: the thread's view of the ports, and
\* what is taken of pipes and addresses, stay right whatever is plugged and unplugged.
THEOREM CalmInvariant == ASSUME Calm, OneMsc PROVE Spec => []CalmInv
<1>1. Init => TypeOK /\ HubInv /\ BusInv /\ CalmInv
  BY InitType, InitInv, InitBus, InitCalm
<1>2. NoStall
  BY DEF Calm, NoStall
<1>3. /\ TypeOK /\ HubInv /\ BusInv /\ CalmInv /\ [Next]_vars
      => (TypeOK /\ HubInv /\ BusInv /\ CalmInv)'
  BY <1>2, TypeStep, InvStep, BusStep, CalmStep
<1>4. QED
  BY <1>1, <1>3, PTL DEF Spec

\* Then four pipes for each port and three for the hub are enough: the thread never opens
\* a pipe it did not get, and never calls through a null class.
THEOREM NeverOutOfPipes == ASSUME Calm, OneMsc PROVE Spec => []NeverFaults
<1>1. CalmInv => NeverFaults
  BY DEF CalmInv, Flow, Enumerating, NeverFaults
<1>2. QED
  BY <1>1, CalmInvariant, PTL

\* Every pipe and every address that is taken belongs to a handle, also while the thread
\* is in the loop over the ports.
THEOREM NoLeak == ASSUME Calm, OneMsc PROVE Spec => []NothingLeaks
<1>1. CalmInv => NothingLeaks
  BY DEF CalmInv, Pools, Owned, NothingLeaks
<1>2. QED
  BY <1>1, CalmInvariant, PTL

\* The device of one port has its address before the next port is reset.
THEOREM OneListens == ASSUME Calm, OneMsc PROVE Spec => []OneAtDefaultAddress
<1>1. CalmInv => OneAtDefaultAddress
  <2> SUFFICES ASSUME CalmInv PROVE OneAtDefaultAddress
    OBVIOUS
  <2> DEFINE L == {p \in Ports : port[p].enab /\ port[p].addr = 0}
  <2>1. \A p, q \in L : p = q
    BY OneAt DEF CalmInv, Flow, DefaultAddress
  <2>2. CASE L = {}
    BY <2>2, FS_EmptySet DEF OneAtDefaultAddress
  <2>3. CASE L # {}
    <3>1. PICK p \in L : TRUE
      BY <2>3
    <3>2. L = {p}
      BY <2>1, <3>1
    <3>3. Cardinality(L) = 1
      BY <3>2, FS_Singleton
    <3>4. QED
      BY <3>3 DEF OneAtDefaultAddress
  <2>4. QED
    BY <2>2, <2>3
<1>2. QED
  BY <1>1, CalmInvariant, PTL
=============================================================================
