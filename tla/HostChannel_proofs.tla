-------------------------- MODULE HostChannel_proofs --------------------------
(***************************************************************************)
(* A bulk channel keeps the promise of PacketStream, for any number of     *)
(* packets and of faults: the packets arrive in order, each once, and each *)
(* is reported once; and it gives a transfer up only after three           *)
(* transactions in a row that failed.                                      *)
(***************************************************************************)
EXTENDS HostChannel, TLAPS

\* A record of the channel, by its fields (all but the mask of CHH).
Fields(r, state, urb, err, toggle, int, on, halting, pid) ==
  /\ r \in Channels
  /\ r.state = state /\ r.urb = urb /\ r.err = err /\ r.toggle = toggle
  /\ r.int = int /\ r.on = on /\ r.halting = halting /\ r.pid = pid

LEMMA Constants ==
  /\ \A s \in {"XFRC", "STALL", "NAK", "XACTERR", "DATATGLERR"} : s \in HcStates
  /\ \A u \in {"DONE", "NOTREADY", "STALL", "ERROR"} : u \in UrbStates
  /\ 0 \in Nat
  BY DEF HcStates, UrbStates

LEMMA Flipped ==
  ASSUME NEW t \in Toggles
  PROVE  /\ Flip(t) \in Toggles
         /\ Flip(t) # t
         /\ Flip(Flip(t)) = t
         /\ \A u \in Toggles : u = t \/ u = Flip(t)
  BY DEF Toggles, Flip

LEMMA ByFields ==
  ASSUME NEW c \in Channels
  PROVE  Fields(c, c.state, c.urb, c.err, c.toggle, c.int, c.on, c.halting, c.pid)
  BY DEF Fields

-----------------------------------------------------------------------------
(* What the assignments of the handlers do to the record. *)

LEMMA Cleared ==
  ASSUME NEW c, NEW s, NEW u, NEW e, NEW t, NEW i, NEW o, NEW h, NEW p, NEW bits,
         Fields(c, s, u, e, t, i, o, h, p)
  PROVE  Fields(Clear(c, bits), s, u, e, t, i \ bits, o, h, p)
  <1>1. Clear(c, bits) \in Channels
    BY DEF Channels, Fields, Clear
  <1> QED  BY <1>1 DEF Channels, Fields, Clear

LEMMA HaltBegun ==
  ASSUME NEW c, NEW s, NEW u, NEW e, NEW t, NEW i, NEW o, NEW h, NEW p,
         Fields(c, s, u, e, t, i, o, h, p)
  PROVE  Fields(Halt(c), s, u, e, t, i, o, TRUE, p)
  <1>1. Halt(c) \in Channels
    BY DEF Channels, Fields, Halt
  <1> QED  BY <1>1 DEF Channels, Fields, Halt

LEMMA HaltEnded ==
  ASSUME NEW c, NEW s, NEW u, NEW e, NEW t, NEW i, NEW o, NEW h, NEW p,
         Fields(c, s, u, e, t, i, o, h, p)
  PROVE  Fields(HaltServed(c), s, u, e, t, i \ {"CHH"}, o, h, p)
  <1>1. HaltServed(c) \in Channels
    BY DEF Channels, Fields, HaltServed
  <1> QED  BY <1>1 DEF Channels, Fields, HaltServed

LEMMA OnSet ==
  ASSUME NEW c, NEW s, NEW u, NEW e, NEW t, NEW i, NEW o, NEW h, NEW p,
         Fields(c, s, u, e, t, i, o, h, p), NEW o1 \in BOOLEAN
  PROVE  Fields([c EXCEPT !.on = o1], s, u, e, t, i, o1, h, p)
  <1>1. [c EXCEPT !.on = o1] \in Channels
    BY DEF Channels, Fields
  <1> QED  BY <1>1 DEF Channels, Fields

LEMMA StateSet ==
  ASSUME NEW c, NEW s, NEW u, NEW e, NEW t, NEW i, NEW o, NEW h, NEW p,
         Fields(c, s, u, e, t, i, o, h, p), NEW s1 \in HcStates
  PROVE  Fields([c EXCEPT !.state = s1], s1, u, e, t, i, o, h, p)
  <1>1. [c EXCEPT !.state = s1] \in Channels
    BY DEF Channels, Fields
  <1> QED  BY <1>1 DEF Channels, Fields

LEMMA UrbSet ==
  ASSUME NEW c, NEW s, NEW u, NEW e, NEW t, NEW i, NEW o, NEW h, NEW p,
         Fields(c, s, u, e, t, i, o, h, p), NEW u1 \in UrbStates
  PROVE  Fields([c EXCEPT !.urb = u1], s, u1, e, t, i, o, h, p)
  <1>1. [c EXCEPT !.urb = u1] \in Channels
    BY DEF Channels, Fields
  <1> QED  BY <1>1 DEF Channels, Fields

LEMMA ErrSet ==
  ASSUME NEW c, NEW s, NEW u, NEW e, NEW t, NEW i, NEW o, NEW h, NEW p,
         Fields(c, s, u, e, t, i, o, h, p), NEW e1 \in Nat
  PROVE  Fields([c EXCEPT !.err = e1], s, u, e1, t, i, o, h, p)
  <1>1. [c EXCEPT !.err = e1] \in Channels
    BY DEF Channels, Fields
  <1> QED  BY <1>1 DEF Channels, Fields

LEMMA StateErrSet ==
  ASSUME NEW c, NEW s, NEW u, NEW e, NEW t, NEW i, NEW o, NEW h, NEW p,
         Fields(c, s, u, e, t, i, o, h, p), NEW s1 \in HcStates, NEW e1 \in Nat
  PROVE  Fields([c EXCEPT !.state = s1, !.err = e1], s1, u, e1, t, i, o, h, p)
  <1>1. [c EXCEPT !.state = s1, !.err = e1] \in Channels
    BY DEF Channels, Fields
  <1> QED  BY <1>1 DEF Channels, Fields

LEMMA ErrStateSet ==
  ASSUME NEW c, NEW s, NEW u, NEW e, NEW t, NEW i, NEW o, NEW h, NEW p,
         Fields(c, s, u, e, t, i, o, h, p), NEW e1 \in Nat, NEW s1 \in HcStates
  PROVE  Fields([c EXCEPT !.err = e1, !.state = s1], s1, u, e1, t, i, o, h, p)
  <1>1. [c EXCEPT !.err = e1, !.state = s1] \in Channels
    BY DEF Channels, Fields
  <1> QED  BY <1>1 DEF Channels, Fields

LEMMA StateErrToggleSet ==
  ASSUME NEW c, NEW s, NEW u, NEW e, NEW t, NEW i, NEW o, NEW h, NEW p,
         Fields(c, s, u, e, t, i, o, h, p), NEW s1 \in HcStates, NEW e1 \in Nat, NEW t1 \in Toggles
  PROVE  Fields([c EXCEPT !.state = s1, !.err = e1, !.toggle = t1], s1, u, e1, t1, i, o, h, p)
  <1>1. [c EXCEPT !.state = s1, !.err = e1, !.toggle = t1] \in Channels
    BY DEF Channels, Fields
  <1> QED  BY <1>1 DEF Channels, Fields

LEMMA ErrUrbSet ==
  ASSUME NEW c, NEW s, NEW u, NEW e, NEW t, NEW i, NEW o, NEW h, NEW p,
         Fields(c, s, u, e, t, i, o, h, p), NEW e1 \in Nat, NEW u1 \in UrbStates
  PROVE  Fields([c EXCEPT !.err = e1, !.urb = u1], s, u1, e1, t, i, o, h, p)
  <1>1. [c EXCEPT !.err = e1, !.urb = u1] \in Channels
    BY DEF Channels, Fields
  <1> QED  BY <1>1 DEF Channels, Fields

LEMMA UrbToggleSet ==
  ASSUME NEW c, NEW s, NEW u, NEW e, NEW t, NEW i, NEW o, NEW h, NEW p,
         Fields(c, s, u, e, t, i, o, h, p), NEW u1 \in UrbStates, NEW t1 \in Toggles
  PROVE  Fields([c EXCEPT !.urb = u1, !.toggle = t1], s, u1, e, t1, i, o, h, p)
  <1>1. [c EXCEPT !.urb = u1, !.toggle = t1] \in Channels
    BY DEF Channels, Fields
  <1> QED  BY <1>1 DEF Channels, Fields

LEMMA Reactivated ==
  ASSUME NEW c, NEW s, NEW u, NEW e, NEW t, NEW i, NEW o, NEW h, NEW p,
         Fields(c, s, u, e, t, i, o, h, p), NEW b \in BOOLEAN, IsIn = b
  PROVE  Fields(Reactivate(c), s, u, e, t, i, b, h, p)
  <1>1. Reactivate(c) = [c EXCEPT !.on = b]
    BY DEF Reactivate
  <1>2. Fields([c EXCEPT !.on = b], s, u, e, t, i, b, h, p)
    BY OnSet
  <1> QED  BY <1>1, <1>2

\* CHH after a failed transaction counts it, and gives up after too many.
Tally(e, e1, u1) ==
  /\ e1 \in Nat /\ u1 \in {"ERROR", "NOTREADY"}
  /\ e > 3 => e1 = 0 /\ u1 = "ERROR"
  /\ ~(e > 3) => e1 = e + 1 /\ u1 = "NOTREADY"

LEMMA Counted ==
  ASSUME NEW c, NEW s, NEW u, NEW e, NEW t, NEW i, NEW o, NEW h, NEW p,
         Fields(c, s, u, e, t, i, o, h, p), NEW b \in BOOLEAN, IsIn = b
  PROVE  \E e1, u1 : Tally(e, e1, u1) /\ Fields(CountFailure(c), s, u1, e1, t, i, b, h, p)
  <1>0. c.err = e /\ c.err \in Nat /\ c.err + 1 \in Nat
    BY DEF Fields, Channels
  <1>1. CASE c.err > 3
    <2>1. CountFailure(c) = Reactivate([c EXCEPT !.err = 0, !.urb = "ERROR"])
      BY <1>1 DEF CountFailure
    <2>2. "ERROR" \in UrbStates
      BY Constants
    <2>3. Fields([c EXCEPT !.err = 0, !.urb = "ERROR"], s, "ERROR", 0, t, i, o, h, p)
      BY <2>2, ErrUrbSet
    <2>4. Fields(CountFailure(c), s, "ERROR", 0, t, i, b, h, p)
      BY <2>1, <2>3, Reactivated
    <2>5. Tally(e, 0, "ERROR")
      BY <1>0, <1>1 DEF Tally
    <2> QED  BY <2>4, <2>5
  <1>2. CASE ~(c.err > 3)
    <2>1. CountFailure(c) = Reactivate([c EXCEPT !.err = c.err + 1, !.urb = "NOTREADY"])
      BY <1>2 DEF CountFailure
    <2>2. "NOTREADY" \in UrbStates
      BY Constants
    <2>3. Fields([c EXCEPT !.err = c.err + 1, !.urb = "NOTREADY"], s, "NOTREADY",
                 c.err + 1, t, i, o, h, p)
      BY <1>0, <2>2, ErrUrbSet
    <2>4. Fields(CountFailure(c), s, "NOTREADY", c.err + 1, t, i, b, h, p)
      BY <2>1, <2>3, Reactivated
    <2>5. Tally(e, c.err + 1, "NOTREADY")
      BY <1>0, <1>2 DEF Tally
    <2> QED  BY <2>4, <2>5
  <1> QED  BY <1>1, <1>2

-----------------------------------------------------------------------------
(* What one call of a handler does, for each bit of HCINT. *)

LEMMA ClearedAll ==
  ASSUME NEW c, NEW s, NEW u, NEW e, NEW t, NEW i, NEW o, NEW h, NEW p,
         Fields(c, s, u, e, t, i, o, h, p), NEW bits, i \subseteq bits
  PROVE  Fields(Clear(c, bits), s, u, e, t, {}, o, h, p)
  <1>1. i \ bits = {}
    OBVIOUS
  <1>2. Fields(Clear(c, bits), s, u, e, t, i \ bits, o, h, p)
    BY Cleared
  <1> QED  BY <1>1, <1>2

LEMMA InEffect ==
  ASSUME kind = "bulk_in",
         NEW c, NEW s, NEW u, NEW e, NEW t, NEW i, NEW o, NEW h, NEW p,
         Fields(c, s, u, e, t, i, o, h, p)
  PROVE  /\ i = {"XFRC"}  => Fields(InIRQ(c), "XFRC", u, 0, Flip(t), {}, o, TRUE, p)
         /\ i = {"STALL"} => Fields(InIRQ(c), "STALL", u, e, t, {}, o, TRUE, p)
         /\ i = {"DTERR"} => Fields(InIRQ(c), "DATATGLERR", u, e, t, {}, o, TRUE, p)
         /\ i = {"TXERR"} => Fields(InIRQ(c), "XACTERR", u, e + 1, t, {}, o, TRUE, p)
         /\ i = {"NAK"}   => Fields(InIRQ(c), "NAK", u, 0, t, {}, o, TRUE, p)
  <1>0. c.int = i /\ c.err = e /\ c.toggle = t /\ e \in Nat /\ e + 1 \in Nat /\ t \in Toggles
    BY DEF Fields, Channels
  <1>1. i \in {{"XFRC"}, {"TXERR"}, {"NAK"}} => InFirst(c) = c
    BY <1>0 DEF InFirst
  <1>2. ASSUME NEW d, d.int = {}
        PROVE  InSecond(d) = d
    BY <1>2 DEF InSecond
  <1>3. ASSUME i = {"XFRC"}
        PROVE  Fields(InIRQ(c), "XFRC", u, 0, Flip(t), {}, o, TRUE, p)
    <2> DEFINE d == Clear(c, {"XFRC"})
               f == [d EXCEPT !.state = "XFRC", !.err = 0, !.toggle = Flip(t)]
               g == Clear(f, {"NAK"})
    <2>1. Fields(d, s, u, e, t, {}, o, h, p)
      BY <1>3, ClearedAll
    <2>2. Flip(t) \in Toggles /\ "XFRC" \in HcStates
      BY <1>0, Flipped, Constants
    <2>3. d.toggle = t
      BY <2>1 DEF Fields
    <2>4. InIRQ(c) = InComplete(c)
      BY <1>0, <1>1, <1>3 DEF InSecond, InIRQ
    <2>5. InComplete(c) = Halt(g)
      BY <2>3 DEF InComplete, IsBulk
    <2> HIDE DEF d
    <2>6. Fields(f, "XFRC", u, 0, Flip(t), {}, o, h, p)
      BY <2>1, <2>2, StateErrToggleSet
    <2> HIDE DEF f
    <2>7. Fields(g, "XFRC", u, 0, Flip(t), {}, o, h, p)
      BY <2>6, ClearedAll
    <2> HIDE DEF g
    <2>8. Fields(Halt(g), "XFRC", u, 0, Flip(t), {}, o, TRUE, p)
      BY <2>7, HaltBegun
    <2> QED  BY <2>4, <2>5, <2>8
  <1>4. ASSUME NEW b \in {"STALL", "DTERR"}, i = {b},
               NEW s1 \in HcStates, InFirst(c) = [Halt(Clear(c, {"NAK", b})) EXCEPT !.state = s1]
        PROVE  Fields(InIRQ(c), s1, u, e, t, {}, o, TRUE, p)
    <2> DEFINE d == Clear(c, {"NAK", b})
               f == Halt(d)
    <2>1. Fields(d, s, u, e, t, {}, o, h, p)
      BY <1>4, ClearedAll
    <2>2. InFirst(c) = [f EXCEPT !.state = s1]
      BY <1>4
    <2> HIDE DEF d
    <2>3. Fields(f, s, u, e, t, {}, o, TRUE, p)
      BY <2>1, HaltBegun
    <2> HIDE DEF f
    <2>4. Fields(InFirst(c), s1, u, e, t, {}, o, TRUE, p)
      <3>1. Fields([f EXCEPT !.state = s1], s1, u, e, t, {}, o, TRUE, p)
        BY <1>4, <2>3, StateSet
      <3> QED  BY <2>2, <3>1
    <2>5. InIRQ(c) = InFirst(c)
      BY <1>2, <2>4 DEF InIRQ, Fields
    <2> QED  BY <2>4, <2>5
  <1>5. ASSUME i = {"STALL"}
        PROVE  Fields(InIRQ(c), "STALL", u, e, t, {}, o, TRUE, p)
    <2>1. InFirst(c) = [Halt(Clear(c, {"NAK", "STALL"})) EXCEPT !.state = "STALL"]
      BY <1>0, <1>5 DEF InFirst
    <2>2. "STALL" \in HcStates
      BY Constants
    <2> QED  BY <1>4, <1>5, <2>1, <2>2
  <1>6. ASSUME i = {"DTERR"}
        PROVE  Fields(InIRQ(c), "DATATGLERR", u, e, t, {}, o, TRUE, p)
    <2>1. InFirst(c) = [Halt(Clear(c, {"NAK", "DTERR"})) EXCEPT !.state = "DATATGLERR"]
      BY <1>0, <1>6 DEF InFirst
    <2>2. "DATATGLERR" \in HcStates
      BY Constants
    <2> QED  BY <1>4, <1>6, <2>1, <2>2
  <1>7. ASSUME i = {"TXERR"}
        PROVE  Fields(InIRQ(c), "XACTERR", u, e + 1, t, {}, o, TRUE, p)
    <2> DEFINE d == Clear(c, {"TXERR"})
               f == [d EXCEPT !.state = "XACTERR", !.err = e + 1]
    <2>1. Fields(d, s, u, e, t, {}, o, h, p)
      BY <1>7, ClearedAll
    <2>2. d.err = e
      BY <2>1 DEF Fields
    <2>3. "XACTERR" \in HcStates
      BY Constants
    <2>4. InIRQ(c) = Halt(f)
      <3>1. InIRQ(c) = Halt([d EXCEPT !.state = "XACTERR", !.err = d.err + 1])
        BY <1>0, <1>1, <1>7 DEF InSecond, InIRQ
      <3> QED  BY <2>2, <3>1
    <2> HIDE DEF d
    <2>5. Fields(f, "XACTERR", u, e + 1, t, {}, o, h, p)
      BY <1>0, <2>1, <2>3, StateErrSet
    <2> HIDE DEF f
    <2>6. Fields(Halt(f), "XACTERR", u, e + 1, t, {}, o, TRUE, p)
      BY <2>5, HaltBegun
    <2> QED  BY <2>4, <2>6
  <1>8. ASSUME i = {"NAK"}
        PROVE  Fields(InIRQ(c), "NAK", u, 0, t, {}, o, TRUE, p)
    <2> DEFINE d == [c EXCEPT !.err = 0]
               f == Clear(d, {"NAK"})
               g == Halt(f)
    <2>1. Fields(d, s, u, 0, t, i, o, h, p)
      BY Constants, ErrSet
    <2>2. InIRQ(c) = [g EXCEPT !.state = "NAK"]
      BY <1>0, <1>1, <1>8 DEF InSecond, InIRQ, InNak, IsBulk
    <2>3. "NAK" \in HcStates
      BY Constants
    <2> HIDE DEF d
    <2>4. Fields(f, s, u, 0, t, {}, o, h, p)
      BY <1>8, <2>1, ClearedAll
    <2> HIDE DEF f
    <2>5. Fields(g, s, u, 0, t, {}, o, TRUE, p)
      BY <2>4, HaltBegun
    <2> HIDE DEF g
    <2>6. Fields([g EXCEPT !.state = "NAK"], "NAK", u, 0, t, {}, o, TRUE, p)
      BY <2>3, <2>5, StateSet
    <2> QED  BY <2>2, <2>6
  <1> QED  BY <1>3, <1>5, <1>6, <1>7, <1>8

\* The halt of an IN channel.
LEMMA InHaltEffect ==
  ASSUME kind = "bulk_in",
         NEW c, NEW s, NEW u, NEW e, NEW t, NEW o, NEW h, NEW p,
         Fields(c, s, u, e, t, {"CHH"}, o, h, p)
  PROVE  /\ s = "XFRC"  => Fields(InIRQ(c), s, "DONE", e, t, {}, o, h, p)
         /\ s = "STALL" => Fields(InIRQ(c), s, "STALL", e, t, {}, o, h, p)
         /\ s = "NAK"   => Fields(InIRQ(c), s, "NOTREADY", e, t, {}, TRUE, h, p)
         /\ s \in {"XACTERR", "DATATGLERR"} =>
              \E e1, u1 :
                Tally(e, e1, u1) /\ Fields(InIRQ(c), s, u1, e1, t, {}, TRUE, h, p)
  <1> DEFINE d == HaltServed(c)
  <1>1. Fields(d, s, u, e, t, {"CHH"} \ {"CHH"}, o, h, p)
    BY HaltEnded
  <1>2. Fields(d, s, u, e, t, {}, o, h, p)
    <2>1. {"CHH"} \ {"CHH"} = {}
      OBVIOUS
    <2> QED  BY <1>1, <2>1
  <1>3. InIRQ(c) = InHalted(d)
    <2>1. c.int = {"CHH"}
      BY DEF Fields
    <2>2. InFirst(c) = c
      BY <2>1 DEF InFirst
    <2> QED  BY <2>1, <2>2 DEF InSecond, InIRQ
  <1>4. d.state = s
    BY <1>2 DEF Fields
  <1>5. IsIn = TRUE
    BY DEF IsIn
  <1> HIDE DEF d
  <1>6. ASSUME s = "XFRC"
        PROVE  Fields(InHalted(d), s, "DONE", e, t, {}, o, h, p)
    <2>1. InHalted(d) = [d EXCEPT !.urb = "DONE"]
      BY <1>4, <1>6 DEF InHalted
    <2>2. "DONE" \in UrbStates
      BY Constants
    <2> QED  BY <1>2, <2>1, <2>2, UrbSet
  <1>7. ASSUME s = "STALL"
        PROVE  Fields(InHalted(d), s, "STALL", e, t, {}, o, h, p)
    <2>1. InHalted(d) = [d EXCEPT !.urb = "STALL"]
      BY <1>4, <1>7 DEF InHalted
    <2>2. "STALL" \in UrbStates
      BY Constants
    <2> QED  BY <1>2, <2>1, <2>2, UrbSet
  <1>8. ASSUME s = "NAK"
        PROVE  Fields(InHalted(d), s, "NOTREADY", e, t, {}, TRUE, h, p)
    <2>1. InHalted(d) = Reactivate([d EXCEPT !.urb = "NOTREADY"])
      BY <1>4, <1>8 DEF InHalted
    <2>2. "NOTREADY" \in UrbStates
      BY Constants
    <2>3. Fields([d EXCEPT !.urb = "NOTREADY"], s, "NOTREADY", e, t, {}, o, h, p)
      BY <1>2, <2>2, UrbSet
    <2> QED  BY <1>5, <2>1, <2>3, Reactivated
  <1>9. ASSUME s \in {"XACTERR", "DATATGLERR"}
        PROVE  \E e1, u1 :
                 Tally(e, e1, u1) /\ Fields(InHalted(d), s, u1, e1, t, {}, TRUE, h, p)
    <2>1. InHalted(d) = CountFailure(d)
      BY <1>4, <1>9 DEF InHalted
    <2>2. \E e1, u1 : Tally(e, e1, u1) /\ Fields(CountFailure(d), s, u1, e1, t, {}, TRUE, h, p)
      BY <1>2, <1>5, Counted
    <2> QED  BY <2>1, <2>2
  <1> QED  BY <1>3, <1>6, <1>7, <1>8, <1>9

LEMMA OutEffect ==
  ASSUME NEW c, NEW s, NEW u, NEW e, NEW t, NEW i, NEW o, NEW h, NEW p,
         Fields(c, s, u, e, t, i, o, h, p)
  PROVE  /\ i = {"XFRC"}  => Fields(OutIRQ(c), "XFRC", u, 0, t, {}, o, TRUE, p)
         /\ i = {"STALL"} => Fields(OutIRQ(c), "STALL", u, e, t, {}, o, TRUE, p)
         /\ i = {"TXERR"} => Fields(OutIRQ(c), "XACTERR", u, e, t, {}, o, TRUE, p)
         /\ i = {"NAK"}   => Fields(OutIRQ(c), "NAK", u, 0, t, {}, o, TRUE, p)
  <1>1. c.int = i
    BY DEF Fields
  <1>2. ASSUME NEW b, i = {b}
        PROVE  Fields(Halt(Clear(c, {b})), s, u, e, t, {}, o, TRUE, p)
    <2>1. Fields(Clear(c, {b}), s, u, e, t, {}, o, h, p)
      BY <1>2, ClearedAll
    <2> QED  BY <2>1, HaltBegun
  <1>3. ASSUME i = {"XFRC"}
        PROVE  Fields(OutIRQ(c), "XFRC", u, 0, t, {}, o, TRUE, p)
    <2> DEFINE d == Halt(Clear(c, {"XFRC"}))
    <2>1. OutIRQ(c) = [d EXCEPT !.err = 0, !.state = "XFRC"]
      BY <1>1, <1>3 DEF OutIRQ
    <2>2. "XFRC" \in HcStates
      BY Constants
    <2>3. Fields(d, s, u, e, t, {}, o, TRUE, p)
      BY <1>2, <1>3
    <2> HIDE DEF d
    <2>4. Fields([d EXCEPT !.err = 0, !.state = "XFRC"], "XFRC", u, 0, t, {}, o, TRUE, p)
      BY <2>2, <2>3, Constants, ErrStateSet
    <2> QED  BY <2>1, <2>4
  <1>4. ASSUME i = {"STALL"}
        PROVE  Fields(OutIRQ(c), "STALL", u, e, t, {}, o, TRUE, p)
    <2> DEFINE d == Halt(Clear(c, {"STALL"}))
    <2>1. OutIRQ(c) = [d EXCEPT !.state = "STALL"]
      BY <1>1, <1>4 DEF OutIRQ
    <2>2. "STALL" \in HcStates
      BY Constants
    <2>3. Fields(d, s, u, e, t, {}, o, TRUE, p)
      BY <1>2, <1>4
    <2> HIDE DEF d
    <2>4. Fields([d EXCEPT !.state = "STALL"], "STALL", u, e, t, {}, o, TRUE, p)
      BY <2>2, <2>3, StateSet
    <2> QED  BY <2>1, <2>4
  <1>5. ASSUME i = {"TXERR"}
        PROVE  Fields(OutIRQ(c), "XACTERR", u, e, t, {}, o, TRUE, p)
    <2> DEFINE d == Halt(Clear(c, {"TXERR"}))
    <2>1. OutIRQ(c) = [d EXCEPT !.state = "XACTERR"]
      BY <1>1, <1>5 DEF OutIRQ
    <2>2. "XACTERR" \in HcStates
      BY Constants
    <2>3. Fields(d, s, u, e, t, {}, o, TRUE, p)
      BY <1>2, <1>5
    <2> HIDE DEF d
    <2>4. Fields([d EXCEPT !.state = "XACTERR"], "XACTERR", u, e, t, {}, o, TRUE, p)
      BY <2>2, <2>3, StateSet
    <2> QED  BY <2>1, <2>4
  <1>6. ASSUME i = {"NAK"}
        PROVE  Fields(OutIRQ(c), "NAK", u, 0, t, {}, o, TRUE, p)
    <2> DEFINE d == Halt(Clear(c, {"NAK"}))
    <2>1. OutIRQ(c) = [d EXCEPT !.err = 0, !.state = "NAK"]
      BY <1>1, <1>6 DEF OutIRQ
    <2>2. "NAK" \in HcStates
      BY Constants
    <2>3. Fields(d, s, u, e, t, {}, o, TRUE, p)
      BY <1>2, <1>6
    <2> HIDE DEF d
    <2>4. Fields([d EXCEPT !.err = 0, !.state = "NAK"], "NAK", u, 0, t, {}, o, TRUE, p)
      BY <2>2, <2>3, Constants, ErrStateSet
    <2> QED  BY <2>1, <2>4
  <1> QED  BY <1>3, <1>4, <1>5, <1>6

\* The halt of an OUT channel.
LEMMA OutHaltEffect ==
  ASSUME kind = "bulk_out",
         NEW c, NEW s, NEW u, NEW e, NEW t, NEW o, NEW h, NEW p,
         Fields(c, s, u, e, t, {"CHH"}, o, h, p), ~o
  PROVE  /\ s = "XFRC"  => Fields(OutIRQ(c), s, "DONE", e, Flip(t), {}, o, h, p)
         /\ s = "STALL" => Fields(OutIRQ(c), s, "STALL", e, t, {}, o, h, p)
         /\ s = "NAK"   => Fields(OutIRQ(c), s, "NOTREADY", e, t, {}, o, h, p)
         /\ s \in {"XACTERR", "DATATGLERR"} =>
              \E e1, u1 :
                Tally(e, e1, u1) /\ Fields(OutIRQ(c), s, u1, e1, t, {}, o, h, p)
  <1> DEFINE d == HaltServed(c)
  <1>1. Fields(d, s, u, e, t, {"CHH"} \ {"CHH"}, o, h, p)
    BY HaltEnded
  <1>2. Fields(d, s, u, e, t, {}, o, h, p)
    <2>1. {"CHH"} \ {"CHH"} = {}
      OBVIOUS
    <2> QED  BY <1>1, <2>1
  <1>3. OutIRQ(c) = OutHalted(d)
    <2>1. c.int = {"CHH"}
      BY DEF Fields
    <2> QED  BY <2>1 DEF OutIRQ
  <1>4. d.state = s /\ d.toggle = t /\ t \in Toggles
    BY <1>2 DEF Fields, Channels
  <1>5. o \in BOOLEAN /\ IsIn = o
    BY DEF IsIn, Fields, Channels
  <1> HIDE DEF d
  <1>6. ASSUME s = "XFRC"
        PROVE  Fields(OutHalted(d), s, "DONE", e, Flip(t), {}, o, h, p)
    <2>1. OutHalted(d) = [d EXCEPT !.urb = "DONE", !.toggle = Flip(t)]
      BY <1>4, <1>6 DEF OutHalted
    <2>2. "DONE" \in UrbStates /\ Flip(t) \in Toggles
      BY <1>4, Constants, Flipped
    <2>3. Fields([d EXCEPT !.urb = "DONE", !.toggle = Flip(t)], s, "DONE", e, Flip(t), {},
                 o, h, p)
      BY <1>2, <2>2, UrbToggleSet
    <2> QED  BY <2>1, <2>3
  <1>7. ASSUME s = "STALL"
        PROVE  Fields(OutHalted(d), s, "STALL", e, t, {}, o, h, p)
    <2>1. OutHalted(d) = [d EXCEPT !.urb = "STALL"]
      BY <1>4, <1>7 DEF OutHalted
    <2>2. "STALL" \in UrbStates
      BY Constants
    <2> QED  BY <1>2, <2>1, <2>2, UrbSet
  <1>8. ASSUME s = "NAK"
        PROVE  Fields(OutHalted(d), s, "NOTREADY", e, t, {}, o, h, p)
    <2>1. OutHalted(d) = [d EXCEPT !.urb = "NOTREADY"]
      BY <1>4, <1>8 DEF OutHalted
    <2>2. "NOTREADY" \in UrbStates
      BY Constants
    <2> QED  BY <1>2, <2>1, <2>2, UrbSet
  <1>9. ASSUME s \in {"XACTERR", "DATATGLERR"}
        PROVE  \E e1, u1 :
                 Tally(e, e1, u1) /\ Fields(OutHalted(d), s, u1, e1, t, {}, o, h, p)
    <2>1. OutHalted(d) = CountFailure(d)
      BY <1>4, <1>9 DEF OutHalted
    <2> QED  BY <1>2, <1>5, <2>1, Counted
  <1> QED  BY <1>3, <1>6, <1>7, <1>8, <1>9

-----------------------------------------------------------------------------
(* Types. *)

LEMMA Closed ==
  ASSUME NEW c \in Channels
  PROVE  /\ \A bits : Clear(c, bits) \in Channels
         /\ Halt(c) \in Channels /\ HaltServed(c) \in Channels
         /\ Reactivate(c) \in Channels /\ CountFailure(c) \in Channels
         /\ \A s \in HcStates : [c EXCEPT !.state = s] \in Channels
         /\ \A u \in UrbStates : [c EXCEPT !.urb = u] \in Channels
         /\ \A e \in Nat : [c EXCEPT !.err = e] \in Channels
         /\ \A t \in Toggles : [c EXCEPT !.toggle = t] \in Channels
         /\ c.err + 1 \in Nat /\ Flip(c.toggle) \in Toggles
  <1>1. ASSUME NEW d \in Channels
        PROVE  Reactivate(d) \in Channels
    <2>1. IsIn \in BOOLEAN
      BY DEF IsIn
    <2>2. PICK b \in BOOLEAN : IsIn = b
      BY <2>1
    <2>3. Reactivate(d) = [d EXCEPT !.on = b]
      BY <2>2 DEF Reactivate
    <2>4. [d EXCEPT !.on = b] \in Channels
      BY DEF Channels
    <2> QED  BY <2>3, <2>4
  <1>2. ASSUME NEW e \in Nat, NEW u \in UrbStates
        PROVE  [c EXCEPT !.err = e, !.urb = u] \in Channels
    BY DEF Channels
  <1>3. c.err \in Nat /\ c.err + 1 \in Nat /\ Flip(c.toggle) \in Toggles
    BY DEF Channels, Flip, Toggles
  <1>4. CountFailure(c) \in Channels
    <2>1. "ERROR" \in UrbStates /\ "NOTREADY" \in UrbStates
      BY Constants
    <2>2. [c EXCEPT !.err = 0, !.urb = "ERROR"] \in Channels
      BY <1>2, <2>1
    <2>3. [c EXCEPT !.err = c.err + 1, !.urb = "NOTREADY"] \in Channels
      BY <1>2, <1>3, <2>1
    <2>4. CASE c.err > 3
      <3>1. CountFailure(c) = Reactivate([c EXCEPT !.err = 0, !.urb = "ERROR"])
        BY <2>4 DEF CountFailure
      <3> QED  BY <1>1, <2>2, <3>1
    <2>5. CASE ~(c.err > 3)
      <3>1. CountFailure(c) = Reactivate([c EXCEPT !.err = c.err + 1, !.urb = "NOTREADY"])
        BY <2>5 DEF CountFailure
      <3> QED  BY <1>1, <2>3, <3>1
    <2> QED  BY <2>4, <2>5
  <1>5. \A bits : Clear(c, bits) \in Channels
    BY DEF Clear, Channels
  <1>6. Halt(c) \in Channels
    BY DEF Halt, Channels
  <1>7. HaltServed(c) \in Channels
    BY DEF HaltServed, Channels
  <1>8. \A s \in HcStates : [c EXCEPT !.state = s] \in Channels
    BY DEF Channels
  <1>9. \A u \in UrbStates : [c EXCEPT !.urb = u] \in Channels
    BY DEF Channels
  <1>10. \A e \in Nat : [c EXCEPT !.err = e] \in Channels
    BY DEF Channels
  <1>11. \A t \in Toggles : [c EXCEPT !.toggle = t] \in Channels
    BY DEF Channels
  <1> QED  BY <1>1, <1>3, <1>4, <1>5, <1>6, <1>7, <1>8, <1>9, <1>10, <1>11

LEMMA InFirstType ==
  ASSUME NEW c \in Channels
  PROVE  InFirst(c) \in Channels
  <1> DEFINE d == Halt(Clear(c, {"NAK", "STALL"}))
             f == Halt(Clear(c, {"NAK", "DTERR"}))
  <1>1. d \in Channels /\ f \in Channels /\ Clear(c, {"ACK"}) \in Channels
    BY Closed
  <1>2. InFirst(c) \in {Clear(c, {"ACK"}), [d EXCEPT !.state = "STALL"],
                        [f EXCEPT !.state = "DATATGLERR"], c}
    BY DEF InFirst
  <1> HIDE DEF d, f
  <1>3. [d EXCEPT !.state = "STALL"] \in Channels
    BY <1>1, Closed, Constants
  <1>4. [f EXCEPT !.state = "DATATGLERR"] \in Channels
    BY <1>1, Closed, Constants
  <1> QED  BY <1>1, <1>2, <1>3, <1>4

LEMMA InHaltedType ==
  ASSUME NEW c \in Channels
  PROVE  InHalted(c) \in Channels
  <1>1. /\ [c EXCEPT !.urb = "DONE"] \in Channels
        /\ [c EXCEPT !.urb = "STALL"] \in Channels
        /\ [c EXCEPT !.urb = "NOTREADY"] \in Channels
        /\ CountFailure(c) \in Channels
    BY Closed, Constants
  <1>2. Reactivate([c EXCEPT !.urb = "NOTREADY"]) \in Channels
    BY <1>1, Closed
  <1>3. InHalted(c) \in {[c EXCEPT !.urb = "DONE"], [c EXCEPT !.urb = "STALL"],
                         CountFailure(c), Reactivate([c EXCEPT !.urb = "NOTREADY"]), c,
                         [c EXCEPT !.urb = "NOTREADY"]}
    BY DEF InHalted
  <1> QED  BY <1>1, <1>2, <1>3

LEMMA InCompleteType ==
  ASSUME NEW c \in Channels
  PROVE  InComplete(c) \in Channels
  <1> DEFINE d == Clear(c, {"XFRC"})
             f == [d EXCEPT !.state = "XFRC", !.err = 0, !.toggle = Flip(d.toggle)]
  <1>1. InComplete(c) \in {Halt(Clear(f, {"NAK"})), [f EXCEPT !.urb = "DONE"]}
    BY DEF InComplete
  <1>2. d \in Channels
    BY Closed
  <1> HIDE DEF d
  <1>3. Flip(d.toggle) \in Toggles /\ "XFRC" \in HcStates
    BY <1>2, Closed, Constants
  <1>4. Fields(d, d.state, d.urb, d.err, d.toggle, d.int, d.on, d.halting, d.pid)
    BY <1>2, ByFields
  <1>5. Fields(f, "XFRC", d.urb, 0, Flip(d.toggle), d.int, d.on, d.halting, d.pid)
    BY <1>3, <1>4, Constants, StateErrToggleSet
  <1>6. f \in Channels
    BY <1>5 DEF Fields
  <1> HIDE DEF f
  <1>7. Halt(Clear(f, {"NAK"})) \in Channels /\ [f EXCEPT !.urb = "DONE"] \in Channels
    BY <1>6, Closed, Constants
  <1> QED  BY <1>1, <1>7

LEMMA InNakType ==
  ASSUME NEW c \in Channels
  PROVE  InNak(c) \in Channels
  <1> DEFINE d == Halt(Clear([c EXCEPT !.err = 0], {"NAK"}))
  <1>1. InNak(c) \in {[d EXCEPT !.state = "NAK"], d}
    BY DEF InNak
  <1>2. [c EXCEPT !.err = 0] \in Channels
    BY Closed, Constants
  <1>3. d \in Channels
    BY <1>2, Closed
  <1> HIDE DEF d
  <1>4. [d EXCEPT !.state = "NAK"] \in Channels
    BY <1>3, Closed, Constants
  <1> QED  BY <1>1, <1>3, <1>4

LEMMA InSecondType ==
  ASSUME NEW c \in Channels
  PROVE  InSecond(c) \in Channels
  <1> DEFINE d == Clear(c, {"TXERR"})
             f == [d EXCEPT !.state = "XACTERR", !.err = d.err + 1]
  <1>1. InSecond(c) \in {Halt(Clear(c, {"FRMOR"})), InComplete(c), InHalted(HaltServed(c)),
                         Halt(f), InNak(c), c}
    BY DEF InSecond
  <1>2. /\ Halt(Clear(c, {"FRMOR"})) \in Channels /\ InHalted(HaltServed(c)) \in Channels
        /\ InComplete(c) \in Channels /\ InNak(c) \in Channels /\ d \in Channels
    BY Closed, InHaltedType, InCompleteType, InNakType
  <1> HIDE DEF d
  <1>3. d.err + 1 \in Nat /\ "XACTERR" \in HcStates
    BY <1>2, Closed, Constants
  <1>4. Fields(d, d.state, d.urb, d.err, d.toggle, d.int, d.on, d.halting, d.pid)
    BY <1>2, ByFields
  <1>5. Fields(f, "XACTERR", d.urb, d.err + 1, d.toggle, d.int, d.on, d.halting, d.pid)
    BY <1>3, <1>4, StateErrSet
  <1>6. f \in Channels
    BY <1>5 DEF Fields
  <1> HIDE DEF f
  <1>7. Halt(f) \in Channels
    BY <1>6, Closed
  <1> QED  BY <1>1, <1>2, <1>7

LEMMA OutIRQType ==
  ASSUME NEW c \in Channels
  PROVE  OutIRQ(c) \in Channels
  <1>1. ASSUME NEW d \in Channels
        PROVE  OutHalted(d) \in Channels
    <2>1. Flip(d.toggle) \in Toggles /\ "DONE" \in UrbStates
      BY Closed, Constants
    <2>2. Fields(d, d.state, d.urb, d.err, d.toggle, d.int, d.on, d.halting, d.pid)
      BY ByFields
    <2>3. Fields([d EXCEPT !.urb = "DONE", !.toggle = Flip(d.toggle)], d.state, "DONE", d.err,
                 Flip(d.toggle), d.int, d.on, d.halting, d.pid)
      BY <2>1, <2>2, UrbToggleSet
    <2>4. [d EXCEPT !.urb = "DONE", !.toggle = Flip(d.toggle)] \in Channels
      BY <2>3 DEF Fields
    <2>5. /\ [d EXCEPT !.urb = "NOTREADY"] \in Channels
          /\ [d EXCEPT !.urb = "STALL"] \in Channels
          /\ CountFailure(d) \in Channels
      BY Closed, Constants
    <2>6. OutHalted(d) \in {[d EXCEPT !.urb = "DONE", !.toggle = Flip(d.toggle)],
                            [d EXCEPT !.urb = "NOTREADY"], [d EXCEPT !.urb = "STALL"],
                            CountFailure(d), d}
      BY DEF OutHalted
    <2> QED  BY <2>4, <2>5, <2>6
  <1>2. ASSUME NEW d \in Channels, NEW s \in HcStates
        PROVE  /\ [d EXCEPT !.state = s] \in Channels
               /\ [d EXCEPT !.err = 0, !.state = s] \in Channels
    <2>1. Fields(d, d.state, d.urb, d.err, d.toggle, d.int, d.on, d.halting, d.pid)
      BY ByFields
    <2>2. Fields([d EXCEPT !.err = 0, !.state = s], s, d.urb, 0, d.toggle, d.int, d.on,
                 d.halting, d.pid)
      BY <2>1, Constants, ErrStateSet
    <2> QED  BY <2>2, Closed DEF Fields
  <1>3. ASSUME NEW b
        PROVE  Halt(Clear(c, {b})) \in Channels
    BY Closed
  <1>4. OutIRQ(c) \in {[Halt(Clear(c, {"XFRC"})) EXCEPT !.err = 0, !.state = "XFRC"],
                       [Halt(Clear(c, {"STALL"})) EXCEPT !.state = "STALL"],
                       [Halt(Clear(c, {"NAK"})) EXCEPT !.err = 0, !.state = "NAK"],
                       [Halt(Clear(c, {"TXERR"})) EXCEPT !.state = "XACTERR"],
                       OutHalted(HaltServed(c)), c}
    BY DEF OutIRQ
  <1>5. OutHalted(HaltServed(c)) \in Channels
    BY <1>1, Closed
  <1>6. \A s \in {"XFRC", "STALL", "NAK", "XACTERR"} : s \in HcStates
    BY Constants
  <1>7. [Halt(Clear(c, {"XFRC"})) EXCEPT !.err = 0, !.state = "XFRC"] \in Channels
    BY <1>2, <1>3, <1>6
  <1>8. [Halt(Clear(c, {"STALL"})) EXCEPT !.state = "STALL"] \in Channels
    BY <1>2, <1>3, <1>6
  <1>9. [Halt(Clear(c, {"NAK"})) EXCEPT !.err = 0, !.state = "NAK"] \in Channels
    BY <1>2, <1>3, <1>6
  <1>10. [Halt(Clear(c, {"TXERR"})) EXCEPT !.state = "XACTERR"] \in Channels
    BY <1>2, <1>3, <1>6
  <1> QED  BY <1>4, <1>5, <1>7, <1>8, <1>9, <1>10

LEMMA TypeStep ==
  ASSUME TypeOK, [Next]_vars
  PROVE  TypeOK'
  <1> DEFINE Callers == [pc : {"ready", "pid", "idle", "wait"}, pid : Toggles, packet : Nat]
             Devices == [toggle : Toggles, packet : Nat]
  <1>0. /\ kind \in Kinds /\ hc \in Channels /\ rx \in BOOLEAN
        /\ caller \in Callers /\ dev \in Devices
        /\ got \in Seq(Nat) /\ done \in Nat /\ strikes \in Nat /\ faults \in Nat
        /\ hc.toggle \in Toggles /\ caller.pid \in Toggles
    BY DEF TypeOK, Channels
  <1>1. kind' = kind
    BY DEF Next, Caller, Poll, IRQ, Device, DataInComplete, Halted, SubmitPid, SubmitIdle,
           SubmitStart, Advance, Resend, Nak, Stall, Overrun, TransactionError, DataIn,
           DataInToggle, DataOut, vars
  <1>2. ASSUME hc' \in Channels, rx' \in BOOLEAN, caller' \in Callers, dev' \in Devices,
               got' \in Seq(Nat), done' \in Nat, strikes' \in Nat, faults' \in Nat
        PROVE  TypeOK'
    BY <1>0, <1>1, <1>2 DEF TypeOK, Channels
  <1>3. ASSUME NEW c \in Channels, NEW p \in Toggles
        PROVE  Started(c, p) \in Channels
    BY DEF Started, Channels
  <1>4. ASSUME NEW bit \in Interrupts, Answered(bit)
        PROVE  hc' \in Channels
    BY <1>0, <1>4 DEF Answered, Channels
  <1>5. ASSUME NEW f, Commit(f)
        PROVE  faults' \in Nat
    BY <1>0, <1>5 DEF Commit
  <1>6. NextPacket(dev) \in Devices /\ Struck \in Nat
    BY <1>0 DEF NextPacket, Struck, Flip, Toggles
  <1>7. CASE SubmitPid
    <2>1. caller' \in Callers
      BY <1>0, <1>7 DEF SubmitPid
    <2> QED  BY <1>0, <1>2, <1>7, <2>1 DEF SubmitPid, ghosts
  <1>8. CASE SubmitIdle
    <2>1. hc' \in Channels
      BY <1>0, <1>8 DEF SubmitIdle, Channels, UrbStates, HcStates
    <2>2. caller' \in Callers
      BY <1>0, <1>8 DEF SubmitIdle
    <2> QED  BY <1>0, <1>2, <1>8, <2>1, <2>2 DEF SubmitIdle, ghosts
  <1>9. CASE SubmitStart
    <2>1. hc' \in Channels
      BY <1>0, <1>3, <1>9 DEF SubmitStart
    <2>2. caller' \in Callers
      BY <1>0, <1>9 DEF SubmitStart
    <2> QED  BY <1>0, <1>2, <1>9, <2>1, <2>2 DEF SubmitStart, ghosts
  <1>10. CASE Advance
    <2>1. caller.packet + 1 \in Nat /\ caller' = [caller EXCEPT !.pc = "ready",
                                                             !.packet = caller.packet + 1]
      BY <1>0, <1>10 DEF Advance
    <2>2. caller' \in Callers
      BY <1>0, <2>1
    <2> QED  BY <1>0, <1>2, <1>10, <2>2 DEF Advance, ghosts
  <1>11. CASE Resend
    <2>1. caller' \in Callers
      BY <1>0, <1>11 DEF Resend
    <2> QED  BY <1>0, <1>2, <1>11, <2>1 DEF Resend, ghosts
  <1>12. CASE Poll
    <2>1. [hc EXCEPT !.urb = "IDLE", !.state = "IDLE"] \in Channels
      BY <1>0 DEF Channels, UrbStates, HcStates
    <2>2. hc' \in Channels
      BY <1>0, <1>3, <1>12, <2>1 DEF Poll
    <2> QED  BY <1>0, <1>2, <1>12, <2>2 DEF Poll, ghosts
  <1>13. CASE IRQ
    <2>1. InIRQ(hc) \in Channels
      BY <1>0, InFirstType, InSecondType DEF InIRQ
    <2>2. hc' \in Channels
      BY <1>0, <1>13, <2>1, OutIRQType DEF IRQ
    <2>3. done' \in Nat /\ strikes' \in Nat
      BY <1>0, <1>13 DEF IRQ
    <2> QED  BY <1>0, <1>2, <1>13, <2>2, <2>3 DEF IRQ
  <1>14. CASE Nak
    <2>1. hc' \in Channels
      BY <1>4, <1>14 DEF Nak, Interrupts
    <2> QED  BY <1>0, <1>2, <1>14, <2>1 DEF Nak, ghosts
  <1>15. CASE Stall
    <2>1. hc' \in Channels /\ faults' \in Nat
      BY <1>4, <1>5, <1>15 DEF Stall, Interrupts
    <2> QED  BY <1>0, <1>2, <1>15, <2>1 DEF Stall
  <1>16. CASE Overrun
    <2>1. hc' \in Channels /\ faults' \in Nat
      BY <1>4, <1>5, <1>16 DEF Overrun, Interrupts
    <2> QED  BY <1>0, <1>2, <1>16, <2>1 DEF Overrun
  <1>17. CASE TransactionError
    <2>1. hc' \in Channels /\ faults' \in Nat /\ strikes' \in Nat
      BY <1>4, <1>5, <1>6, <1>17 DEF TransactionError, Interrupts
    <2> QED  BY <1>0, <1>2, <1>17, <2>1 DEF TransactionError
  <1>18. CASE DataIn
    <2>1. hc' \in Channels
      BY <1>0, <1>18 DEF DataIn, Channels, Interrupts
    <2>2. dev' \in Devices /\ faults' \in Nat
      BY <1>0, <1>5, <1>6, <1>18 DEF DataIn
    <2>3. dev.packet \in Nat
      BY <1>0
    <2>4. got' \in Seq(Nat)
      <3>1. got \in Seq(Nat)
        BY <1>0
      <3>2. got' = Append(got, dev.packet) \/ got' = got
        BY <1>18 DEF DataIn
      <3>3. QED
        BY <2>3, <3>1, <3>2
    <2> QED  BY <1>0, <1>2, <1>18, <2>1, <2>2, <2>4 DEF DataIn
  <1>19. CASE DataInToggle
    <2>1. hc' \in Channels /\ strikes' \in Nat
      BY <1>4, <1>6, <1>19 DEF DataInToggle, Interrupts
    <2>2. dev' \in Devices /\ faults' \in Nat
      BY <1>0, <1>5, <1>6, <1>19 DEF DataInToggle
    <2> QED  BY <1>0, <1>2, <1>19, <2>1, <2>2 DEF DataInToggle
  <1>20. CASE DataOut
    <2>1. hc' \in Channels
      BY <1>4, <1>20 DEF DataOut, Interrupts
    <2>2. strikes' \in Nat /\ faults' \in Nat
      BY <1>0, <1>5, <1>6, <1>20 DEF DataOut
    <2>3. caller.packet \in Nat
      BY <1>0
    <2>4. /\ got' = Append(got, caller.packet) \/ got' = got
          /\ dev' = NextPacket(dev) \/ dev' = dev
      BY <1>20 DEF DataOut, Received
    <2>5. got' \in Seq(Nat)
      <3>1. got \in Seq(Nat)
        BY <1>0
      <3>2. QED
        BY <2>3, <2>4, <3>1
    <2>6. dev' \in Devices
      BY <1>0, <1>6, <2>4
    <2> QED  BY <1>0, <1>2, <1>20, <2>1, <2>2, <2>5, <2>6 DEF DataOut
  <1>21. CASE DataInComplete
    <2>1. hc' \in Channels
      BY <1>0, <1>21 DEF DataInComplete, Channels, Interrupts
    <2> QED  BY <1>0, <1>2, <1>21, <2>1 DEF DataInComplete, ghosts
  <1>22. CASE Halted
    <2>1. hc' \in Channels
      BY <1>0, <1>22 DEF Halted, Channels, Interrupts
    <2> QED  BY <1>0, <1>2, <1>22, <2>1 DEF Halted, ghosts
  <1>23. CASE UNCHANGED vars
    BY <1>0, <1>2, <1>23 DEF vars, ghosts
  <1> QED  BY <1>7, <1>8, <1>9, <1>10, <1>11, <1>12, <1>13, <1>14, <1>15, <1>16, <1>17,
              <1>18, <1>19, <1>20, <1>21, <1>22, <1>23 DEF Next, Caller, Device

LEMMA InitType ==
  ASSUME Init
  PROVE  TypeOK
  <1>1. hc \in Channels
    BY DEF Init, Channels, HcStates, UrbStates, Toggles, Interrupts
  <1>2. caller \in [pc : {"ready", "pid", "idle", "wait"}, pid : Toggles, packet : Nat]
    BY DEF Init, Toggles
  <1>3. dev \in [toggle : Toggles, packet : Nat]
    BY DEF Init, Toggles
  <1>4. got \in Seq(Nat)
    BY DEF Init
  <1> QED  BY <1>1, <1>2, <1>3, <1>4 DEF Init, TypeOK

\* The types of HostChannel, whatever the endpoint does.
THEOREM TypesKept == Spec => []TypeOK
  BY InitType, TypeStep, PTL DEF Spec

-----------------------------------------------------------------------------
(* The invariant of a bulk channel, one step after the other. *)

LEMMA BitSets ==
  ASSUME NEW a, NEW b
  PROVE  {a} # {} /\ ({a} = {b} => a = b) /\ {} \union {a} = {a}
  OBVIOUS

\* What the assumptions of every step say of the fields.
LEMMA BulkTypes ==
  ASSUME TypeOK
  PROVE  /\ hc.toggle \in Toggles /\ hc.pid \in Toggles /\ dev.toggle \in Toggles
         /\ hc.on \in BOOLEAN /\ hc.halting \in BOOLEAN /\ rx \in BOOLEAN
         /\ dev.packet \in Nat /\ caller.packet \in Nat /\ caller.pid \in Toggles
         /\ caller.pc \in {"ready", "pid", "idle", "wait"}
         /\ hc.state \in HcStates /\ hc.urb \in UrbStates
         /\ done \in Nat /\ got \in Seq(Nat) /\ Len(got) \in Nat
  <1>1. hc \in Channels
    BY DEF TypeOK
  <1>2. /\ hc.toggle \in Toggles /\ hc.pid \in Toggles
        /\ hc.on \in BOOLEAN /\ hc.halting \in BOOLEAN
        /\ hc.state \in HcStates /\ hc.urb \in UrbStates
    BY <1>1 DEF Channels
  <1>3. dev.toggle \in Toggles /\ dev.packet \in Nat
    BY DEF TypeOK
  <1>4. /\ caller.packet \in Nat /\ caller.pid \in Toggles
        /\ caller.pc \in {"ready", "pid", "idle", "wait"}
    BY DEF TypeOK
  <1>5. done \in Nat /\ got \in Seq(Nat) /\ rx \in BOOLEAN
    BY DEF TypeOK
  <1>6. Len(got) \in Nat
    BY <1>5
  <1> QED  BY <1>2, <1>3, <1>4, <1>5, <1>6

LEMMA CallerStep ==
  ASSUME TypeOK, IsBulk, ChannelInv, Caller
  PROVE  ChannelInv' /\ UNCHANGED <<got, done>>
  <1>1. OnePlace /\ CallerPlaced /\ (kind = "bulk_in" => InAgrees)
        /\ (kind = "bulk_out" => OutAgrees)
    BY DEF ChannelInv
  <1>2. CASE SubmitPid
    <2>1. /\ caller'.pc = "pid" /\ caller'.pid = hc.toggle /\ caller'.packet = caller.packet
          /\ UNCHANGED <<kind, hc, rx, dev, got, done>>
      BY <1>2, BulkTypes DEF SubmitPid, ghosts, TypeOK
    <2>2. caller.pc = "ready"
      BY <1>2 DEF SubmitPid
    <2>3. OnePlace' /\ CallerPlaced'
      BY <1>1, <2>1, <2>2 DEF OnePlace, CallerPlaced, Quiet, Ends, Completed
    <2>4. (InAgrees => InAgrees') /\ (OutAgrees => OutAgrees')
      BY <2>1, <2>2 DEF InAgrees, OutAgrees, Complete, Completed, Ends, NextToggle
    <2> QED  BY <1>1, <2>1, <2>3, <2>4 DEF ChannelInv
  <1>3. CASE SubmitIdle
    <2>1. /\ caller'.pc = "idle" /\ caller'.pid = caller.pid /\ caller'.packet = caller.packet
          /\ UNCHANGED <<kind, rx, dev, got, done>>
      BY <1>3 DEF SubmitIdle, ghosts, TypeOK
    <2>2. /\ hc'.urb = "IDLE" /\ hc'.state = "IDLE" /\ hc'.int = hc.int /\ hc'.on = hc.on
          /\ hc'.halting = hc.halting /\ hc'.pid = hc.pid /\ hc'.toggle = hc.toggle
      BY <1>3 DEF SubmitIdle, TypeOK, Channels
    <2>3. caller.pc = "pid"
      BY <1>3 DEF SubmitIdle
    <2>4. Quiet
      BY <1>1, <2>3 DEF CallerPlaced
    <2>5. OnePlace' /\ CallerPlaced'
      BY <1>1, <2>1, <2>2, <2>3, <2>4, BitSets
         DEF OnePlace, CallerPlaced, Quiet, Ends, Completed
    <2>6. (InAgrees => InAgrees') /\ (OutAgrees => OutAgrees')
      BY <2>1, <2>2, <2>3, <2>4, BitSets
         DEF InAgrees, OutAgrees, Quiet, Complete, Completed, Ends, NextToggle
    <2> QED  BY <1>1, <2>1, <2>5, <2>6 DEF ChannelInv
  <1>4. CASE SubmitStart
    <2>1. /\ caller'.pc = "wait" /\ caller'.packet = caller.packet
          /\ UNCHANGED <<kind, rx, dev, got, done>>
      BY <1>4 DEF SubmitStart, ghosts, TypeOK
    <2>2. /\ hc'.urb = hc.urb /\ hc'.state = hc.state /\ hc'.int = hc.int /\ hc'.on = TRUE
          /\ hc'.halting = hc.halting /\ hc'.pid = caller.pid /\ hc'.toggle = hc.toggle
      BY <1>4 DEF SubmitStart, Started, TypeOK, Channels
    <2>3. caller.pc = "idle"
      BY <1>4 DEF SubmitStart
    <2>4. Quiet /\ hc.urb = "IDLE" /\ hc.state = "IDLE" /\ caller.pid = hc.toggle
      BY <1>1, <2>3 DEF CallerPlaced
    <2>5. OnePlace' /\ CallerPlaced'
      BY <1>1, <2>1, <2>2, <2>3, <2>4, BitSets
         DEF OnePlace, CallerPlaced, Quiet, Ends, Completed
    <2>6. (InAgrees => InAgrees') /\ (OutAgrees => OutAgrees')
      BY <2>1, <2>2, <2>3, <2>4, BitSets
         DEF InAgrees, OutAgrees, Quiet, Complete, Completed, Ends, NextToggle
    <2> QED  BY <1>1, <2>1, <2>5, <2>6 DEF ChannelInv
  <1>5. CASE Advance
    <2>1. /\ caller'.pc = "ready" /\ caller'.packet = caller.packet + 1
          /\ UNCHANGED <<kind, hc, rx, dev, got, done>>
      BY <1>5 DEF Advance, ghosts, TypeOK
    <2>2. caller.pc = "wait" /\ hc.urb = "DONE"
      BY <1>5 DEF Advance
    <2>3. Quiet
      BY <1>1, <2>2 DEF CallerPlaced
    <2>4. OnePlace' /\ CallerPlaced'
      BY <1>1, <2>1, <2>2, <2>3 DEF OnePlace, CallerPlaced, Quiet, Ends, Completed
    <2>5. (InAgrees => InAgrees') /\ (OutAgrees => OutAgrees')
      BY <2>1, <2>2 DEF InAgrees, OutAgrees, Complete, Completed, Ends, NextToggle
    <2> QED  BY <1>1, <2>1, <2>4, <2>5 DEF ChannelInv
  <1>6. CASE Resend
    <2>1. /\ caller'.pc = "ready" /\ caller'.packet = caller.packet
          /\ UNCHANGED <<kind, hc, rx, dev, got, done>>
      BY <1>6 DEF Resend, ghosts, TypeOK
    <2>2. caller.pc = "wait" /\ hc.urb = "NOTREADY" /\ kind = "bulk_out"
      BY <1>6 DEF Resend
    <2>3. Quiet
      BY <1>1, <2>2 DEF CallerPlaced
    <2>4. OnePlace' /\ CallerPlaced'
      BY <1>1, <2>1, <2>2, <2>3 DEF OnePlace, CallerPlaced, Quiet, Ends, Completed
    <2>5. OutAgrees => OutAgrees'
      BY <2>1, <2>2 DEF OutAgrees, Complete, Completed, Ends
    <2> QED  BY <1>1, <2>1, <2>2, <2>4, <2>5 DEF ChannelInv
  <1> QED  BY <1>2, <1>3, <1>4, <1>5, <1>6 DEF Caller

\* A channel that sends its token: the transfer is nowhere else.
LEMMA OnBus ==
  ASSUME ChannelInv, IsBulk, hc.on
  PROVE  /\ ~rx /\ ~hc.halting /\ hc.int = {} /\ ~Quiet /\ ~Ends /\ ~Complete /\ ~Completed
         /\ caller.pc = "wait" /\ hc.pid = hc.toggle /\ hc.state # "XFRC" /\ hc.urb # "DONE"
         /\ ~(hc.urb = "NOTREADY" /\ kind = "bulk_out")
  BY BitSets DEF ChannelInv, OnePlace, CallerPlaced, Quiet, Ends, Complete, Completed

\* The fields the bus changes.
LEMMA AnsweredEffect ==
  ASSUME TypeOK, ChannelInv, IsBulk, hc.on, NEW bit, Answered(bit)
  PROVE  /\ hc'.int = {bit} /\ hc'.on = FALSE
         /\ hc'.state = hc.state /\ hc'.urb = hc.urb /\ hc'.toggle = hc.toggle
         /\ hc'.halting = hc.halting /\ hc'.pid = hc.pid
  <1>1. hc.int = {}
    BY OnBus
  <1>2. hc.int \union {bit} = {bit}
    BY <1>1
  <1> QED  BY <1>2 DEF Answered, TypeOK, Channels

\* The parts of the invariant that do not speak of the endpoint, after an answer.
LEMMA AnsweredPlaces ==
  ASSUME TypeOK, ChannelInv, IsBulk, hc.on, NEW bit \in Bits \ {"CHH"}, Answered(bit),
         UNCHANGED <<kind, rx, caller>>, bit = "DTERR" => kind = "bulk_in"
  PROVE  OnePlace' /\ CallerPlaced' /\ ~Completed' /\ (Complete' <=> bit = "XFRC")
  <1>1. /\ hc'.int = {bit} /\ hc'.on = FALSE
        /\ hc'.state = hc.state /\ hc'.urb = hc.urb /\ hc'.toggle = hc.toggle
        /\ hc'.halting = hc.halting /\ hc'.pid = hc.pid
    BY AnsweredEffect
  <1>2. OnePlace'
    BY <1>1, OnBus, BitSets DEF OnePlace
  <1>3. ~Quiet' /\ ~Ends' /\ ~Completed' /\ (Complete' <=> bit = "XFRC")
    BY <1>1, OnBus, BitSets DEF Quiet, Ends, Complete, Completed
  <1>4. CallerPlaced'
    BY <1>1, <1>3, OnBus, BitSets DEF CallerPlaced
  <1> QED  BY <1>2, <1>3, <1>4

LEMMA DeviceStep ==
  ASSUME TypeOK, IsBulk, ChannelInv, Device
  PROVE  ChannelInv' /\ [Stream!Next]_<<got, done>>
  <1>1. OnePlace /\ CallerPlaced /\ (kind = "bulk_in" => InAgrees)
        /\ (kind = "bulk_out" => OutAgrees)
    BY DEF ChannelInv
  <1>2. hc.on
    BY DEF Device, Nak, Stall, Overrun, TransactionError, DataIn, DataInToggle, DataOut
  <1>3. ~Complete /\ ~Completed
    BY <1>2, OnBus
  <1>4. NextPacket(dev).toggle = Flip(dev.toggle) /\ NextPacket(dev).packet = dev.packet + 1
    BY DEF NextPacket
  <1>5. ASSUME NEW bit \in {"NAK", "STALL", "TXERR"}, Answered(bit),
               UNCHANGED <<kind, rx, caller, dev, got, done>>
        PROVE  ChannelInv' /\ [Stream!Next]_<<got, done>>
    <2>1. bit \in Bits \ {"CHH"} /\ bit # "DTERR" /\ bit # "XFRC"
      BY DEF Bits
    <2>2. OnePlace' /\ CallerPlaced' /\ ~Completed' /\ ~Complete'
      BY <1>2, <1>5, <2>1, AnsweredPlaces
    <2>3. hc'.toggle = hc.toggle /\ hc'.urb = hc.urb
      BY <1>2, <1>5, AnsweredEffect
    <2>4. (InAgrees => InAgrees') /\ (OutAgrees => OutAgrees')
      BY <1>3, <1>5, <2>2, <2>3 DEF InAgrees, OutAgrees, NextToggle
    <2> QED  BY <1>1, <1>5, <2>2, <2>4 DEF ChannelInv
  <1>6. CASE Nak
    BY <1>5, <1>6 DEF Nak, ghosts
  <1>7. CASE Stall
    BY <1>5, <1>7 DEF Stall
  <1>8. CASE Overrun
    BY <1>8 DEF Overrun, IsBulk
  <1>9. CASE TransactionError
    BY <1>5, <1>9 DEF TransactionError
  <1>10. CASE DataIn
    <2>1. kind = "bulk_in"
      BY <1>10 DEF DataIn, IsIn, IsBulk
    <2>2. /\ hc'.int = {} /\ hc'.on = FALSE
          /\ hc'.state = hc.state /\ hc'.urb = hc.urb /\ hc'.toggle = hc.toggle
          /\ hc'.halting = hc.halting /\ hc'.pid = hc.pid
      BY <1>2, <1>10, OnBus DEF DataIn, TypeOK, Channels
    <2>3. rx' /\ got' = Append(got, dev.packet) /\ UNCHANGED <<kind, caller, done>>
      BY <1>10 DEF DataIn
    <2>4. OnePlace'
      BY <1>2, <2>1, <2>2, <2>3, OnBus DEF OnePlace
    <2>5. ~Quiet' /\ ~Ends' /\ ~Completed' /\ Complete'
      BY <1>2, <2>2, <2>3, OnBus, BitSets DEF Quiet, Ends, Complete, Completed
    <2>6. CallerPlaced'
      BY <1>2, <2>2, <2>3, <2>5, OnBus, BitSets DEF CallerPlaced
    <2>7. dev.toggle = hc.toggle
      BY <1>2, <1>10, OnBus DEF DataIn
    <2>8. dev.packet = Len(got) + 1 /\ Len(got) = done
      <3>1. dev.toggle # Flip(hc.toggle)
        BY <2>7, BulkTypes, Flipped
      <3>2. InAgrees
        BY <1>1, <2>1
      <3> QED  BY <1>3, <2>7, <3>1, <3>2 DEF InAgrees, NextToggle
    <2>9. Len(got') = Len(got) + 1
      BY <2>3, BulkTypes
    <2>10. \/ dev'.toggle = Flip(dev.toggle) /\ dev'.packet = dev.packet + 1
           \/ dev' = dev
      BY <1>4, <1>10 DEF DataIn
    <2>11. InAgrees'
      <3>1. Len(got') = done' + 1
        BY <2>3, <2>8, <2>9
      <3>2. NextToggle' = Flip(hc.toggle)
        BY <2>2, <2>5 DEF NextToggle
      <3>3. Flip(Flip(hc.toggle)) = hc.toggle
        BY BulkTypes, Flipped
      <3>4. \/ dev'.toggle = NextToggle' /\ dev'.packet = Len(got') + 1
            \/ dev'.toggle = Flip(NextToggle') /\ dev'.packet = Len(got')
        BY <2>7, <2>8, <2>9, <2>10, <3>2, <3>3
      <3> QED  BY <2>5, <3>1, <3>4 DEF InAgrees
    <2>12. Stream!Next
      BY <2>3, <2>8 DEF Stream!Next, Stream!Arrive
    <2> QED  BY <2>1, <2>3, <2>4, <2>6, <2>11, <2>12 DEF ChannelInv
  <1>11. CASE DataInToggle
    <2>1. kind = "bulk_in" /\ dev.toggle # hc.pid /\ Answered("DTERR")
          /\ UNCHANGED <<kind, rx, caller, got, done>>
      BY <1>11 DEF DataInToggle, IsIn, IsBulk
    <2>2. OnePlace' /\ CallerPlaced' /\ ~Completed' /\ ~Complete'
      BY <1>2, <2>1, AnsweredPlaces DEF Bits
    <2>3. hc'.toggle = hc.toggle /\ hc.pid = hc.toggle
      BY <1>2, <2>1, AnsweredEffect, OnBus
    <2>4. dev.toggle = Flip(hc.toggle) /\ dev.packet = Len(got) /\ Len(got) = done
      <3>1. InAgrees
        BY <1>1, <2>1
      <3> QED  BY <1>3, <2>1, <2>3, <3>1 DEF InAgrees, NextToggle
    <2>5. \/ dev'.toggle = Flip(dev.toggle) /\ dev'.packet = dev.packet + 1
          \/ dev' = dev
      BY <1>4, <1>11 DEF DataInToggle
    <2>6. Flip(Flip(hc.toggle)) = hc.toggle
      BY BulkTypes, Flipped
    <2>7. InAgrees'
      BY <2>1, <2>2, <2>3, <2>4, <2>5, <2>6 DEF InAgrees, NextToggle
    <2> QED  BY <2>1, <2>2, <2>7 DEF ChannelInv
  <1>12. CASE DataOut
    <2>1. kind = "bulk_out" /\ Received /\ UNCHANGED <<kind, rx, caller, done>>
      BY <1>12 DEF DataOut, IsIn, IsBulk
    <2>2. PICK bit \in {"XFRC", "TXERR"} : Answered(bit)
      BY <1>12 DEF DataOut
    <2>3. OnePlace' /\ CallerPlaced' /\ ~Completed' /\ (Complete' => bit = "XFRC")
      BY <1>2, <2>1, <2>2, AnsweredPlaces DEF Bits
    <2>4. hc'.toggle = hc.toggle /\ hc.pid = hc.toggle /\ hc'.urb = hc.urb
      BY <1>2, <2>2, AnsweredEffect, OnBus
    <2>5. caller.packet = done + 1 /\ OutAgrees
      BY <1>1, <1>2, <2>1, OnBus DEF OutAgrees
    <2>6. CASE dev.toggle = hc.pid
      <3>1. got' = Append(got, caller.packet) /\ dev'.toggle = Flip(dev.toggle)
        BY <1>4, <2>1, <2>6 DEF Received
      <3>2. Len(got) = done
        <4>1. dev.toggle # Flip(hc.toggle)
          BY <2>4, <2>6, BulkTypes, Flipped
        <4> QED  BY <2>5, <4>1 DEF OutAgrees
      <3>3. Len(got') = Len(got) + 1
        BY <3>1, BulkTypes
      <3>4. OutAgrees'
        BY <1>2, <2>1, <2>3, <2>4, <2>5, <2>6, <3>1, <3>2, <3>3, OnBus DEF OutAgrees
      <3>5. Stream!Next
        BY <2>1, <2>5, <3>1, <3>2 DEF Stream!Next, Stream!Arrive
      <3> QED  BY <2>1, <2>3, <3>4, <3>5 DEF ChannelInv
    <2>7. CASE dev.toggle # hc.pid
      <3>1. UNCHANGED <<got, dev>>
        BY <2>1, <2>7 DEF Received
      <3>2. dev.toggle = Flip(hc.toggle) /\ Len(got) = done + 1
        BY <2>4, <2>5, <2>7 DEF OutAgrees
      <3>3. OutAgrees'
        BY <1>2, <2>1, <2>3, <2>4, <2>5, <3>1, <3>2, OnBus DEF OutAgrees
      <3> QED  BY <2>1, <2>3, <3>1, <3>3 DEF ChannelInv
    <2> QED  BY <2>6, <2>7
  <1> QED  BY <1>6, <1>7, <1>8, <1>9, <1>10, <1>11, <1>12 DEF Device

\* The end of a transfer in the RX FIFO, and the halt of a channel.
LEMMA ControllerStep ==
  ASSUME TypeOK, IsBulk, ChannelInv, DataInComplete \/ Halted
  PROVE  ChannelInv' /\ UNCHANGED <<got, done>>
  <1>1. OnePlace /\ CallerPlaced /\ (kind = "bulk_in" => InAgrees)
        /\ (kind = "bulk_out" => OutAgrees)
    BY DEF ChannelInv
  <1>2. CASE DataInComplete
    <2>1. rx /\ ~rx' /\ UNCHANGED <<kind, caller, dev, got, done>>
      BY <1>2 DEF DataInComplete, ghosts
    <2>2. hc.int = {} /\ ~hc.halting /\ ~hc.on /\ kind = "bulk_in"
      BY <1>1, <2>1 DEF OnePlace
    <2>3. hc.int \union {"XFRC"} = {"XFRC"}
      BY <2>2
    <2>4. /\ hc'.int = {"XFRC"} /\ hc'.on = hc.on /\ hc'.state = hc.state
          /\ hc'.urb = hc.urb /\ hc'.toggle = hc.toggle /\ hc'.halting = hc.halting
          /\ hc'.pid = hc.pid
      BY <1>2, <2>3 DEF DataInComplete, TypeOK, Channels
    <2>5. ~Quiet /\ ~Ends /\ Complete /\ ~Completed
      BY <2>1, <2>2, BitSets DEF Quiet, Ends, Complete, Completed
    <2>6. ~Quiet' /\ ~Ends' /\ Complete' /\ ~Completed'
      BY <2>2, <2>4, BitSets DEF Quiet, Ends, Complete, Completed
    <2>7. OnePlace'
      BY <2>1, <2>2, <2>4, BitSets DEF OnePlace, Bits
    <2>8. CallerPlaced'
      BY <1>1, <2>1, <2>4, <2>5, <2>6, BitSets DEF CallerPlaced
    <2>9. InAgrees'
      BY <1>1, <2>1, <2>2, <2>4, <2>5, <2>6 DEF InAgrees, NextToggle
    <2> QED  BY <2>1, <2>2, <2>7, <2>8, <2>9 DEF ChannelInv
  <1>3. CASE Halted
    <2>1. hc.halting /\ UNCHANGED <<kind, rx, caller, dev, got, done>>
      BY <1>3 DEF Halted, ghosts
    <2>2. hc.int = {} /\ ~rx
      BY <1>1, <2>1 DEF OnePlace
    <2>3. hc.int \union {"CHH"} = {"CHH"}
      BY <2>2
    <2>4. /\ hc'.int = {"CHH"} /\ hc'.on = FALSE /\ hc'.state = hc.state
          /\ hc'.urb = hc.urb /\ hc'.toggle = hc.toggle /\ hc'.halting = FALSE
          /\ hc'.pid = hc.pid
      BY <1>3, <2>3 DEF Halted, TypeOK, Channels
    <2>5. ~Quiet /\ Ends /\ ~Complete
      BY <2>1, <2>2, BitSets DEF Quiet, Ends, Complete
    <2>6. ~Quiet' /\ Ends' /\ ~Complete' /\ (Completed' <=> Completed)
      BY <2>1, <2>2, <2>4, <2>5, BitSets DEF Quiet, Ends, Complete, Completed
    <2>7. OnePlace'
      BY <2>1, <2>2, <2>4 DEF OnePlace, Bits
    <2>8. CallerPlaced'
      BY <1>1, <2>1, <2>4, <2>5, <2>6, BitSets DEF CallerPlaced
    <2>9. (InAgrees => InAgrees') /\ (OutAgrees => OutAgrees')
      BY <2>1, <2>4, <2>5, <2>6 DEF InAgrees, OutAgrees, NextToggle
    <2> QED  BY <1>1, <2>1, <2>7, <2>8, <2>9 DEF ChannelInv
  <1> QED  BY <1>2, <1>3

\* A bit of HCINT is served: the transfer is not on the bus nor in the FIFO.
LEMMA Served ==
  ASSUME TypeOK, IsBulk, ChannelInv, IRQ
  PROVE  /\ \E b \in Bits : hc.int = {b}
         /\ ~hc.on /\ ~rx /\ ~hc.halting /\ ~Quiet /\ caller.pc = "wait" /\ hc.urb # "DONE"
         /\ ~(hc.urb = "NOTREADY" /\ kind = "bulk_out")
         /\ UNCHANGED <<kind, rx, caller, dev, got>>
  <1>1. hc.int # {}
    BY DEF IRQ
  <1>2. OnePlace /\ CallerPlaced
    BY DEF ChannelInv
  <1>3. ~Quiet
    BY <1>1 DEF Quiet
  <1>4. kind \in {"bulk_in", "bulk_out"}
    BY DEF IsBulk
  <1> QED  BY <1>1, <1>2, <1>3, BulkTypes DEF OnePlace, CallerPlaced, IRQ

\* All bits but CHH begin the halt of the channel.
LEMMA BitServed ==
  ASSUME TypeOK, IsBulk, ChannelInv, IRQ, NEW b \in Bits \ {"CHH"}, hc.int = {b},
         NEW s \in {"XFRC", "STALL", "NAK", "XACTERR", "DATATGLERR"}, NEW e, NEW t,
         Fields(hc', s, hc.urb, e, t, {}, hc.on, TRUE, hc.pid),
         s = "XFRC" <=> b = "XFRC",
         t = IF b = "XFRC" /\ kind = "bulk_in" THEN Flip(hc.toggle) ELSE hc.toggle
  PROVE  ChannelInv' /\ UNCHANGED <<got, done>>
  <1>1. /\ hc'.state = s /\ hc'.urb = hc.urb /\ hc'.toggle = t /\ hc'.int = {}
        /\ hc'.on = FALSE /\ hc'.halting = TRUE /\ hc'.pid = hc.pid
    BY Served, BulkTypes DEF Fields
  <1>2. "CHH" \notin hc.int \ hc'.int
    OBVIOUS
  <1>3. done' = done
    BY <1>2 DEF IRQ
  <1>4. Ends' /\ ~Complete' /\ ~Quiet' /\ (Completed' <=> b = "XFRC")
    BY <1>1, Served, BitSets DEF Ends, Complete, Quiet, Completed
  <1>5. ~Ends /\ ~Completed /\ (Complete <=> b = "XFRC")
    BY Served, BitSets DEF Ends, Complete, Completed
  <1>6. OnePlace'
    BY <1>1, Served DEF OnePlace
  <1>7. hc.pid = hc.toggle
    BY <1>5, Served DEF ChannelInv, CallerPlaced
  <1>8. CallerPlaced'
    BY <1>1, <1>4, <1>7, Served, BitSets DEF CallerPlaced
  <1>9. ASSUME kind = "bulk_in"
        PROVE  InAgrees'
    <2>1. InAgrees
      BY <1>9 DEF ChannelInv
    <2>2. NextToggle' = NextToggle
      BY <1>1, <1>4, <1>5, <1>9 DEF NextToggle
    <2> QED  BY <1>3, <1>4, <1>5, <2>1, <2>2, Served DEF InAgrees
  <1>10. ASSUME kind = "bulk_out"
         PROVE  OutAgrees'
    <2>1. OutAgrees
      BY <1>10 DEF ChannelInv
    <2>2. t = hc.toggle
      BY <1>10
    <2> QED  BY <1>1, <1>3, <1>4, <1>5, <2>1, <2>2, Served DEF OutAgrees
  <1>11. kind' = kind /\ got' = got
    BY Served
  <1> QED  BY <1>3, <1>6, <1>8, <1>9, <1>10, <1>11 DEF ChannelInv

\* The halt of a complete transfer is served: DONE.
LEMMA DoneServed ==
  ASSUME TypeOK, IsBulk, ChannelInv, IRQ, hc.int = {"CHH"}, hc.state = "XFRC", NEW e, NEW t,
         Fields(hc', "XFRC", "DONE", e, t, {}, hc.on, hc.halting, hc.pid),
         t = IF kind = "bulk_out" THEN Flip(hc.toggle) ELSE hc.toggle
  PROVE  ChannelInv' /\ [Stream!Next]_<<got, done>>
  <1>1. /\ hc'.state = "XFRC" /\ hc'.urb = "DONE" /\ hc'.toggle = t /\ hc'.int = {}
        /\ ~hc'.on /\ ~hc'.halting /\ hc'.pid = hc.pid
    BY Served DEF Fields
  <1>2. Completed /\ ~Complete
    BY Served, BitSets DEF Completed, Complete, Ends
  <1>3. Quiet' /\ ~Ends' /\ ~Complete' /\ ~Completed'
    BY <1>1, Served, BitSets DEF Quiet, Ends, Complete, Completed
  <1>4. done' = done + 1
    <2>1. "CHH" \in hc.int \ hc'.int
      BY <1>1
    <2> QED  BY <1>1, <2>1 DEF IRQ
  <1>5. OnePlace' /\ CallerPlaced'
    BY <1>1, <1>3, Served, BitSets DEF OnePlace, CallerPlaced
  <1>6. kind \in {"bulk_in", "bulk_out"} /\ kind' = kind /\ got' = got
    BY Served DEF IsBulk
  <1>7. CASE kind = "bulk_in"
    <2>1. InAgrees
      BY <1>7 DEF ChannelInv
    <2>2. NextToggle' = NextToggle
      BY <1>1, <1>2, <1>3, <1>7 DEF NextToggle
    <2>3. InAgrees' /\ Len(got) = done + 1
      BY <1>2, <1>3, <1>4, <2>1, <2>2, Served DEF InAgrees
    <2>4. Stream!Next
      BY <1>4, <1>6, <2>3, BulkTypes DEF Stream!Next, Stream!Report
    <2> QED  BY <1>5, <1>6, <1>7, <2>3, <2>4 DEF ChannelInv
  <1>8. CASE kind = "bulk_out"
    <2>1. OutAgrees /\ t = Flip(hc.toggle)
      BY <1>8 DEF ChannelInv
    <2>2. dev.toggle = Flip(hc.toggle) /\ Len(got) = done + 1
      BY <1>2, <2>1 DEF OutAgrees
    <2>3. caller.packet = done + 1
      BY <2>1, Served DEF OutAgrees
    <2>4. OutAgrees'
      BY <1>1, <1>3, <1>4, <2>1, <2>2, <2>3, Served DEF OutAgrees
    <2>5. Stream!Next
      BY <1>4, <1>6, <2>2, BulkTypes DEF Stream!Next, Stream!Report
    <2> QED  BY <1>5, <1>6, <1>8, <2>4, <2>5 DEF ChannelInv
  <1> QED  BY <1>6, <1>7, <1>8

\* The halt of another transfer is served: the channel is quiet, or sends again.
LEMMA RestServed ==
  ASSUME TypeOK, IsBulk, ChannelInv, IRQ, hc.int = {"CHH"},
         NEW s \in {"STALL", "NAK", "XACTERR", "DATATGLERR"}, hc.state = s,
         NEW u \in {"STALL", "NOTREADY", "ERROR"}, NEW e, NEW o \in BOOLEAN,
         Fields(hc', s, u, e, hc.toggle, {}, o, hc.halting, hc.pid),
         kind = "bulk_out" => ~o
  PROVE  ChannelInv' /\ UNCHANGED <<got, done>>
  <1>1. /\ hc'.state = s /\ hc'.urb = u /\ hc'.toggle = hc.toggle /\ hc'.int = {}
        /\ hc'.on = o /\ ~hc'.halting /\ hc'.pid = hc.pid
    BY Served DEF Fields
  <1>2. ~Completed /\ ~Complete
    BY Served, BitSets DEF Completed, Complete
  <1>3. ~Ends' /\ ~Complete' /\ ~Completed' /\ (Quiet' <=> ~o)
    BY <1>1, Served, BitSets DEF Quiet, Ends, Complete, Completed
  <1>4. hc.pid = hc.toggle
    BY <1>2, Served DEF ChannelInv, CallerPlaced
  <1>5. done' = done
    BY <1>1 DEF IRQ
  <1>6. OnePlace'
    BY <1>1, Served DEF OnePlace
  <1>7. CallerPlaced'
    BY <1>1, <1>3, <1>4, Served, BitSets DEF CallerPlaced
  <1>8. ASSUME kind = "bulk_in"
        PROVE  InAgrees'
    <2>1. InAgrees
      BY <1>8 DEF ChannelInv
    <2> QED  BY <1>1, <1>2, <1>3, <1>5, <2>1, Served DEF InAgrees, NextToggle
  <1>9. ASSUME kind = "bulk_out"
        PROVE  OutAgrees'
    <2>1. OutAgrees
      BY <1>9 DEF ChannelInv
    <2> QED  BY <1>1, <1>2, <1>3, <1>5, <2>1, Served DEF OutAgrees
  <1>10. kind' = kind /\ got' = got
    BY Served
  <1> QED  BY <1>5, <1>6, <1>7, <1>8, <1>9, <1>10 DEF ChannelInv

\* One call of the handler, on the bit of HCINT and on the state of the channel.
LEMMA InServed ==
  ASSUME TypeOK, kind = "bulk_in", IRQ,
         NEW st, NEW urb, NEW err, NEW tg, NEW on, NEW halt, NEW pid,
         Fields(hc, st, urb, err, tg, hc.int, on, halt, pid)
  PROVE  /\ hc.int = {"XFRC"}  => Fields(hc', "XFRC", urb, 0, Flip(tg), {}, on, TRUE, pid)
         /\ hc.int = {"STALL"} => Fields(hc', "STALL", urb, err, tg, {}, on, TRUE, pid)
         /\ hc.int = {"DTERR"} => Fields(hc', "DATATGLERR", urb, err, tg, {}, on, TRUE, pid)
         /\ hc.int = {"TXERR"} => Fields(hc', "XACTERR", urb, err + 1, tg, {}, on, TRUE, pid)
         /\ hc.int = {"NAK"}   => Fields(hc', "NAK", urb, 0, tg, {}, on, TRUE, pid)
         /\ hc.int = {"CHH"} =>
              /\ st = "XFRC"  => Fields(hc', st, "DONE", err, tg, {}, on, halt, pid)
              /\ st = "STALL" => Fields(hc', st, "STALL", err, tg, {}, on, halt, pid)
              /\ st = "NAK"   => Fields(hc', st, "NOTREADY", err, tg, {}, TRUE, halt, pid)
              /\ st \in {"XACTERR", "DATATGLERR"} =>
                   \E e, u : Tally(err, e, u) /\ Fields(hc', st, u, e, tg, {}, TRUE, halt, pid)
  <1>1. hc' = InIRQ(hc)
    BY DEF IRQ, IsIn
  <1>2. ASSUME hc.int = {"CHH"}
        PROVE  Fields(hc, st, urb, err, tg, {"CHH"}, on, halt, pid)
    BY <1>2
  <1> QED  BY <1>1, <1>2, InEffect, InHaltEffect

LEMMA OutServed ==
  ASSUME TypeOK, kind = "bulk_out", IRQ,
         NEW st, NEW urb, NEW err, NEW tg, NEW on, NEW halt, NEW pid,
         Fields(hc, st, urb, err, tg, hc.int, on, halt, pid), ~on
  PROVE  /\ hc.int = {"XFRC"}  => Fields(hc', "XFRC", urb, 0, tg, {}, on, TRUE, pid)
         /\ hc.int = {"STALL"} => Fields(hc', "STALL", urb, err, tg, {}, on, TRUE, pid)
         /\ hc.int = {"TXERR"} => Fields(hc', "XACTERR", urb, err, tg, {}, on, TRUE, pid)
         /\ hc.int = {"NAK"}   => Fields(hc', "NAK", urb, 0, tg, {}, on, TRUE, pid)
         /\ hc.int = {"CHH"} =>
              /\ st = "XFRC"  => Fields(hc', st, "DONE", err, Flip(tg), {}, on, halt, pid)
              /\ st = "STALL" => Fields(hc', st, "STALL", err, tg, {}, on, halt, pid)
              /\ st = "NAK"   => Fields(hc', st, "NOTREADY", err, tg, {}, on, halt, pid)
              /\ st \in {"XACTERR", "DATATGLERR"} =>
                   \E e, u : Tally(err, e, u) /\ Fields(hc', st, u, e, tg, {}, on, halt, pid)
  <1>1. hc' = OutIRQ(hc)
    BY DEF IRQ, IsIn
  <1>2. ASSUME hc.int = {"CHH"}
        PROVE  Fields(hc, st, urb, err, tg, {"CHH"}, on, halt, pid)
    BY <1>2
  <1> QED  BY <1>1, <1>2, OutEffect, OutHaltEffect

LEMMA IRQStep ==
  ASSUME TypeOK, IsBulk, ChannelInv, IRQ
  PROVE  ChannelInv' /\ [Stream!Next]_<<got, done>>
  <1> DEFINE st == hc.state
             urb == hc.urb
             err == hc.err
             tg == hc.toggle
             pid == hc.pid
  <1>1. Fields(hc, st, urb, err, tg, hc.int, hc.on, hc.halting, pid)
    BY ByFields DEF TypeOK
  <1>2. CASE kind = "bulk_in"
    <2>1. /\ hc.int = {"XFRC"}  => Fields(hc', "XFRC", urb, 0, Flip(tg), {}, hc.on, TRUE, pid)
          /\ hc.int = {"STALL"} => Fields(hc', "STALL", urb, err, tg, {}, hc.on, TRUE, pid)
          /\ hc.int = {"DTERR"} => Fields(hc', "DATATGLERR", urb, err, tg, {}, hc.on, TRUE, pid)
          /\ hc.int = {"TXERR"} => Fields(hc', "XACTERR", urb, err + 1, tg, {}, hc.on, TRUE, pid)
          /\ hc.int = {"NAK"}   => Fields(hc', "NAK", urb, 0, tg, {}, hc.on, TRUE, pid)
          /\ hc.int = {"CHH"} =>
               /\ st = "XFRC"  => Fields(hc', st, "DONE", err, tg, {}, hc.on, hc.halting, pid)
               /\ st = "STALL" => Fields(hc', st, "STALL", err, tg, {}, hc.on, hc.halting, pid)
               /\ st = "NAK" => Fields(hc', st, "NOTREADY", err, tg, {}, TRUE, hc.halting, pid)
               /\ st \in {"XACTERR", "DATATGLERR"} =>
                    \E e, u : /\ Tally(err, e, u)
                              /\ Fields(hc', st, u, e, tg, {}, TRUE, hc.halting, pid)
      <3> HIDE DEF st, urb, err, tg, pid
      <3> QED  BY <1>1, <1>2, InServed
    <2>2. CASE hc.int = {"XFRC"}
      BY <1>2, <2>1, <2>2, BitServed DEF Bits
    <2>3. CASE hc.int = {"STALL"}
      BY <1>2, <2>1, <2>3, BitServed DEF Bits
    <2>4. CASE hc.int = {"DTERR"}
      BY <1>2, <2>1, <2>4, BitServed DEF Bits
    <2>5. CASE hc.int = {"TXERR"}
      BY <1>2, <2>1, <2>5, BitServed DEF Bits
    <2>6. CASE hc.int = {"NAK"}
      BY <1>2, <2>1, <2>6, BitServed DEF Bits
    <2>7. CASE hc.int = {"CHH"}
      <3>1. st # "IDLE" /\ st \in HcStates
        BY <2>7, BulkTypes DEF ChannelInv, CallerPlaced, Ends
      <3>2. CASE st = "XFRC"
        BY <1>2, <2>1, <2>7, <3>2, DoneServed
      <3>3. CASE st = "STALL"
        BY <1>2, <2>1, <2>7, <3>3, RestServed, BulkTypes
      <3>4. CASE st = "NAK"
        BY <1>2, <2>1, <2>7, <3>4, RestServed
      <3>5. CASE st \in {"XACTERR", "DATATGLERR"}
        BY <1>2, <2>1, <2>7, <3>5, RestServed DEF Tally
      <3> QED  BY <3>1, <3>2, <3>3, <3>4, <3>5 DEF HcStates
    <2> QED  BY <2>2, <2>3, <2>4, <2>5, <2>6, <2>7, Served DEF Bits
  <1>3. CASE kind = "bulk_out"
    <2>1. /\ hc.int = {"XFRC"}  => Fields(hc', "XFRC", urb, 0, tg, {}, hc.on, TRUE, pid)
          /\ hc.int = {"STALL"} => Fields(hc', "STALL", urb, err, tg, {}, hc.on, TRUE, pid)
          /\ hc.int = {"TXERR"} => Fields(hc', "XACTERR", urb, err, tg, {}, hc.on, TRUE, pid)
          /\ hc.int = {"NAK"}   => Fields(hc', "NAK", urb, 0, tg, {}, hc.on, TRUE, pid)
          /\ hc.int = {"CHH"} =>
               /\ st = "XFRC" => Fields(hc', st, "DONE", err, Flip(tg), {}, hc.on, hc.halting, pid)
               /\ st = "STALL" => Fields(hc', st, "STALL", err, tg, {}, hc.on, hc.halting, pid)
               /\ st = "NAK" => Fields(hc', st, "NOTREADY", err, tg, {}, hc.on, hc.halting, pid)
               /\ st \in {"XACTERR", "DATATGLERR"} =>
                    \E e, u : /\ Tally(err, e, u)
                              /\ Fields(hc', st, u, e, tg, {}, hc.on, hc.halting, pid)
      <3>1. ~hc.on
        BY Served
      <3> HIDE DEF st, urb, err, tg, pid
      <3> QED  BY <1>1, <1>3, <3>1, OutServed
    <2>2. CASE hc.int = {"XFRC"}
      BY <1>3, <2>1, <2>2, BitServed DEF Bits
    <2>3. CASE hc.int = {"STALL"}
      BY <1>3, <2>1, <2>3, BitServed DEF Bits
    <2>4. CASE hc.int = {"DTERR"}
      BY <1>3, <2>4, Served, BitSets DEF ChannelInv, CallerPlaced
    <2>5. CASE hc.int = {"TXERR"}
      BY <1>3, <2>1, <2>5, BitServed DEF Bits
    <2>6. CASE hc.int = {"NAK"}
      BY <1>3, <2>1, <2>6, BitServed DEF Bits
    <2>7. CASE hc.int = {"CHH"}
      <3>1. st # "IDLE" /\ st \in HcStates
        BY <2>7, BulkTypes DEF ChannelInv, CallerPlaced, Ends
      <3>2. ~hc.on /\ hc.on \in BOOLEAN
        BY Served, BulkTypes
      <3>3. CASE st = "XFRC"
        BY <1>3, <2>1, <2>7, <3>3, DoneServed
      <3>4. CASE st = "STALL"
        BY <1>3, <2>1, <2>7, <3>2, <3>4, RestServed
      <3>5. CASE st = "NAK"
        BY <1>3, <2>1, <2>7, <3>2, <3>5, RestServed
      <3>6. CASE st \in {"XACTERR", "DATATGLERR"}
        BY <1>3, <2>1, <2>7, <3>2, <3>6, RestServed DEF Tally
      <3> QED  BY <3>1, <3>3, <3>4, <3>5, <3>6 DEF HcStates
    <2> QED  BY <2>2, <2>3, <2>4, <2>5, <2>6, <2>7, Served DEF Bits
  <1> QED  BY <1>2, <1>3 DEF IsBulk

-----------------------------------------------------------------------------
(* The theorems. *)

LEMMA InvInit ==
  ASSUME Init
  PROVE  ChannelInv
  <1>1. OnePlace /\ CallerPlaced
    BY BitSets DEF Init, OnePlace, CallerPlaced, Quiet, Ends, Complete, Completed
  <1>2. InAgrees /\ OutAgrees
    BY BitSets DEF Init, InAgrees, OutAgrees, NextToggle, Ends, Complete, Completed
  <1> QED  BY <1>1, <1>2 DEF ChannelInv

LEMMA InvStep ==
  ASSUME TypeOK, ChannelInv, [Next]_vars
  PROVE  ChannelInv' /\ [Stream!Next]_<<got, done>>
  <1>1. kind' = kind
    BY DEF Next, Caller, Poll, IRQ, Device, DataInComplete, Halted, SubmitPid, SubmitIdle,
           SubmitStart, Advance, Resend, Nak, Stall, Overrun, TransactionError, DataIn,
           DataInToggle, DataOut, vars
  <1>2. CASE ~IsBulk
    <2>1. UNCHANGED <<got, done>>
      <3>1. kind \in AllKinds
        BY HostChannelAssumption DEF TypeOK
      <3>2. ~DataOut
        BY <1>2, <3>1 DEF DataOut, IsBulk, IsIn, AllKinds
      <3> QED
      BY <1>2, <3>2 DEF Next, Caller, Poll, IRQ, Device, DataInComplete, Halted, SubmitPid,
                  SubmitIdle, SubmitStart, Advance, Resend, Nak, Stall, Overrun,
                  TransactionError, DataIn, DataInToggle, vars, ghosts
    <2>2. ChannelInv'
      BY <1>1, <1>2 DEF ChannelInv, IsBulk
    <2> QED  BY <2>1, <2>2
  <1>3. CASE IsBulk /\ Next
    <2>1. ~Poll
      BY <1>3 DEF Poll, IsBulk
    <2> QED  BY <1>3, <2>1, CallerStep, DeviceStep, ControllerStep, IRQStep DEF Next
  <1>4. CASE IsBulk /\ UNCHANGED vars
    <2>1. ChannelInv'
      BY <1>4 DEF vars, ghosts, ChannelInv, IsBulk, OnePlace, CallerPlaced, InAgrees,
                  OutAgrees, NextToggle, Quiet, Ends, Complete, Completed
    <2> QED  BY <1>4, <2>1 DEF vars, ghosts
  <1> QED  BY <1>2, <1>3, <1>4

\* The invariant of a bulk channel, for any number of packets and faults: the
\* transfer is in one place, and the two ends agree on what has arrived.
THEOREM ChannelKept == Spec => []ChannelInv
  <1>1. Spec => [](TypeOK /\ ChannelInv)
    <2>1. Init => TypeOK /\ ChannelInv
      BY InitType, InvInit
    <2>2. (TypeOK /\ ChannelInv) /\ [Next]_vars => (TypeOK /\ ChannelInv)'
      BY TypeStep, InvStep
    <2> QED  BY <2>1, <2>2, PTL DEF Spec
  <1> QED  BY <1>1, PTL

\* A channel implements PacketStream: whatever is lost and repeated, the packets
\* arrive in order, each once, and each is reported as done once and after it arrived.
THEOREM ChannelImplementsStream == Spec => StreamKept
  <1>1. Init => Stream!Init
    BY DEF Init, Stream!Init
  <1>2. TypeOK /\ ChannelInv /\ [Next]_vars => [Stream!Next]_<<got, done>>
    BY InvStep
  <1> QED  BY <1>1, <1>2, TypesKept, ChannelKept, PTL DEF Spec, StreamKept, Stream!Spec

-----------------------------------------------------------------------------
(* A failure is final only after three transactions in a row that failed. *)

Failing == {"XACTERR", "DATATGLERR"}

\* ErrCnt counts a strike at most twice: once with TXERR and once with the halt that
\* follows.  What the interrupt has not counted yet is still owed.
StrikesCounted ==
  IsBulk =>
    /\ hc.err <= 2 * strikes
    /\ hc.int \in {{"TXERR"}, {"DTERR"}} => hc.err + 2 <= 2 * strikes
    /\ Ends /\ hc.state \in Failing => hc.err + 1 <= 2 * strikes
    /\ Ends /\ hc.state \in {"XFRC", "NAK"} => hc.err = 0

LEMMA StrikeTypes ==
  ASSUME TypeOK
  PROVE  hc.err \in Nat /\ strikes \in Nat
  BY DEF TypeOK, Channels

\* The class, and the end of a transfer in the RX FIFO or in a halt.
LEMMA StrikesApart ==
  ASSUME TypeOK, IsBulk, ChannelInv, StrikesCounted, Caller \/ DataInComplete \/ Halted
  PROVE  StrikesCounted' /\ (hc'.urb # "ERROR" \/ hc'.urb = hc.urb)
  <1>1. kind' = kind /\ strikes' = strikes
    BY DEF Caller, SubmitPid, SubmitIdle, SubmitStart, Advance, Resend, DataInComplete, Halted,
           ghosts
  <1>2. ASSUME hc' = hc
        PROVE  StrikesCounted' /\ hc'.urb = hc.urb
    BY <1>1, <1>2 DEF StrikesCounted, IsBulk, Ends
  <1>3. CASE SubmitPid \/ Advance \/ Resend
    BY <1>2, <1>3 DEF SubmitPid, Advance, Resend
  <1>4. CASE SubmitIdle
    <2>1. /\ hc'.urb = "IDLE" /\ hc'.state = "IDLE" /\ hc'.int = hc.int
          /\ hc'.halting = hc.halting /\ hc'.err = hc.err
      BY <1>4 DEF SubmitIdle, TypeOK, Channels
    <2> QED  BY <1>1, <2>1 DEF StrikesCounted, IsBulk, Ends, Failing
  <1>5. CASE SubmitStart
    <2>1. /\ hc'.urb = hc.urb /\ hc'.state = hc.state /\ hc'.int = hc.int
          /\ hc'.halting = hc.halting /\ hc'.err = hc.err
      BY <1>5 DEF SubmitStart, Started, TypeOK, Channels
    <2> QED  BY <1>1, <2>1 DEF StrikesCounted, IsBulk, Ends
  <1>6. CASE DataInComplete
    <2>1. hc.int = {} /\ ~hc.halting
      BY <1>6 DEF DataInComplete, ChannelInv, OnePlace
    <2>2. /\ hc'.urb = hc.urb /\ hc'.state = hc.state /\ hc'.int = {"XFRC"}
          /\ hc'.halting = hc.halting /\ hc'.err = hc.err
      <3>1. hc.int \union {"XFRC"} = {"XFRC"}
        BY <2>1
      <3> QED  BY <1>6, <3>1 DEF DataInComplete, TypeOK, Channels
    <2>3. ~Ends'
      BY <2>1, <2>2, BitSets DEF Ends
    <2>4. hc'.int \notin {{"TXERR"}, {"DTERR"}}
      BY <2>2, BitSets
    <2> QED  BY <1>1, <2>2, <2>3, <2>4 DEF StrikesCounted, IsBulk
  <1>7. CASE Halted
    <2>1. hc.int = {} /\ hc.halting
      BY <1>7 DEF Halted, ChannelInv, OnePlace
    <2>2. /\ hc'.urb = hc.urb /\ hc'.state = hc.state /\ hc'.int = {"CHH"} /\ hc'.err = hc.err
      <3>1. hc.int \union {"CHH"} = {"CHH"}
        BY <2>1
      <3> QED  BY <1>7, <3>1 DEF Halted, TypeOK, Channels
    <2>3. Ends
      BY <2>1 DEF Ends
    <2>4. hc'.int \notin {{"TXERR"}, {"DTERR"}}
      BY <2>2, BitSets
    <2> QED  BY <1>1, <2>2, <2>3, <2>4 DEF StrikesCounted, IsBulk
  <1> QED  BY <1>3, <1>4, <1>5, <1>6, <1>7 DEF Caller

\* A transaction that fails is a strike.
LEMMA StrikesDevice ==
  ASSUME TypeOK, IsBulk, ChannelInv, StrikesCounted, Device
  PROVE  StrikesCounted' /\ hc'.urb = hc.urb
  <1>1. hc.on
    BY DEF Device, Nak, Stall, Overrun, TransactionError, DataIn, DataInToggle, DataOut
  <1>2. kind' = kind
    BY DEF Device, Nak, Stall, Overrun, TransactionError, DataIn, DataInToggle, DataOut
  <1>3. Struck = strikes + 1
    BY DEF Struck
  <1>4. ASSUME NEW bit \in Bits \ {"CHH"}, Answered(bit),
               strikes' = IF bit \in {"TXERR", "DTERR"} THEN strikes + 1 ELSE strikes
        PROVE  StrikesCounted' /\ hc'.urb = hc.urb
    <2>1. /\ hc'.int = {bit} /\ hc'.urb = hc.urb /\ hc'.halting = hc.halting
          /\ ~hc.halting
      BY <1>1, <1>4, AnsweredEffect, OnBus
    <2>2. hc'.err = hc.err
      BY <1>4 DEF Answered, TypeOK, Channels
    <2>3. ~Ends'
      BY <2>1, BitSets DEF Ends
    <2>4. hc'.int \in {{"TXERR"}, {"DTERR"}} <=> bit \in {"TXERR", "DTERR"}
      BY <2>1, BitSets
    <2> QED  BY <1>2, <1>4, <2>1, <2>2, <2>3, <2>4, StrikeTypes DEF StrikesCounted, IsBulk
  <1>5. CASE Nak
    BY <1>4, <1>5 DEF Nak, ghosts, Bits
  <1>6. CASE Stall
    BY <1>4, <1>6 DEF Stall, Bits
  <1>7. CASE TransactionError
    BY <1>3, <1>4, <1>7 DEF TransactionError, Bits
  <1>8. CASE DataInToggle
    BY <1>3, <1>4, <1>8 DEF DataInToggle, Bits
  <1>9. CASE DataOut
    BY <1>3, <1>4, <1>9 DEF DataOut, Bits
  <1>10. CASE DataIn
    <2>1. hc.int = {} /\ ~hc.halting
      BY <1>1, OnBus
    <2>2. /\ hc'.int = {} /\ hc'.err = hc.err /\ hc'.urb = hc.urb /\ hc'.halting = hc.halting
          /\ strikes' = strikes
      BY <1>10, <2>1 DEF DataIn, TypeOK, Channels
    <2>3. ~Ends' /\ hc'.int \notin {{"TXERR"}, {"DTERR"}}
      BY <2>1, <2>2, BitSets DEF Ends
    <2> QED  BY <1>2, <2>2, <2>3 DEF StrikesCounted, IsBulk
  <1>11. CASE Overrun
    BY <1>11 DEF Overrun, IsBulk
  <1> QED  BY <1>5, <1>6, <1>7, <1>8, <1>9, <1>10, <1>11 DEF Device

\* What the interrupt makes of the bit, of ErrCnt and of the strikes.
LEMMA StrikesServed ==
  ASSUME TypeOK, IsBulk, ChannelInv, StrikesCounted, IRQ
  PROVE  StrikesCounted' /\ (hc'.urb = "ERROR" /\ hc.urb # "ERROR" => strikes >= 3)
  <1> DEFINE st == hc.state
             urb == hc.urb
             err == hc.err
             tg == hc.toggle
             pid == hc.pid
  <1>0. err \in Nat /\ strikes \in Nat
    BY StrikeTypes
  <1>1. PICK b \in Bits : hc.int = {b}
    BY Served
  <1>2. Fields(hc, st, urb, err, tg, hc.int, hc.on, hc.halting, pid)
    BY ByFields DEF TypeOK
  <1>3. kind \in {"bulk_in", "bulk_out"} /\ kind' = kind /\ ~hc.on /\ ~hc.halting
    BY Served DEF IsBulk
  <1>4. strikes' = IF \/ hc'.err = 0 /\ err # 0
                      \/ hc'.state \in {"XFRC", "NAK"} THEN 0 ELSE strikes
    BY DEF IRQ
  <1>5. ASSUME b # "CHH"
        PROVE  /\ hc'.int = {} /\ hc'.urb = hc.urb
               /\ b \in {"XFRC", "NAK"} => hc'.err = 0 /\ hc'.state = b
               /\ b = "STALL" => hc'.err = err /\ hc'.state = b
               /\ b \in {"TXERR", "DTERR"} =>
                    hc'.err \in {err, err + 1} /\ hc'.state \in Failing
    <2>1. CASE kind = "bulk_in"
      <3>1. /\ b = "XFRC"  => Fields(hc', "XFRC", urb, 0, Flip(tg), {}, hc.on, TRUE, pid)
            /\ b = "STALL" => Fields(hc', "STALL", urb, err, tg, {}, hc.on, TRUE, pid)
            /\ b = "DTERR" => Fields(hc', "DATATGLERR", urb, err, tg, {}, hc.on, TRUE, pid)
            /\ b = "TXERR" => Fields(hc', "XACTERR", urb, err + 1, tg, {}, hc.on, TRUE, pid)
            /\ b = "NAK"   => Fields(hc', "NAK", urb, 0, tg, {}, hc.on, TRUE, pid)
        <4> HIDE DEF st, urb, err, tg, pid
        <4> QED  BY <1>1, <1>2, <2>1, InServed
      <3> QED  BY <1>5, <3>1 DEF Bits, Fields, Failing
    <2>2. CASE kind = "bulk_out"
      <3>1. b # "DTERR"
        BY <1>1, <2>2, BitSets DEF ChannelInv, CallerPlaced
      <3>2. /\ b = "XFRC"  => Fields(hc', "XFRC", urb, 0, tg, {}, hc.on, TRUE, pid)
            /\ b = "STALL" => Fields(hc', "STALL", urb, err, tg, {}, hc.on, TRUE, pid)
            /\ b = "TXERR" => Fields(hc', "XACTERR", urb, err, tg, {}, hc.on, TRUE, pid)
            /\ b = "NAK"   => Fields(hc', "NAK", urb, 0, tg, {}, hc.on, TRUE, pid)
        <4> HIDE DEF st, urb, err, tg, pid
        <4> QED  BY <1>1, <1>2, <1>3, <2>2, OutServed
      <3> QED  BY <1>5, <3>1, <3>2 DEF Bits, Fields, Failing
    <2> QED  BY <1>3, <2>1, <2>2
  <1>6. ASSUME b = "CHH"
        PROVE  /\ hc'.int = {} /\ hc'.state = st /\ ~hc'.halting
               /\ st \in {"XFRC", "STALL", "NAK"} => hc'.err = err /\ hc'.urb # "ERROR"
               /\ st \in Failing => Tally(err, hc'.err, hc'.urb)
               /\ st \in {"XFRC", "STALL", "NAK"} \union Failing
    <2>1. st \in {"XFRC", "STALL", "NAK"} \union Failing
      <3>1. st # "IDLE" /\ st \in HcStates
        BY <1>1, <1>6, BulkTypes DEF ChannelInv, CallerPlaced, Ends
      <3> QED  BY <3>1 DEF HcStates, Failing
    <2>2. CASE kind = "bulk_in"
      <3>1. /\ st = "XFRC"  => Fields(hc', st, "DONE", err, tg, {}, hc.on, hc.halting, pid)
            /\ st = "STALL" => Fields(hc', st, "STALL", err, tg, {}, hc.on, hc.halting, pid)
            /\ st = "NAK"   => Fields(hc', st, "NOTREADY", err, tg, {}, TRUE, hc.halting, pid)
            /\ st \in {"XACTERR", "DATATGLERR"} =>
                 \E e, u : Tally(err, e, u) /\ Fields(hc', st, u, e, tg, {}, TRUE, hc.halting, pid)
        <4> HIDE DEF st, urb, err, tg, pid
        <4> QED  BY <1>1, <1>2, <1>3, <1>6, <2>2, InServed
      <3>2. ASSUME st \in Failing
            PROVE  /\ hc'.int = {} /\ hc'.state = st /\ ~hc'.halting
                   /\ Tally(err, hc'.err, hc'.urb)
        <4>1. PICK e, u : Tally(err, e, u) /\ Fields(hc', st, u, e, tg, {}, TRUE, hc.halting, pid)
          BY <3>1, <3>2 DEF Failing
        <4> HIDE DEF st, urb, err, tg, pid
        <4> QED  BY <1>3, <4>1 DEF Fields
      <3> QED  BY <1>3, <2>1, <3>1, <3>2 DEF Fields, Failing
    <2>3. CASE kind = "bulk_out"
      <3>1. /\ st = "XFRC"  => Fields(hc', st, "DONE", err, Flip(tg), {}, hc.on, hc.halting, pid)
            /\ st = "STALL" => Fields(hc', st, "STALL", err, tg, {}, hc.on, hc.halting, pid)
            /\ st = "NAK"   => Fields(hc', st, "NOTREADY", err, tg, {}, hc.on, hc.halting, pid)
            /\ st \in {"XACTERR", "DATATGLERR"} =>
                 \E e, u : Tally(err, e, u) /\ Fields(hc', st, u, e, tg, {}, hc.on, hc.halting, pid)
        <4> HIDE DEF st, urb, err, tg, pid
        <4> QED  BY <1>1, <1>2, <1>3, <1>6, <2>3, OutServed
      <3>2. ASSUME st \in Failing
            PROVE  /\ hc'.int = {} /\ hc'.state = st /\ ~hc'.halting
                   /\ Tally(err, hc'.err, hc'.urb)
        <4>1. PICK e, u : Tally(err, e, u) /\ Fields(hc', st, u, e, tg, {}, hc.on, hc.halting, pid)
          BY <3>1, <3>2 DEF Failing
        <4> HIDE DEF st, urb, err, tg, pid
        <4> QED  BY <1>3, <4>1 DEF Fields
      <3> QED  BY <1>3, <2>1, <3>1, <3>2 DEF Fields, Failing
    <2> QED  BY <1>3, <2>2, <2>3
  <1>7. CASE b # "CHH"
    <2>1. hc'.int \notin {{"TXERR"}, {"DTERR"}}
      BY <1>5, <1>7, BitSets
    <2>2. CASE b \in {"XFRC", "NAK"}
      <3>1. hc'.err = 0 /\ hc'.state = b /\ strikes' = 0
        BY <1>4, <1>5, <1>7, <2>2
      <3> QED  BY <1>3, <1>5, <1>7, <2>1, <2>2, <3>1 DEF StrikesCounted, IsBulk, Failing
    <2>3. CASE b = "STALL"
      <3>1. hc'.err = err /\ hc'.state = "STALL" /\ strikes' = strikes
        BY <1>4, <1>5, <1>7, <2>3
      <3> QED  BY <1>3, <1>5, <1>7, <2>1, <3>1 DEF StrikesCounted, IsBulk, Failing
    <2>4. CASE b \in {"TXERR", "DTERR"}
      <3>1. err + 2 <= 2 * strikes
        BY <1>1, <2>4 DEF StrikesCounted
      <3>2. hc'.err \in {err, err + 1} /\ hc'.state \in Failing
        BY <1>5, <1>7, <2>4
      <3>3. hc'.err # 0 \/ err = 0
        BY <1>0, <3>2
      <3>4. strikes' = strikes /\ hc'.state \notin {"XFRC", "NAK"}
        BY <1>4, <3>2, <3>3 DEF Failing
      <3>5. hc'.err + 1 <= 2 * strikes' /\ hc'.err <= 2 * strikes'
        BY <1>0, <3>1, <3>2, <3>4
      <3> QED  BY <1>3, <1>5, <1>7, <2>1, <3>4, <3>5 DEF StrikesCounted, IsBulk
    <2> QED  BY <1>5, <1>7, <2>2, <2>3, <2>4 DEF Bits
  <1>8. CASE b = "CHH"
    <2>1. Ends
      BY <1>1, <1>8 DEF Ends
    <2>2. ~Ends' /\ hc'.int \notin {{"TXERR"}, {"DTERR"}}
      BY <1>6, <1>8, BitSets DEF Ends
    <2>3. CASE st \in {"XFRC", "STALL", "NAK"}
      <3>1. hc'.err = err /\ hc'.state = st /\ hc'.urb # "ERROR"
        BY <1>6, <1>8, <2>3
      <3>2. hc'.err <= 2 * strikes'
        BY <1>0, <1>4, <2>1, <2>3, <3>1 DEF StrikesCounted
      <3> QED  BY <1>3, <2>2, <3>1, <3>2 DEF StrikesCounted, IsBulk
    <2>4. CASE st \in Failing
      <3>1. err + 1 <= 2 * strikes /\ Tally(err, hc'.err, hc'.urb)
        BY <1>6, <1>8, <2>1, <2>4 DEF StrikesCounted
      <3>2. hc'.state \notin {"XFRC", "NAK"}
        BY <1>6, <1>8, <2>4 DEF Failing
      <3>3. CASE err > 3
        <4>1. hc'.err = 0 /\ strikes' = 0 /\ strikes >= 3
          BY <1>0, <1>4, <3>1, <3>3 DEF Tally
        <4> QED  BY <1>3, <2>2, <4>1 DEF StrikesCounted, IsBulk
      <3>4. CASE ~(err > 3)
        <4>1. hc'.err = err + 1 /\ hc'.urb = "NOTREADY"
          BY <3>1, <3>4 DEF Tally
        <4>2. strikes' = strikes
          BY <1>0, <1>4, <3>2, <4>1
        <4> QED  BY <1>0, <1>3, <2>2, <3>1, <4>1, <4>2 DEF StrikesCounted, IsBulk
      <3> QED  BY <3>3, <3>4
    <2> QED  BY <1>6, <1>8, <2>3, <2>4
  <1> QED  BY <1>7, <1>8

\* A bulk URB fails for good only after three transactions in a row failed, although
\* ErrCnt counts some of them twice: for any number of packets and faults.
THEOREM ErrorOnlyAfterStrikes == Spec => ErrorAfterStrikes
  <1> DEFINE Late == IsBulk /\ hc'.urb = "ERROR" /\ hc.urb # "ERROR" => strikes >= 3
  <1>1. Init => StrikesCounted
    <2> SUFFICES ASSUME Init  PROVE StrikesCounted
      OBVIOUS
    <2>1. hc.err = 0 /\ strikes = 0 /\ hc.int = {} /\ ~hc.halting
      BY DEF Init
    <2> QED  BY <2>1, BitSets DEF StrikesCounted, Ends
  <1>2. TypeOK /\ ChannelInv /\ StrikesCounted /\ [Next]_vars => StrikesCounted' /\ Late
    <2> SUFFICES ASSUME TypeOK, ChannelInv, StrikesCounted, [Next]_vars
                 PROVE  StrikesCounted' /\ Late
      OBVIOUS
    <2>1. kind' = kind
      BY DEF Next, Caller, Poll, IRQ, Device, DataInComplete, Halted, SubmitPid, SubmitIdle,
             SubmitStart, Advance, Resend, Nak, Stall, Overrun, TransactionError, DataIn,
             DataInToggle, DataOut, vars
    <2>2. CASE ~IsBulk
      BY <2>1, <2>2 DEF StrikesCounted, IsBulk
    <2>3. CASE IsBulk /\ UNCHANGED vars
      BY <2>3 DEF vars, ghosts, StrikesCounted, IsBulk, Ends
    <2>4. CASE IsBulk /\ Next
      <3>1. ~Poll
        BY <2>4 DEF Poll, IsBulk
      <3> QED  BY <2>4, <3>1, StrikesApart, StrikesDevice, StrikesServed DEF Next
    <2> QED  BY <2>2, <2>3, <2>4
  <1> QED  BY <1>1, <1>2, TypesKept, ChannelKept, PTL DEF Spec, ErrorAfterStrikes
===============================================================================
