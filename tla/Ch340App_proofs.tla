---------------------------- MODULE Ch340App_proofs ----------------------------
(***************************************************************************)
(* TLAPS proofs about Ch340App, for any size of the ring, any sizes of the *)
(* packets and any number of bytes: the types, that the ring never holds   *)
(* more than it has room for, and that it holds what the adapter sent, in  *)
(* order, wherever the positions wrap, unless the class has acted between  *)
(* the two writes of USBH_CDC_Receive on what malloc left in data_rx_state.*)
(***************************************************************************)
EXTENDS Ch340App, Integers, TLAPS

-----------------------------------------------------------------------------
(* Remainders *)

\* A product that lies between the factor and its negation is zero.
LEMMA SmallMultiple ==
  ASSUME NEW m \in Nat \ {0}, NEW x \in Int, m * x < m, m * x > -m
  PROVE  x = 0
OBVIOUS

\* The quotient and the remainder of the division by a positive number.
LEMMA Division ==
  ASSUME NEW a \in Int, NEW m \in Nat \ {0}
  PROVE  a % m \in 0 .. m-1 /\ a \div m \in Int /\ a = m * (a \div m) + (a % m)
OBVIOUS

\* A number is a multiple of the divisor and the remainder.
LEMMA Multiple ==
  ASSUME NEW a \in Int, NEW m \in Nat \ {0}
  PROVE  a % m \in 0 .. m-1 /\ \E q \in Int : a = m * q + (a % m)
<1>1. a % m \in 0 .. m-1 /\ a \div m \in Int /\ a = m * (a \div m) + (a % m)
  BY Division
<1>2. QED
  BY <1>1

\* There is no other remainder.
LEMMA Remainder ==
  ASSUME NEW m \in Nat \ {0}, NEW a \in Int, NEW q \in Int, NEW r \in 0 .. m-1,
         a = m * q + r
  PROVE  a % m = r
<1>1. a = m * (a \div m) + (a % m) /\ a \div m \in Int /\ a % m \in 0 .. m-1
  BY Division
<1>2. m * (q - (a \div m)) = (a % m) - r
  BY <1>1
<1>3. q - (a \div m) = 0
  BY <1>1, <1>2, SmallMultiple
<1>4. QED
  BY <1>1, <1>3

\* A multiple of the divisor does not count.
LEMMA Shift ==
  ASSUME NEW m \in Nat \ {0}, NEW a \in Int, NEW k \in Int
  PROVE  (a + m * k) % m = a % m
<1>1. a = m * (a \div m) + (a % m) /\ a \div m \in Int /\ a % m \in 0 .. m-1
  BY Division
<1>2. a + m * k = m * ((a \div m) + k) + (a % m) /\ (a \div m) + k \in Int
  BY <1>1
<1>3. a + m * k \in Int
  OBVIOUS
<1> DEFINE q == (a \div m) + k
           r == a % m
           b == a + m * k
<1>4. b \in Int /\ q \in Int /\ r \in 0 .. m-1 /\ b = m * q + r
  BY <1>1, <1>2, <1>3
<1> HIDE DEF q, r, b
<1>5. b % m = r
  BY <1>4, Remainder
<1>6. QED
  BY <1>5 DEF b, r

\* The width is a multiple of the size, so that the place of a position in the ring
\* does not see where the position wraps.
LEMMA Wraps ==
  ASSUME NEW a \in Int PROVE (a - Width) % Size = a % Size
<1>1. /\ Width \in Nat /\ Size \in Nat \ {0} /\ Width \in Int
      /\ Width % Size = 0
  BY Ch340Assumption
<1>2. PICK w \in Int : Width = Size * w + (Width % Size)
  BY <1>1, Multiple
<1>3. PICK k \in Int : a - Width = a + Size * k
  <2>1. a - Width = a + Size * (-w)
    BY <1>1, <1>2
  <2>2. QED
    BY <2>1
<1>4. (a + Size * k) % Size = a % Size
  BY <1>1, Shift
<1>5. QED
  BY <1>3, <1>4

-----------------------------------------------------------------------------
(* The positions of the ring *)

Between(r, w) == ((w + Width) - r) % Width
Place(i, w) == ((i + Size) - (w % Size)) % Size

\* The number of bytes between two positions, and which they are.
LEMMA BetweenIs ==
  ASSUME NEW r \in 0 .. Width-1, NEW w \in 0 .. Width-1
  PROVE  /\ Between(r, w) \in 0 .. Width-1
         /\ w = r + Between(r, w) \/ w = (r + Between(r, w)) - Width
<1>1. Width \in Nat \ {0}
  BY Ch340Assumption
<1> DEFINE a == (w + Width) - r
<1>2. a \in Int /\ a % Width \in 0 .. Width-1
  BY <1>1, Division
<1>3. CASE w >= r
  <2>1. w - r \in 0 .. Width-1 /\ a = Width * 1 + (w - r)
    BY <1>1, <1>3
  <2> HIDE DEF a
  <2>2. a % Width = w - r
    BY <1>1, <1>2, <2>1, Remainder
  <2>3. QED
    BY <1>2, <2>2 DEF Between, a
<1>4. CASE w < r
  <2>1. a \in 0 .. Width-1 /\ a = Width * 0 + a
    BY <1>1, <1>4
  <2> HIDE DEF a
  <2>2. a % Width = a
    BY <1>1, <1>2, <2>1, Remainder
  <2>3. QED
    BY <1>1, <1>2, <2>2 DEF Between, a
<1>5. QED
  BY <1>3, <1>4

\* The number of bytes is the only number that leads from the one to the other.
LEMMA BetweenOnly ==
  ASSUME NEW r \in 0 .. Width-1, NEW w \in 0 .. Width-1, NEW u \in 0 .. Width-1,
         w = r + u \/ w = (r + u) - Width
  PROVE  Between(r, w) = u
<1>1. Width \in Nat
  BY Ch340Assumption
<1>2. /\ Between(r, w) \in 0 .. Width-1
      /\ w = r + Between(r, w) \/ w = (r + Between(r, w)) - Width
  BY BetweenIs
<1>3. QED
  BY <1>1, <1>2

\* A position that advances by less than the width wraps at most once.
LEMMA Advances ==
  ASSUME NEW r \in 0 .. Width-1, NEW n \in 0 .. Width-1
  PROVE  /\ (r + n) % Width \in 0 .. Width-1
         /\ (r + n) % Width = r + n \/ (r + n) % Width = (r + n) - Width
<1>1. Width \in Nat \ {0} /\ r + n \in Int
  BY Ch340Assumption
<1>2. (r + n) % Width \in 0 .. Width-1
  BY <1>1, Division
<1> DEFINE s == r + n
<1>3. CASE s < Width
  <2>1. s \in Int /\ s \in 0 .. Width-1 /\ s = Width * 0 + s
    BY <1>1, <1>3
  <2> HIDE DEF s
  <2>2. s % Width = s
    BY <1>1, <2>1, Remainder
  <2>3. QED
    BY <1>2, <2>2 DEF s
<1>4. CASE s >= Width
  <2>1. s \in Int /\ s - Width \in 0 .. Width-1 /\ s = Width * 1 + (s - Width)
    BY <1>1, <1>4
  <2> HIDE DEF s
  <2>2. s % Width = s - Width
    BY <1>1, <2>1, Remainder
  <2>3. QED
    BY <1>2, <2>2 DEF s
<1>5. QED
  BY <1>1, <1>3, <1>4

\* p_write moves up: there is so much more.
LEMMA Writes ==
  ASSUME NEW r \in 0 .. Width-1, NEW w \in 0 .. Width-1, NEW n \in 0 .. Width-1,
         Between(r, w) + n < Width
  PROVE  /\ (w + n) % Width \in 0 .. Width-1
         /\ Between(r, (w + n) % Width) = Between(r, w) + n
<1>1. Width \in Nat \ {0}
  BY Ch340Assumption
<1>2. /\ Between(r, w) \in 0 .. Width-1
      /\ w = r + Between(r, w) \/ w = (r + Between(r, w)) - Width
  BY BetweenIs
<1>3. /\ (w + n) % Width \in 0 .. Width-1
      /\ (w + n) % Width = w + n \/ (w + n) % Width = (w + n) - Width
  BY Advances
<1> DEFINE v == (w + n) % Width
           u == Between(r, w)
<1> HIDE DEF v, u
<1>4. v \in 0 .. Width-1 /\ u + n \in 0 .. Width-1
      /\ (v = r + (u + n) \/ v = (r + (u + n)) - Width)
  BY <1>1, <1>2, <1>3 DEF u, v
<1>5. Between(r, v) = u + n
  BY <1>4, BetweenOnly
<1>6. QED
  BY <1>3, <1>5 DEF u, v

\* p_read moves up: there is so much less.
LEMMA Reads ==
  ASSUME NEW r \in 0 .. Width-1, NEW w \in 0 .. Width-1, NEW n \in 0 .. Between(r, w)
  PROVE  /\ (r + n) % Width \in 0 .. Width-1
         /\ Between((r + n) % Width, w) = Between(r, w) - n
<1>1. Width \in Nat \ {0}
  BY Ch340Assumption
<1>2. /\ Between(r, w) \in 0 .. Width-1
      /\ w = r + Between(r, w) \/ w = (r + Between(r, w)) - Width
  BY BetweenIs
<1>a. n \in 0 .. Width-1 /\ n <= Between(r, w)
  BY <1>1, <1>2
<1>3. /\ (r + n) % Width \in 0 .. Width-1
      /\ (r + n) % Width = r + n \/ (r + n) % Width = (r + n) - Width
  BY <1>a, Advances
<1> DEFINE v == (r + n) % Width
           u == Between(r, w)
<1>b. /\ u \in 0 .. Width-1 /\ v \in 0 .. Width-1 /\ n \in 0 .. Width-1 /\ n <= u
      /\ w = r + u \/ w = (r + u) - Width
      /\ v = r + n \/ v = (r + n) - Width
  BY <1>2, <1>3, <1>a
<1> HIDE DEF v, u
<1>4. v \in 0 .. Width-1 /\ u - n \in 0 .. Width-1
      /\ (w = v + (u - n) \/ w = (v + (u - n)) - Width)
  BY <1>1, <1>b
<1>5. Between(v, w) = u - n
  BY <1>4, BetweenOnly
<1>6. QED
  BY <1>3, <1>5 DEF u, v

\* Where the k-th byte from p_read on lies, seen from p_write: as many places behind
\* it as are missing, or, for what is not yet in the ring, as many before it.
LEMMA Places ==
  ASSUME NEW r \in 0 .. Width-1, NEW w \in 0 .. Width-1, NEW k \in Nat,
         k - Between(r, w) < Size, k - Between(r, w) >= -Size
  PROVE  /\ (r + k) % Size \in 0 .. Size-1
         /\ Place((r + k) % Size, w) =
              IF k >= Between(r, w) THEN k - Between(r, w)
                                    ELSE (k - Between(r, w)) + Size
<1>1. /\ Width \in Nat \ {0} /\ Size \in Nat \ {0} /\ Width \in Int
      /\ Width % Size = 0
  BY Ch340Assumption
<1> DEFINE u == Between(r, w)
           i == (r + k) % Size
           o == (i + Size) - (w % Size)
           d == IF k >= u THEN k - u ELSE (k - u) + Size
<1>2. u \in 0 .. Width-1 /\ (w = r + u \/ w = (r + u) - Width)
  BY BetweenIs
<1>a. r + k \in Int /\ w \in Int /\ u \in Int
  BY <1>1, <1>2
<1>3. PICK c \in Int : Width = Size * c + (Width % Size)
  BY <1>1, Multiple
<1>4. PICK x \in Int : r + k = Size * x + i
  BY <1>1, <1>a, Multiple
<1>5. PICK y \in Int : w = Size * y + (w % Size)
  BY <1>1, <1>a, Multiple
<1>6. i \in 0 .. Size-1 /\ w % Size \in 0 .. Size-1
  BY <1>1, <1>a, Division
<1>7. d \in 0 .. Size-1
  BY <1>1, <1>2
<1> HIDE DEF u, i, d
<1>8. PICK e \in Int : w = (r + u) - Size * e
  <2>1. CASE w = r + u
    BY <2>1, <1>1, <1>2
  <2>2. CASE w = (r + u) - Width
    BY <2>2, <1>1, <1>3, <1>a
  <2>3. QED
    BY <1>2, <2>1, <2>2
<1>b. i = (r + k) - Size * x /\ (w % Size) = w - Size * y
  BY <1>1, <1>4, <1>5, <1>6, <1>a
<1>9. o \in Int /\ o = (k - u) + Size * (((1 + y) - x) + e)
  BY <1>1, <1>a, <1>b, <1>8
<1>10. PICK q \in Int : o = Size * q + d
  <2>1. CASE k >= u
    <3>1. d = k - u /\ ((1 + y) - x) + e \in Int
      BY <2>1 DEF d
    <3>2. o = Size * (((1 + y) - x) + e) + d
      BY <1>1, <1>9, <1>a, <3>1
    <3>3. QED
      BY <3>1, <3>2
  <2>2. CASE k < u
    <3>1. d = (k - u) + Size
      BY <1>2, <2>2 DEF d
    <3>2. o = Size * (((y - x) + e)) + d /\ (y - x) + e \in Int
      BY <1>1, <1>2, <1>9, <3>1
    <3>3. QED
      BY <3>2
  <2>3. QED
    BY <1>2, <2>1, <2>2
<1> HIDE DEF o
<1>11. o % Size = d
  BY <1>1, <1>7, <1>9, <1>10, Remainder
<1>12. QED
  BY <1>6, <1>11 DEF o, i, u, d, Place

-----------------------------------------------------------------------------
(* Types, and the room in the ring *)

\* The ring is never full to its last byte, LOG_Task counts no byte that is not in
\* it, and a packet is no longer than what was sent.
Bounded ==
  /\ Used < Size
  /\ log.at = "count" => log.len <= Used
  /\ sent > 0 => pipe.size <= sent

\* The numbers of a state, for the steps below.
LEMMA Numbers ==
  ASSUME TypeOK
  PROVE  /\ ring.read \in 0 .. Width-1 /\ ring.write \in 0 .. Width-1
         /\ Used \in 0 .. Width-1 /\ Used = Between(ring.read, ring.write)
         /\ Size \in Nat \ {0} /\ Width \in Nat /\ Total \in Nat /\ Size < Width
         /\ pipe.size \in Nat /\ pipe.size <= Width - Size
         /\ log.len \in 0 .. Size-1 /\ log.total \in Nat /\ sent \in 0 .. Total
<1>1. Size \in Nat \ {0} /\ Width \in Nat /\ Total \in Nat /\ Size < Width
  BY Ch340Assumption
<1>2. ring.read \in 0 .. Width-1 /\ ring.write \in 0 .. Width-1
  BY DEF TypeOK
<1>3. Used = Between(ring.read, ring.write)
  BY DEF Used, Between
<1>4. pipe.size \in {0} \union PacketSizes
  BY DEF TypeOK
<1>5. log.len \in 0 .. Size-1 /\ log.total \in Nat /\ sent \in 0 .. Total
  BY DEF TypeOK
<1>6. Used \in 0 .. Width-1
  BY <1>2, <1>3, BetweenIs
<1>a. PacketSizes \subseteq 1 .. Width - Size
  BY Ch340Assumption
<1>7. pipe.size \in Nat /\ pipe.size <= Width - Size
  <2>1. CASE pipe.size = 0
    BY <1>1, <2>1
  <2>2. CASE pipe.size \in PacketSizes
    <3>1. pipe.size \in 1 .. Width - Size
      BY <1>a, <2>2
    <3>2. QED
      BY <1>1, <3>1
  <2>3. QED
    BY <1>4, <2>1, <2>2
<1>8. QED
  BY <1>1, <1>2, <1>3, <1>5, <1>6, <1>7

\* A step that leaves the ring and its counters alone and brings no packet.
LEMMA BoundedKept ==
  ASSUME TypeOK, Bounded, UNCHANGED <<ring, log, sent>>, pipe'.size = pipe.size
  PROVE  Bounded'
<1>1. Used' = Used
  BY DEF Used
<1>2. QED
  BY <1>1, Numbers DEF Bounded

\* The steps of the USB thread that are not about the ring.
LEMMA UsbBounded ==
  ASSUME TypeOK, Bounded,
         \/ ClassRequest \/ EnterClass \/ Attach \/ Attached \/ SetLineCoding
         \/ GetLineCoding \/ ClearFeature \/ ReceiveData \/ Unplug \/ Removal
  PROVE  TypeOK' /\ Bounded'
<1> USE DEF Usb
<1>0. /\ cdc \in [state : {"IDLE", "ATTACH_INIT", "SET_LINE_CODING",
                           "GET_LAST_LINE_CODING", "TRANSFER_DATA", "ERROR"},
                  attach : 0..Requests, rx : RxStates]
      /\ pipe \in [urb : {"IDLE", "DONE"}, on : BOOLEAN, size : {0} \union PacketSizes]
      /\ app \in [queue : Messages \union {"none"}, next : Messages, stop : BOOLEAN,
                  at : Messages \union {"none", "get", "post", "receive", "loop", "deleted"}]
      /\ log \in [at : {"none", "look", "count", "ended"}, len : 0..Size-1, total : Nat]
  BY DEF TypeOK
<1>1. CASE ClassRequest
  <2>1. app' \in [queue : Messages \union {"none"}, next : Messages, stop : BOOLEAN,
                  at : Messages \union {"none", "get", "post", "receive", "loop", "deleted"}]
    BY <1>0, <1>1 DEF ClassRequest, Put, Messages
  <2>2. /\ log' \in [at : {"none", "look", "count", "ended"}, len : 0..Size-1, total : Nat]
        /\ log'.at = "look" /\ log'.total = log.total
    BY <1>0, <1>1 DEF ClassRequest
  <2>3. TypeOK'
    BY <1>1, <2>1, <2>2 DEF ClassRequest, TypeOK
  <2>4. Used' = Used /\ pipe' = pipe /\ sent' = sent
    BY <1>1 DEF ClassRequest, Used
  <2>5. Bounded'
    BY <2>2, <2>4 DEF Bounded
  <2>6. QED
    BY <2>3, <2>5
<1>2. CASE EnterClass
  <2>1. TypeOK'
    BY <1>2 DEF EnterClass, TypeOK
  <2>2. QED
    BY <1>2, <2>1, BoundedKept DEF EnterClass
<1>3. CASE Attach
  <2>1. cdc' \in [state : {"IDLE", "ATTACH_INIT", "SET_LINE_CODING",
                           "GET_LAST_LINE_CODING", "TRANSFER_DATA", "ERROR"},
                  attach : 0..Requests, rx : RxStates]
    BY <1>0, <1>3, Ch340Assumption DEF Attach
  <2>2. TypeOK'
    BY <1>3, <2>1 DEF Attach, TypeOK
  <2>3. QED
    BY <1>3, <2>2, BoundedKept DEF Attach
<1>4. CASE Attached \/ SetLineCoding \/ GetLineCoding \/ ClearFeature
  <2>1. cdc' \in [state : {"IDLE", "ATTACH_INIT", "SET_LINE_CODING",
                           "GET_LAST_LINE_CODING", "TRANSFER_DATA", "ERROR"},
                  attach : 0..Requests, rx : RxStates]
    BY <1>0, <1>4 DEF Attached, SetLineCoding, GetLineCoding, ClearFeature, Request
  <2>2. /\ UNCHANGED <<gState, pipe, app, ring, log, sent, torn>>
        /\ usb' = "class"
    BY <1>4 DEF Attached, SetLineCoding, GetLineCoding, ClearFeature, Request
  <2>3. TypeOK'
    BY <2>1, <2>2 DEF TypeOK
  <2>4. QED
    BY <2>2, <2>3, BoundedKept
<1>5. CASE ReceiveData
  <2>1. /\ cdc' \in [state : {"IDLE", "ATTACH_INIT", "SET_LINE_CODING",
                              "GET_LAST_LINE_CODING", "TRANSFER_DATA", "ERROR"},
                     attach : 0..Requests, rx : RxStates]
        /\ pipe' \in [urb : {"IDLE", "DONE"}, on : BOOLEAN, size : {0} \union PacketSizes]
        /\ pipe'.size = pipe.size
    BY <1>0, <1>5 DEF ReceiveData, RxStates
  <2>2. torn' \in BOOLEAN
    BY <1>5 DEF ReceiveData, Tears, TypeOK
  <2>3. TypeOK'
    BY <1>5, <2>1, <2>2 DEF ReceiveData, TypeOK
  <2>4. QED
    BY <1>5, <2>1, <2>3, BoundedKept DEF ReceiveData
<1>6. CASE Unplug \/ Removal
  <2>1. /\ app' \in [queue : Messages \union {"none"}, next : Messages, stop : BOOLEAN,
                  at : Messages \union {"none", "get", "post", "receive", "loop", "deleted"}]
        /\ pipe' \in [urb : {"IDLE", "DONE"}, on : BOOLEAN, size : {0} \union PacketSizes]
        /\ pipe'.size = pipe.size
    BY <1>0, <1>6 DEF Unplug, Removal, Stop, Disconnected, DeInit, Put, Messages
  <2>2. /\ UNCHANGED <<cdc, ring, log, sent, torn>>
        /\ gState' \in {gState, "DISCONNECTED"}
        /\ usb' \in {"stop", "stopped", "deinit", "free"}
    BY <1>6 DEF Unplug, Removal, Stop, Disconnected, DeInit
  <2>3. TypeOK'
    BY <2>1, <2>2 DEF TypeOK
  <2>4. QED
    BY <2>1, <2>2, <2>3, BoundedKept
<1>7. QED
  BY <1>1, <1>2, <1>3, <1>4, <1>5, <1>6

\* The steps of the application's thread.
LEMMA AppBounded == ASSUME TypeOK, Bounded, App PROVE TypeOK' /\ Bounded'
<1>0. /\ cdc \in [state : {"IDLE", "ATTACH_INIT", "SET_LINE_CODING",
                           "GET_LAST_LINE_CODING", "TRANSFER_DATA", "ERROR"},
                  attach : 0..Requests, rx : RxStates]
      /\ app \in [queue : Messages \union {"none"}, next : Messages, stop : BOOLEAN,
                  at : Messages \union {"none", "get", "post", "receive", "loop", "deleted"}]
  BY DEF TypeOK
<1>1. app' \in [queue : Messages \union {"none"}, next : Messages, stop : BOOLEAN,
                at : Messages \union {"none", "get", "post", "receive", "loop", "deleted"}]
  <2>1. CASE Get \/ Post
    BY <1>0, <2>1 DEF Get, Post, Put
  <2>2. CASE Ready \/ ReadyCheck \/ SettingLinecode \/ Running
    BY <1>0, <2>2 DEF Ready, ReadyCheck, SettingLinecode, Running, Posts, Waits, Messages
  <2>3. CASE Receive \/ Transmit \/ EndLoop \/ Delete
    BY <1>0, <2>3 DEF Receive, Transmit, EndLoop, Waits, Delete
  <2>4. QED
    BY <2>1, <2>2, <2>3 DEF App
<1>2. cdc' \in [state : {"IDLE", "ATTACH_INIT", "SET_LINE_CODING",
                         "GET_LAST_LINE_CODING", "TRANSFER_DATA", "ERROR"},
                attach : 0..Requests, rx : RxStates]
  <2>1. CASE Get \/ Post \/ ReadyCheck \/ EndLoop \/ Delete
    BY <1>0, <2>1 DEF Get, Post, ReadyCheck, EndLoop, Delete
  <2>2. CASE Ready \/ SettingLinecode
    BY <1>0, <2>2 DEF Ready, SettingLinecode, SetsState
  <2>3. CASE Running \/ Receive \/ Transmit
    BY <1>0, <2>3 DEF Running, Receive, Transmit, RxStates
  <2>4. QED
    BY <2>1, <2>2, <2>3 DEF App
<1>3. UNCHANGED <<gState, usb, pipe, ring, log, sent, torn>>
  BY DEF App, Get, Post, Ready, ReadyCheck, SettingLinecode, Running, Receive,
         Transmit, EndLoop, Delete, Others
<1>4. TypeOK'
  BY <1>1, <1>2, <1>3 DEF TypeOK
<1>5. QED
  BY <1>3, <1>4, BoundedKept

\* A packet for which there is room adds its bytes to those in the ring.
LEMMA RoomIs ==
  ASSUME TypeOK, Bounded, ~NoRoom,
         ring' = [ring EXCEPT !.bytes = Copied, !.write = (@ + pipe.size) % Width]
  PROVE  /\ ring'.read = ring.read /\ ring'.write \in 0 .. Width-1
         /\ ring'.bytes = Copied
         /\ Used' = Used + pipe.size /\ Used + pipe.size < Size
<1>1. /\ ring'.read = ring.read /\ ring'.bytes = Copied
      /\ ring'.write = (ring.write + pipe.size) % Width
  BY DEF TypeOK
<1>2. /\ Used + pipe.size \in 0 .. Width-1 /\ Width \in Nat \ {0}
      /\ pipe.size \in 0 .. Width-1
  BY Numbers DEF Bounded
<1>3. (Used + pipe.size) % Width = Used + pipe.size
  <2> DEFINE a == Used + pipe.size
  <2>1. a \in Int /\ a \in 0 .. Width-1 /\ a = Width * 0 + a
    BY <1>2
  <2> HIDE DEF a
  <2>2. a % Width = a
    BY <1>2, <2>1, Remainder
  <2>3. QED
    BY <2>2 DEF a
<1>4. Used + pipe.size < Size
  BY <1>3, Numbers DEF NoRoom
<1>5. /\ (ring.write + pipe.size) % Width \in 0 .. Width-1
      /\ Between(ring.read, (ring.write + pipe.size) % Width)
           = Between(ring.read, ring.write) + pipe.size
  BY <1>2, Numbers, Writes
<1>6. Used' = Between(ring'.read, ring'.write)
  BY DEF Used, Between
<1>7. QED
  BY <1>1, <1>4, <1>5, <1>6, Numbers

\* The callback.
LEMMA ReceiveBounded == ASSUME TypeOK, Bounded, ReceiveDone PROVE TypeOK' /\ Bounded'
<1>0. /\ UNCHANGED <<gState, pipe, app, log, sent>>
      /\ usb' = "class" /\ cdc.rx = "WAIT" /\ pipe.urb = "DONE"
  BY DEF ReceiveDone, Usb
<1>2. cdc' \in [state : {"IDLE", "ATTACH_INIT", "SET_LINE_CODING",
                         "GET_LAST_LINE_CODING", "TRANSFER_DATA", "ERROR"},
                attach : 0..Requests, rx : RxStates]
  BY DEF ReceiveDone, ReceiveCallback, TypeOK, RxStates
<1>3. torn' \in BOOLEAN
  BY DEF ReceiveDone, Tears, TypeOK
<1>4. CASE NoRoom
  <2>1. ring' = ring
    BY <1>4 DEF ReceiveDone, ReceiveCallback
  <2>2. TypeOK'
    BY <1>0, <1>2, <1>3, <2>1 DEF TypeOK
  <2>3. QED
    BY <1>0, <2>1, <2>2, BoundedKept
<1>5. CASE ~NoRoom
  <2>1. ring' = [ring EXCEPT !.bytes = Copied, !.write = (@ + pipe.size) % Width]
    BY <1>5 DEF ReceiveDone, ReceiveCallback
  <2>2. /\ ring'.read = ring.read /\ ring'.write \in 0 .. Width-1
        /\ ring'.bytes = Copied
        /\ Used' = Used + pipe.size /\ Used + pipe.size < Size
    BY <1>5, <2>1, RoomIs
  <2>3. Copied \in [0 .. Size-1 -> 0 .. Total]
    <3> DEFINE offset(i) == ((i + Size) - (ring.write % Size)) % Size
    <3>1. ASSUME NEW i \in 0 .. Size-1 PROVE offset(i) \in 0 .. Size-1
      <4>0. ring.write \in Int /\ Size \in Nat \ {0}
        BY Numbers
      <4>1. ring.write % Size \in 0 .. Size-1
        BY <4>0, Division
      <4>2. (i + Size) - (ring.write % Size) \in Int
        BY <4>1, Numbers
      <4>3. QED
        BY <4>2, Numbers, Division
    <3> HIDE DEF offset
    <3>2. sent > 0 => pipe.size <= sent
      BY DEF Bounded
    <3>3. ASSUME NEW i \in 0 .. Size-1
          PROVE  (IF offset(i) < pipe.size THEN Received(offset(i))
                  ELSE ring.bytes[i]) \in 0 .. Total
      <4>1. ring.bytes[i] \in 0 .. Total
        BY DEF TypeOK
      <4>2. QED
        BY <3>1, <3>2, <4>1, Numbers DEF Received
    <3>4. Copied = [i \in 0..Size-1 |->
             IF offset(i) < pipe.size THEN Received(offset(i)) ELSE ring.bytes[i]]
      BY DEF Copied, offset
    <3>5. QED
      BY <3>3, <3>4
  <2>4. ring' \in [bytes : [0..Size-1 -> 0..Total], read : 0..Width-1, write : 0..Width-1]
    BY <2>1, <2>2, <2>3 DEF TypeOK
  <2>5. TypeOK'
    BY <1>0, <1>2, <1>3, <2>4 DEF TypeOK
  <2>6. Bounded'
    BY <1>0, <2>2, Numbers DEF Bounded
  <2>7. QED
    BY <2>5, <2>6
<1>6. QED
  BY <1>4, <1>5

\* What is counted leaves the ring.
LEMMA CountIs ==
  ASSUME TypeOK, Bounded, Count
  PROVE  /\ ring'.read = (ring.read + log.len) % Width /\ ring'.read \in 0 .. Width-1
         /\ ring'.write = ring.write /\ ring'.bytes = ring.bytes
         /\ Used' = Used - log.len /\ log.len <= Used
         /\ log'.at = "look" /\ log'.total = log.total + log.len /\ log'.len = log.len
<1>1. /\ ring'.read = (ring.read + log.len) % Width /\ ring'.write = ring.write
      /\ ring'.bytes = ring.bytes
      /\ log'.at = "look" /\ log'.total = log.total + log.len /\ log'.len = log.len
  BY DEF Count, TypeOK
<1>2. log.len <= Used
  BY DEF Count, Bounded
<1>3. log.len \in 0 .. Between(ring.read, ring.write)
  BY <1>2, Numbers
<1>4. /\ (ring.read + log.len) % Width \in 0 .. Width-1
      /\ Between((ring.read + log.len) % Width, ring.write)
           = Between(ring.read, ring.write) - log.len
  BY <1>3, Numbers, Reads
<1>5. Used' = Between(ring'.read, ring'.write)
  BY DEF Used, Between
<1>6. QED
  BY <1>1, <1>2, <1>4, <1>5, Numbers

\* LOG_Task, and the adapter.
LEMMA LogBounded == ASSUME TypeOK, Bounded, LogTask \/ Send PROVE TypeOK' /\ Bounded'
<1>1. CASE Look
  <2>1. /\ UNCHANGED <<gState, usb, cdc, pipe, app, ring, sent, torn>>
        /\ log' \in [at : {"none", "look", "count", "ended"}, len : 0..Size-1, total : Nat]
        /\ log'.total = log.total
        /\ log'.at = "count" => log'.len = Used
    <3>1. CASE app.stop
      BY <1>1, <3>1 DEF Look, TypeOK
    <3>2. CASE ~app.stop
      <4>1. Used \in 0 .. Size-1
        BY Numbers DEF Bounded
      <4>2. log' = [log EXCEPT !.at = "count", !.len = Used]
        BY <1>1, <3>2 DEF Look
      <4> HIDE DEF Used
      <4>3. /\ log' \in [at : {"none", "look", "count", "ended"}, len : 0..Size-1,
                         total : Nat]
            /\ log'.total = log.total /\ log'.len = Used
        BY <4>1, <4>2 DEF TypeOK
      <4>4. QED
        BY <1>1, <4>3 DEF Look
    <3>3. QED
      BY <3>1, <3>2
  <2>2. TypeOK'
    BY <2>1 DEF TypeOK
  <2>3. Used' = Used
    BY <2>1 DEF Used
  <2>4. Bounded'
    BY <2>1, <2>3, Numbers DEF Bounded
  <2>5. QED
    BY <2>2, <2>4
<1>2. CASE Count
  <2>1. UNCHANGED <<gState, usb, cdc, pipe, app, sent, torn>>
    BY <1>2 DEF Count
  <2>2. /\ ring'.read = (ring.read + log.len) % Width /\ ring'.read \in 0 .. Width-1
        /\ ring'.write = ring.write /\ ring'.bytes = ring.bytes
        /\ Used' = Used - log.len /\ log.len <= Used
        /\ log'.at = "look" /\ log'.total = log.total + log.len /\ log'.len = log.len
    BY <1>2, CountIs
  <2>4. Bounded'
    BY <2>1, <2>2, Numbers DEF Bounded
  <2>5. log'.total \in Nat
    BY <2>2, Numbers
  <2>6. log' \in [at : {"none", "look", "count", "ended"}, len : 0..Size-1, total : Nat]
    BY <1>2, <2>2, <2>5 DEF Count, TypeOK
  <2>7. ring' \in [bytes : [0..Size-1 -> 0..Total], read : 0..Width-1, write : 0..Width-1]
    BY <1>2, <2>2 DEF Count, TypeOK
  <2>8. TypeOK'
    BY <2>1, <2>6, <2>7 DEF TypeOK
  <2>9. QED
    BY <2>4, <2>8
<1>3. CASE Send
  <2>1. PICK n \in PacketSizes :
          /\ sent + n <= Total
          /\ pipe' = [urb |-> "DONE", on |-> FALSE, size |-> n]
          /\ sent' = sent + n
    BY <1>3 DEF Send
  <2>2. n \in Nat
    BY Ch340Assumption
  <2>3. UNCHANGED <<gState, usb, cdc, app, ring, log, torn>>
    BY <1>3 DEF Send
  <2>4. Used' = Used
    BY <2>3 DEF Used
  <2>5. sent' \in 0 .. Total
    BY <2>1, <2>2, Numbers
  <2>6. pipe' \in [urb : {"IDLE", "DONE"}, on : BOOLEAN, size : {0} \union PacketSizes]
    BY <2>1
  <2>7. TypeOK'
    BY <2>3, <2>5, <2>6 DEF TypeOK
  <2>8. Bounded'
    BY <2>1, <2>2, <2>3, <2>4, Numbers DEF Bounded
  <2>9. QED
    BY <2>7, <2>8
<1>4. QED
  BY <1>1, <1>2, <1>3 DEF LogTask

\* Every step keeps the types and the bounds.
LEMMA BoundedStep == TypeOK /\ Bounded /\ [Next]_vars => TypeOK' /\ Bounded'
<1> SUFFICES ASSUME TypeOK, Bounded, [Next]_vars PROVE TypeOK' /\ Bounded'
  OBVIOUS
<1>1. CASE Process
  BY <1>1, UsbBounded, ReceiveBounded DEF Process
<1>2. CASE Unplug \/ Removal
  BY <1>2, UsbBounded
<1>3. CASE App
  BY <1>3, AppBounded
<1>4. CASE LogTask \/ Send
  BY <1>4, LogBounded
<1>5. CASE UNCHANGED vars
  <2>1. TypeOK'
    BY <1>5 DEF vars, TypeOK
  <2>2. QED
    BY <1>5, <2>1, BoundedKept DEF vars
<1>6. QED
  BY <1>1, <1>2, <1>3, <1>4, <1>5 DEF Next

\* After new_CH340_Application the ring is empty.
LEMMA InitBounded == Init => TypeOK /\ Bounded
<1> SUFFICES ASSUME Init PROVE TypeOK /\ Bounded
  OBVIOUS
<1>1. /\ Size \in Nat \ {0} /\ Width \in Nat \ {0} /\ Total \in Nat /\ Requests \in Nat
  BY Ch340Assumption
<1>2. ring \in [bytes : [0..Size-1 -> 0..Total], read : 0..Width-1, write : 0..Width-1]
  BY <1>1 DEF Init
<1>3. log \in [at : {"none", "look", "count", "ended"}, len : 0..Size-1, total : Nat]
  BY <1>1 DEF Init
<1>4. cdc \in [state : {"IDLE", "ATTACH_INIT", "SET_LINE_CODING",
                        "GET_LAST_LINE_CODING", "TRANSFER_DATA", "ERROR"},
               attach : 0..Requests, rx : RxStates]
  BY <1>1 DEF Init
<1>5. app \in [queue : Messages \union {"none"}, next : Messages, stop : BOOLEAN,
               at : Messages \union {"none", "get", "post", "receive", "loop", "deleted"}]
  BY DEF Init, Messages
<1>6. TypeOK
  BY <1>1, <1>2, <1>3, <1>4, <1>5 DEF Init, TypeOK
<1>7. Between(0, 0) = 0
  BY <1>1, BetweenOnly
<1>8. Used = 0
  BY <1>7 DEF Init, Used, Between
<1>9. QED
  BY <1>1, <1>6, <1>8 DEF Init, Bounded

\* The ring is never full to its last byte, and LOG_Task counts none that is not in it,
\* whatever the memory of the class holds at the start.
THEOREM RingBounded == Spec => []Bounded
<1>1. TypeOK /\ Bounded /\ [Next]_vars => (TypeOK /\ Bounded)'
  BY BoundedStep
<1>2. QED
  BY <1>1, InitBounded, PTL DEF Spec

\* Every variable keeps its type, whatever the memory of the class holds at the start.
THEOREM TypeCorrect == Spec => []TypeOK
<1>1. TypeOK /\ Bounded /\ [Next]_vars => (TypeOK /\ Bounded)'
  BY BoundedStep
<1>2. QED
  BY <1>1, InitBounded, PTL DEF Spec

-----------------------------------------------------------------------------
(* The order of the bytes *)

\* The application has not asked for a reception yet, and may still do so.
Posted == Messages \ {"DISCONNECT"}
Unheard ==
  \/ app.at \in Posted \union {"none", "post", "receive"}
  \/ app.at = "get" /\ app.queue \in Posted

\* One message of the application's start is on its way at most: it asks for a
\* reception once.
OneMessage ==
  /\ usb = "request" => app.at = "none"
  /\ app.at = "none" => usb = "request" /\ app.queue = "none"
  /\ app.at # "get" => app.queue \in {"none", "DISCONNECT"}

\* The application has asked for its reception, and the class may act on it.
Heard == app.at = "loop" \/ (cdc.state = "TRANSFER_DATA" /\ app.at # "receive")

\* Before the request the class moves data at most between the two writes of
\* USBH_CDC_Receive.
Asked == cdc.state = "TRANSFER_DATA" /\ Unheard => app.at = "receive"

\* Before the request nothing is sent.  From then on what was sent is counted, in the
\* ring or in the one packet that the class has, up to the packet for which there was no
\* room; and a transfer is under way only while nothing is in between.
Exact ==
  /\ Unheard => ~pipe.on /\ sent = 0
  /\ log.total + Used <= sent
  /\ pipe.on => cdc.rx = "WAIT" /\ pipe.urb = "IDLE"
  /\ Heard /\ (pipe.on \/ cdc.rx = "RECEIVE") => sent = log.total + Used
  /\ Heard /\ cdc.rx = "WAIT" /\ pipe.urb = "DONE" =>
       sent > 0 /\ sent = log.total + Used + pipe.size

Order == RingInOrder /\ OneMessage /\ Asked /\ (torn \/ Exact)

\* A step that leaves the ring and its counters alone.
LEMMA InOrderKept ==
  ASSUME RingInOrder, ring' = ring, log'.total = log.total, torn => torn'
  PROVE  RingInOrder' /\ Used' = Used
BY DEF RingInOrder, Used

\* The callback puts the packet after the bytes that are in the ring, and leaves those.
LEMMA CopiedInOrder ==
  ASSUME TypeOK, Bounded, RingInOrder, torn => torn', ~NoRoom, log' = log,
         torn' \/ (sent > 0 /\ sent = log.total + Used + pipe.size),
         ring' = [ring EXCEPT !.bytes = Copied, !.write = (@ + pipe.size) % Width]
  PROVE  RingInOrder'
<1>1. /\ ring'.read = ring.read /\ ring'.bytes = Copied
      /\ Used' = Used + pipe.size /\ Used + pipe.size < Size
  BY RoomIs
<1>2. /\ ring.read \in 0 .. Width-1 /\ ring.write \in 0 .. Width-1
      /\ Used \in Nat /\ pipe.size \in Nat /\ Size \in Nat /\ sent \in Nat
      /\ log.total \in Nat /\ Used = Between(ring.read, ring.write)
  BY Numbers
<1>3. ASSUME NEW k \in 0 .. (Used + pipe.size) - 1, ~torn'
      PROVE  Copied[(ring.read + k) % Size] = log.total + 1 + k
  <2> DEFINE i == (ring.read + k) % Size
             offset == IF k >= Used THEN k - Used ELSE (k - Used) + Size
  <2>1. k \in Nat /\ k - Used < Size /\ k - Used >= -Size
    BY <1>1, <1>2
  <2>2. i \in 0 .. Size-1 /\ Place(i, ring.write) = offset
    BY <1>2, <2>1, Places
  <2> HIDE DEF i, offset
  <2>a. sent > 0 /\ sent = log.total + Used + pipe.size /\ ~torn
    BY <1>3
  <2>3. Copied[i] = IF offset < pipe.size THEN (sent - pipe.size) + 1 + offset
                    ELSE ring.bytes[i]
    BY <1>2, <2>2, <2>a DEF Copied, Place, Received
  <2>4. CASE k >= Used
    <3>1. offset = k - Used /\ offset < pipe.size
      BY <1>2, <2>1, <2>4 DEF offset
    <3>2. QED
      BY <1>2, <2>1, <2>3, <2>a, <3>1 DEF i
  <2>5. CASE k < Used
    <3>1. offset = (k - Used) + Size /\ ~(offset < pipe.size)
      BY <1>1, <1>2, <2>1, <2>5 DEF offset
    <3>2. k \in 0 .. Used - 1
      BY <1>2, <2>1, <2>5
    <3>3. ring.bytes[i] = log.total + 1 + k
      BY <2>a, <3>2 DEF RingInOrder, i
    <3>4. QED
      BY <2>3, <3>1, <3>3 DEF i
  <2>6. QED
    BY <1>2, <2>1, <2>4, <2>5
<1> HIDE DEF Used, Copied
<1>4. ~torn' => \A k \in 0 .. Used' - 1 :
                 ring'.bytes[(ring'.read + k) % Size] = log'.total + 1 + k
  BY <1>1, <1>3
<1>5. QED
  BY <1>1, <1>4 DEF RingInOrder

\* LOG_Task takes the first bytes out of the ring.
LEMMA CountedInOrder ==
  ASSUME TypeOK, Bounded, RingInOrder, Count PROVE RingInOrder'
<1>1. /\ ring'.read = (ring.read + log.len) % Width
      /\ ring'.bytes = ring.bytes
      /\ Used' = Used - log.len /\ log.len <= Used
      /\ log'.total = log.total + log.len
  BY CountIs
<1>2. /\ ring.read \in 0 .. Width-1 /\ log.len \in Nat /\ Used \in 0 .. Width-1
      /\ log.total \in Nat /\ Size \in Nat \ {0} /\ Width \in Nat
  BY Numbers
<1>3. log.len \in 0 .. Width-1
  BY <1>1, <1>2
<1>4. \/ ring'.read = ring.read + log.len
      \/ ring'.read = (ring.read + log.len) - Width
  BY <1>1, <1>2, <1>3, Advances
<1>5. ASSUME NEW k \in 0 .. (Used - log.len) - 1, ~torn
      PROVE  ring.bytes[(ring'.read + k) % Size] = log.total + log.len + 1 + k
  <2> DEFINE a == ring.read + (log.len + k)
  <2>1. /\ k \in Nat /\ log.len + k \in 0 .. Used - 1 /\ a \in Int
        /\ ring'.read + k = a \/ ring'.read + k = a - Width
    BY <1>2, <1>4
  <2>2. ring.bytes[a % Size] = log.total + 1 + (log.len + k)
    BY <1>5, <2>1 DEF RingInOrder
  <2> HIDE DEF a
  <2>3. (a - Width) % Size = a % Size
    BY <2>1, Wraps
  <2>4. (ring'.read + k) % Size = a % Size
    BY <2>1, <2>3
  <2>5. log.total + 1 + (log.len + k) = log.total + log.len + 1 + k
    BY <1>2, <2>1
  <2>6. QED
    BY <2>2, <2>4, <2>5
<1>6. Used' < Size
  BY <1>1, <1>2, Numbers DEF RingInOrder
<1> HIDE DEF Used
<1>7. ~torn => \A k \in 0 .. Used' - 1 :
                ring'.bytes[(ring'.read + k) % Size] = log'.total + 1 + k
  BY <1>1, <1>5
<1>8. torn' = torn
  BY DEF Count
<1>9. QED
  BY <1>6, <1>7, <1>8 DEF RingInOrder

\* The steps of the USB thread that are not about the ring.
LEMMA UsbOrder ==
  ASSUME TypeOK, Bounded, Order,
         \/ ClassRequest \/ EnterClass \/ Attach \/ Attached \/ SetLineCoding
         \/ GetLineCoding \/ ClearFeature \/ ReceiveData \/ Unplug \/ Removal
  PROVE  Order'
<1> USE DEF Usb
<1>1. UNCHANGED <<ring, sent>> /\ log'.total = log.total /\ (torn => torn')
  BY DEF ClassRequest, EnterClass, Attach, Attached, SetLineCoding, GetLineCoding,
         ClearFeature, Request, ReceiveData, Unplug, Removal, Stop, Disconnected, DeInit,
         Tears, TypeOK
<1>2. RingInOrder' /\ Used' = Used
  BY <1>1, InOrderKept DEF Order
<1>3. CASE ClassRequest
  <2>1. /\ usb = "request" /\ usb' = "announced" /\ torn' = torn
        /\ app'.at = "get" /\ UNCHANGED <<cdc, pipe>>
    BY <1>3 DEF ClassRequest, TypeOK
  <2>2. OneMessage'
    BY <2>1 DEF OneMessage
  <2>3. Unheard /\ app.at = "none"
    BY <2>1 DEF Order, OneMessage, Unheard
  <2>4. Asked' /\ ~Heard'
    BY <2>1, <2>3 DEF Order, Asked, Heard
  <2>5. torn' \/ Exact'
    BY <1>1, <1>2, <2>1, <2>3, <2>4 DEF Order, Exact
  <2>6. QED
    BY <1>2, <2>2, <2>4, <2>5 DEF Order
<1>4. CASE EnterClass \/ Attach \/ Attached \/ SetLineCoding \/ GetLineCoding \/ ClearFeature
  <2>1. /\ usb # "request" /\ usb' # "request" /\ UNCHANGED <<app, pipe, torn>>
        /\ cdc'.rx = cdc.rx /\ (cdc'.state = "TRANSFER_DATA" => cdc.state = "TRANSFER_DATA")
    BY <1>4 DEF EnterClass, Attach, Attached, SetLineCoding, GetLineCoding, ClearFeature,
                Request, TypeOK
  <2>2. OneMessage' /\ Asked' /\ (Unheard' => Unheard) /\ (Heard' => Heard)
    BY <2>1 DEF Order, OneMessage, Asked, Unheard, Heard
  <2>3. torn' \/ Exact'
    BY <1>1, <1>2, <2>1, <2>2 DEF Order, Exact
  <2>4. QED
    BY <1>2, <2>2, <2>3 DEF Order
<1>5. CASE ReceiveData
  <2>1. /\ usb # "request" /\ usb' # "request" /\ UNCHANGED app
        /\ cdc.rx = "RECEIVE" /\ cdc'.rx = "WAIT" /\ pipe'.urb = "IDLE" /\ pipe'.on
        /\ cdc.state = "TRANSFER_DATA" /\ cdc'.state = cdc.state
        /\ torn' \/ (~torn /\ app.at # "receive")
    BY <1>5 DEF ReceiveData, Tears, TypeOK
  <2>2. OneMessage' /\ Asked' /\ (Unheard' => Unheard)
    BY <2>1 DEF Order, OneMessage, Asked, Unheard
  <2>3. torn' \/ (~Unheard /\ sent = log.total + Used /\ Exact)
    BY <2>1 DEF Order, Asked, Heard, Exact
  <2>4. torn' \/ Exact'
    BY <1>1, <1>2, <2>1, <2>2, <2>3 DEF Exact
  <2>5. QED
    BY <1>2, <2>2, <2>4 DEF Order
<1>6. CASE Unplug \/ Removal
  <2>1. /\ usb # "request" /\ usb' # "request" /\ UNCHANGED <<cdc, torn>>
        /\ app'.at = app.at /\ (app'.queue = app.queue \/ app'.queue = "DISCONNECT")
        /\ pipe'.urb = pipe.urb /\ pipe'.size = pipe.size /\ (pipe'.on => pipe.on)
    BY <1>6 DEF Unplug, Removal, Stop, Disconnected, DeInit, Put, TypeOK
  <2>2. OneMessage'
    BY <2>1 DEF Order, OneMessage
  <2>3. Asked' /\ (Unheard' => Unheard) /\ (Heard' => Heard)
    BY <2>1 DEF Order, Asked, Unheard, Heard, Posted
  <2>4. torn' \/ Exact'
    BY <1>1, <1>2, <2>1, <2>3 DEF Order, Exact
  <2>5. QED
    BY <1>2, <2>2, <2>3, <2>4 DEF Order
<1>7. QED
  BY <1>3, <1>4, <1>5, <1>6

\* The steps of the application's thread: it asks for a reception while nothing was sent.
LEMMA AppOrder == ASSUME TypeOK, Bounded, Order, App PROVE Order'
<1>1. UNCHANGED <<gState, usb, pipe, ring, log, sent, torn>>
  BY DEF App, Get, Post, Ready, ReadyCheck, SettingLinecode, Running, Receive,
         Transmit, EndLoop, Delete, Others
<1>2. RingInOrder' /\ Used' = Used
  BY <1>1, InOrderKept DEF Order
<1>3. app.at # "none"
  BY DEF App, Get, Post, Ready, ReadyCheck, SettingLinecode, Running, Receive,
         Transmit, EndLoop, Delete
<1>4. CASE Get
  <2>1. /\ app.at = "get" /\ app.queue # "none" /\ app'.at = app.queue
        /\ app'.queue = "none" /\ cdc' = cdc /\ app.queue \in Messages
    BY <1>4 DEF Get, TypeOK
  <2>2. OneMessage'
    BY <1>1, <2>1 DEF Order, OneMessage, Messages
  <2>3. Asked' /\ (Unheard' => Unheard) /\ (Heard' => Heard)
    BY <2>1 DEF Order, Asked, Unheard, Heard, Posted, Messages
  <2>4. torn' \/ Exact'
    BY <1>1, <1>2, <2>1, <2>3 DEF Order, Exact
  <2>5. QED
    BY <1>2, <2>2, <2>3, <2>4 DEF Order
<1>5. CASE Post
  <2>1. /\ app.at = "post" /\ app'.at = "get" /\ cdc' = cdc
    BY <1>5 DEF Post, TypeOK
  <2>2. OneMessage'
    BY <1>1, <2>1 DEF Order, OneMessage
  <2>3. Unheard
    BY <2>1 DEF Unheard
  <2>4. Asked' /\ ~Heard'
    BY <2>1, <2>3 DEF Order, Asked, Heard
  <2>5. torn' \/ Exact'
    BY <1>1, <1>2, <2>1, <2>3, <2>4 DEF Order, Exact
  <2>6. QED
    BY <1>2, <2>2, <2>4, <2>5 DEF Order
<1>6. CASE Ready \/ ReadyCheck \/ SettingLinecode \/ Running
  <2>1. /\ app.at \in Posted /\ app'.queue = app.queue /\ app'.at \in {"post", "get", "receive"}
        /\ cdc'.rx = cdc.rx
        /\ cdc'.state = "TRANSFER_DATA" =>
             cdc.state = "TRANSFER_DATA" \/ app'.at = "receive"
    BY <1>6 DEF Ready, ReadyCheck, SettingLinecode, Running, SetsState, Posts, Waits,
                Posted, Messages, TypeOK
  <2>2. OneMessage'
    BY <1>1, <1>3, <2>1 DEF Order, OneMessage, Posted, Messages
  <2>3. Unheard /\ app.at # "receive"
    BY <2>1 DEF Unheard, Posted, Messages
  <2>4. Asked' /\ ~Heard'
    BY <2>1, <2>3 DEF Order, Asked, Heard
  <2>5. torn' \/ Exact'
    BY <1>1, <1>2, <2>1, <2>3, <2>4 DEF Order, Exact
  <2>6. QED
    BY <1>2, <2>2, <2>4, <2>5 DEF Order
<1>7. CASE Receive
  <2>1. /\ app.at = "receive" /\ app'.at = "loop" /\ app'.queue = app.queue
        /\ cdc'.rx = "RECEIVE"
    BY <1>7 DEF Receive, TypeOK
  <2>2. OneMessage'
    BY <1>1, <1>3, <2>1 DEF Order, OneMessage
  <2>3. ~Unheard' /\ Asked'
    BY <2>1 DEF Unheard, Asked, Posted, Messages
  <2>4. torn \/ (sent = 0 /\ ~pipe.on /\ log.total + Used <= sent)
    BY <2>1 DEF Order, Exact, Unheard
  <2>5. torn \/ sent = log.total + Used
    BY <2>4, Numbers
  <2>6. torn' \/ Exact'
    BY <1>1, <1>2, <2>1, <2>3, <2>4, <2>5 DEF Exact
  <2>7. QED
    BY <1>2, <2>2, <2>3, <2>6 DEF Order
<1>8. CASE Transmit
  <2>1. app' = app /\ app.at = "loop" /\ cdc'.rx = cdc.rx
    BY <1>8 DEF Transmit, TypeOK
  <2>2. OneMessage' /\ (Unheard' => Unheard) /\ Heard /\ Heard'
    BY <1>1, <2>1 DEF Order, OneMessage, Unheard, Heard
  <2>3. Asked'
    BY <2>1 DEF Asked, Unheard, Posted, Messages
  <2>4. torn' \/ Exact'
    BY <1>1, <1>2, <2>1, <2>2 DEF Order, Exact
  <2>5. QED
    BY <1>2, <2>2, <2>3, <2>4 DEF Order
<1>9. CASE EndLoop \/ Delete
  <2>1. /\ app'.queue = app.queue /\ app'.at \in {"get", "deleted"} /\ cdc' = cdc
        /\ app.at \in {"loop", "DISCONNECT"}
    BY <1>9 DEF EndLoop, Delete, Waits, TypeOK
  <2>2. OneMessage'
    BY <1>1, <1>3, <2>1 DEF Order, OneMessage
  <2>3. ~Unheard'
    BY <2>1 DEF Order, OneMessage, Unheard, Posted, Messages
  <2>4. Asked' /\ (Heard' => Heard)
    BY <2>1, <2>3 DEF Asked, Heard
  <2>5. torn' \/ Exact'
    BY <1>1, <1>2, <2>1, <2>3, <2>4 DEF Order, Exact
  <2>6. QED
    BY <1>2, <2>2, <2>4, <2>5 DEF Order
<1>10. QED
  BY <1>4, <1>5, <1>6, <1>7, <1>8, <1>9 DEF App

\* The callback.
LEMMA ReceiveOrder == ASSUME TypeOK, Bounded, Order, ReceiveDone PROVE Order'
<1>1. /\ UNCHANGED <<gState, usb, pipe, app, log, sent>>
      /\ usb = "class" /\ cdc.rx = "WAIT" /\ pipe.urb = "DONE"
      /\ cdc.state = "TRANSFER_DATA" /\ cdc'.state = cdc.state
      /\ torn' \/ (~torn /\ app.at # "receive")
      /\ torn => torn'
  BY DEF ReceiveDone, ReceiveCallback, Tears, Usb, TypeOK
<1>2. torn' \/ (/\ sent > 0 /\ sent = log.total + Used + pipe.size
                /\ ~Unheard /\ ~pipe.on)
  BY <1>1 DEF Order, Asked, Heard, Exact
<1>3. OneMessage' /\ Asked' /\ (Unheard' => Unheard)
  BY <1>1 DEF Order, OneMessage, Asked, Unheard
<1>4. CASE NoRoom
  <2>1. ring' = ring /\ cdc'.rx = "IDLE"
    BY <1>4 DEF ReceiveDone, ReceiveCallback, TypeOK
  <2>2. RingInOrder' /\ Used' = Used
    BY <1>1, <2>1, InOrderKept DEF Order
  <2>3. torn' \/ log.total + Used <= sent
    BY <1>2, Numbers
  <2>4. torn' \/ Exact'
    BY <1>1, <1>2, <1>3, <2>1, <2>2, <2>3 DEF Exact
  <2>5. QED
    BY <1>3, <2>2, <2>4 DEF Order
<1>5. CASE ~NoRoom
  <2>1. /\ ring' = [ring EXCEPT !.bytes = Copied, !.write = (@ + pipe.size) % Width]
        /\ cdc'.rx = "RECEIVE"
    BY <1>5 DEF ReceiveDone, ReceiveCallback, TypeOK
  <2>2. RingInOrder'
    BY <1>1, <1>2, <1>5, <2>1, CopiedInOrder DEF Order
  <2>3. Used' = Used + pipe.size
    BY <1>5, <2>1, RoomIs
  <2>4. torn' \/ (sent = log.total + (Used + pipe.size) /\ log.total + (Used + pipe.size) <= sent)
    BY <1>2, Numbers
  <2>5. torn' \/ Exact'
    BY <1>1, <1>2, <1>3, <2>1, <2>3, <2>4 DEF Exact
  <2>6. QED
    BY <1>3, <2>2, <2>5 DEF Order
<1>6. QED
  BY <1>4, <1>5

\* LOG_Task, and the adapter.
LEMMA LogOrder == ASSUME TypeOK, Bounded, Order, LogTask \/ Send PROVE Order'
<1>1. CASE Look
  <2>1. UNCHANGED <<usb, cdc, pipe, app, ring, sent, torn>> /\ log'.total = log.total
    BY <1>1 DEF Look, TypeOK
  <2>2. RingInOrder' /\ Used' = Used
    BY <2>1, InOrderKept DEF Order
  <2>3. OneMessage' /\ Asked' /\ (Unheard' => Unheard) /\ (Heard' => Heard)
    BY <2>1 DEF Order, OneMessage, Asked, Unheard, Heard
  <2>4. torn' \/ Exact'
    BY <2>1, <2>2, <2>3 DEF Order, Exact
  <2>5. QED
    BY <2>2, <2>3, <2>4 DEF Order
<1>2. CASE Count
  <2>1. UNCHANGED <<usb, cdc, pipe, app, sent, torn>>
    BY <1>2 DEF Count
  <2>2. RingInOrder'
    BY <1>2, CountedInOrder DEF Order
  <2>3. Used' = Used - log.len /\ log'.total = log.total + log.len
    BY <1>2, CountIs
  <2>4. OneMessage' /\ Asked' /\ (Unheard' => Unheard) /\ (Heard' => Heard)
    BY <2>1 DEF Order, OneMessage, Asked, Unheard, Heard
  <2>5. log'.total + Used' = log.total + Used
    BY <2>3, Numbers
  <2>6. torn' \/ Exact'
    BY <2>1, <2>4, <2>5 DEF Order, Exact
  <2>7. QED
    BY <2>2, <2>4, <2>6 DEF Order
<1>3. CASE Send
  <2>1. PICK n \in PacketSizes :
          /\ pipe' = [urb |-> "DONE", on |-> FALSE, size |-> n]
          /\ sent' = sent + n
    BY <1>3 DEF Send
  <2>2. pipe.on /\ UNCHANGED <<usb, cdc, app, ring, log, torn>>
    BY <1>3 DEF Send
  <2>3. RingInOrder' /\ Used' = Used
    BY <2>2, InOrderKept DEF Order
  <2>4. OneMessage' /\ Asked' /\ (Unheard' => Unheard) /\ (Heard' => Heard)
    BY <2>2 DEF Order, OneMessage, Asked, Unheard, Heard
  <2>5. torn \/ (~Unheard /\ cdc.rx = "WAIT" /\ (Heard => sent = log.total + Used)
                 /\ log.total + Used <= sent)
    BY <2>2 DEF Order, Exact
  <2>6. n \in Nat \ {0}
    BY Ch340Assumption
  <2>7. torn \/ (/\ log.total + Used <= sent + n /\ sent + n > 0
                 /\ Heard => sent + n = log.total + Used + n)
    BY <2>5, <2>6, Numbers
  <2>8. torn' \/ Exact'
    BY <2>1, <2>2, <2>3, <2>4, <2>5, <2>7 DEF Exact
  <2>9. QED
    BY <2>3, <2>4, <2>8 DEF Order
<1>4. QED
  BY <1>1, <1>2, <1>3 DEF LogTask

\* Every step keeps the order.
LEMMA OrderStep == TypeOK /\ Bounded /\ Order /\ [Next]_vars => Order'
<1> SUFFICES ASSUME TypeOK, Bounded, Order, [Next]_vars PROVE Order'
  OBVIOUS
<1>1. CASE Process
  BY <1>1, UsbOrder, ReceiveOrder DEF Process
<1>2. CASE Unplug \/ Removal
  BY <1>2, UsbOrder
<1>3. CASE App
  BY <1>3, AppOrder
<1>4. CASE LogTask \/ Send
  BY <1>4, LogOrder
<1>5. CASE UNCHANGED vars
  <2>1. RingInOrder' /\ Used' = Used
    BY <1>5, InOrderKept DEF vars, Order
  <2>2. OneMessage' /\ Asked' /\ (Unheard' => Unheard) /\ (Heard' => Heard)
    BY <1>5 DEF vars, Order, OneMessage, Asked, Unheard, Heard
  <2>3. torn' \/ Exact'
    BY <1>5, <2>1, <2>2 DEF vars, Order, Exact
  <2>4. QED
    BY <2>1, <2>2, <2>3 DEF Order
<1>6. QED
  BY <1>1, <1>2, <1>3, <1>4, <1>5 DEF Next

\* The program starts with an empty ring and asks for no reception, whatever malloc and
\* the channel's last user have left.
LEMMA InitOrder == Init => Order
<1> SUFFICES ASSUME Init PROVE Order
  OBVIOUS
<1>1. Used = 0
  <2>1. Between(0, 0) = 0
    BY Ch340Assumption, BetweenOnly
  <2>2. QED
    BY <2>1 DEF Init, Used, Between
<1>2. RingInOrder
  BY <1>1, Ch340Assumption DEF RingInOrder
<1>3. OneMessage
  BY DEF Init, OneMessage
<1>4. ~Heard /\ Asked /\ ~pipe.on
  BY DEF Init, Heard, Asked
<1>5. Exact
  BY <1>1, <1>4 DEF Init, Exact
<1>6. QED
  BY <1>2, <1>3, <1>4, <1>5 DEF Order

\* What lies between p_read and p_write is what the adapter sent next, in order, unless
\* the class has acted on what malloc left in data_rx_state.
THEOREM RingKeepsOrder == Spec => []RingInOrder
<1>1. Init => TypeOK /\ Bounded /\ Order
  BY InitBounded, InitOrder
<1>2. TypeOK /\ Bounded /\ Order /\ [Next]_vars => (TypeOK /\ Bounded /\ Order)'
  BY BoundedStep, OrderStep
<1>3. Order => RingInOrder
  BY DEF Order
<1>4. QED
  BY <1>1, <1>2, <1>3, PTL DEF Spec
=============================================================================
