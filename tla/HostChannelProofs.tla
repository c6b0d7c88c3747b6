-------------------------- MODULE HostChannelProofs --------------------------
(***************************************************************************)
(* What HostChannel promises, for every size of ring and of page, whatever *)
(* a program asks for, and any number of opens.                            *)
(*                                                                         *)
(* The inductive invariant is IndInv.  Structure says which of MMD, driver *)
(* and board knows which ring; PushOK and PullOK say for each channel what *)
(* is in the ring: between where the reader is and where the writer is the *)
(* units that are on the way, in order (PushFlow, PullFlow), and that the  *)
(* board has been told of no more than the host has done (PushServed,      *)
(* PullServed).  PollInv says that polling goes on.                        *)
(***************************************************************************)
EXTENDS HostChannel, WellFoundedInduction, TLAPS

-----------------------------------------------------------------------------
(* Sizes and positions *)

Sizes(c) == {ChannelDepth(n) : n \in Asked[c]}

\* The least number of a nonempty set of naturals is in it.
LEMMA LeastIn ==
  ASSUME NEW S \in SUBSET Nat, S # {}
  PROVE  Min(S) \in S
<1>. DEFINE R == {p \in Nat \X Nat : p[1] < p[2]}
<1>1. IsWellFoundedOn(R, Nat)
  BY NatLessThanWellFounded DEF OpToRel
<1>2. PICK x \in S : \A y \in S : <<y, x>> \notin R
  <2>. HIDE DEF R
  <2>. QED
    BY <1>1, WFMin
<1>3. ASSUME NEW y \in S PROVE x <= y
  <2>1. y \in Nat /\ x \in Nat /\ <<y, x>> \notin R
    BY <1>2
  <2>. QED
    BY <2>1
<1>. QED
  BY <1>3 DEF Min

\* acl_pcie_hostch.cpp:295-302: a ring has at least a page and at most the
\* largest buffer.
LEMMA SizeInRange ==
  ASSUME NEW c \in Channels, NEW s \in Sizes(c)
  PROVE  s \in 1 .. MaxUnits
<1>1. MaxUnits \in Nat /\ MaxUnits > 0 /\ PageUnits <= MaxUnits /\ PageUnits \in Nat /\ PageUnits > 0
  BY ChannelAssumption
<1>3. PICK n \in Asked[c] : s = ChannelDepth(n)
  BY DEF Sizes
<1>. DEFINE S == {p \in PowersOfTwo : p \in PageUnits .. MaxUnits /\ p >= n} \cup {MaxUnits}
<1>4. S \in SUBSET Nat /\ S # {} /\ S \subseteq 1 .. MaxUnits
  BY <1>1
<1>5. s = Min(S)
  BY <1>3 DEF ChannelDepth
<1>. QED
  BY <1>4, <1>5, LeastIn

\* How far the ring's position b lies behind a.
Dist(a, b, s) == IF b >= a THEN b - a ELSE b - a + s

\* A pointer moved on by what is before the ring's end.
LEMMA SumInRing ==
  ASSUME NEW s \in Nat \ {0}, NEW x \in 0 .. s - 1, NEW n \in 0 .. s - x
  PROVE  /\ (x + n) % s = IF x + n >= s THEN 0 ELSE x + n
         /\ (x + n) % s \in 0 .. s - 1
OBVIOUS

LEMMA ModInRing ==
  ASSUME NEW s \in Nat \ {0}, NEW x \in Int
  PROVE  x % s \in 0 .. s - 1
OBVIOUS

LEMMA DistIsInt ==
  ASSUME NEW s \in Nat, NEW a \in Nat, NEW b \in Nat
  PROVE  Dist(a, b, s) \in Int
BY DEF Dist

\* The distance is what HostStream calls OnTheWay.
LEMMA DistIsMod ==
  ASSUME NEW s \in Nat \ {0}, NEW a \in 0 .. s - 1, NEW b \in 0 .. s - 1
  PROVE  (b - a) % s = Dist(a, b, s)
BY DEF Dist

-----------------------------------------------------------------------------
(* A ring in use *)

\* The n units from f on are those that belong there: unit i is in cell i.
Stocked(cells, f, n, s) == \A i \in 0 .. s - 1 : Dist(f, i, s) < n => cells[i] = i

\* Push: the host is at the end, with o units given out; what it has sent and
\* the board has not received is in the ring.
PushFlow(s, l, o, f, e, cells, p, g) ==
  /\ p = l /\ e = l /\ g = f
  /\ Dist(f, e, s) + o < s
  /\ Stocked(cells, f, Dist(f, e, s) + o, s)

\* A board that serves the ring is at its front, and believes the end to be
\* where it is, or has been since.
PushServed(own, hp, f, e, s) == own = f /\ Dist(own, hp, s) <= Dist(own, e, s)

\* Pull: the host is at the front, with o units given out.
PullFlow(s, l, o, f, e, cells, p, g) ==
  /\ g = l /\ f = l /\ p = e
  /\ o <= Dist(f, e, s)
  /\ Stocked(cells, f, Dist(f, e, s), s)

\* A board that serves the ring is at its end, and believes the front to be
\* where it is, or has been.
PullServed(own, hp, f, e, s) == own = e /\ Dist(f, own, s) <= Dist(hp, own, s)

LEMMA RoomIsNumber ==
  ASSUME NEW s \in Nat, NEW f \in Nat, NEW e \in Nat
  PROVE  PushAvail(f, e, s) \in Int /\ PullAvail(f, e, s) \in Int
BY DEF PushAvail, PullAvail

\* A new ring is empty, and the board agrees.
LEMMA EmptyRing ==
  ASSUME NEW s \in Nat \ {0}, NEW cells
  PROVE  /\ PushFlow(s, 0, 0, 0, 0, cells, 0, 0) /\ PushServed(0, 0, 0, 0, s)
         /\ PullFlow(s, 0, 0, 0, 0, cells, 0, 0) /\ PullServed(0, 0, 0, 0, s)
BY DEF PushFlow, PushServed, PullFlow, PullServed, Stocked, Dist

\* The program fills n units of what push_buf_avail let it have.
LEMMA PushGets ==
  ASSUME NEW s \in Nat \ {0}, NEW l \in 0 .. s - 1, NEW f \in 0 .. s - 1, NEW n \in Nat,
         NEW e, NEW cells, NEW p, NEW g, PushFlow(s, l, 0, f, e, cells, p, g),
         NEW a, a = PushAvail(f, e, s), n <= IF s > l + a THEN a ELSE s - l,
         NEW new, \A i \in 0 .. s - 1 : new[i] = IF i \in l .. l + n - 1 THEN (p + i - l) % s ELSE cells[i]
  PROVE  n \in 0 .. s - l /\ PushFlow(s, l, n, f, e, new, p, g)
<1>1. p = l /\ e = l /\ g = f /\ Dist(f, l, s) < s /\ Stocked(cells, f, Dist(f, l, s), s)
  BY DEF PushFlow, Dist
<1>2. n <= s - l /\ Dist(f, l, s) + n < s
  BY <1>1 DEF PushAvail, Dist
<1>3. ASSUME NEW i \in 0 .. s - 1, Dist(f, i, s) < Dist(f, l, s) + n PROVE new[i] = i
  <2>1. CASE i \in l .. l + n - 1
    <3>1. p + i - l = i /\ i % s = i
      BY <1>1
    <3>. QED
      BY <2>1, <3>1
  <2>2. CASE i \notin l .. l + n - 1
    <3>1. Dist(f, i, s) < Dist(f, l, s)
      BY <1>2, <1>3, <2>2 DEF Dist
    <3>. QED
      BY <3>1, <2>2, <1>1 DEF Stocked
  <2>. QED
    BY <2>1, <2>2
<1>. QED
  BY <1>1, <1>2, <1>3 DEF PushFlow, Stocked

\* ack_buffer acknowledges all that was given out: there is room for it.
LEMMA PushAcknowledges ==
  ASSUME NEW s \in Nat \ {0}, NEW l \in 0 .. s - 1, NEW f \in 0 .. s - 1, NEW o \in 0 .. s - l,
         NEW e, NEW cells, NEW p, NEW g, PushFlow(s, l, o, f, e, cells, p, g),
         NEW m, m = IF l + o >= s THEN 0 ELSE l + o
  PROVE  /\ m \in 0 .. s - 1 /\ (p + o) % s = m /\ o <= PushAvail(f, e, s)
         /\ PushFlow(s, m, 0, f, m, cells, (p + o) % s, g)
         /\ Dist(f, e, s) + o < s
         /\ \A hp \in 0 .. s - 1 : PushServed(f, hp, f, e, s) => PushServed(f, hp, f, m, s)
<1>1. p = l /\ e = l /\ g = f /\ Dist(f, l, s) + o < s /\ Stocked(cells, f, Dist(f, l, s) + o, s)
  BY DEF PushFlow
<1>2. (l + o) % s = m /\ m \in 0 .. s - 1
  BY SumInRing
<1>3. Dist(f, m, s) = Dist(f, l, s) + o /\ o <= PushAvail(f, l, s)
  BY <1>1 DEF Dist, PushAvail
<1>4. \A hp \in 0 .. s - 1 : PushServed(f, hp, f, l, s) => PushServed(f, hp, f, m, s)
  BY <1>3 DEF PushServed, Dist
<1>5. Dist(f, l, s) \in Int /\ Stocked(cells, f, Dist(f, l, s) + o + 0, s)
  BY <1>1 DEF Dist
<1>. QED
  BY <1>1, <1>2, <1>3, <1>4, <1>5 DEF PushFlow

\* The board fetches the unit at its front, and it is the next one.
LEMMA PushFetches ==
  ASSUME NEW s \in Nat \ {0}, NEW l \in 0 .. s - 1, NEW f \in 0 .. s - 1, NEW o \in 0 .. s - l,
         NEW e, NEW cells, NEW p, NEW g, PushFlow(s, l, o, f, e, cells, p, g),
         NEW hp \in 0 .. s - 1, PushServed(f, hp, f, e, s), f # hp,
         NEW m, m = (f + 1) % s
  PROVE  /\ m \in 0 .. s - 1 /\ cells[f] = g % s /\ (g + 1) % s = m
         /\ PushFlow(s, l, o, m, e, cells, p, m) /\ PushServed(m, hp, m, e, s)
         /\ Dist(f, e, s) >= 1
<1>1. p = l /\ e = l /\ g = f /\ Dist(f, l, s) + o < s /\ Stocked(cells, f, Dist(f, l, s) + o, s)
  BY DEF PushFlow
<1>2. m = (IF f + 1 >= s THEN 0 ELSE f + 1) /\ m \in 0 .. s - 1
  BY SumInRing
<1>3. Dist(f, hp, s) >= 1 /\ Dist(f, hp, s) <= Dist(f, l, s)
  BY <1>1 DEF PushServed, Dist
<1>4. \A i \in 0 .. s - 1 : i # f => Dist(m, i, s) = Dist(f, i, s) - 1
  BY <1>2 DEF Dist
<1>5. Dist(f, f, s) = 0 /\ Dist(m, f, s) = s - 1 /\ f # l
  BY <1>2, <1>3 DEF Dist
<1>6. cells[f] = f /\ f % s = f
  <2>1. 0 < Dist(f, l, s) + o
    BY <1>3 DEF Dist
  <2>. QED
    BY <1>1, <1>5, <2>1 DEF Stocked
<1>7. Stocked(cells, m, Dist(m, l, s) + o, s)
  <2>. SUFFICES ASSUME NEW i \in 0 .. s - 1, Dist(m, i, s) < Dist(m, l, s) + o PROVE cells[i] = i
    BY DEF Stocked
  <2>1. Dist(m, l, s) = Dist(f, l, s) - 1
    BY <1>4, <1>5
  <2>2. CASE i = f
    BY <2>2, <1>6
  <2>3. CASE i # f
    <3>1. Dist(m, i, s) = Dist(f, i, s) - 1
      BY <1>4, <2>3
    <3>2. Dist(f, i, s) \in Int /\ Dist(f, l, s) \in Int
      BY DEF Dist
    <3>. QED
      BY <3>1, <3>2, <2>1, <1>1 DEF Stocked
  <2>. QED
    BY <2>2, <2>3
<1>8. Dist(m, l, s) = Dist(f, l, s) - 1 /\ Dist(m, hp, s) = Dist(f, hp, s) - 1
  BY <1>4, <1>5
<1>9. Dist(f, l, s) \in Int /\ Dist(f, hp, s) \in Int
  BY DEF Dist
<1>. QED
  BY <1>1, <1>2, <1>3, <1>6, <1>7, <1>8, <1>9 DEF PushFlow, PushServed

\* The program is given n units of what m_pull_queue_available found.
LEMMA PullGets ==
  ASSUME NEW s \in Nat \ {0}, NEW l \in 0 .. s - 1, NEW e \in 0 .. s - 1, NEW n \in Nat,
         NEW f, NEW cells, NEW p, NEW g, PullFlow(s, l, 0, f, e, cells, p, g),
         NEW a, a = PullAvail(f, e, s), n <= IF s > l + a THEN a ELSE s - l
  PROVE  n \in 0 .. s - l /\ PullFlow(s, l, n, f, e, cells, p, g)
<1>1. f = l /\ n <= Dist(l, e, s) /\ n <= s - l
  BY DEF PullFlow, PullAvail, Dist
<1>. QED
  BY <1>1 DEF PullFlow

\* What was given out is in the ring, and is what the program has not read yet.
LEMMA PullAcknowledges ==
  ASSUME NEW s \in Nat \ {0}, NEW l \in 0 .. s - 1, NEW e \in 0 .. s - 1, NEW o \in 0 .. s - l,
         NEW f, NEW cells, NEW p, NEW g, PullFlow(s, l, o, f, e, cells, p, g),
         NEW m, m = IF l + o >= s THEN 0 ELSE l + o
  PROVE  /\ m \in 0 .. s - 1 /\ (g + o) % s = m /\ o <= PullAvail(f, e, s)
         /\ \A i \in 0 .. o - 1 : cells[l + i] = (g + i) % s
         /\ PullFlow(s, m, 0, m, e, cells, p, m)
         /\ o <= Dist(f, e, s)
         /\ \A hp \in 0 .. s - 1 : PullServed(e, hp, f, e, s) => PullServed(e, hp, m, e, s)
<1>1. g = l /\ f = l /\ p = e /\ o <= Dist(l, e, s) /\ Stocked(cells, l, Dist(l, e, s), s)
  BY DEF PullFlow
<1>2. (l + o) % s = m /\ m \in 0 .. s - 1
  BY SumInRing
<1>3. Dist(m, e, s) = Dist(l, e, s) - o /\ o <= PullAvail(l, e, s)
  BY <1>1 DEF Dist, PullAvail
<1>4. \A hp \in 0 .. s - 1 : PullServed(e, hp, l, e, s) => PullServed(e, hp, m, e, s)
  BY <1>3 DEF PullServed, Dist
<1>5. ASSUME NEW i \in 0 .. o - 1 PROVE cells[l + i] = (g + i) % s
  <2>1. l + i \in 0 .. s - 1 /\ Dist(l, l + i, s) < Dist(l, e, s)
    BY <1>1 DEF Dist
  <2>2. (l + i) % s = l + i
    BY <2>1
  <2>. QED
    BY <2>1, <2>2, <1>1 DEF Stocked
<1>6. Stocked(cells, m, Dist(m, e, s), s)
  <2>. SUFFICES ASSUME NEW i \in 0 .. s - 1, Dist(m, i, s) < Dist(m, e, s) PROVE cells[i] = i
    BY DEF Stocked
  <2>1. Dist(l, i, s) < Dist(l, e, s)
    BY <1>1, <1>3 DEF Dist
  <2>. QED
    BY <2>1, <1>1 DEF Stocked
<1>7. 0 <= Dist(m, e, s)
  BY <1>2 DEF Dist
<1>. QED
  BY <1>1, <1>2, <1>3, <1>4, <1>5, <1>6, <1>7 DEF PullFlow

\* The board stores the next unit at its end, and does not run into the front.
LEMMA PullStores ==
  ASSUME NEW s \in Nat \ {0}, NEW l \in 0 .. s - 1, NEW e \in 0 .. s - 1, NEW o \in 0 .. s - l,
         NEW f, NEW cells, NEW p, NEW g, PullFlow(s, l, o, f, e, cells, p, g),
         NEW hp \in 0 .. s - 1, PullServed(e, hp, f, e, s),
         NEW m, m = (e + 1) % s, m # hp,
         NEW new, \A i \in 0 .. s - 1 : new[i] = IF i = e THEN p ELSE cells[i]
  PROVE  /\ m \in 0 .. s - 1 /\ (p + 1) % s = m /\ p = e
         /\ PullFlow(s, l, o, f, m, new, m, g) /\ PullServed(m, hp, f, m, s)
         /\ Dist(f, e, s) + 1 < s
<1>1. g = l /\ f = l /\ p = e /\ o <= Dist(l, e, s) /\ Stocked(cells, l, Dist(l, e, s), s)
  BY DEF PullFlow
<1>2. m = (IF e + 1 >= s THEN 0 ELSE e + 1) /\ m \in 0 .. s - 1
  BY SumInRing
<1>3. Dist(l, e, s) + 1 < s
  BY <1>1, <1>2 DEF PullServed, Dist
<1>4. Dist(l, m, s) = Dist(l, e, s) + 1 /\ Dist(hp, m, s) = Dist(hp, e, s) + 1
  BY <1>2, <1>3 DEF Dist
<1>5. Stocked(new, l, Dist(l, m, s), s)
  <2>. SUFFICES ASSUME NEW i \in 0 .. s - 1, Dist(l, i, s) < Dist(l, m, s) PROVE new[i] = i
    BY DEF Stocked
  <2>1. CASE i = e
    BY <2>1, <1>1
  <2>2. CASE i # e
    <3>1. Dist(l, i, s) < Dist(l, e, s)
      BY <1>4, <2>2 DEF Dist
    <3>. QED
      BY <3>1, <2>2, <1>1 DEF Stocked
  <2>. QED
    BY <2>1, <2>2
<1>6. Dist(l, e, s) \in Int /\ Dist(hp, e, s) \in Int /\ Dist(l, e, s) <= Dist(hp, e, s)
  BY <1>1 DEF Dist, PullServed
<1>7. o <= Dist(l, m, s)
  BY <1>1, <1>4, <1>6
<1>8. PullServed(m, hp, l, m, s)
  BY <1>4, <1>6 DEF PullServed
<1>. QED
  BY <1>1, <1>2, <1>3, <1>5, <1>7, <1>8 DEF PullFlow

-----------------------------------------------------------------------------
(* The state's shape *)

Of(c) == {c} \X {1, 2}
Positions == 0 .. MaxUnits - 1
CellFunctions == {<<>>} \cup UNION {[0 .. n - 1 -> 0 .. MaxUnits] : n \in 1 .. MaxUnits}

MmdRecords == [valid : BOOLEAN, buf : Buffers \cup {NoBuf}, size : 0 .. MaxUnits,
               local : 0 .. MaxUnits, offer : 0 .. MaxUnits]
RingRecords == [size : 0 .. MaxUnits, front : Positions, end : Positions, cells : CellFunctions]
DrvRecords == [valid : BOOLEAN, buf : Buffers \cup {NoBuf}, seen : Positions]
BoardRecords == [logic : BOOLEAN, control : BOOLEAN, buf : Buffers \cup {NoBuf},
                 hostPtr : Positions, own : Positions]

Calls == {User, <<"sync">>, <<"crashed">>} \cup ({"create", "flush", "free"} \X Channels)

Fields ==
  /\ host \in Calls
  /\ mmd \in [Channels -> MmdRecords] /\ ring \in [Buffers -> RingRecords]
  /\ drv \in [Channels -> DrvRecords] /\ board \in [Channels -> BoardRecords]
  /\ pinned \subseteq Buffers
  /\ put \in [Channels -> Positions] /\ got \in [Channels -> 0 .. MaxUnits]

\* The pointers of a ring are inside it, and it has its cells.
RingInv ==
  \A b \in Buffers : ring[b].size # 0 =>
    /\ ring[b].front \in 0 .. ring[b].size - 1 /\ ring[b].end \in 0 .. ring[b].size - 1
    /\ ring[b].cells \in [0 .. ring[b].size - 1 -> 0 .. MaxUnits]

LEMMA Rooms ==
  /\ MaxUnits \in Nat /\ MaxUnits > 0 /\ 0 \in Positions /\ 0 \in 0 .. MaxUnits /\ Blank \in 0 .. MaxUnits
  /\ \A s \in 1 .. MaxUnits : s \in Nat \ {0} /\ \A x \in 0 .. s - 1 : x \in Positions /\ x \in 0 .. MaxUnits
BY ChannelAssumption DEF Positions, Blank

LEMMA CellsFit ==
  /\ <<>> \in CellFunctions
  /\ \A s \in 1 .. MaxUnits : \A f \in [0 .. s - 1 -> 0 .. MaxUnits] : f \in CellFunctions
BY DEF CellFunctions

\* The buffers of the two channels are different ones.
LEMMA BuffersOf ==
  /\ NoBuf \notin Buffers
  /\ \A c \in Channels : Of(c) \subseteq Buffers /\ NoBuf \notin Of(c)
  /\ \A c, d \in Channels : c # d => \A b \in Of(c) : b \notin Of(d)
  /\ \A b \in Buffers : \E c \in Channels : b \in Of(c)
BY DEF Of, Buffers, NoBuf, Channels

LEMMA OtherChannel ==
  ASSUME NEW c \in Channels
  PROVE  Other(c) \in Channels /\ Other(c) # c /\ Other(Other(c)) = c /\ \A d \in Channels : d = c \/ d = Other(c)
BY DEF Other, Channels

\* The program is in one call at a time.
LEMMA CallsApart ==
  ASSUME NEW c \in Channels
  PROVE  /\ User \in Calls /\ <<"create", c>> \in Calls /\ <<"flush", c>> \in Calls /\ <<"free", c>> \in Calls
         /\ <<"sync">> \in Calls /\ <<"crashed">> \in Calls
         /\ User # <<"create", c>> /\ User # <<"flush", c>> /\ User # <<"free", c>>
         /\ <<"sync">> # <<"create", c>> /\ <<"sync">> # <<"flush", c>> /\ <<"sync">> # <<"free", c>>
         /\ <<"crashed">> # <<"create", c>> /\ <<"crashed">> # <<"flush", c>> /\ <<"crashed">> # <<"free", c>>
         /\ \A d \in Channels :
              /\ <<"create", c>> # <<"flush", d>> /\ <<"create", c>> # <<"free", d>> /\ <<"flush", c>> # <<"free", d>>
              /\ c # d => /\ <<"create", c>> # <<"create", d>>
                          /\ <<"flush", c>> # <<"flush", d>> /\ <<"free", c>> # <<"free", d>>
BY DEF Calls, User

\* The allocator's choice is not pinned, if there is one that is not.
LEMMA UnusedBuffer ==
  ASSUME NEW c \in Channels, NEW b \in Of(c), b \notin pinned
  PROVE  Unused(c) \in Of(c) /\ Unused(c) \notin pinned
BY DEF Unused, Of

-----------------------------------------------------------------------------
(* The inductive invariant *)

\* The channel has a ring: it is open, or about to be.
Held(c) == mmd[c].valid \/ host = <<"create", c>>

\* The MMD's record of a channel that has a ring fits the ring; a ring that is
\* new has nothing in it, and the driver does not know it yet.
HoldOK(c) ==
  LET m == mmd[c] IN
  /\ Held(c) => /\ m.buf \in Of(c) /\ m.size \in Sizes(c) /\ ring[m.buf].size = m.size
                /\ m.local \in 0 .. m.size - 1 /\ m.offer \in 0 .. m.size - m.local
  /\ ~ Held(c) => m.buf = NoBuf
  /\ host \in {<<"flush", c>>, <<"free", c>>} => m.valid
  /\ host = <<"create", c>> => /\ ~ m.valid /\ m.local = 0 /\ m.offer = 0 /\ m.buf \notin pinned
                               /\ ring[m.buf].front = 0 /\ ring[m.buf].end = 0

\* The driver has pinned the buffers of the channels it takes for open, and no
\* others; they are rings, perhaps of a channel that the program has closed.
PinOK(c) ==
  /\ drv[c].valid => drv[c].buf \in Of(c) /\ ring[drv[c].buf].size # 0
  /\ ~ drv[c].valid => drv[c].buf = NoBuf
  /\ \A b \in Of(c) : b \in pinned <=> drv[c].buf = b

\* The control register of a channel on the board follows the driver's record.
BoardOK(c) ==
  /\ board[c].control <=> drv[c].valid
  /\ board[c].buf = drv[c].buf
  /\ drv[c].valid => /\ board[c].own < ring[drv[c].buf].size
                     /\ board[c].hostPtr < ring[drv[c].buf].size

PushOK ==
  LET m == mmd["push"]
      r == ring[m.buf]
      b == board["push"]
  IN  m.valid =>
        /\ PushFlow(m.size, m.local, m.offer, r.front, r.end, r.cells, put["push"], got["push"])
        /\ b.buf = m.buf => PushServed(b.own, b.hostPtr, r.front, r.end, m.size)

PullOK ==
  LET m == mmd["pull"]
      r == ring[m.buf]
      b == board["pull"]
  IN  m.valid =>
        /\ PullFlow(m.size, m.local, m.offer, r.front, r.end, r.cells, put["pull"], got["pull"])
        /\ b.buf = m.buf => PullServed(b.own, b.hostPtr, r.front, r.end, m.size)

Structure ==
  /\ Fields /\ RingInv
  /\ \A c \in Channels : HoldOK(c) /\ PinOK(c) /\ BoardOK(c)

RingsInv == Structure /\ PushOK /\ PullOK

-----------------------------------------------------------------------------
(* What leaves a channel as it is *)

\* What a step leaves of each part of the invariant if it leaves the
\* state that part speaks of.
LEMMA HoldFrame ==
  ASSUME NEW c \in Channels, HoldOK(c), mmd'[c] = mmd[c],
         host' = <<"create", c>> <=> host = <<"create", c>>,
         host' \in {<<"flush", c>>, <<"free", c>>} => mmd[c].valid,
         Held(c) => ring'[mmd[c].buf].size = ring[mmd[c].buf].size,
         host = <<"create", c>> => /\ ring'[mmd[c].buf] = ring[mmd[c].buf]
                                   /\ mmd[c].buf \notin pinned'
  PROVE  HoldOK(c)'
BY DEF HoldOK, Held

LEMMA PinFrame ==
  ASSUME NEW c \in Channels, PinOK(c),
         drv'[c].valid <=> drv[c].valid, drv'[c].buf = drv[c].buf,
         \A b \in Of(c) : b \in pinned' <=> b \in pinned,
         drv[c].valid => ring'[drv[c].buf].size # 0
  PROVE  PinOK(c)'
BY DEF PinOK

LEMMA BoardFrame ==
  ASSUME NEW c \in Channels, BoardOK(c),
         drv'[c].valid <=> drv[c].valid, drv'[c].buf = drv[c].buf,
         board'[c].control <=> board[c].control, board'[c].buf = board[c].buf,
         board'[c].own = board[c].own, board'[c].hostPtr = board[c].hostPtr,
         drv[c].valid => ring'[drv[c].buf].size = ring[drv[c].buf].size
  PROVE  BoardOK(c)'
BY DEF BoardOK

LEMMA PushFrame ==
  ASSUME PushOK, mmd'["push"] = mmd["push"],
         mmd["push"].valid => ring'[mmd["push"].buf] = ring[mmd["push"].buf],
         board'["push"].buf = board["push"].buf, board'["push"].own = board["push"].own,
         board'["push"].hostPtr = board["push"].hostPtr,
         put'["push"] = put["push"], got'["push"] = got["push"]
  PROVE  PushOK'
BY DEF PushOK

LEMMA PullFrame ==
  ASSUME PullOK, mmd'["pull"] = mmd["pull"],
         mmd["pull"].valid => ring'[mmd["pull"].buf] = ring[mmd["pull"].buf],
         board'["pull"].buf = board["pull"].buf, board'["pull"].own = board["pull"].own,
         board'["pull"].hostPtr = board["pull"].hostPtr,
         put'["pull"] = put["pull"], got'["pull"] = got["pull"]
  PROVE  PullOK'
BY DEF PullOK

\* A ring in use.
LEMMA HeldRing ==
  ASSUME Structure, NEW c \in Channels, Held(c)
  PROVE  /\ mmd[c].buf \in Of(c) /\ mmd[c].buf \in Buffers /\ mmd[c].size \in 1 .. MaxUnits
         /\ ring[mmd[c].buf].size = mmd[c].size
         /\ ring[mmd[c].buf].front \in 0 .. mmd[c].size - 1 /\ ring[mmd[c].buf].end \in 0 .. mmd[c].size - 1
         /\ ring[mmd[c].buf].cells \in [0 .. mmd[c].size - 1 -> 0 .. MaxUnits]
         /\ mmd[c].local \in 0 .. mmd[c].size - 1 /\ mmd[c].offer \in 0 .. mmd[c].size - mmd[c].local
<1>1. HoldOK(c) /\ RingInv
  BY DEF Structure
<1>2. mmd[c].buf \in Of(c) /\ mmd[c].buf \in Buffers /\ mmd[c].size \in 1 .. MaxUnits
  BY <1>1, BuffersOf, SizeInRange DEF HoldOK
<1>3. mmd[c].size # 0
  BY <1>2
<1>. QED
  BY <1>1, <1>2, <1>3 DEF HoldOK, RingInv

\* Channels do not share a ring.
LEMMA OwnRing ==
  ASSUME Structure, NEW c \in Channels, NEW d \in Channels, d # c, mmd[d].valid, NEW b \in Of(c)
  PROVE  mmd[d].buf \in Buffers /\ mmd[d].buf # b
<1>1. mmd[d].buf \in Of(d) /\ mmd[d].buf \in Buffers
  BY HeldRing DEF Held
<1>. QED
  BY <1>1, BuffersOf

\* The board runs a channel only on a buffer that the driver has pinned.
LEMMA RunsPinned ==
  ASSUME Structure, NEW c \in Channels, Runs(c)
  PROVE  /\ drv[c].valid /\ board[c].buf = drv[c].buf /\ board[c].buf \in pinned
         /\ board[c].buf \in Of(c) /\ board[c].buf \in Buffers
BY BuffersOf DEF Structure, PinOK, BoardOK, Runs

\* The pointers of a board that serves an open channel are inside its ring.
LEMMA ServedPointers ==
  ASSUME Structure, NEW c \in Channels, mmd[c].valid, board[c].buf = mmd[c].buf
  PROVE  /\ board[c].own \in 0 .. mmd[c].size - 1 /\ board[c].hostPtr \in 0 .. mmd[c].size - 1
         /\ drv[c].valid /\ drv[c].buf = mmd[c].buf
<1>1. mmd[c].buf \in Of(c) /\ mmd[c].size \in 1 .. MaxUnits /\ ring[mmd[c].buf].size = mmd[c].size
  BY HeldRing DEF Held
<1>2. PinOK(c) /\ BoardOK(c) /\ Fields
  BY DEF Structure
<1>3. drv[c].valid /\ drv[c].buf = mmd[c].buf
  BY <1>1, <1>2, BuffersOf DEF PinOK, BoardOK
<1>4. board[c].own < mmd[c].size /\ board[c].hostPtr < mmd[c].size
  BY <1>1, <1>2, <1>3 DEF BoardOK
<1>5. board[c].own \in Positions /\ board[c].hostPtr \in Positions
  BY <1>2 DEF Fields, BoardRecords
<1>. QED
  BY <1>1, <1>3, <1>4, <1>5, Rooms DEF Positions

\* A board that runs a channel serves the ring the driver named.
LEMMA ServedIsOpen ==
  ASSUME Structure, NEW c \in Channels, Runs(c), Served(c)
  PROVE  mmd[c].valid /\ mmd[c].buf = board[c].buf
<1>1. HoldOK(c) /\ mmd[c].buf = board[c].buf /\ mmd[c].buf \in pinned /\ mmd[c].buf \in Of(c)
  BY RunsPinned DEF Structure, Served
<1>. QED
  BY <1>1, BuffersOf DEF HoldOK, Held

\* Steps that touch no ring and no record of one.
Calm ==
  /\ UNCHANGED <<mmd, ring, drv, pinned, board, put, got>>
  /\ \/ host' = host
     \/ host = <<"sync">> /\ host' \in {User, <<"crashed">>}
     \/ \E c \in Channels : host = <<"flush", c>> /\ host' = <<"free", c>>

\* Steps that touch no ring keep the invariant.
LEMMA CalmKeeps == RingsInv /\ Calm => RingsInv'
<1>. SUFFICES ASSUME RingsInv, Calm PROVE RingsInv'
  OBVIOUS
<1>1. host' \in Calls
  <2>1. host \in Calls
    BY DEF RingsInv, Structure, Fields
  <2>2. \A c \in Channels : <<"free", c>> \in Calls /\ User \in Calls /\ <<"crashed">> \in Calls
    BY CallsApart
  <2>3. CASE \E c \in Channels : host = <<"flush", c>> /\ host' = <<"free", c>>
    BY <2>2, <2>3
  <2>4. CASE host' = host \/ host' \in {User, <<"crashed">>}
    BY <2>1, <2>4 DEF Calls
  <2>. QED
    BY <2>3, <2>4 DEF Calm
<1>0. /\ mmd' = mmd /\ ring' = ring /\ drv' = drv /\ pinned' = pinned /\ board' = board
      /\ put' = put /\ got' = got
  BY DEF Calm
<1>2. Fields' /\ RingInv'
  <2>1. Fields /\ RingInv
    BY DEF RingsInv, Structure
  <2>2. Fields'
    BY <2>1, <1>0, <1>1 DEF Fields
  <2>3. RingInv'
    BY <2>1, <1>0 DEF RingInv
  <2>. QED
    BY <2>2, <2>3
<1>3. ASSUME NEW c \in Channels PROVE HoldOK(c)' /\ PinOK(c)' /\ BoardOK(c)'
  <2>1. HoldOK(c) /\ PinOK(c) /\ BoardOK(c)
    BY DEF RingsInv, Structure
  <2>2. host' = <<"create", c>> <=> host = <<"create", c>>
    BY CallsApart DEF Calm
  <2>3. host' \in {<<"flush", c>>, <<"free", c>>} => mmd[c].valid
    BY <2>1, CallsApart DEF Calm, HoldOK
  <2>4. HoldOK(c)'
    BY <2>1, <2>2, <2>3, HoldFrame DEF Calm, HoldOK
  <2>5. PinOK(c)'
    BY <2>1 DEF Calm, PinOK
  <2>6. BoardOK(c)'
    BY <2>1 DEF Calm, BoardOK
  <2>. QED
    BY <2>4, <2>5, <2>6
<1>4. PushOK' /\ PullOK'
  BY DEF Calm, RingsInv, PushOK, PullOK
<1>. QED
  BY <1>2, <1>3, <1>4 DEF RingsInv, Structure

-----------------------------------------------------------------------------
(* Opening and closing *)

\* create_hostchannel, before the driver's part: the state after it.
LEMMA CreateFields ==
  ASSUME Structure, NEW c \in Channels, NEW n \in Asked[c], CreateChannel(c, n)
  PROVE  \E s \in Sizes(c), b \in Of(c) :
           /\ s \in 1 .. MaxUnits /\ b \notin pinned
           /\ host = User /\ host' = <<"create", c>> /\ ~ mmd[c].valid
           /\ mmd' \in [Channels -> MmdRecords] /\ ring' \in [Buffers -> RingRecords]
           /\ ~ mmd'[c].valid /\ mmd'[c].buf = b /\ mmd'[c].size = s
           /\ mmd'[c].local = 0 /\ mmd'[c].offer = 0
           /\ \A d \in Channels : d # c => mmd'[d] = mmd[d]
           /\ ring'[b].size = s /\ ring'[b].front = 0 /\ ring'[b].end = 0
           /\ ring'[b].cells \in [0 .. s - 1 -> 0 .. MaxUnits]
           /\ \A x \in Buffers : x # b => ring'[x] = ring[x]
           /\ UNCHANGED <<drv, pinned, board, put, got>>
<1>. DEFINE b == Unused(c)
            s == ChannelDepth(n)
<1>1. b \in Of(c) /\ b \notin pinned
  <2>1. PinOK(c) /\ <<c, 1>> \in Of(c) /\ <<c, 2>> \in Of(c) /\ <<c, 1>> # <<c, 2>>
    BY DEF Structure, Of
  <2>2. <<c, 1>> \notin pinned \/ <<c, 2>> \notin pinned
    BY <2>1 DEF PinOK
  <2>. QED
    BY <2>1, <2>2, UnusedBuffer
<1>2. s \in Sizes(c) /\ s \in 1 .. MaxUnits /\ b \in Buffers
  BY <1>1, BuffersOf, SizeInRange DEF Sizes
<1>3. PICK f : f = [i \in 0 .. s - 1 |-> Blank]
  OBVIOUS
<1>4. f \in [0 .. s - 1 -> 0 .. MaxUnits] /\ f \in CellFunctions
  BY <1>2, <1>3, Rooms, CellsFit
<1>4a. /\ host = User /\ ~ mmd[c].valid /\ host' = <<"create", c>>
       /\ mmd' = [mmd EXCEPT ![c] = [NoChannel EXCEPT !.buf = b, !.size = s]]
       /\ UNCHANGED <<drv, pinned, board, put, got>>
  BY DEF CreateChannel, dataVars
<1>4b. ring' = [ring EXCEPT ![b] = [size |-> s, front |-> 0, end |-> 0, cells |-> [i \in 0 .. s - 1 |-> Blank]]]
  BY DEF CreateChannel
<1>. HIDE DEF b, s
<1>5. ring' = [ring EXCEPT ![b] = [size |-> s, front |-> 0, end |-> 0, cells |-> f]]
  BY <1>3, <1>4b
<1>6a. PICK m : m = NoChannel
  OBVIOUS
<1>6b. PICK e : e = [m EXCEPT !.buf = b, !.size = s]
  OBVIOUS
<1>6. e = [valid |-> FALSE, buf |-> b, size |-> s, local |-> 0, offer |-> 0]
  BY <1>6a, <1>6b DEF NoChannel
<1>7. e = [NoChannel EXCEPT !.buf = b, !.size = s] /\ e \in MmdRecords
  <2>1. e = [NoChannel EXCEPT !.buf = b, !.size = s]
    BY <1>6a, <1>6b
  <2>2. s \in 0 .. MaxUnits /\ b \in Buffers \cup {NoBuf} /\ 0 \in 0 .. MaxUnits
    BY <1>2, Rooms
  <2>3. e \in MmdRecords
    BY <2>2, <1>6 DEF MmdRecords
  <2>. QED
    BY <2>1, <2>3
<1>8. PICK q : q = [size |-> s, front |-> 0, end |-> 0, cells |-> f]
  OBVIOUS
<1>9. q \in RingRecords
  BY <1>2, <1>4, <1>8, Rooms DEF RingRecords
<1>10. mmd \in [Channels -> MmdRecords] /\ ring \in [Buffers -> RingRecords]
  BY DEF Structure, Fields
<1>11. mmd' = [mmd EXCEPT ![c] = e] /\ ring' = [ring EXCEPT ![b] = q]
  BY <1>4a, <1>5, <1>7, <1>8
<1>12. mmd' \in [Channels -> MmdRecords] /\ mmd'[c] = e /\ \A d \in Channels : d # c => mmd'[d] = mmd[d]
  BY <1>7, <1>10, <1>11
<1>13. ring' \in [Buffers -> RingRecords] /\ ring'[b] = q /\ \A x \in Buffers : x # b => ring'[x] = ring[x]
  BY <1>2, <1>9, <1>10, <1>11
<1>14. ~ e.valid /\ e.buf = b /\ e.size = s /\ e.local = 0 /\ e.offer = 0
  BY <1>6
<1>15. q.size = s /\ q.front = 0 /\ q.end = 0 /\ q.cells = f
  BY <1>8
<1>. QED
  BY <1>1, <1>2, <1>4, <1>4a, <1>12, <1>13, <1>14, <1>15

\* A ring that is new is not the driver's or the board's yet.
LEMMA CreateKeeps ==
  ASSUME RingsInv, NEW c \in Channels, NEW n \in Asked[c], CreateChannel(c, n)
  PROVE  RingsInv'
<1>1. Structure /\ PushOK /\ PullOK
  BY DEF RingsInv
<1>2. PICK s \in Sizes(c), b \in Of(c) :
           /\ s \in 1 .. MaxUnits /\ b \notin pinned
           /\ host = User /\ host' = <<"create", c>> /\ ~ mmd[c].valid
           /\ mmd' \in [Channels -> MmdRecords] /\ ring' \in [Buffers -> RingRecords]
           /\ ~ mmd'[c].valid /\ mmd'[c].buf = b /\ mmd'[c].size = s
           /\ mmd'[c].local = 0 /\ mmd'[c].offer = 0
           /\ \A d \in Channels : d # c => mmd'[d] = mmd[d]
           /\ ring'[b].size = s /\ ring'[b].front = 0 /\ ring'[b].end = 0
           /\ ring'[b].cells \in [0 .. s - 1 -> 0 .. MaxUnits]
           /\ \A x \in Buffers : x # b => ring'[x] = ring[x]
           /\ UNCHANGED <<drv, pinned, board, put, got>>
  BY <1>1, CreateFields
<1>3. /\ drv' = drv /\ pinned' = pinned /\ board' = board /\ put' = put /\ got' = got
  BY <1>2
<1>4. Fields' /\ RingInv'
  <2>1. Fields /\ RingInv
    BY <1>1 DEF Structure
  <2>2. Fields'
    BY <2>1, <1>2, <1>3, CallsApart DEF Fields
  <2>3. RingInv'
    <3>. SUFFICES ASSUME NEW x \in Buffers, ring'[x].size # 0
                  PROVE  /\ ring'[x].front \in 0 .. ring'[x].size - 1 /\ ring'[x].end \in 0 .. ring'[x].size - 1
                         /\ ring'[x].cells \in [0 .. ring'[x].size - 1 -> 0 .. MaxUnits]
      BY DEF RingInv
    <3>1. CASE x = b
      BY <3>1, <1>2
    <3>2. CASE x # b
      BY <3>2, <2>1, <1>2 DEF RingInv
    <3>. QED
      BY <3>1, <3>2
  <2>. QED
    BY <2>2, <2>3
<1>5. HoldOK(c)'
  <2>1. /\ b \in Of(c) /\ s \in Sizes(c) /\ 0 \in 0 .. s - 1 /\ 0 \in 0 .. s - 0
    BY <1>2
  <2>2. host' \notin {<<"flush", c>>, <<"free", c>>}
    BY <1>2, CallsApart
  <2>. QED
    BY <1>2, <1>3, <2>1, <2>2 DEF HoldOK, Held
<1>6. ASSUME NEW d \in Channels, d # c PROVE HoldOK(d)'
  <2>1. HoldOK(d) /\ mmd'[d] = mmd[d]
    BY <1>1, <1>2, <1>6 DEF Structure
  <2>2. /\ host # <<"create", d>> /\ host' # <<"create", d>>
        /\ host' \notin {<<"flush", d>>, <<"free", d>>}
    BY <1>2, <1>6, CallsApart
  <2>3. Held(d) => ring'[mmd[d].buf].size = ring[mmd[d].buf].size
    BY <1>1, <1>2, <1>6, HeldRing, BuffersOf
  <2>. QED
    BY <2>1, <2>2, <2>3, HoldFrame
<1>7. ASSUME NEW d \in Channels PROVE PinOK(d)' /\ BoardOK(d)'
  <2>1. PinOK(d) /\ BoardOK(d)
    BY <1>1 DEF Structure
  <2>2. drv[d].valid => ring'[drv[d].buf] = ring[drv[d].buf] /\ ring[drv[d].buf].size # 0
    BY <2>1, <1>2, BuffersOf DEF PinOK
  <2>. QED
    BY <2>1, <2>2, <1>3, PinFrame, BoardFrame
<1>8. \A d \in Channels : mmd[d].valid => mmd'[d] = mmd[d] /\ ring'[mmd[d].buf] = ring[mmd[d].buf]
  <2>. SUFFICES ASSUME NEW d \in Channels, mmd[d].valid PROVE mmd'[d] = mmd[d] /\ ring'[mmd[d].buf] = ring[mmd[d].buf]
    OBVIOUS
  <2>1. d # c /\ Held(d)
    BY <1>2 DEF Held
  <2>. QED
    BY <2>1, <1>1, <1>2, HeldRing, BuffersOf
<1>9. PushOK'
  <2>1. "push" \in Channels
    BY DEF Channels
  <2>2. CASE c = "push"
    BY <2>2, <1>2 DEF PushOK
  <2>3. CASE c # "push"
    BY <2>3, <2>1, <1>1, <1>2, <1>3, <1>8, PushFrame
  <2>. QED
    BY <2>2, <2>3
<1>10. PullOK'
  <2>1. "pull" \in Channels
    BY DEF Channels
  <2>2. CASE c = "pull"
    BY <2>2, <1>2 DEF PullOK
  <2>3. CASE c # "pull"
    BY <2>3, <2>1, <1>1, <1>2, <1>3, <1>8, PullFrame
  <2>. QED
    BY <2>2, <2>3
<1>. QED
  BY <1>4, <1>5, <1>6, <1>7, <1>9, <1>10 DEF RingsInv, Structure

\* aclpci_dma_hostch_create: the state after it.
LEMMA DriverCreateFields ==
  ASSUME Structure, NEW c \in Channels, DriverCreate(c)
  PROVE  /\ host = <<"create", c>> /\ host' = User /\ ring' = ring
         /\ mmd' \in [Channels -> MmdRecords] /\ drv' \in [Channels -> DrvRecords]
         /\ board' \in [Channels -> BoardRecords] /\ pinned' \subseteq Buffers
         /\ put' \in [Channels -> Positions] /\ got' \in [Channels -> 0 .. MaxUnits]
         /\ mmd'[c].valid /\ mmd'[c].buf = mmd[c].buf /\ mmd'[c].size = mmd[c].size
         /\ mmd'[c].local = mmd[c].local /\ mmd'[c].offer = mmd[c].offer
         /\ put'[c] = 0 /\ got'[c] = 0
         /\ \A d \in Channels : d # c => mmd'[d] = mmd[d] /\ drv'[d] = drv[d] /\ board'[d] = board[d]
                                         /\ put'[d] = put[d] /\ got'[d] = got[d]
         /\ \/ drv[c].valid /\ drv' = drv /\ pinned' = pinned /\ board' = board
            \/ /\ ~ drv[c].valid /\ drv'[c].valid /\ drv'[c].buf = mmd[c].buf
               /\ pinned' = pinned \cup {mmd[c].buf}
               /\ board'[c].control /\ board'[c].buf = mmd[c].buf /\ board'[c].own = 0 /\ board'[c].hostPtr = 0
<1>1. Fields /\ HoldOK(c)
  BY DEF Structure
<1>2. /\ host = <<"create", c>> /\ host' = User /\ ring' = ring
      /\ mmd' = [mmd EXCEPT ![c].valid = TRUE]
      /\ put' = [put EXCEPT ![c] = 0] /\ got' = [got EXCEPT ![c] = 0]
  BY DEF DriverCreate
<1>3. mmd[c].buf \in Buffers
  BY <1>1, <1>2, BuffersOf DEF HoldOK, Held
<1>4. /\ mmd' \in [Channels -> MmdRecords]
      /\ mmd'[c].valid /\ mmd'[c].buf = mmd[c].buf /\ mmd'[c].size = mmd[c].size
      /\ mmd'[c].local = mmd[c].local /\ mmd'[c].offer = mmd[c].offer
      /\ \A d \in Channels : d # c => mmd'[d] = mmd[d]
  BY <1>1, <1>2 DEF Fields, MmdRecords
<1>5. /\ put' \in [Channels -> Positions] /\ got' \in [Channels -> 0 .. MaxUnits]
      /\ put'[c] = 0 /\ got'[c] = 0
      /\ \A d \in Channels : d # c => put'[d] = put[d] /\ got'[d] = got[d]
  BY <1>1, <1>2, Rooms DEF Fields
<1>6. CASE drv[c].valid
  <2>1. drv' = drv /\ pinned' = pinned /\ board' = board
    BY <1>6 DEF DriverCreate
  <2>. QED
    BY <1>1, <1>2, <1>4, <1>5, <1>6, <2>1 DEF Fields
<1>7. CASE ~ drv[c].valid
  <2>1. /\ drv' = [drv EXCEPT ![c].valid = TRUE, ![c].buf = mmd[c].buf]
        /\ pinned' = pinned \cup {mmd[c].buf}
        /\ board' = [board EXCEPT ![c] = Started(c)]
    BY <1>7 DEF DriverCreate, BufferLocked
  <2>2. /\ drv' \in [Channels -> DrvRecords] /\ drv'[c].valid /\ drv'[c].buf = mmd[c].buf
        /\ \A d \in Channels : d # c => drv'[d] = drv[d]
    BY <1>1, <1>3, <2>1 DEF Fields, DrvRecords
  <2>3. PICK e : e = Started(c)
    OBVIOUS
  <2>4. e \in BoardRecords /\ e.control /\ e.buf = mmd[c].buf /\ e.own = 0 /\ e.hostPtr = 0
    BY <1>3, <2>3, Rooms DEF Started, BoardRecords
  <2>5. /\ board' \in [Channels -> BoardRecords] /\ board'[c] = e
        /\ \A d \in Channels : d # c => board'[d] = board[d]
    BY <1>1, <2>1, <2>3, <2>4 DEF Fields
  <2>6. pinned' \subseteq Buffers
    BY <1>1, <1>3, <2>1 DEF Fields
  <2>7. /\ board'[c].control /\ board'[c].buf = mmd[c].buf /\ board'[c].own = 0
        /\ board'[c].hostPtr = 0 /\ board' \in [Channels -> BoardRecords]
    BY <2>4, <2>5
  <2>. QED
    BY <1>2, <1>4, <1>5, <1>7, <2>1, <2>2, <2>5, <2>6, <2>7
<1>. QED
  BY <1>6, <1>7

\* The ring that is opened is empty, for MMD and board alike.
LEMMA DriverCreateKeeps ==
  ASSUME RingsInv, NEW c \in Channels, DriverCreate(c)
  PROVE  RingsInv'
<1>1. Structure /\ PushOK /\ PullOK /\ Fields /\ RingInv /\ HoldOK(c) /\ PinOK(c) /\ BoardOK(c)
  BY DEF RingsInv, Structure
<1>2. /\ host = <<"create", c>> /\ host' = User /\ ring' = ring
      /\ mmd' \in [Channels -> MmdRecords] /\ drv' \in [Channels -> DrvRecords]
      /\ board' \in [Channels -> BoardRecords] /\ pinned' \subseteq Buffers
      /\ put' \in [Channels -> Positions] /\ got' \in [Channels -> 0 .. MaxUnits]
  BY <1>1, DriverCreateFields
<1>3. /\ mmd'[c].valid /\ mmd'[c].buf = mmd[c].buf /\ mmd'[c].size = mmd[c].size
      /\ mmd'[c].local = mmd[c].local /\ mmd'[c].offer = mmd[c].offer
      /\ put'[c] = 0 /\ got'[c] = 0
  BY <1>1, DriverCreateFields
<1>4. \A d \in Channels : d # c => mmd'[d] = mmd[d] /\ drv'[d] = drv[d] /\ board'[d] = board[d]
                                   /\ put'[d] = put[d] /\ got'[d] = got[d]
  BY <1>1, DriverCreateFields
<1>5. \/ drv[c].valid /\ drv' = drv /\ pinned' = pinned /\ board' = board
      \/ /\ ~ drv[c].valid /\ drv'[c].valid /\ drv'[c].buf = mmd[c].buf
         /\ pinned' = pinned \cup {mmd[c].buf}
         /\ board'[c].control /\ board'[c].buf = mmd[c].buf /\ board'[c].own = 0 /\ board'[c].hostPtr = 0
  BY <1>1, DriverCreateFields
<1>6. Held(c) /\ mmd[c].buf \in Of(c) /\ mmd[c].buf \in Buffers /\ mmd[c].buf \notin pinned
      /\ mmd[c].size \in 1 .. MaxUnits /\ ring[mmd[c].buf].size = mmd[c].size
      /\ mmd[c].local = 0 /\ mmd[c].offer = 0
      /\ ring[mmd[c].buf].front = 0 /\ ring[mmd[c].buf].end = 0
  BY <1>1, <1>2, HeldRing DEF Held, HoldOK
<1>7. Fields' /\ RingInv'
  BY <1>1, <1>2, CallsApart DEF Fields, RingInv
<1>8. HoldOK(c)'
  <2>1. host' \notin {<<"flush", c>>, <<"free", c>>} /\ host' # <<"create", c>>
    BY <1>2, CallsApart
  <2>. QED
    BY <1>1, <1>2, <1>3, <1>6, <2>1 DEF HoldOK, Held
<1>9. PinOK(c)' /\ BoardOK(c)'
  <2>1. CASE drv[c].valid /\ drv' = drv /\ pinned' = pinned /\ board' = board
    BY <2>1, <1>1, <1>2 DEF PinOK, BoardOK
  <2>2. CASE /\ ~ drv[c].valid /\ drv'[c].valid /\ drv'[c].buf = mmd[c].buf
             /\ pinned' = pinned \cup {mmd[c].buf}
             /\ board'[c].control /\ board'[c].buf = mmd[c].buf /\ board'[c].own = 0 /\ board'[c].hostPtr = 0
    <3>1. ring'[drv'[c].buf].size \in 1 .. MaxUnits
      BY <2>2, <1>2, <1>6
    <3>2. \A b \in Of(c) : b \in pinned' <=> drv'[c].buf = b
      <4>1. \/ drv[c].valid
            \/ ~ drv[c].valid /\ \A b \in Of(c) : b \notin pinned
        BY <1>1, BuffersOf DEF PinOK
      <4>. QED
        BY <4>1, <2>2
    <3>3. PinOK(c)'
      BY <3>1, <3>2, <2>2, <1>6 DEF PinOK
    <3>4. BoardOK(c)'
      BY <3>1, <2>2 DEF BoardOK
    <3>. QED
      BY <3>3, <3>4
  <2>. QED
    BY <1>5, <2>1, <2>2
<1>10. ASSUME NEW d \in Channels, d # c PROVE HoldOK(d)' /\ PinOK(d)' /\ BoardOK(d)'
  <2>1. HoldOK(d) /\ PinOK(d) /\ BoardOK(d)
    BY <1>1 DEF Structure
  <2>2. mmd'[d] = mmd[d] /\ drv'[d] = drv[d] /\ board'[d] = board[d] /\ ring' = ring
    BY <1>2, <1>4, <1>10
  <2>3. /\ host # <<"create", d>> /\ host' # <<"create", d>>
        /\ host' \notin {<<"flush", d>>, <<"free", d>>}
    BY <1>2, <1>10, CallsApart
  <2>4. HoldOK(d)'
    BY <2>1, <2>2, <2>3, HoldFrame
  <2>5. \A b \in Of(d) : b \in pinned' <=> b \in pinned
    BY <1>5, <1>6, <1>10, BuffersOf
  <2>6. drv[d].valid => ring'[drv[d].buf].size # 0
    BY <2>1, <2>2 DEF PinOK
  <2>7. PinOK(d)'
    BY <2>1, <2>2, <2>5, <2>6, PinFrame
  <2>8. BoardOK(d)'
    BY <2>1, <2>2, BoardFrame
  <2>. QED
    BY <2>4, <2>7, <2>8
<1>11. mmd[c].size \in Nat \ {0}
  BY <1>6, Rooms
\* A channel that the driver had open keeps its earlier buffer.
<1>12. board'[c].buf = mmd[c].buf => board'[c].own = 0 /\ board'[c].hostPtr = 0
  BY <1>1, <1>5, <1>6 DEF PinOK, BoardOK
<1>13. PushOK'
  <2>1. CASE c = "push"
    BY <2>1, <1>2, <1>3, <1>6, <1>11, <1>12, EmptyRing DEF PushOK
  <2>2. CASE c # "push"
    <3>1. "push" \in Channels
      BY DEF Channels
    <3>. QED
      BY <3>1, <2>2, <1>1, <1>2, <1>4, PushFrame
  <2>. QED
    BY <2>1, <2>2
<1>14. PullOK'
  <2>1. CASE c = "pull"
    BY <2>1, <1>2, <1>3, <1>6, <1>11, <1>12, EmptyRing DEF PullOK
  <2>2. CASE c # "pull"
    <3>1. "pull" \in Channels
      BY DEF Channels
    <3>. QED
      BY <3>1, <2>2, <1>1, <1>2, <1>4, PullFrame
  <2>. QED
    BY <2>1, <2>2
<1>. QED
  BY <1>7, <1>8, <1>9, <1>10, <1>13, <1>14 DEF RingsInv, Structure

\* A board that is turned off serves nothing.
LEMMA PushUnserved ==
  ASSUME PushOK, mmd' = mmd, ring' = ring, mmd["push"].valid => board'["push"].buf # mmd["push"].buf,
         put' = put, got' = got
  PROVE  PushOK'
BY DEF PushOK

LEMMA PullUnserved ==
  ASSUME PullOK, mmd' = mmd, ring' = ring, mmd["pull"].valid => board'["pull"].buf # mmd["pull"].buf,
         put' = put, got' = got
  PROVE  PullOK'
BY DEF PullOK

\* aclpci_dma_hostch_destroy: the state after it.
LEMMA ReleasedFields ==
  ASSUME Structure, NEW c \in Channels, Released(Other(c))
  PROVE  LET d == Other(c) IN
         /\ drv' \in [Channels -> DrvRecords] /\ board' \in [Channels -> BoardRecords]
         /\ pinned' = pinned \ {drv[d].buf}
         /\ ~ drv'[d].valid /\ drv'[d].buf = NoBuf /\ drv'[c] = drv[c]
         /\ ~ board'[d].control /\ board'[d].buf = NoBuf
         /\ board'[c].control <=> board[c].control
         /\ board'[c].buf = board[c].buf /\ board'[c].own = board[c].own /\ board'[c].hostPtr = board[c].hostPtr
<1>. DEFINE d == Other(c)
<1>1. d \in Channels /\ d # c /\ Other(d) = c
  BY OtherChannel
<1>2. /\ drv' = [drv EXCEPT ![d].valid = FALSE, ![d].buf = NoBuf]
      /\ pinned' = pinned \ {drv[d].buf}
      /\ board' = [board EXCEPT ![c].logic = FALSE, ![d] = [ShutOff EXCEPT !.logic = board[d].logic]]
  BY <1>1 DEF Released
<1>. HIDE DEF d
<1>3. drv \in [Channels -> DrvRecords] /\ board \in [Channels -> BoardRecords]
  BY DEF Structure, Fields
<1>4. /\ drv' \in [Channels -> DrvRecords]
      /\ ~ drv'[d].valid /\ drv'[d].buf = NoBuf /\ drv'[c] = drv[c]
  BY <1>1, <1>2, <1>3 DEF DrvRecords
<1>5. PICK b : b = [board EXCEPT ![c].logic = FALSE]
  OBVIOUS
<1>6. /\ b \in [Channels -> BoardRecords]
      /\ b[c].control <=> board[c].control
      /\ b[c].buf = board[c].buf /\ b[c].own = board[c].own /\ b[c].hostPtr = board[c].hostPtr
  BY <1>3, <1>5 DEF BoardRecords
<1>7. PICK m : m = ShutOff
  OBVIOUS
<1>8. PICK e : e = [m EXCEPT !.logic = board[d].logic]
  OBVIOUS
<1>9. board[d].logic \in BOOLEAN
  BY <1>1, <1>3 DEF BoardRecords
<1>10. e \in BoardRecords /\ ~ e.control /\ e.buf = NoBuf
  BY <1>7, <1>8, <1>9, Rooms DEF ShutOff, BoardRecords
<1>11. board' = [b EXCEPT ![d] = e]
  BY <1>2, <1>5, <1>7, <1>8
<1>12. board' \in [Channels -> BoardRecords] /\ board'[d] = e /\ board'[c] = b[c]
  BY <1>1, <1>6, <1>10, <1>11
<1>. QED
  BY <1>2, <1>4, <1>6, <1>10, <1>12 DEF d

\* Closing one channel shuts off the right halves: what stays on has its
\* buffer.
LEMMA DestroyKeeps ==
  ASSUME RingsInv, NEW c \in Channels, DestroyChannel(c)
  PROVE  RingsInv'
<1>1. Structure /\ PushOK /\ PullOK /\ Fields /\ RingInv
  BY DEF RingsInv, Structure
<1>2. /\ host = User /\ mmd[c].valid
      /\ host' \in {<<"flush", c>>, <<"free", c>>}
      /\ mmd' = mmd /\ ring' = ring /\ put' = put /\ got' = got
  BY DEF DestroyChannel, dataVars
<1>3. ASSUME NEW x \in Channels PROVE HoldOK(x)'
  <2>1. HoldOK(x)
    BY <1>1 DEF Structure
  <2>2. /\ host # <<"create", x>> /\ host' # <<"create", x>>
        /\ host' \in {<<"flush", x>>, <<"free", x>>} => mmd[x].valid
    BY <1>2, CallsApart
  <2>. QED
    BY <2>1, <2>2, <1>2, HoldFrame
<1>4. host' \in Calls
  BY <1>2, CallsApart
<1>5. RingInv'
  BY <1>1, <1>2 DEF RingInv
<1>6. CASE UNCHANGED <<drv, pinned, board>>
  <2>1. drv' = drv /\ pinned' = pinned /\ board' = board
    BY <1>6
  <2>2. Fields'
    BY <1>1, <1>2, <1>4, <2>1 DEF Fields
  <2>3. ASSUME NEW x \in Channels PROVE PinOK(x)' /\ BoardOK(x)'
    BY <1>1, <1>2, <2>1 DEF Structure, PinOK, BoardOK
  <2>4. PushOK' /\ PullOK'
    BY <1>1, <1>2, <2>1 DEF PushOK, PullOK
  <2>. QED
    BY <1>3, <1>5, <2>2, <2>3, <2>4 DEF RingsInv, Structure
<1>7. CASE drv[Other(c)].valid /\ Released(Other(c))
  <2>. DEFINE d == Other(c)
  <2>1. d \in Channels /\ d # c /\ \A x \in Channels : x = c \/ x = d
    BY OtherChannel
  <2>2. /\ drv' \in [Channels -> DrvRecords] /\ board' \in [Channels -> BoardRecords]
        /\ pinned' = pinned \ {drv[d].buf}
        /\ ~ drv'[d].valid /\ drv'[d].buf = NoBuf /\ drv'[c] = drv[c]
        /\ ~ board'[d].control /\ board'[d].buf = NoBuf
        /\ board'[c].control <=> board[c].control
        /\ board'[c].buf = board[c].buf /\ board'[c].own = board[c].own /\ board'[c].hostPtr = board[c].hostPtr
    BY <1>1, <1>7, ReleasedFields
  <2>. HIDE DEF d
  <2>3. Fields'
    BY <1>1, <1>2, <1>4, <2>2 DEF Fields
  <2>4. PinOK(c) /\ BoardOK(c) /\ PinOK(d) /\ drv[d].valid /\ drv[d].buf \in Of(d)
    BY <1>1, <2>1, <1>7 DEF Structure, PinOK, d
  <2>5. PinOK(c)' /\ BoardOK(c)'
    <3>1. \A b \in Of(c) : b \in pinned' <=> b \in pinned
      BY <2>1, <2>2, <2>4, BuffersOf
    <3>. QED
      BY <3>1, <2>2, <2>4, <1>2, PinFrame, BoardFrame DEF PinOK
  <2>6. PinOK(d)' /\ BoardOK(d)'
    <3>1. \A b \in Of(d) : b \in pinned' <=> drv'[d].buf = b
      BY <2>1, <2>2, <2>4, BuffersOf DEF PinOK
    <3>. QED
      BY <3>1, <2>2 DEF PinOK, BoardOK
  <2>7. ASSUME NEW x \in Channels, mmd[x].valid PROVE mmd[x].buf # NoBuf
    BY <1>1, <2>7, HeldRing, BuffersOf DEF Held
  <2>8. "push" \in Channels /\ "pull" \in Channels
    BY DEF Channels
  <2>9. PushOK'
    <3>1. CASE c = "push"
      BY <3>1, <1>1, <1>2, <2>2, PushFrame
    <3>2. CASE d = "push"
      BY <3>2, <1>1, <1>2, <2>2, <2>7, <2>8, PushUnserved
    <3>. QED
      BY <3>1, <3>2, <2>1, <2>8
  <2>10. PullOK'
    <3>1. CASE c = "pull"
      BY <3>1, <1>1, <1>2, <2>2, PullFrame
    <3>2. CASE d = "pull"
      BY <3>2, <1>1, <1>2, <2>2, <2>7, <2>8, PullUnserved
    <3>. QED
      BY <3>1, <3>2, <2>1, <2>8
  <2>. QED
    BY <1>3, <1>5, <2>1, <2>3, <2>5, <2>6, <2>9, <2>10 DEF RingsInv, Structure
<1>. QED
  BY <1>6, <1>7 DEF DestroyChannel, Destroyed

\* The rest of destroy_hostchannel: the state after it.
LEMMA FreeFields ==
  ASSUME Structure, NEW c \in Channels, FreeChannel(c)
  PROVE  /\ host = <<"free", c>> /\ host' = User /\ mmd[c].valid
         /\ drv' = drv /\ board' = board /\ pinned' = pinned
         /\ mmd' \in [Channels -> MmdRecords] /\ ring' \in [Buffers -> RingRecords]
         /\ put' \in [Channels -> Positions] /\ got' \in [Channels -> 0 .. MaxUnits]
         /\ ~ mmd'[c].valid /\ mmd'[c].buf = NoBuf /\ mmd'[c].size = 0
         /\ put'[c] = 0 /\ got'[c] = 0
         /\ \A d \in Channels : d # c => mmd'[d] = mmd[d] /\ put'[d] = put[d] /\ got'[d] = got[d]
         /\ \A b \in Buffers : b # mmd[c].buf => ring'[b] = ring[b]
         /\ mmd[c].buf \in pinned => ring'[mmd[c].buf].size = ring[mmd[c].buf].size
         /\ RingInv'
<1>. DEFINE b == mmd[c].buf
<1>1. Fields /\ HoldOK(c) /\ RingInv
  BY DEF Structure
<1>2. /\ host = <<"free", c>> /\ host' = User
      /\ mmd' = [mmd EXCEPT ![c] = NoChannel]
      /\ put' = [put EXCEPT ![c] = 0] /\ got' = [got EXCEPT ![c] = 0]
      /\ drv' = drv /\ board' = board /\ pinned' = pinned
  BY DEF FreeChannel, drvVars
<1>3. mmd[c].valid
  BY <1>1, <1>2 DEF HoldOK
<1>4. /\ b \in Buffers /\ mmd[c].size \in 1 .. MaxUnits /\ ring[b].size = mmd[c].size
      /\ ring[b].cells \in [0 .. mmd[c].size - 1 -> 0 .. MaxUnits]
      /\ ring[b].front \in 0 .. mmd[c].size - 1 /\ ring[b].end \in 0 .. mmd[c].size - 1
  BY <1>3, HeldRing DEF Held
<1>5. PICK n : n = NoChannel
  OBVIOUS
<1>6. n \in MmdRecords /\ ~ n.valid /\ n.buf = NoBuf /\ n.size = 0
  BY <1>5, Rooms DEF NoChannel, MmdRecords
<1>7. /\ mmd' \in [Channels -> MmdRecords] /\ mmd'[c] = n
      /\ \A d \in Channels : d # c => mmd'[d] = mmd[d]
  BY <1>1, <1>2, <1>5, <1>6 DEF Fields
<1>8. /\ put' \in [Channels -> Positions] /\ got' \in [Channels -> 0 .. MaxUnits]
      /\ put'[c] = 0 /\ got'[c] = 0
      /\ \A d \in Channels : d # c => put'[d] = put[d] /\ got'[d] = got[d]
  BY <1>1, <1>2, Rooms DEF Fields
<1>9. \E e \in RingRecords :
        /\ ring' = [ring EXCEPT ![b] = e]
        /\ b \in pinned => e.size = ring[b].size
        /\ e.size # 0 => /\ e.front \in 0 .. e.size - 1 /\ e.end \in 0 .. e.size - 1
                         /\ e.cells \in [0 .. e.size - 1 -> 0 .. MaxUnits]
  <2>1. CASE b \in pinned
    <3>1. ring' = [ring EXCEPT ![b] = Emptied(ring[b])]
      BY <2>1 DEF FreeChannel
    <3>2. PICK f : f = [i \in DOMAIN ring[b].cells |-> Blank]
      OBVIOUS
    <3>3. f \in [0 .. mmd[c].size - 1 -> 0 .. MaxUnits] /\ f \in CellFunctions
      BY <3>2, <1>4, Rooms, CellsFit
    <3>4. PICK r : r = ring[b]
      OBVIOUS
    <3>5. PICK e : e = [r EXCEPT !.cells = f]
      OBVIOUS
    <3>6. e \in RingRecords /\ e.size = mmd[c].size /\ e.front = ring[b].front /\ e.end = ring[b].end /\ e.cells = f
      BY <1>1, <1>4, <3>3, <3>4, <3>5 DEF Fields, RingRecords
    <3>7. ring' = [ring EXCEPT ![b] = e]
      BY <3>1, <3>2, <3>4, <3>5 DEF Emptied
    <3>. QED
      BY <1>4, <3>3, <3>6, <3>7
  <2>2. CASE b \notin pinned
    <3>1. ring' = [ring EXCEPT ![b] = NoRing]
      BY <2>2 DEF FreeChannel
    <3>2. PICK e : e = NoRing
      OBVIOUS
    <3>3. e \in RingRecords /\ e.size = 0
      BY <3>2, Rooms, CellsFit DEF NoRing, RingRecords
    <3>. QED
      BY <2>2, <3>1, <3>2, <3>3
  <2>. QED
    BY <2>1, <2>2
<1>10. PICK e \in RingRecords :
        /\ ring' = [ring EXCEPT ![b] = e]
        /\ b \in pinned => e.size = ring[b].size
        /\ e.size # 0 => /\ e.front \in 0 .. e.size - 1 /\ e.end \in 0 .. e.size - 1
                         /\ e.cells \in [0 .. e.size - 1 -> 0 .. MaxUnits]
  BY <1>9
<1>11. ring' \in [Buffers -> RingRecords] /\ ring'[b] = e /\ \A x \in Buffers : x # b => ring'[x] = ring[x]
  BY <1>1, <1>4, <1>10 DEF Fields
<1>12. RingInv'
  <2>. SUFFICES ASSUME NEW x \in Buffers, ring'[x].size # 0
                PROVE  /\ ring'[x].front \in 0 .. ring'[x].size - 1 /\ ring'[x].end \in 0 .. ring'[x].size - 1
                       /\ ring'[x].cells \in [0 .. ring'[x].size - 1 -> 0 .. MaxUnits]
    BY DEF RingInv
  <2>1. CASE x = b
    BY <2>1, <1>10, <1>11
  <2>2. CASE x # b
    BY <2>2, <1>1, <1>11 DEF RingInv
  <2>. QED
    BY <2>1, <2>2
<1>. QED
  BY <1>2, <1>3, <1>6, <1>7, <1>8, <1>10, <1>11, <1>12

\* A ring that the driver still has stays a ring.
LEMMA FreeKeeps ==
  ASSUME RingsInv, NEW c \in Channels, FreeChannel(c)
  PROVE  RingsInv'
<1>1. Structure /\ PushOK /\ PullOK /\ Fields /\ RingInv
  BY DEF RingsInv, Structure
<1>2. /\ host = <<"free", c>> /\ host' = User /\ mmd[c].valid
      /\ drv' = drv /\ board' = board /\ pinned' = pinned
      /\ mmd' \in [Channels -> MmdRecords] /\ ring' \in [Buffers -> RingRecords]
      /\ put' \in [Channels -> Positions] /\ got' \in [Channels -> 0 .. MaxUnits]
      /\ ~ mmd'[c].valid /\ mmd'[c].buf = NoBuf
      /\ RingInv'
  BY <1>1, FreeFields
<1>3. \A d \in Channels : d # c => mmd'[d] = mmd[d] /\ put'[d] = put[d] /\ got'[d] = got[d]
  BY <1>1, FreeFields
<1>4. /\ \A b \in Buffers : b # mmd[c].buf => ring'[b] = ring[b]
      /\ mmd[c].buf \in pinned => ring'[mmd[c].buf].size = ring[mmd[c].buf].size
  BY <1>1, FreeFields
<1>5. mmd[c].buf \in Of(c) /\ mmd[c].buf \in Buffers
  BY <1>1, <1>2, HeldRing DEF Held
<1>6. Fields'
  BY <1>1, <1>2, CallsApart DEF Fields
<1>7. HoldOK(c)'
  <2>1. host' \notin {<<"flush", c>>, <<"free", c>>} /\ host' # <<"create", c>>
    BY <1>2, CallsApart
  <2>. QED
    BY <1>2, <2>1 DEF HoldOK, Held
<1>8. \A d \in Channels : d # c /\ mmd[d].valid => ring'[mmd[d].buf] = ring[mmd[d].buf]
  BY <1>1, <1>4, <1>5, HeldRing, BuffersOf DEF Held
<1>9. ASSUME NEW d \in Channels, d # c PROVE HoldOK(d)'
  <2>1. HoldOK(d) /\ mmd'[d] = mmd[d]
    BY <1>1, <1>3, <1>9 DEF Structure
  <2>2. /\ host # <<"create", d>> /\ host' # <<"create", d>>
        /\ host' \notin {<<"flush", d>>, <<"free", d>>}
    BY <1>2, <1>9, CallsApart
  <2>3. Held(d) => ring'[mmd[d].buf].size = ring[mmd[d].buf].size
    BY <1>8, <1>9, <2>2 DEF Held
  <2>. QED
    BY <2>1, <2>2, <2>3, HoldFrame
<1>10. ASSUME NEW d \in Channels PROVE PinOK(d)' /\ BoardOK(d)'
  <2>1. PinOK(d) /\ BoardOK(d)
    BY <1>1 DEF Structure
  <2>2. drv[d].valid => ring'[drv[d].buf].size = ring[drv[d].buf].size /\ ring[drv[d].buf].size # 0
    <3>. SUFFICES ASSUME drv[d].valid PROVE ring'[drv[d].buf].size = ring[drv[d].buf].size
      BY <2>1 DEF PinOK
    <3>1. drv[d].buf \in pinned /\ drv[d].buf \in Buffers
      BY <2>1, BuffersOf DEF PinOK
    <3>. QED
      BY <3>1, <1>4
  <2>. QED
    BY <2>1, <2>2, <1>2, PinFrame, BoardFrame
<1>11. "push" \in Channels /\ "pull" \in Channels
  BY DEF Channels
<1>12. PushOK'
  <2>1. CASE c = "push"
    BY <2>1, <1>2 DEF PushOK
  <2>2. CASE c # "push"
    BY <2>2, <1>1, <1>2, <1>3, <1>8, <1>11, PushFrame
  <2>. QED
    BY <2>1, <2>2
<1>13. PullOK'
  <2>1. CASE c = "pull"
    BY <2>1, <1>2 DEF PullOK
  <2>2. CASE c # "pull"
    BY <2>2, <1>1, <1>2, <1>3, <1>8, <1>11, PullFrame
  <2>. QED
    BY <2>1, <2>2
<1>. QED
  BY <1>2, <1>6, <1>7, <1>9, <1>10, <1>12, <1>13 DEF RingsInv, Structure

\* aclpci_close.
LEMMA CloseKeeps == RingsInv /\ CloseDevice => RingsInv'
<1>. SUFFICES ASSUME RingsInv, CloseDevice PROVE RingsInv'
  OBVIOUS
<1>1. Structure /\ Fields
  BY DEF RingsInv, Structure
<1>2. /\ host = User /\ host' = host /\ mmd' = mmd /\ \A c \in Channels : ~ mmd[c].valid
      /\ drv' = [c \in Channels |-> [drv[c] EXCEPT !.valid = FALSE, !.buf = NoBuf]]
      /\ board' = [c \in Channels |-> ShutOff]
      /\ pinned' = {} /\ ring' = [b \in Buffers |-> NoRing]
      /\ put' = put /\ got' = got
  BY DEF CloseDevice, dataVars
<1>3. drv' \in [Channels -> DrvRecords] /\ \A c \in Channels : ~ drv'[c].valid /\ drv'[c].buf = NoBuf
  BY <1>1, <1>2 DEF Fields, DrvRecords
<1>4. board' \in [Channels -> BoardRecords] /\ \A c \in Channels : ~ board'[c].control /\ board'[c].buf = NoBuf
  <2>1. PICK e : e = ShutOff
    OBVIOUS
  <2>2. e \in BoardRecords /\ ~ e.control /\ e.buf = NoBuf
    BY <2>1, Rooms DEF ShutOff, BoardRecords
  <2>3. board' = [c \in Channels |-> e]
    BY <1>2, <2>1
  <2>. QED
    BY <2>2, <2>3
<1>5. ring' \in [Buffers -> RingRecords] /\ \A b \in Buffers : ring'[b].size = 0
  <2>1. PICK e : e = NoRing
    OBVIOUS
  <2>2. e \in RingRecords /\ e.size = 0
    BY <2>1, Rooms, CellsFit DEF NoRing, RingRecords
  <2>3. ring' = [b \in Buffers |-> e]
    BY <1>2, <2>1
  <2>. QED
    BY <2>2, <2>3
<1>6. Fields' /\ RingInv'
  BY <1>1, <1>2, <1>3, <1>4, <1>5 DEF Fields, RingInv
<1>7. ASSUME NEW c \in Channels PROVE HoldOK(c)'
  <2>1. HoldOK(c)
    BY <1>1 DEF Structure
  <2>2. /\ host # <<"create", c>> /\ host' # <<"create", c>>
        /\ host' \notin {<<"flush", c>>, <<"free", c>>}
    BY <1>2, CallsApart
  <2>. QED
    BY <1>2, <2>1, <2>2, HoldFrame DEF Held
<1>8. ASSUME NEW c \in Channels PROVE PinOK(c)' /\ BoardOK(c)'
  BY <1>2, <1>3, <1>4, BuffersOf DEF PinOK, BoardOK
<1>9. PushOK' /\ PullOK'
  BY <1>2 DEF PushOK, PullOK, Channels
<1>. QED
  BY <1>6, <1>7, <1>8, <1>9 DEF RingsInv, Structure

-----------------------------------------------------------------------------
(* Using a channel *)

\* Steps that change only what is in a ring that is in use, and the MMD's
\* offer and position.
LEMMA UseFrame ==
  ASSUME Structure, NEW c \in Channels, mmd[c].valid, Fields', RingInv',
         host = User \/ host' = host, host' \in {host, <<"sync">>},
         drv' = drv, pinned' = pinned,
         \A d \in Channels : /\ board'[d].control <=> board[d].control
                             /\ board'[d].buf = board[d].buf
                             /\ d # c => board'[d] = board[d] /\ mmd'[d] = mmd[d],
         board[c].buf = mmd[c].buf \/ board'[c] = board[c],
         board'[c].own \in 0 .. mmd[c].size - 1 \/ board'[c].own = board[c].own,
         board'[c].hostPtr = board[c].hostPtr,
         mmd'[c].valid, mmd'[c].buf = mmd[c].buf, mmd'[c].size = mmd[c].size,
         mmd'[c].local \in 0 .. mmd[c].size - 1,
         mmd'[c].offer \in 0 .. mmd[c].size - mmd'[c].local,
         ring'[mmd[c].buf].size = ring[mmd[c].buf].size,
         \A b \in Buffers : b # mmd[c].buf => ring'[b] = ring[b]
  PROVE  Structure'
<1>1. Held(c) /\ HoldOK(c) /\ PinOK(c) /\ BoardOK(c)
  BY DEF Held, Structure
<1>2. /\ mmd[c].buf \in Of(c) /\ mmd[c].buf \in Buffers /\ mmd[c].size \in 1 .. MaxUnits
      /\ ring[mmd[c].buf].size = mmd[c].size
  BY <1>1, HeldRing
<1>3. \A d \in Channels :
        /\ host' = <<"create", d>> <=> host = <<"create", d>>
        /\ host' \in {<<"flush", d>>, <<"free", d>>} => host' = host
  BY CallsApart
<1>4. HoldOK(c)'
  BY <1>1, <1>2, <1>3 DEF HoldOK, Held
<1>5. \A d \in Channels : d # c /\ Held(d) => ring'[mmd[d].buf] = ring[mmd[d].buf]
  BY <1>2, HeldRing, BuffersOf
<1>6. ASSUME NEW d \in Channels, d # c PROVE HoldOK(d)'
  <2>1. HoldOK(d)
    BY DEF Structure
  <2>2. host' \in {<<"flush", d>>, <<"free", d>>} => mmd[d].valid
    BY <1>3, <2>1 DEF HoldOK
  <2>3. mmd'[d] = mmd[d]
    BY <1>6
  <2>4. host = <<"create", d>> => ring'[mmd[d].buf] = ring[mmd[d].buf] /\ mmd[d].buf \notin pinned'
    BY <2>1, <1>5, <1>6 DEF HoldOK, Held
  <2>. QED
    BY <2>1, <2>2, <2>3, <2>4, <1>3, <1>5, <1>6, HoldFrame
<1>7. \A b \in Buffers : ring'[b].size = ring[b].size
  BY <1>2
<1>8. ASSUME NEW d \in Channels PROVE PinOK(d)' /\ (d # c => BoardOK(d)')
  <2>1. PinOK(d) /\ BoardOK(d)
    BY DEF Structure
  <2>2. drv[d].valid => ring'[drv[d].buf].size = ring[drv[d].buf].size /\ ring[drv[d].buf].size # 0
    BY <2>1, <1>7, BuffersOf DEF PinOK
  <2>3. PinOK(d)'
    BY <2>1, <2>2, PinFrame
  <2>4. ASSUME d # c PROVE BoardOK(d)'
    <3>1. board'[d] = board[d]
      BY <2>4
    <3>. QED
      BY <2>1, <2>2, <3>1, BoardFrame
  <2>. QED
    BY <2>3, <2>4
<1>9. BoardOK(c)'
  <2>1. CASE board'[c].own = board[c].own
    <3>1. drv[c].valid => ring'[drv[c].buf].size = ring[drv[c].buf].size
      BY <1>1, <1>7, BuffersOf DEF PinOK
    <3>. QED
      BY <2>1, <3>1, <1>1, BoardFrame
  <2>2. CASE board[c].buf = mmd[c].buf /\ board'[c].own \in 0 .. mmd[c].size - 1
    BY <2>2, <1>1, <1>2 DEF BoardOK
  <2>. QED
    BY <2>1, <2>2
<1>. QED
  BY <1>4, <1>6, <1>8, <1>9 DEF Structure

\* What a step may do to a stream.
Rests(c) == Size(c)' = Size(c) /\ put'[c] = put[c] /\ got'[c] = got[c]
Opens(c) == Size(c) = 0 /\ Size(c)' \in Sizes(c) /\ put'[c] = 0 /\ got'[c] = 0
Shuts(c) == Size(c) > 0 /\ Size(c)' = 0 /\ put'[c] = 0 /\ got'[c] = 0
Sends(c) ==
  /\ Size(c) \in Nat \ {0} /\ Size(c)' = Size(c) /\ got'[c] = got[c]
  /\ \E n \in 1 .. Size(c) : /\ ((put[c] - got[c]) % Size(c)) + n < Size(c)
                             /\ put'[c] = (put[c] + n) % Size(c)
Receives(c) ==
  /\ Size(c) \in Nat \ {0} /\ Size(c)' = Size(c) /\ put'[c] = put[c]
  /\ \E n \in 1 .. Size(c) : /\ n <= (put[c] - got[c]) % Size(c)
                             /\ got'[c] = (got[c] + n) % Size(c)
StreamStep(c) == Rests(c) \/ Opens(c) \/ Shuts(c) \/ Sends(c) \/ Receives(c)

\* get_buffer for push: what is filled is beyond what is on the way.
LEMMA GetPushKeeps ==
  ASSUME RingsInv, NEW n \in Chunks, GetPush(n)
  PROVE  RingsInv' /\ Rests("push") /\ Rests("pull")
<1>. DEFINE b == mmd["push"].buf
            s == mmd["push"].size
<1>1. Structure /\ PushOK /\ PullOK /\ Fields /\ RingInv /\ n \in Nat /\ "push" \in Channels /\ "pull" \in Channels
  BY ChannelAssumption DEF RingsInv, Structure, Channels
<1>2. /\ host = User /\ host' = host /\ mmd["push"].valid /\ mmd["push"].offer = 0
      /\ mmd' = [mmd EXCEPT !["push"].offer = n]
      /\ ring' = [ring EXCEPT ![b] = Filled(ring[b], mmd["push"].local, n, put["push"])]
      /\ drv' = drv /\ pinned' = pinned /\ board' = board /\ put' = put /\ got' = got
  BY DEF GetPush, dataVars, drvVars
<1>3. n <= Contiguous("push", Avail("push"))
  BY DEF GetPush
<1>4. /\ b \in Buffers /\ b \in Of("push") /\ s \in 1 .. MaxUnits /\ s \in Nat \ {0} /\ ring[b].size = s
      /\ ring[b].front \in 0 .. s - 1 /\ ring[b].end \in 0 .. s - 1
      /\ ring[b].cells \in [0 .. s - 1 -> 0 .. MaxUnits]
      /\ mmd["push"].local \in 0 .. s - 1
  BY <1>1, <1>2, HeldRing, Rooms DEF Held
<1>5. PICK l \in 0 .. s - 1 : l = mmd["push"].local
  BY <1>4
<1>6. PICK r : r = ring[b]
  OBVIOUS
<1>7. PushFlow(s, l, 0, r.front, r.end, r.cells, put["push"], got["push"])
  BY <1>1, <1>2, <1>5, <1>6 DEF PushOK
<1>8. PICK f : f = [i \in DOMAIN r.cells |-> IF i \in l .. l + n - 1 THEN Number(put["push"] + i - l, s) ELSE r.cells[i]]
  OBVIOUS
<1>9. \A i \in 0 .. s - 1 : f[i] = IF i \in l .. l + n - 1 THEN (put["push"] + i - l) % s ELSE r.cells[i]
  BY <1>4, <1>6, <1>8 DEF Number
<1>10a. PICK a : a = PushAvail(r.front, r.end, s)
  OBVIOUS
<1>10. n <= IF s > l + a THEN a ELSE s - l
  <2>1. Avail("push") = a
    BY <1>10a, <1>6 DEF Avail
  <2>. QED
    BY <2>1, <1>3, <1>5 DEF Contiguous
<1>11. n \in 0 .. s - l /\ PushFlow(s, l, n, r.front, r.end, f, put["push"], got["push"])
  <2>1. r.front \in 0 .. s - 1 /\ s \in Nat \ {0} /\ n \in Nat
    BY <1>1, <1>4, <1>6
  <2>. QED
    BY <2>1, <1>7, <1>9, <1>10, <1>10a, PushGets
<1>12. f \in [0 .. s - 1 -> 0 .. MaxUnits] /\ f \in CellFunctions
  <2>1. put["push"] \in Nat
    BY <1>1, Rooms DEF Fields, Positions
  <2>2. ASSUME NEW i \in 0 .. s - 1 PROVE f[i] \in 0 .. MaxUnits
    <3>1. (put["push"] + i - l) % s \in 0 .. s - 1
      <4>1. put["push"] + i - l \in Int /\ s \in Nat \ {0}
        BY <2>1, <1>4, <1>5
      <4>. QED
        BY <4>1, ModInRing
    <3>2. (put["push"] + i - l) % s \in 0 .. MaxUnits
      BY <3>1, <1>4, Rooms
    <3>3. r.cells[i] \in 0 .. MaxUnits
      BY <1>4, <1>6
    <3>. QED
      BY <3>2, <3>3, <1>9
  <2>3. DOMAIN f = 0 .. s - 1 /\ f = [i \in DOMAIN f |-> f[i]]
    BY <1>4, <1>6, <1>8
  <2>4. f \in [0 .. s - 1 -> 0 .. MaxUnits]
    BY <2>2, <2>3
  <2>. QED
    BY <2>4, <1>4, CellsFit
<1>13. PICK q : q = [r EXCEPT !.cells = f]
  OBVIOUS
<1>14. r \in RingRecords /\ r.size = s
  BY <1>1, <1>4, <1>6 DEF Fields
<1>15. q \in RingRecords /\ q.size = s /\ q.front = r.front /\ q.end = r.end /\ q.cells = f
  BY <1>12, <1>13, <1>14 DEF RingRecords
<1>16. ring' = [ring EXCEPT ![b] = q]
  BY <1>2, <1>5, <1>6, <1>8, <1>13, <1>14 DEF Filled
<1>17. /\ ring' \in [Buffers -> RingRecords] /\ ring'[b] = q
       /\ \A x \in Buffers : x # b => ring'[x] = ring[x]
  BY <1>1, <1>4, <1>15, <1>16 DEF Fields
<1>18. n \in 0 .. MaxUnits
  BY <1>4, <1>5, <1>11, Rooms
<1>19. /\ mmd' \in [Channels -> MmdRecords]
       /\ mmd'["push"].valid /\ mmd'["push"].buf = b /\ mmd'["push"].size = s
       /\ mmd'["push"].local = mmd["push"].local /\ mmd'["push"].offer = n
       /\ mmd'["pull"] = mmd["pull"]
  BY <1>1, <1>2, <1>18 DEF Fields, MmdRecords
<1>. HIDE DEF b, s
<1>20. Fields'
  BY <1>1, <1>2, <1>17, <1>19 DEF Fields
<1>21. RingInv'
  <2>. SUFFICES ASSUME NEW x \in Buffers, ring'[x].size # 0
                PROVE  /\ ring'[x].front \in 0 .. ring'[x].size - 1 /\ ring'[x].end \in 0 .. ring'[x].size - 1
                       /\ ring'[x].cells \in [0 .. ring'[x].size - 1 -> 0 .. MaxUnits]
    BY DEF RingInv
  <2>1. CASE x = b
    BY <2>1, <1>4, <1>6, <1>12, <1>15, <1>17
  <2>2. CASE x # b
    BY <2>2, <1>1, <1>17 DEF RingInv
  <2>. QED
    BY <2>1, <2>2
<1>22. \A d \in Channels : d # "push" => mmd'[d] = mmd[d]
  BY <1>19 DEF Channels
<1>23. Structure'
  BY <1>1, <1>2, <1>4, <1>5, <1>11, <1>15, <1>17, <1>19, <1>20, <1>21, <1>22, <1>6, UseFrame DEF b, s
<1>24. PushOK'
  <2>1. board["push"].buf = b => PushServed(board["push"].own, board["push"].hostPtr, r.front, r.end, s)
    BY <1>1, <1>2, <1>6, Zenon DEF PushOK, b, s
  <2>2. /\ ring'[mmd'["push"].buf] = q /\ mmd'["push"].local = l /\ mmd'["push"].buf = b
        /\ mmd'["push"].size = s /\ mmd'["push"].offer = n
    BY <1>5, <1>17, <1>19
  <2>3. PushFlow(s, l, n, q.front, q.end, q.cells, put'["push"], got'["push"])
    BY <1>2, <1>11, <1>15
  <2>4. board'["push"].buf = b => PushServed(board'["push"].own, board'["push"].hostPtr, q.front, q.end, s)
    BY <2>1, <1>2, <1>15
  <2>. QED
    BY <2>2, <2>3, <2>4, Zenon DEF PushOK
<1>25. PullOK'
  <2>1. mmd["pull"].valid => ring'[mmd["pull"].buf] = ring[mmd["pull"].buf]
    BY <1>1, <1>4, <1>17, OwnRing
  <2>. QED
    BY <2>1, <1>1, <1>2, <1>19, PullFrame
<1>. QED
  BY <1>2, <1>19, <1>23, <1>24, <1>25 DEF RingsInv, Size, Rests, b, s

LEMMA LessOfTwo ==
  ASSUME NEW a \in Nat, NEW b \in Int, a <= b
  PROVE  Min({a, b}) = a
BY DEF Min

\* get_buffer for pull: what is given out is on the way.
LEMMA GetPullKeeps ==
  ASSUME RingsInv, NEW n \in Chunks, GetPull(n)
  PROVE  RingsInv' /\ Rests("push") /\ Rests("pull")
<1>. DEFINE b == mmd["pull"].buf
            s == mmd["pull"].size
<1>1. Structure /\ PushOK /\ PullOK /\ Fields /\ RingInv /\ n \in Nat /\ "push" \in Channels /\ "pull" \in Channels
  BY ChannelAssumption DEF RingsInv, Structure, Channels
<1>2. /\ host = User /\ host' = host /\ mmd["pull"].valid /\ mmd["pull"].offer = 0
      /\ mmd' = [mmd EXCEPT !["pull"].offer = n] /\ ring' = ring
      /\ drv' = drv /\ pinned' = pinned /\ board' = board /\ put' = put /\ got' = got
  BY DEF GetPull, dataVars, drvVars
<1>3. n <= Contiguous("pull", Avail("pull"))
  BY DEF GetPull
<1>4. /\ b \in Buffers /\ b \in Of("pull") /\ s \in 1 .. MaxUnits /\ s \in Nat \ {0} /\ ring[b].size = s
      /\ ring[b].front \in 0 .. s - 1 /\ ring[b].end \in 0 .. s - 1
      /\ mmd["pull"].local \in 0 .. s - 1
  BY <1>1, <1>2, HeldRing, Rooms DEF Held
<1>5. PICK l \in 0 .. s - 1 : l = mmd["pull"].local
  BY <1>4
<1>6. PICK r : r = ring[b]
  OBVIOUS
<1>7. PullFlow(s, l, 0, r.front, r.end, r.cells, put["pull"], got["pull"])
  BY <1>1, <1>2, <1>5, <1>6 DEF PullOK
<1>8. PICK a : a = PullAvail(r.front, r.end, s)
  OBVIOUS
<1>9. n <= IF s > l + a THEN a ELSE s - l
  <2>1. Avail("pull") = a
    BY <1>8, <1>6 DEF Avail
  <2>. QED
    BY <2>1, <1>3, <1>5 DEF Contiguous
<1>10. n \in 0 .. s - l /\ PullFlow(s, l, n, r.front, r.end, r.cells, put["pull"], got["pull"])
  <2>1. r.end \in 0 .. s - 1 /\ s \in Nat \ {0} /\ n \in Nat
    BY <1>1, <1>4, <1>6
  <2>. QED
    BY <2>1, <1>7, <1>8, <1>9, PullGets
<1>11. n \in 0 .. MaxUnits
  BY <1>4, <1>5, <1>10, Rooms
<1>12. /\ mmd' \in [Channels -> MmdRecords]
       /\ mmd'["pull"].valid /\ mmd'["pull"].buf = b /\ mmd'["pull"].size = s
       /\ mmd'["pull"].local = mmd["pull"].local /\ mmd'["pull"].offer = n
       /\ mmd'["push"] = mmd["push"]
  BY <1>1, <1>2, <1>11 DEF Fields, MmdRecords
<1>. HIDE DEF b, s
<1>13. Fields' /\ RingInv'
  BY <1>1, <1>2, <1>12 DEF Fields, RingInv
<1>14. \A d \in Channels : d # "pull" => mmd'[d] = mmd[d]
  BY <1>12 DEF Channels
<1>15. Structure'
  BY <1>1, <1>2, <1>4, <1>5, <1>10, <1>12, <1>13, <1>14, UseFrame DEF b, s
<1>16. PullOK'
  <2>1. board["pull"].buf = b => PullServed(board["pull"].own, board["pull"].hostPtr, r.front, r.end, s)
    BY <1>1, <1>2, <1>6, Zenon DEF PullOK, b, s
  <2>2. /\ ring'[mmd'["pull"].buf] = r /\ mmd'["pull"].local = l /\ mmd'["pull"].buf = b
        /\ mmd'["pull"].size = s /\ mmd'["pull"].offer = n
    BY <1>2, <1>5, <1>6, <1>12
  <2>. QED
    BY <2>1, <2>2, <1>2, <1>10, Zenon DEF PullOK
<1>17. PushOK'
  BY <1>1, <1>2, <1>12, PushFrame
<1>. QED
  BY <1>2, <1>12, <1>15, <1>16, <1>17 DEF RingsInv, Size, Rests, b, s

\* ack_buffer for push sends exactly what was filled.
LEMMA AckPushKeeps ==
  ASSUME RingsInv, AckBuffer("push")
  PROVE  RingsInv' /\ Sends("push") /\ Rests("pull")
<1>. DEFINE b == mmd["push"].buf
            s == mmd["push"].size
            n == Min({mmd["push"].offer, Avail("push")})
<1>1. Structure /\ PushOK /\ PullOK /\ Fields /\ RingInv /\ "push" \in Channels /\ "pull" \in Channels
  BY DEF RingsInv, Structure, Channels
<1>2. /\ host = User /\ host' = <<"sync">> /\ mmd["push"].valid /\ mmd["push"].offer > 0
      /\ mmd' = [mmd EXCEPT !["push"].offer = 0, !["push"].local = Moved("push", n)]
      /\ ring' = [ring EXCEPT ![b].end = Moved("push", n)]
      /\ put' = [put EXCEPT !["push"] = Number(put["push"] + n, s)] /\ got' = got
      /\ drv' = drv /\ pinned' = pinned /\ board' = board
  BY DEF AckBuffer, dataVars, drvVars
<1>3. /\ b \in Buffers /\ b \in Of("push") /\ s \in 1 .. MaxUnits /\ s \in Nat \ {0} /\ ring[b].size = s
      /\ ring[b].front \in 0 .. s - 1 /\ ring[b].end \in 0 .. s - 1
      /\ ring[b].cells \in [0 .. s - 1 -> 0 .. MaxUnits]
      /\ mmd["push"].local \in 0 .. s - 1 /\ mmd["push"].offer \in 0 .. s - mmd["push"].local
  BY <1>1, <1>2, HeldRing, Rooms DEF Held
<1>4. PICK l \in 0 .. s - 1 : l = mmd["push"].local
  BY <1>3
<1>5. PICK o \in 0 .. s - l : o = mmd["push"].offer
  BY <1>3, <1>4
<1>6. PICK r : r = ring[b]
  OBVIOUS
<1>7. PushFlow(s, l, o, r.front, r.end, r.cells, put["push"], got["push"])
  BY <1>1, <1>2, <1>4, <1>5, <1>6 DEF PushOK
<1>8. PICK m : m = IF l + o >= s THEN 0 ELSE l + o
  OBVIOUS
<1>9. /\ m \in 0 .. s - 1 /\ (put["push"] + o) % s = m /\ o <= PushAvail(r.front, r.end, s)
      /\ PushFlow(s, m, 0, r.front, m, r.cells, (put["push"] + o) % s, got["push"])
      /\ Dist(r.front, r.end, s) + o < s
      /\ \A hp \in 0 .. s - 1 : PushServed(r.front, hp, r.front, r.end, s) => PushServed(r.front, hp, r.front, m, s)
  <2>1. r.front \in 0 .. s - 1 /\ s \in Nat \ {0}
    BY <1>3, <1>6
  <2>. QED
    BY <2>1, <1>7, <1>8, PushAcknowledges
<1>10. n = o
  <2>1. PICK f \in 0 .. s - 1, e \in 0 .. s - 1 : f = r.front /\ e = r.end
    BY <1>3, <1>6
  <2>2. PICK a : a = PushAvail(f, e, s)
    OBVIOUS
  <2>3. a \in Int /\ Avail("push") = a /\ o <= a /\ o \in Nat
    <3>1. a \in Int
      <4>1. s \in Nat /\ f \in Nat /\ e \in Nat
        BY <1>3, <2>1
      <4>. QED
        BY <4>1, <2>2, RoomIsNumber
    <3>. QED
      BY <3>1, <1>6, <1>9, <2>1, <2>2 DEF Avail
  <2>. QED
    BY <2>3, <1>5, LessOfTwo
<1>11. Moved("push", o) = m
  BY <1>4, <1>8 DEF Moved
<1>12. /\ mmd' = [mmd EXCEPT !["push"].offer = 0, !["push"].local = m]
       /\ ring' = [ring EXCEPT ![b].end = m]
       /\ put' = [put EXCEPT !["push"] = m]
  BY <1>2, <1>9, <1>10, <1>11 DEF Number
<1>13. m \in Positions /\ m \in 0 .. MaxUnits /\ 0 \in 0 .. MaxUnits
  BY <1>3, <1>9, Rooms
<1>. HIDE DEF b, s, n
<1>14. /\ mmd' \in [Channels -> MmdRecords]
       /\ mmd'["push"].valid /\ mmd'["push"].buf = b /\ mmd'["push"].size = s
       /\ mmd'["push"].local = m /\ mmd'["push"].offer = 0
       /\ mmd'["pull"] = mmd["pull"]
  <2>1. PICK x : x = mmd["push"]
    OBVIOUS
  <2>2. PICK e : e = [x EXCEPT !.offer = 0, !.local = m]
    OBVIOUS
  <2>3. x \in MmdRecords /\ x.valid /\ x.buf = b /\ x.size = s
    BY <1>1, <1>2, <2>1 DEF Fields, b, s
  <2>4. e \in MmdRecords /\ e.valid /\ e.buf = b /\ e.size = s /\ e.local = m /\ e.offer = 0
    BY <1>13, <2>2, <2>3 DEF MmdRecords
  <2>5. mmd' = [mmd EXCEPT !["push"] = e]
    BY <1>12, <2>1, <2>2
  <2>. QED
    BY <1>1, <2>4, <2>5 DEF Fields
<1>15. PICK q : q = [r EXCEPT !.end = m]
  OBVIOUS
<1>16. q \in RingRecords /\ q.size = s /\ q.front = r.front /\ q.end = m /\ q.cells = r.cells
  BY <1>1, <1>3, <1>6, <1>13, <1>15 DEF Fields, RingRecords
<1>17. /\ ring' \in [Buffers -> RingRecords] /\ ring'[b] = q
       /\ \A x \in Buffers : x # b => ring'[x] = ring[x]
  BY <1>1, <1>3, <1>6, <1>12, <1>15, <1>16 DEF Fields
<1>18. put' \in [Channels -> Positions] /\ put'["push"] = m /\ put'["pull"] = put["pull"]
  BY <1>1, <1>12, <1>13 DEF Fields
<1>19. Fields'
  BY <1>1, <1>2, <1>14, <1>17, <1>18, CallsApart DEF Fields
<1>20. RingInv'
  <2>. SUFFICES ASSUME NEW x \in Buffers, ring'[x].size # 0
                PROVE  /\ ring'[x].front \in 0 .. ring'[x].size - 1 /\ ring'[x].end \in 0 .. ring'[x].size - 1
                       /\ ring'[x].cells \in [0 .. ring'[x].size - 1 -> 0 .. MaxUnits]
    BY DEF RingInv
  <2>1. CASE x = b
    BY <2>1, <1>3, <1>6, <1>9, <1>16, <1>17
  <2>2. CASE x # b
    BY <2>2, <1>1, <1>17 DEF RingInv
  <2>. QED
    BY <2>1, <2>2
<1>21. \A d \in Channels : d # "push" => mmd'[d] = mmd[d]
  BY <1>14 DEF Channels
<1>22. 0 \in 0 .. s - m
  BY <1>3, <1>9
<1>23. Structure'
  <2>1. /\ mmd'["push"].buf = mmd["push"].buf /\ mmd'["push"].size = mmd["push"].size
        /\ mmd'["push"].local \in 0 .. mmd["push"].size - 1
        /\ mmd'["push"].offer \in 0 .. mmd["push"].size - mmd'["push"].local
    BY <1>9, <1>14, <1>22 DEF b, s
  <2>2. ring'[mmd["push"].buf].size = ring[mmd["push"].buf].size
    BY <1>3, <1>16, <1>17 DEF b
  <2>3. \A x \in Buffers : x # mmd["push"].buf => ring'[x] = ring[x]
    BY <1>17 DEF b
  <2>. QED
    BY <2>1, <2>2, <2>3, <1>1, <1>2, <1>14, <1>19, <1>20, <1>21, UseFrame
<1>24. PushOK'
  <2>1. board["push"].buf = b => PushServed(board["push"].own, board["push"].hostPtr, r.front, m, s)
    <3>. SUFFICES ASSUME board["push"].buf = b PROVE PushServed(board["push"].own, board["push"].hostPtr, r.front, m, s)
      OBVIOUS
    <3>1. PushServed(board["push"].own, board["push"].hostPtr, r.front, r.end, s)
      BY <1>1, <1>2, <1>6, Zenon DEF PushOK, b, s
    <3>2. board["push"].own = r.front
      BY <3>1 DEF PushServed
    <3>3. board["push"].hostPtr \in 0 .. s - 1
      BY <1>1, <1>2, ServedPointers DEF b, s
    <3>. QED
      BY <3>1, <3>2, <3>3, <1>9
  <2>2. /\ ring'[mmd'["push"].buf] = q /\ mmd'["push"].local = m /\ mmd'["push"].buf = b
        /\ mmd'["push"].size = s /\ mmd'["push"].offer = 0
    BY <1>14, <1>17
  <2>3. PushFlow(s, m, 0, q.front, q.end, q.cells, put'["push"], got'["push"])
    BY <1>2, <1>9, <1>16, <1>18
  <2>4. board'["push"].buf = b => PushServed(board'["push"].own, board'["push"].hostPtr, q.front, q.end, s)
    BY <2>1, <1>2, <1>16
  <2>. QED
    BY <2>2, <2>3, <2>4, Zenon DEF PushOK
<1>25. PullOK'
  <2>1. mmd["pull"].valid => ring'[mmd["pull"].buf] = ring[mmd["pull"].buf]
    BY <1>1, <1>3, <1>17, OwnRing
  <2>. QED
    BY <2>1, <1>1, <1>2, <1>14, <1>18, PullFrame
<1>26. Sends("push")
  <2>1. Size("push") = s /\ Size("push")' = s
    BY <1>2, <1>14 DEF Size, s
  <2>2. (put["push"] - got["push"]) % s = Dist(r.front, r.end, s)
    <3>1. put["push"] = r.end /\ got["push"] = r.front
      BY <1>7 DEF PushFlow
    <3>. QED
      BY <3>1, <1>3, <1>6, DistIsMod
  <2>3. o \in 1 .. s
    BY <1>2, <1>3, <1>4, <1>5
  <2>4. /\ ((put["push"] - got["push"]) % s) + o < s
        /\ put'["push"] = (put["push"] + o) % s
    BY <2>2, <1>9, <1>18
  <2>. QED
    BY <2>1, <2>3, <2>4, <1>2, <1>3 DEF Sends
<1>27. Rests("pull")
  <2>1. got'["pull"] = got["pull"] /\ put'["pull"] = put["pull"] /\ mmd'["pull"] = mmd["pull"]
    BY <1>2, <1>14, <1>18
  <2>. QED
    BY <2>1 DEF Rests, Size
<1>. QED
  BY <1>23, <1>24, <1>25, <1>26, <1>27 DEF RingsInv

\* ack_buffer for pull receives exactly what was given out.
LEMMA AckPullKeeps ==
  ASSUME RingsInv, AckBuffer("pull")
  PROVE  RingsInv' /\ Receives("pull") /\ Rests("push")
<1>. DEFINE b == mmd["pull"].buf
            s == mmd["pull"].size
            n == Min({mmd["pull"].offer, Avail("pull")})
<1>1. Structure /\ PushOK /\ PullOK /\ Fields /\ RingInv /\ "pull" \in Channels /\ "push" \in Channels
  BY DEF RingsInv, Structure, Channels
<1>2. /\ host = User /\ host' = <<"sync">> /\ mmd["pull"].valid /\ mmd["pull"].offer > 0
      /\ mmd' = [mmd EXCEPT !["pull"].offer = 0, !["pull"].local = Moved("pull", n)]
      /\ ring' = [ring EXCEPT ![b].front = Moved("pull", n)]
      /\ got' = [got EXCEPT !["pull"] = Follow("pull", ring[b].cells, mmd["pull"].local, n, s)]
      /\ put' = put
      /\ drv' = drv /\ pinned' = pinned /\ board' = board
  BY DEF AckBuffer, dataVars, drvVars
<1>3. /\ b \in Buffers /\ b \in Of("pull") /\ s \in 1 .. MaxUnits /\ s \in Nat \ {0} /\ ring[b].size = s
      /\ ring[b].front \in 0 .. s - 1 /\ ring[b].end \in 0 .. s - 1
      /\ ring[b].cells \in [0 .. s - 1 -> 0 .. MaxUnits]
      /\ mmd["pull"].local \in 0 .. s - 1 /\ mmd["pull"].offer \in 0 .. s - mmd["pull"].local
  BY <1>1, <1>2, HeldRing, Rooms DEF Held
<1>4. PICK l \in 0 .. s - 1 : l = mmd["pull"].local
  BY <1>3
<1>5. PICK o \in 0 .. s - l : o = mmd["pull"].offer
  BY <1>3, <1>4
<1>6. PICK r : r = ring[b]
  OBVIOUS
<1>7. PullFlow(s, l, o, r.front, r.end, r.cells, put["pull"], got["pull"])
  BY <1>1, <1>2, <1>4, <1>5, <1>6 DEF PullOK
<1>8. PICK m : m = IF l + o >= s THEN 0 ELSE l + o
  OBVIOUS
<1>9. /\ m \in 0 .. s - 1 /\ (got["pull"] + o) % s = m /\ o <= PullAvail(r.front, r.end, s)
      /\ \A i \in 0 .. o - 1 : r.cells[l + i] = (got["pull"] + i) % s
      /\ PullFlow(s, m, 0, m, r.end, r.cells, put["pull"], m)
      /\ o <= Dist(r.front, r.end, s)
      /\ \A hp \in 0 .. s - 1 : PullServed(r.end, hp, r.front, r.end, s) => PullServed(r.end, hp, m, r.end, s)
  <2>1. r.end \in 0 .. s - 1 /\ s \in Nat \ {0}
    BY <1>3, <1>6
  <2>2. PICK f, e, cells, p, g : f = r.front /\ e = r.end /\ cells = r.cells /\ p = put["pull"] /\ g = got["pull"]
    OBVIOUS
  <2>3. PullFlow(s, l, o, f, e, cells, p, g) /\ e \in 0 .. s - 1
    BY <2>1, <2>2, <1>7
  <2>. HIDE DEF s
  <2>4. /\ m \in 0 .. s - 1 /\ (g + o) % s = m /\ o <= PullAvail(f, e, s)
        /\ \A i \in 0 .. o - 1 : cells[l + i] = (g + i) % s
        /\ PullFlow(s, m, 0, m, e, cells, p, m)
        /\ o <= Dist(f, e, s)
        /\ \A hp \in 0 .. s - 1 : PullServed(e, hp, f, e, s) => PullServed(e, hp, m, e, s)
    BY <2>1, <2>3, <1>8, PullAcknowledges
  <2>. QED
    BY <2>2, <2>4
<1>10. n = o
  <2>1. PICK f \in 0 .. s - 1, e \in 0 .. s - 1 : f = r.front /\ e = r.end
    BY <1>3, <1>6
  <2>2. PICK a : a = PullAvail(f, e, s)
    OBVIOUS
  <2>3. a \in Int /\ Avail("pull") = a /\ o <= a /\ o \in Nat
    <3>1. a \in Int
      <4>1. s \in Nat /\ f \in Nat /\ e \in Nat
        BY <1>3, <2>1
      <4>. QED
        BY <4>1, <2>2, RoomIsNumber
    <3>. QED
      BY <3>1, <1>6, <1>9, <2>1, <2>2 DEF Avail
  <2>. QED
    BY <2>3, <1>5, LessOfTwo
<1>11. Moved("pull", o) = m
  BY <1>4, <1>8 DEF Moved
<1>12. /\ mmd' = [mmd EXCEPT !["pull"].offer = 0, !["pull"].local = m]
       /\ ring' = [ring EXCEPT ![b].front = m]
       /\ got' = [got EXCEPT !["pull"] = m]
  <2>1. Follow("pull", r.cells, l, o, s) = m
    BY <1>9 DEF Follow, Number
  <2>. QED
    BY <2>1, <1>2, <1>4, <1>6, <1>10, <1>11
<1>13. m \in Positions /\ m \in 0 .. MaxUnits /\ 0 \in 0 .. MaxUnits
  BY <1>3, <1>9, Rooms
<1>. HIDE DEF b, s, n
<1>14. /\ mmd' \in [Channels -> MmdRecords]
       /\ mmd'["pull"].valid /\ mmd'["pull"].buf = b /\ mmd'["pull"].size = s
       /\ mmd'["pull"].local = m /\ mmd'["pull"].offer = 0
       /\ mmd'["push"] = mmd["push"]
  <2>1. PICK x : x = mmd["pull"]
    OBVIOUS
  <2>2. PICK e : e = [x EXCEPT !.offer = 0, !.local = m]
    OBVIOUS
  <2>3. x \in MmdRecords /\ x.valid /\ x.buf = b /\ x.size = s
    BY <1>1, <1>2, <2>1 DEF Fields, b, s
  <2>4. e \in MmdRecords /\ e.valid /\ e.buf = b /\ e.size = s /\ e.local = m /\ e.offer = 0
    BY <1>13, <2>2, <2>3 DEF MmdRecords
  <2>5. mmd' = [mmd EXCEPT !["pull"] = e]
    BY <1>12, <2>1, <2>2
  <2>. QED
    BY <1>1, <2>4, <2>5 DEF Fields
<1>15. PICK q : q = [r EXCEPT !.front = m]
  OBVIOUS
<1>16. q \in RingRecords /\ q.size = s /\ q.front = m /\ q.end = r.end /\ q.cells = r.cells
  BY <1>1, <1>3, <1>6, <1>13, <1>15 DEF Fields, RingRecords
<1>17. /\ ring' \in [Buffers -> RingRecords] /\ ring'[b] = q
       /\ \A x \in Buffers : x # b => ring'[x] = ring[x]
  BY <1>1, <1>3, <1>6, <1>12, <1>15, <1>16 DEF Fields
<1>18. got' \in [Channels -> 0 .. MaxUnits] /\ got'["pull"] = m /\ got'["push"] = got["push"]
  BY <1>1, <1>12, <1>13 DEF Fields
<1>19. Fields'
  BY <1>1, <1>2, <1>14, <1>17, <1>18, CallsApart DEF Fields
<1>20. RingInv'
  <2>. SUFFICES ASSUME NEW x \in Buffers, ring'[x].size # 0
                PROVE  /\ ring'[x].front \in 0 .. ring'[x].size - 1 /\ ring'[x].end \in 0 .. ring'[x].size - 1
                       /\ ring'[x].cells \in [0 .. ring'[x].size - 1 -> 0 .. MaxUnits]
    BY DEF RingInv
  <2>1. CASE x = b
    BY <2>1, <1>3, <1>6, <1>9, <1>16, <1>17
  <2>2. CASE x # b
    BY <2>2, <1>1, <1>17 DEF RingInv
  <2>. QED
    BY <2>1, <2>2
<1>21. \A d \in Channels : d # "pull" => mmd'[d] = mmd[d]
  BY <1>14 DEF Channels
<1>22. 0 \in 0 .. s - m
  BY <1>3, <1>9
<1>23. Structure'
  <2>1. /\ mmd'["pull"].buf = mmd["pull"].buf /\ mmd'["pull"].size = mmd["pull"].size
        /\ mmd'["pull"].local \in 0 .. mmd["pull"].size - 1
        /\ mmd'["pull"].offer \in 0 .. mmd["pull"].size - mmd'["pull"].local
    BY <1>9, <1>14, <1>22 DEF b, s
  <2>2. ring'[mmd["pull"].buf].size = ring[mmd["pull"].buf].size
    BY <1>3, <1>16, <1>17 DEF b
  <2>3. \A x \in Buffers : x # mmd["pull"].buf => ring'[x] = ring[x]
    BY <1>17 DEF b
  <2>. QED
    BY <2>1, <2>2, <2>3, <1>1, <1>2, <1>14, <1>19, <1>20, <1>21, UseFrame
<1>24. PullOK'
  <2>1. board["pull"].buf = b => PullServed(board["pull"].own, board["pull"].hostPtr, m, r.end, s)
    <3>. SUFFICES ASSUME board["pull"].buf = b PROVE PullServed(board["pull"].own, board["pull"].hostPtr, m, r.end, s)
      OBVIOUS
    <3>1. PullServed(board["pull"].own, board["pull"].hostPtr, r.front, r.end, s)
      BY <1>1, <1>2, <1>6, Zenon DEF PullOK, b, s
    <3>2. board["pull"].own = r.end
      BY <3>1 DEF PullServed
    <3>3. board["pull"].hostPtr \in 0 .. s - 1
      BY <1>1, <1>2, ServedPointers DEF b, s
    <3>. QED
      BY <3>1, <3>2, <3>3, <1>9
  <2>2. /\ ring'[mmd'["pull"].buf] = q /\ mmd'["pull"].local = m /\ mmd'["pull"].buf = b
        /\ mmd'["pull"].size = s /\ mmd'["pull"].offer = 0
    BY <1>14, <1>17
  <2>3. PullFlow(s, m, 0, q.front, q.end, q.cells, put'["pull"], got'["pull"])
    BY <1>2, <1>9, <1>16, <1>18
  <2>4. board'["pull"].buf = b => PullServed(board'["pull"].own, board'["pull"].hostPtr, q.front, q.end, s)
    BY <2>1, <1>2, <1>16
  <2>. QED
    BY <2>2, <2>3, <2>4, Zenon DEF PullOK
<1>25. PushOK'
  <2>1. mmd["push"].valid => ring'[mmd["push"].buf] = ring[mmd["push"].buf]
    BY <1>1, <1>3, <1>17, OwnRing
  <2>. QED
    BY <2>1, <1>1, <1>2, <1>14, <1>18, PushFrame
<1>26. Receives("pull")
  <2>1. Size("pull") = s /\ Size("pull")' = s
    BY <1>2, <1>14 DEF Size, s
  <2>2. (put["pull"] - got["pull"]) % s = Dist(r.front, r.end, s)
    <3>1. put["pull"] = r.end /\ got["pull"] = r.front
      BY <1>7 DEF PullFlow
    <3>. QED
      BY <3>1, <1>3, <1>6, DistIsMod
  <2>3. o \in 1 .. s
    BY <1>2, <1>3, <1>4, <1>5
  <2>4. /\ o <= (put["pull"] - got["pull"]) % s
        /\ got'["pull"] = (got["pull"] + o) % s
    BY <2>2, <1>9, <1>18
  <2>. QED
    BY <2>1, <2>3, <2>4, <1>2, <1>3 DEF Receives
<1>27. Rests("push")
  <2>1. got'["push"] = got["push"] /\ put'["push"] = put["push"] /\ mmd'["push"] = mmd["push"]
    BY <1>2, <1>14, <1>18
  <2>. QED
    BY <2>1 DEF Rests, Size
<1>. QED
  BY <1>23, <1>24, <1>25, <1>26, <1>27 DEF RingsInv

-----------------------------------------------------------------------------
(* The work item looks at the words *)

\* The word the driver reads is a pointer of the ring it has.
LEMMA HostWordInRing ==
  ASSUME Structure, NEW c \in Channels, drv[c].valid
  PROVE  HostWord(c) \in 0 .. ring[drv[c].buf].size - 1 /\ HostWord(c) \in Positions
<1>1. drv[c].buf \in Buffers /\ ring[drv[c].buf].size # 0
  BY BuffersOf DEF Structure, PinOK
<1>2. ring[drv[c].buf].front \in 0 .. ring[drv[c].buf].size - 1 /\ ring[drv[c].buf].end \in 0 .. ring[drv[c].buf].size - 1
  BY <1>1 DEF Structure, RingInv
<1>3. ring[drv[c].buf].front \in Positions /\ ring[drv[c].buf].end \in Positions
  BY <1>1 DEF Structure, Fields, RingRecords
<1>. QED
  BY <1>2, <1>3 DEF HostWord

\* aclpci_dma_update up to its decision: the state after it.
LEMMA LookFields ==
  ASSUME Structure, WqLook
  PROVE  /\ drv' \in [Channels -> DrvRecords] /\ board' \in [Channels -> BoardRecords]
         /\ \A c \in Channels :
              /\ drv'[c].valid <=> drv[c].valid
              /\ drv'[c].buf = drv[c].buf
              /\ board'[c].control <=> board[c].control
              /\ board'[c].buf = board[c].buf /\ board'[c].own = board[c].own
              /\ \/ board'[c].hostPtr = board[c].hostPtr
                 \/ drv[c].valid /\ board'[c].hostPtr = HostWord(c)
<1>1. drv \in [Channels -> DrvRecords] /\ board \in [Channels -> BoardRecords]
  BY DEF Structure, Fields
<1>2. /\ drv' = [c \in Channels |-> IF Changed(c) THEN [drv[c] EXCEPT !.seen = HostWord(c)] ELSE drv[c]]
      /\ board' = [c \in Channels |-> IF Changed(c) THEN [board[c] EXCEPT !.hostPtr = HostWord(c)] ELSE board[c]]
  BY DEF WqLook
<1>3. ASSUME NEW c \in Channels
      PROVE  /\ drv'[c] \in DrvRecords /\ board'[c] \in BoardRecords
             /\ drv'[c].valid <=> drv[c].valid
             /\ drv'[c].buf = drv[c].buf
             /\ board'[c].control <=> board[c].control
             /\ board'[c].buf = board[c].buf /\ board'[c].own = board[c].own
             /\ \/ board'[c].hostPtr = board[c].hostPtr
                \/ drv[c].valid /\ board'[c].hostPtr = HostWord(c)
  <2>1. CASE ~ Changed(c)
    <3>1. drv'[c] = drv[c] /\ board'[c] = board[c]
      BY <2>1, <1>2
    <3>. QED
      BY <3>1, <1>1
  <2>2. CASE Changed(c)
    <3>1. drv[c].valid
      BY <2>2 DEF Changed, Looks
    <3>2. PICK w \in Positions : w = HostWord(c)
      BY <3>1, HostWordInRing
    <3>3. PICK x : x = drv[c]
      OBVIOUS
    <3>4. PICK y : y = board[c]
      OBVIOUS
    <3>5. drv'[c] = [x EXCEPT !.seen = w] /\ board'[c] = [y EXCEPT !.hostPtr = w]
      BY <2>2, <3>2, <3>3, <3>4, <1>2
    <3>6. PICK d : d = [x EXCEPT !.seen = w]
      OBVIOUS
    <3>7. d \in DrvRecords /\ (d.valid <=> x.valid) /\ d.buf = x.buf
      BY <3>2, <3>3, <3>6, <1>1 DEF DrvRecords
    <3>8. PICK e : e = [y EXCEPT !.hostPtr = w]
      OBVIOUS
    <3>9. e \in BoardRecords /\ (e.control <=> y.control) /\ e.buf = y.buf /\ e.own = y.own /\ e.hostPtr = w
      BY <3>2, <3>4, <3>8, <1>1 DEF BoardRecords
    <3>. QED
      BY <3>1, <3>2, <3>3, <3>4, <3>5, <3>6, <3>7, <3>8, <3>9
  <2>. QED
    BY <2>1, <2>2
<1>4. drv' \in [Channels -> DrvRecords] /\ board' \in [Channels -> BoardRecords]
  BY <1>2, <1>3
<1>. QED
  BY <1>3, <1>4

\* A pointer that is passed on is true when it is read.
LEMMA LookKeeps ==
  ASSUME RingsInv, WqLook
  PROVE  RingsInv' /\ Rests("push") /\ Rests("pull")
<1>1. Structure /\ PushOK /\ PullOK /\ Fields /\ RingInv /\ "push" \in Channels /\ "pull" \in Channels
  BY DEF RingsInv, Structure, Channels
<1>2. /\ host' = host /\ mmd' = mmd /\ ring' = ring /\ pinned' = pinned /\ put' = put /\ got' = got
  BY DEF WqLook, hostVars, dataVars
<1>3. /\ drv' \in [Channels -> DrvRecords] /\ board' \in [Channels -> BoardRecords]
      /\ \A c \in Channels :
           /\ drv'[c].valid <=> drv[c].valid
           /\ drv'[c].buf = drv[c].buf
           /\ board'[c].control <=> board[c].control
           /\ board'[c].buf = board[c].buf /\ board'[c].own = board[c].own
           /\ \/ board'[c].hostPtr = board[c].hostPtr
              \/ drv[c].valid /\ board'[c].hostPtr = HostWord(c)
  BY <1>1, LookFields
<1>4. Fields' /\ RingInv'
  BY <1>1, <1>2, <1>3 DEF Fields, RingInv
<1>5. ASSUME NEW c \in Channels PROVE HoldOK(c)' /\ PinOK(c)' /\ BoardOK(c)'
  <2>1. HoldOK(c) /\ PinOK(c) /\ BoardOK(c)
    BY <1>1 DEF Structure
  <2>2. HoldOK(c)'
    BY <2>1, <1>2 DEF HoldOK, Held
  <2>3. PinOK(c)'
    BY <2>1, <1>2, <1>3 DEF PinOK
  <2>4. drv[c].valid => board'[c].hostPtr < ring[drv[c].buf].size
    <3>. SUFFICES ASSUME drv[c].valid PROVE board'[c].hostPtr < ring[drv[c].buf].size
      OBVIOUS
    <3>1. CASE board'[c].hostPtr = board[c].hostPtr
      BY <3>1, <2>1 DEF BoardOK
    <3>2. CASE board'[c].hostPtr = HostWord(c)
      <4>1. ring[drv[c].buf].size \in Nat
        BY <1>1, <2>1, BuffersOf, Rooms DEF Fields, RingRecords, PinOK
      <4>2. PICK w \in 0 .. ring[drv[c].buf].size - 1 : w = HostWord(c)
        BY <1>1, HostWordInRing
      <4>. QED
        BY <3>2, <4>1, <4>2
    <3>. QED
      BY <3>1, <3>2, <1>3
  <2>5. BoardOK(c)'
    BY <2>1, <2>4, <1>2, <1>3 DEF BoardOK
  <2>. QED
    BY <2>2, <2>3, <2>5
<1>6. PushOK'
  <2>. SUFFICES ASSUME mmd["push"].valid, board["push"].buf = mmd["push"].buf
                PROVE  PushServed(board'["push"].own, board'["push"].hostPtr,
                         ring[mmd["push"].buf].front, ring[mmd["push"].buf].end, mmd["push"].size)
    BY <1>1, <1>2, <1>3 DEF PushOK
  <2>1. PushServed(board["push"].own, board["push"].hostPtr,
          ring[mmd["push"].buf].front, ring[mmd["push"].buf].end, mmd["push"].size)
    BY <1>1 DEF PushOK
  <2>2. drv["push"].buf = mmd["push"].buf
    BY <1>1, ServedPointers
  <2>3. HostWord("push") = ring[mmd["push"].buf].end
    BY <2>2 DEF HostWord
  <2>4. Held("push")
    BY DEF Held
  <2>5. PICK f \in Nat, e \in Nat, s \in Nat :
          f = ring[mmd["push"].buf].front /\ e = ring[mmd["push"].buf].end /\ s = mmd["push"].size
    BY <1>1, <2>4, HeldRing, Rooms
  <2>6. PushServed(board["push"].own, board["push"].hostPtr, f, e, s) => PushServed(board["push"].own, e, f, e, s)
    BY <2>5 DEF PushServed, Dist
  <2>. QED
    BY <2>1, <2>3, <2>5, <2>6, <1>1, <1>3
<1>7. PullOK'
  <2>. SUFFICES ASSUME mmd["pull"].valid, board["pull"].buf = mmd["pull"].buf
                PROVE  PullServed(board'["pull"].own, board'["pull"].hostPtr,
                         ring[mmd["pull"].buf].front, ring[mmd["pull"].buf].end, mmd["pull"].size)
    BY <1>1, <1>2, <1>3 DEF PullOK
  <2>1. PullServed(board["pull"].own, board["pull"].hostPtr,
          ring[mmd["pull"].buf].front, ring[mmd["pull"].buf].end, mmd["pull"].size)
    BY <1>1 DEF PullOK
  <2>2. drv["pull"].buf = mmd["pull"].buf
    BY <1>1, ServedPointers
  <2>3. HostWord("pull") = ring[mmd["pull"].buf].front
    BY <2>2 DEF HostWord
  <2>4. Held("pull")
    BY DEF Held
  <2>5. PICK f \in Nat, e \in Nat, s \in Nat :
          f = ring[mmd["pull"].buf].front /\ e = ring[mmd["pull"].buf].end /\ s = mmd["pull"].size
    BY <1>1, <2>4, HeldRing, Rooms
  <2>6. PullServed(board["pull"].own, board["pull"].hostPtr, f, e, s) => PullServed(board["pull"].own, f, f, e, s)
    BY <2>5 DEF PullServed, Dist
  <2>. QED
    BY <2>1, <2>3, <2>5, <2>6, <1>1, <1>3
<1>. QED
  BY <1>2, <1>4, <1>5, <1>6, <1>7 DEF RingsInv, Structure, Rests, Size

-----------------------------------------------------------------------------
(* The board *)

\* The board never fetches what was not sent.
LEMMA FetchKeeps ==
  ASSUME RingsInv, BoardFetch
  PROVE  RingsInv' /\ Receives("push") /\ Rests("pull")
<1>. DEFINE b == mmd["push"].buf
            s == mmd["push"].size
<1>1. Structure /\ PushOK /\ PullOK /\ Fields /\ RingInv /\ "push" \in Channels /\ "pull" \in Channels
  BY DEF RingsInv, Structure, Channels
<1>2. mmd["push"].valid /\ board["push"].buf = b
  BY <1>1, ServedIsOpen DEF BoardFetch
<1>3. /\ board["push"].own # board["push"].hostPtr
      /\ board' = [board EXCEPT !["push"].own = NextOwn("push")]
      /\ ring' = [ring EXCEPT ![b].front = NextOwn("push")]
      /\ got' = [got EXCEPT !["push"] = Follow("push", ring[b].cells, board["push"].own, 1, ring[b].size)]
      /\ mmd' = mmd /\ host' = host /\ drv' = drv /\ pinned' = pinned /\ put' = put
  BY <1>2 DEF BoardFetch, hostVars, drvVars
<1>4. /\ b \in Buffers /\ b \in Of("push") /\ s \in 1 .. MaxUnits /\ s \in Nat \ {0} /\ ring[b].size = s
      /\ ring[b].front \in 0 .. s - 1 /\ ring[b].end \in 0 .. s - 1
      /\ ring[b].cells \in [0 .. s - 1 -> 0 .. MaxUnits]
      /\ mmd["push"].local \in 0 .. s - 1 /\ mmd["push"].offer \in 0 .. s - mmd["push"].local
  BY <1>1, <1>2, HeldRing, Rooms DEF Held
<1>5. PICK r : r = ring[b]
  OBVIOUS
<1>6. PICK f \in 0 .. s - 1, hp \in 0 .. s - 1 : f = board["push"].own /\ hp = board["push"].hostPtr
  BY <1>1, <1>2, ServedPointers
<1>7. PICK l \in 0 .. s - 1, o \in 0 .. s - mmd["push"].local : l = mmd["push"].local /\ o = mmd["push"].offer
  BY <1>4
<1>8. PICK e, cells, p, g : e = r.end /\ cells = r.cells /\ p = put["push"] /\ g = got["push"]
  OBVIOUS
<1>9. PushFlow(s, l, o, r.front, e, cells, p, g) /\ PushServed(f, hp, r.front, e, s)
  BY <1>1, <1>2, <1>5, <1>6, <1>7, <1>8, Zenon DEF PushOK
<1>10. r.front = f
  BY <1>9 DEF PushServed
<1>11. PICK m : m = (f + 1) % s
  OBVIOUS
<1>12. /\ m \in 0 .. s - 1 /\ cells[f] = g % s /\ (g + 1) % s = m
       /\ PushFlow(s, l, o, m, e, cells, p, m) /\ PushServed(m, hp, m, e, s)
       /\ Dist(f, e, s) >= 1
  <2>1. s \in Nat \ {0} /\ o \in 0 .. s - l /\ f # hp
    BY <1>3, <1>4, <1>6, <1>7
  <2>2. PushFlow(s, l, o, f, e, cells, p, g) /\ PushServed(f, hp, f, e, s)
    BY <1>9, <1>10
  <2>. HIDE DEF s
  <2>. QED
    BY <2>1, <2>2, <1>11, PushFetches
<1>13. NextOwn("push") = m
  BY <1>2, <1>4, <1>6, <1>11 DEF NextOwn
<1>14. Follow("push", cells, f, 1, s) = m
  <2>1. got["push"] \in Int /\ f \in Int
    BY <1>1, <1>4, <1>6, Rooms DEF Fields
  <2>2. \A i \in 0 .. 1 - 1 : cells[f + i] = (got["push"] + i) % s
    <3>. SUFFICES ASSUME NEW i \in 0 .. 0 PROVE cells[f + i] = (got["push"] + i) % s
      OBVIOUS
    <3>1. f + i = f /\ got["push"] + i = got["push"]
      BY <2>1
    <3>. QED
      BY <3>1, <1>8, <1>12
  <2>. QED
    BY <2>2, <1>8, <1>12 DEF Follow, Number
<1>15. /\ board' = [board EXCEPT !["push"].own = m]
       /\ ring' = [ring EXCEPT ![b].front = m]
       /\ got' = [got EXCEPT !["push"] = m]
  BY <1>3, <1>4, <1>5, <1>6, <1>8, <1>13, <1>14
<1>16. m \in Positions /\ m \in 0 .. MaxUnits
  BY <1>4, <1>12, Rooms
<1>. HIDE DEF b, s
<1>17. PICK q : q = [r EXCEPT !.front = m]
  OBVIOUS
<1>18. q \in RingRecords /\ q.size = s /\ q.front = m /\ q.end = e /\ q.cells = cells
  BY <1>1, <1>4, <1>5, <1>8, <1>16, <1>17 DEF Fields, RingRecords
<1>19. /\ ring' \in [Buffers -> RingRecords] /\ ring'[b] = q
       /\ \A x \in Buffers : x # b => ring'[x] = ring[x]
  BY <1>1, <1>4, <1>5, <1>15, <1>17, <1>18 DEF Fields
<1>20. /\ board' \in [Channels -> BoardRecords] /\ board'["pull"] = board["pull"]
       /\ board'["push"].control <=> board["push"].control
       /\ board'["push"].buf = board["push"].buf /\ board'["push"].own = m
       /\ board'["push"].hostPtr = board["push"].hostPtr
  BY <1>1, <1>15, <1>16 DEF Fields, BoardRecords
<1>21. got' \in [Channels -> 0 .. MaxUnits] /\ got'["push"] = m /\ got'["pull"] = got["pull"]
  BY <1>1, <1>15, <1>16 DEF Fields
<1>22. Fields'
  BY <1>1, <1>3, <1>19, <1>20, <1>21 DEF Fields
<1>23. RingInv'
  <2>. SUFFICES ASSUME NEW x \in Buffers, ring'[x].size # 0
                PROVE  /\ ring'[x].front \in 0 .. ring'[x].size - 1 /\ ring'[x].end \in 0 .. ring'[x].size - 1
                       /\ ring'[x].cells \in [0 .. ring'[x].size - 1 -> 0 .. MaxUnits]
    BY DEF RingInv
  <2>1. CASE x = b
    BY <2>1, <1>4, <1>5, <1>8, <1>12, <1>18, <1>19
  <2>2. CASE x # b
    BY <2>2, <1>1, <1>19 DEF RingInv
  <2>. QED
    BY <2>1, <2>2
<1>24. Structure'
  <2>1. /\ mmd'["push"].buf = mmd["push"].buf /\ mmd'["push"].size = mmd["push"].size /\ mmd'["push"].valid
        /\ mmd'["push"].local \in 0 .. mmd["push"].size - 1
        /\ mmd'["push"].offer \in 0 .. mmd["push"].size - mmd'["push"].local
    BY <1>2, <1>3, <1>4 DEF s
  <2>2. ring'[mmd["push"].buf].size = ring[mmd["push"].buf].size
    BY <1>4, <1>18, <1>19 DEF b
  <2>3. \A x \in Buffers : x # mmd["push"].buf => ring'[x] = ring[x]
    BY <1>19 DEF b
  <2>4. \A d \in Channels : /\ board'[d].control <=> board[d].control
                            /\ board'[d].buf = board[d].buf
                            /\ d # "push" => board'[d] = board[d] /\ mmd'[d] = mmd[d]
    BY <1>3, <1>20 DEF Channels
  <2>5. board'["push"].own \in 0 .. mmd["push"].size - 1 /\ board["push"].buf = mmd["push"].buf
    BY <1>2, <1>12, <1>20 DEF s, b
  <2>. QED
    BY <2>1, <2>2, <2>3, <2>4, <2>5, <1>1, <1>2, <1>3, <1>20, <1>22, <1>23, UseFrame
<1>25. PushOK'
  <2>1. /\ ring'[mmd'["push"].buf] = q /\ mmd'["push"].local = l /\ mmd'["push"].buf = b
        /\ mmd'["push"].size = s /\ mmd'["push"].offer = o
    BY <1>3, <1>7, <1>19 DEF b, s
  <2>2. PushFlow(s, l, o, q.front, q.end, q.cells, put'["push"], got'["push"])
    BY <1>3, <1>8, <1>12, <1>18, <1>21
  <2>3. PushServed(board'["push"].own, board'["push"].hostPtr, q.front, q.end, s)
    BY <1>6, <1>12, <1>18, <1>20
  <2>. QED
    BY <2>1, <2>2, <2>3, Zenon DEF PushOK
<1>26. PullOK'
  <2>1. mmd["pull"].valid => ring'[mmd["pull"].buf] = ring[mmd["pull"].buf]
    BY <1>1, <1>4, <1>19, OwnRing
  <2>. QED
    BY <2>1, <1>1, <1>3, <1>20, <1>21, PullFrame
<1>27. Receives("push")
  <2>1. Size("push") = s /\ Size("push")' = s
    BY <1>2, <1>3 DEF Size, s
  <2>2. (put["push"] - got["push"]) % s = Dist(f, e, s)
    <3>1. put["push"] = e /\ got["push"] = f
      BY <1>8, <1>9, <1>10 DEF PushFlow
    <3>2. e \in 0 .. s - 1 /\ f \in 0 .. s - 1
      BY <1>4, <1>5, <1>6, <1>8
    <3>. QED
      BY <3>1, <3>2, <1>4, DistIsMod
  <2>3. Dist(f, e, s) \in Int /\ 1 \in 1 .. s
    <3>1. f \in Nat /\ e \in Nat /\ s \in Nat /\ s > 0
      BY <1>4, <1>5, <1>6, <1>8
    <3>. QED
      BY <3>1, DistIsInt
  <2>4. /\ 1 <= (put["push"] - got["push"]) % s
        /\ got'["push"] = (got["push"] + 1) % s
    BY <2>2, <2>3, <1>8, <1>12, <1>21
  <2>. QED
    BY <2>1, <2>3, <2>4, <1>3, <1>4 DEF Receives
<1>28. Rests("pull")
  <2>1. got'["pull"] = got["pull"] /\ put'["pull"] = put["pull"] /\ mmd'["pull"] = mmd["pull"]
    BY <1>3, <1>21
  <2>. QED
    BY <2>1 DEF Rests, Size
<1>. QED
  BY <1>24, <1>25, <1>26, <1>27, <1>28 DEF RingsInv

\* The board never stores over what was not read.
LEMMA StoreKeeps ==
  ASSUME RingsInv, BoardStore
  PROVE  RingsInv' /\ Sends("pull") /\ Rests("push")
<1>. DEFINE b == mmd["pull"].buf
            s == mmd["pull"].size
<1>1. Structure /\ PushOK /\ PullOK /\ Fields /\ RingInv /\ "pull" \in Channels /\ "push" \in Channels
  BY DEF RingsInv, Structure, Channels
<1>2. mmd["pull"].valid /\ board["pull"].buf = b
  BY <1>1, ServedIsOpen DEF BoardStore
<1>3. /\ NextOwn("pull") # board["pull"].hostPtr
      /\ board' = [board EXCEPT !["pull"].own = NextOwn("pull")]
      /\ ring' = [ring EXCEPT ![b].end = NextOwn("pull"), ![b].cells[board["pull"].own] = put["pull"]]
      /\ put' = [put EXCEPT !["pull"] = Number(put["pull"] + 1, ring[b].size)]
      /\ mmd' = mmd /\ host' = host /\ drv' = drv /\ pinned' = pinned /\ got' = got
  BY <1>2 DEF BoardStore, hostVars, drvVars
<1>4. /\ b \in Buffers /\ b \in Of("pull") /\ s \in 1 .. MaxUnits /\ s \in Nat \ {0} /\ ring[b].size = s
      /\ ring[b].front \in 0 .. s - 1 /\ ring[b].end \in 0 .. s - 1
      /\ ring[b].cells \in [0 .. s - 1 -> 0 .. MaxUnits]
      /\ mmd["pull"].local \in 0 .. s - 1 /\ mmd["pull"].offer \in 0 .. s - mmd["pull"].local
  BY <1>1, <1>2, HeldRing, Rooms DEF Held
<1>5. PICK r : r = ring[b]
  OBVIOUS
<1>6. PICK e \in 0 .. s - 1, hp \in 0 .. s - 1 : e = board["pull"].own /\ hp = board["pull"].hostPtr
  BY <1>1, <1>2, ServedPointers
<1>7. PICK l \in 0 .. s - 1, o \in 0 .. s - mmd["pull"].local : l = mmd["pull"].local /\ o = mmd["pull"].offer
  BY <1>4
<1>8. PICK f, cells, p, g : f = r.front /\ cells = r.cells /\ p = put["pull"] /\ g = got["pull"]
  OBVIOUS
<1>9. PullFlow(s, l, o, f, r.end, cells, p, g) /\ PullServed(e, hp, f, r.end, s)
  BY <1>1, <1>2, <1>5, <1>6, <1>7, <1>8, Zenon DEF PullOK
<1>10. r.end = e
  BY <1>9 DEF PullServed
<1>11. PICK m : m = (e + 1) % s
  OBVIOUS
<1>12a. NextOwn("pull") = m
  BY <1>2, <1>4, <1>6, <1>11 DEF NextOwn
<1>12b. PICK new : new = [cells EXCEPT ![e] = p]
  OBVIOUS
<1>12c. p \in 0 .. MaxUnits
  BY <1>1, <1>8, Rooms DEF Fields, Positions
<1>12d. /\ new \in [0 .. s - 1 -> 0 .. MaxUnits]
        /\ \A i \in 0 .. s - 1 : new[i] = IF i = e THEN p ELSE cells[i]
  BY <1>4, <1>5, <1>6, <1>8, <1>12b, <1>12c
<1>12. /\ m \in 0 .. s - 1 /\ (p + 1) % s = m /\ p = e
       /\ PullFlow(s, l, o, f, m, new, m, g) /\ PullServed(m, hp, f, m, s)
       /\ Dist(f, e, s) + 1 < s
  <2>1. s \in Nat \ {0} /\ o \in 0 .. s - l /\ m # hp
    BY <1>3, <1>4, <1>6, <1>7, <1>12a
  <2>2. PullFlow(s, l, o, f, e, cells, p, g) /\ PullServed(e, hp, f, e, s)
    BY <1>9, <1>10
  <2>3. \A i \in 0 .. s - 1 : new[i] = IF i = e THEN p ELSE cells[i]
    BY <1>12d
  <2>. HIDE DEF s
  <2>. QED
    BY <2>1, <2>2, <2>3, <1>11, PullStores
<1>13. new \in CellFunctions
  BY <1>4, <1>12d, CellsFit
<1>15. /\ board' = [board EXCEPT !["pull"].own = m]
       /\ ring' = [ring EXCEPT ![b].end = m, ![b].cells[e] = p]
       /\ put' = [put EXCEPT !["pull"] = m]
  BY <1>3, <1>4, <1>5, <1>6, <1>8, <1>12, <1>12a DEF Number
<1>16. m \in Positions /\ m \in 0 .. MaxUnits
  BY <1>4, <1>12, Rooms
<1>. HIDE DEF b, s
<1>17. PICK q : q = [r EXCEPT !.end = m, !.cells = new]
  OBVIOUS
<1>18. q \in RingRecords /\ q.size = s /\ q.front = f /\ q.end = m /\ q.cells = new
  BY <1>1, <1>4, <1>5, <1>8, <1>13, <1>16, <1>17 DEF Fields, RingRecords
<1>18a. ring' = [ring EXCEPT ![b] = q]
  BY <1>5, <1>8, <1>12b, <1>15, <1>17
<1>19. /\ ring' \in [Buffers -> RingRecords] /\ ring'[b] = q
       /\ \A x \in Buffers : x # b => ring'[x] = ring[x]
  BY <1>1, <1>4, <1>18, <1>18a DEF Fields
<1>20. /\ board' \in [Channels -> BoardRecords] /\ board'["push"] = board["push"]
       /\ board'["pull"].control <=> board["pull"].control
       /\ board'["pull"].buf = board["pull"].buf /\ board'["pull"].own = m
       /\ board'["pull"].hostPtr = board["pull"].hostPtr
  BY <1>1, <1>15, <1>16 DEF Fields, BoardRecords
<1>21. put' \in [Channels -> Positions] /\ put'["pull"] = m /\ put'["push"] = put["push"]
  BY <1>1, <1>15, <1>16 DEF Fields
<1>22. Fields'
  BY <1>1, <1>3, <1>19, <1>20, <1>21 DEF Fields
<1>23. RingInv'
  <2>. SUFFICES ASSUME NEW x \in Buffers, ring'[x].size # 0
                PROVE  /\ ring'[x].front \in 0 .. ring'[x].size - 1 /\ ring'[x].end \in 0 .. ring'[x].size - 1
                       /\ ring'[x].cells \in [0 .. ring'[x].size - 1 -> 0 .. MaxUnits]
    BY DEF RingInv
  <2>1. CASE x = b
    BY <2>1, <1>4, <1>5, <1>8, <1>12, <1>12d, <1>18, <1>19
  <2>2. CASE x # b
    BY <2>2, <1>1, <1>19 DEF RingInv
  <2>. QED
    BY <2>1, <2>2
<1>24. Structure'
  <2>1. /\ mmd'["pull"].buf = mmd["pull"].buf /\ mmd'["pull"].size = mmd["pull"].size /\ mmd'["pull"].valid
        /\ mmd'["pull"].local \in 0 .. mmd["pull"].size - 1
        /\ mmd'["pull"].offer \in 0 .. mmd["pull"].size - mmd'["pull"].local
    BY <1>2, <1>3, <1>4 DEF s
  <2>2. ring'[mmd["pull"].buf].size = ring[mmd["pull"].buf].size
    BY <1>4, <1>18, <1>19 DEF b
  <2>3. \A x \in Buffers : x # mmd["pull"].buf => ring'[x] = ring[x]
    BY <1>19 DEF b
  <2>4. \A d \in Channels : /\ board'[d].control <=> board[d].control
                            /\ board'[d].buf = board[d].buf
                            /\ d # "pull" => board'[d] = board[d] /\ mmd'[d] = mmd[d]
    BY <1>3, <1>20 DEF Channels
  <2>5. board'["pull"].own \in 0 .. mmd["pull"].size - 1 /\ board["pull"].buf = mmd["pull"].buf
    BY <1>2, <1>12, <1>20 DEF s, b
  <2>. QED
    BY <2>1, <2>2, <2>3, <2>4, <2>5, <1>1, <1>2, <1>3, <1>20, <1>22, <1>23, UseFrame
<1>25. PullOK'
  <2>1. /\ ring'[mmd'["pull"].buf] = q /\ mmd'["pull"].local = l /\ mmd'["pull"].buf = b
        /\ mmd'["pull"].size = s /\ mmd'["pull"].offer = o
    BY <1>3, <1>7, <1>19 DEF b, s
  <2>2. PullFlow(s, l, o, q.front, q.end, q.cells, put'["pull"], got'["pull"])
    BY <1>3, <1>8, <1>12, <1>18, <1>21
  <2>3. PullServed(board'["pull"].own, board'["pull"].hostPtr, q.front, q.end, s)
    BY <1>6, <1>12, <1>18, <1>20
  <2>. QED
    BY <2>1, <2>2, <2>3, Zenon DEF PullOK
<1>26. PushOK'
  <2>1. mmd["push"].valid => ring'[mmd["push"].buf] = ring[mmd["push"].buf]
    BY <1>1, <1>4, <1>19, OwnRing
  <2>. QED
    BY <2>1, <1>1, <1>3, <1>20, <1>21, PushFrame
<1>27. Sends("pull")
  <2>1. Size("pull") = s /\ Size("pull")' = s
    BY <1>2, <1>3 DEF Size, s
  <2>2. (put["pull"] - got["pull"]) % s = Dist(f, e, s)
    <3>1. put["pull"] = e /\ got["pull"] = f
      BY <1>8, <1>9, <1>10 DEF PullFlow
    <3>2. e \in 0 .. s - 1 /\ f \in 0 .. s - 1
      BY <1>4, <1>5, <1>6, <1>8
    <3>. QED
      BY <3>1, <3>2, <1>4, DistIsMod
  <2>3. 1 \in 1 .. s
    BY <1>4
  <2>4. /\ ((put["pull"] - got["pull"]) % s) + 1 < s
        /\ put'["pull"] = (put["pull"] + 1) % s
    BY <2>2, <1>8, <1>12, <1>21
  <2>. QED
    BY <2>1, <2>3, <2>4, <1>3, <1>4 DEF Sends
<1>28. Rests("push")
  <2>1. got'["push"] = got["push"] /\ put'["push"] = put["push"] /\ mmd'["push"] = mmd["push"]
    BY <1>3, <1>21
  <2>. QED
    BY <2>1 DEF Rests, Size
<1>. QED
  BY <1>24, <1>25, <1>26, <1>27, <1>28 DEF RingsInv

-----------------------------------------------------------------------------
(* Every step *)

\* Nothing is open at first.
LEMMA RingsInit == Init => RingsInv
<1>. SUFFICES ASSUME Init PROVE RingsInv
  OBVIOUS
<1>1. /\ host = User /\ mmd = [c \in Channels |-> NoChannel] /\ ring = [b \in Buffers |-> NoRing]
      /\ drv = [c \in Channels |-> [valid |-> FALSE, buf |-> NoBuf, seen |-> 0]]
      /\ pinned = {} /\ board = [c \in Channels |-> ShutOff]
      /\ put = [c \in Channels |-> 0] /\ got = [c \in Channels |-> 0]
  BY DEF Init
<1>2. PICK m : m = NoChannel
  OBVIOUS
<1>3. m \in MmdRecords /\ ~ m.valid /\ m.buf = NoBuf
  BY <1>2, Rooms DEF NoChannel, MmdRecords
<1>4. PICK r : r = NoRing
  OBVIOUS
<1>5. r \in RingRecords /\ r.size = 0
  BY <1>4, Rooms, CellsFit DEF NoRing, RingRecords
<1>6. PICK d : d = [valid |-> FALSE, buf |-> NoBuf, seen |-> 0]
  OBVIOUS
<1>7. d \in DrvRecords /\ ~ d.valid /\ d.buf = NoBuf
  BY <1>6, Rooms DEF DrvRecords
<1>8. PICK e : e = ShutOff
  OBVIOUS
<1>9. e \in BoardRecords /\ ~ e.control /\ e.buf = NoBuf
  BY <1>8, Rooms DEF ShutOff, BoardRecords
<1>10. /\ mmd = [c \in Channels |-> m] /\ ring = [b \in Buffers |-> r]
       /\ drv = [c \in Channels |-> d] /\ board = [c \in Channels |-> e]
  BY <1>1, <1>2, <1>4, <1>6, <1>8
<1>11. /\ \A c \in Channels : mmd[c] = m /\ drv[c] = d /\ board[c] = e
       /\ \A b \in Buffers : ring[b] = r
  BY <1>10
<1>12. User \in Calls
  BY DEF Calls
<1>13. Fields
  <2>1. mmd \in [Channels -> MmdRecords] /\ ring \in [Buffers -> RingRecords]
    BY <1>3, <1>5, <1>10
  <2>2. drv \in [Channels -> DrvRecords] /\ board \in [Channels -> BoardRecords]
    BY <1>7, <1>9, <1>10
  <2>3. put \in [Channels -> Positions] /\ got \in [Channels -> 0 .. MaxUnits]
    BY <1>1, Rooms
  <2>. QED
    BY <2>1, <2>2, <2>3, <1>1, <1>12 DEF Fields
<1>14. RingInv
  BY <1>5, <1>11 DEF RingInv
<1>15. ASSUME NEW c \in Channels PROVE HoldOK(c) /\ PinOK(c) /\ BoardOK(c)
  <2>1. /\ host # <<"create", c>> /\ host \notin {<<"flush", c>>, <<"free", c>>}
    BY <1>1, CallsApart
  <2>2. HoldOK(c)
    BY <2>1, <1>3, <1>11 DEF HoldOK, Held
  <2>3. PinOK(c) /\ BoardOK(c)
    BY <1>1, <1>7, <1>9, <1>11, BuffersOf DEF PinOK, BoardOK
  <2>. QED
    BY <2>2, <2>3
<1>16. PushOK /\ PullOK
  BY <1>3, <1>11 DEF PushOK, PullOK, Channels
<1>. QED
  BY <1>13, <1>14, <1>15, <1>16 DEF RingsInv, Structure

\* What the steps of opening and closing do to a stream.
LEMMA CreateRests ==
  ASSUME RingsInv, NEW c \in Channels, NEW n \in Asked[c], CreateChannel(c, n), NEW d \in Channels
  PROVE  Rests(d)
<1>1. Structure
  BY DEF RingsInv
<1>2. /\ ~ mmd[c].valid /\ ~ mmd'[c].valid /\ put' = put /\ got' = got
      /\ d # c => mmd'[d] = mmd[d]
  BY <1>1, CreateFields
<1>. QED
  BY <1>2 DEF Rests, Size

LEMMA DriverCreateOpens ==
  ASSUME RingsInv, NEW c \in Channels, DriverCreate(c), NEW d \in Channels
  PROVE  IF d = c THEN Opens(d) ELSE Rests(d)
<1>1. Structure /\ HoldOK(c)
  BY DEF RingsInv, Structure
<1>2. /\ host = <<"create", c>> /\ mmd'[c].valid /\ mmd'[c].size = mmd[c].size
      /\ put'[c] = 0 /\ got'[c] = 0
      /\ d # c => mmd'[d] = mmd[d] /\ put'[d] = put[d] /\ got'[d] = got[d]
  BY <1>1, DriverCreateFields
<1>3. ~ mmd[c].valid /\ mmd[c].size \in Sizes(c)
  BY <1>1, <1>2 DEF HoldOK, Held
<1>. QED
  BY <1>2, <1>3 DEF Rests, Opens, Size

LEMMA FreeShuts ==
  ASSUME RingsInv, NEW c \in Channels, FreeChannel(c), NEW d \in Channels
  PROVE  IF d = c THEN Shuts(d) ELSE Rests(d)
<1>1. Structure
  BY DEF RingsInv
<1>2. /\ mmd[c].valid /\ ~ mmd'[c].valid /\ put'[c] = 0 /\ got'[c] = 0
      /\ d # c => mmd'[d] = mmd[d] /\ put'[d] = put[d] /\ got'[d] = got[d]
  BY <1>1, FreeFields
<1>3. mmd[c].size > 0
  <2>1. mmd[c].size \in 1 .. MaxUnits
    BY <1>1, <1>2, HeldRing DEF Held
  <2>. QED
    BY <2>1, Rooms
<1>. QED
  BY <1>2, <1>3 DEF Rests, Shuts, Size

\* The steps in which no channel is opened, closed or used.
LEMMA CalmSteps ==
  ASSUME \/ \E c \in Channels : Flushed(c)
         \/ SyncThread \/ StartTransfer
         \/ WqPollAgain \/ WqGiveUp \/ WqNothing \/ WqTransfer
         \/ EngineDone \/ Crashed \/ UNCHANGED vars
  PROVE  Calm
<1>1. ASSUME NEW c \in Channels, Flushed(c) PROVE Calm
  BY <1>1 DEF Flushed, Calm, hostVars, drvVars, wqVars, dataVars
<1>2. CASE SyncThread
  BY <1>2 DEF SyncThread, Calm, hostVars, drvVars, wqVars, dataVars
<1>3. CASE StartTransfer
  BY <1>3 DEF StartTransfer, Calm, hostVars, drvVars, wqVars, dataVars
<1>4. CASE WqPollAgain \/ WqGiveUp \/ WqNothing \/ WqTransfer
  BY <1>4 DEF WqPollAgain, WqGiveUp, WqNothing, WqTransfer, Calm, hostVars, drvVars, wqVars, dataVars
<1>5. CASE EngineDone
  BY <1>5 DEF EngineDone, Calm, hostVars, drvVars, wqVars, dataVars
<1>6. CASE Crashed \/ UNCHANGED vars
  BY <1>6 DEF Crashed, vars, Calm, hostVars, drvVars, wqVars, dataVars
<1>. QED
  BY <1>1, <1>2, <1>3, <1>4, <1>5, <1>6

\* Every step keeps the invariant, and is a step of both streams.
LEMMA RingsNext ==
  ASSUME RingsInv, [Next]_vars
  PROVE  RingsInv' /\ StreamStep("push") /\ StreamStep("pull")
<1>0. "push" \in Channels /\ "pull" \in Channels /\ \A c \in Channels : c = "push" \/ c = "pull"
  BY DEF Channels
<1>1. ASSUME NEW c \in Channels, NEW n \in Asked[c], CreateChannel(c, n)
      PROVE  RingsInv' /\ StreamStep("push") /\ StreamStep("pull")
  BY <1>0, <1>1, CreateKeeps, CreateRests DEF StreamStep
<1>2. ASSUME NEW c \in Channels, DriverCreate(c)
      PROVE  RingsInv' /\ StreamStep("push") /\ StreamStep("pull")
  BY <1>0, <1>2, DriverCreateKeeps, DriverCreateOpens DEF StreamStep
<1>3. ASSUME NEW c \in Channels, AckBuffer(c)
      PROVE  RingsInv' /\ StreamStep("push") /\ StreamStep("pull")
  <2>1. CASE c = "push"
    BY <2>1, <1>3, AckPushKeeps DEF StreamStep
  <2>2. CASE c = "pull"
    BY <2>2, <1>3, AckPullKeeps DEF StreamStep
  <2>. QED
    BY <2>1, <2>2, <1>0
<1>4. ASSUME NEW c \in Channels, DestroyChannel(c)
      PROVE  RingsInv' /\ StreamStep("push") /\ StreamStep("pull")
  <2>1. mmd' = mmd /\ put' = put /\ got' = got
    BY <1>4 DEF DestroyChannel, dataVars
  <2>. QED
    BY <2>1, <1>4, DestroyKeeps DEF StreamStep, Rests, Size
<1>5. ASSUME NEW c \in Channels, FreeChannel(c)
      PROVE  RingsInv' /\ StreamStep("push") /\ StreamStep("pull")
  BY <1>0, <1>5, FreeKeeps, FreeShuts DEF StreamStep
<1>6. CASE CloseDevice
  <2>1. mmd' = mmd /\ put' = put /\ got' = got
    BY <1>6 DEF CloseDevice, dataVars
  <2>. QED
    BY <2>1, <1>6, CloseKeeps DEF StreamStep, Rests, Size
<1>7. ASSUME NEW n \in Chunks, GetPush(n)
      PROVE  RingsInv' /\ StreamStep("push") /\ StreamStep("pull")
  BY <1>7, GetPushKeeps DEF StreamStep
<1>8. ASSUME NEW n \in Chunks, GetPull(n)
      PROVE  RingsInv' /\ StreamStep("push") /\ StreamStep("pull")
  BY <1>8, GetPullKeeps DEF StreamStep
<1>9. CASE WqLook
  BY <1>9, LookKeeps DEF StreamStep
<1>10. CASE BoardFetch
  BY <1>10, FetchKeeps DEF StreamStep
<1>11. CASE BoardStore
  BY <1>11, StoreKeeps DEF StreamStep
<1>12. ASSUME \/ \E c \in Channels : Flushed(c)
              \/ SyncThread \/ StartTransfer
              \/ WqPollAgain \/ WqGiveUp \/ WqNothing \/ WqTransfer
              \/ EngineDone \/ Crashed \/ UNCHANGED vars
       PROVE  RingsInv' /\ StreamStep("push") /\ StreamStep("pull")
  <2>1. Calm
    BY <1>12, CalmSteps
  <2>. QED
    BY <2>1, CalmKeeps DEF StreamStep, Rests, Size, Calm
<1>. QED
  BY <1>1, <1>2, <1>3, <1>4, <1>5, <1>6, <1>7, <1>8, <1>9, <1>10, <1>11, <1>12
     DEF Next, Host, WorkItem, Board

-----------------------------------------------------------------------------
(* The polling *)

Scalars ==
  /\ opens \in 0 .. MaxOpens /\ mmdSync \in BOOLEAN /\ drvSync \in BOOLEAN /\ sync \in BOOLEAN
  /\ loop \in 0 .. LoopMax /\ work \in BOOLEAN /\ wq \in {"idle", "decide"}
  /\ xfer \in {"none", "asked", "board", "copied"}

\* While the driver has the word and a channel, and has not run its counter
\* down, the word is cleared or the work item is on its way.
PollInv == drvSync /\ AnyOpen /\ sync /\ loop # 0 => work \/ wq = "decide" \/ ~ Idle

LEMMA CountsDown ==
  ASSUME NEW n \in 0 .. LoopMax
  PROVE  Max({0, n - 1}) \in 0 .. LoopMax
<1>1. CASE n = 0
  BY <1>1, ChannelAssumption DEF Max
<1>2. CASE n # 0
  BY <1>2, ChannelAssumption DEF Max
<1>. QED
  BY <1>1, <1>2

\* The counter never leaves its range.
LEMMA LoopBounds == loop \in 0 .. LoopMax => CountedDown \in 0 .. LoopMax /\ LoopMax \in 0 .. LoopMax /\ 0 \in 0 .. LoopMax
<1>. SUFFICES ASSUME loop \in 0 .. LoopMax PROVE CountedDown \in 0 .. LoopMax /\ LoopMax \in 0 .. LoopMax /\ 0 \in 0 .. LoopMax
  OBVIOUS
<1>1. LoopMax \in 0 .. LoopMax /\ 0 \in 0 .. LoopMax
  BY ChannelAssumption
<1>2. PICK a : a = IF ~ Looks("pull") THEN loop
                   ELSE IF Changed("pull") THEN LoopMax ELSE Max({0, loop - 1})
  OBVIOUS
<1>3. a \in 0 .. LoopMax
  BY <1>1, <1>2, CountsDown
<1>4. CountedDown = IF ~ Looks("push") THEN a ELSE IF Changed("push") THEN LoopMax ELSE Max({0, a - 1})
  BY <1>2, Zenon DEF CountedDown
<1>. QED
  BY <1>1, <1>3, <1>4, CountsDown

\* The flags and counters keep their types.
LEMMA ScalarsNext ==
  ASSUME Scalars, [Next]_vars
  PROVE  Scalars'
<1>0. loop \in 0 .. LoopMax /\ LoopMax \in 0 .. LoopMax /\ 0 \in 0 .. LoopMax /\ CountedDown \in 0 .. LoopMax
  BY LoopBounds DEF Scalars
<1>1. ASSUME NEW c \in Channels, NEW n \in Asked[c], CreateChannel(c, n) PROVE Scalars'
  <2>1. /\ opens' = opens + 1 /\ opens < MaxOpens /\ mmdSync' = TRUE
        /\ \/ drvSync' = drvSync /\ sync' = sync /\ loop' = loop
           \/ drvSync' = TRUE /\ sync' = FALSE /\ loop' = LoopMax
        /\ work' = work /\ wq' = wq /\ xfer' = xfer
    BY <1>1 DEF CreateChannel, LaunchSyncThread, NewSyncWord, wqVars
  <2>2. opens' \in 0 .. MaxOpens
    BY <2>1, ChannelAssumption DEF Scalars
  <2>. QED
    BY <1>0, <2>1, <2>2 DEF Scalars
<1>2. ASSUME NEW c \in Channels, DriverCreate(c) PROVE Scalars'
  BY <1>2 DEF DriverCreate, Scalars
<1>3. ASSUME NEW c \in Channels, AckBuffer(c) \/ Flushed(c) PROVE Scalars'
  BY <1>3 DEF AckBuffer, Flushed, Scalars, drvVars, wqVars
<1>4. ASSUME NEW c \in Channels, DestroyChannel(c) PROVE Scalars'
  <2>1. /\ opens' = opens /\ mmdSync' = mmdSync /\ sync' = sync /\ loop' = loop
        /\ drvSync' = drvSync \/ drvSync' = (drvSync /\ drv[Other(Destroyed(c))].valid)
        /\ work' = work /\ wq' = wq /\ xfer' = xfer
    BY <1>4 DEF DestroyChannel, Released, wqVars
  <2>. QED
    BY <2>1 DEF Scalars
<1>5. ASSUME NEW c \in Channels, FreeChannel(c) PROVE Scalars'
  BY <1>5 DEF FreeChannel, DestroySyncThread, Scalars, drvVars, wqVars
<1>6. CASE CloseDevice
  <2>1. /\ opens' = 0 /\ drvSync' = FALSE /\ mmdSync' = mmdSync /\ sync' = sync /\ loop' = loop
        /\ work' = work /\ wq' = wq /\ xfer' = xfer
    BY <1>6 DEF CloseDevice, wqVars
  <2>2. 0 \in 0 .. MaxOpens
    BY ChannelAssumption
  <2>. QED
    BY <2>1, <2>2 DEF Scalars
<1>7. ASSUME NEW n \in Chunks, GetPush(n) \/ GetPull(n) PROVE Scalars'
  BY <1>7 DEF GetPush, GetPull, Scalars, drvVars, wqVars
<1>8. CASE SyncThread
  BY <1>0, <1>8 DEF SyncThread, Scalars
<1>9. CASE StartTransfer
  BY <1>9 DEF StartTransfer, Scalars, hostVars, drvVars
<1>10. CASE WqLook
  BY <1>0, <1>10 DEF WqLook, Scalars, hostVars
<1>11. CASE WqPollAgain \/ WqGiveUp \/ WqNothing
  BY <1>11 DEF WqPollAgain, WqGiveUp, WqNothing, Scalars, hostVars, drvVars
<1>12. CASE WqTransfer
  <2>1. /\ xfer' \in {"none", "board"} /\ wq' = "idle" /\ work' \in BOOLEAN
        /\ opens' = opens /\ mmdSync' = mmdSync /\ drvSync' = drvSync /\ sync' = sync /\ loop' = loop
    BY <1>12 DEF WqTransfer, hostVars, drvVars, Scalars
  <2>. QED
    BY <2>1 DEF Scalars
<1>13. CASE Board
  BY <1>13 DEF Board, BoardFetch, BoardStore, EngineDone, Scalars, hostVars, drvVars, wqVars
<1>14. CASE Crashed \/ UNCHANGED vars
  BY <1>14 DEF Crashed, vars, Scalars, hostVars, drvVars, wqVars
<1>. QED
  BY <1>1, <1>2, <1>3, <1>4, <1>5, <1>6, <1>7, <1>8, <1>9, <1>10, <1>11, <1>12, <1>13, <1>14
     DEF Next, Host, WorkItem

\* Every step keeps polling on its way.
LEMMA PollNext ==
  ASSUME Scalars, Structure, PollInv, [Next]_vars
  PROVE  PollInv'
<1>0. /\ loop \in Nat /\ xfer \in {"none", "asked", "board", "copied"}
      /\ drv \in [Channels -> DrvRecords] /\ "push" \in Channels /\ "pull" \in Channels
      /\ \A c \in Channels : c = "push" \/ c = "pull"
  BY DEF Scalars, Structure, Fields, Channels
<1>1. ASSUME NEW c \in Channels, NEW n \in Asked[c], CreateChannel(c, n) PROVE PollInv'
  <2>1. /\ \/ drvSync' = drvSync /\ sync' = sync /\ loop' = loop
           \/ sync' = FALSE
        /\ drv' = drv /\ work' = work /\ wq' = wq /\ xfer' = xfer
    BY <1>1 DEF CreateChannel, LaunchSyncThread, NewSyncWord, wqVars
  <2>. QED
    BY <2>1 DEF PollInv, AnyOpen, Idle
<1>2. ASSUME NEW c \in Channels, DriverCreate(c) PROVE PollInv'
  <2>1. /\ drvSync' = drvSync /\ sync' = sync /\ loop' = loop /\ wq' = wq /\ xfer' = xfer
        /\ \/ drv' = drv /\ work' = work
           \/ ~ drv[c].valid /\ work' = (work \/ (~ drv[Other(c)].valid /\ Idle))
    BY <1>2 DEF DriverCreate
  <2>2. CASE drv' = drv /\ work' = work
    BY <2>1, <2>2 DEF PollInv, AnyOpen, Idle
  <2>3. CASE ~ drv[c].valid /\ work' = (work \/ (~ drv[Other(c)].valid /\ Idle))
    <3>1. AnyOpen <=> drv[Other(c)].valid
      BY <1>0, <2>3, OtherChannel DEF AnyOpen
    <3>. QED
      BY <2>1, <2>3, <3>1 DEF PollInv, Idle
  <2>. QED
    BY <2>1, <2>2, <2>3
<1>3. ASSUME NEW c \in Channels, AckBuffer(c) \/ Flushed(c) \/ FreeChannel(c) PROVE PollInv'
  BY <1>3 DEF AckBuffer, Flushed, FreeChannel, PollInv, AnyOpen, Idle, drvVars, wqVars
<1>4. ASSUME NEW c \in Channels, DestroyChannel(c) PROVE PollInv'
  <2>1. Destroyed(c) \in Channels
    BY OtherChannel DEF Destroyed
  <2>2. /\ sync' = sync /\ loop' = loop /\ work' = work /\ wq' = wq /\ xfer' = xfer
        /\ \/ drv' = drv /\ drvSync' = drvSync
           \/ /\ drvSync' = (drvSync /\ drv[Other(Destroyed(c))].valid)
              /\ drv' = [drv EXCEPT ![Destroyed(c)].valid = FALSE, ![Destroyed(c)].buf = NoBuf]
    BY <1>4 DEF DestroyChannel, Released, wqVars
  <2>3. drvSync' => drvSync
    BY <2>2
  <2>4. AnyOpen' => AnyOpen
    <3>1. \A d \in Channels : drv'[d].valid => drv[d].valid
      <4>1. PICK e \in Channels : e = Destroyed(c)
        BY <2>1
      <4>2. drv' = drv \/ drv' = [drv EXCEPT ![e].valid = FALSE, ![e].buf = NoBuf]
        BY <2>2, <4>1
      <4>3. PICK x : x = drv[e]
        OBVIOUS
      <4>4. PICK y : y = [x EXCEPT !.valid = FALSE, !.buf = NoBuf]
        OBVIOUS
      <4>5. ~ y.valid
        BY <1>0, <4>3, <4>4 DEF DrvRecords
      <4>6. drv' = drv \/ drv' = [drv EXCEPT ![e] = y]
        BY <4>2, <4>3, <4>4
      <4>. QED
        BY <1>0, <4>5, <4>6
    <3>. QED
      BY <1>0, <3>1 DEF AnyOpen
  <2>. QED
    BY <2>2, <2>3, <2>4 DEF PollInv, Idle
<1>5. CASE CloseDevice
  BY <1>5 DEF CloseDevice, PollInv
<1>6. ASSUME NEW n \in Chunks, GetPush(n) \/ GetPull(n) PROVE PollInv'
  BY <1>6 DEF GetPush, GetPull, PollInv, AnyOpen, Idle, drvVars, wqVars
<1>7. CASE SyncThread
  BY <1>7 DEF SyncThread, PollInv, AnyOpen, Idle
<1>8. CASE StartTransfer \/ WqLook \/ WqPollAgain \/ EngineDone
  BY <1>8 DEF StartTransfer, WqLook, WqPollAgain, EngineDone, PollInv
<1>9. CASE WqGiveUp \/ WqNothing
  BY <1>9 DEF WqGiveUp, WqNothing, PollInv, AnyOpen, Idle, drvVars
<1>10. CASE WqTransfer
  <2>1. /\ xfer # "none" /\ drvSync' = drvSync /\ drv' = drv /\ sync' = sync /\ loop' = loop
        /\ xfer' = CASE xfer = "asked" -> "board" [] xfer = "board" -> "board" [] OTHER -> "none"
        /\ work' = (work \/ (xfer = "copied" /\ AnyOpen /\ drvSync /\ loop > 0))
    BY <1>10 DEF WqTransfer, drvVars, Idle
  <2>2. CASE xfer = "copied"
    <3>1. AnyOpen' = AnyOpen
      BY <2>1 DEF AnyOpen
    <3>2. loop # 0 => loop > 0
      BY <1>0
    <3>3. drvSync /\ AnyOpen /\ loop > 0 => work'
      BY <2>1, <2>2
    <3>. QED
      BY <2>1, <3>1, <3>2, <3>3, Zenon DEF PollInv
  <2>3. CASE xfer # "copied"
    <3>1. xfer' = "board"
      BY <1>0, <2>1, <2>3
    <3>. QED
      BY <3>1 DEF PollInv, Idle
  <2>. QED
    BY <2>2, <2>3
<1>11. CASE BoardFetch \/ BoardStore
  BY <1>11 DEF BoardFetch, BoardStore, PollInv, AnyOpen, Idle, drvVars, wqVars
<1>12. CASE Crashed \/ UNCHANGED vars
  BY <1>12 DEF Crashed, vars, PollInv, AnyOpen, Idle, hostVars, drvVars, wqVars
<1>. QED
  BY <1>1, <1>2, <1>3, <1>4, <1>5, <1>6, <1>7, <1>8, <1>9, <1>10, <1>11, <1>12
     DEF Next, Host, WorkItem, Board

-----------------------------------------------------------------------------
(* Theorems *)

IndInv == RingsInv /\ Scalars /\ PollInv

\* The invariant holds always.
LEMMA Inductive == Spec => []IndInv
<1>1. Init => IndInv
  <2>. SUFFICES ASSUME Init PROVE IndInv
    OBVIOUS
  <2>1. Scalars
    <3>1. 0 \in 0 .. MaxOpens /\ 0 \in 0 .. LoopMax
      BY ChannelAssumption
    <3>2. /\ opens = 0 /\ mmdSync = FALSE /\ drvSync = FALSE /\ sync = FALSE /\ loop = 0
          /\ work = FALSE /\ wq = "idle" /\ xfer = "none"
      BY DEF Init
    <3>. QED
      BY <3>1, <3>2 DEF Scalars
  <2>2. PollInv
    BY Zenon DEF Init, PollInv
  <2>. QED
    BY <2>1, <2>2, RingsInit DEF IndInv
<1>2. IndInv /\ [Next]_vars => IndInv'
  <2>. SUFFICES ASSUME IndInv, [Next]_vars PROVE IndInv'
    OBVIOUS
  <2>1. RingsInv /\ Scalars /\ PollInv /\ Structure
    BY DEF IndInv, RingsInv
  <2>. QED
    BY <2>1, RingsNext, ScalarsNext, PollNext DEF IndInv
<1>. QED
  BY <1>1, <1>2, PTL DEF Spec

\* Every pointer of MMD, driver and board stays inside its ring, and what the
\* program is given to fill or to read does not run over the end.
THEOREM ChannelTypeCorrect == Spec => []TypeOK
<1>1. IndInv => TypeOK
  <2>. SUFFICES ASSUME IndInv PROVE TypeOK
    OBVIOUS
  <2>1. Structure /\ Scalars /\ Fields
    BY DEF IndInv, RingsInv, Structure
  <2>2. ASSUME NEW c \in Channels
        PROVE  /\ mmd[c].valid => /\ mmd[c].buf \in Buffers /\ mmd[c].size \in 1 .. MaxUnits
                                  /\ mmd[c].local \in 0 .. mmd[c].size - 1
                                  /\ mmd[c].local + mmd[c].offer <= mmd[c].size
               /\ drv[c].valid => drv[c].buf \in Buffers
               /\ board[c].buf # NoBuf => board[c].own < ring[board[c].buf].size
               /\ drv[c].seen \in 0 .. MaxUnits - 1
    <3>1. mmd[c].valid => /\ mmd[c].buf \in Buffers /\ mmd[c].size \in 1 .. MaxUnits
                          /\ mmd[c].local \in 0 .. mmd[c].size - 1
                          /\ mmd[c].local + mmd[c].offer <= mmd[c].size
      <4>. SUFFICES ASSUME mmd[c].valid
                    PROVE  /\ mmd[c].buf \in Buffers /\ mmd[c].size \in 1 .. MaxUnits
                           /\ mmd[c].local \in 0 .. mmd[c].size - 1
                           /\ mmd[c].local + mmd[c].offer <= mmd[c].size
        OBVIOUS
      <4>1. /\ mmd[c].buf \in Buffers /\ mmd[c].size \in 1 .. MaxUnits
            /\ mmd[c].local \in 0 .. mmd[c].size - 1 /\ mmd[c].offer \in 0 .. mmd[c].size - mmd[c].local
        BY <2>1, HeldRing DEF Held
      <4>2. mmd[c].local + mmd[c].offer <= mmd[c].size
        BY <4>1, Rooms
      <4>. QED
        BY <4>1, <4>2
    <3>2. PinOK(c) /\ BoardOK(c)
      BY <2>1 DEF Structure
    <3>3. drv[c].valid => drv[c].buf \in Buffers
      BY <3>2, BuffersOf DEF PinOK
    <3>4. board[c].buf # NoBuf => board[c].own < ring[board[c].buf].size
      BY <3>2 DEF PinOK, BoardOK
    <3>5. drv[c].seen \in 0 .. MaxUnits - 1
      BY <2>1 DEF Fields, DrvRecords, Positions
    <3>. QED
      BY <3>1, <3>3, <3>4, <3>5
  <2>3. \A c \in Channels : put[c] \in 0 .. Blank - 1 /\ got[c] \in 0 .. Blank
    BY <2>1 DEF Fields, Positions, Blank
  <2>4. host \in {User, <<"sync">>, <<"crashed">>} \cup ({"create", "flush", "free"} \X Channels)
    BY <2>1 DEF Fields, Calls
  <2>5. pinned \subseteq Buffers
    BY <2>1 DEF Fields
  <2>. QED
    BY <2>1, <2>2, <2>3, <2>4, <2>5 DEF Scalars, TypeOK
<1>. QED
  BY <1>1, Inductive, PTL

\* A channel that the board still runs has its pages pinned: closing either
\* channel, in either order, never leaves the board on memory that was freed.
THEOREM BoardStaysPinned == Spec => []BoardUsesPinned
<1>1. IndInv => BoardUsesPinned
  BY RunsPinned DEF IndInv, RingsInv, BoardUsesPinned
<1>. QED
  BY <1>1, Inductive, PTL

\* The word by which the MMD learns that the driver no longer looks is cleared
\* whenever polling stops early: nothing is left waiting in a ring.
THEOREM PollingGoesOn == Spec => []PollsUntilIdle
<1>1. IndInv => PollsUntilIdle
  BY DEF IndInv, PollInv, PollsUntilIdle, Quiet
<1>. QED
  BY <1>1, Inductive, PTL

\* What RingsNext shows of a step is what HostStream asks of one.
LEMMA StepsOfStream ==
  /\ StreamStep("push") => [PushStream!Next]_(PushStream!streamVars)
  /\ StreamStep("pull") => [PullStream!Next]_(PullStream!streamVars)
BY DEF StreamStep, Rests, Opens, Shuts, Sends, Receives, Sizes,
       PushStream!Next, PushStream!streamVars, PushStream!Open, PushStream!Send, PushStream!Receive,
       PushStream!Close, PushStream!OnTheWay,
       PullStream!Next, PullStream!streamVars, PullStream!Open, PullStream!Send, PullStream!Receive,
       PullStream!Close, PullStream!OnTheWay

\* Both directions deliver the units they were given, in order, and never have
\* more on the way than the ring holds.
THEOREM ChannelsAreStreams == Spec => ImplementsStreams
<1>1. Init => PushStream!Init /\ PullStream!Init
  BY DEF Init, NoChannel, Size, Channels, PushStream!Init, PullStream!Init
<1>2. IndInv /\ [Next]_vars => /\ [PushStream!Next]_(PushStream!streamVars)
                               /\ [PullStream!Next]_(PullStream!streamVars)
  BY RingsNext, StepsOfStream DEF IndInv
<1>. QED
  BY <1>1, <1>2, Inductive, PTL DEF Spec, ImplementsStreams, PushStream!Spec, PullStream!Spec
==============================================================================
