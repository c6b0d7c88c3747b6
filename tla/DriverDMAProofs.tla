-------------------------- MODULE DriverDMAProofs --------------------------
(***************************************************************************)
(* Theorems about the driver's DMA.                                        *)
(*                                                                         *)
(* Whatever the program does, an idle driver has given every page back     *)
(* (NothingStaysPinned): pins are counted page by page in the three        *)
(* buffers (PinInv).                                                       *)
(*                                                                         *)
(* For a program that opens no host channel and always waits for its       *)
(* transfers in the same way (Plain), the completion of a transfer is in   *)
(* one place at a time (Control, Events), and the buffers, the table and   *)
(* the record are about the same place of the transfer (Known, from the    *)
(* arithmetic of Walks, PieceWalks and PagesWalk).  Then the board reads   *)
(* pinned pages only, every unit is sent once and in order, a driver that  *)
(* answers idle has copied all, and the whole is a HostTransfer.  Plain    *)
(* excludes what the MMD does when copy_block polls between transfers with *)
(* an event, and what sync_thread does to the work item: there TLC finds   *)
(* each of these violated (runs dma_event and dma_poll).                   *)
(***************************************************************************)
EXTENDS DriverDMA, WellFoundedInduction, TLAPS

-----------------------------------------------------------------------------
(* Arithmetic of pages *)

\* What the constants say about pages, tables and stretches
LEMMA Sizes ==
  /\ PageUnits \in Nat /\ PageUnits > 1 /\ TableSize \in Nat /\ TableSize > 0
  /\ PagesLocked \in Nat /\ PagesLocked > 1 /\ TableSize - 1 \in Ids /\ Reset \notin Ids
BY WalkAssumption DEF Ids, Reset

\* Quotient and remainder
LEMMA Division ==
  ASSUME NEW x \in Nat, NEW m \in Nat, m > 0
  PROVE  /\ x \div m \in Nat /\ x % m \in 0 .. m - 1 /\ x = (x \div m) * m + (x % m)
OBVIOUS

\* Multiples of a page keep their order.
LEMMA Times ==
  ASSUME NEW a \in Nat, NEW b \in Nat, NEW m \in Nat, m > 0
  PROVE  /\ a * m \in Nat /\ (a + b) * m = a * m + b * m /\ (a + 1) * m = a * m + m
         /\ a <= b => a * m <= b * m
         /\ a < b => a * m + m <= b * m
         /\ a * m < b * m => a < b
<1>1. a * m \in Nat /\ (a + b) * m = a * m + b * m /\ (a + 1) * m = a * m + m
  OBVIOUS
<1>2. ASSUME a < b PROVE a * m + m <= b * m
  <2>1. PICK d \in Nat : b = a + 1 + d
    <3>1. b - a - 1 \in Nat /\ b = a + 1 + (b - a - 1)
      BY <1>2
    <3>. QED
      BY <3>1
  <2>2. b * m = a * m + m + d * m /\ d * m \in Nat
    BY <2>1
  <2>. QED
    BY <1>1, <2>2
<1>3. a <= b => a * m <= b * m
  BY <1>1, <1>2
<1>4. a * m < b * m => a < b
  <2>1. ASSUME b <= a PROVE b * m <= a * m
    <3>1. PICK d \in Nat : a = b + d
      <4>1. a - b \in Nat /\ a = b + (a - b)
        BY <2>1
      <4>. QED
        BY <4>1
    <3>2. a * m = b * m + d * m /\ d * m \in Nat
      BY <3>1
    <3>. QED
      BY <3>2
  <2>2. a * m \in Nat /\ b * m \in Nat
    OBVIOUS
  <2>. QED
    BY <2>1, <2>2
<1>. QED
  BY <1>1, <1>2, <1>3, <1>4

\* A number has one page and one place in it.
LEMMA OnePage ==
  ASSUME NEW q \in Nat, NEW m \in Nat, m > 0, NEW r \in 0 .. m - 1
  PROVE  (q * m + r) \div m = q /\ (q * m + r) % m = r
<1>. DEFINE x == q * m + r
<1>1. x \in Nat /\ q * m \in Nat
  BY Times
<1>2. PICK a \in Nat : a = x \div m
  BY <1>1, Division
<1>3. PICK s \in 0 .. m - 1 : s = x % m /\ x = a * m + s
  BY <1>1, <1>2, Division
<1>4. a * m \in Nat /\ q * m + r = a * m + s
  BY <1>3
<1>5. a = q
  <2>1. ASSUME a < q PROVE FALSE
    <3>1. a * m + m <= q * m
      BY <2>1, Times
    <3>. QED
      BY <3>1, <1>1, <1>3, <1>4
  <2>2. ASSUME q < a PROVE FALSE
    <3>1. q * m + m <= a * m
      BY <2>2, Times
    <3>. QED
      BY <3>1, <1>1, <1>3, <1>4
  <2>. QED
    BY <2>1, <2>2
<1>. QED
  BY <1>1, <1>2, <1>3, <1>4, <1>5

\* A later unit is in the same or a later page.
LEMMA LaterPage ==
  ASSUME NEW x \in Nat, NEW y \in Nat, x <= y
  PROVE  PageOf(x) \in Nat /\ PageOf(x) <= PageOf(y)
<1>1. PICK a \in Nat, r \in 0 .. PageUnits - 1 : a = x \div PageUnits /\ x = a * PageUnits + r
  BY Sizes, Division
<1>2. PICK b \in Nat, s \in 0 .. PageUnits - 1 : b = y \div PageUnits /\ y = b * PageUnits + s
  BY Sizes, Division
<1>3. ~ b < a
  <2>1. SUFFICES ASSUME b < a PROVE FALSE
    OBVIOUS
  <2>2. b * PageUnits + PageUnits <= a * PageUnits
    BY <2>1, Sizes, Times
  <2>3. a * PageUnits \in Nat /\ b * PageUnits \in Nat
    BY Sizes, Times
  <2>. QED
    BY <2>2, <2>3, <1>1, <1>2, Sizes
<1>. QED
  BY <1>1, <1>2, <1>3 DEF PageOf

\* The largest number of a bounded nonempty set
LEMMA GreatestIn ==
  ASSUME NEW n \in Nat, NEW S \in SUBSET (1 .. n), S # {}
  PROVE  \E x \in S : \A y \in S : y <= x
<1>. DEFINE R == {p \in Nat \X Nat : p[1] < p[2]}
            T == {k \in 0 .. n : n - k \in S}
<1>1. IsWellFoundedOn(R, Nat)
  BY NatLessThanWellFounded DEF OpToRel
<1>2. T \in SUBSET Nat /\ T # {}
  <2>1. PICK z \in S : TRUE
    OBVIOUS
  <2>2. n - z \in T
    BY <2>1
  <2>3. T \subseteq Nat
    OBVIOUS
  <2>. HIDE DEF T
  <2>. QED
    BY <2>2, <2>3
<1>3. PICK k \in T : \A j \in T : <<j, k>> \notin R
  <2>. HIDE DEF R, T
  <2>. QED
    BY <1>1, <1>2, WFMin
<1>4. n - k \in S /\ k \in 0 .. n
  BY <1>3
<1>5. ASSUME NEW y \in S PROVE y <= n - k
  <2>1. y \in Nat /\ n - y \in T
    BY <1>5
  <2>2. n - y \in Nat /\ k \in Nat /\ <<n - y, k>> \notin R
    BY <1>3, <2>1, <1>4
  <2>3. ~ n - y < k
    BY <2>2
  <2>. QED
    BY <2>1, <2>2, <2>3
<1>. QED
  BY <1>4, <1>5

\* There is a largest power of two in what is left of a page.
LEMMA PieceFits ==
  ASSUME NEW n \in Nat, n > 0
  PROVE  Piece(n) \in 1 .. n
<1>. DEFINE S == {p \in 1 .. n : PowerOfTwo(p)}
<1>1. 1 \in S
  BY DEF PowerOfTwo
<1>2. PICK x \in S : \A y \in S : y <= x
  <2>. HIDE DEF S
  <2>1. S \in SUBSET (1 .. n)
    BY DEF S
  <2>. QED
    BY <1>1, <2>1, GreatestIn
<1>3. x \in 1 .. n /\ PowerOfTwo(x) /\ \A q \in x + 1 .. n : ~PowerOfTwo(q)
  <2>1. ASSUME NEW q \in x + 1 .. n PROVE ~PowerOfTwo(q)
    <3>1. q \in 1 .. n /\ ~ q <= x
      BY <2>1, <1>2
    <3>. QED
      BY <3>1, <1>2
  <2>. QED
    BY <1>2, <2>1
<1>. QED
  BY <1>3 DEF Piece

-----------------------------------------------------------------------------
(* A pinned stretch while it is sent *)

\* The buffer has come to unit u of a transfer that ends before unit e; with
\* what it still has to send it does not run over that end, and the page put
\* off to the end is the last one of the transfer.
Walks(b, u, e) ==
  /\ b.first \in Nat /\ b.pages \in Nat /\ b.next \in Nat /\ b.rem \in Nat
  /\ b.off \in 0 .. PageUnits - 1 /\ b.partLast \in {0, 1}
  /\ b.first <= b.next /\ b.next + b.rem <= b.first + b.pages /\ b.rem <= b.pages
  /\ b.rem # 0 => u = b.next * PageUnits + b.off
  /\ b.rem # 0 => (b.next + b.rem - b.partLast) * PageUnits <= e
  /\ b.rem # 0 /\ b.partLast = 1 => e < (b.next + b.rem) * PageUnits
  /\ b.rem = 1 /\ b.off # 0 => e <= (b.next + 1) * PageUnits

\* Every unit has a place in a page.
LEMMA PagePlace ==
  ASSUME NEW x \in Nat
  PROVE  \E q \in Nat : \E r \in 0 .. PageUnits - 1 : x = q * PageUnits + r
<1>1. PICK a \in Nat, r \in 0 .. PageUnits - 1 : a = x \div PageUnits /\ x = a * PageUnits + r
  BY Sizes, Division
<1>. QED
  BY <1>1

\* The stretch that lock_size chooses
LEMMA StretchSize ==
  ASSUME NEW remaining \in Nat, remaining > 0, NEW pageLast \in Ids
  PROVE  LET n == LockSize(remaining, pageLast)
         IN  /\ n \in 1 .. remaining
             /\ \/ n = remaining
                \/ \E k \in Nat : k >= PagesLocked /\ n = k * PageUnits
<1>1. CASE remaining > (PagesLocked + TableSize - pageLast) * PageUnits
  <2>1. PICK k \in Nat : k = PagesLocked + TableSize - 1 - pageLast /\ k >= PagesLocked
    <3>1. pageLast \in Nat /\ pageLast <= TableSize - 1
      BY Sizes DEF Ids
    <3>2. PagesLocked + TableSize - 1 - pageLast \in Nat /\ PagesLocked + TableSize - 1 - pageLast >= PagesLocked
      BY <3>1, Sizes
    <3>. QED
      BY <3>2
  <2>2. PagesLocked + TableSize - pageLast = k + 1
    BY <2>1, Sizes DEF Ids
  <2>3. (k + 1) * PageUnits = k * PageUnits + PageUnits /\ k * PageUnits \in Nat
    BY Sizes, Times
  <2>4. 1 * PageUnits <= k * PageUnits
    BY <2>1, Sizes, Times
  <2>5. LockSize(remaining, pageLast) = k * PageUnits
    BY <1>1, <2>1 DEF LockSize
  <2>6. k * PageUnits \in 1 .. remaining
    BY <1>1, <2>2, <2>3, <2>4, Sizes
  <2>. QED
    BY <2>1, <2>5, <2>6
<1>2. CASE ~ remaining > (PagesLocked + TableSize - pageLast) * PageUnits
  BY <1>2 DEF LockSize
<1>. QED
  BY <1>1, <1>2

\* What lock_dma_buffer pins of n units from u on
LEMMA StretchPages ==
  ASSUME NEW u \in Nat, NEW n \in Nat, n > 0, NEW q \in Nat, NEW r \in 0 .. PageUnits - 1,
         NEW f \in Nat, NEW s \in 0 .. PageUnits - 1,
         u = q * PageUnits + r, u + n = f * PageUnits + s
  PROVE  /\ PageOf(u) = q /\ u % PageUnits = r /\ (u + n) % PageUnits = s
         /\ PageOf(u + n - 1) - PageOf(u) + 1 = IF s = 0 THEN f - q ELSE f - q + 1
         /\ q <= f
         /\ s = 0 => q < f
<1>1. PageOf(u) = q /\ u % PageUnits = r /\ (u + n) % PageUnits = s
  <2>1. (q * PageUnits + r) \div PageUnits = q /\ (q * PageUnits + r) % PageUnits = r
    BY Sizes, OnePage
  <2>2. (f * PageUnits + s) % PageUnits = s
    BY Sizes, OnePage
  <2>. QED
    BY <2>1, <2>2 DEF PageOf
<1>2. q <= f
  <2>1. SUFFICES ASSUME f < q PROVE FALSE
    OBVIOUS
  <2>2. f * PageUnits + PageUnits <= q * PageUnits
    BY <2>1, Sizes, Times
  <2>3. f * PageUnits \in Nat /\ q * PageUnits \in Nat
    BY Sizes, Times
  <2>. QED
    BY <2>2, <2>3, Sizes
<1>3. CASE s = 0
  <2>1. q # f
    BY <1>3, Sizes, Times
  <2>2. f - 1 \in Nat /\ f = (f - 1) + 1
    BY <2>1, <1>2
  <2>3. u + n - 1 = (f - 1) * PageUnits + (PageUnits - 1)
    <3>1. f * PageUnits = (f - 1) * PageUnits + PageUnits /\ (f - 1) * PageUnits \in Nat
      BY <2>2, Sizes, Times
    <3>. QED
      BY <3>1, <1>3, Sizes
  <2>4. PageUnits - 1 \in 0 .. PageUnits - 1
    BY Sizes
  <2>5. PageOf(u + n - 1) = f - 1
    BY <2>2, <2>3, <2>4, Sizes, OnePage DEF PageOf
  <2>. QED
    BY <1>1, <1>2, <1>3, <2>1, <2>5
<1>4. CASE s # 0
  <2>1. s - 1 \in 0 .. PageUnits - 1 /\ u + n - 1 = f * PageUnits + (s - 1)
    <3>1. f * PageUnits \in Nat
      BY Sizes, Times
    <3>. QED
      BY <3>1, <1>4, Sizes
  <2>2. PageOf(u + n - 1) = f
    BY <2>1, Sizes, OnePage DEF PageOf
  <2>. QED
    BY <1>1, <1>2, <1>4, <2>2
<1>. QED
  BY <1>3, <1>4

Fields == {"ptr", "first", "pages", "next", "rem", "off", "lastOff", "partLast"}

\* A stretch just pinned, when it becomes the active one
LEMMA BegunWalks ==
  ASSUME NEW u \in Nat, NEW remaining \in Nat, remaining > 0, NEW pageLast \in Ids,
         NEW n, n = LockSize(remaining, pageLast),
         NEW b, b = Begun(Locked(u, n))
  PROVE  /\ DOMAIN b = Fields /\ b.ptr /\ b.rem \in Nat \ {0} /\ Walks(b, u, u + remaining)
         /\ PagesOf(b) = PageOf(u) .. PageOf(u + n - 1)
         /\ n \in 1 .. remaining
<1>1. /\ n \in 1 .. remaining
      /\ n = remaining \/ \E k \in Nat : k >= PagesLocked /\ n = k * PageUnits
  BY StretchSize
<1>2. PICK q \in Nat, r \in 0 .. PageUnits - 1 : u = q * PageUnits + r
  BY PagePlace
<1>3. PICK f \in Nat, s \in 0 .. PageUnits - 1 : u + n = f * PageUnits + s
  <2>1. u + n \in Nat
    BY <1>1
  <2>. QED
    BY <2>1, PagePlace
<1>4. PICK w : w = IF s = 0 THEN f - q ELSE f - q + 1
  OBVIOUS
<1>5. /\ PageOf(u) = q /\ u % PageUnits = r /\ (u + n) % PageUnits = s
      /\ PageOf(u + n - 1) - PageOf(u) + 1 = w /\ q <= f
      /\ s = 0 => q < f
  <2>1. n \in Nat /\ n > 0
    BY <1>1
  <2>. QED
    BY <2>1, <1>2, <1>3, <1>4, StretchPages
<1>6. PageOf(u + n - 1) = q + w - 1
  <2>1. PageOf(u + n - 1) \in Nat
    <3>1. u + n - 1 \in Nat
      BY <1>1
    <3>. QED
      BY <3>1, LaterPage
  <2>. QED
    BY <2>1, <1>4, <1>5
<1>7. w \in Nat /\ w > 0
  BY <1>4, <1>5
<1>8. PICK l : l = [ptr |-> TRUE, first |-> q, pages |-> w, next |-> q, rem |-> w,
                   off |-> r, lastOff |-> s, partLast |-> 0]
  OBVIOUS
<1>9. l = Locked(u, n)
  BY <1>5, <1>8 DEF Locked
<1>10. PICK over : over = (w > PagesLocked)
  OBVIOUS
<1>11. /\ DOMAIN b = Fields /\ b.ptr /\ b.first = q /\ b.pages = w /\ b.next = q /\ b.off = r
       /\ b.partLast = IF s # 0 /\ ~ w > PagesLocked THEN 1 ELSE 0
       /\ b.rem = IF s # 0 /\ w > PagesLocked THEN w - 1 ELSE w
  <2>1. DOMAIN l = Fields /\ l.ptr /\ l.first = q /\ l.pages = w /\ l.next = q /\ l.rem = w /\ l.off = r
        /\ l.lastOff = s
    BY <1>8 DEF Fields
  <2>2. b = [l EXCEPT !.partLast = IF l.lastOff # 0 /\ ~ l.rem > PagesLocked THEN 1 ELSE 0,
                      !.rem = IF l.lastOff # 0 /\ l.rem > PagesLocked THEN l.rem - 1 ELSE l.rem]
    BY <1>9 DEF Begun
  <2>. QED
    BY <2>1, <2>2 DEF Fields
<1>12. PICK m : m = b.rem
  OBVIOUS
<1>13. PICK p : p = b.partLast
  OBVIOUS
<1>14. /\ m \in Nat /\ m > 0 /\ m <= w /\ p \in {0, 1}
       /\ q + m - p = f \/ q + m - p = f + 1
       /\ q + m - p \in Nat /\ q + m - p <= f
       /\ m = 1 => w <= PagesLocked
       /\ p = 1 => q + m = f + 1
       /\ p = 1 => w <= PagesLocked
       /\ p = 1 => s # 0
  BY <1>4, <1>5, <1>7, <1>11, <1>12, <1>13, Sizes
<1>15. ASSUME n # remaining
       PROVE  (r # 0 => w > PagesLocked) /\ s = r /\ w >= PagesLocked
  <2>1. PICK k \in Nat : k >= PagesLocked /\ n = k * PageUnits
    BY <1>1, <1>15
  <2>2. u + n = (q + k) * PageUnits + r
    BY <1>2, <2>1, Sizes, Times
  <2>3. q + k = f /\ r = s
    <3>1. (u + n) \div PageUnits = q + k /\ (u + n) % PageUnits = r
      BY <2>2, Sizes, OnePage
    <3>2. (u + n) \div PageUnits = f /\ (u + n) % PageUnits = s
      BY <1>3, Sizes, OnePage
    <3>. QED
      BY <3>1, <3>2
  <2>. QED
    BY <2>1, <2>3, <1>4, Sizes
<1>16. PICK e \in Nat : e = u + remaining
  OBVIOUS
<1>17. u + n <= e /\ f * PageUnits \in Nat /\ u + n < (f + 1) * PageUnits
  BY <1>1, <1>3, <1>16, Sizes, Times
<1>18. (q + m - p) * PageUnits <= e
  <2>1. (q + m - p) * PageUnits <= f * PageUnits
    BY <1>14, Sizes, Times
  <2>2. (q + m - p) * PageUnits \in Nat
    BY <1>14, Sizes, Times
  <2>. QED
    BY <2>1, <2>2, <1>3, <1>16, <1>17
<1>19. ASSUME p = 1 PROVE e < (q + m) * PageUnits
  <2>1. n = remaining
    <3>1. SUFFICES ASSUME n # remaining PROVE FALSE
      OBVIOUS
    <3>2. (r # 0 => w > PagesLocked) /\ s = r
      BY <3>1, <1>15
    <3>. QED
      BY <3>2, <1>14, <1>19, <1>7, Sizes
  <2>. QED
    BY <2>1, <1>14, <1>16, <1>17, <1>19
<1>20. ASSUME m = 1, r # 0 PROVE e <= (q + 1) * PageUnits
  <2>1. n = remaining
    <3>1. SUFFICES ASSUME n # remaining PROVE FALSE
      OBVIOUS
    <3>2. w > PagesLocked
      BY <3>1, <1>15, <1>20
    <3>. QED
      BY <3>2, <1>14, <1>20, <1>7, Sizes
  <2>2. w = 1
    BY <1>14, <1>20, <1>7, <1>11, <1>12, Sizes
  <2>3. CASE s = 0
    <3>1. f = q + 1
      BY <2>2, <2>3, <1>4, <1>5
    <3>2. f * PageUnits \in Nat
      BY Sizes, Times
    <3>. QED
      BY <3>1, <3>2, <2>1, <2>3, <1>3, <1>16
  <2>4. CASE s # 0
    <3>1. f = q
      BY <2>2, <2>4, <1>4, <1>5
    <3>2. (f + 1) * PageUnits \in Nat
      BY Sizes, Times
    <3>. QED
      BY <3>1, <3>2, <2>1, <1>16, <1>17
  <2>. QED
    BY <2>3, <2>4
<1>21. Walks(b, u, e)
  <2>1. /\ b.first = q /\ b.pages = w /\ b.next = q /\ b.rem = m /\ b.off = r /\ b.partLast = p
    BY <1>11, <1>12, <1>13
  <2>2. q <= q /\ q + m <= q + w /\ m <= w
    BY <1>7, <1>14
  <2>. QED
    BY <2>1, <2>2, <1>2, <1>7, <1>14, <1>18, <1>19, <1>20 DEF Walks
<1>22. b.rem \in Nat \ {0}
  BY <1>12, <1>14
<1>23. PagesOf(b) = PageOf(u) .. PageOf(u + n - 1)
  BY <1>5, <1>6, <1>7, <1>11 DEF PagesOf
<1>. QED
  BY <1>1, <1>11, <1>16, <1>21, <1>22, <1>23

\* A piece of a page that the stretch does not fill
LEMMA PieceWalks ==
  ASSUME NEW u \in Nat, NEW e \in Nat, u < e, NEW b, DOMAIN b = Fields, Walks(b, u, e), b.rem # 0,
         NEW size, size = FirstSize(b, e - u), size \notin {0, PageUnits},
         NEW n, n = Piece(size), NEW c, c = AfterPiece(b, n, size)
  PROVE  /\ DOMAIN c = Fields /\ c.ptr = b.ptr /\ c.first = b.first /\ c.pages = b.pages
         /\ n \in 1 .. e - u /\ Walks(c, u + n, e) /\ u = b.next * PageUnits + b.off
         /\ PageOf(u) >= b.first /\ PageOf(u + n - 1) < b.first + b.pages
<1>1. PICK x \in Nat, o \in 0 .. PageUnits - 1, m \in Nat, p \in {0, 1}, f \in Nat, g \in Nat :
        x = b.next /\ o = b.off /\ m = b.rem /\ p = b.partLast /\ f = b.first /\ g = b.pages
  BY DEF Walks
<1>2. /\ f <= x /\ x + m <= f + g /\ m <= g /\ m # 0 /\ u = x * PageUnits + o
      /\ (x + m - p) * PageUnits <= e
      /\ p = 1 => e < (x + m) * PageUnits
      /\ m = 1 /\ o # 0 => e <= (x + 1) * PageUnits
  BY <1>1 DEF Walks
<1>3. x * PageUnits \in Nat /\ (x + 1) * PageUnits = x * PageUnits + PageUnits
  BY Sizes, Times
<1>4. /\ size \in Nat /\ size > 0 /\ size <= e - u /\ o + size <= PageUnits
      /\ m # 1 => o + size = PageUnits
      /\ m = 1 => size = e - u
  <2>1. CASE m = 1
    <3>1. size = IF e - u > PageUnits THEN PageUnits ELSE e - u
      BY <2>1, <1>1 DEF FirstSize, AtMost
    <3>2. size = e - u /\ size < PageUnits /\ size > 0
      BY <3>1, Sizes
    <3>. QED
      BY <2>1, <3>2, <1>2, <1>3, Sizes
  <2>2. CASE m # 1
    <3>1. size = IF PageUnits - o > PageUnits THEN PageUnits ELSE PageUnits - o
      BY <2>2, <1>1 DEF FirstSize, AtMost
    <3>2. size = PageUnits - o /\ size < PageUnits /\ size > 0
      BY <3>1, Sizes
    <3>3. x + 1 <= x + m - p /\ x + m - p \in Nat
      BY <2>2, <1>2
    <3>4. (x + 1) * PageUnits <= (x + m - p) * PageUnits
      BY <3>3, Sizes, Times
    <3>5. (x + m - p) * PageUnits \in Nat
      BY <3>3, Sizes, Times
    <3>. QED
      BY <2>2, <3>2, <3>4, <3>5, <1>2, <1>3, Sizes
  <2>. QED
    BY <2>1, <2>2
<1>5. n \in 1 .. size
  BY <1>4, PieceFits
<1>6. n \in 1 .. e - u /\ n \in Nat
  BY <1>4, <1>5
<1>7. /\ DOMAIN c = Fields /\ c.ptr = b.ptr /\ c.first = f /\ c.pages = g /\ c.partLast = p
      /\ c.off = IF n = size THEN 0 ELSE o + n
      /\ c.next = IF n = size THEN x + 1 ELSE x
      /\ c.rem = IF n = size THEN m - 1 ELSE m
  <2>1. CASE n = size
    <3>1. c = [b EXCEPT !.off = 0, !.next = b.next + 1, !.rem = b.rem - 1]
      BY <2>1 DEF AfterPiece
    <3>. QED
      BY <2>1, <3>1, <1>1 DEF Fields
  <2>2. CASE n # size
    <3>1. c = [b EXCEPT !.off = b.off + n]
      BY <2>2 DEF AfterPiece
    <3>. QED
      BY <2>2, <3>1, <1>1 DEF Fields
  <2>. QED
    BY <2>1, <2>2
<1>8. Walks(c, u + n, e)
  <2>1. CASE n = size
    <3>1. /\ c.first = f /\ c.pages = g /\ c.partLast = p /\ c.off = 0 /\ c.next = x + 1 /\ c.rem = m - 1
      BY <2>1, <1>7
    <3>2. m - 1 \in Nat /\ 0 \in 0 .. PageUnits - 1 /\ f <= x + 1 /\ x + 1 + (m - 1) <= f + g /\ m - 1 <= g
      BY <1>2, Sizes
    <3>3. ASSUME m - 1 # 0
          PROVE  u + n = (x + 1) * PageUnits + 0
      BY <3>3, <2>1, <1>2, <1>3, <1>4, Sizes
    <3>4. x + 1 + (m - 1) - p = x + m - p /\ x + 1 + (m - 1) = x + m
      OBVIOUS
    <3>. QED
      BY <3>1, <3>2, <3>3, <3>4, <1>2 DEF Walks
  <2>2. CASE n # size
    <3>1. /\ c.first = f /\ c.pages = g /\ c.partLast = p /\ c.off = o + n /\ c.next = x /\ c.rem = m
      BY <2>2, <1>7
    <3>2. o + n \in 0 .. PageUnits - 1
      BY <2>2, <1>4, <1>5, Sizes
    <3>3. u + n = x * PageUnits + (o + n)
      BY <1>2, <1>3, <1>6
    <3>4. m = 1 => e <= (x + 1) * PageUnits
      <4>1. ASSUME m = 1, o = 0 PROVE e <= (x + 1) * PageUnits
        BY <4>1, <1>2, <1>3, <1>4, Sizes
      <4>. QED
        BY <4>1, <1>2
    <3>. QED
      BY <3>1, <3>2, <3>3, <3>4, <1>2 DEF Walks
  <2>. QED
    BY <2>1, <2>2
<1>9. PageOf(u) = x /\ PageOf(u + n - 1) = x
  <2>1. o + n - 1 \in 0 .. PageUnits - 1 /\ u + n - 1 = x * PageUnits + (o + n - 1)
    BY <1>2, <1>3, <1>4, <1>5, Sizes
  <2>2. PageOf(x * PageUnits + o) = x
    BY Sizes, OnePage DEF PageOf
  <2>3. PageOf(x * PageUnits + (o + n - 1)) = x
    BY <2>1, Sizes, OnePage DEF PageOf
  <2>. QED
    BY <2>1, <2>2, <2>3, <1>2
<1>10. x >= f /\ x < f + g
  BY <1>2
<1>. QED
  BY <1>1, <1>2, <1>6, <1>7, <1>8, <1>9, <1>10

\* A table of whole pages
LEMMA PagesWalk ==
  ASSUME NEW u \in Nat, NEW e \in Nat, u < e, NEW b, DOMAIN b = Fields, Walks(b, u, e), b.rem # 0,
         FirstSize(b, e - u) \in {0, PageUnits}, b.rem > b.partLast,
         NEW start \in Ids, NEW k, k = WholePages(b, start), NEW c, c = AfterPages(b, k)
  PROVE  /\ DOMAIN c = Fields /\ c.ptr = b.ptr /\ c.first = b.first /\ c.pages = b.pages
         /\ k * PageUnits \in 1 .. e - u /\ Walks(c, u + k * PageUnits, e)
         /\ u = b.next * PageUnits + b.off /\ start + k - 1 \in Ids
         /\ PageOf(u) >= b.first /\ PageOf(u + k * PageUnits - 1) < b.first + b.pages
<1>1. PICK x \in Nat, o \in 0 .. PageUnits - 1, m \in Nat, p \in {0, 1}, f \in Nat, g \in Nat :
        x = b.next /\ o = b.off /\ m = b.rem /\ p = b.partLast /\ f = b.first /\ g = b.pages
  BY DEF Walks
<1>2. /\ f <= x /\ x + m <= f + g /\ m <= g /\ m # 0 /\ u = x * PageUnits + o /\ m > p
      /\ (x + m - p) * PageUnits <= e
      /\ p = 1 => e < (x + m) * PageUnits
      /\ m = 1 /\ o # 0 => e <= (x + 1) * PageUnits
  BY <1>1 DEF Walks
<1>3. x * PageUnits \in Nat /\ (x + 1) * PageUnits = x * PageUnits + PageUnits
  BY Sizes, Times
<1>4. o = 0
  <2>1. CASE m = 1
    <3>1. (IF e - u > PageUnits THEN PageUnits ELSE e - u) \in {0, PageUnits}
      BY <2>1, <1>1 DEF FirstSize, AtMost
    <3>2. e - u >= PageUnits
      BY <3>1, Sizes
    <3>. QED
      BY <2>1, <3>2, <1>2, <1>3, Sizes
  <2>2. CASE m # 1
    <3>1. (IF PageUnits - o > PageUnits THEN PageUnits ELSE PageUnits - o) \in {0, PageUnits}
      BY <2>2, <1>1 DEF FirstSize, AtMost
    <3>. QED
      BY <3>1, Sizes
  <2>. QED
    BY <2>1, <2>2
<1>5. k = IF m - p > TableSize - start THEN TableSize - start ELSE m - p
  BY <1>1 DEF WholePages, AtMost
<1>6. k \in Nat /\ k >= 1 /\ k <= m - p /\ start + k - 1 \in Ids
  BY <1>2, <1>5, Sizes DEF Ids
<1>7. /\ (x + k) * PageUnits = x * PageUnits + k * PageUnits /\ k * PageUnits \in Nat
      /\ (x + k) * PageUnits <= (x + m - p) * PageUnits /\ 1 * PageUnits <= k * PageUnits
  <2>1. x + m - p \in Nat /\ x + k <= x + m - p /\ x + k \in Nat
    BY <1>2, <1>6
  <2>. QED
    BY <2>1, <1>6, Sizes, Times
<1>8. k * PageUnits \in 1 .. e - u
  <2>1. x + m - p \in Nat
    BY <1>2
  <2>2. (x + m - p) * PageUnits \in Nat
    BY <2>1, Sizes, Times
  <2>. QED
    BY <2>2, <1>2, <1>3, <1>4, <1>7, Sizes
<1>9. /\ DOMAIN c = Fields /\ c.ptr = b.ptr /\ c.first = f /\ c.pages = g /\ c.partLast = p
      /\ c.off = o /\ c.next = x + k /\ c.rem = m - k
  <2>1. c = [b EXCEPT !.next = b.next + k, !.rem = b.rem - k]
    BY DEF AfterPages
  <2>. QED
    BY <2>1, <1>1 DEF Fields
<1>10. Walks(c, u + k * PageUnits, e)
  <2>1. m - k \in Nat /\ x + k \in Nat /\ f <= x + k /\ x + k + (m - k) <= f + g /\ m - k <= g
    BY <1>2, <1>6
  <2>2. x + k + (m - k) - p = x + m - p /\ x + k + (m - k) = x + m
    BY <1>6
  <2>3. u + k * PageUnits = (x + k) * PageUnits + o
    BY <1>2, <1>3, <1>7
  <2>. QED
    BY <2>1, <2>2, <2>3, <1>2, <1>4, <1>9 DEF Walks
<1>11. PageOf(u) = x /\ PageOf(u + k * PageUnits - 1) = x + k - 1
  <2>1. x + k - 1 \in Nat /\ PageUnits - 1 \in 0 .. PageUnits - 1
    BY <1>6, Sizes
  <2>2. (x + k - 1) * PageUnits + PageUnits = (x + k) * PageUnits /\ (x + k - 1) * PageUnits \in Nat
    <3>1. x + k = (x + k - 1) + 1
      BY <1>6
    <3>2. ((x + k - 1) + 1) * PageUnits = (x + k - 1) * PageUnits + PageUnits
      BY <2>1, Sizes, Times
    <3>. QED
      BY <2>1, <3>1, <3>2, Sizes, Times
  <2>3. u + k * PageUnits - 1 = (x + k - 1) * PageUnits + (PageUnits - 1)
    BY <2>2, <1>2, <1>3, <1>4, <1>7, Sizes
  <2>4. PageOf(x * PageUnits + o) = x
    BY Sizes, OnePage DEF PageOf
  <2>5. PageOf((x + k - 1) * PageUnits + (PageUnits - 1)) = x + k - 1
    <3>1. PICK y \in Nat : y = x + k - 1
      BY <2>1
    <3>2. PICK z \in 0 .. PageUnits - 1 : z = PageUnits - 1
      BY <2>1
    <3>3. PageOf(y * PageUnits + z) = y
      BY Sizes, OnePage DEF PageOf
    <3>. QED
      BY <3>1, <3>2, <3>3
  <2>6. u = x * PageUnits + o
    BY <1>2
  <2>. QED
    BY <2>3, <2>4, <2>5, <2>6
<1>12. x >= f /\ x + k - 1 < f + g
  BY <1>2, <1>6
<1>. QED
  BY <1>1, <1>2, <1>6, <1>8, <1>9, <1>10, <1>11, <1>12

\* The next table starts inside the table.
LEMMA StartIdInTable ==
  ASSUME NEW i \in Ids \cup {Reset}
  PROVE  StartId(i) \in Ids
BY Sizes DEF StartId, Ids, Reset

-----------------------------------------------------------------------------
(* The driver's record and its buffers *)

DmaFields == {"idle", "off", "len", "sent", "lastId", "pageLast", "active", "prePinned", "done"}

Records ==
  /\ DOMAIN dma = DmaFields
  /\ DOMAIN dma.active = Fields /\ DOMAIN dma.prePinned = Fields /\ DOMAIN dma.done = Fields

\* The parts of the record that are no buffers
SameTransfer == dma'.off = dma.off /\ dma'.len = dma.len /\ dma'.sent = dma.sent
SameBuffers == dma'.active = dma.active /\ dma'.prePinned = dma.prePinned /\ dma'.done = dma.done

\* The fields of the buffers the model makes
LEMMA DroppedFields ==
  ASSUME NEW b, DOMAIN b = Fields
  PROVE  DOMAIN Dropped(b) = Fields /\ Dropped(b).ptr = FALSE
BY DEF Dropped, Fields

\* ... a stretch that becomes the active buffer
LEMMA BegunFields ==
  ASSUME NEW b, DOMAIN b = Fields
  PROVE  /\ DOMAIN Begun(b) = Fields /\ Begun(b).ptr = b.ptr
         /\ Begun(b).first = b.first /\ Begun(b).pages = b.pages
BY DEF Begun, Fields

\* ... the active buffer after a table
LEMMA AfterFields ==
  ASSUME NEW b, DOMAIN b = Fields, NEW n, NEW size, NEW c, c \in {AfterPiece(b, n, size), AfterPages(b, n)}
  PROVE  /\ DOMAIN c = Fields /\ c.ptr = b.ptr /\ c.first = b.first /\ c.pages = b.pages
<1>1. CASE c = AfterPages(b, n)
  BY <1>1 DEF AfterPages, Fields
<1>2. CASE c = [b EXCEPT !.off = 0, !.next = @ + 1, !.rem = @ - 1]
  BY <1>2 DEF Fields
<1>3. CASE c = [b EXCEPT !.off = @ + n]
  BY <1>3 DEF Fields
<1>. QED
  BY <1>1, <1>2, <1>3 DEF AfterPiece

\* ... a stretch just pinned
LEMMA LockedFields ==
  ASSUME NEW u, NEW n
  PROVE  DOMAIN Locked(u, n) = Fields /\ Locked(u, n).ptr
BY DEF Locked, Fields

\* ... and no buffer
LEMMA NoBufferFields == DOMAIN NoBuffer = Fields /\ ~ NoBuffer.ptr
BY DEF NoBuffer, Fields

\* What the steps that change the record leave in it
LEMMA CallDriverFields ==
  ASSUME Records, CallDriver
  PROVE  /\ Records' /\ SameBuffers
         /\ dma'.off = ask.off /\ dma'.len = ask.len /\ dma'.sent = 0 /\ dma'.idle = FALSE
         /\ dma'.pageLast = TableSize - 1 /\ dma'.lastId = lastPtr
<1>1. dma' = [dma EXCEPT !.off = ask.off, !.len = ask.len, !.sent = 0, !.idle = FALSE,
                        !.pageLast = TableSize - 1, !.lastId = lastPtr]
  BY DEF CallDriver
<1>. QED
  BY <1>1 DEF Records, DmaFields, SameBuffers

\* Opening a host channel
LEMMA OpenChannelFields ==
  ASSUME Records, OpenChannel
  PROVE  Records' /\ SameBuffers /\ SameTransfer /\ dma'.idle = dma.idle
<1>1. dma' = [dma EXCEPT !.lastId = StartId(lastPtr)]
  BY DEF OpenChannel
<1>. QED
  BY <1>1 DEF Records, DmaFields, SameBuffers, SameTransfer

\* Breaking off
LEMMA DmaStopFields ==
  ASSUME Records, DmaStop
  PROVE  /\ Records' /\ SameBuffers /\ SameTransfer /\ dma'.idle = TRUE
         /\ dma'.pageLast = dma.pageLast /\ dma'.lastId = dma.lastId
<1>1. dma' = [dma EXCEPT !.idle = TRUE]
  BY DEF DmaStop
<1>. QED
  BY <1>1 DEF Records, DmaFields, SameBuffers, SameTransfer

\* Giving all buffers back
LEMMA DropAllFields ==
  ASSUME Records, StopDrained \/ Close
  PROVE  /\ Records' /\ SameTransfer
         /\ Close => dma'.idle = TRUE
         /\ StopDrained => dma'.idle = dma.idle
         /\ dma'.active = Dropped(dma.active) /\ dma'.prePinned = Dropped(dma.prePinned)
         /\ dma'.done = Dropped(dma.done) /\ dma'.lastId = Reset /\ dma'.pageLast = dma.pageLast
<1>1. PICK d : d = AllDropped
  OBVIOUS
<1>2. d = [dma EXCEPT !.active = Dropped(dma.active), !.prePinned = Dropped(dma.prePinned),
                      !.done = Dropped(dma.done), !.lastId = Reset]
  BY <1>1 DEF AllDropped
<1>3. /\ DOMAIN d = DmaFields
      /\ d.active = Dropped(dma.active) /\ d.prePinned = Dropped(dma.prePinned)
      /\ d.done = Dropped(dma.done) /\ d.lastId = Reset /\ d.pageLast = dma.pageLast
      /\ d.idle = dma.idle /\ d.off = dma.off /\ d.len = dma.len /\ d.sent = dma.sent
  BY <1>2 DEF Records, DmaFields
<1>4. DOMAIN d.active = Fields /\ DOMAIN d.prePinned = Fields /\ DOMAIN d.done = Fields
  BY <1>3, DroppedFields DEF Records
<1>5. dma' = d \/ dma' = [d EXCEPT !.idle = TRUE]
  BY <1>1 DEF StopDrained, Close
<1>6. Close => dma' = [d EXCEPT !.idle = TRUE]
  BY <1>1 DEF Close
<1>7. StopDrained => dma' = d
  BY <1>1 DEF StopDrained
<1>. QED
  BY <1>3, <1>4, <1>5, <1>6, <1>7 DEF Records, DmaFields, SameTransfer

\* Opening the device
LEMMA OpenFields ==
  ASSUME Records, Open
  PROVE  /\ Records' /\ SameTransfer /\ dma'.idle = TRUE
         /\ dma'.active = NoBuffer /\ dma'.prePinned = dma.prePinned /\ dma'.done = dma.done
         /\ dma'.lastId = dma.lastId /\ dma'.pageLast = dma.pageLast
<1>1. dma' = [dma EXCEPT !.active = NoBuffer, !.idle = TRUE]
  BY DEF Open
<1>. QED
  BY <1>1, NoBufferFields DEF Records, DmaFields, SameTransfer

\* Ending a transfer
LEMMA FinishFields ==
  ASSUME Records, WqFinish
  PROVE  /\ Records' /\ SameTransfer /\ dma'.idle = TRUE /\ dma'.lastId = Reset
         /\ dma'.pageLast = TableSize - 1
         /\ dma'.active = Dropped(dma.active) /\ dma'.prePinned = dma.prePinned
         /\ dma'.done = Dropped(dma.done)
<1>1. dma' = [dma EXCEPT !.lastId = Reset, !.pageLast = TableSize - 1, !.idle = TRUE,
                        !.active = Dropped(dma.active), !.done = Dropped(dma.done)]
  BY DEF WqFinish
<1>. QED
  BY <1>1, DroppedFields DEF Records, DmaFields, SameTransfer

\* The stretch that is sent next
NextBuffer == IF dma.prePinned.ptr THEN dma.prePinned
              ELSE Locked(HostAddr, LockSize(Remaining, dma.pageLast))

\* Taking the next buffer
LEMMA BufferFields ==
  ASSUME Records, WqBuffer
  PROVE  \/ dma.active.ptr /\ dma.active.rem # 0 /\ dma' = dma /\ pins' = pins
         \/ /\ ~ (dma.active.ptr /\ dma.active.rem # 0)
            /\ Records' /\ SameTransfer /\ dma'.idle = dma.idle
            /\ dma'.lastId = dma.lastId /\ dma'.pageLast = dma.pageLast
            /\ dma'.active = Begun(NextBuffer) /\ dma'.prePinned = Dropped(dma.prePinned)
            /\ dma'.done = IF dma.active.rem = 0 THEN dma.active ELSE dma.done
            /\ pins' = IF dma.prePinned.ptr THEN pins ELSE Pin(pins, NextBuffer)
            /\ DOMAIN NextBuffer = Fields /\ NextBuffer.ptr
<1>1. CASE dma.active.ptr /\ dma.active.rem # 0
  BY <1>1 DEF WqBuffer
<1>2. CASE ~ (dma.active.ptr /\ dma.active.rem # 0)
  <2>1. PICK b : b = NextBuffer
    OBVIOUS
  <2>2. /\ dma' = [dma EXCEPT !.done = IF dma.active.rem = 0 THEN dma.active ELSE dma.done,
                             !.active = Begun(b), !.prePinned = Dropped(dma.prePinned)]
        /\ pins' = IF dma.prePinned.ptr THEN pins ELSE Pin(pins, b)
    BY <1>2, <2>1 DEF WqBuffer, NextBuffer
  <2>3. DOMAIN b = Fields /\ b.ptr
    BY <2>1, LockedFields DEF NextBuffer, Records
  <2>4. DOMAIN Begun(b) = Fields /\ DOMAIN Dropped(dma.prePinned) = Fields
    BY <2>3, BegunFields, DroppedFields DEF Records
  <2>. QED
    BY <1>2, <2>1, <2>2, <2>3, <2>4 DEF Records, DmaFields, SameTransfer
<1>. QED
  BY <1>1, <1>2

\* Sending a piece of a page
LEMMA SendPieceFields ==
  ASSUME Records, WqSendPiece, NEW size, size = FirstSize(dma.active, Remaining), NEW n, n = Piece(size)
  PROVE  /\ Records' /\ dma'.off = dma.off /\ dma'.len = dma.len /\ dma'.sent = dma.sent + n
         /\ dma'.idle = dma.idle /\ dma'.lastId = StartId(dma.lastId) /\ dma'.pageLast = dma.pageLast
         /\ dma'.active = AfterPiece(dma.active, n, size)
         /\ dma'.prePinned = dma.prePinned /\ dma'.done = dma.done
<1>1. dma' = [dma EXCEPT !.lastId = StartId(dma.lastId), !.sent = dma.sent + n,
                        !.active = AfterPiece(dma.active, n, size)]
  BY DEF WqSendPiece
<1>2. DOMAIN AfterPiece(dma.active, n, size) = Fields
  BY AfterFields DEF Records
<1>. QED
  BY <1>1, <1>2 DEF Records, DmaFields

\* Sending whole pages
LEMMA SendPagesFields ==
  ASSUME Records, WqSendPages, NEW k, k = WholePages(dma.active, StartId(dma.lastId))
  PROVE  /\ Records' /\ dma'.off = dma.off /\ dma'.len = dma.len
         /\ dma'.sent = dma.sent + k * PageUnits
         /\ dma'.idle = dma.idle /\ dma'.lastId = StartId(dma.lastId) + k - 1
         /\ dma'.pageLast = StartId(dma.lastId) + k - 1
         /\ dma'.active = AfterPages(dma.active, k)
         /\ dma'.prePinned = dma.prePinned /\ dma'.done = dma.done
<1>1. dma' = [dma EXCEPT !.lastId = StartId(dma.lastId) + k - 1,
                        !.pageLast = StartId(dma.lastId) + k - 1,
                        !.sent = dma.sent + k * PageUnits, !.active = AfterPages(dma.active, k)]
  BY DEF WqSendPages
<1>2. DOMAIN AfterPages(dma.active, k) = Fields
  BY AfterFields DEF Records
<1>. QED
  BY <1>1, <1>2 DEF Records, DmaFields

\* Giving the used buffer back
LEMMA UnpinDoneFields ==
  ASSUME Records, WqUnpinDone
  PROVE  /\ Records' /\ SameTransfer /\ dma'.idle = dma.idle
         /\ dma'.lastId = dma.lastId /\ dma'.pageLast = dma.pageLast
         /\ dma'.active = dma.active /\ dma'.prePinned = dma.prePinned
         /\ dma'.done = Dropped(dma.done)
<1>1. dma' = [dma EXCEPT !.done = Dropped(dma.done)]
  BY DEF WqUnpinDone
<1>. QED
  BY <1>1, DroppedFields DEF Records, DmaFields, SameTransfer

\* Pinning ahead
LEMMA PrePinFields ==
  ASSUME Records, WqPrePin, NEW b, b = Locked(HostAddr, LockSize(Remaining, dma.pageLast))
  PROVE  /\ Records' /\ SameTransfer /\ dma'.idle = dma.idle
         /\ dma'.lastId = dma.lastId /\ dma'.pageLast = dma.pageLast
         /\ dma'.active = dma.active /\ dma'.prePinned = b /\ dma'.done = dma.done
         /\ pins' = Pin(pins, b) /\ DOMAIN b = Fields /\ b.ptr
<1>1. dma' = [dma EXCEPT !.prePinned = b] /\ pins' = Pin(pins, b)
  BY DEF WqPrePin
<1>2. DOMAIN b = Fields /\ b.ptr
  BY LockedFields
<1>. QED
  BY <1>1, <1>2 DEF Records, DmaFields, SameTransfer

-----------------------------------------------------------------------------
(* What is pinned *)

Counts(b, p) == IF b.ptr /\ p \in PagesOf(b) THEN 1 ELSE 0

\* Every page is pinned as often as the three buffers have it.
PinCount ==
  \A p \in Pages :
    pins[p] = Counts(dma.active, p) + Counts(dma.prePinned, p) + Counts(dma.done, p)

\* The work queue is in the middle of an update.
Mid == {"update", "send", "sentPiece", "sentPages", "prePin"}

\* When a buffer has something, and what the work queue and the host are then at
BufferInv ==
  /\ dma.done.ptr => wq \in {"send", "sentPiece", "sentPages"}
  /\ dma.prePinned.ptr => wq \in {"idle", "start", "polled", "update"}
  /\ dma.prePinned.ptr \/ wq = "prePin" => dma.len - dma.sent > 0 /\ dma.active.rem = 0
  /\ dma.prePinned.ptr \/ dma.active.ptr => ~ dma.idle \/ host \in {"flush", "drain"}
  /\ wq \in Mid => ~ dma.idle \/ host = "flush"
  /\ host \in {"flush", "drain", "closing", "off"} => dma.idle
  /\ host = "calling" => ask \in Transfers

PinInv == Records /\ PinCount /\ BufferInv

\* unlock_dma_buffer takes away what the buffer has of a page, ...
LEMMA UnpinCount ==
  ASSUME NEW c, NEW b, NEW p \in Pages, c[p] \in Int
  PROVE  Unpin(c, b)[p] = c[p] - Counts(b, p) /\ Unpin(c, b)[p] \in Int
BY DEF Unpin, Counts

\* ... lock_dma_buffer adds it.
LEMMA PinCounts ==
  ASSUME NEW c, NEW b, NEW p \in Pages, c[p] \in Int, b.ptr
  PROVE  Pin(c, b)[p] = c[p] + Counts(b, p)
BY DEF Pin, Counts

\* Only its place and extent say which pages a buffer has.
LEMMA SameCount ==
  ASSUME NEW b, NEW c, c.ptr = b.ptr, c.first = b.first, c.pages = b.pages, NEW p
  PROVE  Counts(c, p) = Counts(b, p)
BY DEF Counts, PagesOf

\* A buffer given back has none.
LEMMA DroppedCount ==
  ASSUME NEW b, DOMAIN b = Fields, NEW p
  PROVE  Counts(Dropped(b), p) = 0
BY DroppedFields DEF Counts

\* A buffer has a page once or not at all.
LEMMA CountBounds == \A b, p : Counts(b, p) \in {0, 1} /\ (~ b.ptr => Counts(b, p) = 0)
BY DEF Counts

\* Nothing is pinned while the driver is idle.
LEMMA PinInvSuffices == PinInv => NothingLeftPinned
<1>. SUFFICES ASSUME PinInv, dma.idle, host \notin {"flush", "drain"}, NEW p \in Pages
              PROVE  pins[p] = 0
  BY DEF NothingLeftPinned
<1>1. ~ dma.active.ptr /\ ~ dma.prePinned.ptr /\ ~ dma.done.ptr
  BY DEF PinInv, BufferInv, Mid
<1>. QED
  BY <1>1, CountBounds DEF PinInv, PinCount

\* Nothing is pinned at first.
LEMMA PinInvInit == Init => PinInv
<1>. SUFFICES ASSUME Init PROVE PinInv
  OBVIOUS
<1>1. /\ DOMAIN dma = DmaFields /\ dma.active = NoBuffer /\ dma.prePinned = NoBuffer
      /\ dma.done = NoBuffer /\ dma.idle
  BY DEF Init, DmaFields
<1>2. Records
  BY <1>1, NoBufferFields DEF Records
<1>3. PinCount
  BY <1>1, NoBufferFields, CountBounds DEF PinCount, Init
<1>4. BufferInv
  BY <1>1, NoBufferFields DEF BufferInv, Init, Mid
<1>. QED
  BY <1>2, <1>3, <1>4 DEF PinInv

\* A step that leaves the buffers and the pins alone
LEMMA PinCountFrame ==
  ASSUME PinCount, SameBuffers, pins' = pins
  PROVE  PinCount'
BY DEF PinCount, SameBuffers, Counts, PagesOf, Pages, PageOf

\* Steps that pin nothing and leave the record alone
LEMMA HostKeepsPins ==
  ASSUME PinInv,
         \/ \E x \in Transfers, mode \in Modes : Request(x, mode)
         \/ ReturnBlocking \/ ReturnEvent \/ HandleSignal \/ SyncChannel \/ PrFinish
         \/ \E p \in Parts : PrFrozen(p) \/ PrBadController(p) \/ PrStart(p)
         \/ StopFlushed \/ EngineDone \/ KernelDone \/ Interrupt \/ UNCHANGED vars
  PROVE  PinInv'
<1>1. dma' = dma /\ pins' = pins /\ wq' = wq
  BY DEF Request, ReturnBlocking, ReturnEvent, HandleSignal, SyncChannel, PrFinish, PrFrozen,
         PrBadController, PrStart, StopFlushed, EngineDone, KernelDone, Interrupt, IrqEnter,
         IrqService, IrqQueue, vars, mmdVars, boardVars, prVars, chanVars
<1>2. Records' /\ PinCount'
  BY <1>1, PinCountFrame DEF PinInv, Records, SameBuffers
<1>3. \/ host' = host /\ ask' = ask
      \/ host' = "calling" /\ ask' \in Transfers /\ host = "ready"
      \/ host' = "ready" /\ host \in {"polling", "waiting", "pr"}
      \/ host' = "pr" /\ host = "ready"
      \/ host' = "drain" /\ host = "flush" /\ wq = "idle"
  BY DEF Request, ReturnBlocking, ReturnEvent, HandleSignal, SyncChannel, PrFinish, PrFrozen,
         PrBadController, PrStart, StopFlushed, EngineDone, KernelDone, Interrupt, IrqEnter,
         IrqService, IrqQueue, vars, mmdVars, boardVars, prVars, chanVars
<1>4. BufferInv'
  BY <1>1, <1>3 DEF PinInv, BufferInv, Mid
<1>. QED
  BY <1>2, <1>4 DEF PinInv

\* The work queue on its way to an update
LEMMA QueueKeepsPins ==
  ASSUME PinInv, WqTake \/ WqPollChannel \/ WqPollAgain \/ WqNothing \/ WqTransfer \/ WqSignal
  PROVE  PinInv'
<1>1. dma' = dma /\ pins' = pins /\ host' = host /\ ask' = ask
  BY DEF WqTake, WqPollChannel, WqPollAgain, WqNothing, WqTransfer, WqSignal, mmdVars
<1>2. Records' /\ PinCount'
  BY <1>1, PinCountFrame DEF PinInv, Records, SameBuffers
<1>3. /\ wq \in {"idle", "start", "polled", "signal"}
      /\ wq' \in {"idle", "start", "polled"} \/ (wq' = "update" /\ ~ dma.idle)
  BY DEF WqTake, WqPollChannel, WqPollAgain, WqNothing, WqTransfer, WqSignal
<1>4. BufferInv'
  BY <1>1, <1>3 DEF PinInv, BufferInv, Mid
<1>. QED
  BY <1>2, <1>4 DEF PinInv

\* A transfer begins, a channel opens, or the host breaks off.
LEMMA CallKeepsPins ==
  ASSUME PinInv, CallDriver \/ OpenChannel \/ DmaStop
  PROVE  PinInv'
<1>1. Records' /\ SameBuffers /\ pins' = pins
  BY CallDriverFields, OpenChannelFields, DmaStopFields
  DEF PinInv, CallDriver, OpenChannel, DmaStop
<1>2. PinCount'
  BY <1>1, PinCountFrame DEF PinInv
<1>3. CASE CallDriver
  <2>1. dma'.len \in Nat \ {0} /\ dma'.sent = 0 /\ dma'.idle = FALSE
    BY <1>3, CallDriverFields, TransferAssumption DEF PinInv, BufferInv, CallDriver
  <2>2. host = "calling" /\ host' \in {"waiting", "polling"} /\ wq' = wq
    BY <1>3 DEF CallDriver
  <2>3. dma'.len - dma'.sent > 0
    BY <2>1
  <2>4. BufferInv'
    BY <2>1, <2>2, <2>3, <1>1 DEF PinInv, BufferInv, Mid, SameBuffers
  <2>. QED
    BY <1>1, <1>2, <2>4 DEF PinInv
<1>4. CASE OpenChannel
  <2>1. SameTransfer /\ dma'.idle = dma.idle /\ host' = host /\ ask' = ask /\ wq' = wq
    BY <1>4, OpenChannelFields DEF PinInv, OpenChannel, mmdVars
  <2>2. BufferInv'
    BY <2>1, <1>1 DEF PinInv, BufferInv, Mid, SameBuffers, SameTransfer
  <2>. QED
    BY <1>1, <1>2, <2>2 DEF PinInv
<1>5. CASE DmaStop
  <2>1. SameTransfer /\ dma'.idle = TRUE /\ host' = "flush" /\ wq' = wq
    BY <1>5, DmaStopFields DEF PinInv, DmaStop
  <2>2. BufferInv'
    BY <2>1, <1>1 DEF PinInv, BufferInv, Mid, SameBuffers, SameTransfer
  <2>. QED
    BY <1>1, <1>2, <2>2 DEF PinInv
<1>. QED
  BY <1>3, <1>4, <1>5

\* The host stops the DMA.
LEMMA StopKeepsPins ==
  ASSUME PinInv, StopDrained \/ Close
  PROVE  PinInv'
<1>1. /\ Records' /\ SameTransfer /\ dma'.idle
      /\ dma'.active = Dropped(dma.active) /\ dma'.prePinned = Dropped(dma.prePinned)
      /\ dma'.done = Dropped(dma.done)
  BY DropAllFields DEF PinInv, BufferInv, StopDrained, Close
<1>2. /\ wq' = wq /\ ask' = ask /\ wq \notin Mid /\ pins' = UnpinAll
      /\ host' \in {"closing", "off"}
  BY DEF PinInv, BufferInv, StopDrained, Close, Mid
<1>3. PinCount'
  <2>. SUFFICES ASSUME NEW p \in Pages
                PROVE  pins'[p] = Counts(dma'.active, p) + Counts(dma'.prePinned, p) + Counts(dma'.done, p)
    BY DEF PinCount, Pages
  <2>1. /\ pins[p] = Counts(dma.active, p) + Counts(dma.prePinned, p) + Counts(dma.done, p)
        /\ pins[p] \in Int
    BY CountBounds DEF PinInv, PinCount
  <2>2. PICK c : c = Unpin(pins, dma.active)
    OBVIOUS
  <2>3. PICK d : d = Unpin(c, dma.prePinned)
    OBVIOUS
  <2>4. c[p] = pins[p] - Counts(dma.active, p) /\ c[p] \in Int
    BY <2>1, <2>2, UnpinCount
  <2>5. d[p] = c[p] - Counts(dma.prePinned, p) /\ d[p] \in Int
    BY <2>3, <2>4, UnpinCount
  <2>6. pins'[p] = d[p] - Counts(dma.done, p)
    BY <1>2, <2>2, <2>3, <2>5, UnpinCount DEF UnpinAll
  <2>7. Counts(dma'.active, p) = 0 /\ Counts(dma'.prePinned, p) = 0 /\ Counts(dma'.done, p) = 0
    BY <1>1, DroppedCount DEF PinInv, Records
  <2>. QED
    BY <2>1, <2>4, <2>5, <2>6, <2>7, CountBounds
<1>4. ~ dma'.active.ptr /\ ~ dma'.prePinned.ptr /\ ~ dma'.done.ptr
  BY <1>1, DroppedFields DEF PinInv, Records
<1>5. BufferInv'
  BY <1>1, <1>2, <1>4 DEF PinInv, BufferInv, Mid
<1>. QED
  BY <1>1, <1>3, <1>5 DEF PinInv

\* The device is opened.
LEMMA OpenKeepsPins ==
  ASSUME PinInv, Open
  PROVE  PinInv'
<1>1. /\ Records' /\ SameTransfer /\ dma'.idle = TRUE /\ dma'.active = NoBuffer
      /\ dma'.prePinned = dma.prePinned /\ dma'.done = dma.done
  BY OpenFields DEF PinInv
<1>2. /\ wq' = wq /\ ask' = ask /\ pins' = pins /\ host = "off" /\ host' = "ready"
  BY DEF Open
<1>3. /\ ~ dma.active.ptr /\ ~ dma.prePinned.ptr /\ ~ dma.done.ptr /\ wq \notin Mid
  BY <1>2 DEF PinInv, BufferInv, Mid
<1>4. ~ dma'.active.ptr
  BY <1>1, NoBufferFields
<1>5. PinCount'
  <2>. SUFFICES ASSUME NEW p \in Pages
                PROVE  pins'[p] = Counts(dma'.active, p) + Counts(dma'.prePinned, p) + Counts(dma'.done, p)
    BY DEF PinCount, Pages
  <2>1. pins[p] = Counts(dma.active, p) + Counts(dma.prePinned, p) + Counts(dma.done, p)
    BY DEF PinInv, PinCount
  <2>2. Counts(dma'.active, p) = 0 /\ Counts(dma.active, p) = 0
    BY <1>3, <1>4, CountBounds
  <2>. QED
    BY <2>1, <2>2, <1>1, <1>2, CountBounds
<1>6. BufferInv'
  BY <1>1, <1>2, <1>3, <1>4 DEF PinInv, BufferInv, Mid
<1>. QED
  BY <1>1, <1>5, <1>6 DEF PinInv

\* A transfer ends.
LEMMA FinishKeepsPins ==
  ASSUME PinInv, WqFinish
  PROVE  PinInv'
<1>1. /\ Records' /\ SameTransfer /\ dma'.idle = TRUE
      /\ dma'.active = Dropped(dma.active) /\ dma'.prePinned = dma.prePinned
      /\ dma'.done = Dropped(dma.done)
  BY FinishFields DEF PinInv
<1>2. /\ wq = "update" /\ wq' = "signal" /\ ask' = ask /\ pins' = Finished /\ host' = host
      /\ dma.len - dma.sent = 0
  BY DEF WqFinish, mmdVars, Remaining
<1>3. ~ dma.prePinned.ptr /\ ~ dma'.active.ptr /\ ~ dma'.done.ptr
  <2>1. DOMAIN dma.active = Fields /\ DOMAIN dma.done = Fields
    BY DEF PinInv, Records
  <2>2. ~ dma.prePinned.ptr
    BY <1>2 DEF PinInv, BufferInv
  <2>3. Dropped(dma.active).ptr = FALSE /\ Dropped(dma.done).ptr = FALSE
    BY <2>1, DroppedFields
  <2>. QED
    BY <2>2, <2>3, <1>1
<1>4. PinCount'
  <2>. SUFFICES ASSUME NEW p \in Pages
                PROVE  pins'[p] = Counts(dma'.active, p) + Counts(dma'.prePinned, p) + Counts(dma'.done, p)
    BY DEF PinCount, Pages
  <2>1. /\ pins[p] = Counts(dma.active, p) + Counts(dma.prePinned, p) + Counts(dma.done, p)
        /\ pins[p] \in Int
    BY CountBounds DEF PinInv, PinCount
  <2>2. PICK c : c = Unpin(pins, dma.active)
    OBVIOUS
  <2>3. c[p] = pins[p] - Counts(dma.active, p) /\ c[p] \in Int
    BY <2>1, <2>2, UnpinCount
  <2>4. pins'[p] = c[p] - Counts(dma.done, p)
    BY <1>2, <2>2, <2>3, UnpinCount DEF Finished
  <2>5. Counts(dma'.active, p) = 0 /\ Counts(dma'.done, p) = 0
    BY <1>3, CountBounds
  <2>. QED
    BY <2>1, <2>3, <2>4, <2>5, <1>1, CountBounds
<1>5. BufferInv'
  BY <1>1, <1>2, <1>3 DEF PinInv, BufferInv, Mid
<1>. QED
  BY <1>1, <1>4, <1>5 DEF PinInv

\* The work queue goes on to the next buffer.
LEMMA BufferKeepsPins ==
  ASSUME PinInv, WqBuffer
  PROVE  PinInv'
<1>1. /\ wq = "update" /\ wq' = "send" /\ host' = host /\ ask' = ask
  BY DEF WqBuffer, mmdVars
<1>2. CASE dma.active.ptr /\ dma.active.rem # 0 /\ dma' = dma /\ pins' = pins
  <2>1. Records' /\ PinCount'
    BY <1>2, PinCountFrame DEF PinInv, Records, SameBuffers
  <2>2. BufferInv'
    BY <1>1, <1>2 DEF PinInv, BufferInv, Mid
  <2>. QED
    BY <2>1, <2>2 DEF PinInv
<1>3. CASE /\ ~ (dma.active.ptr /\ dma.active.rem # 0)
           /\ Records' /\ SameTransfer /\ dma'.idle = dma.idle
           /\ dma'.active = Begun(NextBuffer) /\ dma'.prePinned = Dropped(dma.prePinned)
           /\ dma'.done = IF dma.active.rem = 0 THEN dma.active ELSE dma.done
           /\ pins' = IF dma.prePinned.ptr THEN pins ELSE Pin(pins, NextBuffer)
           /\ DOMAIN NextBuffer = Fields /\ NextBuffer.ptr
  <2>1. ~ dma.done.ptr /\ (~ dma.idle \/ host = "flush")
    BY <1>1 DEF PinInv, BufferInv, Mid
  <2>2. ~ dma'.prePinned.ptr
    BY <1>3, DroppedFields DEF PinInv, Records
  <2>3. PinCount'
    <3>. SUFFICES ASSUME NEW p \in Pages
                  PROVE  pins'[p] = Counts(dma'.active, p) + Counts(dma'.prePinned, p) + Counts(dma'.done, p)
      BY DEF PinCount, Pages
    <3>1. /\ pins[p] = Counts(dma.active, p) + Counts(dma.prePinned, p) + Counts(dma.done, p)
          /\ pins[p] \in Int
      BY CountBounds DEF PinInv, PinCount
    <3>2. Counts(dma.done, p) = 0 /\ Counts(dma'.prePinned, p) = 0
      BY <2>1, <2>2, CountBounds
    <3>3. Counts(dma'.active, p) = Counts(NextBuffer, p)
      BY <1>3, BegunFields, SameCount
    <3>4. Counts(dma'.done, p) = Counts(dma.active, p)
      <4>1. CASE dma.active.rem = 0
        BY <4>1, <1>3
      <4>2. CASE dma.active.rem # 0
        BY <4>2, <1>3, <3>2, CountBounds
      <4>. QED
        BY <4>1, <4>2
    <3>5. CASE dma.prePinned.ptr
      <4>1. NextBuffer = dma.prePinned /\ pins' = pins
        BY <3>5, <1>3 DEF NextBuffer
      <4>. QED
        BY <4>1, <3>1, <3>2, <3>3, <3>4, CountBounds
    <3>6. CASE ~ dma.prePinned.ptr
      <4>1. Counts(dma.prePinned, p) = 0
        BY <3>6, CountBounds
      <4>2. pins'[p] = pins[p] + Counts(NextBuffer, p)
        BY <3>6, <1>3, <3>1, PinCounts
      <4>. QED
        BY <4>1, <4>2, <3>1, <3>2, <3>3, <3>4, CountBounds
    <3>. QED
      BY <3>5, <3>6
  <2>4. BufferInv'
    BY <1>1, <1>3, <2>1, <2>2 DEF PinInv, BufferInv, Mid
  <2>. QED
    BY <1>3, <2>3, <2>4 DEF PinInv
<1>. QED
  BY <1>2, <1>3, BufferFields DEF PinInv

\* A table is sent.
LEMMA SendKeepsPins ==
  ASSUME PinInv, WqSendPiece \/ WqSendPages
  PROVE  PinInv'
<1>1. /\ wq = "send" /\ wq' \in {"sentPiece", "sentPages"} /\ pins' = pins /\ host' = host /\ ask' = ask
  BY DEF WqSendPiece, WqSendPages, mmdVars
<1>2. /\ Records' /\ dma'.idle = dma.idle /\ dma'.prePinned = dma.prePinned /\ dma'.done = dma.done
      /\ dma'.active.ptr = dma.active.ptr /\ dma'.active.first = dma.active.first
      /\ dma'.active.pages = dma.active.pages
  <2>1. CASE WqSendPiece
    <3>1. PICK size : size = FirstSize(dma.active, Remaining)
      OBVIOUS
    <3>2. PICK n : n = Piece(size)
      OBVIOUS
    <3>3. dma'.active = AfterPiece(dma.active, n, size)
      BY <2>1, <3>1, <3>2, SendPieceFields DEF PinInv
    <3>. QED
      BY <2>1, <3>1, <3>2, <3>3, SendPieceFields, AfterFields DEF PinInv, Records
  <2>2. CASE WqSendPages
    <3>1. PICK k : k = WholePages(dma.active, StartId(dma.lastId))
      OBVIOUS
    <3>2. dma'.active = AfterPages(dma.active, k)
      BY <2>2, <3>1, SendPagesFields DEF PinInv
    <3>. QED
      BY <2>2, <3>1, <3>2, SendPagesFields, AfterFields DEF PinInv, Records
  <2>. QED
    BY <2>1, <2>2
<1>3. ~ dma.prePinned.ptr /\ (~ dma.idle \/ host = "flush")
  BY <1>1 DEF PinInv, BufferInv, Mid
<1>4. PinCount'
  <2>. SUFFICES ASSUME NEW p \in Pages
                PROVE  pins'[p] = Counts(dma'.active, p) + Counts(dma'.prePinned, p) + Counts(dma'.done, p)
    BY DEF PinCount, Pages
  <2>. QED
    BY <1>1, <1>2, SameCount DEF PinInv, PinCount
<1>5. BufferInv'
  BY <1>1, <1>2, <1>3 DEF PinInv, BufferInv, Mid
<1>. QED
  BY <1>2, <1>4, <1>5 DEF PinInv

\* The used buffer is given back.
LEMMA UnpinDoneKeepsPins ==
  ASSUME PinInv, WqUnpinDone
  PROVE  PinInv'
<1>1. /\ Records' /\ SameTransfer /\ dma'.idle = dma.idle
      /\ dma'.active = dma.active /\ dma'.prePinned = dma.prePinned /\ dma'.done = Dropped(dma.done)
  BY UnpinDoneFields DEF PinInv
<1>2. /\ wq \in {"sentPiece", "sentPages"} /\ host' = host /\ ask' = ask
      /\ wq' = "idle" \/ (wq' = "prePin" /\ dma.len - dma.sent > 0 /\ dma.active.rem = 0)
      /\ pins' = Unpin(pins, dma.done)
  BY DEF WqUnpinDone, mmdVars, Remaining
<1>3. ~ dma.prePinned.ptr /\ (~ dma.idle \/ host = "flush") /\ ~ dma'.done.ptr
  BY <1>1, <1>2, DroppedFields DEF PinInv, BufferInv, Mid, Records
<1>4. PinCount'
  <2>. SUFFICES ASSUME NEW p \in Pages
                PROVE  pins'[p] = Counts(dma'.active, p) + Counts(dma'.prePinned, p) + Counts(dma'.done, p)
    BY DEF PinCount, Pages
  <2>1. /\ pins[p] = Counts(dma.active, p) + Counts(dma.prePinned, p) + Counts(dma.done, p)
        /\ pins[p] \in Int
    BY CountBounds DEF PinInv, PinCount
  <2>2. pins'[p] = pins[p] - Counts(dma.done, p) /\ Counts(dma'.done, p) = 0
    BY <2>1, <1>2, <1>3, UnpinCount, CountBounds
  <2>. QED
    BY <2>1, <2>2, <1>1, CountBounds
<1>5. BufferInv'
  BY <1>1, <1>2, <1>3 DEF PinInv, BufferInv, Mid, SameTransfer
<1>. QED
  BY <1>1, <1>4, <1>5 DEF PinInv

\* A stretch is pinned ahead.
LEMMA PrePinKeepsPins ==
  ASSUME PinInv, WqPrePin
  PROVE  PinInv'
<1>1. PICK b : b = Locked(HostAddr, LockSize(Remaining, dma.pageLast))
  OBVIOUS
<1>2. /\ Records' /\ SameTransfer /\ dma'.idle = dma.idle
      /\ dma'.active = dma.active /\ dma'.prePinned = b /\ dma'.done = dma.done
      /\ pins' = Pin(pins, b) /\ b.ptr
  BY <1>1, PrePinFields DEF PinInv
<1>3. wq = "prePin" /\ wq' = "idle" /\ host' = host /\ ask' = ask
  BY DEF WqPrePin, mmdVars
<1>4. /\ ~ dma.prePinned.ptr /\ ~ dma.done.ptr /\ (~ dma.idle \/ host = "flush")
      /\ dma.len - dma.sent > 0 /\ dma.active.rem = 0
  BY <1>3 DEF PinInv, BufferInv, Mid
<1>5. PinCount'
  <2>. SUFFICES ASSUME NEW p \in Pages
                PROVE  pins'[p] = Counts(dma'.active, p) + Counts(dma'.prePinned, p) + Counts(dma'.done, p)
    BY DEF PinCount, Pages
  <2>1. /\ pins[p] = Counts(dma.active, p) + Counts(dma.prePinned, p) + Counts(dma.done, p)
        /\ pins[p] \in Int
    BY CountBounds DEF PinInv, PinCount
  <2>2. pins'[p] = pins[p] + Counts(b, p) /\ Counts(dma.prePinned, p) = 0
    BY <2>1, <1>2, <1>4, PinCounts, CountBounds
  <2>. QED
    BY <2>1, <2>2, <1>2, CountBounds
<1>6. BufferInv'
  BY <1>2, <1>3, <1>4 DEF PinInv, BufferInv, Mid, SameTransfer
<1>. QED
  BY <1>2, <1>5, <1>6 DEF PinInv

\* Every step keeps the books of what is pinned.
LEMMA StepKeepsPins == PinInv /\ [Next]_vars => PinInv'
<1>. SUFFICES ASSUME PinInv, [Next]_vars PROVE PinInv'
  OBVIOUS
<1>1. CASE WorkQueue
  BY <1>1, QueueKeepsPins, FinishKeepsPins, BufferKeepsPins, SendKeepsPins, UnpinDoneKeepsPins,
     PrePinKeepsPins DEF WorkQueue
<1>2. CASE ~ WorkQueue
  BY <1>2, HostKeepsPins, CallKeepsPins, StopKeepsPins, OpenKeepsPins DEF Next, HostReturns
<1>. QED
  BY <1>1, <1>2

\* Nothing stays pinned: in every state in which the driver is idle and the
\* host is not stopping it, all pages of the user are given back, whatever the
\* modes, and with or without a host channel.
THEOREM NothingStaysPinned == Spec => []NothingLeftPinned
<1>1. Init => PinInv
  BY PinInvInit
<1>2. PinInv /\ [Next]_vars => PinInv'
  BY StepKeepsPins
<1>3. PinInv => NothingLeftPinned
  BY PinInvSuffices
<1>. QED
  BY <1>1, <1>2, <1>3, PTL DEF Spec

-----------------------------------------------------------------------------
(* How the parties share one transfer: without a host channel, and in a    *)
(* program that always waits for its transfers in the same way.            *)

Plain == ~ Channels /\ ~ ({"event", "blocking"} \subseteq Modes)
Told == "event" \in Modes

Moving == host \in {"polling", "waiting"}

\* No completion is on its way, and none is dealt with.
Quiet == ~ flag /\ engine = <<>> /\ irq = "idle" /\ ~ work /\ wq \in {"idle", "signal"}

\* The completion of a transfer is in one place at a time: a table with the
\* board, its flag, the interrupt, the queued work, or the work queue.
Control ==
  /\ host \in {"off", "ready", "calling", "polling", "waiting", "pr",
               "flush", "drain", "closing"}
  /\ wq \in {"idle", "start", "update", "send", "sentPiece", "sentPages", "prePin", "signal"}
  /\ ~ chan /\ ~ armed /\ ~ sync
  /\ engine = <<>> \/ \E t : engine = <<t>>
  /\ host \in {"off", "ready", "calling", "pr"} => dma.idle /\ Quiet
  /\ Moving /\ dma.idle => Quiet
  /\ wq \in {"start", "update", "send"} => ~ work /\ engine = <<>> /\ ~ flag
  /\ work => engine = <<>> /\ ~ flag
  /\ engine # <<>> => ~ flag /\ dma.lastId # Reset
  /\ irq # "idle" => flag \/ (host = "closing" /\ ~ work /\ wq = "idle")
  /\ host \in {"drain", "closing"} => wq \in {"idle", "start"}
  /\ host = "closing" => engine = <<>> /\ ~ flag
  /\ host \in {"flush", "drain", "closing"} => dma.idle
  /\ wq = "signal" => engine = <<>> /\ ~ flag /\ irq = "idle"

\* A signal belongs to the transfer the host waits for, or to one it has
\* broken off and will not ask about again.
Events ==
  /\ signals \in Nat
  /\ ~ Told => ~ event /\ ~ told
  /\ host = "polling" => ~ Told
  /\ host = "waiting" => Told /\ (event <=> ~ told)
  /\ event \/ told => host \in {"calling", "waiting"}
  /\ Told /\ host \in {"ready", "calling", "pr"} => signals = 0
  /\ Told /\ host \in {"off", "ready", "calling", "pr"} => wq # "signal"
  /\ Told /\ host = "calling" => event /\ ~ told
  /\ Told /\ signals # 0 => signals = 1 /\ wq \in {"idle", "start"} /\ dma.idle
  /\ Told /\ wq = "signal" => dma.idle
  /\ told => host = "waiting" /\ dma.idle /\ signals = 0 /\ wq = "idle"

\* A closed device is quiet.
LEMMA ControlInit == Init => Control /\ Events
<1>. SUFFICES ASSUME Init PROVE Control /\ Events
  OBVIOUS
<1>1. dma.idle /\ dma.lastId = Reset
  BY DEF Init
<1>2. Control
  BY <1>1 DEF Init, Control, Quiet, Moving
<1>3. Events
  BY <1>1 DEF Init, Events
<1>. QED
  BY <1>2, <1>3

\* Which party has the completion, step by step: a request, ...
LEMMA RequestControl ==
  ASSUME Plain, Control, Events, NEW x \in Transfers, NEW mode \in Modes, Request(x, mode)
  PROVE  Control' /\ Events'
<1>1. /\ host = "ready" /\ host' = "calling" /\ signals' = signals /\ dma' = dma /\ flag' = flag
      /\ engine' = engine /\ irq' = irq /\ work' = work /\ wq' = wq /\ chan' = chan
      /\ armed' = armed /\ sync' = sync
      /\ (event' <=> mode = "event") /\ ~ told'
  BY DEF Request, boardVars, chanVars
<1>2. Control'
  BY <1>1 DEF Control, Quiet, Moving
<1>3. mode = "event" <=> Told
  BY TransferAssumption DEF Plain, Told
<1>4. Events'
  BY <1>1, <1>3 DEF Control, Quiet, Events, Told
<1>. QED
  BY <1>2, <1>4

\* ... its system call, ...
LEMMA CallControl ==
  ASSUME Plain, Records, Control, Events, CallDriver
  PROVE  Control' /\ Events' /\ engine' = <<>>
<1>1. dma'.idle = FALSE
  BY CallDriverFields
<1>2. engine = <<>> /\ dma.idle /\ Quiet /\ host = "calling"
  BY DEF CallDriver, Control, Quiet
<1>3. engine' = <<>>
  <2>1. engine' = [n \in DOMAIN engine |-> [engine[n] EXCEPT !.current = FALSE]]
    BY DEF CallDriver
  <2>2. DOMAIN engine = {}
    BY <1>2
  <2>. QED
    BY <2>1, <2>2, <1>2
<1>4. /\ host' = (IF event \/ told THEN "waiting" ELSE "polling") /\ work' = TRUE
      /\ event' = event /\ told' = told /\ signals' = signals /\ signals = 0 /\ flag' = flag
      /\ irq' = irq /\ wq' = wq /\ chan' = chan /\ armed' = armed /\ sync' = sync
  BY DEF CallDriver, chanVars, UserMode
<1>5. Told => event /\ ~ told /\ wq = "idle"
  BY <1>2 DEF Events, Quiet
<1>6. ~ Told => ~ event /\ ~ told
  BY DEF Events
<1>7. host' = IF Told THEN "waiting" ELSE "polling"
  BY <1>4, <1>5, <1>6
<1>9. Control'
  BY <1>1, <1>2, <1>3, <1>4, <1>7 DEF Control, Quiet, Moving
<1>10. Events'
  BY <1>1, <1>2, <1>4, <1>5, <1>6, <1>7 DEF Events, Told
<1>. QED
  BY <1>3, <1>9, <1>10

\* ... a return, a reconfiguration or an opening, ...
LEMMA HostControl ==
  ASSUME Plain, Records, Control, Events,
         ReturnBlocking \/ ReturnEvent \/ PrFinish \/ Open
         \/ \E p \in Parts : PrFrozen(p) \/ PrBadController(p) \/ PrStart(p)
  PROVE  Control' /\ Events'
<1>1. /\ signals' = signals /\ flag' = flag /\ engine' = engine /\ irq' = irq
      /\ work' = work /\ wq' = wq /\ chan' = chan /\ armed' = armed /\ sync' = sync /\ event' = event
  BY DEF ReturnBlocking, ReturnEvent, PrFinish, Open, PrFrozen, PrBadController, PrStart,
         mmdVars, boardVars, chanVars
<1>2. /\ dma'.lastId = dma.lastId
      /\ dma'.idle = dma.idle \/ dma'.idle = TRUE
  <2>1. CASE Open
    BY <2>1, OpenFields
  <2>2. CASE ~ Open
    BY <2>2 DEF ReturnBlocking, ReturnEvent, PrFinish, PrFrozen, PrBadController, PrStart
  <2>. QED
    BY <2>1, <2>2
<1>3. \/ host = "polling" /\ dma.idle /\ host' = "ready" /\ told' = told
      \/ host = "waiting" /\ told /\ signals = 0 /\ host' = "ready" /\ ~ told'
      \/ host = "pr" /\ host' = "ready" /\ told' = told
      \/ host = "ready" /\ host' \in {"ready", "pr"} /\ told' = told
      \/ host = "off" /\ host' = "ready" /\ signals = 0 /\ told' = told
  BY DEF ReturnBlocking, ReturnEvent, PrFinish, Open, PrFrozen, PrBadController, PrStart,
         mmdVars, UserMode
<1>4. Control'
  BY <1>1, <1>2, <1>3 DEF Control, Events, Quiet, Moving
<1>5. Events'
  BY <1>1, <1>2, <1>3 DEF Control, Events, Quiet, Moving, Told
<1>. QED
  BY <1>4, <1>5

\* ... a signal, ...
LEMMA SignalControl ==
  ASSUME Plain, Control, Events, HandleSignal
  PROVE  Control' /\ Events'
<1>1. /\ flag' = flag /\ engine' = engine /\ irq' = irq /\ host' = host /\ dma' = dma
      /\ work' = work /\ wq' = wq /\ chan' = chan /\ armed' = armed /\ sync' = sync
      /\ signals' = signals - 1 /\ signals > 0 /\ ~ event' /\ (told' <=> told \/ event)
      /\ host \in {"off", "ready", "calling", "polling", "waiting"}
  BY DEF HandleSignal, boardVars, chanVars
<1>2. Control'
  BY <1>1 DEF Control, Quiet, Moving
<1>3. signals \in Nat /\ signals' \in Nat
  BY <1>1 DEF Events
<1>4. CASE Told
  <2>1. signals = 1 /\ wq \in {"idle", "start"} /\ dma.idle /\ host \in {"off", "waiting"}
    BY <1>1, <1>3, <1>4 DEF Events
  <2>2. host = "waiting" => wq = "idle"
    BY <2>1 DEF Control, Moving, Quiet
  <2>3. host = "off" => ~ event /\ ~ told
    BY DEF Events
  <2>4. host = "waiting" => (event <=> ~ told)
    BY DEF Events
  <2>5. signals' = 0
    BY <1>1, <2>1
  <2>. QED
    BY <1>1, <1>2, <1>4, <2>1, <2>2, <2>3, <2>4, <2>5 DEF Events, Told
<1>5. CASE ~ Told
  <2>1. ~ event /\ ~ told /\ ~ told'
    BY <1>1, <1>5 DEF Events
  <2>. QED
    BY <1>1, <1>2, <1>3, <1>5, <2>1 DEF Events, Told
<1>. QED
  BY <1>4, <1>5

\* ... breaking off, ...
LEMMA StopControl ==
  ASSUME Plain, Records, Control, Events, DmaStop \/ StopFlushed
  PROVE  Control' /\ Events'
<1>1. /\ flag' = flag /\ engine' = engine /\ irq' = irq /\ signals' = signals
      /\ work' = work /\ wq' = wq /\ armed' = armed /\ sync' = sync
  BY DEF DmaStop, StopFlushed, boardVars, chanVars
<1>2. dma'.idle /\ dma'.lastId = dma.lastId
  BY DmaStopFields DEF StopFlushed, Control
<1>3. \/ host # "closing" /\ host' = "flush" /\ ~ event' /\ ~ told' /\ ~ chan'
      \/ /\ host = "flush" /\ host' = "drain" /\ ~ work /\ wq = "idle"
         /\ event' = event /\ told' = told /\ chan' = chan
  BY DEF DmaStop, StopFlushed, chanVars
<1>4. ~ chan'
  BY <1>3 DEF Control
<1>5. Control'
  BY <1>1, <1>2, <1>3, <1>4 DEF Control, Quiet, Moving
<1>6. Events'
  BY <1>1, <1>2, <1>3 DEF Control, Events, Told
<1>. QED
  BY <1>5, <1>6

\* ... stopping and closing, ...
LEMMA CloseControl ==
  ASSUME Plain, Records, Control, Events, StopDrained \/ Close
  PROVE  Control' /\ Events'
<1>1. /\ engine' = engine /\ irq' = irq /\ signals' = signals
      /\ work' = work /\ wq' = wq /\ chan' = chan /\ armed' = armed /\ sync' = sync
      /\ event' = event /\ told' = told
  BY DEF StopDrained, Close, boardVars, chanVars
<1>2. dma'.idle /\ dma'.lastId = Reset /\ dma.idle
  BY DropAllFields DEF StopDrained, Close, Control
<1>3. \/ host = "drain" /\ host' = "closing" /\ flag' = FALSE /\ Drained
      \/ host = "closing" /\ host' = "off" /\ flag' = flag /\ ~ work /\ wq = "idle" /\ irq = "idle"
  BY DEF StopDrained, Close
<1>4. engine = <<>>
  BY <1>3 DEF Drained, Control
<1>5. Control'
  BY <1>1, <1>2, <1>3, <1>4 DEF Control, Quiet, Moving
<1>6. Events'
  BY <1>1, <1>2, <1>3 DEF Control, Events, Told
<1>. QED
  BY <1>5, <1>6

\* ... the board and the interrupt handler, ...
LEMMA BoardControl ==
  ASSUME Plain, Control, Events, EngineDone \/ KernelDone \/ Interrupt
  PROVE  Control' /\ Events'
<1>1. /\ dma' = dma /\ host' = host /\ signals' = signals /\ wq' = wq
      /\ chan' = chan /\ armed' = armed /\ sync' = sync /\ event' = event /\ told' = told
  BY DEF EngineDone, KernelDone, Interrupt, IrqEnter, IrqService, IrqQueue, mmdVars, chanVars
<1>2. Control'
  <2>1. CASE EngineDone
    <3>1. engine # <<>> /\ engine' = Tail(engine) /\ irq' = irq /\ work' = work
      BY <2>1 DEF EngineDone
    <3>2. engine' = <<>>
      BY <3>1 DEF Control
    <3>. QED
      BY <1>1, <3>1, <3>2 DEF Control, Quiet, Moving
  <2>2. CASE KernelDone
    <3>1. engine' = engine /\ irq' = irq /\ work' = work /\ flag' = flag
      BY <2>2 DEF KernelDone, boardVars
    <3>. QED
      BY <1>1, <3>1 DEF Control, Quiet, Moving
  <2>3. CASE IrqEnter \/ IrqService
    <3>1. /\ engine' = engine /\ work' = work /\ flag' = flag
          /\ irq' = "idle" \/ (irq' \in {"service", "queue"} /\ (irq # "idle" \/ flag))
      BY <2>3 DEF IrqEnter, IrqService, DmaUpdate, boardVars
    <3>. QED
      BY <1>1, <3>1 DEF Control, Quiet, Moving
  <2>4. CASE IrqQueue
    <3>1. engine' = engine /\ work' = TRUE /\ flag' = FALSE /\ irq = "queue" /\ irq' = "idle"
      BY <2>4 DEF IrqQueue, boardVars
    <3>2. flag \/ (host = "closing" /\ ~ work /\ wq = "idle")
      BY <3>1 DEF Control
    <3>. QED
      BY <1>1, <3>1, <3>2 DEF Control, Quiet, Moving
  <2>. QED
    BY <2>1, <2>2, <2>3, <2>4 DEF Interrupt
<1>3. Events'
  BY <1>1 DEF Events, Told
<1>. QED
  BY <1>2, <1>3

\* ... the work queue on its way to an update, ...
LEMMA QueueControl ==
  ASSUME Plain, Control, Events, WqTake \/ WqPollChannel \/ WqPollAgain \/ WqNothing \/ WqTransfer
  PROVE  /\ Control' /\ Events'
         /\ dma' = dma /\ pins' = pins /\ engine' = engine /\ copied' = copied /\ host' = host
         /\ ask' = ask /\ (wq \in {"idle", "start"}) /\ wq' \in {"idle", "start", "update"}
<1>1. /\ dma' = dma /\ host' = host /\ signals' = signals /\ flag' = flag /\ engine' = engine
      /\ irq' = irq /\ chan' = chan /\ armed' = armed /\ sync' = sync /\ event' = event /\ told' = told
      /\ ask' = ask /\ pins' = pins /\ copied' = copied
      /\ \/ work /\ wq = "idle" /\ wq' = "start" /\ ~ work'
         \/ wq = "start" /\ dma.idle /\ wq' = "idle" /\ work' = work
         \/ wq = "start" /\ ~ dma.idle /\ wq' = "update" /\ work' = work
  <2>1. ~ WqPollChannel /\ ~ WqPollAgain /\ wq # "polled"
    BY DEF Control, WqPollChannel, WqPollAgain
  <2>. QED
    BY <2>1 DEF WqTake, WqNothing, WqTransfer, mmdVars, boardVars, chanVars
<1>2. Control'
  BY <1>1 DEF Control, Quiet, Moving
<1>3. told => ~ work
  BY DEF Control, Events, Moving, Quiet
<1>4. Events'
  BY <1>1, <1>3 DEF Control, Events, Told, Moving, Quiet
<1>. QED
  BY <1>1, <1>2, <1>4

\* ... at its end, ...
LEMMA FinishControl ==
  ASSUME Plain, Records, Control, Events, WqFinish \/ WqSignal
  PROVE  Control' /\ Events'
<1>1. CASE WqFinish
  <2>1. /\ wq = "update" /\ wq' = "signal" /\ host' = host /\ signals' = signals /\ flag' = flag
        /\ engine' = engine /\ irq' = irq /\ work' = work /\ chan' = chan /\ armed' = armed
        /\ sync' = sync /\ event' = event /\ told' = told
    BY <1>1 DEF WqFinish, mmdVars, boardVars, chanVars
  <2>2. dma'.idle = TRUE
    BY <1>1, FinishFields
  <2>3. Control'
    BY <2>1, <2>2 DEF Control, Quiet, Moving
  <2>4. Told /\ host \in {"off", "ready", "calling", "pr"} => FALSE
    BY <2>1 DEF Control, Quiet
  <2>5. Events'
    BY <2>1, <2>2, <2>4 DEF Events, Told
  <2>. QED
    BY <2>3, <2>5
<1>2. CASE WqSignal
  <2>1. /\ wq = "signal" /\ wq' = "idle" /\ host' = host /\ dma' = dma /\ signals' = signals + 1
        /\ flag' = flag /\ engine' = engine /\ irq' = irq /\ (work' <=> work \/ (chan /\ armed))
        /\ chan' = chan /\ armed' = armed /\ sync' = sync /\ event' = event /\ told' = told
    BY <1>2 DEF WqSignal, mmdVars, boardVars, chanVars
  <2>2. Control'
    BY <2>1 DEF Control, Quiet, Moving
  <2>3. signals' \in Nat
    BY <2>1 DEF Events
  <2>4. Told => signals = 0 /\ signals' = 1
    BY <2>1 DEF Events
  <2>5. Events'
    BY <2>1, <2>3, <2>4 DEF Events, Told
  <2>. QED
    BY <2>2, <2>5
<1>. QED
  BY <1>1, <1>2

\* ... and with the buffers.
LEMMA BufferControl ==
  ASSUME Plain, Records, Control, Events, WqBuffer \/ WqUnpinDone \/ WqPrePin
  PROVE  Control' /\ Events'
<1>1. /\ host' = host /\ signals' = signals /\ flag' = flag /\ engine' = engine /\ irq' = irq
      /\ work' = work /\ chan' = chan /\ armed' = armed /\ sync' = sync /\ event' = event
      /\ told' = told
      /\ \/ wq = "update" /\ wq' = "send"
         \/ wq \in {"sentPiece", "sentPages", "prePin"} /\ wq' \in {"idle", "prePin"}
  BY DEF WqBuffer, WqUnpinDone, WqPrePin, mmdVars, boardVars, chanVars
<1>2. dma'.idle = dma.idle /\ dma'.lastId = dma.lastId
  BY BufferFields, UnpinDoneFields, PrePinFields
<1>3. Control'
  BY <1>1, <1>2 DEF Control, Quiet, Moving
<1>4. Events'
  BY <1>1, <1>2 DEF Events, Told
<1>. QED
  BY <1>3, <1>4

-----------------------------------------------------------------------------
(* How far the transfer has come *)

\* The driver's record is about the transfer the host asked for, and of an
\* idle driver's transfer everything has been sent.
Asking ==
  /\ Busy => ask \in Transfers
  /\ ~ Busy => ask = NoTransfer
  /\ Moving => dma.off = ask.off /\ dma.len = ask.len
  /\ Moving /\ dma.idle => dma.sent = dma.len

\* The board's table is of the units that come next, all in the active buffer.
Flight(t) ==
  /\ t.current /\ t.dev = copied /\ t.host = dma.off + copied
  /\ t.len \in 1 .. dma.len /\ t.last \in Ids
  /\ dma.active.ptr /\ PageOf(t.host) >= dma.active.first
  /\ PageOf(t.host + t.len - 1) < dma.active.first + dma.active.pages

InFlight == IF engine = <<>> THEN 0 ELSE Head(engine).len

Position ==
  /\ (dma.off = 0 /\ dma.len = 0) \/ \E x \in Transfers : dma.off = x.off /\ dma.len = x.len
  /\ dma.sent \in Nat /\ dma.sent <= dma.len
  /\ copied \in Nat /\ copied + InFlight = dma.sent
  /\ \A t : engine = <<t>> => Flight(t)
  /\ dma.lastId \in Ids \cup {Reset} /\ dma.pageLast \in Ids /\ lastPtr \in Ids \cup {Reset}

InPages(b) == PagesOf(b) \subseteq Pages

\* Where the buffers are in the transfer
Stretches ==
  /\ dma.active.ptr => /\ Walks(dma.active, dma.off + dma.sent, dma.off + dma.len)
                       /\ InPages(dma.active)
  /\ wq = "send" => dma.active.ptr /\ dma.active.rem # 0 /\ dma.sent < dma.len
  /\ dma.prePinned.ptr =>
       dma.prePinned = Locked(dma.off + dma.sent, LockSize(dma.len - dma.sent, dma.pageLast))
  /\ dma.done.ptr => dma.done.rem \in 0 .. dma.done.pages /\ InPages(dma.done)

Known == Records /\ Asking /\ Position /\ Stretches

\* Before the first transfer
LEMMA KnownInit == Init => Known
<1>. SUFFICES ASSUME Init PROVE Known
  OBVIOUS
<1>1. /\ DOMAIN dma = DmaFields /\ dma.active = NoBuffer /\ dma.prePinned = NoBuffer
      /\ dma.done = NoBuffer /\ dma.idle /\ dma.off = 0 /\ dma.len = 0 /\ dma.sent = 0
      /\ dma.lastId = Reset /\ dma.pageLast = TableSize - 1
  BY DEF Init, DmaFields
<1>2. Records
  BY <1>1, NoBufferFields DEF Records
<1>3. host = "off" /\ ask = NoTransfer /\ engine = <<>> /\ copied = 0 /\ wq = "idle"
      /\ lastPtr \in Ids \cup {Reset}
  BY DEF Init
<1>4. Asking
  BY <1>3 DEF Asking, Busy, Moving
<1>5. Position
  BY <1>1, <1>3, Sizes DEF Position, InFlight
<1>6. Stretches
  BY <1>1, <1>3, NoBufferFields DEF Stretches
<1>. QED
  BY <1>2, <1>4, <1>5, <1>6 DEF Known

\* Addresses and lengths are natural numbers.
LEMMA Numbers ==
  ASSUME Position
  PROVE  dma.off \in Nat /\ dma.len \in Nat /\ dma.sent \in Nat /\ dma.len - dma.sent \in Nat
<1>1. dma.off \in Nat /\ dma.len \in Nat
  BY TransferAssumption DEF Position
<1>. QED
  BY <1>1 DEF Position

\* A step that neither sends nor copies
LEMMA PositionFrame ==
  ASSUME Position, SameTransfer, engine' = engine, copied' = copied, lastPtr' = lastPtr,
         dma'.lastId \in Ids \cup {Reset}, dma'.pageLast \in Ids,
         engine # <<>> => /\ dma'.active.ptr = dma.active.ptr /\ dma'.active.first = dma.active.first
                          /\ dma'.active.pages = dma.active.pages
  PROVE  Position'
<1>1. PICK o, l, s : o = dma.off /\ l = dma.len /\ s = dma.sent /\ o = dma'.off /\ l = dma'.len /\ s = dma'.sent
  BY DEF SameTransfer
<1>2. InFlight' = InFlight
  BY DEF InFlight
<1>3. ASSUME NEW t, engine' = <<t>> PROVE Flight(t)'
  <2>1. engine # <<>> /\ Flight(t)
    BY <1>3 DEF Position
  <2>. QED
    BY <1>1, <2>1 DEF Flight, PageOf
<1>. QED
  BY <1>1, <1>2, <1>3 DEF Position

\* A step that leaves the buffers alone
LEMMA StretchesFrame ==
  ASSUME Stretches, dma' = dma, wq' = wq \/ wq' # "send"
  PROVE  Stretches'
BY DEF Stretches, Walks, InPages, PagesOf, Pages, PageOf, Locked, LockSize

\* Steps of the host and the queue that leave the record and the board alone
LEMMA HostKnown ==
  ASSUME Known, Control, Events,
         \/ \E x \in Transfers, mode \in Modes : Request(x, mode)
         \/ ReturnBlocking \/ ReturnEvent \/ HandleSignal \/ PrFinish
         \/ \E p \in Parts : PrFrozen(p) \/ PrBadController(p) \/ PrStart(p)
         \/ StopFlushed \/ KernelDone \/ Interrupt
         \/ WqTake \/ WqPollChannel \/ WqPollAgain \/ WqNothing \/ WqTransfer \/ WqSignal
         \/ UNCHANGED vars
  PROVE  Known'
<1>1. /\ dma' = dma /\ engine' = engine /\ copied' = copied /\ lastPtr' = lastPtr
      /\ wq' = wq \/ wq' # "send"
  BY DEF Request, ReturnBlocking, ReturnEvent, HandleSignal, SyncChannel, PrFinish, PrFrozen,
         PrBadController, PrStart, StopFlushed, KernelDone, Interrupt, IrqEnter,
         IrqService, IrqQueue, vars, mmdVars, boardVars, prVars, chanVars,
         WqTake, WqPollChannel, WqPollAgain, WqNothing, WqTransfer, WqSignal
<1>2. \/ host' = host /\ ask' = ask
      \/ host' = "calling" /\ ask' \in Transfers
      \/ host' = "ready" /\ ask' = NoTransfer
      \/ host' = "ready" /\ ask' = ask /\ host = "pr"
      \/ host' = "pr" /\ host = "ready" /\ ask' = ask
      \/ host' = "drain" /\ host = "flush" /\ ask' = ask
  BY DEF Request, ReturnBlocking, ReturnEvent, HandleSignal, SyncChannel, PrFinish, PrFrozen,
         PrBadController, PrStart, StopFlushed, KernelDone, Interrupt, IrqEnter,
         IrqService, IrqQueue, vars, mmdVars, boardVars, prVars, chanVars,
         WqTake, WqPollChannel, WqPollAgain, WqNothing, WqTransfer, WqSignal
<1>3. Records' /\ SameTransfer
  BY <1>1 DEF Known, Records, SameTransfer
<1>4. Asking'
  BY <1>1, <1>2 DEF Known, Asking, Busy, Moving, NoTransfer
<1>5. Position'
  BY <1>1, <1>3, PositionFrame DEF Known, Position
<1>6. Stretches'
  BY <1>1, StretchesFrame DEF Known
<1>. QED
  BY <1>3, <1>4, <1>5, <1>6 DEF Known

\* A transfer begins with no buffer.
LEMMA CallKnown ==
  ASSUME PinInv, Known, Control, CallDriver, engine' = <<>>
  PROVE  Known'
<1>1. /\ Records' /\ SameBuffers
      /\ dma'.off = ask.off /\ dma'.len = ask.len /\ dma'.sent = 0 /\ dma'.idle = FALSE
      /\ dma'.pageLast = TableSize - 1 /\ dma'.lastId = lastPtr
  BY CallDriverFields DEF Known
<1>2. /\ host = "calling" /\ host' \in {"waiting", "polling"} /\ ask' = ask /\ copied' = 0
      /\ wq' = wq /\ lastPtr' = lastPtr
  BY DEF CallDriver
<1>3. ask \in Transfers /\ ask.len \in Nat
  BY <1>2, TransferAssumption DEF Known, Asking, Busy
<1>4. Asking'
  BY <1>1, <1>2, <1>3 DEF Asking, Busy, Moving
<1>5. Position'
  <2>1. InFlight' = 0
    BY DEF InFlight
  <2>2. copied' + InFlight' = dma'.sent
    BY <1>1, <1>2, <2>1
  <2>3. ASSUME NEW t, engine' = <<t>> PROVE FALSE
    BY <2>3
  <2>4. \E x \in Transfers : dma'.off = x.off /\ dma'.len = x.len
    BY <1>1, <1>3
  <2>5. dma'.sent \in Nat /\ dma'.sent <= dma'.len
    BY <1>1, <1>3
  <2>6. /\ dma'.lastId \in Ids \cup {Reset} /\ dma'.pageLast \in Ids
        /\ lastPtr' \in Ids \cup {Reset} /\ copied' \in Nat
    BY <1>1, <1>2, Sizes DEF Known, Position
  <2>. QED
    BY <2>2, <2>3, <2>4, <2>5, <2>6 DEF Position, Ids, Reset
<1>6. ~ dma.active.ptr /\ ~ dma.prePinned.ptr /\ ~ dma.done.ptr /\ wq # "send"
  BY <1>2 DEF PinInv, BufferInv, Control, Quiet
<1>7. Stretches'
  BY <1>1, <1>2, <1>6 DEF Stretches, SameBuffers
<1>. QED
  BY <1>1, <1>4, <1>5, <1>7 DEF Known

\* A transfer that is broken off keeps its buffers until they are given back.
LEMMA StopKnown ==
  ASSUME PinInv, Known, Control, DmaStop \/ StopDrained \/ Close \/ Open
  PROVE  Known'
<1>1. Records' /\ SameTransfer /\ dma'.pageLast = dma.pageLast
      /\ dma'.lastId \in {dma.lastId, Reset}
  BY DmaStopFields, DropAllFields, OpenFields DEF Known
<1>2. /\ engine' = engine /\ copied' = copied /\ wq' = wq /\ lastPtr' = lastPtr
      /\ host' \in {"flush", "closing", "off", "ready"}
      /\ ask' = NoTransfer \/ (ask' = ask /\ host \in {"drain", "closing", "off"})
  BY DEF DmaStop, StopDrained, Close, Open, boardVars
<1>3. Asking'
  BY <1>2 DEF Known, Asking, Busy, Moving, NoTransfer
<1>4. CASE DmaStop
  <2>1. SameBuffers
    BY <1>4, DmaStopFields DEF Known
  <2>2. Position'
    BY <1>1, <1>2, <2>1, PositionFrame DEF Known, Position, SameBuffers
  <2>3. Stretches'
    <3>1. PICK o, l, s : o = dma.off /\ l = dma.len /\ s = dma.sent /\ o = dma'.off /\ l = dma'.len /\ s = dma'.sent
      BY <1>1 DEF SameTransfer
    <3>. QED
      BY <1>1, <1>2, <2>1, <3>1 DEF Known, Stretches, SameBuffers, Walks, InPages, PagesOf, Pages,
         PageOf, Locked, LockSize
  <2>. QED
    BY <1>1, <1>3, <2>2, <2>3 DEF Known
<1>5. CASE ~ DmaStop
  <2>1. engine = <<>>
    <3>1. CASE StopDrained
      BY <3>1 DEF StopDrained, Drained, Control
    <3>2. CASE Close \/ Open
      BY <3>2 DEF Close, Open, Control, Quiet
    <3>. QED
      BY <1>5, <3>1, <3>2
  <2>2. Position'
    BY <1>1, <1>2, <2>1, PositionFrame DEF Known, Position
  <2>3. ~ dma.done.ptr /\ wq # "send"
    BY <1>5 DEF PinInv, BufferInv, StopDrained, Close, Open, Control, Quiet
  <2>4. ~ dma'.active.ptr /\ ~ dma'.prePinned.ptr /\ ~ dma'.done.ptr
    <3>1. CASE StopDrained \/ Close
      <4>1. DOMAIN dma.active = Fields /\ DOMAIN dma.prePinned = Fields /\ DOMAIN dma.done = Fields
        BY DEF Known, Records
      <4>2. /\ dma'.active = Dropped(dma.active) /\ dma'.prePinned = Dropped(dma.prePinned)
            /\ dma'.done = Dropped(dma.done)
        BY <3>1, DropAllFields DEF Known
      <4>. QED
        BY <4>1, <4>2, DroppedFields
    <3>2. CASE Open
      <4>1. dma'.active = NoBuffer /\ dma'.prePinned = dma.prePinned /\ dma'.done = dma.done
        BY <3>2, OpenFields DEF Known
      <4>2. ~ dma.prePinned.ptr
        BY <3>2 DEF PinInv, BufferInv, Open
      <4>. QED
        BY <4>1, <4>2, <2>3, NoBufferFields
    <3>. QED
      BY <1>5, <3>1, <3>2
  <2>5. Stretches'
    BY <2>3, <2>4, <1>2 DEF Stretches
  <2>. QED
    BY <1>1, <1>3, <2>2, <2>5 DEF Known
<1>. QED
  BY <1>4, <1>5

\* The board copies what its table says and nothing is left in flight.
LEMMA EngineKnown ==
  ASSUME Known, Control, EngineDone
  PROVE  /\ Known' /\ UNCHANGED <<host, ask>>
         /\ \/ Moving /\ \E n \in 1 .. ask.len : copied' = copied + n /\ copied + n <= ask.len
            \/ host \in {"flush", "drain"}
<1>1. /\ engine # <<>> /\ engine' = Tail(engine)
      /\ copied' = (IF Head(engine).current THEN copied + Head(engine).len ELSE copied)
      /\ dma' = dma /\ host' = host /\ ask' = ask /\ wq' = wq /\ lastPtr' = lastPtr
  BY DEF EngineDone, mmdVars
<1>2. PICK t : engine = <<t>>
  BY <1>1 DEF Control
<1>3. engine' = <<>> /\ Head(engine) = t
  BY <1>1, <1>2
<1>4. Flight(t)
  BY <1>2 DEF Known, Position
<1>5. PICK n : n = t.len
  OBVIOUS
<1>6. n \in 1 .. dma.len /\ copied' = copied + n /\ InFlight = n
  BY <1>1, <1>3, <1>4, <1>5 DEF Flight, InFlight
<1>7. /\ dma.len \in Nat /\ dma.sent \in Nat /\ dma.sent <= dma.len
      /\ copied \in Nat /\ copied + n = dma.sent
  BY <1>6, Numbers DEF Known, Position
<1>8. Asking'
  BY <1>1 DEF Known, Asking, Busy, Moving
<1>9. Position'
  <2>1. InFlight' = 0
    BY <1>3 DEF InFlight
  <2>2. copied' \in Nat /\ copied' + InFlight' = dma'.sent
    BY <1>1, <1>6, <1>7, <2>1
  <2>3. ASSUME NEW x, engine' = <<x>> PROVE FALSE
    BY <2>3, <1>3
  <2>. QED
    BY <1>1, <2>2, <2>3 DEF Known, Position
<1>10. Stretches' /\ Records'
  BY <1>1, StretchesFrame DEF Known, Records
<1>11. host \notin {"off", "ready", "calling", "pr", "closing"}
  BY <1>1 DEF Control, Quiet
<1>12. Moving \/ host \in {"flush", "drain"}
  BY <1>11 DEF Control, Moving
<1>13. ASSUME Moving
       PROVE  \E m \in 1 .. ask.len : copied' = copied + m /\ copied + m <= ask.len
  <2>1. ask.len = dma.len
    BY <1>13 DEF Known, Asking
  <2>. QED
    BY <2>1, <1>6, <1>7
<1>. QED
  BY <1>1, <1>8, <1>9, <1>10, <1>12, <1>13 DEF Known

\* When nothing remains, everything has been sent.
LEMMA FinishKnown ==
  ASSUME PinInv, Known, Control, WqFinish
  PROVE  Known'
<1>1. /\ Records' /\ SameTransfer /\ dma'.idle = TRUE /\ dma'.lastId = Reset
      /\ dma'.pageLast = TableSize - 1
      /\ dma'.active = Dropped(dma.active) /\ dma'.prePinned = dma.prePinned
      /\ dma'.done = Dropped(dma.done)
  BY FinishFields DEF Known
<1>2. /\ wq = "update" /\ wq' = "signal" /\ ask' = ask /\ host' = host
      /\ engine' = engine /\ copied' = copied /\ lastPtr' = lastPtr
      /\ dma.len - dma.sent = 0
  BY DEF WqFinish, mmdVars, boardVars, Remaining
<1>3. engine = <<>>
  BY <1>2 DEF Control
<1>4. dma.sent = dma.len
  BY <1>2, Numbers DEF Known
<1>5. Asking'
  BY <1>1, <1>2, <1>4 DEF Known, Asking, Busy, Moving, SameTransfer
<1>6. Position'
  BY <1>1, <1>2, <1>3, Sizes, PositionFrame DEF Known
<1>7. ~ dma'.active.ptr /\ ~ dma'.prePinned.ptr /\ ~ dma'.done.ptr
  <2>1. ~ dma.prePinned.ptr
    BY <1>2 DEF PinInv, BufferInv
  <2>2. DOMAIN dma.active = Fields /\ DOMAIN dma.done = Fields
    BY DEF Known, Records
  <2>. QED
    BY <1>1, <2>1, <2>2, DroppedFields
<1>8. Stretches'
  BY <1>2, <1>7 DEF Stretches
<1>. QED
  BY <1>1, <1>5, <1>6, <1>8 DEF Known

\* The stretch that comes next is in the transfer's pages.
LEMMA StretchInPages ==
  ASSUME Position, NEW u \in Nat, NEW r \in Nat, NEW n \in 1 .. r,
         u = dma.off + dma.sent, r = dma.len - dma.sent, NEW b, PagesOf(b) = PageOf(u) .. PageOf(u + n - 1)
  PROVE  InPages(b)
<1>1. PICK o \in Nat, l \in Nat, s \in Nat : o = dma.off /\ l = dma.len /\ s = dma.sent
  BY Numbers
<1>2. o <= u /\ u + r = o + l /\ l > 0
  <2>1. u = o + s /\ r = l - s
    BY <1>1
  <2>2. r >= 1
    OBVIOUS
  <2>. QED
    BY <2>1, <2>2
<1>3. PICK x \in Transfers : dma.off = x.off /\ dma.len = x.len
  BY <1>1, <1>2 DEF Position
<1>4. PICK v \in Nat, w \in Nat : v = u + n - 1 /\ w = o + l - 1
  <2>1. u + n - 1 \in Nat /\ o + l - 1 \in Nat
    BY <1>2
  <2>. QED
    BY <2>1
<1>5. v <= w
  <2>1. n <= r /\ n \in Nat
    OBVIOUS
  <2>. QED
    BY <2>1, <1>2, <1>4
<1>6. PageOf(o) \in Nat /\ PageOf(o) <= PageOf(u) /\ PageOf(u) \in Nat
  BY <1>2, LaterPage
<1>7. PageOf(v) \in Nat /\ PageOf(v) <= PageOf(w) /\ PageOf(w) \in Nat
  <2>1. w <= w
    OBVIOUS
  <2>2. PageOf(w) \in Nat
    BY <2>1, LaterPage
  <2>3. PageOf(v) \in Nat /\ PageOf(v) <= PageOf(w)
    BY <1>5, LaterPage
  <2>. QED
    BY <2>2, <2>3
<1>8. PageOf(u) .. PageOf(v) \subseteq PageOf(o) .. PageOf(w)
  BY <1>6, <1>7
<1>9. PageOf(o) .. PageOf(w) \subseteq Pages
  BY <1>1, <1>3, <1>4 DEF Pages
<1>10. PagesOf(b) = PageOf(u) .. PageOf(v)
  BY <1>4
<1>. QED
  BY <1>8, <1>9, <1>10 DEF InPages

\* The pages a stretch that has been walked to its end still holds
LEMMA WalkedPages ==
  ASSUME NEW b, NEW u, NEW e, Walks(b, u, e)
  PROVE  b.rem \in 0 .. b.pages
BY DEF Walks

\* The next buffer begins where the transfer has come to.
LEMMA BufferKnown ==
  ASSUME PinInv, Known, Control, WqBuffer
  PROVE  Known'
<1>1. /\ wq = "update" /\ wq' = "send" /\ host' = host /\ ask' = ask /\ dma.len - dma.sent > 0
      /\ engine' = engine /\ copied' = copied /\ lastPtr' = lastPtr
  BY DEF WqBuffer, mmdVars, boardVars, Remaining
<1>2. engine = <<>> /\ ~ dma.done.ptr
  BY <1>1 DEF Control, PinInv, BufferInv
<1>3. /\ dma.off \in Nat /\ dma.len \in Nat /\ dma.sent \in Nat /\ dma.len - dma.sent \in Nat
      /\ dma.sent < dma.len
  BY <1>1, Numbers DEF Known
<1>4. CASE dma.active.ptr /\ dma.active.rem # 0 /\ dma' = dma
  <2>1. Records' /\ SameTransfer
    BY <1>4 DEF Known, Records, SameTransfer
  <2>2. Position'
    BY <1>1, <1>4, <2>1, PositionFrame DEF Known, Position
  <2>3. Asking'
    BY <1>1, <1>4 DEF Known, Asking, Busy, Moving
  <2>4. Stretches'
    BY <1>1, <1>3, <1>4 DEF Known, Stretches, Walks, InPages, PagesOf, Pages, PageOf, Locked, LockSize
  <2>. QED
    BY <2>1, <2>2, <2>3, <2>4 DEF Known
<1>5. CASE /\ ~ (dma.active.ptr /\ dma.active.rem # 0)
           /\ Records' /\ SameTransfer /\ dma'.idle = dma.idle
           /\ dma'.lastId = dma.lastId /\ dma'.pageLast = dma.pageLast
           /\ dma'.active = Begun(NextBuffer) /\ dma'.prePinned = Dropped(dma.prePinned)
           /\ dma'.done = IF dma.active.rem = 0 THEN dma.active ELSE dma.done
  <2>1. PICK o \in Nat, l \in Nat, s \in Nat :
          o = dma.off /\ l = dma.len /\ s = dma.sent /\ o = dma'.off /\ l = dma'.len /\ s = dma'.sent
    BY <1>3, <1>5 DEF SameTransfer
  <2>2. PICK n : n = LockSize(l - s, dma.pageLast)
    OBVIOUS
  <2>3. NextBuffer = Locked(o + s, n)
    BY <2>1, <2>2 DEF NextBuffer, Known, Stretches, HostAddr, Remaining
  <2>4. PICK b : b = Begun(Locked(o + s, n))
    OBVIOUS
  <2>5. PICK u \in Nat, r \in Nat : u = o + s /\ r = l - s /\ r > 0 /\ u + r = o + l
    <3>1. o + s \in Nat /\ l - s \in Nat /\ l - s > 0 /\ (o + s) + (l - s) = o + l
      BY <1>3, <2>1
    <3>. QED
      BY <3>1
  <2>6. /\ b.ptr /\ b.rem \in Nat \ {0} /\ Walks(b, u, u + r)
        /\ PagesOf(b) = PageOf(u) .. PageOf(u + n - 1)
        /\ n \in 1 .. r
    <3>1. PICK p \in Ids : p = dma.pageLast
      BY DEF Known, Position
    <3>2. n = LockSize(r, p) /\ b = Begun(Locked(u, n)) /\ r > 0
      BY <3>1, <2>2, <2>4, <2>5
    <3>3. b.ptr
      BY <2>5, <3>1, <3>2, BegunWalks
    <3>4. b.rem \in Nat \ {0} /\ Walks(b, u, u + r)
      BY <2>5, <3>1, <3>2, BegunWalks
    <3>5. PagesOf(b) = PageOf(u) .. PageOf(u + n - 1) /\ n \in 1 .. r
      BY <2>5, <3>1, <3>2, BegunWalks
    <3>. QED
      BY <3>3, <3>4, <3>5
  <2>7. dma'.active = b /\ Walks(b, o + s, o + l)
    BY <1>5, <2>3, <2>4, <2>5, <2>6
  <2>8. InPages(b)
    BY <2>1, <2>5, <2>6, StretchInPages DEF Known
  <2>9. ~ dma'.prePinned.ptr
    BY <1>5, DroppedFields DEF Known, Records
  <2>10. dma'.done.ptr => dma'.done = dma.active /\ dma.active.ptr
    BY <1>2, <1>5
  <2>11. dma'.done.ptr => dma'.done.rem \in 0 .. dma'.done.pages /\ InPages(dma'.done)
    BY <2>10, WalkedPages DEF Known, Stretches
  <2>12. Stretches'
    <3>1. InPages(dma'.active)
      BY <2>7, <2>8
    <3>2. Walks(dma'.active, dma'.off + dma'.sent, dma'.off + dma'.len)
      BY <2>1, <2>7
    <3>3. dma'.active.ptr /\ dma'.active.rem # 0 /\ dma'.sent < dma'.len
      BY <1>3, <2>1, <2>6, <2>7
    <3>. QED
      BY <3>1, <3>2, <3>3, <2>9, <2>11 DEF Stretches, Walks, InPages, PagesOf, Pages, PageOf
  <2>13. Position'
    BY <1>1, <1>2, <1>5, PositionFrame DEF Known, Position
  <2>14. Asking'
    BY <1>1, <1>5 DEF Known, Asking, Busy, Moving, SameTransfer
  <2>. QED
    BY <1>5, <2>12, <2>13, <2>14 DEF Known
<1>. QED
  BY <1>4, <1>5, BufferFields DEF Known

\* Giving back and pinning ahead leave the active buffer alone.
LEMMA PinsKnown ==
  ASSUME PinInv, Known, Control, WqUnpinDone \/ WqPrePin
  PROVE  Known'
<1>1. /\ Records' /\ SameTransfer /\ dma'.idle = dma.idle
      /\ dma'.lastId = dma.lastId /\ dma'.pageLast = dma.pageLast /\ dma'.active = dma.active
  BY UnpinDoneFields, PrePinFields DEF Known
<1>2. /\ wq' # "send" /\ host' = host /\ ask' = ask
      /\ engine' = engine /\ copied' = copied /\ lastPtr' = lastPtr
  BY DEF WqUnpinDone, WqPrePin, mmdVars, boardVars
<1>3. Position'
  BY <1>1, <1>2, PositionFrame DEF Known, Position
<1>4. Asking'
  BY <1>1, <1>2 DEF Known, Asking, Busy, Moving, SameTransfer
<1>5. PICK o, l, s : o = dma.off /\ l = dma.len /\ s = dma.sent /\ o = dma'.off /\ l = dma'.len /\ s = dma'.sent
  BY <1>1 DEF SameTransfer
<1>6. dma'.active.ptr => Walks(dma'.active, dma'.off + dma'.sent, dma'.off + dma'.len) /\ InPages(dma'.active)
  BY <1>1, <1>5 DEF Known, Stretches
<1>7. CASE WqUnpinDone
  <2>1. dma'.prePinned = dma.prePinned /\ ~ dma'.done.ptr
    <3>1. dma'.prePinned = dma.prePinned /\ dma'.done = Dropped(dma.done) /\ DOMAIN dma.done = Fields
      BY <1>7, UnpinDoneFields DEF Known, Records
    <3>. QED
      BY <3>1, DroppedFields
  <2>2. dma'.prePinned.ptr =>
          dma'.prePinned = Locked(dma'.off + dma'.sent, LockSize(dma'.len - dma'.sent, dma'.pageLast))
    BY <1>1, <1>5, <2>1 DEF Known, Stretches
  <2>3. Stretches'
    BY <1>2, <1>6, <2>1, <2>2 DEF Stretches, Walks, InPages, PagesOf, Pages, PageOf, Locked, LockSize
  <2>. QED
    BY <1>1, <1>3, <1>4, <2>3 DEF Known
<1>8. CASE WqPrePin
  <2>1. PICK b : b = Locked(HostAddr, LockSize(Remaining, dma.pageLast))
    OBVIOUS
  <2>2. dma'.prePinned = b /\ dma'.done = dma.done
    BY <1>8, <2>1, PrePinFields DEF Known
  <2>3. dma'.prePinned = Locked(dma'.off + dma'.sent, LockSize(dma'.len - dma'.sent, dma'.pageLast))
    BY <1>1, <1>5, <2>1, <2>2 DEF HostAddr, Remaining
  <2>4. ~ dma.done.ptr
    BY <1>8 DEF PinInv, BufferInv, WqPrePin
  <2>5. Stretches'
    BY <1>2, <1>6, <2>2, <2>3, <2>4 DEF Stretches, Walks, InPages, PagesOf, Pages, PageOf, Locked, LockSize
  <2>. QED
    BY <1>1, <1>3, <1>4, <2>5 DEF Known
<1>. QED
  BY <1>7, <1>8

\* A table of the next n units, and the active buffer after them
Sent(n, id) ==
  /\ Send(n, id) /\ wq = "send" /\ wq' \in {"sentPiece", "sentPages"}
  /\ UNCHANGED <<host, ask, event, told, signals, pins, copied, irq, work, chan, armed, sync>>
  /\ n \in 1 .. dma.len - dma.sent /\ id \in Ids
  /\ dma.off + dma.sent = dma.active.next * PageUnits + dma.active.off
  /\ PageOf(dma.off + dma.sent) >= dma.active.first
  /\ PageOf(dma.off + dma.sent + n - 1) < dma.active.first + dma.active.pages
  /\ Records' /\ dma'.off = dma.off /\ dma'.len = dma.len /\ dma'.sent = dma.sent + n
  /\ dma'.idle = dma.idle /\ dma'.lastId = id /\ dma'.pageLast \in Ids
  /\ dma'.prePinned = dma.prePinned /\ dma'.done = dma.done
  /\ dma'.active.ptr = dma.active.ptr /\ dma'.active.first = dma.active.first
  /\ dma'.active.pages = dma.active.pages
  /\ Walks(dma'.active, dma.off + dma.sent + n, dma.off + dma.len)

\* A piece of a page is a table of the next units, ...
LEMMA PieceSent ==
  ASSUME Known, WqSendPiece
  PROVE  \E n, id : Sent(n, id)
<1>1. PICK u \in Nat, e \in Nat, r \in Nat :
        u = dma.off + dma.sent /\ e = dma.off + dma.len /\ r = dma.len - dma.sent /\ e - u = r
  <2>1. dma.off \in Nat /\ dma.len \in Nat /\ dma.sent \in Nat /\ dma.len - dma.sent \in Nat
    BY Numbers DEF Known
  <2>2. /\ dma.off + dma.sent \in Nat /\ dma.off + dma.len \in Nat
        /\ (dma.off + dma.len) - (dma.off + dma.sent) = dma.len - dma.sent
    BY <2>1
  <2>. QED
    BY <2>1, <2>2
<1>2. wq = "send" /\ dma.active.ptr /\ dma.active.rem # 0 /\ dma.sent < dma.len /\ Walks(dma.active, u, e)
  BY <1>1 DEF WqSendPiece, Known, Stretches
<1>3. u < e
  <2>1. dma.off \in Nat /\ dma.len \in Nat /\ dma.sent \in Nat
    BY Numbers DEF Known
  <2>. QED
    BY <2>1, <1>1, <1>2
<1>4. PICK size : size = FirstSize(dma.active, r)
  OBVIOUS
<1>5. PICK n : n = Piece(size)
  OBVIOUS
<1>6. size = FirstSize(dma.active, Remaining) /\ size \notin {0, PageUnits}
  BY <1>1, <1>4 DEF Remaining, WqSendPiece
<1>7. PICK b : b = dma.active
  OBVIOUS
<1>8. PICK c : c = AfterPiece(b, n, size)
  OBVIOUS
<1>9. size = FirstSize(b, e - u) /\ DOMAIN b = Fields /\ Walks(b, u, e) /\ b.rem # 0
  BY <1>1, <1>2, <1>4, <1>7 DEF Known, Records
<1>10. /\ n \in 1 .. e - u /\ Walks(c, u + n, e) /\ u = b.next * PageUnits + b.off
  BY <1>1, <1>3, <1>5, <1>6, <1>8, <1>9, PieceWalks
<1>11. PageOf(u) >= b.first /\ PageOf(u + n - 1) < b.first + b.pages
  BY <1>1, <1>3, <1>5, <1>6, <1>8, <1>9, PieceWalks
<1>12. DOMAIN c = Fields /\ c.ptr = b.ptr /\ c.first = b.first /\ c.pages = b.pages
  BY <1>8, <1>9, AfterFields
<1>13. PICK id : id = StartId(dma.lastId)
  OBVIOUS
<1>14. id \in Ids
  BY <1>13, StartIdInTable DEF Known, Position
<1>15. /\ Records' /\ dma'.off = dma.off /\ dma'.len = dma.len /\ dma'.sent = dma.sent + n
       /\ dma'.idle = dma.idle /\ dma'.lastId = id /\ dma'.pageLast = dma.pageLast
       /\ dma'.active = c /\ dma'.prePinned = dma.prePinned /\ dma'.done = dma.done
  BY <1>5, <1>6, <1>7, <1>8, <1>13, SendPieceFields DEF Known
<1>16. /\ Send(n, id) /\ wq' = "sentPiece"
       /\ UNCHANGED <<host, ask, event, told, signals, pins, copied, irq, work, chan, armed, sync>>
  BY <1>5, <1>6, <1>13 DEF WqSendPiece, mmdVars, chanVars
<1>17. dma'.pageLast \in Ids
  BY <1>15 DEF Known, Position
<1>18. n \in 1 .. dma.len - dma.sent
  BY <1>1, <1>10
<1>19. dma.off + dma.sent = dma.active.next * PageUnits + dma.active.off
  BY <1>1, <1>7, <1>10
<1>20. /\ PageOf(dma.off + dma.sent) >= dma.active.first
       /\ PageOf(dma.off + dma.sent + n - 1) < dma.active.first + dma.active.pages
  BY <1>1, <1>7, <1>11
<1>21. Walks(dma'.active, dma.off + dma.sent + n, dma.off + dma.len)
  BY <1>1, <1>10, <1>15
<1>22. /\ dma'.active.ptr = dma.active.ptr /\ dma'.active.first = dma.active.first
       /\ dma'.active.pages = dma.active.pages
  BY <1>7, <1>12, <1>15
<1>23. Sent(n, id)
  BY <1>2, <1>14, <1>15, <1>16, <1>17, <1>18, <1>19, <1>20, <1>21, <1>22 DEF Sent
<1>. QED
  BY <1>23

\* ... and so are whole pages.
LEMMA PagesSent ==
  ASSUME Known, WqSendPages
  PROVE  \E n, id : Sent(n, id)
<1>1. PICK u \in Nat, e \in Nat, r \in Nat :
        u = dma.off + dma.sent /\ e = dma.off + dma.len /\ r = dma.len - dma.sent /\ e - u = r
  <2>1. dma.off \in Nat /\ dma.len \in Nat /\ dma.sent \in Nat /\ dma.len - dma.sent \in Nat
    BY Numbers DEF Known
  <2>2. /\ dma.off + dma.sent \in Nat /\ dma.off + dma.len \in Nat
        /\ (dma.off + dma.len) - (dma.off + dma.sent) = dma.len - dma.sent
    BY <2>1
  <2>. QED
    BY <2>1, <2>2
<1>2. wq = "send" /\ dma.active.ptr /\ dma.active.rem # 0 /\ dma.sent < dma.len /\ Walks(dma.active, u, e)
  BY <1>1 DEF WqSendPages, Known, Stretches
<1>3. u < e
  <2>1. dma.off \in Nat /\ dma.len \in Nat /\ dma.sent \in Nat
    BY Numbers DEF Known
  <2>. QED
    BY <2>1, <1>1, <1>2
<1>4. PICK b : b = dma.active
  OBVIOUS
<1>5. PICK start : start = StartId(dma.lastId)
  OBVIOUS
<1>6. start \in Ids
  BY <1>5, StartIdInTable DEF Known, Position
<1>7. PICK k : k = WholePages(b, start)
  OBVIOUS
<1>8. PICK c : c = AfterPages(b, k)
  OBVIOUS
<1>9. /\ FirstSize(b, e - u) \in {0, PageUnits} /\ DOMAIN b = Fields /\ Walks(b, u, e) /\ b.rem # 0
      /\ b.rem > b.partLast
  BY <1>1, <1>2, <1>4 DEF Known, Records, WqSendPages, Remaining
<1>10. k * PageUnits \in 1 .. e - u /\ Walks(c, u + k * PageUnits, e)
  BY <1>1, <1>3, <1>6, <1>7, <1>8, <1>9, PagesWalk
<1>11. u = b.next * PageUnits + b.off /\ start + k - 1 \in Ids
  BY <1>1, <1>3, <1>6, <1>7, <1>8, <1>9, PagesWalk
<1>12. PageOf(u) >= b.first /\ PageOf(u + k * PageUnits - 1) < b.first + b.pages
  BY <1>1, <1>3, <1>6, <1>7, <1>8, <1>9, PagesWalk
<1>13. DOMAIN c = Fields /\ c.ptr = b.ptr /\ c.first = b.first /\ c.pages = b.pages
  BY <1>8, <1>9, AfterFields
<1>14. PICK n, id : n = k * PageUnits /\ id = start + k - 1
  OBVIOUS
<1>15. /\ Records' /\ dma'.off = dma.off /\ dma'.len = dma.len /\ dma'.sent = dma.sent + n
       /\ dma'.idle = dma.idle /\ dma'.lastId = id /\ dma'.pageLast = id
       /\ dma'.active = c /\ dma'.prePinned = dma.prePinned /\ dma'.done = dma.done
  BY <1>4, <1>5, <1>7, <1>8, <1>14, SendPagesFields DEF Known
<1>16. /\ Send(n, id) /\ wq' = "sentPages"
       /\ UNCHANGED <<host, ask, event, told, signals, pins, copied, irq, work, chan, armed, sync>>
  BY <1>4, <1>5, <1>7, <1>14 DEF WqSendPages, mmdVars, chanVars
<1>17. id \in Ids /\ dma'.pageLast \in Ids
  BY <1>11, <1>14, <1>15
<1>18. n \in 1 .. dma.len - dma.sent
  BY <1>1, <1>10, <1>14
<1>19. dma.off + dma.sent = dma.active.next * PageUnits + dma.active.off
  BY <1>1, <1>4, <1>11
<1>20. /\ PageOf(dma.off + dma.sent) >= dma.active.first
       /\ PageOf(dma.off + dma.sent + n - 1) < dma.active.first + dma.active.pages
  BY <1>1, <1>4, <1>12, <1>14
<1>21. Walks(dma'.active, dma.off + dma.sent + n, dma.off + dma.len)
  BY <1>1, <1>10, <1>14, <1>15
<1>22. /\ dma'.active.ptr = dma.active.ptr /\ dma'.active.first = dma.active.first
       /\ dma'.active.pages = dma.active.pages
  BY <1>4, <1>13, <1>15
<1>23. Sent(n, id)
  BY <1>2, <1>15, <1>16, <1>17, <1>18, <1>19, <1>20, <1>21, <1>22 DEF Sent
<1>. QED
  BY <1>23

\* Sending the next units keeps everything in step.
LEMMA SentKeeps ==
  ASSUME PinInv, Known, Control, Events, NEW n, NEW id, Sent(n, id)
  PROVE  Known' /\ Control' /\ Events' /\ UNCHANGED <<host, ask, copied>>
<1>1. /\ wq = "send" /\ wq' \in {"sentPiece", "sentPages"}
      /\ host' = host /\ ask' = ask /\ event' = event /\ told' = told /\ signals' = signals
      /\ copied' = copied /\ irq' = irq /\ work' = work /\ chan' = chan /\ armed' = armed /\ sync' = sync
  BY DEF Sent
<1>2. engine = <<>> /\ ~ work /\ ~ flag
  BY <1>1 DEF Control
<1>3. PICK t : t = [host |-> dma.active.next * PageUnits + dma.active.off,
                   dev |-> dma.sent, len |-> n, last |-> id, current |-> TRUE]
  OBVIOUS
<1>4. engine' = <<t>> /\ flag' = FALSE /\ lastPtr' = id
  <2>1. engine' = Append(engine, t) /\ flag' = FALSE /\ lastPtr' = id
    BY <1>3 DEF Sent, Send
  <2>. QED
    BY <1>2, <2>1
<1>5. /\ t.current /\ t.dev = dma.sent /\ t.host = dma.off + dma.sent /\ t.len = n /\ t.last = id
  BY <1>3 DEF Sent
<1>6. PICK o \in Nat, l \in Nat, s \in Nat :
        /\ o = dma.off /\ l = dma.len /\ s = dma.sent /\ o = dma'.off /\ l = dma'.len /\ s + n = dma'.sent
        /\ s <= l /\ n \in 1 .. l - s
  BY Numbers DEF Known, Position, Sent
<1>7. copied = s
  <2>1. InFlight = 0
    BY <1>2 DEF InFlight
  <2>. QED
    BY <1>6, <2>1 DEF Known, Position
<1>8. /\ Records' /\ dma'.idle = dma.idle /\ dma'.lastId = id /\ dma'.pageLast \in Ids /\ id \in Ids
      /\ dma'.prePinned = dma.prePinned /\ dma'.done = dma.done
      /\ dma'.active.ptr = dma.active.ptr /\ dma'.active.first = dma.active.first
      /\ dma'.active.pages = dma.active.pages
  BY DEF Sent
<1>9. id # Reset
  BY <1>8, Sizes
<1>10. Control'
  <2>1. engine' # <<>>
    BY <1>4
  <2>. QED
    BY <1>1, <1>2, <1>4, <1>8, <1>9, <2>1 DEF Control, Quiet, Moving
<1>11. Events'
  BY <1>1, <1>8 DEF Events, Told
<1>12. ~ (Moving /\ dma.idle)
  BY <1>1 DEF Control, Quiet
<1>13. Asking'
  BY <1>1, <1>6, <1>8, <1>12 DEF Known, Asking, Busy, Moving
<1>14. dma.active.ptr
  BY <1>1 DEF Known, Stretches
<1>15. Flight(t)'
  <2>1. t.host = o + s /\ t.dev = copied' /\ t.host = dma'.off + copied'
    BY <1>1, <1>5, <1>6, <1>7
  <2>2. t.len \in 1 .. dma'.len
    BY <1>5, <1>6
  <2>3. PageOf(t.host) >= dma'.active.first
    BY <1>5, <1>8 DEF Sent
  <2>4. PageOf(t.host + t.len - 1) < dma'.active.first + dma'.active.pages
    BY <1>5, <1>8 DEF Sent
  <2>. QED
    BY <1>5, <1>8, <1>14, <2>1, <2>2, <2>3, <2>4 DEF Flight, PageOf, Ids
<1>16. Position'
  <2>1. InFlight' = n
    BY <1>4, <1>5 DEF InFlight
  <2>2. copied' \in Nat /\ copied' + InFlight' = dma'.sent /\ dma'.sent \in Nat /\ dma'.sent <= dma'.len
    BY <1>1, <1>6, <1>7, <2>1
  <2>3. ASSUME NEW x, engine' = <<x>> PROVE Flight(x)'
    <3>1. x = t
      BY <1>4, <2>3
    <3>. QED
      BY <1>15, <3>1
  <2>4. (dma'.off = 0 /\ dma'.len = 0) \/ \E x \in Transfers : dma'.off = x.off /\ dma'.len = x.len
    BY <1>6 DEF Known, Position
  <2>5. /\ dma'.lastId \in Ids \cup {Reset} /\ dma'.pageLast \in Ids
        /\ lastPtr' \in Ids \cup {Reset}
    BY <1>4, <1>8
  <2>. QED
    BY <2>2, <2>3, <2>4, <2>5 DEF Position, Ids, Reset
<1>17. Stretches'
  <2>1. Walks(dma'.active, dma'.off + dma'.sent, dma'.off + dma'.len)
    <3>1. o + (s + n) = o + s + n
      BY <1>6
    <3>2. Walks(dma'.active, o + s + n, o + l)
      BY <1>6 DEF Sent
    <3>. QED
      BY <1>6, <3>1, <3>2
  <2>2. InPages(dma'.active)
    BY <1>8, <1>14 DEF Known, Stretches, InPages, PagesOf
  <2>3. ~ dma'.prePinned.ptr
    BY <1>1, <1>8 DEF PinInv, BufferInv
  <2>4. dma'.done.ptr => dma'.done.rem \in 0 .. dma'.done.pages /\ InPages(dma'.done)
    BY <1>8 DEF Known, Stretches
  <2>5. wq' # "send"
    BY <1>1
  <2>. QED
    BY <2>1, <2>2, <2>3, <2>4, <2>5 DEF Stretches, Walks, InPages, PagesOf, Pages, PageOf
<1>. QED
  BY <1>1, <1>8, <1>10, <1>11, <1>13, <1>16, <1>17 DEF Known

-----------------------------------------------------------------------------
(* The invariant and what follows from it *)

PlainInv == PinInv /\ Known /\ Control /\ Events

\* The invariant holds at first.
LEMMA PlainInit == Init => PlainInv
BY PinInvInit, KnownInit, ControlInit DEF PlainInv

\* Stuttering
LEMMA StutterControl ==
  ASSUME Control, Events, UNCHANGED vars
  PROVE  Control' /\ Events'
<1>1. UNCHANGED <<host, ask, event, told, signals, dma, flag, engine, irq, work, wq, chan, armed, sync>>
  BY DEF vars, mmdVars, boardVars, chanVars
<1>. QED
  BY <1>1 DEF Control, Events, Quiet, Moving, Told

\* Every step keeps the invariant.
LEMMA PlainNext == ASSUME Plain PROVE PlainInv /\ [Next]_vars => PlainInv'
<1>. SUFFICES ASSUME PlainInv, [Next]_vars PROVE PlainInv'
  OBVIOUS
<1>1. PinInv /\ Known /\ Control /\ Events /\ Records
  BY DEF PlainInv, Known
<1>2. PinInv'
  BY <1>1, StepKeepsPins
<1>3. Known' /\ Control' /\ Events'
  <2>1. CASE \E x \in Transfers, mode \in Modes : Request(x, mode)
    BY <2>1, <1>1, RequestControl, HostKnown
  <2>2. CASE CallDriver
    BY <2>2, <1>1, CallControl, CallKnown
  <2>3. CASE ReturnBlocking \/ ReturnEvent \/ PrFinish
             \/ \E p \in Parts : PrFrozen(p) \/ PrBadController(p) \/ PrStart(p)
    <3>1. Known'
      BY <2>3, <1>1, HostKnown
    <3>2. Control' /\ Events'
      BY <2>3, <1>1, HostControl
    <3>. QED
      BY <3>1, <3>2
  <2>4. CASE HandleSignal
    BY <2>4, <1>1, SignalControl, HostKnown
  <2>5. ~ OpenChannel /\ ~ SyncChannel
    BY <1>1 DEF Plain, OpenChannel, SyncChannel, Control
  <2>6. CASE DmaStop \/ StopDrained \/ Close \/ Open
    <3>1. Known'
      BY <2>6, <1>1, StopKnown
    <3>2. Control' /\ Events'
      BY <2>6, <1>1, StopControl, CloseControl, HostControl
    <3>. QED
      BY <3>1, <3>2
  <2>7. CASE StopFlushed
    BY <2>7, <1>1, StopControl, HostKnown
  <2>8. CASE EngineDone
    BY <2>8, <1>1, BoardControl, EngineKnown
  <2>9. CASE KernelDone \/ Interrupt
    <3>1. Known'
      BY <2>9, <1>1, HostKnown
    <3>2. Control' /\ Events'
      BY <2>9, <1>1, BoardControl
    <3>. QED
      BY <3>1, <3>2
  <2>10. CASE WorkQueue
    <3>1. CASE WqTake \/ WqPollChannel \/ WqPollAgain \/ WqNothing \/ WqTransfer
      <4>1. Known'
        BY <3>1, <1>1, HostKnown
      <4>2. Control' /\ Events'
        BY <3>1, <1>1, QueueControl
      <4>. QED
        BY <4>1, <4>2
    <3>2. CASE WqFinish
      BY <3>2, <1>1, FinishControl, FinishKnown
    <3>3. CASE WqSignal
      BY <3>3, <1>1, FinishControl, HostKnown
    <3>4. CASE WqBuffer
      BY <3>4, <1>1, BufferControl, BufferKnown
    <3>5. CASE WqUnpinDone \/ WqPrePin
      BY <3>5, <1>1, BufferControl, PinsKnown
    <3>6. CASE WqSendPiece \/ WqSendPages
      BY <3>6, <1>1, PieceSent, PagesSent, SentKeeps
    <3>. QED
      BY <2>10, <3>1, <3>2, <3>3, <3>4, <3>5, <3>6 DEF WorkQueue
  <2>11. CASE UNCHANGED vars
    BY <2>11, <1>1, StutterControl, HostKnown
  <2>. QED
    BY <2>1, <2>2, <2>3, <2>4, <2>5, <2>6, <2>7, <2>8, <2>9, <2>10, <2>11 DEF Next, HostReturns
<1>. QED
  BY <1>2, <1>3 DEF PlainInv

\* The board never reads a page that is given back.
LEMMA FlightPinned == PlainInv => PinnedWhileBusy
<1>. SUFFICES ASSUME PlainInv, NEW n \in DOMAIN engine, NEW u \in 1 .. engine[n].len
              PROVE  pins[PageOf(engine[n].host + u - 1)] > 0
  BY DEF PinnedWhileBusy
<1>1. PICK t : engine = <<t>>
  BY DEF PlainInv, Control
<1>2. engine[n] = t
  BY <1>1
<1>3. Flight(t)
  BY <1>1 DEF PlainInv, Known, Position
<1>4. PICK x \in Nat, k \in Nat : x = t.host /\ k = t.len /\ u \in 1 .. k
  <2>1. dma.off \in Nat /\ copied \in Nat /\ t.host = dma.off + copied /\ t.len \in 1 .. dma.len /\ dma.len \in Nat
    BY <1>3, Numbers DEF PlainInv, Known, Position, Flight
  <2>2. t.host \in Nat /\ t.len \in Nat
    BY <2>1
  <2>. QED
    BY <1>2, <2>2
<1>5. PICK v \in Nat, w \in Nat : v = x + u - 1 /\ w = x + k - 1
  <2>1. x + u - 1 \in Nat /\ x + k - 1 \in Nat
    BY <1>4
  <2>. QED
    BY <2>1
<1>6. x <= v /\ v <= w
  BY <1>4, <1>5
<1>7. PageOf(x) \in Nat /\ PageOf(x) <= PageOf(v) /\ PageOf(v) \in Nat /\ PageOf(v) <= PageOf(w)
  BY <1>6, LaterPage
<1>8. PICK f \in Nat, g \in Nat : f = dma.active.first /\ g = dma.active.pages
  <2>1. dma.active.ptr
    BY <1>3 DEF Flight
  <2>2. dma.active.first \in Nat /\ dma.active.pages \in Nat
    BY <2>1 DEF PlainInv, Known, Stretches, Walks
  <2>. QED
    BY <2>2
<1>9. PageOf(x) >= f /\ PageOf(w) < f + g
  BY <1>3, <1>4, <1>5, <1>8 DEF Flight
<1>10. PageOf(w) \in Nat
  <2>1. w <= w
    OBVIOUS
  <2>. QED
    BY <2>1, LaterPage
<1>11. PageOf(v) \in f .. (f + g - 1)
  BY <1>7, <1>9, <1>10
<1>12. PageOf(v) \in PagesOf(dma.active)
  BY <1>8, <1>11 DEF PagesOf
<1>13. PageOf(v) \in Pages /\ dma.active.ptr
  BY <1>3, <1>12 DEF PlainInv, Known, Stretches, Flight, InPages
<1>14. PICK p \in Pages : p = PageOf(v)
  BY <1>13
<1>15. Counts(dma.active, p) = 1
  BY <1>12, <1>13, <1>14 DEF Counts
<1>16. pins[p] = Counts(dma.active, p) + Counts(dma.prePinned, p) + Counts(dma.done, p)
  BY DEF PlainInv, PinInv, PinCount
<1>17. pins[p] > 0
  BY <1>15, <1>16, CountBounds
<1>. QED
  BY <1>2, <1>4, <1>5, <1>14, <1>17

\* The one table there is has the units that come next.
LEMMA FlightInOrder == PlainInv => CopiesInOrder
<1>. SUFFICES ASSUME PlainInv PROVE CopiesInOrder
  OBVIOUS
<1>1. CASE engine = <<>>
  BY <1>1 DEF CopiesInOrder
<1>2. CASE engine # <<>>
  <2>1. PICK t : engine = <<t>>
    BY <1>2 DEF PlainInv, Control
  <2>2. t.dev = copied /\ t.host = dma.off + copied
    BY <2>1 DEF PlainInv, Known, Position, Flight
  <2>3. Len(engine) = 1 /\ \A n \in DOMAIN engine : engine[n] = t
    BY <2>1
  <2>. QED
    BY <2>2, <2>3 DEF CopiesInOrder
<1>. QED
  BY <1>1, <1>2

\* An idle driver has copied all.
LEMMA IdleIsDone == PlainInv => IdleMeansCopied
<1>. SUFFICES ASSUME PlainInv, host \in {"polling", "waiting"}, dma.idle PROVE copied = ask.len
  BY DEF IdleMeansCopied
<1>1. engine = <<>>
  BY DEF PlainInv, Control, Moving, Quiet
<1>2. InFlight = 0
  BY <1>1 DEF InFlight
<1>3. dma.sent = ask.len
  BY DEF PlainInv, Known, Asking, Moving
<1>4. copied \in Nat /\ copied + 0 = dma.sent
  BY <1>2 DEF PlainInv, Known, Position
<1>. QED
  BY <1>3, <1>4

\* The event comes to an idle driver.
LEMMA ToldIsDone == PlainInv => EventMeansDone
<1>. SUFFICES ASSUME PlainInv, told PROVE host = "waiting" /\ copied = ask.len
  BY DEF EventMeansDone
<1>1. host = "waiting" /\ dma.idle
  BY DEF PlainInv, Events
<1>. QED
  BY <1>1, IdleIsDone DEF IdleMeansCopied

-----------------------------------------------------------------------------
(* The values of the variables *)

Values ==
  /\ event \in BOOLEAN /\ told \in BOOLEAN /\ dma.idle \in BOOLEAN
  /\ flag \in BOOLEAN /\ msi \in BOOLEAN /\ work \in BOOLEAN
  /\ irq \in {"idle", "service", "queue"}
  /\ chan \in BOOLEAN /\ armed \in BOOLEAN /\ sync \in BOOLEAN
  /\ prInProgress \in BOOLEAN /\ frozen \in [Parts -> BOOLEAN] /\ prPart \in Parts
  /\ pins = [p \in Pages |-> pins[p]]

\* The plain values
LEMMA ValuesInit == Init => Values
<1>. SUFFICES ASSUME Init PROVE Values
  OBVIOUS
<1>1. dma.idle = TRUE
  BY DEF Init
<1>2. pins = [p \in Pages |-> pins[p]]
  BY DEF Init
<1>. QED
  BY <1>1, <1>2 DEF Init, Values

\* Pins stay counted for every page.
LEMMA PinsNext == ASSUME Values, [Next]_vars PROVE pins' = [p \in Pages |-> pins'[p]]
<1>1. pins = [p \in Pages |-> pins[p]]
  BY DEF Values
<1>2. \/ pins' = pins \/ pins' = UnpinAll \/ pins' = Finished
      \/ \E b : pins' = Unpin(pins, b) \/ pins' = Pin(pins, b)
  <2>1. CASE WorkQueue
    BY <2>1 DEF WorkQueue, WqTake, WqPollChannel, WqPollAgain, WqNothing, WqTransfer, WqFinish,
       WqSignal, WqBuffer, WqSendPiece, WqSendPages, WqUnpinDone, WqPrePin
  <2>2. CASE ~ WorkQueue
    BY <2>2 DEF Next, HostReturns, Request, CallDriver, ReturnBlocking, ReturnEvent, HandleSignal,
       OpenChannel, SyncChannel, PrFrozen, PrBadController, PrStart, PrFinish, DmaStop, StopFlushed,
       StopDrained, Close, Open, EngineDone, KernelDone, Interrupt, IrqEnter, IrqService, IrqQueue, vars
  <2>. QED
    BY <2>1, <2>2
<1>3. ASSUME NEW c, NEW b, pins' = Unpin(c, b) \/ pins' = Pin(c, b)
      PROVE  pins' = [p \in Pages |-> pins'[p]]
  BY <1>3 DEF Unpin, Pin
<1>. QED
  BY <1>1, <1>2, <1>3 DEF UnpinAll, Finished

\* m_idle is written as a flag.
LEMMA IdleNext ==
  ASSUME Records, [Next]_vars
  PROVE  dma'.idle = dma.idle \/ dma'.idle = TRUE \/ dma'.idle = FALSE
<1>1. CASE WorkQueue
  <2>1. \/ dma' = dma \/ WqFinish \/ WqBuffer \/ WqSendPiece \/ WqSendPages \/ WqUnpinDone \/ WqPrePin
    BY <1>1 DEF WorkQueue, WqTake, WqPollChannel, WqPollAgain, WqNothing, WqTransfer, WqSignal
  <2>. QED
    BY <2>1, FinishFields, BufferFields, SendPieceFields, SendPagesFields, UnpinDoneFields, PrePinFields
<1>2. CASE ~ WorkQueue
  <2>1. dma' = dma \/ CallDriver \/ OpenChannel \/ DmaStop \/ StopDrained \/ Close \/ Open
    BY <1>2 DEF Next, HostReturns, Request, ReturnBlocking, ReturnEvent, HandleSignal,
       SyncChannel, PrFrozen, PrBadController, PrStart, PrFinish, StopFlushed,
       EngineDone, KernelDone, Interrupt, IrqEnter, IrqService, IrqQueue, vars
  <2>. QED
    BY <2>1, CallDriverFields, OpenChannelFields, DmaStopFields, DropAllFields, OpenFields
<1>. QED
  BY <1>1, <1>2

\* Every step keeps the plain values.
LEMMA ValuesNext == Records /\ Values /\ [Next]_vars => Values'
<1>. SUFFICES ASSUME Records, Values, [Next]_vars PROVE Values'
  OBVIOUS
<1>1. dma'.idle \in BOOLEAN
  BY IdleNext DEF Values
<1>2. pins' = [p \in Pages |-> pins'[p]]
  BY PinsNext
<1>3. /\ event' \in BOOLEAN /\ told' \in BOOLEAN
      /\ flag' \in BOOLEAN /\ msi' \in BOOLEAN /\ work' \in BOOLEAN
      /\ irq' \in {"idle", "service", "queue"}
      /\ chan' \in BOOLEAN /\ armed' \in BOOLEAN /\ sync' \in BOOLEAN
  <2>1. CASE WqTake \/ WqNothing \/ WqTransfer \/ WqFinish \/ WqBuffer \/ WqUnpinDone \/ WqPrePin
    <3>1. /\ event' = event /\ told' = told /\ flag' = flag /\ msi' = msi
          /\ work' = work \/ work' = FALSE
          /\ irq' = irq /\ chan' = chan /\ armed' = armed /\ sync' = sync
      BY <2>1 DEF WqTake, WqNothing, WqTransfer, WqFinish, WqBuffer, WqUnpinDone, WqPrePin,
         mmdVars, chanVars
    <3>. QED
      BY <3>1 DEF Values
  <2>2. CASE WqPollChannel
    BY <2>2 DEF Values, WqPollChannel, mmdVars
  <2>3. CASE WqPollAgain
    BY <2>3 DEF Values, WqPollAgain, mmdVars
  <2>4. CASE WqSignal
    BY <2>4 DEF Values, WqSignal, mmdVars, chanVars
  <2>5. CASE WqSendPiece \/ WqSendPages
    <3>1. /\ event' = event /\ told' = told /\ flag' = FALSE /\ msi' = msi /\ work' = work
          /\ irq' = irq /\ chan' = chan /\ armed' = armed /\ sync' = sync
      BY <2>5 DEF WqSendPiece, WqSendPages, Send, mmdVars, chanVars
    <3>. QED
      BY <3>1 DEF Values
  <2>6. CASE Interrupt \/ EngineDone \/ KernelDone
    BY <2>6 DEF Values, Interrupt, IrqEnter, IrqService, IrqQueue, EngineDone, KernelDone,
       mmdVars, boardVars, chanVars
  <2>7. CASE \E x \in Transfers, mode \in Modes : Request(x, mode)
    <3>1. /\ event' \in BOOLEAN /\ told' = FALSE /\ flag' = flag /\ msi' = msi /\ work' = work
          /\ irq' = irq /\ chan' = chan /\ armed' = armed /\ sync' = sync
      BY <2>7 DEF Request, chanVars
    <3>. QED
      BY <3>1 DEF Values
  <2>8. CASE HandleSignal
    BY <2>8 DEF Values, HandleSignal, chanVars
  <2>9. CASE OpenChannel
    BY <2>9 DEF Values, OpenChannel, mmdVars
  <2>10. CASE CallDriver \/ ReturnBlocking \/ ReturnEvent \/ SyncChannel \/ PrFinish
              \/ \E p \in Parts : PrFrozen(p) \/ PrBadController(p) \/ PrStart(p)
    <3>1. /\ event' = event /\ told' \in {told, FALSE} /\ flag' = flag /\ msi' = msi
          /\ work' \in {work, TRUE}
          /\ irq' = irq /\ chan' = chan /\ armed' \in {armed, TRUE} /\ sync' \in {sync, TRUE}
      BY <2>10 DEF CallDriver, ReturnBlocking, ReturnEvent, SyncChannel, PrFinish, PrFrozen,
         PrBadController, PrStart, mmdVars, chanVars
    <3>. QED
      BY <3>1 DEF Values
  <2>11. CASE DmaStop \/ StopFlushed \/ StopDrained \/ Close \/ Open \/ UNCHANGED vars
    <3>1. /\ event' \in {event, FALSE} /\ told' \in {told, FALSE} /\ flag' \in {flag, FALSE}
          /\ msi' \in {msi, FALSE} /\ work' = work
          /\ irq' = irq /\ chan' \in {chan, FALSE} /\ armed' = armed /\ sync' = sync
      BY <2>11 DEF DmaStop, StopFlushed, StopDrained, Close, Open, vars, mmdVars, chanVars
    <3>. QED
      BY <3>1 DEF Values
  <2>. QED
    BY <2>1, <2>2, <2>3, <2>4, <2>5, <2>6, <2>7, <2>8, <2>9, <2>10, <2>11
    DEF Next, HostReturns, WorkQueue
<1>4. prInProgress' \in BOOLEAN /\ frozen' \in [Parts -> BOOLEAN] /\ prPart' \in Parts
  <2>1. CASE \E p \in Parts : PrFrozen(p) \/ PrBadController(p) \/ PrStart(p)
    BY <2>1 DEF Values, PrFrozen, PrBadController, PrStart
  <2>2. CASE PrFinish
    BY <2>2 DEF Values, PrFinish
  <2>3. CASE UNCHANGED prVars
    BY <2>3 DEF Values, prVars
  <2>4. \/ \E p \in Parts : PrFrozen(p) \/ PrBadController(p) \/ PrStart(p)
        \/ PrFinish \/ UNCHANGED prVars
    BY DEF Next, WorkQueue, WqTake, WqPollChannel, WqPollAgain, WqNothing, WqTransfer, WqFinish,
       WqSignal, WqBuffer, WqSendPiece, WqSendPages, WqUnpinDone, WqPrePin,
       HostReturns, Request, CallDriver, ReturnBlocking, ReturnEvent, HandleSignal,
       OpenChannel, SyncChannel, DmaStop, StopFlushed, StopDrained, Close, Open,
       EngineDone, KernelDone, Interrupt, IrqEnter, IrqService, IrqQueue, vars
  <2>. QED
    BY <2>1, <2>2, <2>3, <2>4
<1>. QED
  BY <1>1, <1>2, <1>3, <1>4 DEF Values, Pages, PageOf

\* The type invariant follows.
LEMMA TypesFollow == PlainInv /\ Values => TypeOK
<1>. SUFFICES ASSUME PlainInv, Values PROVE TypeOK
  OBVIOUS
<1>1. PinInv /\ Known /\ Control /\ Events /\ Position /\ Stretches /\ Asking
  BY DEF PlainInv, Known
<1>2. ask \in Transfers \cup {NoTransfer}
  BY <1>1 DEF Asking
<1>3. dma.off \in Nat /\ dma.len \in Nat /\ dma.sent \in Nat /\ dma.sent <= dma.len
  BY <1>1, Numbers DEF Position
<1>4. dma.active.ptr => dma.active.rem \in 0 .. dma.active.pages /\ PagesOf(dma.active) \subseteq Pages
  BY <1>1, WalkedPages DEF Stretches, InPages
<1>5. dma.done.ptr => dma.done.rem \in 0 .. dma.done.pages /\ PagesOf(dma.done) \subseteq Pages
  BY <1>1 DEF Stretches, InPages
<1>6. ASSUME dma.prePinned.ptr
      PROVE  dma.prePinned.rem \in 0 .. dma.prePinned.pages /\ PagesOf(dma.prePinned) \subseteq Pages
  <2>1. dma.len - dma.sent > 0
    BY <1>1, <1>6 DEF PinInv, BufferInv
  <2>2. PICK u \in Nat, r \in Nat, p \in Ids :
          u = dma.off + dma.sent /\ r = dma.len - dma.sent /\ p = dma.pageLast
    <3>1. dma.off + dma.sent \in Nat /\ dma.len - dma.sent \in Nat
      BY <1>3, <2>1
    <3>. QED
      BY <1>1, <3>1 DEF Position
  <2>3. PICK n : n = LockSize(r, p)
    OBVIOUS
  <2>4. n \in 1 .. r
    BY <2>1, <2>2, <2>3, StretchSize
  <2>5. PICK v \in Nat : v = u + n - 1
    <3>1. u + n - 1 \in Nat
      BY <2>4
    <3>. QED
      BY <3>1
  <2>6. PageOf(u) \in Nat /\ PageOf(u) <= PageOf(v) /\ PageOf(v) \in Nat
    <3>1. u <= v /\ v <= v
      BY <2>4, <2>5
    <3>2. PageOf(u) \in Nat /\ PageOf(u) <= PageOf(v)
      BY <3>1, LaterPage
    <3>3. PageOf(v) \in Nat
      BY <3>1, LaterPage
    <3>. QED
      BY <3>2, <3>3
  <2>7. PICK b : b = dma.prePinned
    OBVIOUS
  <2>8. b = Locked(u, n)
    BY <1>1, <1>6, <2>2, <2>3, <2>7 DEF Stretches
  <2>9. /\ b.first = PageOf(u) /\ b.pages = PageOf(v) - PageOf(u) + 1
        /\ b.rem = PageOf(v) - PageOf(u) + 1
    BY <2>5, <2>8 DEF Locked
  <2>10. PagesOf(b) = PageOf(u) .. PageOf(v)
    BY <2>6, <2>9 DEF PagesOf
  <2>11. PagesOf(b) = PageOf(u) .. PageOf(u + n - 1)
    BY <2>5, <2>10
  <2>12. InPages(b)
    BY <1>1, <2>2, <2>4, <2>11, StretchInPages
  <2>. QED
    BY <2>6, <2>7, <2>9, <2>12 DEF InPages
<1>7. pins \in [Pages -> Nat]
  <2>1. \A p \in Pages : pins[p] \in Nat
    BY <1>1, CountBounds DEF PinInv, PinCount
  <2>2. pins = [p \in Pages |-> pins[p]]
    BY DEF Values
  <2>. QED
    BY <2>1, <2>2
<1>8. ASSUME NEW n \in DOMAIN engine
      PROVE  engine[n].len \in 1 .. dma.len /\ engine[n].last \in Ids
  <2>1. PICK t : engine = <<t>>
    BY <1>1, <1>8 DEF Control
  <2>2. engine[n] = t
    BY <1>8, <2>1
  <2>. QED
    BY <1>1, <2>1, <2>2 DEF Position, Flight
<1>9. \A b \in {dma.active, dma.prePinned, dma.done} :
        b.ptr => b.rem \in 0 .. b.pages /\ PagesOf(b) \subseteq Pages
  BY <1>4, <1>5, <1>6
<1>10. /\ host \in {"off", "ready", "calling", "polling", "waiting", "pr",
                    "flush", "drain", "closing"}
       /\ wq \in {"idle", "start", "polled", "update", "send", "sentPiece", "sentPages",
                  "prePin", "signal"}
  BY <1>1 DEF Control
<1>11. /\ dma.lastId \in Ids \cup {Reset} /\ dma.pageLast \in Ids
       /\ lastPtr \in Ids \cup {Reset} /\ copied \in Nat /\ signals \in Nat
  BY <1>1 DEF Position, Events
<1>12. dma.sent \in 0 .. dma.len
  BY <1>3
<1>. QED
  BY <1>2, <1>7, <1>8, <1>9, <1>10, <1>11, <1>12 DEF TypeOK, Values

-----------------------------------------------------------------------------
(* A transfer as the host sees it *)

Moved == IF Moving THEN copied ELSE 0

\* Steps that the host does not see
LEMMA SameSeen ==
  ASSUME UNCHANGED <<ask, copied>>, host' = host \/ (~ Busy /\ ~ Busy')
  PROVE  UNCHANGED <<Busy, ask.len, Moved>>
BY DEF Busy, Moving, Moved

\* What a step is to the host
LEMMA StepsOfTransfer ==
  ASSUME Plain, PlainInv, [Next]_vars
  PROVE  \/ \E x \in Transfers : ~ Busy /\ Busy' /\ ask'.len = x.len /\ Moved' = 0
         \/ /\ Busy /\ \E n \in 1 .. ask.len : Moved + n <= ask.len /\ Moved' = Moved + n
            /\ UNCHANGED <<Busy, ask.len>>
         \/ Busy /\ Moved = ask.len /\ ~ Busy' /\ ask'.len = 0 /\ Moved' = 0
         \/ Busy /\ ~ Busy' /\ ask'.len = 0 /\ Moved' = 0
         \/ UNCHANGED <<Busy, ask.len, Moved>>
<1>1. PinInv /\ Known /\ Control /\ Events /\ Asking
  BY DEF PlainInv, Known
<1>2. CASE \E x \in Transfers, mode \in Modes : Request(x, mode)
  BY <1>2 DEF Request, Busy, Moving, Moved
<1>3. CASE CallDriver
  <2>1. host = "calling" /\ host' \in {"waiting", "polling"} /\ ask' = ask /\ copied' = 0
    BY <1>3 DEF CallDriver
  <2>. QED
    BY <2>1 DEF Busy, Moving, Moved
<1>4. CASE ReturnBlocking \/ ReturnEvent
  <2>1. Moving /\ host' = "ready" /\ ask' = NoTransfer
    BY <1>4 DEF ReturnBlocking, ReturnEvent, Moving
  <2>2. copied = ask.len
    <3>1. CASE ReturnBlocking
      BY <3>1, IdleIsDone DEF ReturnBlocking, IdleMeansCopied
    <3>2. CASE ReturnEvent
      BY <3>2, ToldIsDone DEF ReturnEvent, EventMeansDone
    <3>. QED
      BY <1>4, <3>1, <3>2
  <2>3. Busy /\ Moved = ask.len
    BY <2>1, <2>2 DEF Moved, Moving, Busy
  <2>4. ~ Busy' /\ ask'.len = 0 /\ Moved' = 0
    BY <2>1 DEF Busy, NoTransfer, Moved, Moving
  <2>. QED
    BY <2>3, <2>4
<1>5. CASE DmaStop
  <2>1. host' = "flush" /\ ask' = NoTransfer
    BY <1>5 DEF DmaStop
  <2>2. ~ Busy' /\ ask'.len = 0 /\ Moved' = 0
    BY <2>1 DEF Busy, NoTransfer, Moved, Moving
  <2>3. CASE ~ Busy
    <3>1. ask = NoTransfer /\ Moved = 0
      BY <1>1, <2>3 DEF Asking, Busy, Moving, Moved
    <3>2. Busy' = Busy
      BY <2>1, <2>3 DEF Busy
    <3>. QED
      BY <2>1, <2>2, <3>1, <3>2
  <2>. QED
    BY <2>2, <2>3
<1>6. CASE EngineDone
  <2>1. UNCHANGED <<host, ask>>
    BY <1>6 DEF EngineDone, mmdVars
  <2>2. CASE host \in {"flush", "drain"}
    BY <2>1, <2>2 DEF Busy, Moving, Moved
  <2>3. CASE Moving /\ \E n \in 1 .. ask.len : copied' = copied + n /\ copied + n <= ask.len
    BY <2>1, <2>3 DEF Busy, Moving, Moved
  <2>. QED
    BY <1>1, <1>6, <2>2, <2>3, EngineKnown
<1>7. CASE \/ HandleSignal \/ PrFinish \/ StopFlushed \/ StopDrained \/ Close \/ Open
           \/ \E p \in Parts : PrFrozen(p) \/ PrBadController(p) \/ PrStart(p)
           \/ KernelDone \/ Interrupt \/ UNCHANGED vars
  <2>1. UNCHANGED <<ask, copied>>
    BY <1>7 DEF HandleSignal, PrFinish, StopFlushed, StopDrained, Close, Open, PrFrozen,
       PrBadController, PrStart, KernelDone, Interrupt, IrqEnter, IrqService, IrqQueue, vars,
       mmdVars, boardVars
  <2>2. host' = host \/ (~ Busy /\ ~ Busy')
    BY <1>7 DEF HandleSignal, PrFinish, StopFlushed, StopDrained, Close, Open, PrFrozen,
       PrBadController, PrStart, KernelDone, Interrupt, IrqEnter, IrqService, IrqQueue, vars,
       mmdVars, Busy
  <2>. QED
    BY <2>1, <2>2, SameSeen
<1>8. CASE WorkQueue
  <2>1. UNCHANGED <<ask, copied, host>>
    BY <1>8 DEF WorkQueue, WqTake, WqPollChannel, WqPollAgain, WqNothing, WqTransfer, WqFinish,
       WqSignal, WqBuffer, WqSendPiece, WqSendPages, WqUnpinDone, WqPrePin, mmdVars, boardVars
  <2>. QED
    BY <2>1, SameSeen
<1>9. ~ OpenChannel /\ ~ SyncChannel
  BY <1>1 DEF Plain, OpenChannel, SyncChannel, Control
<1>. QED
  BY <1>2, <1>3, <1>4, <1>5, <1>6, <1>7, <1>8, <1>9 DEF Next, HostReturns

-----------------------------------------------------------------------------
(* Theorems *)

\* The invariant holds always.
LEMMA PlainAlways == ASSUME Plain PROVE Spec => []PlainInv
<1>1. Init => PlainInv
  BY PlainInit
<1>2. PlainInv /\ [Next]_vars => PlainInv'
  BY PlainNext
<1>. QED
  BY <1>1, <1>2, PTL DEF Spec

\* Buffers never leave the user's memory, pins are never negative, table ids
\* are in the table: for every page, table and stretch size, every set of
\* transfers and every alignment.
THEOREM DmaTypeCorrect == ASSUME Plain PROVE Spec => []TypeOK
<1>1. Init => Values
  BY ValuesInit
<1>2. PlainInv /\ Values /\ [Next]_vars => Values'
  BY ValuesNext DEF PlainInv, Known
<1>3. PlainInv /\ Values => TypeOK
  BY TypesFollow
<1>. QED
  BY <1>1, <1>2, <1>3, PlainAlways, PTL DEF Spec

\* The board never reads a page that unlock_dma_buffer has given back: neither
\* when the work queue goes from one stretch to the next, nor when the host
\* breaks a transfer off.
THEOREM PagesStayPinned == ASSUME Plain PROVE Spec => []PinnedWhileBusy
BY FlightPinned, PlainAlways, PTL

\* Pieces and whole pages together send every unit once, from its place in
\* the user's memory, one descriptor table at a time.
THEOREM UnitsInOrder == ASSUME Plain PROVE Spec => []CopiesInOrder
BY FlightInOrder, PlainAlways, PTL

\* ACLPCI_CMD_GET_DMA_IDLE_STATUS answers idle only when all of the transfer
\* has been copied.
THEOREM IdleAnswersTruly == ASSUME Plain PROVE Spec => []IdleMeansCopied
BY IdleIsDone, PlainAlways, PTL

\* The driver, the work queue, the interrupt handler and the board together
\* implement HostTransfer.
THEOREM DmaImplementsTransfer == ASSUME Plain PROVE Spec => ImplementsTransfer
<1>1. Init => Transfer!Init
  BY DEF Init, NoTransfer, Busy, Transfer!Init
<1>2. PlainInv /\ [Next]_vars => [Transfer!Next]_(Transfer!transferVars)
  <2>. SUFFICES ASSUME PlainInv, [Next]_vars PROVE [Transfer!Next]_(Transfer!transferVars)
    OBVIOUS
  <2>1. Moved = IF host \in {"polling", "waiting"} THEN copied ELSE 0
    BY DEF Moved, Moving
  <2>. QED
    BY StepsOfTransfer DEF Moved, Moving, Transfer!Next, Transfer!Request, Transfer!Move,
       Transfer!Return, Transfer!BreakOff, Transfer!transferVars
<1>. QED
  BY <1>1, <1>2, PlainAlways, PTL DEF Spec, ImplementsTransfer, Transfer!Spec
==============================================================================
