------------------------- MODULE SegmentWindowProofs -------------------------
(***************************************************************************)
(* Proofs about SegmentWindow, for any threads, blocks, requests of the    *)
(* other program and registers: the type invariant, that an undisturbed    *)
(* block is exact, that the copies of the segment agree, and what a        *)
(* request within one segment reaches.                                     *)
(*                                                                         *)
(* The inductive invariant has these parts:                                *)
(*   TypeInv       the shape of a call, above all how its counters relate; *)
(*   CountInv      no call has moved more than it went past;               *)
(*   AloneInv      a call that nothing disturbs has moved all it went      *)
(*                 past, through a window that shows where it is;          *)
(*   CopiesInv     the three records of the segment, until upset.          *)
(***************************************************************************)
EXTENDS SegmentWindow, TLAPS

-----------------------------------------------------------------------------
(* The inductive invariant                                                 *)

\* Before a stretch; in one; and where nothing of the block is left for the window.
Before == {"segment", "window", "remember", "piece"}
Within == {"head", "words", "tail"}
Over   == {"idle", "dma", "done"}
CallPCs == Before \cup Within \cup Over \cup {"next"}

CallFields == [pc : CallPCs, dev : Nat, left : Nat, done : Nat, cur : Nat, byte : Nat,
               dma : Nat, size : Nat]
Shape(c) ==
  /\ c.done + c.left + c.dma = c.size
  /\ c.cur <= c.left
  /\ Offset(c.dev) + c.cur <= ACL_PCIE_MEMWINDOW_SIZE
  /\ c.pc \in {"head", "tail"} => c.byte \in 1 .. Word - 1 /\ c.byte <= c.cur
  /\ c.pc = "tail" => c.byte = c.cur
  /\ c.pc \notin Within => c.cur = 0
  /\ c.pc \in Before => c.left > 0
  /\ c.pc \in Over => c.left = 0
CallRecords == {c \in CallFields : Shape(c)}

TypeInv ==
  /\ call \in [Threads -> CallRecords]
  /\ good \in [Threads -> Nat]
  /\ clean \in [Threads -> BOOLEAN] /\ upset \in BOOLEAN
  /\ mSegment \in Nat /\ hwSegment \in Nat /\ drvSegment \in Nat
  /\ Offset(mSegment) = 0 /\ Offset(hwSegment) \in {0, 2} /\ Offset(drvSegment) \in {0, 2}
  /\ raw.within \in BOOLEAN /\ raw.how \in {"none", "right", "astray", "refused"}
  /\ kernelHit \in {"register", "segment", "memory"}
  /\ signals \in 0 .. MaxSignals

\* The DMA's share is the last to be counted.
CountInv ==
  \A t \in Threads :
    good[t] <= IF call[t].pc = "done" THEN call[t].size ELSE call[t].done

\* Until it has written the register and m_segment a call may find them elsewhere.
Shows(c) == Segment(hwSegment) = Segment(c.dev)
OnTheWay(t) ==
  LET c == call[t]
  IN  /\ \A u \in Threads \ {t} : ~ Active(u)
      /\ good[t] = c.done
      /\ c.pc # "remember" => mSegment = Segment(hwSegment)
      /\ c.pc \in Within \cup {"remember", "piece"} => Shows(c)
AloneInv ==
  \A t \in Threads : clean[t] =>
    /\ Active(t) => OnTheWay(t)
    /\ call[t].pc = "done" => good[t] = call[t].size

CopiesInv ==
  ~ upset =>
    /\ drvSegment = hwSegment
    /\ \A t, u \in Threads : t # u => ~ (Active(t) /\ Active(u))
    /\ \A t \in Threads : call[t].pc = "remember" => hwSegment = Segment(call[t].dev)
    /\ (\A t \in Threads : call[t].pc # "remember") => mSegment = hwSegment

IndInv == TypeInv /\ CountInv /\ AloneInv /\ CopiesInv

-----------------------------------------------------------------------------
(* The arithmetic                                                          *)

LEMMA WindowOf ==
  ASSUME NEW a \in Nat
  PROVE  /\ Offset(a) \in Nat /\ Offset(a) < ACL_PCIE_MEMWINDOW_SIZE
         /\ Segment(a) \in Nat /\ a = Segment(a) + Offset(a)
BY DEF Offset, Segment, ACL_PCIE_MEMWINDOW_SIZE

LEMMA SegmentOfSegment ==
  ASSUME NEW a \in Nat
  PROVE  Segment(Segment(a)) = Segment(a) /\ Offset(Segment(a)) = 0
BY DEF Offset, Segment, ACL_PCIE_MEMWINDOW_SIZE

\* Up to its end the window shows one segment.
LEMMA WithinWindow ==
  ASSUME NEW a \in Nat, NEW n \in Nat, Offset(a) + n <= ACL_PCIE_MEMWINDOW_SIZE
  PROVE  /\ a + n \in Nat
         /\ Offset(a + n) <= Offset(a) + n
         /\ Offset(a) + n < ACL_PCIE_MEMWINDOW_SIZE => Segment(a + n) = Segment(a)
BY DEF Offset, Segment, ACL_PCIE_MEMWINDOW_SIZE

\* The driver's segment has bit 1 of the address besides.
LEMMA DriverSegmentOf ==
  ASSUME NEW a \in Nat
  PROVE  /\ DriverSegment(a) \in Nat
         /\ Offset(DriverSegment(a)) \in {0, 2} /\ Segment(DriverSegment(a)) = Segment(a)
<1>1. PICK b \in {0, 1} : b = (a \div 2) % 2
  OBVIOUS
<1>2. PICK q \in Nat : Segment(a) = q * 65536
  <2>1. Segment(a) = (a \div 65536) * 65536 /\ a \div 65536 \in Nat
    BY DEF Segment, ACL_PCIE_MEMWINDOW_SIZE
  <2>. QED
    BY <2>1
<1>3. DriverSegment(a) = q * 65536 + b * 2
  BY <1>1, <1>2 DEF DriverSegment
<1>. QED
  BY <1>1, <1>2, <1>3 DEF Offset, Segment, ACL_PCIE_MEMWINDOW_SIZE

\* Whatever the size, the driver copies all bytes: words and the bytes missed.
LEMMA DriverMovesAll == \A n \in Nat : DriverBytes(n) = n
<1>1. \A n \in Nat : ChunkBytes(n) = n
  BY DEF ChunkBytes
<1>2. ASSUME NEW n \in Nat PROVE LargeBytes(n) = n
  <2>1. n % BUF_SIZE \in Nat /\ BUF_SIZE \in Nat
    BY DEF BUF_SIZE
  <2>2. ChunkBytes(BUF_SIZE) = BUF_SIZE /\ ChunkBytes(n % BUF_SIZE) = n % BUF_SIZE
    BY <1>1, <2>1
  <2>3. LargeBytes(n) = (n \div BUF_SIZE) * BUF_SIZE + (n % BUF_SIZE)
    BY <2>2 DEF LargeBytes
  <2>. QED
    BY <2>3 DEF BUF_SIZE
<1>. QED
  BY <1>2 DEF DriverBytes

LEMMA DmaShare ==
  ASSUME NEW b, b.dev \in Nat, b.size \in Nat \ {0}
  PROVE  DmaSize(b) \in 0 .. b.size
<1>1. b.size % 64 \in 0 .. 63 /\ b.size % 64 <= b.size
  OBVIOUS
<1>. QED
  BY <1>1 DEF DmaSize, DMA_ALIGNMENT_BYTES

\* A stretch is not empty and ends with the window; what comes before its words
\* is fewer bytes than a word.
LEMMA StretchOf ==
  ASSUME NEW dev \in Nat, NEW left \in Nat \ {0}
  PROVE  /\ CurSize(dev, left) \in 1 .. left
         /\ Offset(dev) + CurSize(dev, left) <= ACL_PCIE_MEMWINDOW_SIZE
         /\ HeadSize(dev, CurSize(dev, left)) \in 0 .. Word - 1
         /\ HeadSize(dev, CurSize(dev, left)) <= CurSize(dev, left)
<1>1. PICK o \in Nat : o = Offset(dev) /\ o < ACL_PCIE_MEMWINDOW_SIZE
  BY WindowOf
<1>2. PICK cur \in Nat : cur = CurSize(dev, left) /\ cur \in 1 .. left /\ o + cur <= ACL_PCIE_MEMWINDOW_SIZE
  <2>1. CurSize(dev, left) = IF 65536 - o < left THEN 65536 - o ELSE left
    BY <1>1 DEF CurSize, Least, ACL_PCIE_MEMWINDOW_SIZE
  <2>. QED
    BY <1>1, <2>1, SMT DEF ACL_PCIE_MEMWINDOW_SIZE
<1>3. PICK h \in Nat : h = 8 - (o % 8) /\ h \in 1 .. 8
  BY SMT
<1>4. HeadSize(dev, cur) = IF (IF h < cur THEN h ELSE cur) = 8 THEN 0 ELSE IF h < cur THEN h ELSE cur
  BY <1>1, <1>3, SMT DEF HeadSize, Least, Word
<1>5. HeadSize(dev, cur) \in 0 .. Word - 1 /\ HeadSize(dev, cur) <= cur
  BY <1>2, <1>3, <1>4, SMT DEF Word
<1>. QED
  BY <1>1, <1>2, <1>5

LEMMA WholeWords ==
  ASSUME NEW c, c.cur \in Nat
  PROVE  WordsOf(c) \in 0 .. c.cur /\ c.cur - WordsOf(c) \in 0 .. Word - 1
<1>1. PICK n \in Nat : n = c.cur
  OBVIOUS
<1>2. WordsOf(c) = n - (n % 8)
  BY <1>1 DEF WordsOf, Word
<1>. QED
  BY <1>1, <1>2 DEF Word

-----------------------------------------------------------------------------
(* What the actions of a call do to it                                     *)

LEMMA RecordOf ==
  ASSUME NEW c \in CallRecords
  PROVE  /\ c \in CallFields /\ Shape(c) /\ c.pc \in CallPCs
         /\ c.dev \in Nat /\ c.left \in Nat /\ c.done \in Nat /\ c.cur \in Nat /\ c.byte \in Nat
         /\ c.dma \in Nat /\ c.size \in Nat
BY DEF CallRecords, CallFields

\* Everybody else's call, and what it has moved, stays.
OthersStay(t) == \A u \in Threads \ {t} : call'[u] = call[u]
GoodStays(t) == \A u \in Threads \ {t} : good'[u] = good[u]

\* The call gets the record e.
LEMMA Updated ==
  ASSUME TypeInv, NEW t \in Threads, NEW e \in CallRecords, call' = [call EXCEPT ![t] = e]
  PROVE  call' \in [Threads -> CallRecords] /\ call'[t] = e /\ OthersStay(t)
BY DEF TypeInv, OthersStay

LEMMA GotoStep ==
  ASSUME TypeInv, NEW t \in Threads, NEW pc \in CallPCs, Goto(t, pc),
         call[t].cur = 0, pc \notin {"head", "tail"},
         pc \in Before => call[t].left > 0, pc \in Over => call[t].left = 0
  PROVE  /\ call' \in [Threads -> CallRecords] /\ OthersStay(t)
         /\ call'[t].pc = pc /\ call'[t].dev = call[t].dev /\ call'[t].left = call[t].left
         /\ call'[t].done = call[t].done /\ call'[t].cur = call[t].cur
         /\ call'[t].dma = call[t].dma /\ call'[t].size = call[t].size
<1>. DEFINE e == [call[t] EXCEPT !.pc = pc]
<1>1. call[t] \in CallRecords
  BY DEF TypeInv
<1>2. /\ e \in CallFields /\ e.pc = pc
      /\ e.dev = call[t].dev /\ e.left = call[t].left /\ e.done = call[t].done
      /\ e.cur = call[t].cur /\ e.byte = call[t].byte /\ e.dma = call[t].dma /\ e.size = call[t].size
  BY <1>1, RecordOf DEF CallFields
<1>3. call' = [call EXCEPT ![t] = e]
  BY DEF Goto, TypeInv
<1>. HIDE DEF e
<1>4. Shape(e)
  BY <1>1, <1>2, RecordOf DEF Shape
<1>5. e \in CallRecords
  BY <1>2, <1>4 DEF CallRecords
<1>. QED
  BY <1>2, <1>3, <1>5, Updated

\* The call moves on by n bytes of its stretch.
Passes(t, n) ==
  /\ call' \in [Threads -> CallRecords] /\ OthersStay(t)
  /\ n \in 0 .. call[t].cur
  /\ call'[t].dev = call[t].dev + n
  /\ call'[t].left = call[t].left - n
  /\ call'[t].done = call[t].done + n
  /\ call'[t].cur = call[t].cur - n
  /\ call'[t].dma = call[t].dma /\ call'[t].size = call[t].size
  /\ call'[t].pc \in Within \cup {"next"}
  /\ call'[t].pc \in Within => n < call[t].cur

\* Where it may be then, with how many single bytes to go.
Lands(c, n, pc, byte) ==
  \/ pc = "next" /\ n = c.cur
  \/ pc = "words" /\ n < c.cur
  \/ pc = "head" /\ byte \in 1 .. Word - 1 /\ byte <= c.cur - n
  \/ pc = "tail" /\ byte \in 1 .. Word - 1 /\ byte = c.cur - n

Landed(c, n, pc, byte) == [Advance(c, n) EXCEPT !.byte = byte, !.pc = pc]

LEMMA AdvanceShape ==
  ASSUME NEW c \in CallRecords, NEW n \in 0 .. c.cur, NEW pc, NEW byte \in Nat,
         Lands(c, n, pc, byte),
         NEW e, e = Landed(c, n, pc, byte)
  PROVE  /\ e \in CallRecords /\ e.pc = pc
         /\ e.dev = c.dev + n /\ e.left = c.left - n /\ e.done = c.done + n /\ e.cur = c.cur - n
         /\ e.dma = c.dma /\ e.size = c.size
<1>1. /\ c \in CallFields /\ Shape(c) /\ c.dev \in Nat /\ c.left \in Nat /\ c.done \in Nat
      /\ c.cur \in Nat /\ c.dma \in Nat /\ c.size \in Nat /\ n \in Nat /\ n <= c.cur
  BY RecordOf
<1>2. c.cur <= c.left /\ Offset(c.dev) + c.cur <= ACL_PCIE_MEMWINDOW_SIZE /\ c.done + c.left + c.dma = c.size
  BY <1>1 DEF Shape
<1>3. c.dev + n \in Nat /\ c.left - n \in Nat /\ c.done + n \in Nat /\ c.cur - n \in Nat
  BY <1>1, <1>2
<1>4. pc \in CallPCs
  BY DEF CallPCs, Within, Lands
<1>5. /\ e \in CallFields /\ e.pc = pc /\ e.byte = byte
      /\ e.dev = c.dev + n /\ e.left = c.left - n /\ e.done = c.done + n /\ e.cur = c.cur - n
      /\ e.dma = c.dma /\ e.size = c.size
  BY <1>1, <1>3, <1>4 DEF Landed, Advance, CallFields
<1>6. Offset(c.dev + n) + (c.cur - n) <= ACL_PCIE_MEMWINDOW_SIZE
  <2>1. Offset(c.dev) + n <= ACL_PCIE_MEMWINDOW_SIZE /\ Offset(c.dev) \in Nat
    <3>1. PICK o \in Nat : o = Offset(c.dev)
      BY <1>1, WindowOf
    <3>. QED
      BY <1>1, <1>2, <3>1, SMT DEF ACL_PCIE_MEMWINDOW_SIZE
  <2>2. Offset(c.dev + n) <= Offset(c.dev) + n /\ Offset(c.dev + n) \in Nat
    BY <1>1, <1>3, <2>1, WithinWindow, WindowOf
  <2>. QED
    BY <1>1, <1>2, <2>1, <2>2, SMT DEF ACL_PCIE_MEMWINDOW_SIZE
<1>7. Shape(e)
  <2>1. e.done + e.left + e.dma = e.size /\ e.cur <= e.left
    BY <1>1, <1>2, <1>5
  <2>2. Offset(e.dev) + e.cur <= ACL_PCIE_MEMWINDOW_SIZE
    BY <1>5, <1>6
  <2>3. /\ e.pc \in {"head", "tail"} => e.byte \in 1 .. Word - 1 /\ e.byte <= e.cur
        /\ e.pc = "tail" => e.byte = e.cur
    BY <1>3, <1>5 DEF Lands
  <2>4. /\ e.pc \notin Within => e.cur = 0
        /\ e.pc \notin Before /\ e.pc \notin Over
    BY <1>1, <1>5 DEF Within, Before, Over, Lands
  <2>. QED
    BY <2>1, <2>2, <2>3, <2>4 DEF Shape
<1>8. e \in CallRecords
  BY <1>5, <1>7, Zenon DEF CallRecords
<1>. QED
  BY <1>5, <1>8, Zenon

LEMMA PassesStep ==
  ASSUME TypeInv, NEW t \in Threads, NEW n \in 0 .. call[t].cur, NEW pc, NEW byte \in Nat,
         Lands(call[t], n, pc, byte),
         call' = [call EXCEPT ![t] = Landed(call[t], n, pc, byte)]
  PROVE  Passes(t, n)
<1>1. PICK c \in CallRecords : c = call[t]
  BY DEF TypeInv
<1>0. PICK e : e = Landed(c, n, pc, byte)
  OBVIOUS
<1>a. n \in 0 .. c.cur /\ Lands(c, n, pc, byte)
  BY <1>1
<1>2. /\ e \in CallRecords /\ e.pc = pc
      /\ e.dev = c.dev + n /\ e.left = c.left - n /\ e.done = c.done + n /\ e.cur = c.cur - n
      /\ e.dma = c.dma /\ e.size = c.size
  BY <1>0, <1>a, AdvanceShape
<1>3. call' = [call EXCEPT ![t] = e]
  BY <1>0, <1>1
<1>4. pc \in Within \cup {"next"}
  BY DEF Within, Lands
<1>5. pc \in Within => n < c.cur
  <2>1. c.cur \in Nat /\ n \in Nat
    BY <1>1, <1>a, RecordOf
  <2>. QED
    BY <1>a, <2>1 DEF Within, Lands
<1>. QED
  BY <1>1, <1>2, <1>3, <1>4, <1>5, Updated DEF Passes

LEMMA BeginStep ==
  ASSUME TypeInv, WindowAssumption, NEW t \in Threads, NEW b \in Blocks, Begin(t, b)
  PROVE  /\ call' \in [Threads -> CallRecords] /\ OthersStay(t)
         /\ call'[t].pc \in {"segment", "dma"} /\ call'[t].done = 0
         /\ good' = [good EXCEPT ![t] = 0]
<1>1. PICK d \in Nat : d = DmaSize(b) /\ d \in 0 .. b.size /\ b.size \in Nat \ {0} /\ b.dev \in Nat
  BY DmaShare DEF WindowAssumption
<1>2. PICK rest \in Nat : rest = b.size - d
  BY <1>1
<1>3. PICK e : e = [NoCall EXCEPT !.pc = IF rest > 0 THEN "segment" ELSE "dma", !.dev = b.dev + d,
                                  !.left = rest, !.dma = d, !.size = b.size]
  OBVIOUS
<1>4. call' = [call EXCEPT ![t] = e] /\ good' = [good EXCEPT ![t] = 0]
  BY <1>1, <1>2, <1>3 DEF Begin
<1>5. PICK dev \in Nat : dev = b.dev + d
  BY <1>1
<1>6. /\ e.pc = IF rest > 0 THEN "segment" ELSE "dma"
      /\ e.dev = dev /\ e.left = rest /\ e.done = 0 /\ e.cur = 0 /\ e.byte = 0
      /\ e.dma = d /\ e.size = b.size
  BY <1>3, <1>5 DEF NoCall
<1>7. e \in CallFields
  <2>1. e = [pc |-> IF rest > 0 THEN "segment" ELSE "dma", dev |-> dev, left |-> rest, done |-> 0,
             cur |-> 0, byte |-> 0, dma |-> d, size |-> b.size]
    BY <1>3, <1>5 DEF NoCall
  <2>2. (IF rest > 0 THEN "segment" ELSE "dma") \in CallPCs /\ 0 \in Nat
    BY DEF CallPCs, Before, Over
  <2>. QED
    BY <1>1, <1>2, <1>5, <2>1, <2>2 DEF CallFields
<1>8. Shape(e)
  <2>1. Offset(dev) + 0 <= ACL_PCIE_MEMWINDOW_SIZE
    <3>1. PICK o \in Nat : o = Offset(dev) /\ o < ACL_PCIE_MEMWINDOW_SIZE
      BY WindowOf
    <3>. QED
      BY <3>1, SMT DEF ACL_PCIE_MEMWINDOW_SIZE
  <2>2. 0 + rest + d = b.size
    BY <1>1, <1>2
  <2>. QED
    BY <1>1, <1>2, <1>6, <2>1, <2>2 DEF Shape, Before, Within, Over
<1>. QED
  BY <1>4, <1>6, <1>7, <1>8, Updated DEF CallRecords

LEMMA PieceStep ==
  ASSUME TypeInv, NEW t \in Threads, Piece(t)
  PROVE  /\ call' \in [Threads -> CallRecords] /\ OthersStay(t)
         /\ call[t].pc = "piece" /\ call'[t].pc \in {"head", "words"}
         /\ call'[t].dev = call[t].dev /\ call'[t].left = call[t].left
         /\ call'[t].done = call[t].done
         /\ call'[t].dma = call[t].dma /\ call'[t].size = call[t].size
<1>1. PICK c \in CallRecords : c = call[t]
  BY DEF TypeInv
<1>2. /\ c \in CallFields /\ c.pc = "piece" /\ c.dev \in Nat /\ c.left \in Nat \ {0}
      /\ c.done + c.left + c.dma = c.size
  BY <1>1, RecordOf DEF Piece, Shape, Before
<1>3. PICK cur \in Nat : /\ cur = CurSize(c.dev, c.left) /\ cur \in 1 .. c.left
                         /\ Offset(c.dev) + cur <= ACL_PCIE_MEMWINDOW_SIZE
                         /\ HeadSize(c.dev, cur) \in 0 .. Word - 1 /\ HeadSize(c.dev, cur) <= cur
  BY <1>2, StretchOf
<1>4. PICK odd \in Nat : odd = HeadSize(c.dev, cur) /\ odd \in 0 .. Word - 1 /\ odd <= cur
  BY <1>3
<1>5. PICK pc \in {"head", "words"} : pc = IF odd > 0 THEN "head" ELSE "words"
  OBVIOUS
<1>6. PICK e : e = [c EXCEPT !.pc = pc, !.cur = cur, !.byte = odd]
  OBVIOUS
<1>7. call' = [call EXCEPT ![t] = e]
  BY <1>1, <1>3, <1>4, <1>5, <1>6 DEF Piece, TypeInv
<1>8. pc \in CallPCs
  BY DEF CallPCs, Within
<1>9. /\ e \in CallFields /\ e.pc = pc /\ e.cur = cur /\ e.byte = odd
      /\ e.dev = c.dev /\ e.left = c.left /\ e.done = c.done /\ e.dma = c.dma /\ e.size = c.size
  BY <1>2, <1>6, <1>8 DEF CallFields
<1>10. Shape(e)
  BY <1>2, <1>3, <1>4, <1>5, <1>9 DEF Shape, Before, Within, Over
<1>. QED
  BY <1>1, <1>2, <1>7, <1>9, <1>10, Updated DEF CallRecords

\* After the last of the single bytes.
AfterBytes(c) == IF c.pc = "head" THEN AfterHead(c) ELSE "next"

LEMMA BytesLand ==
  ASSUME NEW c \in CallRecords, c.pc \in {"head", "tail"}, NEW n \in 1 .. c.byte
  PROVE  /\ n \in 0 .. c.cur /\ c.cur - n \in Nat
         /\ n < c.byte => Lands(c, n, c.pc, c.byte - n)
         /\ n = c.byte =>
              Lands(c, n, AfterBytes(Advance(c, n)), c.cur - n)
<1>1. /\ c.cur \in Nat /\ c.byte \in 1 .. Word - 1 /\ c.byte <= c.cur
      /\ c.pc = "tail" => c.byte = c.cur
      /\ c \in CallFields
  BY RecordOf DEF Shape
<1>2. Advance(c, n).cur = c.cur - n /\ Advance(c, n).pc = c.pc
  BY <1>1 DEF Advance, CallFields
<1>3. n \in 0 .. c.cur /\ c.cur - n \in Nat
  BY <1>1
<1>4. ASSUME n < c.byte PROVE Lands(c, n, c.pc, c.byte - n)
  BY <1>1, <1>4 DEF Lands, Word
<1>5. ASSUME n = c.byte, c.pc = "tail" PROVE Lands(c, n, "next", c.cur - n)
  BY <1>1, <1>5 DEF Lands
<1>6. ASSUME n = c.byte, c.pc = "head" PROVE Lands(c, n, AfterHead(Advance(c, n)), c.cur - n)
  BY <1>1, <1>2, <1>3, <1>6 DEF Lands, AfterHead, Word
<1>. QED
  BY <1>2, <1>3, <1>4, <1>5, <1>6 DEF AfterBytes

LEMMA ByteStep ==
  ASSUME TypeInv, NEW t \in Threads, Byte(t)
  PROVE  call[t].pc \in {"head", "tail"} /\ Passes(t, 1) /\ Moves(t, 1)
<1>1. PICK c \in CallRecords : c = call[t]
  BY DEF TypeInv
<1>2. c \in CallFields /\ c.pc \in {"head", "tail"} /\ c.byte \in Nat /\ c.byte >= 1 /\ c.cur \in Nat
  BY <1>1, RecordOf DEF Byte, Shape, Word
<1>3. 1 \in 1 .. c.byte
  BY <1>2
<1>4. /\ 1 \in 0 .. c.cur /\ c.cur - 1 \in Nat
      /\ 1 < c.byte => Lands(c, 1, c.pc, c.byte - 1)
      /\ 1 = c.byte => Lands(c, 1, AfterBytes(Advance(c, 1)), c.cur - 1)
  BY <1>2, <1>3, BytesLand
<1>5. /\ Advance(c, 1).byte = c.byte /\ Advance(c, 1).cur = c.cur - 1 /\ Advance(c, 1).pc = c.pc
  BY <1>2 DEF Advance, CallFields
<1>6. CASE c.byte > 1
  <2>1. call' = [call EXCEPT ![t] = [Advance(c, 1) EXCEPT !.byte = c.byte - 1]]
    BY <1>1, <1>5, <1>6 DEF Byte
  <2>2. [Advance(c, 1) EXCEPT !.byte = c.byte - 1] = Landed(c, 1, c.pc, c.byte - 1)
    BY <1>2, <1>5 DEF Landed, Advance, CallFields
  <2>3. c.byte - 1 \in Nat
    BY <1>2
  <2>. QED
    BY <1>1, <1>2, <1>4, <1>6, <2>1, <2>2, <2>3, PassesStep DEF Byte
<1>7. CASE ~ (c.byte > 1)
  <2>0. 1 = c.byte
    BY <1>2, <1>7
  <2>1. call' = [call EXCEPT ![t] = Landed(c, 1, AfterBytes(Advance(c, 1)), c.cur - 1)]
    BY <1>1, <1>5, <1>7 DEF Byte, AfterBytes, Landed
  <2>. QED
    BY <1>1, <1>2, <1>4, <2>0, <2>1, PassesStep DEF Byte
<1>. QED
  BY <1>6, <1>7

LEMMA ByteLostStep ==
  ASSUME TypeInv, NEW t \in Threads, ByteLost(t)
  PROVE  \E n \in Nat : Passes(t, n)
<1>1. PICK c \in CallRecords : c = call[t]
  BY DEF TypeInv
<1>2. c \in CallFields /\ c.pc \in {"head", "tail"} /\ c.byte \in Nat /\ c.byte >= 1 /\ c.cur \in Nat
  BY <1>1, RecordOf DEF ByteLost, Shape, Word
<1>3. PICK n \in Nat : n = c.byte /\ n \in 1 .. c.byte
  BY <1>2
<1>4. n \in 0 .. c.cur /\ c.cur - n \in Nat /\ Lands(c, n, AfterBytes(Advance(c, n)), c.cur - n)
  BY <1>2, <1>3, BytesLand
<1>5. Advance(c, n).cur = c.cur - n /\ Advance(c, n).pc = c.pc
  BY <1>2 DEF Advance, CallFields
<1>6. call' = [call EXCEPT ![t] = Landed(c, n, AfterBytes(Advance(c, n)), c.cur - n)]
  BY <1>1, <1>3, <1>5 DEF ByteLost, AfterBytes, Landed
<1>. QED
  BY <1>1, <1>3, <1>4, <1>6, PassesStep

LEMMA WordsStep ==
  ASSUME TypeInv, NEW t \in Threads, call[t].pc = "words", call' = [call EXCEPT ![t] = AfterWords(@)]
  PROVE  WordsOf(call[t]) \in 0 .. call[t].cur /\ Passes(t, WordsOf(call[t]))
<1>1. PICK c \in CallRecords : c = call[t]
  BY DEF TypeInv
<1>2. c \in CallFields /\ c.cur \in Nat
  BY <1>1, RecordOf
<1>3. PICK n \in Nat : n = WordsOf(c) /\ n \in 0 .. c.cur /\ c.cur - n \in 0 .. Word - 1
  BY <1>2, WholeWords
<1>4. PICK k \in Nat : k = c.cur - n
  BY <1>2, <1>3
<1>5. PICK pc \in {"tail", "next"} : pc = IF k > 0 THEN "tail" ELSE "next"
  OBVIOUS
<1>6. Lands(c, n, pc, k)
  BY <1>2, <1>3, <1>4, <1>5 DEF Lands
<1>7. Advance(c, n).cur = k
  BY <1>2, <1>4 DEF Advance, CallFields
<1>8. call' = [call EXCEPT ![t] = Landed(c, n, pc, k)]
  BY <1>1, <1>3, <1>5, <1>7 DEF AfterWords, Landed, TypeInv
<1>. QED
  BY <1>1, <1>3, <1>6, <1>8, PassesStep

-----------------------------------------------------------------------------
(* Type correctness, and that the counters are never ahead                 *)

\* How the actions of one call change it.
Pauses == {"segment", "window", "remember", "piece", "next", "dma"}
Turned(t, pc) ==
  /\ call' \in [Threads -> CallRecords] /\ OthersStay(t)
  /\ call'[t].pc = pc /\ call'[t].dev = call[t].dev /\ call'[t].left = call[t].left
  /\ call'[t].done = call[t].done
  /\ call'[t].dma = call[t].dma /\ call'[t].size = call[t].size

LEMMA TurnedSteps ==
  ASSUME TypeInv, NEW t \in Threads
  PROVE  /\ SetSegment(t) => /\ call[t].pc = "segment"
                             /\ IF Segment(call[t].dev) = mSegment THEN Turned(t, "piece") ELSE Turned(t, "window")
         /\ WriteWindow(t) \/ WindowLost(t) => call[t].pc = "window" /\ Turned(t, "remember")
         /\ Remember(t) => call[t].pc = "remember" /\ Turned(t, "piece")
         /\ Piece(t) => call[t].pc = "piece" /\ (Turned(t, "head") \/ Turned(t, "words"))
         /\ NextPiece(t) => call[t].pc = "next" /\ (Turned(t, "segment") \/ Turned(t, "dma"))
         /\ Finish(t) => call[t].pc = "dma" /\ Turned(t, "done")
<1>1. PICK c \in CallRecords : c = call[t]
  BY DEF TypeInv
<1>2. /\ c.left \in Nat
      /\ c.pc \notin Within => c.cur = 0
      /\ c.pc \in Before => c.left > 0
      /\ c.pc \in Over => c.left = 0
  BY RecordOf DEF Shape
<1>3. ASSUME NEW pc \in Before, c.pc \in Before, Goto(t, pc) PROVE Turned(t, pc)
  <2>1. /\ pc \in CallPCs /\ pc \notin {"head", "tail"} /\ pc \notin Over /\ c.cur = 0 /\ c.left > 0
    BY <1>2, <1>3 DEF CallPCs, Before, Over, Within
  <2>. QED
    BY <1>1, <1>3, <2>1, GotoStep DEF Turned
<1>4. SetSegment(t) => /\ call[t].pc = "segment"
                       /\ IF Segment(call[t].dev) = mSegment THEN Turned(t, "piece") ELSE Turned(t, "window")
  BY <1>1, <1>3 DEF SetSegment, Before
<1>5. WriteWindow(t) \/ WindowLost(t) => call[t].pc = "window" /\ Turned(t, "remember")
  BY <1>1, <1>3 DEF WriteWindow, WindowLost, Before
<1>6. Remember(t) => call[t].pc = "remember" /\ Turned(t, "piece")
  BY <1>1, <1>3 DEF Remember, Before
<1>7. Piece(t) => call[t].pc = "piece" /\ (Turned(t, "head") \/ Turned(t, "words"))
  BY PieceStep DEF Turned
<1>8. ASSUME NextPiece(t) PROVE call[t].pc = "next" /\ (Turned(t, "segment") \/ Turned(t, "dma"))
  <2>1. c.pc = "next" /\ c.cur = 0
    BY <1>1, <1>2, <1>8 DEF NextPiece, Within
  <2>2. CASE c.left > 0
    <3>1. Goto(t, "segment")
      BY <1>1, <1>8, <2>2 DEF NextPiece
    <3>2. "segment" \in CallPCs /\ "segment" \notin {"head", "tail"} /\ "segment" \notin Over
      BY DEF CallPCs, Before, Over
    <3>. QED
      BY <1>1, <2>1, <2>2, <3>1, <3>2, GotoStep DEF Turned
  <2>3. CASE ~ (c.left > 0)
    <3>1. Goto(t, "dma")
      BY <1>1, <1>8, <2>3 DEF NextPiece
    <3>2. "dma" \in CallPCs /\ "dma" \notin {"head", "tail"} /\ "dma" \notin Before /\ c.left = 0
      BY <1>2, <2>3 DEF CallPCs, Before, Over
    <3>. QED
      BY <1>1, <2>1, <2>3, <3>1, <3>2, GotoStep DEF Turned
  <2>. QED
    BY <1>1, <2>1, <2>2, <2>3
<1>9. ASSUME Finish(t) PROVE call[t].pc = "dma" /\ Turned(t, "done")
  <2>1. c.pc = "dma" /\ c.cur = 0 /\ c.left = 0 /\ Goto(t, "done")
    BY <1>1, <1>2, <1>9 DEF Finish, Within, Over
  <2>2. "done" \in CallPCs /\ "done" \notin {"head", "tail"} /\ "done" \notin Before
    BY DEF CallPCs, Before, Over
  <2>. QED
    BY <1>1, <2>1, <2>2, GotoStep DEF Turned
<1>. QED
  BY <1>4, <1>5, <1>6, <1>7, <1>8, <1>9

\* The calls' actions, by what they do to the call: begin it, turn to another
\* step, or pass some bytes.
Turns(t) ==
  SetSegment(t) \/ WriteWindow(t) \/ WindowLost(t) \/ Remember(t) \/ Piece(t) \/ NextPiece(t) \/ Finish(t)
Strides(t) == Byte(t) \/ ByteLost(t) \/ Words(t) \/ WordsLost(t)
Others ==
  \/ \E p \in 0 .. NumPartitions - 1, r \in KernelRegisters : KernelWrite(p, r)
  \/ OtherOpens
  \/ \E b \in RawBlocks : RawAccess(b)

LEMMA NextSplit ==
  ASSUME [Next]_vars
  PROVE  \/ \E t \in Threads : (\E b \in Blocks : Begin(t, b)) \/ Turns(t) \/ Strides(t)
         \/ Others \/ UNCHANGED vars
BY DEF Next, Turns, Strides, Others

LEMMA StridesStep ==
  ASSUME TypeInv, NEW t \in Threads, Strides(t)
  PROVE  /\ call[t].pc \in Within
         /\ UNCHANGED segmentVars
         /\ \E n \in Nat :
              /\ Passes(t, n)
              /\ \/ Moves(t, n) /\ clean' = clean /\ UNCHANGED otherVars
                 \/ /\ good' = good /\ clean' = [clean EXCEPT ![t] = FALSE] /\ upset'
                    /\ raw' = raw /\ kernelHit' = kernelHit /\ Signalled
<1>1. CASE Byte(t)
  BY <1>1, ByteStep DEF Byte, Within
<1>2. CASE ByteLost(t)
  BY <1>2, ByteLostStep DEF ByteLost, Within
<1>3. CASE Words(t) \/ WordsLost(t)
  <2>1. call[t].pc = "words" /\ call' = [call EXCEPT ![t] = AfterWords(@)]
    BY <1>3 DEF Words, WordsLost
  <2>2. PICK n \in Nat : n = WordsOf(call[t]) /\ Passes(t, n)
    <3>1. call[t].cur \in Nat
      BY RecordOf DEF TypeInv
    <3>2. WordsOf(call[t]) \in 0 .. call[t].cur /\ Passes(t, WordsOf(call[t]))
      BY <2>1, WordsStep
    <3>3. WordsOf(call[t]) \in Nat
      BY <3>1, <3>2
    <3>. QED
      BY <3>2, <3>3
  <2>. QED
    BY <1>3, <2>1, <2>2 DEF Words, WordsLost, Within
<1>. QED
  BY <1>1, <1>2, <1>3 DEF Strides

LEMMA MovesStep ==
  ASSUME TypeInv, NEW t \in Threads, NEW n \in Nat, Moves(t, n)
  PROVE  /\ good' \in [Threads -> Nat] /\ GoodStays(t)
         /\ \/ good'[t] = good[t]
            \/ good'[t] = call[t].done + n /\ good[t] = call[t].done
         /\ /\ Shown(Offset(call[t].dev)) = call[t].dev /\ good[t] = call[t].done
            /\ Offset(call[t].dev) + n <= ACL_PCIE_MEMWINDOW_SIZE
            => good'[t] = call[t].done + n
<1>1. PICK g \in Nat : g = IF /\ Shown(Offset(call[t].dev)) = call[t].dev /\ good[t] = call[t].done
                             /\ Offset(call[t].dev) + n <= ACL_PCIE_MEMWINDOW_SIZE
                          THEN good[t] + n ELSE good[t]
  BY DEF TypeInv
<1>2. DriverBytes(n) = n
  BY DriverMovesAll
<1>3. good' = [good EXCEPT ![t] = g]
  BY <1>1, <1>2 DEF Moves, TypeInv
<1>. QED
  BY <1>1, <1>3 DEF TypeInv, GoodStays

\* The actions that do not touch the calls, and those that do, keep the types of
\* the segments and of the histories.
LEMMA SegmentTypes ==
  ASSUME TypeInv, WindowAssumption, Next
  PROVE  /\ mSegment' \in Nat /\ hwSegment' \in Nat /\ drvSegment' \in Nat
         /\ Offset(mSegment') = 0 /\ Offset(hwSegment') \in {0, 2} /\ Offset(drvSegment') \in {0, 2}
<1>1. Offset(0) = 0
  BY DEF Offset, ACL_PCIE_MEMWINDOW_SIZE
<1>2. \A t \in Threads : call[t].dev \in Nat
  BY RecordOf DEF TypeInv
<1>3. \A t \in Threads : Segment(call[t].dev) \in Nat /\ Offset(Segment(call[t].dev)) = 0
  BY <1>2, WindowOf, SegmentOfSegment
<1>4. ASSUME NEW t \in Threads, \/ \E b \in Blocks : Begin(t, b)
                                \/ SetSegment(t) \/ Piece(t) \/ Byte(t) \/ ByteLost(t) \/ Words(t)
                                \/ WordsLost(t) \/ NextPiece(t) \/ Finish(t) \/ WindowLost(t)
      PROVE  UNCHANGED segmentVars
  BY <1>4 DEF Begin, SetSegment, Piece, Byte, ByteLost, Words, WordsLost, NextPiece, Finish, WindowLost
<1>5. ASSUME NEW t \in Threads, WriteWindow(t) \/ Remember(t)
      PROVE  /\ mSegment' \in {mSegment, Segment(call[t].dev)}
             /\ hwSegment' \in {hwSegment, Segment(call[t].dev)}
             /\ drvSegment' \in {drvSegment, Segment(call[t].dev)}
  BY <1>5 DEF WriteWindow, Remember
<1>6. ASSUME NEW b \in RawBlocks, RawAccess(b)
      PROVE  /\ mSegment' = mSegment
             /\ hwSegment' \in {hwSegment, drvSegment, DriverSegment(b.dev)}
             /\ drvSegment' \in {drvSegment, DriverSegment(b.dev)}
  BY <1>6 DEF RawAccess, Rewritten
<1>7. \A b \in RawBlocks : DriverSegment(b.dev) \in Nat /\ Offset(DriverSegment(b.dev)) \in {0, 2}
  BY DriverSegmentOf DEF WindowAssumption
<1>8. ASSUME NEW p, NEW r, KernelWrite(p, r)
      PROVE  /\ mSegment' = mSegment /\ hwSegment' \in {hwSegment, 0} /\ drvSegment' \in {drvSegment, 0}
  BY <1>8 DEF KernelWrite
<1>9. CASE OtherOpens
  BY <1>1, <1>9 DEF OtherOpens, TypeInv
<1>10. ASSUME UNCHANGED segmentVars
       PROVE  /\ mSegment' \in Nat /\ hwSegment' \in Nat /\ drvSegment' \in Nat
              /\ Offset(mSegment') = 0 /\ Offset(hwSegment') \in {0, 2} /\ Offset(drvSegment') \in {0, 2}
  BY <1>10 DEF segmentVars, TypeInv
<1>11. ASSUME NEW t \in Threads, WriteWindow(t) \/ Remember(t)
       PROVE  /\ mSegment' \in Nat /\ hwSegment' \in Nat /\ drvSegment' \in Nat
              /\ Offset(mSegment') = 0 /\ Offset(hwSegment') \in {0, 2} /\ Offset(drvSegment') \in {0, 2}
  BY <1>3, <1>5, <1>11 DEF TypeInv
<1>12. ASSUME NEW b \in RawBlocks, RawAccess(b)
       PROVE  /\ mSegment' \in Nat /\ hwSegment' \in Nat /\ drvSegment' \in Nat
              /\ Offset(mSegment') = 0 /\ Offset(hwSegment') \in {0, 2} /\ Offset(drvSegment') \in {0, 2}
  BY <1>6, <1>7, <1>12 DEF TypeInv
<1>13. ASSUME NEW p, NEW r, KernelWrite(p, r)
       PROVE  /\ mSegment' \in Nat /\ hwSegment' \in Nat /\ drvSegment' \in Nat
              /\ Offset(mSegment') = 0 /\ Offset(hwSegment') \in {0, 2} /\ Offset(drvSegment') \in {0, 2}
  BY <1>1, <1>8, <1>13 DEF TypeInv
<1>. QED
  BY <1>4, <1>9, <1>10, <1>11, <1>12, <1>13 DEF Next

\* What the turns do to what has been moved and to the histories.
LEMMA TurnsKeep ==
  ASSUME TypeInv, NEW t \in Threads, Turns(t)
  PROVE  /\ Finish(t) => good' = [good EXCEPT ![t] = @ + call[t].dma]
         /\ ~ Finish(t) => good' = good
         /\ WindowLost(t) => clean' = [clean EXCEPT ![t] = FALSE] /\ upset'
         /\ ~ WindowLost(t) => clean' = clean /\ UNCHANGED otherVars
         /\ raw' = raw /\ kernelHit' = kernelHit /\ (signals' = signals \/ Signalled)
<1>1. ASSUME WindowLost(t), Finish(t) PROVE FALSE
  BY <1>1 DEF WindowLost, Finish
<1>. QED
  BY <1>1 DEF Turns, SetSegment, WriteWindow, WindowLost, Remember, Piece, NextPiece, Finish, otherVars

LEMMA OthersKeep ==
  ASSUME TypeInv, Others
  PROVE  /\ call' = call /\ good' = good /\ mSegment' = mSegment /\ signals' = signals
         /\ clean' \in [Threads -> BOOLEAN] /\ \A t \in Threads : clean'[t] => clean[t]
         /\ upset' \in BOOLEAN /\ (upset => upset')
<1>1. ASSUME NEW p, NEW r, KernelWrite(p, r)
      PROVE  /\ call' = call /\ good' = good /\ mSegment' = mSegment /\ signals' = signals
             /\ clean' \in [Threads -> BOOLEAN] /\ \A t \in Threads : clean'[t] => clean[t]
             /\ upset' \in BOOLEAN /\ (upset => upset')
  BY <1>1, Zenon DEF KernelWrite, TypeInv
<1>2. ASSUME NEW b, RawAccess(b)
      PROVE  /\ call' = call /\ good' = good /\ mSegment' = mSegment /\ signals' = signals
             /\ clean' \in [Threads -> BOOLEAN] /\ \A t \in Threads : clean'[t] => clean[t]
             /\ upset' \in BOOLEAN /\ (upset => upset')
  BY <1>2, Zenon DEF RawAccess, TypeInv
<1>3. ASSUME OtherOpens
      PROVE  /\ call' = call /\ good' = good /\ mSegment' = mSegment /\ signals' = signals
             /\ clean' \in [Threads -> BOOLEAN] /\ \A t \in Threads : clean'[t] => clean[t]
             /\ upset' \in BOOLEAN /\ (upset => upset')
  BY <1>3, Zenon DEF OtherOpens, callVars, TypeInv
<1>. QED
  BY <1>1, <1>2, <1>3 DEF Others

LEMMA TypeNext ==
  ASSUME TypeInv, WindowAssumption, [Next]_vars
  PROVE  TypeInv'
<1>1. CASE UNCHANGED vars
  BY <1>1 DEF TypeInv, vars, callVars, segmentVars, otherVars
<1>. SUFFICES ASSUME Next PROVE TypeInv'
  BY <1>1
<1>2. /\ mSegment' \in Nat /\ hwSegment' \in Nat /\ drvSegment' \in Nat
      /\ Offset(mSegment') = 0 /\ Offset(hwSegment') \in {0, 2} /\ Offset(drvSegment') \in {0, 2}
  BY SegmentTypes
<1>3. ASSUME Signalled PROVE signals' \in 0 .. MaxSignals
  BY <1>3 DEF Signalled, TypeInv, WindowAssumption
<1>4. ASSUME NEW t \in Threads, NEW b \in Blocks, Begin(t, b) PROVE TypeInv'
  <2>1. call' \in [Threads -> CallRecords] /\ good' = [good EXCEPT ![t] = 0]
    BY <1>4, BeginStep
  <2>2. /\ clean' \in [Threads -> BOOLEAN] /\ upset' \in BOOLEAN
        /\ raw' = raw /\ kernelHit' = kernelHit /\ signals' = signals
    <3>1. CASE \A u \in Threads : ~ Active(u)
      BY <1>4, <3>1 DEF Begin, TypeInv
    <3>2. CASE ~ \A u \in Threads : ~ Active(u)
      BY <1>4, <3>2 DEF Begin, TypeInv
    <3>. QED
      BY <3>1, <3>2
  <2>. QED
    BY <1>2, <2>1, <2>2 DEF TypeInv
<1>5. ASSUME NEW t \in Threads, Turns(t) PROVE TypeInv'
  <2>1. call' \in [Threads -> CallRecords]
    BY <1>5, TurnedSteps DEF Turns, Turned
  <2>2. good' \in [Threads -> Nat]
    <3>1. call[t].dma \in Nat
      BY RecordOf DEF TypeInv
    <3>. QED
      BY <1>5, <3>1, TurnsKeep DEF TypeInv
  <2>3. /\ clean' \in [Threads -> BOOLEAN] /\ upset' \in BOOLEAN
        /\ raw' = raw /\ kernelHit' = kernelHit /\ signals' \in 0 .. MaxSignals
    <3>1. CASE WindowLost(t)
      BY <1>3, <3>1 DEF WindowLost, TypeInv
    <3>2. CASE ~ WindowLost(t)
      BY <1>5, <3>2, TurnsKeep DEF otherVars, TypeInv
    <3>. QED
      BY <3>1, <3>2
  <2>. QED
    BY <1>2, <2>1, <2>2, <2>3 DEF TypeInv
<1>6. ASSUME NEW t \in Threads, Strides(t) PROVE TypeInv'
  <2>1. PICK n \in Nat :
          /\ Passes(t, n)
          /\ \/ Moves(t, n) /\ clean' = clean /\ UNCHANGED otherVars
             \/ /\ good' = good /\ clean' = [clean EXCEPT ![t] = FALSE] /\ upset'
                /\ raw' = raw /\ kernelHit' = kernelHit /\ Signalled
    BY <1>6, StridesStep
  <2>2. good' \in [Threads -> Nat] /\ call' \in [Threads -> CallRecords]
    BY <2>1, MovesStep DEF Passes, TypeInv
  <2>3. /\ clean' \in [Threads -> BOOLEAN]
        /\ raw' = raw /\ kernelHit' = kernelHit /\ signals' \in 0 .. MaxSignals
    BY <1>3, <2>1 DEF TypeInv, otherVars
  <2>4. upset' \in BOOLEAN
    BY <1>6 DEF Strides, Byte, ByteLost, Words, WordsLost, otherVars, TypeInv
  <2>. QED
    BY <1>2, <2>2, <2>3, <2>4 DEF TypeInv
<1>7. ASSUME Others PROVE TypeInv'
  <2>1. raw'.within \in BOOLEAN /\ raw'.how \in {"none", "right", "astray", "refused"} /\ kernelHit' \in {"register", "segment", "memory"}
    <3>1. ASSUME NEW b, RawAccess(b)
          PROVE  raw'.within \in BOOLEAN /\ raw'.how \in {"none", "right", "astray", "refused"} /\ kernelHit' = kernelHit
      <4>1. \E how \in {"refused", "right", "astray"} : raw' = [within |-> OneSegment(b), how |-> how]
        BY <3>1 DEF RawAccess
      <4>2. OneSegment(b) \in BOOLEAN
        BY DEF OneSegment
      <4>3. kernelHit' = kernelHit
        BY <3>1 DEF RawAccess
      <4>. QED
        BY <4>1, <4>2, <4>3
    <3>2. ASSUME NEW p, NEW r, KernelWrite(p, r)
          PROVE  raw' = raw /\ kernelHit' \in {"register", "segment", "memory"}
      BY <3>2 DEF KernelWrite, Reached
    <3>3. OtherOpens => raw' = raw /\ kernelHit' = kernelHit
      BY DEF OtherOpens
    <3>. QED
      BY <1>7, <3>1, <3>2, <3>3 DEF Others, TypeInv
  <2>2. call' = call /\ good' = good /\ signals' = signals /\ clean' \in [Threads -> BOOLEAN] /\ upset' \in BOOLEAN
    BY <1>7, OthersKeep
  <2>. QED
    BY <1>2, <2>1, <2>2 DEF TypeInv
<1>. QED
  BY <1>1, <1>4, <1>5, <1>6, <1>7, NextSplit

LEMMA CountNext ==
  ASSUME TypeInv, CountInv, WindowAssumption, [Next]_vars
  PROVE  CountInv'
<1>0. \A u \in Threads : good[u] \in Nat /\ call[u].done \in Nat /\ call[u].size \in Nat /\ call[u].dma \in Nat
  BY RecordOf DEF TypeInv
<1>1. ASSUME call' = call, good' = good PROVE CountInv'
  BY <1>1 DEF CountInv
<1>2. ASSUME NEW t \in Threads, OthersStay(t), GoodStays(t),
             good'[t] <= IF call'[t].pc = "done" THEN call'[t].size ELSE call'[t].done
      PROVE  CountInv'
  BY <1>2 DEF CountInv, OthersStay, GoodStays
<1>3. ASSUME NEW t \in Threads, NEW b \in Blocks, Begin(t, b) PROVE CountInv'
  <2>1. /\ OthersStay(t) /\ call'[t].pc \in {"segment", "dma"} /\ call'[t].done = 0
        /\ good' = [good EXCEPT ![t] = 0]
    BY <1>3, BeginStep
  <2>2. good'[t] = 0 /\ GoodStays(t)
    BY <2>1 DEF GoodStays, TypeInv
  <2>. QED
    BY <1>2, <2>1, <2>2
<1>4. ASSUME NEW t \in Threads, Turns(t), ~ Finish(t) PROVE CountInv'
  <2>1. good' = good
    BY <1>4, TurnsKeep
  <2>2. OthersStay(t) /\ call[t].pc # "done" /\ call'[t].pc # "done" /\ call'[t].done = call[t].done
    BY <1>4, TurnedSteps DEF Turns, Turned
  <2>3. good[t] <= call[t].done
    BY <2>2 DEF CountInv
  <2>. QED
    BY <1>2, <2>1, <2>2, <2>3 DEF GoodStays
<1>5. ASSUME NEW t \in Threads, Finish(t) PROVE CountInv'
  <2>1. call[t].pc = "dma" /\ OthersStay(t) /\ call'[t].pc = "done" /\ call'[t].size = call[t].size
    BY <1>5, TurnedSteps DEF Turned
  <2>2. PICK g \in Nat : g = good[t] + call[t].dma /\ g <= call[t].done + call[t].dma
    BY <1>0, <2>1 DEF CountInv
  <2>3. good'[t] = g /\ GoodStays(t)
    BY <1>5, <2>2, TurnsKeep DEF Turns, GoodStays, TypeInv
  <2>4. call[t].done + call[t].dma <= call[t].size
    <3>1. call[t].done + call[t].left + call[t].dma = call[t].size /\ call[t].left \in Nat
      BY RecordOf DEF TypeInv, Shape
    <3>. QED
      BY <1>0, <3>1
  <2>5. g <= call[t].size
    BY <1>0, <2>2, <2>4
  <2>. QED
    BY <1>2, <2>1, <2>3, <2>5
<1>6. ASSUME NEW t \in Threads, Strides(t) PROVE CountInv'
  <2>1. PICK n \in Nat : call[t].pc \in Within /\ Passes(t, n) /\ (Moves(t, n) \/ good' = good)
    BY <1>6, StridesStep
  <2>2. /\ OthersStay(t) /\ call[t].pc # "done" /\ call'[t].pc # "done"
        /\ call'[t].done = call[t].done + n
    BY <2>1 DEF Passes, Within
  <2>3. good[t] <= call[t].done
    BY <2>2 DEF CountInv
  <2>4. GoodStays(t) /\ (good'[t] = good[t] \/ good'[t] = call[t].done + n)
    BY <2>1, MovesStep DEF GoodStays
  <2>5. good'[t] <= call[t].done + n
    BY <1>0, <2>3, <2>4
  <2>. QED
    BY <1>2, <2>2, <2>4, <2>5
<1>7. CASE Others
  BY <1>1, <1>7, OthersKeep
<1>8. CASE UNCHANGED vars
  BY <1>1, <1>8 DEF vars, callVars
<1>. QED
  BY <1>3, <1>4, <1>5, <1>6, <1>7, <1>8, NextSplit

-----------------------------------------------------------------------------
(* A call that nothing disturbs                                            *)

LEMMA AloneNext ==
  ASSUME TypeInv, AloneInv, WindowAssumption, [Next]_vars
  PROVE  AloneInv'
<1>0. \A u \in Threads : call[u].dev \in Nat /\ Segment(Segment(call[u].dev)) = Segment(call[u].dev)
  BY RecordOf, SegmentOfSegment DEF TypeInv
\* Nothing that is still clean changes: neither its call nor the segments.
<1>1. ASSUME call' = call, good' = good, \A t \in Threads : clean'[t] => clean[t],
             mSegment' = mSegment,
             \A t \in Threads : clean'[t] /\ Active(t) => hwSegment' = hwSegment
      PROVE  AloneInv'
  BY <1>1 DEF AloneInv, OnTheWay, Active, Shows
\* One call changes; who else is clean has not begun or is done.
<1>2. ASSUME NEW t \in Threads, OthersStay(t), GoodStays(t), Active(t),
             \A u \in Threads : clean'[u] => clean[u],
             clean'[t] => /\ Active(t)' => OnTheWay(t)'
                          /\ call'[t].pc = "done" => good'[t] = call'[t].size
      PROVE  AloneInv'
  <2>1. ASSUME NEW u \in Threads, u # t, clean'[u], Active(u)' PROVE FALSE
    BY <1>2, <2>1 DEF AloneInv, OnTheWay, OthersStay, Active
  <2>. QED
    BY <1>2, <2>1 DEF AloneInv, OthersStay, GoodStays
<1>3. ASSUME NEW t \in Threads, NEW b \in Blocks, Begin(t, b) PROVE AloneInv'
  <2>1. /\ OthersStay(t) /\ call'[t].pc \in {"segment", "dma"} /\ call'[t].done = 0
        /\ good' = [good EXCEPT ![t] = 0] /\ UNCHANGED segmentVars
    BY <1>3, BeginStep DEF Begin
  <2>2. good'[t] = 0 /\ GoodStays(t)
    BY <2>1 DEF GoodStays, TypeInv
  <2>3. CASE \A u \in Threads : ~ Active(u)
    <3>1. clean' = [clean EXCEPT ![t] = (mSegment = Segment(hwSegment))]
      BY <1>3, <2>3 DEF Begin
    <3>2. /\ clean'[t] => mSegment = Segment(hwSegment)
          /\ \A u \in Threads \ {t} : (clean'[u] => clean[u]) /\ ~ Active(u)'
      BY <2>1, <2>3, <3>1 DEF TypeInv, OthersStay, Active
    <3>3. clean'[t] => OnTheWay(t)'
      <4>1. mSegment' = mSegment /\ hwSegment' = hwSegment
        BY <2>1 DEF segmentVars
      <4>2. /\ call'[t].pc # "remember" /\ call'[t].pc \notin Within \cup {"remember", "piece"}
            /\ good'[t] = call'[t].done
        BY <2>1, <2>2 DEF Within
      <4>. QED
        BY <3>2, <4>1, <4>2 DEF OnTheWay
    <3>. QED
      BY <2>1, <2>2, <3>2, <3>3 DEF AloneInv, OthersStay, GoodStays
  <2>4. CASE ~ \A u \in Threads : ~ Active(u)
    <3>1. \A u \in Threads : ~ clean'[u]
      BY <1>3, <2>4 DEF Begin
    <3>. QED
      BY <3>1 DEF AloneInv
  <2>. QED
    BY <2>3, <2>4
<1>4. ASSUME NEW t \in Threads, Turns(t) PROVE AloneInv'
  <2>1. OthersStay(t) /\ Active(t) /\ GoodStays(t)
    <3>1. OthersStay(t) /\ Active(t)
      BY <1>4, TurnedSteps DEF Turns, Turned, Active
    <3>2. GoodStays(t)
      BY <1>4, TurnsKeep DEF GoodStays, TypeInv
    <3>. QED
      BY <3>1, <3>2
  <2>2. \A u \in Threads : clean'[u] => clean[u]
    BY <1>4, TurnsKeep DEF TypeInv
  <2>. SUFFICES ASSUME clean'[t]
                PROVE  /\ Active(t)' => OnTheWay(t)'
                       /\ call'[t].pc = "done" => good'[t] = call'[t].size
    BY <1>2, <2>1, <2>2
  <2>3. OnTheWay(t) /\ \A u \in Threads \ {t} : ~ Active(u)'
    BY <2>1, <2>2 DEF AloneInv, OnTheWay, OthersStay, Active
  <2>4. CASE SetSegment(t)
    <3>1. /\ call[t].pc = "segment" /\ UNCHANGED segmentVars /\ good' = good
          /\ call'[t].dev = call[t].dev /\ call'[t].done = call[t].done
          /\ \/ call'[t].pc = "window"
             \/ call'[t].pc = "piece" /\ Segment(call[t].dev) = mSegment
      BY <2>4, TurnedSteps DEF SetSegment, Turned
    <3>. QED
      BY <2>3, <3>1 DEF OnTheWay, Shows, segmentVars, Within
  <2>5. CASE WindowLost(t)
    BY <2>5 DEF WindowLost, TypeInv
  <2>6. CASE WriteWindow(t)
    <3>1. /\ call'[t].pc = "remember" /\ call'[t].dev = call[t].dev /\ call'[t].done = call[t].done
          /\ hwSegment' = Segment(call[t].dev) /\ good' = good /\ call[t].pc # "done"
      BY <2>6, TurnedSteps DEF WriteWindow, Turned
    <3>. QED
      BY <1>0, <2>3, <3>1 DEF OnTheWay, Shows
  <2>7. CASE Remember(t)
    <3>1. /\ call'[t].pc = "piece" /\ call'[t].dev = call[t].dev /\ call'[t].done = call[t].done
          /\ hwSegment' = hwSegment /\ mSegment' = Segment(call[t].dev) /\ good' = good
          /\ call[t].pc = "remember"
      BY <2>7, TurnedSteps DEF Remember, Turned
    <3>. QED
      BY <2>3, <3>1 DEF OnTheWay, Shows
  <2>8. CASE Piece(t)
    <3>1. /\ call[t].pc = "piece" /\ call'[t].pc \in {"head", "words"} /\ UNCHANGED segmentVars
          /\ call'[t].dev = call[t].dev /\ call'[t].done = call[t].done /\ good' = good
      BY <2>8, TurnedSteps DEF Piece, Turned
    <3>. QED
      BY <2>3, <3>1 DEF OnTheWay, Shows, segmentVars
  <2>9. CASE NextPiece(t)
    <3>1. /\ call[t].pc = "next" /\ call'[t].pc \in {"segment", "dma"} /\ UNCHANGED segmentVars
          /\ call'[t].dev = call[t].dev /\ call'[t].done = call[t].done /\ good' = good
      BY <2>9, TurnedSteps DEF NextPiece, Turned
    <3>. QED
      BY <2>3, <3>1 DEF OnTheWay, Shows, segmentVars, Within
  <2>10. CASE Finish(t)
    <3>1. /\ call[t].pc = "dma" /\ call'[t].pc = "done" /\ call'[t].size = call[t].size
          /\ good' = [good EXCEPT ![t] = @ + call[t].dma]
      BY <2>10, TurnedSteps, TurnsKeep DEF Turns, Turned
    <3>2. /\ call[t].done + call[t].left + call[t].dma = call[t].size /\ call[t].left = 0
          /\ call[t].done \in Nat /\ call[t].dma \in Nat
      BY <3>1, RecordOf DEF TypeInv, Shape, Over
    <3>3. good'[t] = call[t].done + call[t].dma
      BY <2>3, <3>1 DEF OnTheWay, TypeInv
    <3>. QED
      BY <3>1, <3>2, <3>3 DEF Active
  <2>. QED
    BY <1>4, <2>4, <2>5, <2>6, <2>7, <2>8, <2>9, <2>10 DEF Turns
<1>5. ASSUME NEW t \in Threads, Strides(t) PROVE AloneInv'
  <2>1. PICK n \in Nat :
          /\ call[t].pc \in Within /\ UNCHANGED segmentVars
          /\ Passes(t, n)
          /\ \/ Moves(t, n) /\ clean' = clean
             \/ good' = good /\ clean' = [clean EXCEPT ![t] = FALSE]
    BY <1>5, StridesStep
  <2>2. OthersStay(t) /\ Active(t) /\ GoodStays(t)
    <3>1. GoodStays(t)
      BY <2>1, MovesStep DEF GoodStays
    <3>. QED
      BY <2>1, <3>1 DEF Passes, Active, Within
  <2>3. \A u \in Threads : clean'[u] => clean[u]
    BY <2>1 DEF TypeInv
  <2>. SUFFICES ASSUME clean'[t]
                PROVE  OnTheWay(t)' /\ call'[t].pc # "done"
    BY <1>2, <2>2, <2>3
  <2>4. OnTheWay(t) /\ (\A u \in Threads \ {t} : ~ Active(u)') /\ Moves(t, n)
    BY <2>1, <2>2, <2>3 DEF AloneInv, OnTheWay, OthersStay, Active, TypeInv
  <2>5. /\ call'[t].pc \in Within \cup {"next"} /\ call'[t].dev = call[t].dev + n
        /\ call'[t].done = call[t].done + n /\ call'[t].cur = call[t].cur - n
        /\ n <= call[t].cur /\ call[t].cur \in Nat
        /\ call'[t].pc \in Within => n < call[t].cur
    BY <2>1, RecordOf DEF Passes, TypeInv
  <2>6. Shows(call[t]) /\ good[t] = call[t].done /\ mSegment = Segment(hwSegment)
    BY <2>1, <2>4 DEF OnTheWay, Within
  <2>7. Offset(call[t].dev) + call[t].cur <= ACL_PCIE_MEMWINDOW_SIZE
    BY RecordOf DEF TypeInv, Shape
  <2>8. PICK o \in Nat : o = Offset(call[t].dev) /\ call[t].dev = Segment(call[t].dev) + o
    BY <1>0, WindowOf
  <2>9. o + n <= ACL_PCIE_MEMWINDOW_SIZE /\ (n < call[t].cur => o + n < ACL_PCIE_MEMWINDOW_SIZE)
    BY <2>5, <2>7, <2>8, SMT DEF ACL_PCIE_MEMWINDOW_SIZE
  <2>10. good'[t] = call'[t].done
    <3>1. Shown(Offset(call[t].dev)) = call[t].dev
      BY <2>6, <2>8 DEF Shown, Shows
    <3>. QED
      BY <2>4, <2>5, <2>6, <2>8, <2>9, <3>1, MovesStep
  <2>11. call'[t].pc \in Within => Shows(call[t])'
    <3>. SUFFICES ASSUME call'[t].pc \in Within PROVE Shows(call[t])'
      OBVIOUS
    <3>1. Segment(call[t].dev + n) = Segment(call[t].dev)
      BY <1>0, <2>5, <2>8, <2>9, WithinWindow
    <3>. QED
      BY <2>1, <2>5, <2>6, <3>1 DEF Shows, segmentVars
  <2>. QED
    BY <2>1, <2>4, <2>5, <2>6, <2>10, <2>11 DEF OnTheWay, segmentVars, Within
<1>6. CASE Others
  <2>1. \A t \in Threads : clean'[t] /\ Active(t) => hwSegment' = hwSegment
    BY <1>6 DEF Others, KernelWrite, OtherOpens, segmentVars, callVars, RawAccess
  <2>. QED
    BY <1>1, <1>6, <2>1, OthersKeep
<1>7. CASE UNCHANGED vars
  BY <1>1, <1>7 DEF vars, callVars, segmentVars
<1>. QED
  BY <1>3, <1>4, <1>5, <1>6, <1>7, NextSplit

-----------------------------------------------------------------------------
(* The copies of the segment                                               *)

\* What the driver does for the other program: it moves its window and moves it
\* back, which puts it where it was if the driver's copy was true.
LEMMA RawMoves ==
  ASSUME TypeInv, WindowAssumption, NEW b \in RawBlocks, RawAccess(b), drvSegment = hwSegment
  PROVE  /\ hwSegment' = hwSegment => drvSegment' = hwSegment
         /\ hwSegment' # hwSegment => upset'
         /\ raw'.how = "astray" => ~ raw'.within
<1>1. /\ b.dev \in Nat /\ b.size \in Nat
  BY DEF WindowAssumption
<1>2. DriverBytes(b.size) = b.size /\ Segment(DriverSegment(b.dev)) = Segment(b.dev)
  BY <1>1, DriverMovesAll, DriverSegmentOf
<1>. DEFINE wanted == DriverSegment(b.dev)
            during == Rewritten(drvSegment, wanted, hwSegment)
<1>3. during = wanted
  BY DEF Rewritten
<1>4. Segment(during) = Segment(b.dev)
  BY <1>2, <1>3
<1>5. raw'.how = "astray" => ~ raw'.within
  BY <1>2, <1>4 DEF RawAccess
<1>6. hwSegment' # hwSegment => upset'
  BY DEF RawAccess
<1>7. hwSegment' = hwSegment => drvSegment' = hwSegment
  BY DEF RawAccess, Rewritten
<1>. QED
  BY <1>5, <1>6, <1>7

LEMMA CopiesNext ==
  ASSUME TypeInv, CopiesInv, WindowAssumption, [Next]_vars
  PROVE  CopiesInv'
<1>0. ASSUME upset' PROVE CopiesInv'
  BY <1>0 DEF CopiesInv
<1>1. ASSUME NEW t \in Threads, NEW b \in Blocks, Begin(t, b) PROVE CopiesInv'
  <2>. SUFFICES ASSUME ~ upset' PROVE CopiesInv'
    BY <1>0
  <2>1. ~ upset /\ (\A u \in Threads : ~ Active(u)) /\ UNCHANGED segmentVars
    BY <1>1 DEF Begin
  <2>2. OthersStay(t) /\ call'[t].pc \in {"segment", "dma"}
    BY <1>1, BeginStep
  <2>3. \A u \in Threads \ {t} : ~ Active(u)'
    BY <2>1, <2>2 DEF Active, OthersStay
  <2>4. \A u \in Threads : call[u].pc # "remember" /\ call'[u].pc # "remember"
    BY <2>1, <2>2, <2>3 DEF Active
  <2>. QED
    BY <2>1, <2>3, <2>4 DEF CopiesInv, segmentVars
<1>2. ASSUME NEW t \in Threads, OthersStay(t), Active(t), upset' = upset,
             ~ upset /\ (\A u \in Threads \ {t} : call[u].pc # "remember") =>
               /\ drvSegment' = hwSegment'
               /\ call'[t].pc = "remember" => hwSegment' = Segment(call'[t].dev)
               /\ call'[t].pc # "remember" => mSegment' = hwSegment'
      PROVE  CopiesInv'
  <2>. SUFFICES ASSUME ~ upset PROVE CopiesInv'
    BY <1>0, <1>2
  <2>1. \A u \in Threads \ {t} : ~ Active(u) /\ ~ Active(u)' /\ call[u].pc # "remember" /\ call'[u].pc # "remember"
    BY <1>2 DEF CopiesInv, Active, OthersStay
  <2>. QED
    BY <1>2, <2>1 DEF CopiesInv
<1>3. ASSUME NEW t \in Threads, Turns(t) PROVE CopiesInv'
  <2>1. OthersStay(t) /\ Active(t)
    BY <1>3, TurnedSteps DEF Turns, Turned, Active
  <2>2. CASE WindowLost(t)
    BY <1>0, <2>2 DEF WindowLost
  <2>3. upset' = upset \/ WindowLost(t)
    BY <1>3, TurnsKeep DEF otherVars
  <2>4. CASE WriteWindow(t)
    <3>1. /\ call'[t].pc = "remember" /\ call'[t].dev = call[t].dev
          /\ hwSegment' = Segment(call[t].dev) /\ drvSegment' = Segment(call[t].dev)
      BY <2>4, TurnedSteps DEF WriteWindow, Turned
    <3>. QED
      BY <1>2, <2>1, <2>2, <2>3, <3>1
  <2>5. CASE Remember(t)
    <3>1. /\ call[t].pc = "remember" /\ call'[t].pc = "piece" /\ call'[t].dev = call[t].dev
          /\ mSegment' = Segment(call[t].dev) /\ hwSegment' = hwSegment /\ drvSegment' = drvSegment
      BY <2>5, TurnedSteps DEF Remember, Turned
    <3>2. ~ upset => drvSegment = hwSegment /\ hwSegment = Segment(call[t].dev)
      BY <3>1 DEF CopiesInv
    <3>. QED
      BY <1>2, <2>1, <2>2, <2>3, <3>1, <3>2
  <2>6. CASE SetSegment(t) \/ Piece(t) \/ NextPiece(t) \/ Finish(t)
    <3>1. /\ call[t].pc # "remember" /\ call'[t].pc # "remember"
      BY <2>6, TurnedSteps DEF Turned
    <3>2. mSegment' = mSegment /\ hwSegment' = hwSegment /\ drvSegment' = drvSegment
      BY <2>6 DEF SetSegment, Piece, NextPiece, Finish, segmentVars
    <3>3. ~ upset /\ (\A u \in Threads \ {t} : call[u].pc # "remember") =>
            drvSegment = hwSegment /\ mSegment = hwSegment
      BY <3>1 DEF CopiesInv
    <3>. QED
      BY <1>2, <2>1, <2>2, <2>3, <3>1, <3>2, <3>3
  <2>. QED
    BY <1>3, <2>2, <2>4, <2>5, <2>6 DEF Turns
<1>4. ASSUME NEW t \in Threads, Strides(t) PROVE CopiesInv'
  <2>1. PICK n \in Nat :
          /\ call[t].pc \in Within /\ UNCHANGED segmentVars
          /\ Passes(t, n)
          /\ upset' = upset \/ upset'
    BY <1>4, StridesStep DEF otherVars
  <2>2. OthersStay(t) /\ Active(t) /\ call[t].pc # "remember" /\ call'[t].pc # "remember"
    BY <2>1 DEF Passes, Active, Within
  <2>3. ~ upset /\ (\A u \in Threads \ {t} : call[u].pc # "remember") =>
          drvSegment = hwSegment /\ mSegment = hwSegment
    BY <2>2 DEF CopiesInv
  <2>. QED
    BY <1>0, <1>2, <2>1, <2>2, <2>3 DEF segmentVars
\* Nothing happens to the calls or to m_segment, and the other two stay true.
<1>5. ASSUME call' = call, mSegment' = mSegment, upset => upset',
             ~ upset' /\ drvSegment = hwSegment => hwSegment' = hwSegment /\ drvSegment' = hwSegment
      PROVE  CopiesInv'
  <2>. SUFFICES ASSUME ~ upset' PROVE CopiesInv'
    BY <1>0
  <2>1. /\ ~ upset /\ drvSegment = hwSegment
        /\ hwSegment' = hwSegment /\ drvSegment' = hwSegment
    BY <1>5 DEF CopiesInv
  <2>. QED
    BY <1>5, <2>1 DEF CopiesInv, Active
<1>6. CASE Others
  <2>1. call' = call /\ mSegment' = mSegment /\ (upset => upset')
    BY <1>6, OthersKeep
  <2>2. ~ upset' /\ drvSegment = hwSegment => hwSegment' = hwSegment /\ drvSegment' = hwSegment
    <3>1. ASSUME NEW p, NEW r, KernelWrite(p, r), ~ upset', drvSegment = hwSegment
          PROVE  hwSegment' = hwSegment /\ drvSegment' = hwSegment
      BY <3>1 DEF KernelWrite
    <3>2. ASSUME OtherOpens, ~ upset', drvSegment = hwSegment
          PROVE  hwSegment' = hwSegment /\ drvSegment' = hwSegment
      BY <3>2 DEF OtherOpens
    <3>3. ASSUME NEW b \in RawBlocks, RawAccess(b), ~ upset', drvSegment = hwSegment
          PROVE  hwSegment' = hwSegment /\ drvSegment' = hwSegment
      BY <3>3, RawMoves
    <3>. QED
      BY <1>6, <3>1, <3>2, <3>3 DEF Others
  <2>. QED
    BY <1>5, <2>1, <2>2
<1>7. CASE UNCHANGED vars
  BY <1>5, <1>7 DEF vars, callVars, segmentVars, otherVars
<1>. QED
  BY <1>1, <1>3, <1>4, <1>6, <1>7, NextSplit

-----------------------------------------------------------------------------
(* The theorems                                                            *)

LEMMA WindowInit ==
  ASSUME WindowAssumption, Init
  PROVE  IndInv
<1>1. Offset(0) = 0 /\ Segment(0) = 0
  BY DEF Offset, Segment, ACL_PCIE_MEMWINDOW_SIZE
<1>2. NoCall \in CallRecords
  <2>1. NoCall \in CallFields
    BY DEF NoCall, CallFields, CallPCs, Over
  <2>2. Shape(NoCall)
    BY <1>1 DEF Shape, NoCall, Before, Within, Over, ACL_PCIE_MEMWINDOW_SIZE
  <2>. QED
    BY <2>1, <2>2 DEF CallRecords
<1>3. \A t \in Threads : call[t] = NoCall /\ call[t].pc = "idle" /\ call[t].done = 0 /\ good[t] = 0 /\ ~ clean[t]
  BY DEF Init, NoCall
<1>4. TypeInv
  <2>1. call \in [Threads -> CallRecords] /\ good \in [Threads -> Nat] /\ clean \in [Threads -> BOOLEAN]
    BY <1>2 DEF Init
  <2>2. signals \in 0 .. MaxSignals
    BY DEF Init, WindowAssumption
  <2>. QED
    BY <1>1, <2>1, <2>2 DEF Init, TypeInv
<1>5. CountInv /\ AloneInv
  BY <1>3 DEF CountInv, AloneInv
<1>6. CopiesInv
  BY <1>3 DEF Init, CopiesInv, Active
<1>. QED
  BY <1>4, <1>5, <1>6 DEF IndInv

LEMMA WindowInvariant == Spec => []IndInv
<1>1. Init => IndInv
  BY WindowAssumption, WindowInit
<1>2. IndInv /\ [Next]_vars => IndInv'
  BY WindowAssumption, TypeNext, CountNext, AloneNext, CopiesNext DEF IndInv
<1>. QED
  BY <1>1, <1>2, PTL DEF Spec

\* read_write_block and read_write_block_bar (acl_pcie_device.cpp:756-902): the
\* counters of a transfer add up to its block, and a stretch stays in the window.
THEOREM WindowTypeCorrect == Spec => []TypeOK
<1>1. IndInv => TypeOK
  <2>. SUFFICES ASSUME IndInv PROVE TypeOK
    OBVIOUS
  <2>1. ASSUME NEW t \in Threads
        PROVE  /\ call[t].pc \in {"idle", "segment", "window", "remember", "piece", "head", "words",
                                  "tail", "next", "dma", "done"}
               /\ call[t].left \in 0 .. call[t].size /\ call[t].cur \in 0 .. call[t].left
               /\ call[t].pc \in {"head", "tail"} => call[t].byte \in 1 .. Word - 1
               /\ call[t].done + call[t].left + call[t].dma = call[t].size
               /\ Offset(call[t].dev) + call[t].cur <= ACL_PCIE_MEMWINDOW_SIZE
               /\ good[t] \in 0 .. call[t].size
    <3>1. PICK c \in CallRecords : c = call[t]
      BY DEF IndInv, TypeInv
    <3>2. /\ c.pc \in CallPCs /\ Shape(c)
          /\ c.left \in Nat /\ c.done \in Nat /\ c.cur \in Nat /\ c.dma \in Nat /\ c.size \in Nat
      BY RecordOf
    <3>3. good[t] \in Nat /\ good[t] <= IF c.pc = "done" THEN c.size ELSE c.done
      BY <3>1 DEF IndInv, TypeInv, CountInv
    <3>4. c.left \in 0 .. c.size /\ c.cur \in 0 .. c.left /\ c.done <= c.size
      BY <3>2 DEF Shape
    <3>5. good[t] \in 0 .. c.size
      BY <3>2, <3>3, <3>4
    <3>. QED
      BY <3>1, <3>2, <3>4, <3>5 DEF Shape, CallPCs, Before, Within, Over
  <2>. QED
    BY <2>1 DEF IndInv, TypeInv, TypeOK
<1>. QED
  BY <1>1, WindowInvariant, PTL

\* A block that has the window to itself from beginning to end arrives exactly,
\* whatever went before (acl_pcie_device.cpp:756-902).
THEOREM BlocksAreExact == Spec => []ExactWhenAlone
<1>1. IndInv => ExactWhenAlone
  BY DEF IndInv, AloneInv, ExactWhenAlone
<1>. QED
  BY <1>1, WindowInvariant, PTL

\* m_segment and the driver's global_mem_segment are true between transfers,
\* until one of the events that CopiesAreTrue names.
THEOREM CopiesStayTrue == Spec => []CopiesAreTrue
<1>1. IndInv => CopiesAreTrue
  BY DEF IndInv, CopiesInv, CopiesAreTrue, Quiet, Active
<1>. QED
  BY <1>1, WindowInvariant, PTL

\* A request for the memory of one segment (aclpci_fileio.c:528-601) that the
\* driver serves through the window reaches the memory it names, until one of
\* those events; one that runs past the segment's end need not.
THEOREM RequestsReach == Spec => []RawReaches
<1>1. Init => RawReaches
  BY DEF Init, RawReaches
<1>2. IndInv /\ RawReaches /\ [Next]_vars => RawReaches'
  <2>. SUFFICES ASSUME IndInv, RawReaches, [Next]_vars, raw'.how = "astray", raw'.within PROVE upset'
    BY DEF RawReaches
  <2>1. ASSUME NEW b \in RawBlocks, RawAccess(b) PROVE upset'
    <3>1. upset
      BY <2>1, RawMoves, WindowAssumption DEF IndInv, CopiesInv
    <3>. QED
      BY <2>1, <3>1 DEF RawAccess
  <2>2. CASE ~ \E b \in RawBlocks : RawAccess(b)
    <3>1. raw' = raw
      BY <2>2 DEF Next, Begin, SetSegment, WriteWindow, WindowLost, Remember, Piece, Byte, ByteLost,
                  Words, WordsLost, NextPiece, Finish, KernelWrite, OtherOpens, vars, otherVars
    <3>2. upset => upset'
      BY <2>2 DEF Next, Begin, SetSegment, WriteWindow, WindowLost, Remember, Piece, Byte, ByteLost,
                  Words, WordsLost, NextPiece, Finish, KernelWrite, OtherOpens, vars, otherVars
    <3>. QED
      BY <3>1, <3>2 DEF RawReaches
  <2>. QED
    BY <2>1, <2>2
<1>. QED
  BY <1>1, <1>2, WindowInvariant, PTL DEF Spec
=============================================================================
