---------------------------- MODULE SegmentWindow ----------------------------
(***************************************************************************)
(* Global memory as the host sees it without the DMA: a window of 64 KB in *)
(* BAR 4, and a register that says which segment of the memory the window  *)
(* shows.  Three places remember the segment: the board's register, the    *)
(* MMD (m_segment) and the driver (global_mem_segment), and each skips the *)
(* write when it believes the segment is there already.                    *)
(*                                                                         *)
(* Threads of a host program move blocks (read_write_block), and program   *)
(* the kernels' registers, which are in the same BAR.  Another program may *)
(* open the device, and may have the driver move the window for it, by     *)
(* small or unaligned requests to the DMA's BAR.  The driver serves one    *)
(* system call at a time; a signal that arrives while a call waits for its *)
(* turn ends the call with nothing done.                                   *)
(***************************************************************************)
EXTENDS Integers

CONSTANTS
  Threads,          \* threads of the host program
  Blocks,           \* the blocks they move: records dev, size, aligned (the host's address)
  RawBlocks,        \* what the other program asks the driver for: dev, size
  NumPartitions,    \* m_num_partitions
  KernelRegisters,  \* the registers of a kernel the program writes, as offsets
  MaxSignals        \* bound: calls that are interrupted

\* hw_pcie_constants.h
ACL_KERNEL_CSR_OFFSET == 16384
ACL_KERNEL_CSR_PARTITION_SIZE == 16384
ACL_PCIE_MEMWINDOW_CRA == 51312
ACL_PCIE_MEMWINDOW_BASE == 65536
ACL_PCIE_MEMWINDOW_SIZE == 65536
DMA_ALIGNMENT_BYTES == 64
BarLength == 262144           \* bar_length[4]: room for the freeze registers at 0x2c000

Word == 8                     \* sizeof(size_t)
BUF_SIZE == 4096

ASSUME WindowAssumption ==
  /\ \A b \in Blocks : b.dev \in Nat /\ b.size \in Nat \ {0} /\ b.aligned \in BOOLEAN
  /\ \A b \in RawBlocks : b.dev \in Nat /\ b.size \in Nat \ {0}
  /\ NumPartitions \in Nat /\ KernelRegisters \subseteq 0 .. ACL_KERNEL_CSR_PARTITION_SIZE - 1
  /\ MaxSignals \in Nat

VARIABLES
  call,       \* call[t]: where t is in read_write_block, and its local variables
  mSegment,   \* m_segment
  drvSegment, \* global_mem_segment
  hwSegment,  \* what the board's register holds
  good,       \* good[t]: bytes of the block that have been moved, each once, in order
  clean,      \* clean[t]: nothing has come between t and the window (history)
  upset,      \* has anything ever? (history)
  raw,        \* the last request of the other program: was it within a segment,
              \* and how did it end? (history)
  kernelHit,  \* what the last write to a kernel's register reached (history)
  signals

callVars == <<call, good, clean>>
segmentVars == <<mSegment, drvSegment, hwSegment>>
otherVars == <<upset, raw, kernelHit, signals>>
vars == <<callVars, segmentVars, otherVars>>

-----------------------------------------------------------------------------
(* The arithmetic                                                          *)

Segment(a) == a - (a % ACL_PCIE_MEMWINDOW_SIZE)
Offset(a) == a % ACL_PCIE_MEMWINDOW_SIZE

\* Mutant: the segment's number, as line 441 once had it
DriverSegmentNumber(a) == a \div ACL_PCIE_MEMWINDOW_SIZE

\* aclpci_set_segment masks with 1 - (SIZE - 1), which keeps bit 1 as well
DriverSegment(a) == Segment(a) + ((a \div 2) % 2) * 2

\* The memory the window shows: low bits of the register are not connected.
Shown(offset) == Segment(hwSegment) + offset

\* read_write_block: the DMA takes an aligned block up to an aligned end
DmaSize(b) ==
  IF b.aligned /\ b.dev % DMA_ALIGNMENT_BYTES = 0 /\ b.size >= 1024
  THEN b.size - (b.size % DMA_ALIGNMENT_BYTES) ELSE 0

\* read_write_block_bar: up to the window's end, or what is left.  First the
\* bytes before a multiple of 8, one by one, then whole words at once, then
\* the other bytes one by one.
Least(a, b) == IF a < b THEN a ELSE b
\* Mutant: the window's end is forgotten.
CurSizeWhole(dev, left) == left
CurSize(dev, left) == Least(ACL_PCIE_MEMWINDOW_SIZE - Offset(dev), left)
\* Mutant: the bytes before a whole word are not cut to what is left.
HeadSizeOver(dev, cur) == (Word - (Offset(dev) % Word)) % Word
HeadSize(dev, cur) ==
  LET odd == Least(Word - (Offset(dev) % Word), cur) IN IF odd = Word THEN 0 ELSE odd

\* aclpci_read_small and aclpci_write_small for 1, 2, 4 and 8 bytes;
\* aclpci_rw_large copies a buffer at a time, in words of four bytes and then
\* the bytes missed.
ChunkBytes(n) == (n \div 4) * 4 + (n % 4)
LargeBytes(n) == (n \div BUF_SIZE) * ChunkBytes(BUF_SIZE) + ChunkBytes(n % BUF_SIZE)
DriverBytes(n) == IF n \in {1, 2, 4, 8} THEN n ELSE LargeBytes(n)

\* address_range_check
InBar(first, n) == first >= 0 /\ first + n <= BarLength

-----------------------------------------------------------------------------
NoCall == [pc |-> "idle", dev |-> 0, left |-> 0, done |-> 0, cur |-> 0, byte |-> 0,
           dma |-> 0, size |-> 0]
Active(t) == call[t].pc \notin {"idle", "done"}
Signalled == signals < MaxSignals /\ signals' = signals + 1

\* ACL_PCIE_DEVICE's constructor has set the segment to 0; the driver's open
\* has set its copy to 0.
Init ==
  /\ call = [t \in Threads |-> NoCall]
  /\ mSegment = 0 /\ drvSegment = 0 /\ hwSegment = 0
  /\ good = [t \in Threads |-> 0] /\ clean = [t \in Threads |-> FALSE]
  /\ upset = FALSE /\ raw = [within |-> TRUE, how |-> "none"] /\ kernelHit = "register" /\ signals = 0

\* A transfer that begins while another runs shares the window with it.
Begin(t, b) ==
  /\ ~Active(t)
  /\ LET rest == b.size - DmaSize(b)
         next == IF rest > 0 THEN "segment" ELSE "dma"
         alone == \A u \in Threads : ~Active(u)
     IN  /\ call' = [call EXCEPT ![t] =
                      [NoCall EXCEPT !.pc = next, !.dev = b.dev + DmaSize(b), !.left = rest,
                                     !.dma = DmaSize(b), !.size = b.size]]
         /\ good' = [good EXCEPT ![t] = 0]
         /\ clean' = IF alone THEN [clean EXCEPT ![t] = (mSegment = Segment(hwSegment))]
                     ELSE [u \in Threads |-> FALSE]
         /\ upset' = (upset \/ ~alone)
  /\ UNCHANGED <<segmentVars, raw, kernelHit, signals>>

Goto(t, pc) == call' = [call EXCEPT ![t].pc = pc]

\* set_segment: the register is written only to change it
SetSegment(t) ==
  /\ call[t].pc = "segment"
  /\ Goto(t, IF Segment(call[t].dev) = mSegment THEN "piece" ELSE "window")
  /\ UNCHANGED <<segmentVars, good, clean, otherVars>>

\* Mutant: the driver does not look for writes to the register.
WriteWindowUnseen(t) ==
  /\ call[t].pc = "window" /\ Goto(t, "remember")
  /\ hwSegment' = Segment(call[t].dev)
  /\ UNCHANGED <<mSegment, drvSegment, good, clean, otherVars>>

\* The driver's aclpci_rw sees the write and keeps its own copy.
WriteWindow(t) ==
  /\ call[t].pc = "window" /\ Goto(t, "remember")
  /\ hwSegment' = Segment(call[t].dev) /\ drvSegment' = Segment(call[t].dev)
  /\ UNCHANGED <<mSegment, good, clean, otherVars>>

\* The result is looked at only after m_segment is set, and the caller drops it.
WindowLost(t) ==
  /\ call[t].pc = "window" /\ Goto(t, "remember")
  /\ Signalled
  /\ clean' = [clean EXCEPT ![t] = FALSE] /\ upset' = TRUE
  /\ UNCHANGED <<segmentVars, good, raw, kernelHit>>

Remember(t) ==
  /\ call[t].pc = "remember" /\ Goto(t, "piece")
  /\ mSegment' = Segment(call[t].dev)
  /\ UNCHANGED <<drvSegment, hwSegment, good, clean, otherVars>>

\* The stretch up to the window's end
Piece(t) ==
  LET c   == call[t]
      cur == CurSize(c.dev, c.left)
      odd == HeadSize(c.dev, cur)
  IN  /\ c.pc = "piece"
      /\ call' = [call EXCEPT ![t].pc = IF odd > 0 THEN "head" ELSE "words",
                              ![t].cur = cur, ![t].byte = odd]
      /\ UNCHANGED <<segmentVars, good, clean, otherVars>>

\* n bytes are moved by the driver through the window; they are good if the
\* window shows all of the memory where they belong.
Moves(t, n) ==
  LET c == call[t]
  IN  good' = [good EXCEPT ![t] =
                 IF /\ Shown(Offset(c.dev)) = c.dev /\ good[t] = c.done
                    /\ Offset(c.dev) + n <= ACL_PCIE_MEMWINDOW_SIZE
                 THEN @ + DriverBytes(n) ELSE @]
Advance(c, n) == [c EXCEPT !.dev = @ + n, !.left = @ - n, !.done = @ + n, !.cur = @ - n]

AfterHead(c) == IF c.cur >= Word THEN "words" ELSE IF c.cur > 0 THEN "tail" ELSE "next"

\* read_write_small_size, before and after the words
Byte(t) ==
  LET c == Advance(call[t], 1)
  IN  /\ call[t].pc \in {"head", "tail"}
      /\ Moves(t, 1)
      /\ call' = [call EXCEPT ![t] =
                    IF c.byte > 1 THEN [c EXCEPT !.byte = @ - 1]
                    ELSE [c EXCEPT !.byte = c.cur,
                          !.pc = IF call[t].pc = "head" THEN AfterHead(c) ELSE "next"]]
      /\ UNCHANGED <<segmentVars, clean, otherVars>>

\* It gives up at the first byte that fails, and the caller counts them all.
ByteLost(t) ==
  LET c == Advance(call[t], call[t].byte)
  IN  /\ call[t].pc \in {"head", "tail"} /\ Signalled
      /\ call' = [call EXCEPT ![t] =
                    [c EXCEPT !.byte = c.cur,
                     !.pc = IF call[t].pc = "head" THEN AfterHead(c) ELSE "next"]]
      /\ clean' = [clean EXCEPT ![t] = FALSE] /\ upset' = TRUE
      /\ UNCHANGED <<segmentVars, good, raw, kernelHit>>

WordsOf(c) == c.cur - (c.cur % Word)
AfterWords(c) ==
  LET n == WordsOf(c)
      a == Advance(c, n)
  IN  [a EXCEPT !.byte = a.cur, !.pc = IF a.cur > 0 THEN "tail" ELSE "next"]

Words(t) ==
  /\ call[t].pc = "words"
  /\ Moves(t, WordsOf(call[t]))
  /\ call' = [call EXCEPT ![t] = AfterWords(@)]
  /\ UNCHANGED <<segmentVars, clean, otherVars>>

WordsLost(t) ==
  /\ call[t].pc = "words" /\ Signalled
  /\ call' = [call EXCEPT ![t] = AfterWords(@)]
  /\ clean' = [clean EXCEPT ![t] = FALSE] /\ upset' = TRUE
  /\ UNCHANGED <<segmentVars, good, raw, kernelHit>>

\* The loop of read_write_block_bar, and the DMA (DriverDMA) for the rest
NextPiece(t) ==
  /\ call[t].pc = "next"
  /\ Goto(t, IF call[t].left > 0 THEN "segment" ELSE "dma")
  /\ UNCHANGED <<segmentVars, good, clean, otherVars>>

Finish(t) ==
  /\ call[t].pc = "dma" /\ Goto(t, "done")
  /\ good' = [good EXCEPT ![t] = @ + call[t].dma]
  /\ UNCHANGED <<segmentVars, clean, otherVars>>

\* aocl_mmd_write to a kernel's interface: where it is in BAR 4.  A write that
\* lands on the window's register puts its word there; the driver keeps a copy,
\* the MMD does not.  One that lands in the window changes the memory behind it.
KernelAddress(p, r) == ACL_KERNEL_CSR_OFFSET + p * ACL_KERNEL_CSR_PARTITION_SIZE + r
Reached(a) ==
  IF a = ACL_PCIE_MEMWINDOW_CRA THEN "segment"
  ELSE IF a \in ACL_PCIE_MEMWINDOW_BASE .. ACL_PCIE_MEMWINDOW_BASE + ACL_PCIE_MEMWINDOW_SIZE - 1
  THEN "memory" ELSE "register"
KernelWrite(p, r) ==
  /\ \E t \in Threads : ~Active(t)
  /\ kernelHit' = Reached(KernelAddress(p, r))
  /\ hwSegment' = IF kernelHit' = "segment" THEN 0 ELSE hwSegment
  /\ drvSegment' = IF kernelHit' = "segment" THEN 0 ELSE drvSegment
  /\ clean' = [t \in Threads |-> clean[t] /\ kernelHit' = "register"]
  /\ upset' = (upset \/ kernelHit' = "segment")
  /\ UNCHANGED <<call, good, mSegment, raw, signals>>

-----------------------------------------------------------------------------
(* The other program                                                       *)

\* aclpci_open for another file: the register is not touched
OtherOpens ==
  /\ drvSegment' = 0
  /\ upset' = (upset \/ hwSegment # 0)
  /\ UNCHANGED <<callVars, mSegment, hwSegment, raw, kernelHit, signals>>

\* aclpci_set_segment_by_val
Rewritten(believed, wanted, there) == IF wanted # believed THEN wanted ELSE there

\* Inside one segment, as whatever the window can show must be
OneSegment(b) == Offset(b.dev) + b.size <= ACL_PCIE_MEMWINDOW_SIZE

\* The branch of aclpci_rw for the DMA's BAR without DMA.  An access that goes
\* past the BAR is refused when the window has been moved, and left there.  One
\* that goes past the window only is served: the rest of it goes to whatever
\* is behind the window in the BAR.
RawAccess(b) ==
  LET wanted == DriverSegment(b.dev)
      during == Rewritten(drvSegment, wanted, hwSegment)
      after  == Rewritten(wanted, drvSegment, during)
      fits   == InBar(ACL_PCIE_MEMWINDOW_BASE + Offset(b.dev), b.size)
      right  == Segment(during) = Segment(b.dev) /\ OneSegment(b) /\ DriverBytes(b.size) = b.size
  IN  /\ hwSegment' = IF fits THEN after ELSE during
      /\ drvSegment' = IF fits THEN drvSegment ELSE wanted
      /\ raw' = [within |-> OneSegment(b),
                 how |-> IF ~fits THEN "refused" ELSE IF right THEN "right" ELSE "astray"]
      /\ clean' = [t \in Threads |-> clean[t] /\ hwSegment' = hwSegment]
      /\ upset' = (upset \/ hwSegment' # hwSegment)
      /\ UNCHANGED <<call, good, mSegment, kernelHit, signals>>

-----------------------------------------------------------------------------
Next ==
  \/ \E t \in Threads :
       \/ \E b \in Blocks : Begin(t, b)
       \/ SetSegment(t) \/ WriteWindow(t) \/ WindowLost(t) \/ Remember(t)
       \/ Piece(t) \/ Byte(t) \/ ByteLost(t) \/ Words(t) \/ WordsLost(t)
       \/ NextPiece(t) \/ Finish(t)
  \/ \E p \in 0 .. NumPartitions - 1 : \E r \in KernelRegisters : KernelWrite(p, r)
  \/ OtherOpens
  \/ \E b \in RawBlocks : RawAccess(b)

Spec == Init /\ [][Next]_vars

-----------------------------------------------------------------------------
(* Properties                                                              *)

Quiet == \A t \in Threads : ~Active(t)

\* The counters of a transfer stay within its block, a stretch within the
\* window, the bytes before and after the words are fewer than a word, and the
\* register holds a segment (perhaps with bit 1).
TypeOK ==
  /\ \A t \in Threads :
       /\ call[t].pc \in {"idle", "segment", "window", "remember", "piece", "head", "words",
                         "tail", "next", "dma", "done"}
       /\ call[t].left \in 0 .. call[t].size /\ call[t].cur \in 0 .. call[t].left
       /\ call[t].pc \in {"head", "tail"} => call[t].byte \in 1 .. Word - 1
       /\ call[t].done + call[t].left + call[t].dma = call[t].size
       /\ Offset(call[t].dev) + call[t].cur <= ACL_PCIE_MEMWINDOW_SIZE
       /\ good[t] \in 0 .. call[t].size
  /\ clean \in [Threads -> BOOLEAN] /\ upset \in BOOLEAN
  /\ {Offset(hwSegment), Offset(drvSegment)} \subseteq {0, 2} /\ Offset(mSegment) = 0
  /\ raw.within \in BOOLEAN /\ raw.how \in {"none", "right", "astray", "refused"}
  /\ kernelHit \in {"register", "segment", "memory"} /\ signals \in 0 .. MaxSignals

\* acl_pcie_device.cpp:756-902: a block transfer moves every byte, once and in
\* order, to the address it names, across window ends, odd bytes and the DMA's
\* share, provided that it began with a true m_segment and nothing else used
\* the window meanwhile - whatever happened before.
ExactWhenAlone ==
  \A t \in Threads : call[t].pc = "done" /\ clean[t] => good[t] = call[t].size

\* Both copies of the segment are true between transfers, unless at some time
\* two transfers overlapped, a call was interrupted, another program opened
\* the device, or the driver left the window where it had moved it.
CopiesAreTrue == Quiet /\ ~upset => mSegment = hwSegment /\ drvSegment = hwSegment

\* aclpci_fileio.c:528-539, 598-601: under the same condition a request that
\* lies in one segment, and that the driver serves through the window, reaches
\* the memory it names.
RawReaches == raw.how = "astray" => upset \/ ~raw.within

\* aclpci_fileio.c:529-530: every request for the memory that is served without
\* DMA is translated "to accesses to the memwindow" (under the same condition).
\* The code breaks it for requests that run past the end of a segment.
ServedThroughWindow == raw.how = "astray" => upset

\* hw_pcie_constants.h:108-110: "you can access CSR address of the i-th
\* partition" by multiplying: a write to a kernel's register reaches neither
\* global memory nor the window's register.  The code breaks it for the fourth
\* partition, whose registers lie where the window begins.
KernelKeepsMemory == kernelHit = "register"
=============================================================================
