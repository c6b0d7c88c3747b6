------------------------------- MODULE DMAWalk -------------------------------
(***************************************************************************)
(* How the driver cuts a transfer into pieces the DMA engine can take      *)
(* (linux64/driver/aclpci_dma.c): it pins a stretch of the user's buffer   *)
(* at a time, and of a pinned stretch sends either a table of whole pages  *)
(* or, where the stretch starts or ends inside a page, one power of two of *)
(* bytes after the other.                                                  *)
(*                                                                         *)
(* Addresses and lengths are in units, the alignment the MMD asks of a     *)
(* DMA transfer (64 bytes): PageUnits of them make a page.  Unit u of the  *)
(* user's memory is in page u \div PageUnits.                              *)
(***************************************************************************)
EXTENDS Naturals

CONSTANTS
  PageUnits,     \* PAGE_SIZE in units, a power of two
  TableSize,     \* ACL_PCIE_DMA_TABLE_SIZE: descriptors per table
  PagesLocked    \* ACL_PCIE_DMA_PAGES_LOCKED

ASSUME WalkAssumption ==
  /\ PageUnits \in Nat /\ PageUnits > 1
  /\ TableSize \in Nat \ {0}
  /\ PagesLocked \in Nat /\ PagesLocked > 1

\* Descriptor ids; Reset stands for ACL_PCIE_DMA_RESET_ID, which is none of them.
Ids == 0 .. TableSize - 1
Reset == TableSize

PageOf(u) == u \div PageUnits
AtMost(n, m) == IF n > m THEN m ELSE n

\* struct pinned_mem.  When ptr is FALSE nothing of it is valid; next is the page
\* m_cur_dma_addr stands for, partLast is m_handle_last.
NoBuffer == [ptr |-> FALSE, first |-> 0, pages |-> 0, next |-> 0, rem |-> 0,
             off |-> 0, lastOff |-> 0, partLast |-> 0]

\* lock_dma_buffer of n units from unit u on.
Locked(u, n) ==
  LET pages == PageOf(u + n - 1) - PageOf(u) + 1
  IN  [ptr |-> TRUE, first |-> PageOf(u), pages |-> pages, next |-> PageOf(u),
       rem |-> pages, off |-> u % PageUnits, lastOff |-> (u + n) % PageUnits,
       partLast |-> 0]

PagesOf(b) == b.first .. (b.first + b.pages - 1)

\* lock_size: the next stretch ends with a full table, or with the transfer.
LockSize(remaining, pageLast) ==
  IF remaining > (PagesLocked + TableSize - pageLast) * PageUnits
  THEN (PagesLocked + TableSize - 1 - pageLast) * PageUnits
  ELSE remaining

\* Mutant: the last page is not put off although it is one too many.
BegunOver(b) == [b EXCEPT !.partLast = IF b.lastOff # 0 /\ b.rem <= PagesLocked THEN 1 ELSE 0]

\* A buffer becomes the active one: m_handle_last, and the last page put off
\* to the next buffer when there is one page too many.
Begun(b) ==
  LET part == b.lastOff # 0
      over == b.rem > PagesLocked
  IN  [b EXCEPT !.partLast = IF part /\ ~over THEN 1 ELSE 0,
                !.rem = IF part /\ over THEN @ - 1 ELSE @]

\* first_size: what is left of the page the buffer has come to.
FirstSize(b, remaining) ==
  AtMost(IF b.rem = 1 THEN remaining ELSE PageUnits - b.off, PageUnits)

\* No odd number but one divides a power of two.
PowerOfTwo(p) == \A d \in 2 .. p : p % d = 0 => d % 2 = 0

\* non_aligned_page_handler: the largest power of two.
Piece(n) == CHOOSE p \in 1 .. n : PowerOfTwo(p) /\ \A q \in p + 1 .. n : ~PowerOfTwo(q)

\* Mutant: the ids do not start again at the end of the table.
StartIdNoWrap(lastId) == IF lastId = Reset THEN 0 ELSE lastId + 1

\* get_start_id
StartId(lastId) == IF lastId \in {Reset, TableSize - 1} THEN 0 ELSE lastId + 1

\* max_transfer of the page size branch.
WholePages(b, start) == AtMost(b.rem - b.partLast, TableSize - start)

\* Mutant: the offset into the page stays where it is.
AfterPieceStuck(b, n, size) ==
  IF n = size THEN [b EXCEPT !.off = 0, !.next = @ + 1, !.rem = @ - 1] ELSE b

\* The buffer after a piece of n units out of a page of which size were left.
AfterPiece(b, n, size) ==
  IF n = size THEN [b EXCEPT !.off = 0, !.next = @ + 1, !.rem = @ - 1]
              ELSE [b EXCEPT !.off = @ + n]
AfterPages(b, k) == [b EXCEPT !.next = @ + k, !.rem = @ - k]
=============================================================================
