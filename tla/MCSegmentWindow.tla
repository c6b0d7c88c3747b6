--------------------------- MODULE MCSegmentWindow ---------------------------
(***************************************************************************)
(* Small instances of SegmentWindow for TLC: blocks that begin and end at  *)
(* odd bytes, cross a window's end, or give all or part to the DMA; and    *)
(* requests of another program that stay in the window, run past its end   *)
(* or past the refused end of the BAR, or carry bit 1 of the address.      *)
(***************************************************************************)
EXTENDS SegmentWindow, TLC

CONSTANTS t1, t2

Block(dev, size, aligned) == [dev |-> dev, size |-> size, aligned |-> aligned]
Raw(dev, size) == [dev |-> dev, size |-> size]

TwoThreads == {t1, t2}
ThreadSymmetry == Permutations(TwoThreads)

SomeBlocks == {Block(65526, 21, FALSE), Block(65536, 1029, TRUE), Block(131081, 2, FALSE)}
SomeRaws == {Raw(65542, 7), Raw(131072, 4099), Raw(131070, 200000), Raw(131065, 20)}
=============================================================================
