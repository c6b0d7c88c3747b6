----------------------------- MODULE MCDriverDMA -----------------------------
(***************************************************************************)
(* Small instances of DriverDMA for TLC: pages of four units, tables of    *)
(* two descriptors, at most four pages pinned at a time.                   *)
(***************************************************************************)
EXTENDS DriverDMA

CONSTANTS r1

\* From three places of a page: transfers inside one page, of more than a table,
\* and of several pinned stretches, the last page of which is put off or not.
ManyTransfers == {[off |-> o, len |-> n] : o \in {0, 1, 3}, n \in {2, 19, 21}}
TwoTransfers == {[off |-> 1, len |-> 2], [off |-> 3, len |-> 9]}
OneTransfer == {[off |-> 3, len |-> 9]}
OneRegion == {r1}
=============================================================================
