----------------------------- MODULE MCMmdDevice -----------------------------
(***************************************************************************)
(* Small instances of MmdDevice for TLC: a file for the base design on the *)
(* board, one made by another Quartus version, which needs JTAG, and one   *)
(* that brings a base design and is then reconfigured.                     *)
(***************************************************************************)
EXTENDS MmdDevice, TLC

CONSTANTS t1, t2
TwoThreads == {t1, t2}
Alike == Permutations(TwoThreads)

\* What follows two calls that changed the handle map at once is not explored:
\* no property says anything of it.
Apart == "overlap" \notin ghost

File(base, quartus, named, sof, fast) ==
  [rbf |-> TRUE, named |-> named, sof |-> sof, fast |-> fast, base |-> base,
   quartus |-> quartus, core |-> "k"]

SomeFiles == {File("b1", "17a", TRUE, FALSE, FALSE), File("b1", "18", TRUE, TRUE, FALSE)}
FastFiles == {File("b2", "17a", TRUE, TRUE, TRUE)}

\* Files of every kind: of two versions with one trunk and a third, that say
\* their version or not, for designs with and without a RAM for it.
ManyFiles ==
  {File("b1", "17a", TRUE, FALSE, FALSE), File("b1", "17b", TRUE, TRUE, FALSE),
   File("b1", "18", TRUE, TRUE, TRUE), File("b1", "18", FALSE, TRUE, FALSE),
   File("b0", "17a", TRUE, TRUE, FALSE)}

\* "17a" and "17b" have one length and differ in the last character only.
MCTrunk == [v \in {"17a", "17b", "18", "blank"} |-> IF v \in {"17a", "17b"} THEN "17" ELSE v]
=============================================================================
