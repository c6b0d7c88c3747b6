---------------------------- MODULE HostTransfer ----------------------------
(***************************************************************************)
(* What the host may rely on when it reads or writes a block of the        *)
(* board's memory through the MMD: the data move in pieces, in order, and  *)
(* the call returns, or its event is reported, only when all have moved.   *)
(* Only closing the device breaks a transfer off.                          *)
(*                                                                         *)
(* Nothing is said of pages, descriptor tables, interrupts, the work       *)
(* queue or signals: DriverDMA shows that those implement this module.     *)
(***************************************************************************)
EXTENDS Naturals

CONSTANTS Transfers    \* records with a field len

VARIABLES busy, length, moved

transferVars == <<busy, length, moved>>

Init == busy = FALSE /\ length = 0 /\ moved = 0

Request(x) ==
  /\ ~busy
  /\ busy' = TRUE /\ length' = x.len /\ moved' = 0

Move(n) ==
  /\ busy /\ moved + n <= length
  /\ moved' = moved + n
  /\ UNCHANGED <<busy, length>>

Return ==
  /\ busy /\ moved = length
  /\ busy' = FALSE /\ length' = 0 /\ moved' = 0

BreakOff ==
  /\ busy
  /\ busy' = FALSE /\ length' = 0 /\ moved' = 0

Next ==
  \/ \E x \in Transfers : Request(x)
  \/ \E n \in 1 .. length : Move(n)
  \/ Return
  \/ BreakOff

Spec == Init /\ [][Next]_transferVars
=============================================================================
