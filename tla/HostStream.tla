------------------------------ MODULE HostStream ------------------------------
(***************************************************************************)
(* What the two ends of a host channel may rely on: a stream of units in   *)
(* the order they were sent, none lost, doubled or made up, and never more *)
(* of them on the way than the buffer has room for.                        *)
(*                                                                         *)
(* Units are numbered in the order they are sent, modulo the size of the   *)
(* buffer, which is enough since fewer than that are ever on the way.  A   *)
(* closed channel has no units.  HostChannel shows that the rings, the     *)
(* pointers copied between host, driver and board, and the polling thread  *)
(* implement this module in each direction.                                *)
(***************************************************************************)
EXTENDS Integers

CONSTANTS Sizes           \* the sizes of buffer there are

VARIABLES size, sent, received

streamVars == <<size, sent, received>>

OnTheWay == (sent - received) % size

Init == size = 0 /\ sent = 0 /\ received = 0

Open(n) ==
  /\ size = 0 /\ size' = n
  /\ sent' = 0 /\ received' = 0

Send(n) ==
  /\ size > 0 /\ OnTheWay + n < size
  /\ sent' = (sent + n) % size
  /\ UNCHANGED <<size, received>>

Receive(n) ==
  /\ size > 0 /\ n <= OnTheWay
  /\ received' = (received + n) % size
  /\ UNCHANGED <<size, sent>>

Close ==
  /\ size > 0
  /\ size' = 0 /\ sent' = 0 /\ received' = 0

Next ==
  \/ \E n \in Sizes : Open(n)
  \/ \E n \in 1 .. size : Send(n) \/ Receive(n)
  \/ Close

Spec == Init /\ [][Next]_streamVars
=============================================================================
