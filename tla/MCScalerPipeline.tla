-------------------------- MODULE MCScalerPipeline --------------------------
(***************************************************************************)
(* Small instances of ScalerPipeline for TLC.                              *)
(***************************************************************************)
EXTENDS ScalerPipeline, TLC

CONSTANTS j1, j2, j3, s1, s2, p1, p2, d1, d2

\* Two jobs of one service compete with a job of the other one.
ThreeJobs == {j1, j2, j3}
TwoServices == {s1, s2}
MCServiceOf == [j \in ThreeJobs |-> IF j = j3 THEN s2 ELSE s1]

\* One job of each.
TwoJobsServiceOf == [j \in {j1, j3} |-> IF j = j3 THEN s2 ELSE s1]

\* Jobs of one service are interchangeable.
Alike == Permutations({j1, j2})

\* Two regions in the order of their global ids, on one board or on two.
TwoRegions == {p1, p2}
MCAllPRRs == <<p1, p2>>
OneBoard == {d1}
OnOneBoard == [p \in TwoRegions |-> d1]
TwoBoards == {d1, d2}
OnTwoBoards == [p \in TwoRegions |-> IF p = p1 THEN d1 ELSE d2]

\* What allocInitPRR makes of them: the first fit gives each service a region.
InitialInstances == [s \in TwoServices |-> IF s = s1 THEN <<p1>> ELSE <<p2>>]

\* A board with a single region, which all services share.
OneRegion == {p1}
OnlyPRR == <<p1>>
OneRegionDeviceOf == [p \in OneRegion |-> d1]
OneRegionInstances == [s \in TwoServices |-> <<p1>>]
=============================================================================
