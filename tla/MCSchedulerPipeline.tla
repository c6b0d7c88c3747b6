------------------------ MODULE MCSchedulerPipeline ------------------------
(***************************************************************************)
(* Two boards of two partitions.  VecAdd is the application main starts;   *)
(* Other competes with it for one partition, and has any of the other run  *)
(* functions; Wide has a file for a partition that no board has.           *)
(***************************************************************************)
EXTENDS SchedulerPipeline

MCBoards == <<"acl0", "acl1">>
MCBin == [a \in Apps |-> IF a = "Wide" THEN 2 ELSE 0]
MCNames == [a \in Apps |-> IF a = "Other" THEN {"FFT2D", "Sobel", "MatMul"} ELSE {"VecAdd"}]
=============================================================================
