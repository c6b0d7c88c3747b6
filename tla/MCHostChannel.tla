---------------------------- MODULE MCHostChannel ----------------------------
(***************************************************************************)
(* Small instances of HostChannel for TLC: pages of two units and buffers  *)
(* of at most four, so that a program gets a ring of two or of four.       *)
(***************************************************************************)
EXTENDS HostChannel

BothChannels == [push |-> {3}, pull |-> {1}]
=============================================================================
