------------------------------ MODULE PRRLease ------------------------------
(***************************************************************************)
(* What the Scaler promises to the applications that share the partially   *)
(* reconfigurable regions (PRRs) of the FPGA boards: a job that asks for a *)
(* region is given one of the regions of its service, alone, and the       *)
(* region stays the job's until its kernel has finished.  While it waits   *)
(* for its bitstream the holder, and nobody else, has the board            *)
(* programmed.  A programming that loads the service into the region and   *)
(* touches no other is what it should be; one that leaves the region with  *)
(* something else, or changes the other regions of the board, is possible, *)
(* and the regions it has spoilt are lost until they are loaded again.     *)
(* A kernel starts on its own service, or else on a lost region.           *)
(*                                                                         *)
(* Nothing is said of queues, of daemons or of the status flags they spin  *)
(* on: ScalerPipeline shows that those implement this module.              *)
(***************************************************************************)
CONSTANTS
  Jobs,        \* application threads (one MMDApp::run each)
  Services,    \* the registered services
  PRRs,        \* the regions, by global PRR id
  ServiceOf,   \* [Jobs -> Services]
  Allowed,     \* [Services -> SUBSET PRRs]: regions allocated to a service
  DeviceOf,    \* [PRRs -> Devices]: the board a region is part of
  NoPRR,       \* "holds no region"
  NoService    \* "carries no bitstream"

VARIABLES
  phase,       \* [Jobs -> Phases]
  at,          \* [Jobs -> PRRs \cup {NoPRR}]: the region a job holds
  loaded,      \* [PRRs -> Services \cup {NoService}]: what a region carries
  lost         \* the regions that may carry something else than was asked for

leaseVars == <<phase, at, loaded, lost>>

Phases == {"idle", "waiting", "leased", "running"}

Init ==
  /\ phase = [j \in Jobs |-> "idle"]
  /\ at = [j \in Jobs |-> NoPRR]
  /\ loaded = [p \in PRRs |-> NoService]
  /\ lost = {}

Free(p) == \A j \in Jobs : at[j] # p

Request(j) ==
  /\ phase[j] = "idle"
  /\ phase' = [phase EXCEPT ![j] = "waiting"]
  /\ UNCHANGED <<at, loaded, lost>>

Grant(j, p) ==
  /\ phase[j] = "waiting"
  /\ p \in Allowed[ServiceOf[j]]
  /\ Free(p)
  /\ phase' = [phase EXCEPT ![j] = "leased"]
  /\ at' = [at EXCEPT ![j] = p]
  /\ UNCHANGED <<loaded, lost>>

\* Only the holder's request changes the board, and before its kernel starts.
Program(j) ==
  /\ phase[j] = "leased"
  /\ loaded' \in [PRRs -> Services \cup {NoService}]
  /\ \A p \in PRRs : DeviceOf[p] # DeviceOf[at[j]] => loaded'[p] = loaded[p]
  /\ lost' = {p \in PRRs : IF p = at[j] THEN loaded'[p] # ServiceOf[j]
                           ELSE p \in lost \/ loaded'[p] # loaded[p]}
  /\ UNCHANGED <<phase, at>>

Start(j) ==
  /\ phase[j] = "leased"
  /\ at[j] \in lost \/ loaded[at[j]] = ServiceOf[j]
  /\ phase' = [phase EXCEPT ![j] = "running"]
  /\ UNCHANGED <<at, loaded, lost>>

Finish(j) ==
  /\ phase[j] = "running"
  /\ phase' = [phase EXCEPT ![j] = "idle"]
  /\ at' = [at EXCEPT ![j] = NoPRR]
  /\ UNCHANGED <<loaded, lost>>

Next ==
  \E j \in Jobs :
    \/ Request(j)
    \/ \E p \in PRRs : Grant(j, p)
    \/ Program(j)
    \/ Start(j)
    \/ Finish(j)

Spec == Init /\ [][Next]_leaseVars

=============================================================================
