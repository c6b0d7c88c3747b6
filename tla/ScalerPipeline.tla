--------------------------- MODULE ScalerPipeline ---------------------------
(***************************************************************************)
(* The request pipeline of vFPGAScaler (source/util/vFPGAScaler).          *)
(*                                                                         *)
(* Every application thread (MMDApp::run) sends two requests, GETDEV and   *)
(* then GETPRG, to one task queue.  The request is a QEntry on the         *)
(* thread's own stack: the queues carry pointers to it and the thread      *)
(* spins on entry.is_done.  Three kinds of daemon threads poll the queues: *)
(*                                                                         *)
(*   TaskQueueManager (one)      pops the task queue and routes a GETDEV   *)
(*                               to a PRR queue (round robin over the      *)
(*                               instances of the service, or over all     *)
(*                               regions), a GETPRG to the PR queue of the *)
(*                               region's device, or answers it when the   *)
(*                               region already holds the service          *)
(*   PRRQueueManager (per PRR)   pops its queue, spins until the region is *)
(*                               READY, marks it RUNNING and answers       *)
(*   PRQueueManager (per device) reprograms the region and answers         *)
(*                                                                         *)
(* The thread then runs its kernel and marks the region READY again.       *)
(*                                                                         *)
(* A step below is a stretch of one thread's code between two accesses to  *)
(* state that other threads also use.  The queues are std::queue objects   *)
(* with one producer at a time and one consumer; their push and pop are    *)
(* atomic here.  The program is built without optimisation, so a spin loop *)
(* on a plain flag re-reads it.  Left out: the log files, all time stamps  *)
(* and the throughput computed from them, and the windows of the Scaler.   *)
(***************************************************************************)
EXTENDS Naturals, Sequences

CONSTANTS
  Jobs, Services, PRRs, Devices,
  ServiceOf,         \* [Jobs -> Services]: the service an application runs
  Instances,         \* [Services -> Seq(PRRs)]: Service.instances
  AllPRRs,           \* the regions in the order of their global ids
  SchedulingType,    \* "LocRR" or "GlobRR": the policy determinPRR is given
  DeviceOf,          \* [PRRs -> Devices]
  NoJob, NoPRR, NoService,
  HandleSurvives,    \* outcomes of "the old handle still works" after a reprogram
  ReprogramMayFail,  \* may aocl_mmd_reprogram return an error?
  JtagFallback       \* may it take the JTAG way? (see PrFullChip)

\* Services with at least one instance is what allocInitPRR is there to
\* guarantee (main.cpp:288) before the first job runs.
ASSUME PipelineAssumption ==
  /\ ServiceOf \in [Jobs -> Services]
  /\ DeviceOf \in [PRRs -> Devices]
  /\ \A s \in Services : Instances[s] \in Seq(PRRs) /\ Instances[s] # <<>>
  /\ AllPRRs \in Seq(PRRs) /\ AllPRRs # <<>>
  /\ SchedulingType \in {"LocRR", "GlobRR"}
  /\ NoJob \notin Jobs
  /\ NoPRR \notin PRRs
  /\ NoService \notin Services
  /\ HandleSurvives \in (SUBSET BOOLEAN) \ {{}}
  /\ ReprogramMayFail \in BOOLEAN
  /\ JtagFallback \in BOOLEAN

VARIABLES
  \* the application threads and the QEntry each of them owns
  app,         \* [Jobs -> AppPhases]
  device,      \* [Jobs -> PRRs \cup {NoPRR}]: __Device.glob_prr_id
  type,        \* [Jobs -> {"GETDEV", "GETPRG"}]: QEntry.type
  entryPRR,    \* [Jobs -> PRRs \cup {NoPRR}]: QEntry.glob_prr_id
  done,        \* [Jobs -> BOOLEAN]: QEntry.is_done
  \* the queues, of pointers to entries
  taskQ, prQ, prrQ,
  \* the daemons: where each is and the entry it works on
  tqPc, tqJob, prPc, prJob, prrPc, prrJob,
  \* the round-robin flags, modulo the length of their table: a service's own
  \* (Service.RR_flag), and at NoService the one over all regions
  rr,
  \* ResourceRegistry: Partition.status and programmed_with
  status, programmed,
  \* the boards: the bitstream a region carries, and whether the handle the
  \* registry keeps for a device still names an open device of the MMD
  config, handleLive,
  \* history: the regions whose bitstream another region's programming has
  \* changed, or whose own did not bring the service, since they were last loaded
  lost,
  \* the process has aborted in an MMD assertion
  crashed

appVars   == <<app, device, type, entryPRR, done>>
queueVars == <<taskQ, prQ, prrQ>>
tqVars    == <<tqPc, tqJob, rr>>
prVars    == <<prPc, prJob>>
prrVars   == <<prrPc, prrJob>>
regVars   == <<status, programmed>>
boardVars == <<config, handleLive, lost>>
vars == <<appVars, queueVars, tqVars, prVars, prrVars, regVars, boardVars, crashed>>

AppPhases == {"idle", "waitDev", "hasDev", "waitPrg", "run", "release"}

Init ==
  /\ app = [j \in Jobs |-> "idle"]
  /\ device = [j \in Jobs |-> NoPRR]
  /\ type = [j \in Jobs |-> "GETDEV"]
  /\ entryPRR = [j \in Jobs |-> NoPRR]
  /\ done = [j \in Jobs |-> FALSE]
  /\ taskQ = <<>>
  /\ prQ = [d \in Devices |-> <<>>]
  /\ prrQ = [p \in PRRs |-> <<>>]
  /\ tqPc = "idle" /\ tqJob = NoJob
  /\ prPc = [d \in Devices |-> "idle"] /\ prJob = [d \in Devices |-> NoJob]
  /\ prrPc = [p \in PRRs |-> "idle"] /\ prrJob = [p \in PRRs |-> NoJob]
  /\ rr = [s \in Services \cup {NoService} |-> 0]
  /\ status = [p \in PRRs |-> "READY"]
  /\ programmed = [p \in PRRs |-> NoService]
  /\ config = [p \in PRRs |-> NoService]
  /\ handleLive = [d \in Devices |-> TRUE]
  /\ lost = {}
  /\ crashed = FALSE

-----------------------------------------------------------------------------
(* Helpers *)

\* Mutant: any bitstream will do.
IsPrgWithAny(p, s) == programmed[p] # NoService

IsPrgWith(p, s) == programmed[p] = s

\* determinPRR: the table a policy goes round, its flag, and the region next in turn.
Table(s) == IF SchedulingType = "LocRR" THEN Instances[s] ELSE AllPRRs
Flag(s)  == IF SchedulingType = "LocRR" THEN s ELSE NoService
NextInstance(s) == Table(s)[rr[Flag(s)] + 1]

\* get_pcie_device(handle): an assertion ends the process when the handle is
\* not in the MMD's map any more.
HandleOK(p) == handleLive[DeviceOf[p]]

-----------------------------------------------------------------------------
(* Application threads: MMDApp::run, getDevice, getProgram, releaseDevice *)

\* TaskQueueManager::push, under the queue's mutex.
PushTask(j, t, p) ==
  /\ type' = [type EXCEPT ![j] = t]
  /\ entryPRR' = [entryPRR EXCEPT ![j] = p]
  /\ done' = [done EXCEPT ![j] = FALSE]
  /\ taskQ' = Append(taskQ, j)

SubmitDevice(j) ==
  /\ app[j] = "idle"
  /\ PushTask(j, "GETDEV", NoPRR)
  /\ app' = [app EXCEPT ![j] = "waitDev"]
  /\ UNCHANGED <<device, prQ, prrQ, tqVars, prVars, prrVars, regVars, boardVars, crashed>>

\* The spin ends, aocl_mmd_get_info is asked about the device, getDevice returns.
ReturnDevice(j) ==
  /\ app[j] = "waitDev" /\ done[j]
  /\ HandleOK(entryPRR[j])
  /\ device' = [device EXCEPT ![j] = entryPRR[j]]
  /\ app' = [app EXCEPT ![j] = "hasDev"]
  /\ UNCHANGED <<type, entryPRR, done, queueVars, tqVars, prVars, prrVars, regVars,
                 boardVars, crashed>>

SubmitProgram(j) ==
  /\ app[j] = "hasDev"
  /\ PushTask(j, "GETPRG", device[j])
  /\ app' = [app EXCEPT ![j] = "waitPrg"]
  /\ UNCHANGED <<device, prQ, prrQ, tqVars, prVars, prrVars, regVars, boardVars, crashed>>

\* Mutant: the spin on is_done has gone.
ReturnProgramEarly(j) ==
  /\ app[j] = "waitPrg"
  /\ app' = [app EXCEPT ![j] = "run"]
  /\ UNCHANGED <<device, type, entryPRR, done, queueVars, tqVars, prVars, prrVars, regVars,
                 boardVars, crashed>>

ReturnProgram(j) ==
  /\ app[j] = "waitPrg" /\ done[j]
  /\ app' = [app EXCEPT ![j] = "run"]
  /\ UNCHANGED <<device, type, entryPRR, done, queueVars, tqVars, prVars, prrVars, regVars,
                 boardVars, crashed>>

\* runVecAdd, runSobel, runMatMul: aocl_mmd_write, start, poll, aocl_mmd_read.
RunKernel(j) ==
  /\ app[j] = "run"
  /\ HandleOK(device[j])
  /\ app' = [app EXCEPT ![j] = "release"]
  /\ UNCHANGED <<device, type, entryPRR, done, queueVars, tqVars, prVars, prrVars, regVars,
                 boardVars, crashed>>

\* Mutant: the status flag is not put back.
ReleaseDeviceNoReset(j) ==
  /\ app[j] = "release"
  /\ device' = [device EXCEPT ![j] = NoPRR]
  /\ app' = [app EXCEPT ![j] = "idle"]
  /\ UNCHANGED <<type, entryPRR, done, queueVars, tqVars, prVars, prrVars, regVars,
                 boardVars, crashed>>

\* setPRRStatus(READY), the last thing the thread does with the region.
ReleaseDevice(j) ==
  /\ app[j] = "release"
  /\ status' = [status EXCEPT ![device[j]] = "READY"]
  /\ device' = [device EXCEPT ![j] = NoPRR]
  /\ app' = [app EXCEPT ![j] = "idle"]
  /\ UNCHANGED <<type, entryPRR, done, queueVars, tqVars, prVars, prrVars, programmed,
                 boardVars, crashed>>

\* An MMD call on a handle the MMD has discarded: ACL_PCIE_ASSERT fails.
AppAborts(j) ==
  /\ \/ app[j] = "waitDev" /\ done[j] /\ ~HandleOK(entryPRR[j])
     \/ app[j] = "run" /\ ~HandleOK(device[j])
  /\ crashed' = TRUE
  /\ UNCHANGED <<appVars, queueVars, tqVars, prVars, prrVars, regVars, boardVars>>

-----------------------------------------------------------------------------
(* TaskQueueManager::runDaemon *)

\* Mutant: front() without the pop().
TaskPopFront ==
  /\ tqPc = "idle" /\ taskQ # <<>>
  /\ tqJob' = Head(taskQ)
  /\ tqPc' = IF type[Head(taskQ)] = "GETDEV" THEN "route" ELSE "check"
  /\ UNCHANGED <<appVars, queueVars, rr, prVars, prrVars, regVars, boardVars, crashed>>

TaskPop ==
  /\ tqPc = "idle" /\ taskQ # <<>>
  /\ tqJob' = Head(taskQ)
  /\ taskQ' = Tail(taskQ)
  /\ tqPc' = IF type[Head(taskQ)] = "GETDEV" THEN "route" ELSE "check"
  /\ UNCHANGED <<appVars, prQ, prrQ, rr, prVars, prrVars, regVars, boardVars, crashed>>

\* Mutant: the flag is not taken modulo the number of instances.
TaskRouteNoWrap ==
  /\ tqPc = "route"
  /\ LET s == ServiceOf[tqJob] IN
       /\ prrQ' = [prrQ EXCEPT ![NextInstance(s)] = Append(@, tqJob)]
       /\ rr' = [rr EXCEPT ![Flag(s)] = @ + 1]
  /\ tqPc' = "stampDev"
  /\ UNCHANGED <<appVars, taskQ, prQ, tqJob, prVars, prrVars, regVars, boardVars, crashed>>

\* determinPRR, incrRRFlag, and the push to the region's queue.
TaskRoute ==
  /\ tqPc = "route"
  /\ LET s == ServiceOf[tqJob] IN
       /\ prrQ' = [prrQ EXCEPT ![NextInstance(s)] = Append(@, tqJob)]
       /\ rr' = [rr EXCEPT ![Flag(s)] = (@ + 1) % Len(Table(s))]
  /\ tqPc' = "stampDev"
  /\ UNCHANGED <<appVars, taskQ, prQ, tqJob, prVars, prrVars, regVars, boardVars, crashed>>

\* Mutant: is_done is forgotten on the short way.
TaskAnswerSilently ==
  /\ tqPc = "check" /\ IsPrgWith(entryPRR[tqJob], ServiceOf[tqJob])
  /\ tqPc' = "stampPrg"
  /\ UNCHANGED <<appVars, queueVars, tqJob, rr, prVars, prrVars, regVars, boardVars, crashed>>

\* The region already carries the service: the request is answered here.
TaskAnswer ==
  /\ tqPc = "check" /\ IsPrgWith(entryPRR[tqJob], ServiceOf[tqJob])
  /\ done' = [done EXCEPT ![tqJob] = TRUE]
  /\ tqPc' = "stampPrg"
  /\ UNCHANGED <<app, device, type, entryPRR, queueVars, tqJob, rr, prVars, prrVars, regVars,
                 boardVars, crashed>>

\* Mutant: the request is passed on and answered as well.
TaskForwardAndAnswer ==
  /\ tqPc = "check" /\ ~IsPrgWith(entryPRR[tqJob], ServiceOf[tqJob])
  /\ prQ' = [prQ EXCEPT ![DeviceOf[entryPRR[tqJob]]] = Append(@, tqJob)]
  /\ done' = [done EXCEPT ![tqJob] = TRUE]
  /\ tqPc' = "stampPrg"
  /\ UNCHANGED <<app, device, type, entryPRR, taskQ, prrQ, tqJob, rr, prVars, prrVars, regVars,
                 boardVars, crashed>>

TaskForward ==
  /\ tqPc = "check" /\ ~IsPrgWith(entryPRR[tqJob], ServiceOf[tqJob])
  /\ prQ' = [prQ EXCEPT ![DeviceOf[entryPRR[tqJob]]] = Append(@, tqJob)]
  /\ tqPc' = "stampPrg"
  /\ UNCHANGED <<appVars, taskQ, prrQ, tqJob, rr, prVars, prrVars, regVars, boardVars, crashed>>

\* The daemon still writes a time stamp into the entry and reads its type for
\* the log, after it has passed the entry on or answered it.
TaskStamp ==
  /\ tqPc \in {"stampDev", "stampPrg"}
  /\ tqPc' = "idle"
  /\ tqJob' = NoJob
  /\ UNCHANGED <<appVars, queueVars, rr, prVars, prrVars, regVars, boardVars, crashed>>

-----------------------------------------------------------------------------
(* PRQueueManager::runDaemon of device d *)

PrPop(d) ==
  /\ prPc[d] = "idle" /\ prQ[d] # <<>>
  /\ prJob' = [prJob EXCEPT ![d] = Head(prQ[d])]
  /\ prQ' = [prQ EXCEPT ![d] = Tail(@)]
  /\ prPc' = [prPc EXCEPT ![d] = "check"]
  /\ UNCHANGED <<appVars, taskQ, prrQ, tqVars, prrVars, regVars, boardVars, crashed>>

\* The second look at the registry; while prPc[d] = "reprogram" the call to
\* aocl_mmd_reprogram is under way.
PrCheck(d) ==
  /\ prPc[d] = "check"
  /\ prPc' = [prPc EXCEPT ![d] =
                IF IsPrgWith(entryPRR[prJob[d]], ServiceOf[prJob[d]])
                THEN "answer" ELSE "reprogram"]
  /\ UNCHANGED <<appVars, queueVars, tqVars, prJob, prrVars, regVars, boardVars, crashed>>

\* The regions a programming asked for by the entry j of a PR daemon has spoilt,
\* the entry's own included when it does not carry the service afterwards.
Lost(j) ==
  lost' = {p \in PRRs : IF p = entryPRR[j] THEN config'[p] # ServiceOf[j]
                        ELSE p \in lost \/ config'[p] # config[p]}

\* aocl_mmd_reprogram returns a handle.  The device object is deleted and opened
\* again: aocl_mmd.h lets the new handle be the old one or another;
\* acl_pcie.cpp always takes another (unique_id), or returns a negative one when
\* the board does not open.  The Scaler does not look at the result and keeps
\* the old handle.
Reopened(d) == \E live \in HandleSurvives : handleLive' = [handleLive EXCEPT ![d] = live]

\* The bitstream file is there (getServiceBin and loadFileIntoMemory end the program
\* otherwise) and fits the board: the region, and no other, is reconfigured.
PrReprogram(d) ==
  /\ prPc[d] = "reprogram" /\ handleLive[d]
  /\ config' = [config EXCEPT ![entryPRR[prJob[d]]] = ServiceOf[prJob[d]]]
  /\ Lost(prJob[d])
  /\ Reopened(d)
  /\ prPc' = [prPc EXCEPT ![d] = "record"]
  /\ UNCHANGED <<appVars, queueVars, tqVars, prJob, prrVars, regVars, crashed>>

\* What the board may carry after the JTAG way: the file's full design in
\* every region; its base design alone, or reconfigured with the service;
\* or what it had, when the design could not be written out.
FullChip(d, p, s) ==
  {config} \cup
  {[q \in PRRs |-> IF DeviceOf[q] # d THEN config[q] ELSE IF q = p THEN at[1] ELSE at[2]] :
     at \in {<<s, s>>, <<s, NoService>>, <<NoService, NoService>>}}

\* The JTAG way, for a file that does not fit the board's base design or Quartus version,
\* lacks a section, or by ACL_PCIE_USE_JTAG_PROGRAMMING: the whole chip is
\* programmed, and success reported in each case (MmdDevice has the steps).
PrFullChip(d) ==
  /\ JtagFallback
  /\ prPc[d] = "reprogram" /\ handleLive[d]
  /\ config' \in FullChip(d, entryPRR[prJob[d]], ServiceOf[prJob[d]])
  /\ Lost(prJob[d])
  /\ Reopened(d)
  /\ prPc' = [prPc EXCEPT ![d] = "record"]
  /\ UNCHANGED <<appVars, queueVars, tqVars, prJob, prrVars, regVars, crashed>>

\* It fails: a reconfiguration that leaves the region as it was, without a valid
\* bitstream, or loaded on a board that fails its tests; or a JTAG programming.
PrReprogramFails(d) ==
  /\ ReprogramMayFail
  /\ prPc[d] = "reprogram" /\ handleLive[d]
  /\ LET p == entryPRR[prJob[d]]
         s == ServiceOf[prJob[d]]
     IN config' \in {[config EXCEPT ![p] = left] : left \in {config[p], NoService, s}}
                     \cup (IF JtagFallback THEN FullChip(d, p, s) ELSE {})
  /\ Lost(prJob[d])
  /\ prPc' = [prPc EXCEPT ![d] = "record"]
  /\ UNCHANGED <<appVars, queueVars, tqVars, prJob, prrVars, regVars, handleLive, crashed>>

PrAborts(d) ==
  /\ prPc[d] = "reprogram" /\ ~handleLive[d]
  /\ crashed' = TRUE
  /\ UNCHANGED <<appVars, queueVars, tqVars, prVars, prrVars, regVars, boardVars>>

\* setPRRPrgStatus
PrRecord(d) ==
  /\ prPc[d] = "record"
  /\ programmed' = [programmed EXCEPT ![entryPRR[prJob[d]]] = ServiceOf[prJob[d]]]
  /\ prPc' = [prPc EXCEPT ![d] = "answer"]
  /\ UNCHANGED <<appVars, queueVars, tqVars, prJob, prrVars, status, boardVars,
                 crashed>>

PrAnswer(d) ==
  /\ prPc[d] = "answer"
  /\ done' = [done EXCEPT ![prJob[d]] = TRUE]
  /\ prPc' = [prPc EXCEPT ![d] = "idle"]
  /\ prJob' = [prJob EXCEPT ![d] = NoJob]
  /\ UNCHANGED <<app, device, type, entryPRR, queueVars, tqVars, prrVars, regVars,
                 boardVars, crashed>>

-----------------------------------------------------------------------------
(* PRRQueueManager::runDaemon of region p *)

PrrPop(p) ==
  /\ prrPc[p] = "idle" /\ prrQ[p] # <<>>
  /\ prrJob' = [prrJob EXCEPT ![p] = Head(prrQ[p])]
  /\ prrQ' = [prrQ EXCEPT ![p] = Tail(@)]
  /\ prrPc' = [prrPc EXCEPT ![p] = "spin"]
  /\ UNCHANGED <<appVars, taskQ, prQ, tqVars, prVars, regVars, boardVars, crashed>>

\* Mutant: the region is claimed without waiting for READY.
PrrReadyAtOnce(p) ==
  /\ prrPc[p] = "spin"
  /\ prrPc' = [prrPc EXCEPT ![p] = "claim"]
  /\ UNCHANGED <<appVars, queueVars, tqVars, prVars, prrJob, regVars, boardVars, crashed>>

\* The spin on getPRRStatus ends.
PrrReady(p) ==
  /\ prrPc[p] = "spin" /\ status[p] = "READY"
  /\ prrPc' = [prrPc EXCEPT ![p] = "claim"]
  /\ UNCHANGED <<appVars, queueVars, tqVars, prVars, prrJob, regVars, boardVars, crashed>>

\* setPRRStatus(RUNNING)
PrrClaim(p) ==
  /\ prrPc[p] = "claim"
  /\ status' = [status EXCEPT ![p] = "RUNNING"]
  /\ prrPc' = [prrPc EXCEPT ![p] = "grant"]
  /\ UNCHANGED <<appVars, queueVars, tqVars, prVars, prrJob, programmed, boardVars, crashed>>

PrrGrant(p) ==
  /\ prrPc[p] = "grant"
  /\ entryPRR' = [entryPRR EXCEPT ![prrJob[p]] = p]
  /\ done' = [done EXCEPT ![prrJob[p]] = TRUE]
  /\ prrPc' = [prrPc EXCEPT ![p] = "idle"]
  /\ prrJob' = [prrJob EXCEPT ![p] = NoJob]
  /\ UNCHANGED <<app, device, type, queueVars, tqVars, prVars, regVars, boardVars, crashed>>

-----------------------------------------------------------------------------
(* The specification *)

AppProgress(j) ==
  \/ ReturnDevice(j) \/ SubmitProgram(j) \/ ReturnProgram(j)
  \/ RunKernel(j) \/ ReleaseDevice(j) \/ AppAborts(j)

TaskDaemon == TaskPop \/ TaskRoute \/ TaskAnswer \/ TaskForward \/ TaskStamp

PrDaemon(d) ==
  \/ PrPop(d) \/ PrCheck(d) \/ PrReprogram(d) \/ PrFullChip(d) \/ PrReprogramFails(d)
  \/ PrAborts(d) \/ PrRecord(d) \/ PrAnswer(d)

PrrDaemon(p) ==
  PrrPop(p) \/ PrrReady(p) \/ PrrClaim(p) \/ PrrGrant(p)

\* The process is gone.
Aborted == crashed /\ UNCHANGED vars

Next ==
  \/ /\ ~crashed
     /\ \/ \E j \in Jobs : SubmitDevice(j) \/ AppProgress(j)
        \/ TaskDaemon
        \/ \E d \in Devices : PrDaemon(d)
        \/ \E p \in PRRs : PrrDaemon(p)
  \/ Aborted

Spec == Init /\ [][Next]_vars

\* Every daemon is a thread of its own that never blocks in the kernel, and so
\* is every application thread once it has submitted its request: the
\* scheduler of the operating system runs each of them again and again.
\* Whether another request ever arrives is the workload's business.
Fairness ==
  /\ \A j \in Jobs : WF_vars(~crashed /\ AppProgress(j))
  /\ WF_vars(~crashed /\ TaskDaemon)
  /\ \A d \in Devices : WF_vars(~crashed /\ PrDaemon(d))
  /\ \A p \in PRRs : WF_vars(~crashed /\ PrrDaemon(p))

FairSpec == Spec /\ Fairness

-----------------------------------------------------------------------------
(* Properties *)

TypeOK ==
  /\ app \in [Jobs -> AppPhases]
  /\ device \in [Jobs -> PRRs \cup {NoPRR}]
  /\ type \in [Jobs -> {"GETDEV", "GETPRG"}]
  /\ entryPRR \in [Jobs -> PRRs \cup {NoPRR}]
  /\ done \in [Jobs -> BOOLEAN]
  /\ taskQ \in Seq(Jobs)
  /\ prQ \in [Devices -> Seq(Jobs)]
  /\ prrQ \in [PRRs -> Seq(Jobs)]
  /\ tqPc \in {"idle", "route", "check", "stampDev", "stampPrg"}
  /\ tqJob \in Jobs \cup {NoJob}
  /\ prPc \in [Devices -> {"idle", "check", "reprogram", "record", "answer"}]
  /\ prJob \in [Devices -> Jobs \cup {NoJob}]
  /\ prrPc \in [PRRs -> {"idle", "spin", "claim", "grant"}]
  /\ prrJob \in [PRRs -> Jobs \cup {NoJob}]
  /\ rr \in [Services \cup {NoService} -> Nat]
  /\ \A s \in Services : rr[Flag(s)] < Len(Table(s))
  /\ status \in [PRRs -> {"READY", "RUNNING"}]
  /\ programmed \in [PRRs -> Services \cup {NoService}]
  /\ config \in [PRRs -> Services \cup {NoService}]
  /\ handleLive \in [Devices -> BOOLEAN]
  /\ lost \subseteq PRRs
  /\ crashed \in BOOLEAN

\* The region job j holds: from the moment its GETDEV entry is marked done,
\* whether or not the thread has noticed, to the release.
HeldBy(j) ==
  CASE app[j] = "waitDev" /\ done[j] -> entryPRR[j]
    [] app[j] \in {"hasDev", "waitPrg", "run", "release"} -> device[j]
    [] OTHER -> NoPRR

\* No two jobs hold the same region at the same time, although status is a
\* plain flag that the daemon tests, and later sets, while the holder clears it.
MutualExclusion ==
  \A i, j \in Jobs : i # j /\ HeldBy(i) # NoPRR => HeldBy(i) # HeldBy(j)

\* A region marked RUNNING always has somebody who will mark it READY again: the
\* job that holds it, or the daemon that is about to hand it over, never both.
\* A region with neither would be lost, and with it every request in its queue.
StatusTracksHolder ==
  \A p \in PRRs :
    LET held == \E j \in Jobs : HeldBy(j) = p
        offered == prrPc[p] = "grant"
    IN  /\ (status[p] = "RUNNING") <=> (held \/ offered)
        /\ ~(held /\ offered)

\* The spots where a pointer to an entry can be: a queue, or the hand of a daemon
\* that has not passed it on yet.
Spots == ({"taskQ", "task"} \X {NoPRR}) \cup ({"prQ", "pr"} \X Devices)
           \cup ({"prrQ", "prr"} \X PRRs)

Elems(q) == {q[i] : i \in DOMAIN q}

At(x) ==
  CASE x[1] = "taskQ" -> Elems(taskQ)
    [] x[1] = "task"  -> IF tqPc \in {"route", "check"} THEN {tqJob} ELSE {}
    [] x[1] = "prQ"   -> Elems(prQ[x[2]])
    [] x[1] = "pr"    -> IF prPc[x[2]] # "idle" THEN {prJob[x[2]]} ELSE {}
    [] x[1] = "prrQ"  -> Elems(prrQ[x[2]])
    [] x[1] = "prr"   -> IF prrPc[x[2]] # "idle" THEN {prrJob[x[2]]} ELSE {}

NoDuplicates(q) == \A i, k \in DOMAIN q : q[i] = q[k] => i = k

Waiting(j) == app[j] \in {"waitDev", "waitPrg"} /\ ~done[j]

QueuesHaveNoDuplicates ==
  /\ NoDuplicates(taskQ)
  /\ \A d \in Devices : NoDuplicates(prQ[d])
  /\ \A p \in PRRs : NoDuplicates(prrQ[p])

\* A pointer to a thread's entry is in exactly one place while the thread waits
\* for the answer, and in none otherwise: no request is lost, answered twice,
\* or still queued when its owner has gone on and its stack frame has died.
EntryInOnePlace ==
  /\ QueuesHaveNoDuplicates
  /\ \A j \in Jobs : Waiting(j) => \E x \in Spots : j \in At(x)
  /\ \A j \in Jobs, x \in Spots :
       j \in At(x) => Waiting(j) /\ \A y \in Spots : j \in At(y) => x = y

\* A kernel runs on a region that carries the bitstream of its own service, unless
\* the region was spoilt since it was last loaded.  The registry says which
\* requests need no reprogramming, and is looked at by two daemons while a third
\* may be changing the board and another the registry.
RunsOwnService ==
  \A j \in Jobs : app[j] = "run" /\ device[j] \notin lost => config[device[j]] = ServiceOf[j]

\* A board changes only for a job that holds one of its regions and waits for
\* its bitstream, never for a request that was overtaken; a region is changed for
\* the holder of another one only by a programming that then counts as its loss.
OnlyHolderReprograms ==
  [][\A p \in PRRs : config'[p] # config[p] =>
       \E j \in Jobs : /\ HeldBy(j) # NoPRR /\ DeviceOf[HeldBy(j)] = DeviceOf[p]
                      /\ app[j] = "waitPrg" /\ ~done[j]
                      /\ (HeldBy(j) = p \/ p \in lost')
                      /\ config'[p] \in {ServiceOf[j], NoService}]_vars

\* Every request for a device leads to a run of the job's kernel, and every
\* region that is handed out becomes READY again, unless an MMD assertion ends
\* the process: nobody starves in a queue and no daemon spins for ever.
EveryJobRuns ==
  \A j \in Jobs : app[j] = "waitDev" ~> (app[j] = "run" \/ crashed)
EveryRegionReturns ==
  \A p \in PRRs : status[p] = "RUNNING" ~> (status[p] = "READY" \/ crashed)

\* The pipeline implements the lease of PRRLease.
Phase(j) ==
  CASE app[j] = "waitDev" /\ ~done[j] -> "waiting"
    [] app[j] = "waitDev" /\ done[j] -> "leased"
    [] app[j] \in {"hasDev", "waitPrg"} -> "leased"
    [] app[j] \in {"run", "release"} -> "running"
    [] OTHER -> "idle"

Lease == INSTANCE PRRLease WITH
  Allowed <- [s \in Services |-> Elems(Table(s))],
  phase <- [j \in Jobs |-> Phase(j)],
  at <- [j \in Jobs |-> HeldBy(j)],
  loaded <- config

ImplementsLease == Lease!Spec

-----------------------------------------------------------------------------
(* What a comment promises and the code does not keep *)

\* aocl_mmd.h:404 "The new handle to the board after reprogram does not have to
\* be the same as the one before": the host goes on with the handle returned.
NoStaleHandle == ~crashed

\* queuemanager.cpp:114 "the PRR is alreday configured with the service": a
\* region for which isPrgWith holds carries the service.
AlreadyConfigured ==
  tqPc = "check" /\ IsPrgWith(entryPRR[tqJob], ServiceOf[tqJob]) =>
    config[entryPRR[tqJob]] = ServiceOf[tqJob]

-----------------------------------------------------------------------------
(* The inductive invariant behind the theorems of ScalerPipelineProofs, and
   the two facts ScalerLeaseProofs adds to it *)

\* A daemon that works on an entry knows which; an idle one holds none.
HandsInv ==
  /\ tqPc # "idle" => tqJob \in Jobs
  /\ \A d \in Devices : prPc[d] # "idle" => prJob[d] \in Jobs
  /\ \A p \in PRRs : prrPc[p] # "idle" => prrJob[p] \in Jobs

\* What the local data of an application thread say at each point of run().
AppInv ==
  \A j \in Jobs :
    /\ app[j] = "waitDev" => type[j] = "GETDEV" /\ (done[j] => entryPRR[j] \in PRRs)
    /\ app[j] \in {"hasDev", "waitPrg", "run", "release"} => device[j] \in PRRs
    /\ app[j] = "waitPrg" => type[j] = "GETPRG" /\ entryPRR[j] = device[j]

\* Where an entry is says what kind of request it is.
KindInv ==
  /\ tqPc = "route" => type[tqJob] = "GETDEV"
  /\ tqPc = "check" => type[tqJob] = "GETPRG"
  /\ \A d \in Devices : \A j \in At(<<"prQ", d>>) \cup At(<<"pr", d>>) :
       type[j] = "GETPRG" /\ DeviceOf[entryPRR[j]] = d
  /\ \A p \in PRRs : \A j \in At(<<"prrQ", p>>) \cup At(<<"prr", p>>) :
       type[j] = "GETDEV"

\* The daemon of a region trusts its own READY test until it sets the flag:
\* between the two nobody else may set it.
ClaimInv ==
  \A p \in PRRs : prrPc[p] = "claim" => status[p] = "READY"

IInv ==
  TypeOK /\ HandsInv /\ EntryInOnePlace /\ AppInv /\ KindInv /\ ClaimInv
    /\ StatusTracksHolder /\ MutualExclusion

\* What the boards carry: the registry is right about a region that is not lost
\* except while the PR daemon is about to correct it, an entry is answered
\* for a region that carries its service or is lost, and so it stays until the run.
BitstreamInv ==
  /\ \A p \in PRRs : \/ p \in lost \/ programmed[p] \in {NoService, config[p]}
                     \/ \E d \in Devices : prPc[d] = "record" /\ entryPRR[prJob[d]] = p
  /\ \A d \in Devices : prPc[d] \in {"record", "answer"} =>
       entryPRR[prJob[d]] \in lost \/ config[entryPRR[prJob[d]]] = ServiceOf[prJob[d]]
  /\ \A j \in Jobs : app[j] = "run" \/ (app[j] = "waitPrg" /\ done[j]) =>
       device[j] \in lost \/ config[device[j]] = ServiceOf[j]

\* An entry is only ever in the queue of a region its service may use.
RouteInv ==
  \A p \in PRRs : \A j \in At(<<"prrQ", p>>) \cup At(<<"prr", p>>) :
    p \in Elems(Table(ServiceOf[j]))
=============================================================================
