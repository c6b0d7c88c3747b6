-------------------------- MODULE SchedulerPipeline --------------------------
(***************************************************************************)
(* The vFPGAScheduler program: applications that ask for a partition, the  *)
(* thread that serves the task queue, the thread that serves the           *)
(* reprogramming queue, the registries, and the handle of each board that  *)
(* the MMD changes at every reprogramming (src/source/util/vFPGAScheduler).*)
(*                                                                         *)
(* No thread holds a lock: an application spins on the flag of its entry,  *)
(* the task thread spins on a partition's status.  A call with a handle    *)
(* the MMD does not know, and a kernel call that names no partition, end   *)
(* the process.  A write to the entry of a call that has returned is left  *)
(* out.                                                                    *)
(***************************************************************************)
EXTENDS Integers, Sequences, FiniteSets

CONSTANTS
  Apps,          \* the applications of main
  Boards,        \* the boards, in the order the registry's map lists them
  NumPartitions, \* partitions of each board
  Bin,           \* Bin[a]: the partition that a's file was built for
  Names,         \* Names[a]: the names a may have; the name chooses the run function
  TotRequest,    \* requests of each application
  PrMayFail      \* a file may be missing, a reprogramming may fail

ASSUME SchedulerAssumption ==
  /\ IsFiniteSet(Apps)
  /\ Len(Boards) \in Nat /\ NumPartitions \in Nat \ {0}
  /\ TotRequest \in Nat \ {0} /\ PrMayFail \in BOOLEAN
  /\ Bin \in [Apps -> Nat] /\ Names \in [Apps -> SUBSET {"VecAdd", "FFT2D", "Sobel", "MatMul"}]

VARIABLES
  registry, \* the resource registry: handle, and status and service of partitions
  services, \* the service registry: who is found under an id
  ids,      \* each application's id, 0 before it has one
  live,     \* the MMD's handle of each board
  opened,   \* handles the MMD has given out
  app,      \* each application: where it is, the length it read of the service
            \* registry, its entry, and requests served
  IQ,       \* applications whose entry waits in the task queue
  PRQ,      \* those whose entry waits in the reprogramming queue
  task,     \* the task thread
  pr,       \* the reprogramming thread
  alive     \* the process runs

vars == <<registry, services, ids, live, opened, app, IQ, PRQ, task, pr, alive>>

Parts == 0 .. NumPartitions - 1
Places == 1 .. Len(Boards)
None == [board |-> 0, part |-> -1]
NoEntry == [done |-> FALSE, handle |-> -1, at |-> None]
\* A partition in an entry that nobody has chosen
Unplaced == [board : {0}, part : Parts \cup {-1}]

\* rsc_reg_init: every board is opened, its partitions ready and empty.
Init ==
  /\ registry = [b \in Places |->
       [handle |-> b, part |-> [p \in Parts |-> [status |-> "READY", programmed_with |-> 0]]]]
  /\ services = {} /\ ids = [a \in Apps |-> 0]
  /\ live = [b \in Places |-> b] /\ opened = Len(Boards)
  /\ app = [a \in Apps |-> [pc |-> "new", len |-> 0, entry |-> NoEntry, served |-> 0]]
  /\ IQ = <<>> /\ PRQ = <<>>
  /\ task = [pc |-> "idle", for |-> "none", at |-> None]
  /\ pr = [pc |-> "idle", for |-> "none", at |-> None]
  /\ alive = TRUE

At(a, pc) == alive /\ app[a].pc = pc
Dies == alive' = FALSE
Lives == UNCHANGED alive

Known(h) == \E b \in Places : live[b] = h

-----------------------------------------------------------------------------
(* The application: MMDApp.                                                *)

\* AddEntry reads the registry's length; ...
registerService(a) ==
  /\ At(a, "new")
  /\ app' = [app EXCEPT ![a].pc = "adds", ![a].len = Cardinality(services)]
  /\ UNCHANGED <<registry, services, ids, live, opened, IQ, PRQ, task, pr, alive>>

\* Mutant: the id is the registry's length.
NewIdFromZero(a) == app[a].len
NewId(a) == app[a].len + 1

\* ... the entry gets the next number as its id, and is inserted, which does
\* nothing if another has come in under that id meanwhile.
AddEntry(a) ==
  /\ At(a, "adds")
  /\ ids' = [ids EXCEPT ![a] = NewId(a)]
  /\ services' = IF \E s \in services : s.id = NewId(a) THEN services
                 ELSE services \cup {[id |-> NewId(a), app |-> a]}
  /\ app' = [app EXCEPT ![a].pc = "start", ![a].len = 0]
  /\ UNCHANGED <<registry, live, opened, IQ, PRQ, task, pr, alive>>

getHardware(a) ==
  /\ At(a, "start") /\ app[a].served < TotRequest
  /\ app' = [app EXCEPT ![a].pc = "waitTask", ![a].entry = NoEntry]
  /\ IQ' = Append(IQ, a)
  /\ UNCHANGED <<registry, services, ids, live, opened, PRQ, task, pr, alive>>

\* is_programmed_with looks for the entry's handle.
is_programmed_with(h, p, id) ==
  \E b \in Places : registry[b].handle = h /\ p \in Parts /\ registry[b].part[p].programmed_with = id

\* getProgram: reprogram, unless the registry says the partition has the
\* service; then the result it returns is never filled in, and the next call
\* of the MMD gets a handle it does not know.
getProgram(a) ==
  /\ At(a, "waitTask") /\ app[a].entry.done
  /\ IF is_programmed_with(app[a].entry.handle, app[a].entry.at.part, ids[a])
     THEN Dies /\ UNCHANGED <<app, PRQ>>
     ELSE /\ app' = [app EXCEPT ![a].pc = "waitPr", ![a].entry.done = FALSE]
          /\ PRQ' = Append(PRQ, a) /\ Lives
  /\ UNCHANGED <<registry, services, ids, live, opened, IQ, task, pr>>

\* reprogram(prev_handle, new_handle, part_id, service_id) of the registry.
Reprogrammed(prev, new, p, id) ==
  [b \in Places |-> IF registry[b].handle = prev
                    THEN [registry[b] EXCEPT !.handle = new, !.part[p].programmed_with = id]
                    ELSE registry[b]]

\* Mutant: an application whose reprogramming failed starts over.
ProgrammedOrBack(a) ==
  /\ At(a, "waitPr") /\ app[a].entry.done
  /\ IF Known(app[a].entry.handle)
     THEN /\ registry' = Reprogrammed(app[a].entry.handle, app[a].entry.at.part, app[a].entry.at.part, ids[a])
          /\ app' = [app EXCEPT ![a].pc = "run"]
     ELSE /\ app' = [app EXCEPT ![a].pc = "start", ![a].entry = NoEntry]
          /\ UNCHANGED registry
  /\ UNCHANGED <<services, ids, live, opened, IQ, PRQ, task, pr, alive>>

\* getProgram calls it with the new handle as the previous one and the
\* partition as the new one, then sets the handlers of the new handle.
Programmed(a) ==
  /\ At(a, "waitPr") /\ app[a].entry.done
  /\ IF Known(app[a].entry.handle)
     THEN /\ registry' = Reprogrammed(app[a].entry.handle, app[a].entry.at.part, app[a].entry.at.part, ids[a])
          /\ app' = [app EXCEPT ![a].pc = "run"] /\ Lives
     ELSE Dies /\ UNCHANGED <<registry, app>>
  /\ UNCHANGED <<services, ids, live, opened, IQ, PRQ, task, pr>>

\* The run functions use the entry's handle, and write to the kernel's
\* registers.  Only runVecAdd names the partition: the others leave it at its
\* default, which is none, and their first such write ends the process.  Before
\* that, runSobel returns when it cannot read its image.
Returns(a) == app' = [app EXCEPT ![a].pc = "release"] /\ Lives
Aborts == Dies /\ UNCHANGED app

runVecAdd(a) == "VecAdd" \in Names[a] /\ Returns(a)
runFFT2D(a) == "FFT2D" \in Names[a] /\ Aborts
runSobel(a) == "Sobel" \in Names[a] /\ (Returns(a) \/ Aborts)
runMatMul(a) == "MatMul" \in Names[a] /\ Aborts

RunKernel(a) ==
  /\ At(a, "run")
  /\ IF Known(app[a].entry.handle)
     THEN runVecAdd(a) \/ runFFT2D(a) \/ runSobel(a) \/ runMatMul(a)
     ELSE Aborts
  /\ UNCHANGED <<registry, services, ids, live, opened, IQ, PRQ, task, pr>>

\* release marks the partition of the board that has the entry's handle.
Released(h, p) ==
  [b \in Places |-> IF registry[b].handle = h THEN [registry[b] EXCEPT !.part[p].status = "READY"]
                    ELSE registry[b]]

releaseHardware(a) ==
  /\ At(a, "release")
  /\ registry' = Released(app[a].entry.handle, app[a].entry.at.part)
  /\ app' = [app EXCEPT ![a].pc = "start", ![a].entry = NoEntry, ![a].served = @ + 1]
  /\ UNCHANGED <<services, ids, live, opened, IQ, PRQ, task, pr, alive>>

-----------------------------------------------------------------------------
(* The task thread: runTaskQueue, popTaskQueue, schedule.                  *)

\* determine_partition takes the first partition, board by board, that has the
\* service or that the service has a file for.
Slots == [board : Places, part : Parts]
Fits(a, s) == registry[s.board].part[s.part].programmed_with = ids[a] \/ Bin[a] = s.part
Before(s, t) == s.board < t.board \/ (s.board = t.board /\ s.part < t.part)
First(a) == {s \in Slots : Fits(a, s) /\ \A t \in Slots : Fits(a, t) => ~ Before(t, s)}

\* What hw_info holds before anyone writes it: the build gives no value.  A
\* handle nobody has stands for all that are unknown, the newest for the others;
\* that the partition is that of the application's file by chance is left out.
Unwritten(a) ==
  {[done |-> TRUE, handle |-> h, at |-> u] : h \in {-1, opened},
                                             u \in {v \in Unplaced : v.part # Bin[a]}}

\* Without a partition schedule sets the flag first, ...
popTaskQueue ==
  /\ alive /\ task.pc = "idle" /\ IQ # <<>>
  /\ IQ' = Tail(IQ)
  /\ LET a == Head(IQ) IN
       \/ \E s \in First(a) :
            /\ task' = [pc |-> "spin", for |-> a, at |-> s]
            /\ UNCHANGED app
       \/ /\ First(a) = {}
          /\ \E e \in Unwritten(a) : app' = [app EXCEPT ![a].entry = e]
          /\ task' = [pc |-> "nowhere", for |-> a, at |-> None]
  /\ UNCHANGED <<registry, services, ids, live, opened, PRQ, pr, alive>>

\* ... and only then writes that there is none: too late for an application
\* that has seen the flag.
schedule ==
  /\ alive /\ task.pc = "nowhere"
  /\ app' = IF app[task.for].pc = "waitTask"
            THEN [app EXCEPT ![task.for].entry = [done |-> TRUE, handle |-> -1, at |-> None]]
            ELSE app
  /\ task' = [pc |-> "idle", for |-> "none", at |-> None]
  /\ UNCHANGED <<registry, services, ids, live, opened, IQ, PRQ, pr, alive>>

\* Mutant: the task thread takes the partition without waiting.
determine_partition_now ==
  /\ alive /\ task.pc = "spin"
  /\ registry' = [registry EXCEPT ![task.at.board].part[task.at.part].status = "RUN"]
  /\ app' = [app EXCEPT ![task.for].entry =
               [done |-> TRUE, handle |-> registry[task.at.board].handle, at |-> task.at]]
  /\ task' = [pc |-> "idle", for |-> "none", at |-> None]
  /\ UNCHANGED <<services, ids, live, opened, IQ, PRQ, pr, alive>>

\* The task thread spins until that partition is ready: meanwhile nobody else
\* is served.
determine_partition ==
  /\ alive /\ task.pc = "spin"
  /\ registry[task.at.board].part[task.at.part].status = "READY"
  /\ registry' = [registry EXCEPT ![task.at.board].part[task.at.part].status = "RUN"]
  /\ app' = [app EXCEPT ![task.for].entry =
               [done |-> TRUE, handle |-> registry[task.at.board].handle, at |-> task.at]]
  /\ task' = [pc |-> "idle", for |-> "none", at |-> None]
  /\ UNCHANGED <<services, ids, live, opened, IQ, PRQ, pr, alive>>

-----------------------------------------------------------------------------
(* The reprogramming thread: runPRQueue, popPRQueue.                        *)

\* The name of a file is looked up by partition, none for no partition; a file
\* that cannot be read makes aocl_mmd_reprogram return an error before it looks
\* at the handle; a handle it does not know ends the process.
popPRQueue ==
  /\ alive /\ pr.pc = "idle" /\ PRQ # <<>>
  /\ PRQ' = Tail(PRQ)
  /\ LET a == Head(PRQ)  e == app[a].entry IN
       \/ /\ PrMayFail /\ e.at.part = Bin[a]
          /\ app' = [app EXCEPT ![a].entry.handle = -1, ![a].entry.done = TRUE]
          /\ Lives /\ UNCHANGED pr
       \/ /\ e.at.part = Bin[a] /\ Known(e.handle)
          /\ pr' = [pc |-> "programs", for |-> a, at |-> e.at]
          /\ Lives /\ UNCHANGED app
       \/ /\ e.at.part # Bin[a] \/ ~ Known(e.handle)
          /\ Dies /\ UNCHANGED <<pr, app>>
  /\ UNCHANGED <<registry, services, ids, live, opened, IQ, task>>

\* Mutant: the reprogramming thread never sets the flag of a success.
PrDoneSilent ==
  /\ alive /\ pr.pc = "programs"
  /\ \/ /\ opened' = opened + 1
        /\ live' = [live EXCEPT ![pr.at.board] = opened + 1]
        /\ app' = [app EXCEPT ![pr.for].entry.handle = opened + 1]
     \/ /\ PrMayFail
        /\ app' = [app EXCEPT ![pr.for].entry.handle = -1, ![pr.for].entry.done = TRUE]
        /\ live' \in {live, [live EXCEPT ![pr.at.board] = 0]}
        /\ UNCHANGED opened
  /\ pr' = [pc |-> "idle", for |-> "none", at |-> None]
  /\ UNCHANGED <<registry, services, ids, IQ, PRQ, task, alive>>

\* The board is closed and opened again under a new handle, which replaces the
\* one of the entry; after a failure the board keeps its own, or has none when
\* it is the opening that failed.
PrDone ==
  /\ alive /\ pr.pc = "programs"
  /\ \/ /\ opened' = opened + 1
        /\ live' = [live EXCEPT ![pr.at.board] = opened + 1]
        /\ app' = [app EXCEPT ![pr.for].entry.handle = opened + 1, ![pr.for].entry.done = TRUE]
     \/ /\ PrMayFail
        /\ app' = [app EXCEPT ![pr.for].entry.handle = -1, ![pr.for].entry.done = TRUE]
        /\ live' \in {live, [live EXCEPT ![pr.at.board] = 0]}
        /\ UNCHANGED opened
  /\ pr' = [pc |-> "idle", for |-> "none", at |-> None]
  /\ UNCHANGED <<registry, services, ids, IQ, PRQ, task, alive>>

AppStep(a) ==
  \/ registerService(a) \/ AddEntry(a) \/ getHardware(a) \/ getProgram(a)
  \/ Programmed(a) \/ RunKernel(a) \/ releaseHardware(a)

Next ==
  \/ \E a \in Apps : AppStep(a)
  \/ popTaskQueue \/ schedule \/ determine_partition
  \/ popPRQueue \/ PrDone

Spec == Init /\ [][Next]_vars

\* Every thread of the program runs.
FairSpec ==
  Spec /\ WF_vars(popTaskQueue) /\ WF_vars(schedule) /\ WF_vars(determine_partition)
       /\ WF_vars(popPRQueue) /\ WF_vars(PrDone)
       /\ \A a \in Apps : WF_vars(AppStep(a))
-----------------------------------------------------------------------------
(* Properties.                                                             *)

Entries == [done : BOOLEAN, handle : -1 .. opened, at : Slots \cup Unplaced]

\* The types; ids count from one (ServiceRegistry::AddEntry), though two
\* applications may have the same; an entry waits in a queue at most once; no
\* two boards are open under one handle.
TypeOK ==
  /\ \A b \in Places : /\ registry[b].handle \in Int
                       /\ \A p \in Parts : registry[b].part[p].status \in {"READY", "RUN"}
  /\ \A a \in Apps : /\ app[a].entry \in Entries /\ app[a].served \in 0 .. TotRequest
                     /\ app[a].pc \notin {"new", "adds"} => ids[a] \in Nat \ {0}
  /\ \A s \in services : s.app \in Apps /\ s.id = ids[s.app]
  /\ IQ \in Seq(Apps) /\ PRQ \in Seq(Apps) /\ Len(IQ) + Len(PRQ) <= Cardinality(Apps)
  /\ \A b, c \in Places : live[b] = live[c] => b = c \/ live[b] = 0

\* The partition an application was given and has not given back.
Holds(a, b, p) ==
  /\ app[a].entry.at = [board |-> b, part |-> p]
  /\ app[a].pc \in {"waitTask", "waitPr", "run", "release"}

\* No two applications have one partition at the same time
\* (ResourceRegistry::determine_partition waits for READY and stores RUN).
OneHolder ==
  \A a, c \in Apps, b \in Places, p \in Parts : Holds(a, b, p) /\ Holds(c, b, p) => a = c

\* A partition is left marked as running with nobody using it only on a board
\* that was reprogrammed since: the mark a request leaves behind comes from the
\* handle the registry lost, and from no failed reprogramming.
RunMeansHeld ==
  alive => \A b \in Places, p \in Parts :
    registry[b].part[p].status = "RUN" =>
      (\E a \in Apps : Holds(a, b, p)) \/ registry[b].handle # live[b]

\* Somebody is served in the end, or a call ends the process: the threads do
\* not wait for each other before the first request is done.
SomeoneServed == <>(~ alive \/ \E a \in Apps : app[a].served > 0)

\* mmdapp.cpp:625: once a request's reprogramming is recorded, the registry has
\* the handle of the board ("Update the new device handle and the prgorammed
\* status to the resource registry").
RegistryFollowsBoard ==
  \A a \in Apps : app[a].pc \in {"run", "release"} =>
    registry[app[a].entry.at.board].handle = app[a].entry.handle

\* mmdapp.cpp:129: registerService adds "the service info to the service
\* registry"; an application that has registered is found there under its id.
\* The code breaks it for two applications that register at the same time.
RegisteredUnderItsId ==
  \A a \in Apps : app[a].pc \notin {"new", "adds"} => [id |-> ids[a], app |-> a] \in services

\* resourceregistry.cpp:54, 60: the task thread "wait[s] until the partition be
\* ready", and it becomes so when whoever has it gives it back.  The code
\* breaks it once a board has been reprogrammed: the registry does not know the
\* handle it is given back with.
PartitionsComeBack == task.pc = "spin" ~> task.pc # "spin" \/ ~ alive
=============================================================================
