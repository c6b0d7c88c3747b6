-------------------------- MODULE SchedulerProofs --------------------------
(***************************************************************************)
(* Proofs about SchedulerPipeline, for any finite set of applications, any *)
(* boards, partitions and files, whether or not a reprogramming may fail.  *)
(***************************************************************************)
EXTENDS SchedulerPipeline, FiniteSetTheorems, SequenceTheorems, TLAPS

-----------------------------------------------------------------------------
(* The inductive invariant *)

Status == {"READY", "RUN"}

Stages == {"new", "adds", "start", "waitTask", "waitPr", "run", "release"}
EntryFields == [done : BOOLEAN, handle : Int, at : Slots \cup Unplaced]
AppFields == [pc : Stages, len : Nat, entry : EntryFields, served : Nat]

Fields ==
  /\ registry \in [Places -> [handle : Int, part : [Parts -> [status : Status, programmed_with : Int]]]]
  /\ app \in [Apps -> AppFields]
  /\ live \in [Places -> Int] /\ opened \in Int /\ opened >= Len(Boards)
  /\ IsFiniteSet(services)

\* The registry never learns a new handle; a board keeps its first one until it
\* is reprogrammed, and never gets it back.  It has none (0) after an opening
\* that failed.
HandleInv ==
  /\ \A b \in Places : registry[b].handle = b
  /\ \A b \in Places : live[b] = b \/ live[b] = 0 \/ live[b] > Len(Boards)

\* The application waits for the task thread, or for the reprogramming thread.
AwaitsTask(a) == app[a].pc = "waitTask" /\ ~ app[a].entry.done
AwaitsPr(a) == app[a].pc = "waitPr" /\ ~ app[a].entry.done

\* The handle of an entry: the registry's until the reprogramming is done, then
\* one the registry does not know.  An entry without a partition, written or
\* not, leads to no reprogramming.
EntryInv(a) ==
  LET e == app[a].entry IN
  /\ app[a].pc \in {"new", "adds", "start"} => e.at = None
  /\ AwaitsTask(a) => e.at = None
  /\ app[a].pc = "waitTask" \/ AwaitsPr(a) =>
       IF e.at \in Slots THEN e.handle = e.at.board ELSE e.at.part # Bin[a]
  /\ (app[a].pc = "waitPr" /\ e.done /\ e.handle # -1) \/ app[a].pc \in {"run", "release"} =>
       /\ e.at \in Slots /\ e.handle > Len(Boards) /\ live[e.at.board] > Len(Boards)

Within(a, q) == \E i \in 1 .. Len(q) : q[i] = a
Once(q) == \A i, j \in 1 .. Len(q) : q[i] = q[j] => i = j

\* An application that the task thread has no partition for, and has told so or
\* is about to.
Unserved(a) ==
  /\ a \in Apps /\ app[a].pc \in {"waitTask", "waitPr"}
  /\ app[a].pc = "waitTask" => app[a].entry.done
  /\ app[a].entry.at \notin Slots

\* Whoever the task thread serves, now or later, waits for it, and is served once.
TaskInv ==
  /\ IQ \in Seq(Apps) /\ Once(IQ)
  /\ \A a \in Apps : Within(a, IQ) => AwaitsTask(a)
  /\ task.pc = "spin" => /\ task.for \in Apps /\ task.at \in Slots
                         /\ AwaitsTask(task.for) /\ ~ Within(task.for, IQ)
  /\ task.pc = "nowhere" => Unserved(task.for)

\* The same of the reprogramming thread; the board it programs was never
\* programmed before.
PrInv ==
  /\ PRQ \in Seq(Apps) /\ Once(PRQ)
  /\ \A a \in Apps : Within(a, PRQ) => AwaitsPr(a)
  /\ pr.pc = "programs" => /\ pr.for \in Apps /\ pr.at \in Slots
                           /\ AwaitsPr(pr.for) /\ ~ Within(pr.for, PRQ)
                           /\ pr.at = app[pr.for].entry.at /\ live[pr.at.board] = pr.at.board

\* A partition somebody holds is marked.
HeldInv == \A a \in Apps, b \in Places, p \in Parts : Holds(a, b, p) => registry[b].part[p].status = "RUN"

SInv ==
  /\ Fields /\ HandleInv /\ (\A a \in Apps : EntryInv(a))
  /\ TaskInv /\ PrInv /\ HeldInv /\ OneHolder /\ RunMeansHeld

-----------------------------------------------------------------------------
(* Queues *)

\* What a queue holds after an application that was not in it enters.
LEMMA Enters ==
  ASSUME NEW q \in Seq(Apps), NEW a \in Apps, Once(q), ~ Within(a, q)
  PROVE  /\ Append(q, a) \in Seq(Apps) /\ Once(Append(q, a))
         /\ \A c \in Apps : Within(c, Append(q, a)) <=> Within(c, q) \/ c = a
<1>1. Len(q) \in Nat
  BY LenProperties
<1>2. /\ Append(q, a) \in Seq(Apps) /\ Len(Append(q, a)) = Len(q) + 1
      /\ \A i \in 1 .. Len(q) : Append(q, a)[i] = q[i]
      /\ Append(q, a)[Len(q) + 1] = a
  BY AppendProperties
<1>3. Once(Append(q, a))
  BY <1>1, <1>2 DEF Once, Within
<1>4. ASSUME NEW c \in Apps PROVE Within(c, Append(q, a)) <=> Within(c, q) \/ c = a
  BY <1>1, <1>2 DEF Within
<1> QED BY <1>2, <1>3, <1>4

\* What it holds after the first leaves.
LEMMA Leaves ==
  ASSUME NEW q \in Seq(Apps), q # <<>>, Once(q)
  PROVE  /\ Head(q) \in Apps /\ Within(Head(q), q)
         /\ Tail(q) \in Seq(Apps) /\ Once(Tail(q))
         /\ \A c \in Apps : Within(c, Tail(q)) <=> Within(c, q) /\ c # Head(q)
<1>1. Len(q) \in Nat \ {0}
  BY EmptySeq, LenProperties
<1>2. Head(q) = q[1] /\ Head(q) \in Apps
  BY <1>1
<1>3. /\ Tail(q) \in Seq(Apps) /\ Len(Tail(q)) = Len(q) - 1
      /\ \A i \in 1 .. Len(Tail(q)) : Tail(q)[i] = q[i + 1]
  BY HeadTailProperties
<1>4. Once(Tail(q))
  BY <1>1, <1>3 DEF Once
<1>5. ASSUME NEW c \in Apps PROVE Within(c, Tail(q)) <=> Within(c, q) /\ c # Head(q)
  <2>1. ASSUME Within(c, Tail(q)) PROVE Within(c, q) /\ c # Head(q)
    <3>1. PICK i \in 1 .. Len(Tail(q)) : q[i + 1] = c
      BY <2>1, <1>3 DEF Within
    <3>2. i + 1 \in 1 .. Len(q) /\ 1 \in 1 .. Len(q) /\ i + 1 # 1
      BY <1>1, <1>3
    <3> QED BY <3>1, <3>2, <1>2 DEF Within, Once
  <2>2. ASSUME Within(c, q), c # Head(q) PROVE Within(c, Tail(q))
    <3>1. PICK i \in 1 .. Len(q) : q[i] = c
      BY <2>2 DEF Within
    <3>2. i - 1 \in 1 .. Len(Tail(q)) /\ Tail(q)[i - 1] = c
      BY <3>1, <2>2, <1>1, <1>2, <1>3
    <3> QED BY <3>2 DEF Within
  <2> QED BY <2>1, <2>2
<1> QED BY <1>1, <1>2, <1>3, <1>4, <1>5 DEF Within

-----------------------------------------------------------------------------
(* The initial states, and the application *)

LEMMA InitSInv == Init => SInv
<1> SUFFICES ASSUME Init PROVE SInv
  OBVIOUS
<1>1. Len(Boards) \in Nat
  BY SchedulerAssumption
<1>2. Fields
  <2>1. registry \in [Places -> [handle : Int, part : [Parts -> [status : Status, programmed_with : Int]]]]
    <3>1. registry = [b \in Places |->
                        [handle |-> b, part |-> [p \in Parts |-> [status |-> "READY", programmed_with |-> 0]]]]
      BY DEF Init
    <3> QED BY <1>1, <3>1 DEF Places, Status
  <2>2. app \in [Apps -> AppFields]
    <3>1. app = [a \in Apps |-> [pc |-> "new", len |-> 0, entry |-> NoEntry, served |-> 0]]
      BY DEF Init
    <3> QED BY <3>1 DEF NoEntry, AppFields, EntryFields, Stages, None, Unplaced
  <2>3. live \in [Places -> Int] /\ opened \in Int /\ opened >= Len(Boards)
    <3>1. live = [b \in Places |-> b] /\ opened = Len(Boards)
      BY DEF Init
    <3> QED BY <1>1, <3>1 DEF Places
  <2>4. IsFiniteSet(services)
    BY FS_EmptySet DEF Init
  <2> QED BY <2>1, <2>2, <2>3, <2>4 DEF Fields
<1>3. HandleInv
  BY DEF Init, HandleInv
<1>4. \A a \in Apps : EntryInv(a)
  BY DEF Init, EntryInv, NoEntry, None, AwaitsTask, AwaitsPr
<1>5. TaskInv /\ PrInv
  <2>1. <<>> \in Seq(Apps) /\ Len(<<>>) = 0 /\ 1 .. 0 = {}
    BY EmptySeq
  <2> QED BY <2>1 DEF Init, TaskInv, PrInv, Once, Within
<1>6. HeldInv /\ OneHolder
  BY DEF Init, HeldInv, OneHolder, Holds
<1>7. RunMeansHeld
  BY DEF Init, RunMeansHeld
<1> QED BY <1>2, <1>3, <1>4, <1>5, <1>6, <1>7 DEF SInv

\* An entry that names a partition names one of a board.
LEMMA SlotOrNone ==
  ASSUME SInv, NEW a \in Apps
  PROVE  /\ app[a].entry.at \in Slots \cup Unplaced /\ None \in Unplaced
         /\ \A u \in Unplaced : u \notin Slots
         /\ \A b \in Places, p \in Parts : [board |-> b, part |-> p] \in Slots
<1>1. app[a].entry.at \in Slots \cup Unplaced
  BY DEF SInv, Fields, AppFields, EntryFields
<1>2. None \in Unplaced /\ \A b \in Places, p \in Parts : [board |-> b, part |-> p] \in Slots
  BY DEF Slots, None, Unplaced
<1>3. ASSUME NEW u \in Unplaced PROVE u \notin Slots
  <2>1. u.board = 0 /\ 0 \notin Places
    BY SchedulerAssumption DEF Unplaced, Places
  <2> QED BY <2>1 DEF Slots
<1> QED BY <1>1, <1>2, <1>3

\* Either step of a registration changes neither an entry nor who waits.
LEMMA RegisterStep ==
  ASSUME SInv, NEW a \in Apps, registerService(a) \/ AddEntry(a)
  PROVE  SInv'
<1>1. PICK r \in AppFields :
        /\ app' = [app EXCEPT ![a] = r] /\ r.pc \in {"adds", "start"} /\ r.entry = app[a].entry
  <2>1. app \in [Apps -> AppFields] /\ app[a] \in AppFields
    BY DEF SInv, Fields
  <2>2. CASE registerService(a)
    <3> DEFINE r == [app[a] EXCEPT !.pc = "adds", !.len = Cardinality(services)]
    <3>1. r \in AppFields /\ r.pc = "adds" /\ r.entry = app[a].entry
      BY <2>1, FS_CardinalityType DEF SInv, Fields, AppFields, Stages
    <3>2. app' = [app EXCEPT ![a] = r]
      BY <2>2 DEF registerService
    <3> HIDE DEF r
    <3> QED BY <3>1, <3>2
  <2>3. CASE AddEntry(a)
    <3> DEFINE r == [app[a] EXCEPT !.pc = "start", !.len = 0]
    <3>1. r \in AppFields /\ r.pc = "start" /\ r.entry = app[a].entry
      BY <2>1 DEF AppFields, Stages
    <3>2. app' = [app EXCEPT ![a] = r]
      BY <2>3 DEF AddEntry
    <3> HIDE DEF r
    <3> QED BY <3>1, <3>2
  <2> QED BY <2>2, <2>3
<1>2. /\ app[a].pc \in {"new", "adds"}
      /\ UNCHANGED <<registry, live, opened, IQ, PRQ, task, pr, alive>>
  BY DEF registerService, AddEntry, At
<1>3. /\ app' \in [Apps -> AppFields] /\ app'[a] = r
      /\ \A c \in Apps \ {a} : app'[c] = app[c]
  BY <1>1 DEF SInv, Fields
<1>4. IsFiniteSet(services')
  <2>1. CASE registerService(a)
    BY <2>1 DEF registerService, SInv, Fields
  <2>2. CASE AddEntry(a)
    BY <2>2, FS_AddElement DEF AddEntry, SInv, Fields
  <2> QED BY <2>1, <2>2
<1>5. Fields' /\ HandleInv'
  BY <1>2, <1>3, <1>4 DEF SInv, Fields, HandleInv
<1>6. \A c \in Apps : EntryInv(c)'
  <2>1. EntryInv(a)'
    BY <1>1, <1>2, <1>3 DEF SInv, EntryInv, AwaitsTask, AwaitsPr
  <2>2. ASSUME NEW c \in Apps \ {a} PROVE EntryInv(c)'
    BY <1>2, <1>3, <2>2 DEF SInv, EntryInv, AwaitsTask, AwaitsPr
  <2> QED BY <2>1, <2>2
<1>7. \A c \in Apps : (AwaitsTask(c) <=> AwaitsTask(c)') /\ (AwaitsPr(c) <=> AwaitsPr(c)')
  BY <1>1, <1>2, <1>3 DEF AwaitsTask, AwaitsPr
<1>8. TaskInv'
  <2>1. task.pc = "nowhere" => task.for # a
    BY <1>2 DEF SInv, TaskInv, Unserved
  <2> QED BY <1>2, <1>3, <1>7, <2>1 DEF SInv, TaskInv, Within, Unserved
<1>9. PrInv'
  <2>1. pr.pc = "programs" => pr.for # a
    BY <1>2 DEF SInv, PrInv, AwaitsPr
  <2> QED BY <1>2, <1>3, <1>7, <2>1 DEF SInv, PrInv, Within
<1>10. \A c \in Apps, b \in Places, p \in Parts : Holds(c, b, p) <=> Holds(c, b, p)'
  BY <1>1, <1>2, <1>3 DEF Holds
<1>11. HeldInv' /\ OneHolder' /\ RunMeansHeld'
  BY <1>2, <1>10 DEF SInv, HeldInv, OneHolder, RunMeansHeld
<1> QED BY <1>5, <1>6, <1>8, <1>9, <1>11 DEF SInv

\* Entering the task queue, with a new entry.
LEMMA GetHardwareStep ==
  ASSUME SInv, NEW a \in Apps, getHardware(a)
  PROVE  SInv'
<1> USE DEF getHardware, At
<1>1. /\ app' = [app EXCEPT ![a] = [app[a] EXCEPT !.pc = "waitTask", !.entry = NoEntry]]
      /\ app[a].pc = "start" /\ app[a].entry.at = None
  BY DEF SInv, EntryInv
<1>2. app'[a].pc = "waitTask" /\ app'[a].entry = NoEntry /\ \A c \in Apps \ {a} : app'[c] = app[c]
  BY <1>1 DEF SInv, Fields, AppFields
<1>3. Fields' /\ HandleInv'
  <2>1. NoEntry \in EntryFields
    BY DEF NoEntry, EntryFields, None, Unplaced
  <2>2. [app[a] EXCEPT !.pc = "waitTask", !.entry = NoEntry] \in AppFields
    BY <2>1 DEF SInv, Fields, AppFields, Stages
  <2> QED BY <1>1, <2>2 DEF SInv, Fields, HandleInv
<1>4. \A c \in Apps : EntryInv(c)'
  <2>1. EntryInv(a)'
    <3>1. None \notin Slots /\ None.part = -1 /\ Bin[a] \in Nat
      BY SlotOrNone, SchedulerAssumption DEF None
    <3> QED BY <1>2, <3>1 DEF EntryInv, AwaitsTask, AwaitsPr, NoEntry
  <2>2. ASSUME NEW c \in Apps \ {a} PROVE EntryInv(c)'
    BY <1>2, <2>2 DEF SInv, EntryInv, AwaitsTask, AwaitsPr
  <2> QED BY <2>1, <2>2
<1>5. ~ AwaitsTask(a) /\ ~ AwaitsPr(a) /\ AwaitsTask(a)' /\ ~ AwaitsPr(a)'
  BY <1>1, <1>2 DEF AwaitsTask, AwaitsPr, NoEntry
<1>6. \A c \in Apps \ {a} : (AwaitsTask(c) <=> AwaitsTask(c)') /\ (AwaitsPr(c) <=> AwaitsPr(c)')
  BY <1>2 DEF AwaitsTask, AwaitsPr
<1>7. TaskInv'
  <2>1. ~ Within(a, IQ) /\ (task.pc \in {"spin", "nowhere"} => task.for # a)
    BY <1>1, <1>5 DEF SInv, TaskInv, Unserved
  <2>2. IQ' \in Seq(Apps) /\ Once(IQ') /\ \A c \in Apps : Within(c, IQ') <=> Within(c, IQ) \/ c = a
    BY <2>1, Enters DEF SInv, TaskInv
  <2>3. task.pc = "nowhere" => Unserved(task.for)'
    BY <1>2, <2>1 DEF SInv, TaskInv, Unserved
  <2> QED BY <1>5, <1>6, <2>1, <2>2, <2>3 DEF SInv, TaskInv, Within
<1>8. PrInv'
  <2>1. ~ Within(a, PRQ) /\ (pr.pc = "programs" => pr.for # a)
    BY <1>5 DEF SInv, PrInv
  <2> QED BY <1>2, <1>5, <1>6, <2>1 DEF SInv, PrInv, Within
<1>9. \A c \in Apps, b \in Places, p \in Parts : Holds(c, b, p) <=> Holds(c, b, p)'
  <2>1. app'[a].entry.at = None
    BY <1>2 DEF NoEntry
  <2>2. \A b \in Places, p \in Parts : ~ Holds(a, b, p) /\ ~ Holds(a, b, p)'
    <3> TAKE b \in Places, p \in Parts
    <3>1. None \notin Slots /\ [board |-> b, part |-> p] \in Slots
      BY SlotOrNone
    <3>2. app[a].entry.at # [board |-> b, part |-> p] /\ app'[a].entry.at # [board |-> b, part |-> p]
      BY <1>1, <2>1, <3>1
    <3> QED BY <3>2 DEF Holds
  <2>3. ASSUME NEW c \in Apps \ {a} PROVE \A b \in Places, p \in Parts : Holds(c, b, p) <=> Holds(c, b, p)'
    BY <1>2, <2>3 DEF Holds
  <2> QED BY <2>2, <2>3
<1>10. HeldInv' /\ OneHolder' /\ RunMeansHeld'
  BY <1>9 DEF SInv, HeldInv, OneHolder, RunMeansHeld
<1> QED BY <1>3, <1>4, <1>7, <1>8, <1>10 DEF SInv

\* What an action does that ends the process and changes nothing else.
LEMMA DeathStep ==
  ASSUME SInv, alive' = FALSE, UNCHANGED <<registry, services, ids, live, opened, app, IQ, PRQ, task, pr>>
  PROVE  SInv'
<1>1. Fields' /\ HandleInv' /\ \A a \in Apps : EntryInv(a)'
  BY DEF SInv, Fields, HandleInv, EntryInv, AwaitsTask, AwaitsPr
<1>2. TaskInv' /\ PrInv'
  BY DEF SInv, TaskInv, PrInv, AwaitsTask, AwaitsPr, Unserved
<1>3. HeldInv' /\ OneHolder' /\ RunMeansHeld'
  BY DEF SInv, HeldInv, OneHolder, RunMeansHeld, Holds
<1> QED BY <1>1, <1>2, <1>3 DEF SInv

\* From one queue to the other.
LEMMA GetProgramStep ==
  ASSUME SInv, NEW a \in Apps, getProgram(a)
  PROVE  SInv'
<1> USE DEF getProgram, At
<1>1. CASE is_programmed_with(app[a].entry.handle, app[a].entry.at.part, ids[a])
  BY <1>1, DeathStep DEF Dies
<1>2. CASE ~ is_programmed_with(app[a].entry.handle, app[a].entry.at.part, ids[a])
  <2>1. /\ app' = [app EXCEPT ![a] = [app[a] EXCEPT !.pc = "waitPr", !.entry = [app[a].entry EXCEPT !.done = FALSE]]]
        /\ app[a].pc = "waitTask" /\ app[a].entry.done /\ alive' = alive
        /\ PRQ' = Append(PRQ, a)
    <3>1. /\ app' = [app EXCEPT ![a].pc = "waitPr", ![a].entry.done = FALSE]
          /\ PRQ' = Append(PRQ, a) /\ alive' = alive
      BY <1>2 DEF Lives
    <3>2. app' = [app EXCEPT ![a] = [app[a] EXCEPT !.pc = "waitPr", !.entry = [app[a].entry EXCEPT !.done = FALSE]]]
      BY <3>1 DEF SInv, Fields, AppFields, EntryFields
    <3> QED BY <3>1, <3>2
  <2>2. /\ app'[a].pc = "waitPr" /\ ~ app'[a].entry.done
        /\ app'[a].entry.handle = app[a].entry.handle /\ app'[a].entry.at = app[a].entry.at
        /\ \A c \in Apps \ {a} : app'[c] = app[c]
    BY <2>1 DEF SInv, Fields, AppFields, EntryFields
  <2>3. Fields' /\ HandleInv'
    <3>1. [app[a] EXCEPT !.pc = "waitPr", !.entry = [app[a].entry EXCEPT !.done = FALSE]] \in AppFields
      <4>1. app[a] \in AppFields /\ app[a].entry \in EntryFields
        BY DEF SInv, Fields, AppFields
      <4>2. [app[a].entry EXCEPT !.done = FALSE] \in EntryFields
        BY <4>1 DEF EntryFields
      <4> QED BY <4>1, <4>2 DEF AppFields, Stages
    <3> QED BY <2>1, <3>1 DEF SInv, Fields, HandleInv
  <2>4. \A c \in Apps : EntryInv(c)'
    BY <2>1, <2>2 DEF SInv, EntryInv, AwaitsTask, AwaitsPr
  <2>5. ~ AwaitsTask(a) /\ ~ AwaitsPr(a) /\ ~ AwaitsTask(a)' /\ AwaitsPr(a)'
    BY <2>1, <2>2 DEF AwaitsTask, AwaitsPr
  <2>6. \A c \in Apps \ {a} : (AwaitsTask(c) <=> AwaitsTask(c)') /\ (AwaitsPr(c) <=> AwaitsPr(c)')
    BY <2>2 DEF AwaitsTask, AwaitsPr
  <2>7. TaskInv'
    <3>1. ~ Within(a, IQ) /\ (task.pc = "spin" => task.for # a)
      BY <2>5 DEF SInv, TaskInv
    <3>2. task.pc = "nowhere" => Unserved(task.for)'
      BY <2>1, <2>2 DEF SInv, TaskInv, Unserved
    <3> QED BY <2>5, <2>6, <3>1, <3>2 DEF SInv, TaskInv, Within
  <2>8. PrInv'
    <3>1. ~ Within(a, PRQ) /\ (pr.pc = "programs" => pr.for # a)
      BY <2>5 DEF SInv, PrInv
    <3>2. PRQ' \in Seq(Apps) /\ Once(PRQ') /\ \A c \in Apps : Within(c, PRQ') <=> Within(c, PRQ) \/ c = a
      BY <2>1, <3>1, Enters DEF SInv, PrInv
    <3> QED BY <2>2, <2>5, <2>6, <3>1, <3>2 DEF SInv, PrInv, Within
  <2>9. \A c \in Apps, b \in Places, p \in Parts : Holds(c, b, p) <=> Holds(c, b, p)'
    BY <2>1, <2>2 DEF Holds
  <2>10. HeldInv' /\ OneHolder' /\ RunMeansHeld'
    BY <2>1, <2>9 DEF SInv, HeldInv, OneHolder, RunMeansHeld
  <2> QED BY <2>3, <2>4, <2>7, <2>8, <2>10 DEF SInv
<1> QED BY <1>1, <1>2

\* A handle the MMD knows is not the result of a failure.
LEMMA KnownHandle ==
  ASSUME SInv, NEW h, Known(h)
  PROVE  h # -1
  BY SchedulerAssumption DEF SInv, HandleInv, Known, Places

\* So the registry records nothing of a reprogramming.
LEMMA RecordsNothing ==
  ASSUME SInv, NEW h \in Int, h > Len(Boards), NEW p, NEW id
  PROVE  Reprogrammed(h, p, p, id) = registry
<1>1. \A b \in Places : registry[b].handle # h
  BY SchedulerAssumption DEF SInv, HandleInv, Places
<1>2. registry = [b \in Places |-> registry[b]]
  BY DEF SInv, Fields
<1> QED BY <1>1, <1>2 DEF Reprogrammed

\* An application that holds a reprogrammed partition goes on.
LEMMA GoesOnStep ==
  ASSUME SInv, NEW a \in Apps, NEW q \in {"run", "release"},
         \/ app[a].pc = "waitPr" /\ app[a].entry.done /\ app[a].entry.handle # -1
         \/ app[a].pc = "run",
         app' = [app EXCEPT ![a].pc = q],
         UNCHANGED <<registry, services, live, opened, IQ, PRQ, task, pr, alive>>
  PROVE  SInv'
<1>1. /\ app'[a].pc = q /\ app'[a].entry = app[a].entry
      /\ \A c \in Apps \ {a} : app'[c] = app[c]
  BY DEF SInv, Fields, AppFields
<1>2. Fields' /\ HandleInv'
  <2>1. app' = [app EXCEPT ![a] = [app[a] EXCEPT !.pc = q]]
    OBVIOUS
  <2>2. [app[a] EXCEPT !.pc = q] \in AppFields
    BY DEF SInv, Fields, AppFields, Stages
  <2> QED BY <2>1, <2>2 DEF SInv, Fields, HandleInv
<1>3. \A c \in Apps : EntryInv(c)'
  <2>1. EntryInv(a)'
    BY <1>1 DEF SInv, EntryInv, AwaitsTask, AwaitsPr
  <2>2. ASSUME NEW c \in Apps \ {a} PROVE EntryInv(c)'
    BY <1>1, <2>2 DEF SInv, EntryInv, AwaitsTask, AwaitsPr
  <2> QED BY <2>1, <2>2
<1>4. ~ AwaitsTask(a) /\ ~ AwaitsPr(a) /\ ~ AwaitsTask(a)' /\ ~ AwaitsPr(a)'
  BY <1>1 DEF AwaitsTask, AwaitsPr
<1>5. \A c \in Apps \ {a} : (AwaitsTask(c) <=> AwaitsTask(c)') /\ (AwaitsPr(c) <=> AwaitsPr(c)')
  BY <1>1 DEF AwaitsTask, AwaitsPr
<1>6. TaskInv'
  <2>1. task.pc = "nowhere" => task.for # a
    BY DEF SInv, TaskInv, Unserved, EntryInv
  <2> QED BY <1>1, <1>4, <1>5, <2>1 DEF SInv, TaskInv, Within, Unserved
<1>7. PrInv'
  BY <1>1, <1>4, <1>5 DEF SInv, PrInv, Within
<1>8. \A c \in Apps, b \in Places, p \in Parts : Holds(c, b, p) <=> Holds(c, b, p)'
  BY <1>1 DEF Holds
<1>9. HeldInv' /\ OneHolder' /\ RunMeansHeld'
  BY <1>8 DEF SInv, HeldInv, OneHolder, RunMeansHeld
<1> QED BY <1>2, <1>3, <1>6, <1>7, <1>9 DEF SInv

LEMMA ProgrammedStep ==
  ASSUME SInv, NEW a \in Apps, Programmed(a)
  PROVE  SInv'
<1> DEFINE h == app[a].entry.handle
<1>1. CASE Known(h)
  <2>1. app[a].pc = "waitPr" /\ app[a].entry.done
    BY DEF Programmed, At
  <2>2. h # -1 /\ h \in Int
    BY <1>1, KnownHandle DEF SInv, Fields, AppFields, EntryFields
  <2>3. h > Len(Boards)
    BY <2>1, <2>2 DEF SInv, EntryInv
  <2>4. registry' = registry
    BY <1>1, <2>2, <2>3, RecordsNothing DEF Programmed
  <2>5. app' = [app EXCEPT ![a].pc = "run"] /\ UNCHANGED <<services, live, opened, IQ, PRQ, task, pr, alive>>
    BY <1>1 DEF Programmed, Lives
  <2> QED BY <2>1, <2>2, <2>4, <2>5, GoesOnStep
<1>2. CASE ~ Known(h)
  BY <1>2, DeathStep DEF Programmed, Dies
<1> QED BY <1>1, <1>2

LEMMA RunKernelStep ==
  ASSUME SInv, NEW a \in Apps, RunKernel(a)
  PROVE  SInv'
<1>1. app[a].pc = "run" /\ UNCHANGED <<registry, services, ids, live, opened, IQ, PRQ, task, pr>>
  BY DEF RunKernel, At
<1>2. Returns(a) \/ Aborts
  BY DEF RunKernel, runVecAdd, runFFT2D, runSobel, runMatMul
<1>3. CASE Returns(a)
  BY <1>1, <1>3, GoesOnStep DEF Returns, Lives
<1>4. CASE Aborts
  BY <1>1, <1>4, DeathStep DEF Aborts, Dies
<1> QED BY <1>2, <1>3, <1>4

\* What an application gives back was marked under a handle the registry lost.
LEMMA ReleaseStep ==
  ASSUME SInv, NEW a \in Apps, releaseHardware(a)
  PROVE  SInv'
<1> DEFINE e == app[a].entry
           r == [app[a] EXCEPT !.pc = "start", !.entry = NoEntry, !.served = @ + 1]
<1>1. /\ app[a].pc = "release" /\ UNCHANGED <<services, live, opened, IQ, PRQ, task, pr, alive>>
      /\ registry' = Released(e.handle, e.at.part)
      /\ app' = [app EXCEPT ![a] = r]
  BY DEF releaseHardware, At
<1>2. e.at \in Slots /\ e.handle > Len(Boards) /\ live[e.at.board] > Len(Boards) /\ e.handle \in Int
  BY <1>1 DEF SInv, EntryInv, Fields, AppFields, EntryFields
<1>3. registry' = registry
  <2>1. \A b \in Places : registry[b].handle # e.handle
    BY <1>2, SchedulerAssumption DEF SInv, HandleInv, Places
  <2> QED BY <1>1, <2>1 DEF Released, SInv, Fields
<1>4. /\ app'[a].pc = "start" /\ app'[a].entry = NoEntry
      /\ \A c \in Apps \ {a} : app'[c] = app[c]
  BY <1>1 DEF SInv, Fields, AppFields
<1>5. Fields' /\ HandleInv'
  <2>1. NoEntry \in EntryFields
    BY DEF NoEntry, EntryFields, None, Unplaced
  <2>2. r \in AppFields
    <3> DEFINE r1 == [app[a] EXCEPT !.pc = "start"]
               r2 == [r1 EXCEPT !.entry = NoEntry]
    <3>1. app[a] \in AppFields /\ app[a].served \in Nat
      BY DEF SInv, Fields, AppFields
    <3>2. r1 \in AppFields /\ r1.served = app[a].served
      BY <3>1 DEF AppFields, Stages
    <3> HIDE DEF r1
    <3>3. r2 \in AppFields /\ r2.served = app[a].served
      BY <2>1, <3>2 DEF AppFields
    <3>4. r = [r2 EXCEPT !.served = app[a].served + 1]
      BY DEF r1
    <3> HIDE DEF r2, r
    <3> QED BY <3>1, <3>3, <3>4 DEF AppFields
  <2> QED BY <1>1, <1>3, <2>2 DEF SInv, Fields, HandleInv
<1>6. \A c \in Apps : EntryInv(c)'
  <2>1. EntryInv(a)'
    BY <1>4 DEF EntryInv, AwaitsTask, AwaitsPr, NoEntry
  <2>2. ASSUME NEW c \in Apps \ {a} PROVE EntryInv(c)'
    BY <1>1, <1>4, <2>2 DEF SInv, EntryInv, AwaitsTask, AwaitsPr
  <2> QED BY <2>1, <2>2
<1>7. ~ AwaitsTask(a) /\ ~ AwaitsPr(a) /\ ~ AwaitsTask(a)' /\ ~ AwaitsPr(a)'
  BY <1>1, <1>4 DEF AwaitsTask, AwaitsPr
<1>8. \A c \in Apps \ {a} : (AwaitsTask(c) <=> AwaitsTask(c)') /\ (AwaitsPr(c) <=> AwaitsPr(c)')
  BY <1>4 DEF AwaitsTask, AwaitsPr
<1>9. TaskInv' /\ PrInv'
  <2>1. TaskInv'
    <3>1. task.pc = "nowhere" => task.for # a
      BY <1>1 DEF SInv, TaskInv, Unserved
    <3> QED BY <1>1, <1>4, <1>7, <1>8, <3>1 DEF SInv, TaskInv, Within, Unserved
  <2>2. PrInv'
    BY <1>1, <1>4, <1>7, <1>8 DEF SInv, PrInv, Within
  <2> QED BY <2>1, <2>2
<1>10. \A c \in Apps \ {a}, b \in Places, p \in Parts : Holds(c, b, p) <=> Holds(c, b, p)'
  BY <1>4 DEF Holds
<1>11. \A b \in Places, p \in Parts : ~ Holds(a, b, p)'
  BY <1>4 DEF Holds, NoEntry
<1>12. HeldInv' /\ OneHolder'
  BY <1>3, <1>10, <1>11 DEF SInv, HeldInv, OneHolder
<1>13. RunMeansHeld'
  <2> SUFFICES ASSUME alive, NEW b \in Places, NEW p \in Parts, registry[b].part[p].status = "RUN"
               PROVE  (\E c \in Apps : Holds(c, b, p)') \/ registry[b].handle # live[b]
    BY <1>1, <1>3 DEF RunMeansHeld
  <2>1. CASE \E c \in Apps \ {a} : Holds(c, b, p)
    BY <2>1, <1>10
  <2>2. CASE Holds(a, b, p)
    <3>1. e.at.board = b
      BY <2>2 DEF Holds
    <3> QED BY <3>1, <1>2, SchedulerAssumption DEF SInv, HandleInv, Places
  <2> QED BY <2>1, <2>2 DEF SInv, RunMeansHeld
<1> QED BY <1>5, <1>6, <1>9, <1>12, <1>13 DEF SInv

-----------------------------------------------------------------------------
(* The two threads *)

\* An entry changes, and no partition of a board with it.
LEMMA SameSlots ==
  ASSUME SInv, NEW a \in Apps, app' \in [Apps -> AppFields],
         app'[a].pc = app[a].pc,
         \/ app'[a].entry.at = app[a].entry.at
         \/ app'[a].entry.at \notin Slots /\ app[a].entry.at \notin Slots,
         \A c \in Apps \ {a} : app'[c] = app[c],
         UNCHANGED <<registry, alive>>,
         \A b \in Places : live[b] # b => live'[b] # b
  PROVE  HeldInv' /\ OneHolder' /\ RunMeansHeld'
<1>1. \A c \in Apps, b \in Places, p \in Parts : Holds(c, b, p) <=> Holds(c, b, p)'
  <2>1. \A b \in Places, p \in Parts : [board |-> b, part |-> p] \in Slots
    BY SlotOrNone
  <2> QED BY <2>1 DEF Holds
<1>2. \A b \in Places : registry[b].handle = b
  BY DEF SInv, HandleInv
<1> QED BY <1>1, <1>2 DEF SInv, HeldInv, OneHolder, RunMeansHeld

LEMMA PopTaskStep ==
  ASSUME SInv, popTaskQueue
  PROVE  SInv'
<1>1. PICK a \in Apps :
        /\ a = Head(IQ) /\ Within(a, IQ) /\ IQ' \in Seq(Apps) /\ Once(IQ')
        /\ \A c \in Apps : Within(c, IQ') <=> Within(c, IQ) /\ c # a
  BY Leaves DEF popTaskQueue, SInv, TaskInv
<1>2. AwaitsTask(a)
  BY <1>1 DEF SInv, TaskInv
<1>3. UNCHANGED <<registry, services, live, opened, PRQ, pr, alive>> /\ task.pc = "idle"
  BY DEF popTaskQueue
<1>4. ASSUME NEW s \in First(a), task' = [pc |-> "spin", for |-> a, at |-> s], UNCHANGED app
      PROVE  SInv'
  <2>1. s \in Slots
    BY <1>4 DEF First
  <2>2. Fields' /\ HandleInv' /\ \A c \in Apps : EntryInv(c)'
    BY <1>3, <1>4 DEF SInv, Fields, HandleInv, EntryInv, AwaitsTask, AwaitsPr
  <2>3. \A c \in Apps : (AwaitsTask(c) <=> AwaitsTask(c)') /\ (AwaitsPr(c) <=> AwaitsPr(c)')
    BY <1>4 DEF AwaitsTask, AwaitsPr
  <2>4. TaskInv'
    BY <1>1, <1>2, <1>4, <2>1, <2>3 DEF SInv, TaskInv
  <2>5. PrInv'
    BY <1>3, <1>4, <2>3 DEF SInv, PrInv
  <2>6. HeldInv' /\ OneHolder' /\ RunMeansHeld'
    BY <1>1, <1>3, <1>4, SameSlots DEF SInv, Fields
  <2> QED BY <2>2, <2>4, <2>5, <2>6 DEF SInv
<1>5. ASSUME NEW e \in Unwritten(a), app' = [app EXCEPT ![a].entry = e],
             task' = [pc |-> "nowhere", for |-> a, at |-> None]
      PROVE  SInv'
  <2>1. /\ e \in EntryFields /\ e.done /\ e.at \notin Slots /\ e.at.part # Bin[a]
    <3>1. PICK h \in {-1, opened}, u \in Unplaced :
            e = [done |-> TRUE, handle |-> h, at |-> u] /\ u.part # Bin[a]
      BY <1>5 DEF Unwritten
    <3>2. h \in Int /\ u \notin Slots
      BY <1>1, <3>1, SlotOrNone DEF SInv, Fields
    <3> QED BY <3>1, <3>2 DEF EntryFields
  <2>2. /\ app' \in [Apps -> AppFields]
        /\ app'[a].pc = app[a].pc /\ app'[a].entry = e
        /\ \A c \in Apps \ {a} : app'[c] = app[c]
    <3>1. [app[a] EXCEPT !.entry = e] \in AppFields
      BY <1>1, <2>1 DEF SInv, Fields, AppFields
    <3>2. app' = [app EXCEPT ![a] = [app[a] EXCEPT !.entry = e]]
      BY <1>5
    <3> QED BY <1>1, <3>1, <3>2 DEF SInv, Fields, AppFields
  <2>3. app[a].pc = "waitTask" /\ app[a].entry.at \notin Slots
    BY <1>1, <1>2, SlotOrNone DEF SInv, EntryInv, AwaitsTask
  <2>4. Fields' /\ HandleInv'
    BY <1>3, <2>2 DEF SInv, Fields, HandleInv
  <2>5. \A c \in Apps : EntryInv(c)'
    <3>1. EntryInv(a)'
      BY <2>1, <2>2, <2>3 DEF EntryInv, AwaitsTask, AwaitsPr
    <3>2. ASSUME NEW c \in Apps \ {a} PROVE EntryInv(c)'
      BY <1>3, <2>2, <3>2 DEF SInv, EntryInv, AwaitsTask, AwaitsPr
    <3> QED BY <3>1, <3>2
  <2>6. \A c \in Apps \ {a} : (AwaitsTask(c) <=> AwaitsTask(c)') /\ (AwaitsPr(c) <=> AwaitsPr(c)')
    BY <2>2 DEF AwaitsTask, AwaitsPr
  <2>7. ~ AwaitsPr(a)
    BY <2>3 DEF AwaitsPr
  <2>8. TaskInv'
    BY <1>1, <1>5, <2>1, <2>2, <2>3, <2>6 DEF SInv, TaskInv, Unserved
  <2>9. PrInv'
    BY <1>1, <1>3, <2>2, <2>6, <2>7 DEF SInv, PrInv, Within
  <2>10. HeldInv' /\ OneHolder' /\ RunMeansHeld'
    BY <1>1, <1>3, <2>1, <2>2, <2>3, SameSlots
  <2> QED BY <2>4, <2>5, <2>8, <2>9, <2>10 DEF SInv
<1> QED BY <1>1, <1>4, <1>5 DEF popTaskQueue

\* What is written late reaches an application that has no partition either.
LEMMA ScheduleStep ==
  ASSUME SInv, schedule
  PROVE  SInv'
<1>1. PICK a \in Apps : a = task.for /\ Unserved(a)
  BY DEF schedule, SInv, TaskInv, Unserved
<1>2. task'.pc = "idle" /\ UNCHANGED <<registry, services, live, opened, IQ, PRQ, pr, alive>>
  BY DEF schedule
<1>3. CASE app[a].pc # "waitTask"
  <2>1. app' = app
    BY <1>1, <1>3 DEF schedule
  <2>2. Fields' /\ HandleInv' /\ \A c \in Apps : EntryInv(c)'
    BY <1>2, <2>1 DEF SInv, Fields, HandleInv, EntryInv, AwaitsTask, AwaitsPr
  <2>3. TaskInv' /\ PrInv'
    BY <1>2, <2>1 DEF SInv, TaskInv, PrInv, AwaitsTask, AwaitsPr
  <2>4. HeldInv' /\ OneHolder' /\ RunMeansHeld'
    BY <1>2, <2>1 DEF SInv, HeldInv, OneHolder, RunMeansHeld, Holds
  <2> QED BY <2>2, <2>3, <2>4 DEF SInv
<1>4. CASE app[a].pc = "waitTask"
  <2> DEFINE e == [done |-> TRUE, handle |-> -1, at |-> None]
  <2>1. /\ e \in EntryFields /\ e.done /\ e.at \notin Slots /\ e.at.part # Bin[a]
    <3>1. None \in Unplaced /\ None \notin Slots
      BY <1>1, SlotOrNone DEF Unserved
    <3>2. None.part # Bin[a]
      BY <1>1, SchedulerAssumption DEF None, Unserved
    <3> QED BY <3>1, <3>2 DEF EntryFields
  <2>2. app' = [app EXCEPT ![a].entry = e]
    BY <1>1, <1>4 DEF schedule
  <2> HIDE DEF e
  <2>3. /\ app' \in [Apps -> AppFields]
        /\ app'[a].pc = app[a].pc /\ app'[a].entry = e
        /\ \A c \in Apps \ {a} : app'[c] = app[c]
    <3>1. [app[a] EXCEPT !.entry = e] \in AppFields
      BY <1>1, <2>1 DEF SInv, Fields, AppFields
    <3>2. app' = [app EXCEPT ![a] = [app[a] EXCEPT !.entry = e]]
      BY <2>2
    <3> QED BY <1>1, <3>1, <3>2 DEF SInv, Fields, AppFields
  <2>4. Fields' /\ HandleInv'
    BY <1>2, <2>3 DEF SInv, Fields, HandleInv
  <2>5. \A c \in Apps : EntryInv(c)'
    <3>1. EntryInv(a)'
      BY <1>4, <2>1, <2>3 DEF EntryInv, AwaitsTask, AwaitsPr
    <3>2. ASSUME NEW c \in Apps \ {a} PROVE EntryInv(c)'
      BY <1>2, <2>3, <3>2 DEF SInv, EntryInv, AwaitsTask, AwaitsPr
    <3> QED BY <3>1, <3>2
  <2>6. \A c \in Apps : (AwaitsTask(c) <=> AwaitsTask(c)') /\ (AwaitsPr(c) <=> AwaitsPr(c)')
    BY <1>1, <1>4, <2>1, <2>3 DEF AwaitsTask, AwaitsPr, Unserved
  <2>7. TaskInv'
    BY <1>2, <2>6 DEF SInv, TaskInv
  <2>8. PrInv'
    <3>1. ~ AwaitsPr(a)
      BY <1>4 DEF AwaitsPr
    <3> QED BY <1>1, <1>2, <2>3, <2>6, <3>1 DEF SInv, PrInv, Within
  <2>9. HeldInv' /\ OneHolder' /\ RunMeansHeld'
    BY <1>1, <1>2, <2>1, <2>3, SameSlots DEF Unserved
  <2> QED BY <2>4, <2>5, <2>7, <2>8, <2>9 DEF SInv
<1> QED BY <1>3, <1>4

\* The partition was ready, so nobody held it.
LEMMA DetermineStep ==
  ASSUME SInv, determine_partition
  PROVE  SInv'
<1>1. PICK a \in Apps, x \in Places, y \in Parts :
        /\ a = task.for /\ task.at = [board |-> x, part |-> y]
        /\ AwaitsTask(a) /\ ~ Within(a, IQ) /\ registry[x].part[y].status = "READY"
  <2>1. task.for \in Apps /\ AwaitsTask(task.for) /\ ~ Within(task.for, IQ) /\ task.at \in Slots
    BY DEF determine_partition, SInv, TaskInv
  <2>2. /\ task.at.board \in Places /\ task.at.part \in Parts
        /\ task.at = [board |-> task.at.board, part |-> task.at.part]
    BY <2>1 DEF Slots
  <2> QED BY <2>1, <2>2 DEF determine_partition
<1> DEFINE e == [done |-> TRUE, handle |-> x, at |-> [board |-> x, part |-> y]]
<1>2. registry[x].handle = x /\ x \in Int /\ [board |-> x, part |-> y] \in Slots
  BY DEF SInv, HandleInv, Places, Slots
<1>3. /\ task'.pc = "idle" /\ UNCHANGED <<services, live, opened, IQ, PRQ, pr, alive>>
      /\ registry' = [registry EXCEPT ![x].part[y].status = "RUN"]
      /\ app' = [app EXCEPT ![a].entry = e]
  <2>1. task.at.board = x /\ task.at.part = y
    BY <1>1
  <2>2. task'.pc = "idle" /\ UNCHANGED <<services, live, opened, IQ, PRQ, pr, alive>>
    BY DEF determine_partition
  <2>3. registry' = [registry EXCEPT ![task.at.board].part[task.at.part].status = "RUN"]
    BY DEF determine_partition
  <2>4. app' = [app EXCEPT ![task.for].entry =
                  [done |-> TRUE, handle |-> registry[task.at.board].handle, at |-> task.at]]
    BY DEF determine_partition
  <2> QED BY <1>1, <1>2, <2>1, <2>2, <2>3, <2>4
<1>4. /\ registry' \in [Places -> [handle : Int, part : [Parts -> [status : Status, programmed_with : Int]]]]
      /\ \A b \in Places : registry'[b].handle = registry[b].handle
      /\ \A b \in Places, p \in Parts :
            registry'[b].part[p].status = IF b = x /\ p = y THEN "RUN" ELSE registry[b].part[p].status
  <2>1. registry' = [registry EXCEPT ![x] = [registry[x] EXCEPT
                       !.part = [registry[x].part EXCEPT ![y] = [registry[x].part[y] EXCEPT !.status = "RUN"]]]]
    BY <1>3 DEF SInv, Fields
  <2>2. [registry[x].part[y] EXCEPT !.status = "RUN"] \in [status : Status, programmed_with : Int]
    BY DEF SInv, Fields, Status
  <2>3. [registry[x].part EXCEPT ![y] = [registry[x].part[y] EXCEPT !.status = "RUN"]]
          \in [Parts -> [status : Status, programmed_with : Int]]
    BY <2>2 DEF SInv, Fields
  <2>4. registry \in [Places -> [handle : Int, part : [Parts -> [status : Status, programmed_with : Int]]]]
    BY DEF SInv, Fields
  <2> QED BY <2>1, <2>2, <2>3, <2>4
<1>5. /\ app' \in [Apps -> AppFields]
      /\ app'[a].pc = app[a].pc /\ app'[a].entry = e
      /\ \A c \in Apps \ {a} : app'[c] = app[c]
  <2>1. e \in EntryFields
    BY <1>2 DEF EntryFields
  <2>2. app' = [app EXCEPT ![a] = [app[a] EXCEPT !.entry = e]]
    BY <1>3
  <2> QED BY <1>1, <2>1, <2>2 DEF SInv, Fields, AppFields
<1>6. Fields' /\ HandleInv'
  BY <1>3, <1>4, <1>5 DEF SInv, Fields, HandleInv
<1>7. \A c \in Apps : EntryInv(c)'
  <2>1. EntryInv(a)'
    BY <1>1, <1>2, <1>5 DEF EntryInv, AwaitsTask, AwaitsPr
  <2>2. ASSUME NEW c \in Apps \ {a} PROVE EntryInv(c)'
    BY <1>3, <1>5, <2>2 DEF SInv, EntryInv, AwaitsTask, AwaitsPr
  <2> QED BY <2>1, <2>2
<1>8. \A c \in Apps \ {a} : (AwaitsTask(c) <=> AwaitsTask(c)') /\ (AwaitsPr(c) <=> AwaitsPr(c)')
  BY <1>5 DEF AwaitsTask, AwaitsPr
<1>9. TaskInv'
  BY <1>1, <1>3, <1>8 DEF SInv, TaskInv
<1>10. PrInv'
  <2>1. ~ AwaitsPr(a)
    BY <1>1 DEF AwaitsTask, AwaitsPr
  <2> QED BY <1>1, <1>3, <1>5, <1>8, <2>1 DEF SInv, PrInv
<1>11. /\ \A c \in Apps \ {a}, b \in Places, p \in Parts : Holds(c, b, p) <=> Holds(c, b, p)'
       /\ \A b \in Places, p \in Parts : Holds(a, b, p)' <=> b = x /\ p = y
       /\ \A b \in Places, p \in Parts : ~ Holds(a, b, p)
  <2>1. \A c \in Apps \ {a}, b \in Places, p \in Parts : Holds(c, b, p) <=> Holds(c, b, p)'
    BY <1>5 DEF Holds
  <2>2. app[a].entry.at = None /\ app[a].pc = "waitTask"
    BY <1>1 DEF SInv, EntryInv, AwaitsTask
  <2>3. \A b \in Places, p \in Parts : Holds(a, b, p)' <=> b = x /\ p = y
    BY <1>5, <2>2 DEF Holds
  <2>4. \A b \in Places, p \in Parts : ~ Holds(a, b, p)
    BY <1>1, <2>2, SlotOrNone DEF Holds
  <2> QED BY <2>1, <2>3, <2>4
<1>12. \A c \in Apps : ~ Holds(c, x, y)
  BY <1>1 DEF SInv, HeldInv
<1>13. HeldInv'
  <2> SUFFICES ASSUME NEW c \in Apps, NEW b \in Places, NEW p \in Parts, Holds(c, b, p)'
               PROVE  registry'[b].part[p].status = "RUN"
    BY DEF HeldInv
  <2>1. CASE b = x /\ p = y
    BY <1>4, <2>1
  <2>2. CASE ~ (b = x /\ p = y)
    <3>1. Holds(c, b, p)
      BY <1>11, <2>2
    <3>2. registry[b].part[p].status = "RUN"
      BY <3>1 DEF SInv, HeldInv
    <3> QED BY <1>4, <2>2, <3>2
  <2> QED BY <2>1, <2>2
<1>14. OneHolder'
  BY <1>11, <1>12 DEF SInv, OneHolder
<1>15. RunMeansHeld'
  <2> SUFFICES ASSUME alive, NEW b \in Places, NEW p \in Parts, registry'[b].part[p].status = "RUN"
               PROVE  (\E c \in Apps : Holds(c, b, p)') \/ registry[b].handle # live[b]
    BY <1>3, <1>4 DEF RunMeansHeld
  <2>1. CASE b = x /\ p = y
    BY <1>11, <2>1
  <2>2. CASE ~ (b = x /\ p = y)
    <3>1. (\E c \in Apps : Holds(c, b, p)) \/ registry[b].handle # live[b]
      BY <1>4, <2>2 DEF SInv, RunMeansHeld
    <3> QED BY <1>11, <3>1
  <2> QED BY <2>1, <2>2
<1> QED BY <1>6, <1>7, <1>9, <1>10, <1>13, <1>14, <1>15 DEF SInv

\* A board that takes a new image still has its first handle.
LEMMA PopPrStep ==
  ASSUME SInv, popPRQueue
  PROVE  SInv'
<1>1. PICK a \in Apps :
        /\ a = Head(PRQ) /\ Within(a, PRQ) /\ PRQ' \in Seq(Apps) /\ Once(PRQ')
        /\ \A c \in Apps : Within(c, PRQ') <=> Within(c, PRQ) /\ c # a
  BY Leaves DEF popPRQueue, SInv, PrInv
<1>2. AwaitsPr(a)
  BY <1>1 DEF SInv, PrInv
<1>3. UNCHANGED <<registry, services, live, opened, IQ, task>> /\ pr.pc = "idle"
  BY DEF popPRQueue
<1> DEFINE e == app[a].entry
<1>4. ASSUME app' = [app EXCEPT ![a].entry.handle = -1, ![a].entry.done = TRUE], UNCHANGED <<pr, alive>>
      PROVE  SInv'
  <2>1. app' = [app EXCEPT ![a] = [app[a] EXCEPT !.entry = [app[a].entry EXCEPT !.handle = -1, !.done = TRUE]]]
    BY <1>4 DEF SInv, Fields, AppFields, EntryFields
  <2>2. app' \in [Apps -> AppFields]
    <3>1. [app[a].entry EXCEPT !.handle = -1, !.done = TRUE] \in EntryFields
      <4>1. app[a].entry \in EntryFields /\ -1 \in Int
        BY DEF SInv, Fields, AppFields
      <4> QED BY <4>1 DEF EntryFields
    <3>2. [app[a] EXCEPT !.entry = [app[a].entry EXCEPT !.handle = -1, !.done = TRUE]] \in AppFields
      BY <3>1 DEF SInv, Fields, AppFields
    <3> QED BY <2>1, <3>2 DEF SInv, Fields
  <2>3. /\ app'[a].pc = app[a].pc /\ app'[a].entry.done
        /\ app'[a].entry.handle = -1 /\ app'[a].entry.at = app[a].entry.at
        /\ \A c \in Apps \ {a} : app'[c] = app[c]
    BY <2>1 DEF SInv, Fields, AppFields, EntryFields
  <2>4. Fields' /\ HandleInv'
    BY <1>3, <2>2 DEF SInv, Fields, HandleInv
  <2>5. \A c \in Apps : EntryInv(c)'
    <3>1. EntryInv(a)'
      BY <1>2, <2>3 DEF EntryInv, AwaitsTask, AwaitsPr
    <3>2. ASSUME NEW c \in Apps \ {a} PROVE EntryInv(c)'
      BY <1>3, <2>3, <3>2 DEF SInv, EntryInv, AwaitsTask, AwaitsPr
    <3> QED BY <3>1, <3>2
  <2>6. \A c \in Apps \ {a} : (AwaitsTask(c) <=> AwaitsTask(c)') /\ (AwaitsPr(c) <=> AwaitsPr(c)')
    BY <2>3 DEF AwaitsTask, AwaitsPr
  <2>7. ~ AwaitsTask(a)
    BY <1>2 DEF AwaitsTask, AwaitsPr
  <2>8. TaskInv'
    <3>1. task.pc = "nowhere" => Unserved(task.for)'
      BY <1>1, <1>3, <2>3 DEF SInv, TaskInv, Unserved
    <3> QED BY <1>3, <2>6, <2>7, <3>1 DEF SInv, TaskInv, Within
  <2>9. PrInv'
    BY <1>1, <1>3, <1>4, <2>6 DEF SInv, PrInv
  <2>10. HeldInv' /\ OneHolder' /\ RunMeansHeld'
    BY <1>3, <1>4, <2>2, <2>3, SameSlots
  <2> QED BY <2>4, <2>5, <2>8, <2>9, <2>10 DEF SInv
<1>5. ASSUME e.at.part = Bin[a], Known(e.handle), pr' = [pc |-> "programs", for |-> a, at |-> e.at],
             UNCHANGED <<app, alive>>
      PROVE  SInv'
  <2>1. e.at \in Slots /\ e.handle = e.at.board
    BY <1>2, <1>5 DEF SInv, EntryInv
  <2>2. e.handle = e.at.board /\ e.at.board \in Places
    BY <2>1 DEF Slots
  <2>3. live[e.at.board] = e.at.board
    <3>1. PICK b \in Places : live[b] = e.at.board
      BY <1>5, <2>2 DEF Known
    <3>2. ~ live[b] > Len(Boards) /\ live[b] # 0
      BY <2>2, <3>1, SchedulerAssumption DEF Places
    <3> QED BY <3>1, <3>2 DEF SInv, HandleInv
  <2>4. Fields' /\ HandleInv' /\ \A c \in Apps : EntryInv(c)'
    BY <1>3, <1>5 DEF SInv, Fields, HandleInv, EntryInv, AwaitsTask, AwaitsPr
  <2>5. \A c \in Apps : (AwaitsTask(c) <=> AwaitsTask(c)') /\ (AwaitsPr(c) <=> AwaitsPr(c)')
    BY <1>5 DEF AwaitsTask, AwaitsPr
  <2>6. TaskInv'
    BY <1>3, <1>5, <2>5 DEF SInv, TaskInv, Unserved
  <2>7. PrInv'
    BY <1>1, <1>2, <1>3, <1>5, <2>1, <2>3, <2>5 DEF SInv, PrInv
  <2>8. HeldInv' /\ OneHolder' /\ RunMeansHeld'
    BY <1>3, <1>5, SameSlots DEF SInv, Fields
  <2> QED BY <2>4, <2>6, <2>7, <2>8 DEF SInv
<1>6. ASSUME Dies, UNCHANGED <<pr, app>> PROVE SInv'
  <2>1. Fields' /\ HandleInv' /\ \A c \in Apps : EntryInv(c)'
    BY <1>3, <1>6 DEF SInv, Fields, HandleInv, EntryInv, AwaitsTask, AwaitsPr
  <2>2. \A c \in Apps : (AwaitsTask(c) <=> AwaitsTask(c)') /\ (AwaitsPr(c) <=> AwaitsPr(c)')
    BY <1>6 DEF AwaitsTask, AwaitsPr
  <2>3. TaskInv'
    BY <1>3, <1>6, <2>2 DEF SInv, TaskInv, Unserved
  <2>4. PrInv'
    BY <1>1, <1>3, <1>6, <2>2 DEF SInv, PrInv
  <2>5. HeldInv' /\ OneHolder' /\ RunMeansHeld'
    BY <1>3, <1>6 DEF SInv, HeldInv, OneHolder, RunMeansHeld, Holds, Dies
  <2> QED BY <2>1, <2>3, <2>4, <2>5 DEF SInv
<1> QED BY <1>1, <1>4, <1>5, <1>6 DEF popPRQueue, Lives

\* An answer of the reprogramming thread: nothing moves but the entry of the
\* application it works for.
LEMMA AnswerStep ==
  ASSUME SInv, pr.pc = "programs", pr'.pc = "idle",
         app' \in [Apps -> AppFields],
         app'[pr.for].pc = app[pr.for].pc, app'[pr.for].entry.at = app[pr.for].entry.at,
         app'[pr.for].entry.done,
         \A c \in Apps \ {pr.for} : app'[c] = app[c],
         live' \in [Places -> Int], opened' \in Int, opened' >= Len(Boards),
         \A b \in Places \ {pr.at.board} : live'[b] = live[b],
         live'[pr.at.board] \in {live[pr.at.board], 0} \/ live'[pr.at.board] > Len(Boards),
         \/ app'[pr.for].entry.handle = -1
         \/ app'[pr.for].entry.handle > Len(Boards) /\ live'[pr.at.board] > Len(Boards),
         UNCHANGED <<registry, services, IQ, PRQ, task, alive>>
  PROVE  SInv'
<1>1. PICK a \in Apps :
        /\ a = pr.for /\ AwaitsPr(a) /\ ~ Within(a, PRQ)
        /\ app[a].entry.at = pr.at /\ pr.at \in Slots
  BY DEF SInv, PrInv
<1>2. /\ app'[a].pc = "waitPr" /\ app'[a].entry.at = pr.at /\ app'[a].entry.done
      /\ \A c \in Apps \ {a} : app'[c] = app[c]
  BY <1>1 DEF AwaitsPr
<1> DEFINE x == pr.at.board
<1>3. /\ x \in Places /\ live[x] = x /\ ~ live[x] > Len(Boards) /\ x # 0
      /\ \A b \in Places : live[b] \in Int /\ live'[b] \in Int
  <2>1. x \in Places /\ live[x] = x
    BY <1>1 DEF SInv, PrInv, Slots
  <2>2. \A b \in Places : live[b] \in Int /\ live'[b] \in Int
    BY DEF SInv, Fields
  <2> QED BY <2>1, <2>2, SchedulerAssumption DEF Places
<1>10. Fields' /\ HandleInv'
  BY <1>3 DEF SInv, Fields, HandleInv
<1>4. \A c \in Apps : EntryInv(c)'
  <2>1. EntryInv(a)'
    BY <1>1, <1>2 DEF EntryInv, AwaitsTask, AwaitsPr
  <2>2. ASSUME NEW c \in Apps \ {a} PROVE EntryInv(c)'
    <3>1. EntryInv(c) /\ app'[c] = app[c]
      BY <1>2, <2>2 DEF SInv
    <3>2. app[c].entry.at \in Slots => app[c].entry.at.board \in Places
      BY DEF Slots
    <3>3. app[c].entry.at \in Slots /\ live[app[c].entry.at.board] > Len(Boards)
            => live'[app[c].entry.at.board] > Len(Boards)
      BY <1>3, <3>2
    <3> QED BY <3>1, <3>3 DEF EntryInv, AwaitsTask, AwaitsPr
  <2> QED BY <2>1, <2>2
<1>5. \A c \in Apps \ {a} : (AwaitsTask(c) <=> AwaitsTask(c)') /\ (AwaitsPr(c) <=> AwaitsPr(c)')
  BY <1>2 DEF AwaitsTask, AwaitsPr
<1>6. ~ AwaitsTask(a)
  BY <1>1 DEF AwaitsTask, AwaitsPr
<1>7. TaskInv'
  <2>1. task.pc = "nowhere" => task.for # a
    BY <1>1 DEF SInv, TaskInv, Unserved
  <2> QED BY <1>2, <1>5, <1>6, <2>1 DEF SInv, TaskInv, Within, Unserved
<1>8. PrInv'
  BY <1>1, <1>5 DEF SInv, PrInv
<1>9. HeldInv' /\ OneHolder' /\ RunMeansHeld'
  <2>1. \A b \in Places : live[b] # b => live'[b] # b
    BY <1>3
  <2> QED BY <1>1, <2>1, SameSlots
<1> QED BY <1>4, <1>7, <1>8, <1>9, <1>10 DEF SInv

LEMMA PrDoneStep ==
  ASSUME SInv, PrDone
  PROVE  SInv'
<1>1. PICK a \in Apps : a = pr.for /\ pr.at \in Slots /\ pr.at.board \in Places
  BY DEF PrDone, SInv, PrInv, Slots
<1>2. pr.pc = "programs" /\ pr'.pc = "idle" /\ UNCHANGED <<registry, services, IQ, PRQ, task, alive>>
  BY DEF PrDone
<1>3. app[a] \in AppFields /\ app[a].entry \in EntryFields
      /\ live \in [Places -> Int] /\ opened \in Int /\ opened >= Len(Boards) /\ Len(Boards) \in Int
  BY SchedulerAssumption DEF SInv, Fields, AppFields
<1>4. ASSUME NEW h \in Int, app' = [app EXCEPT ![a].entry.handle = h, ![a].entry.done = TRUE]
      PROVE  /\ app' \in [Apps -> AppFields]
             /\ app'[a].pc = app[a].pc /\ app'[a].entry.at = app[a].entry.at
             /\ app'[a].entry.done /\ app'[a].entry.handle = h
             /\ \A c \in Apps \ {a} : app'[c] = app[c]
  <2> DEFINE e == [app[a].entry EXCEPT !.handle = h, !.done = TRUE]
             r == [app[a] EXCEPT !.entry = e]
  <2>1. app' = [app EXCEPT ![a] = r]
    BY <1>4 DEF SInv, Fields, AppFields, EntryFields
  <2>2. e \in EntryFields
    BY <1>3, <1>4 DEF EntryFields
  <2>3. e.done /\ e.handle = h /\ e.at = app[a].entry.at
    BY <1>3 DEF EntryFields
  <2> HIDE DEF e
  <2>4. r \in AppFields /\ r.pc = app[a].pc /\ r.entry = e
    BY <1>3, <2>2 DEF AppFields
  <2> HIDE DEF r
  <2>5. app' \in [Apps -> AppFields] /\ app'[a] = r /\ \A c \in Apps \ {a} : app'[c] = app[c]
    BY <2>1, <2>4 DEF SInv, Fields
  <2> QED BY <2>3, <2>4, <2>5
<1>5. CASE /\ opened' = opened + 1 /\ live' = [live EXCEPT ![pr.at.board] = opened + 1]
           /\ app' = [app EXCEPT ![pr.for].entry.handle = opened + 1, ![pr.for].entry.done = TRUE]
  <2>1. opened + 1 \in Int /\ opened + 1 > Len(Boards)
    BY <1>3
  <2>2. /\ live' \in [Places -> Int] /\ live'[pr.at.board] = opened + 1
        /\ \A b \in Places \ {pr.at.board} : live'[b] = live[b]
    BY <1>1, <1>3, <1>5, <2>1
  <2>3. app' = [app EXCEPT ![a].entry.handle = opened + 1, ![a].entry.done = TRUE]
    BY <1>1, <1>5
  <2>4. /\ app' \in [Apps -> AppFields]
        /\ app'[a].pc = app[a].pc /\ app'[a].entry.at = app[a].entry.at
        /\ app'[a].entry.done /\ app'[a].entry.handle = opened + 1
        /\ \A c \in Apps \ {a} : app'[c] = app[c]
    BY <1>4, <2>1, <2>3
  <2> QED BY <1>1, <1>2, <1>3, <1>5, <2>1, <2>2, <2>4, AnswerStep
<1>6. CASE /\ app' = [app EXCEPT ![pr.for].entry.handle = -1, ![pr.for].entry.done = TRUE]
           /\ live' \in {live, [live EXCEPT ![pr.at.board] = 0]} /\ UNCHANGED opened
  <2>1. app' = [app EXCEPT ![a].entry.handle = -1, ![a].entry.done = TRUE] /\ -1 \in Int
    BY <1>1, <1>6
  <2>2. /\ app' \in [Apps -> AppFields]
        /\ app'[a].pc = app[a].pc /\ app'[a].entry.at = app[a].entry.at
        /\ app'[a].entry.done /\ app'[a].entry.handle = -1
        /\ \A c \in Apps \ {a} : app'[c] = app[c]
    BY <1>4, <2>1
  <2>3. /\ live' \in [Places -> Int] /\ live'[pr.at.board] \in {live[pr.at.board], 0}
        /\ \A b \in Places \ {pr.at.board} : live'[b] = live[b]
    BY <1>1, <1>3, <1>6
  <2> QED BY <1>1, <1>2, <1>3, <1>6, <2>2, <2>3, AnswerStep
<1> QED BY <1>5, <1>6 DEF PrDone

-----------------------------------------------------------------------------
(* The theorems *)

LEMMA NextSInv == SInv /\ [Next]_vars => SInv'
<1> SUFFICES ASSUME SInv, [Next]_vars PROVE SInv'
  OBVIOUS
<1>1. ASSUME NEW a \in Apps, AppStep(a) PROVE SInv'
  BY <1>1, RegisterStep, GetHardwareStep, GetProgramStep, ProgrammedStep, RunKernelStep, ReleaseStep
  DEF AppStep
<1>2. CASE popTaskQueue \/ schedule
  BY <1>2, PopTaskStep, ScheduleStep
<1>3. CASE determine_partition
  BY <1>3, DetermineStep
<1>4. CASE popPRQueue
  BY <1>4, PopPrStep
<1>5. CASE PrDone
  BY <1>5, PrDoneStep
<1>6. CASE UNCHANGED vars
  <2>1. Fields' /\ HandleInv' /\ \A a \in Apps : EntryInv(a)'
    BY <1>6 DEF vars, SInv, Fields, HandleInv, EntryInv, AwaitsTask, AwaitsPr
  <2>2. TaskInv' /\ PrInv'
    BY <1>6 DEF vars, SInv, TaskInv, PrInv, AwaitsTask, AwaitsPr, Unserved
  <2>3. HeldInv' /\ OneHolder' /\ RunMeansHeld'
    BY <1>6 DEF vars, SInv, HeldInv, OneHolder, RunMeansHeld, Holds
  <2> QED BY <2>1, <2>2, <2>3 DEF SInv
<1> QED BY <1>1, <1>2, <1>3, <1>4, <1>5, <1>6 DEF Next

\* The invariant holds of every run of the program
\* (src/source/util/vFPGAScheduler/src).
THEOREM SchedulerInvariant == Spec => []SInv
<1> QED BY InitSInv, NextSInv, PTL DEF Spec

\* No two applications have one partition at the same time
\* (resourceregistry.cpp: determine_partition waits for READY and stores RUN).
THEOREM PartitionsAreExclusive == Spec => []OneHolder
<1>1. SInv => OneHolder
  BY DEF SInv
<1> QED BY <1>1, SchedulerInvariant, PTL

\* A partition is marked with nobody using it only on a board whose handle the
\* registry lost (resourceregistry.cpp: reprogram and release look for it).
THEOREM MarksAreLostWithHandles == Spec => []RunMeansHeld
<1>1. SInv => RunMeansHeld
  BY DEF SInv
<1> QED BY <1>1, SchedulerInvariant, PTL

-----------------------------------------------------------------------------
(* Ids, handles and requests *)

\* AddEntry numbers the applications from one, and files each under its number.
IdInv ==
  /\ ids \in [Apps -> Nat]
  /\ \A a \in Apps : app[a].pc \notin {"new", "adds"} => ids[a] # 0
  /\ \A s \in services : /\ s.app \in Apps /\ s.id = ids[s.app]
                         /\ app[s.app].pc \notin {"new", "adds"}

\* A request is counted when its partition is given back, so the application
\* that makes the last one has one left to count.
ServedInv ==
  \A a \in Apps : /\ app[a].served <= TotRequest
                  /\ app[a].pc \notin {"new", "adds", "start"} => app[a].served < TotRequest

\* The MMD never gives out a handle twice; a board may have none (0).
FreshInv ==
  /\ \A b \in Places : live[b] <= opened /\ \A c \in Places : live[b] = live[c] => b = c \/ live[b] = 0
  /\ \A a \in Apps : app[a].entry.handle \in -1 .. opened

NInv == IdInv /\ ServedInv /\ FreshInv

LEMMA InitNInv == Init => NInv
<1> SUFFICES ASSUME Init PROVE NInv
  OBVIOUS
<1>1. /\ ids = [a \in Apps |-> 0]
      /\ app = [a \in Apps |-> [pc |-> "new", len |-> 0, entry |-> NoEntry, served |-> 0]]
      /\ services = {} /\ live = [b \in Places |-> b] /\ opened = Len(Boards)
  BY DEF Init
<1>2. IdInv
  BY <1>1 DEF IdInv
<1>3. ServedInv
  BY <1>1, SchedulerAssumption DEF ServedInv
<1>4. FreshInv
  BY <1>1, SchedulerAssumption DEF FreshInv, Places, NoEntry
<1> QED BY <1>2, <1>3, <1>4 DEF NInv

\* What is left alone when an application's record is replaced.
LEMMA Replaced ==
  ASSUME SInv, NEW a \in Apps, NEW r, app' = [app EXCEPT ![a] = r]
  PROVE  app'[a] = r /\ \A c \in Apps \ {a} : app'[c] = app[c]
BY DEF SInv, Fields

Active == {"waitTask", "waitPr", "run", "release"}

\* How an application's stage, count and handle may change.
Moves(c) ==
  /\ \/ app'[c].pc = app[c].pc /\ app'[c].served = app[c].served
     \/ app[c].pc = "start" /\ app'[c].pc = "waitTask"
        /\ app[c].served < TotRequest /\ app'[c].served = app[c].served
     \/ app[c].pc \in Active /\ app'[c].pc \in Active /\ app'[c].served = app[c].served
     \/ app[c].pc = "release" /\ app'[c].pc = "start" /\ app'[c].served = app[c].served + 1
  /\ \/ app'[c].entry.handle = app[c].entry.handle
     \/ app'[c].entry.handle \in Places \cup {-1, opened'}

\* What the board's handles do.
Opens ==
  \/ live' = live /\ opened' = opened
  \/ opened' = opened + 1 /\ \E b \in Places : live' = [live EXCEPT ![b] = opened + 1]
  \/ opened' = opened /\ \E b \in Places : live' = [live EXCEPT ![b] = 0]

LEMMA AppMoves ==
  ASSUME SInv, NEW a \in Apps, AppStep(a), ~ registerService(a), ~ AddEntry(a)
  PROVE  /\ \A c \in Apps : Moves(c)
         /\ Opens /\ UNCHANGED <<ids, services>>
<1>1. app \in [Apps -> AppFields] /\ app[a] \in AppFields /\ app[a].entry \in EntryFields
  BY DEF SInv, Fields, AppFields
<1>2. SUFFICES /\ Opens /\ UNCHANGED <<ids, services>>
               /\ app' = app \/ (Moves(a) /\ \A c \in Apps \ {a} : app'[c] = app[c])
  <2>1. ASSUME NEW c \in Apps, app'[c] = app[c] PROVE Moves(c)
    BY <2>1 DEF Moves
  <2> QED BY <2>1
<1>3. CASE getHardware(a)
  <2>1. app' = [app EXCEPT ![a] = [app[a] EXCEPT !.pc = "waitTask", !.entry = NoEntry]]
    BY <1>3 DEF getHardware
  <2>2. app'[a] = [app[a] EXCEPT !.pc = "waitTask", !.entry = NoEntry] /\ \A c \in Apps \ {a} : app'[c] = app[c]
    BY <2>1, <1>1
  <2>3. app'[a].pc = "waitTask" /\ app'[a].entry.handle = -1 /\ app'[a].served = app[a].served
    BY <2>2, <1>1 DEF AppFields, NoEntry
  <2> QED BY <1>3, <2>2, <2>3 DEF getHardware, At, Moves, Opens
<1>4. CASE getProgram(a)
  <2>1. CASE UNCHANGED app
    BY <1>4, <2>1 DEF getProgram, Opens
  <2>2. CASE app' = [app EXCEPT ![a].pc = "waitPr", ![a].entry.done = FALSE]
    <3>1. /\ app'[a].pc = "waitPr" /\ app'[a].entry.handle = app[a].entry.handle
          /\ app'[a].served = app[a].served /\ \A c \in Apps \ {a} : app'[c] = app[c]
      BY <2>2, <1>1 DEF AppFields, EntryFields
    <3> QED BY <1>4, <3>1 DEF getProgram, At, Moves, Opens, Active
  <2> QED BY <1>4, <2>1, <2>2 DEF getProgram
<1>5. ASSUME NEW q \in Active, app' = [app EXCEPT ![a].pc = q], app[a].pc \in Active
      PROVE  Moves(a) /\ \A c \in Apps \ {a} : app'[c] = app[c]
  <2>1. /\ app'[a].pc = q /\ app'[a].entry.handle = app[a].entry.handle
        /\ app'[a].served = app[a].served /\ \A c \in Apps \ {a} : app'[c] = app[c]
    BY <1>5, <1>1 DEF AppFields, EntryFields
  <2> QED BY <1>5, <2>1 DEF Moves
<1>6. CASE Programmed(a)
  BY <1>5, <1>6 DEF Programmed, At, Opens, Active
<1>7. CASE RunKernel(a)
  <2>1. Returns(a) \/ Aborts
    BY <1>7 DEF RunKernel, runVecAdd, runFFT2D, runSobel, runMatMul
  <2> QED BY <1>5, <1>7, <2>1 DEF RunKernel, Returns, Aborts, At, Opens, Active
<1>8. CASE releaseHardware(a)
  <2>1. app' = [app EXCEPT ![a].pc = "start", ![a].entry = NoEntry, ![a].served = @ + 1]
    BY <1>8 DEF releaseHardware
  <2>2. /\ app'[a].pc = "start" /\ app'[a].entry.handle = -1 /\ app'[a].served = app[a].served + 1
        /\ \A c \in Apps \ {a} : app'[c] = app[c]
    BY <2>1, <1>1 DEF NoEntry, AppFields
  <2> QED BY <1>8, <2>2 DEF releaseHardware, At, Moves, Opens
<1> QED BY <1>3, <1>4, <1>6, <1>7, <1>8 DEF AppStep

\* An entry takes a new handle, or none at all.
LEMMA Answered ==
  ASSUME SInv, NEW a \in Apps, NEW e, app' = [app EXCEPT ![a].entry = e],
         e.handle = app[a].entry.handle \/ e.handle \in Places \cup {-1, opened'}
  PROVE  \A c \in Apps : Moves(c)
<1>1. app \in [Apps -> AppFields]
  BY DEF SInv, Fields
<1>2. /\ app'[a].pc = app[a].pc /\ app'[a].entry = e /\ app'[a].served = app[a].served
      /\ \A c \in Apps \ {a} : app'[c] = app[c]
  BY <1>1 DEF AppFields
<1> QED BY <1>2 DEF Moves

LEMMA ThreadMoves ==
  ASSUME SInv, popTaskQueue \/ schedule \/ determine_partition \/ popPRQueue \/ PrDone \/ UNCHANGED vars
  PROVE  /\ \A c \in Apps : Moves(c)
         /\ Opens /\ UNCHANGED <<ids, services>>
<1>1. app \in [Apps -> AppFields] /\ \A a \in Apps : app[a] \in AppFields /\ app[a].entry \in EntryFields
  BY DEF SInv, Fields, AppFields
<1>2. ASSUME UNCHANGED app PROVE \A c \in Apps : Moves(c)
  BY <1>2 DEF Moves
<1>3. CASE popTaskQueue
  <2>1. Head(IQ) \in Apps
    BY <1>3, Leaves DEF popTaskQueue, SInv, TaskInv
  <2>2. ASSUME NEW e \in Unwritten(Head(IQ)), app' = [app EXCEPT ![Head(IQ)].entry = e]
        PROVE  \A c \in Apps : Moves(c)
    <3>1. e.handle \in {-1, opened'}
      BY <1>3 DEF Unwritten, popTaskQueue
    <3> QED BY <2>1, <2>2, <3>1, Answered
  <2>3. UNCHANGED app \/ \E e \in Unwritten(Head(IQ)) : app' = [app EXCEPT ![Head(IQ)].entry = e]
    BY <1>3 DEF popTaskQueue
  <2> QED BY <1>2, <1>3, <2>2, <2>3 DEF popTaskQueue, Opens
<1>9. CASE schedule
  <2>1. task.for \in Apps
    BY <1>9 DEF schedule, SInv, TaskInv, Unserved
  <2> DEFINE e == [done |-> TRUE, handle |-> -1, at |-> None]
  <2>2. e.handle = -1
    OBVIOUS
  <2>3. app' = app \/ app' = [app EXCEPT ![task.for].entry = e]
    BY <1>9 DEF schedule
  <2> HIDE DEF e
  <2>4. \A c \in Apps : Moves(c)
    BY <1>2, <2>1, <2>2, <2>3, Answered
  <2> QED BY <1>9, <2>4 DEF schedule, Opens
<1>4. CASE determine_partition
  <2>1. task.for \in Apps /\ task.at.board \in Places
    BY <1>4 DEF determine_partition, SInv, TaskInv, Slots
  <2> DEFINE e == [done |-> TRUE, handle |-> registry[task.at.board].handle, at |-> task.at]
  <2>2. e.handle \in Places
    BY <2>1 DEF SInv, HandleInv
  <2>3. app' = [app EXCEPT ![task.for].entry = e]
    BY <1>4 DEF determine_partition
  <2>4. \A c \in Apps : Moves(c)
    BY <2>1, <2>2, <2>3, Answered
  <2> QED BY <1>4, <2>4 DEF determine_partition, Opens
<1>5. ASSUME NEW a \in Apps, NEW h \in {-1, opened'},
             app' = [app EXCEPT ![a].entry.handle = h, ![a].entry.done = TRUE]
      PROVE  \A c \in Apps : Moves(c)
  <2> DEFINE e == [app[a].entry EXCEPT !.handle = h, !.done = TRUE]
  <2>1. app' = [app EXCEPT ![a].entry = e]
    BY <1>1, <1>5 DEF AppFields, EntryFields
  <2>2. e.handle = h
    BY <1>1 DEF EntryFields
  <2> QED BY <2>1, <2>2, Answered
<1>6. CASE popPRQueue
  <2>1. Head(PRQ) \in Apps
    BY <1>6, Leaves DEF popPRQueue, SInv, PrInv
  <2>2. UNCHANGED app \/ app' = [app EXCEPT ![Head(PRQ)].entry.handle = -1, ![Head(PRQ)].entry.done = TRUE]
    BY <1>6 DEF popPRQueue
  <2>3. \A c \in Apps : Moves(c)
    BY <1>2, <1>5, <2>1, <2>2
  <2> QED BY <1>6, <2>3 DEF popPRQueue, Opens
<1>7. CASE PrDone
  <2>1. pr.for \in Apps /\ pr.at.board \in Places
    BY <1>7 DEF PrDone, SInv, PrInv, Slots
  <2>2. \/ app' = [app EXCEPT ![pr.for].entry.handle = opened', ![pr.for].entry.done = TRUE]
        \/ app' = [app EXCEPT ![pr.for].entry.handle = -1, ![pr.for].entry.done = TRUE]
    BY <1>7 DEF PrDone
  <2>3. \A c \in Apps : Moves(c)
    BY <1>5, <2>1, <2>2
  <2> QED BY <1>7, <2>1, <2>3 DEF PrDone, Opens
<1>8. CASE UNCHANGED vars
  BY <1>2, <1>8 DEF vars, Opens
<1> QED BY <1>3, <1>4, <1>6, <1>7, <1>8, <1>9

\* A step that is no registration.
LEMMA MovesNumbers ==
  ASSUME SInv, NInv, \A c \in Apps : Moves(c), Opens, UNCHANGED <<ids, services>>
  PROVE  NInv'
<1>1. /\ \A c \in Apps : app[c].served \in Nat /\ app[c].entry.handle \in Int
      /\ live \in [Places -> Int] /\ opened \in Int /\ opened >= Len(Boards)
      /\ TotRequest \in Nat /\ Len(Boards) \in Nat
  BY SchedulerAssumption DEF SInv, Fields, AppFields, EntryFields
<1>2. IdInv'
  <2>1. \A c \in Apps : app'[c].pc \in {"new", "adds"} <=> app[c].pc \in {"new", "adds"}
    BY DEF Moves, Active
  <2> QED BY <2>1 DEF NInv, IdInv
<1>3. ServedInv'
  <2> SUFFICES ASSUME NEW c \in Apps
               PROVE  /\ app'[c].served <= TotRequest
                      /\ app'[c].pc \notin {"new", "adds", "start"} => app'[c].served < TotRequest
    BY DEF ServedInv
  <2>1. /\ app[c].served \in Nat /\ app[c].served <= TotRequest
        /\ app[c].pc \notin {"new", "adds", "start"} => app[c].served < TotRequest
    BY <1>1 DEF NInv, ServedInv
  <2> QED BY <1>1, <2>1 DEF Moves, Active
<1>4. FreshInv'
  <2>1. opened' \in Int /\ opened' >= opened
    BY <1>1 DEF Opens
  <2>2. /\ \A b \in Places : live[b] \in Int /\ live[b] <= opened
        /\ \A b, c \in Places : live[b] = live[c] => b = c \/ live[b] = 0
    BY <1>1 DEF NInv, FreshInv
  <2>3. \A b \in Places : /\ live'[b] <= opened'
                         /\ \A c \in Places : live'[b] = live'[c] => b = c \/ live'[b] = 0
    <3>1. CASE live' = live /\ opened' = opened
      BY <2>2, <3>1
    <3>2. CASE opened' = opened + 1 /\ \E b \in Places : live' = [live EXCEPT ![b] = opened + 1]
      <4>1. PICK x \in Places : live' = [live EXCEPT ![x] = opened + 1]
        BY <3>2
      <4>2. live'[x] = opened + 1 /\ \A b \in Places \ {x} : live'[b] = live[b]
        BY <1>1, <4>1
      <4> QED BY <1>1, <2>2, <3>2, <4>2
    <3>3. CASE opened' = opened /\ \E b \in Places : live' = [live EXCEPT ![b] = 0]
      <4>1. PICK x \in Places : live' = [live EXCEPT ![x] = 0]
        BY <3>3
      <4>2. live'[x] = 0 /\ \A b \in Places \ {x} : live'[b] = live[b]
        BY <1>1, <4>1
      <4> QED BY <1>1, <2>2, <3>3, <4>2
    <3> QED BY <3>1, <3>2, <3>3 DEF Opens
  <2>4. ASSUME NEW c \in Apps PROVE app'[c].entry.handle \in -1 .. opened'
    <3>1. app[c].entry.handle \in -1 .. opened
      BY DEF NInv, FreshInv
    <3>2. \A b \in Places : b \in -1 .. opened'
      BY <1>1, <2>1 DEF Places
    <3>3. -1 \in -1 .. opened' /\ opened' \in -1 .. opened'
      BY <1>1, <2>1
    <3> QED BY <1>1, <2>1, <3>1, <3>2, <3>3 DEF Moves
  <2> QED BY <2>3, <2>4 DEF FreshInv
<1> QED BY <1>2, <1>3, <1>4 DEF NInv

\* A registration: the length is read, and the entry is made from it.
LEMMA RegisterNumbers ==
  ASSUME SInv, NInv, NEW a \in Apps, registerService(a) \/ AddEntry(a)
  PROVE  NInv'
<1>1. /\ app'[a].pc \in {"adds", "start"} /\ app'[a].entry = app[a].entry /\ app'[a].served = app[a].served
      /\ \A c \in Apps \ {a} : app'[c] = app[c]
  BY DEF registerService, AddEntry, SInv, Fields, AppFields
<1>2. app[a].pc \in {"new", "adds"} /\ UNCHANGED <<live, opened>>
  BY DEF registerService, AddEntry, At
<1>3. ServedInv' /\ FreshInv'
  BY <1>1, <1>2 DEF NInv, ServedInv, FreshInv
<1>4. CASE registerService(a)
  <2>1. app'[a].pc = "adds" /\ UNCHANGED <<ids, services>>
    BY <1>4 DEF registerService, SInv, Fields, AppFields
  <2>2. IdInv'
    BY <1>1, <1>2, <2>1 DEF NInv, IdInv
  <2> QED BY <1>3, <2>2 DEF NInv
<1>5. CASE AddEntry(a)
  <2>1. /\ app'[a].pc = "start" /\ ids' = [ids EXCEPT ![a] = NewId(a)]
        /\ services' \in {services, services \cup {[id |-> NewId(a), app |-> a]}}
    BY <1>5 DEF AddEntry, SInv, Fields, AppFields
  <2>2. NewId(a) \in Nat \ {0}
    BY DEF NewId, SInv, Fields, AppFields
  <2>3. ids' \in [Apps -> Nat] /\ ids'[a] = NewId(a) /\ \A c \in Apps \ {a} : ids'[c] = ids[c]
    BY <2>1, <2>2 DEF NInv, IdInv
  <2>4. \A c \in Apps : app'[c].pc \notin {"new", "adds"} => ids'[c] # 0
    BY <1>1, <2>2, <2>3 DEF NInv, IdInv
  <2>5. ASSUME NEW s \in services'
        PROVE  s.app \in Apps /\ s.id = ids'[s.app] /\ app'[s.app].pc \notin {"new", "adds"}
    <3>1. CASE s \in services
      <4>1. s.app \in Apps \ {a}
        BY <1>2, <3>1 DEF NInv, IdInv
      <4> QED BY <1>1, <2>3, <3>1, <4>1 DEF NInv, IdInv
    <3>2. CASE s \notin services
      <4>1. s = [id |-> NewId(a), app |-> a]
        BY <2>1, <2>5, <3>2
      <4> QED BY <2>1, <2>3, <4>1
    <3> QED BY <3>1, <3>2
  <2>6. IdInv'
    BY <2>3, <2>4, <2>5 DEF IdInv
  <2> QED BY <1>3, <2>6 DEF NInv
<1> QED BY <1>4, <1>5

LEMMA NextNInv == SInv /\ NInv /\ [Next]_vars => NInv'
<1> SUFFICES ASSUME SInv, NInv, [Next]_vars PROVE NInv'
  OBVIOUS
<1>1. ASSUME NEW a \in Apps, AppStep(a) PROVE NInv'
  <2>1. CASE registerService(a) \/ AddEntry(a)
    BY <2>1, RegisterNumbers
  <2>2. CASE ~ registerService(a) /\ ~ AddEntry(a)
    BY <1>1, <2>2, AppMoves, MovesNumbers
  <2> QED BY <2>1, <2>2
<1>2. CASE popTaskQueue \/ schedule \/ determine_partition \/ popPRQueue \/ PrDone \/ UNCHANGED vars
  BY <1>2, ThreadMoves, MovesNumbers
<1> QED BY <1>1, <1>2 DEF Next

-----------------------------------------------------------------------------
(* How many wait *)

\* Two queues that share nobody have room for everybody once.
LEMMA TwoQueues ==
  ASSUME NEW p \in Seq(Apps), NEW q \in Seq(Apps), Once(p), Once(q),
         \A a \in Apps : ~ (Within(a, p) /\ Within(a, q))
  PROVE  Len(p) + Len(q) <= Cardinality(Apps)
<1>1. PICK m \in Nat, n \in Nat : m = Len(p) /\ n = Len(q)
  BY LenProperties
<1>2. /\ \A i \in 1 .. m : p[i] \in Apps
      /\ \A i \in 1 .. n : q[i] \in Apps
  BY <1>1, ElementOfSeq
<1> DEFINE f == [i \in 1 .. m + n |-> IF i <= m THEN p[i] ELSE q[i - m]]
<1>3. \A i \in 1 .. m + n : ~ i <= m => i - m \in 1 .. n
  OBVIOUS
<1>4. f \in [1 .. m + n -> Apps]
  BY <1>2, <1>3
<1>5. ASSUME NEW i \in 1 .. m + n, NEW j \in 1 .. m + n, f[i] = f[j] PROVE i = j
  <2>1. CASE i <= m /\ j <= m
    BY <1>1, <1>5, <2>1 DEF Once
  <2>2. CASE ~ i <= m /\ ~ j <= m
    <3>1. q[i - m] = q[j - m] /\ i - m \in 1 .. n /\ j - m \in 1 .. n
      BY <1>3, <1>5, <2>2
    <3>2. i - m = j - m
      BY <1>1, <3>1 DEF Once
    <3> QED BY <3>2
  <2>3. ASSUME NEW k \in 1 .. m, NEW l \in 1 .. m + n, ~ l <= m PROVE p[k] # q[l - m]
    BY <1>1, <1>2, <1>3, <2>3 DEF Within
  <2> QED BY <1>5, <2>1, <2>2, <2>3
<1>6. f \in Injection(1 .. m + n, Apps)
  BY <1>4, <1>5 DEF Injection, IsInjective
<1>7. Cardinality(1 .. m + n) <= Cardinality(Apps)
  BY <1>6, SchedulerAssumption, FS_Injection
<1>8. Cardinality(1 .. m + n) = m + n
  BY FS_Interval
<1> QED BY <1>1, <1>7, <1>8

LEMMA TypesFollow == SInv /\ NInv => TypeOK
<1> SUFFICES ASSUME SInv, NInv PROVE TypeOK
  OBVIOUS
<1>1. \A b \in Places : /\ registry[b].handle \in Int
                        /\ \A p \in Parts : registry[b].part[p].status \in {"READY", "RUN"}
  BY DEF SInv, Fields, Status
<1>2. ASSUME NEW a \in Apps
      PROVE  /\ app[a].entry \in Entries /\ app[a].served \in 0 .. TotRequest
             /\ app[a].pc \notin {"new", "adds"} => ids[a] \in Nat \ {0}
  <2>1. app[a].entry \in Entries
    <3>1. app[a].entry \in EntryFields /\ app[a].entry.handle \in -1 .. opened
      BY DEF SInv, Fields, AppFields, NInv, FreshInv
    <3> QED BY <3>1 DEF EntryFields, Entries
  <2>2. app[a].served \in 0 .. TotRequest
    BY SchedulerAssumption DEF SInv, Fields, AppFields, NInv, ServedInv
  <2>3. app[a].pc \notin {"new", "adds"} => ids[a] \in Nat \ {0}
    BY DEF NInv, IdInv
  <2> QED BY <2>1, <2>2, <2>3
<1>3. IQ \in Seq(Apps) /\ PRQ \in Seq(Apps) /\ Len(IQ) + Len(PRQ) <= Cardinality(Apps)
  <2>1. /\ IQ \in Seq(Apps) /\ PRQ \in Seq(Apps) /\ Once(IQ) /\ Once(PRQ)
        /\ \A a \in Apps : (Within(a, IQ) => AwaitsTask(a)) /\ (Within(a, PRQ) => AwaitsPr(a))
    BY DEF SInv, TaskInv, PrInv
  <2>2. \A a \in Apps : ~ (Within(a, IQ) /\ Within(a, PRQ))
    BY <2>1 DEF AwaitsTask, AwaitsPr
  <2> QED BY <2>1, <2>2, TwoQueues
<1>4. \A b, c \in Places : live[b] = live[c] => b = c \/ live[b] = 0
  BY DEF NInv, FreshInv
<1>5. \A s \in services : s.app \in Apps /\ s.id = ids[s.app]
  BY DEF NInv, IdInv
<1> QED BY <1>1, <1>2, <1>3, <1>4, <1>5 DEF TypeOK

\* Whoever the service registry has is there under its own id, which counts from
\* one (serviceregistry.cpp: AddEntry; not everybody is there); an entry waits in
\* a queue at most once, no two boards are open under one handle, and nobody is
\* served more often than it asks.
THEOREM SchedulerTypeCorrect == Spec => []TypeOK
<1>1. Init => NInv
  BY InitNInv
<1>2. SInv /\ NInv /\ [Next]_vars => NInv'
  BY NextNInv
<1>3. SInv /\ NInv => TypeOK
  BY TypesFollow
<1> QED BY <1>1, <1>2, <1>3, SchedulerInvariant, PTL DEF Spec
=============================================================================
