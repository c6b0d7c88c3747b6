------------------------- MODULE ScalerLeaseProofs -------------------------
(***************************************************************************)
(* What the boards carry: a bitstream changes only for a holder that waits *)
(* for it, a kernel runs on its own bitstream unless its region was spoilt *)
(* since it was last loaded, and the pipeline implements the lease of      *)
(* PRRLease, whichever way the programmings go and whether or not they     *)
(* fail.                                                                   *)
(***************************************************************************)
EXTENDS ScalerPipelineProofs

-----------------------------------------------------------------------------
(* Who the PR daemon and the task daemon work for *)

\* The PR daemon of a board works for the holder of the region its entry names, and
\* no other daemon works on that region.
LEMMA PrWorksForHolder ==
  ASSUME IInv, NEW d \in Devices, prPc[d] # "idle"
  PROVE  /\ prJob[d] \in Jobs /\ app[prJob[d]] = "waitPrg" /\ ~done[prJob[d]]
         /\ entryPRR[prJob[d]] \in PRRs
         /\ device[prJob[d]] = entryPRR[prJob[d]]
         /\ HeldBy(prJob[d]) = entryPRR[prJob[d]]
         /\ DeviceOf[entryPRR[prJob[d]]] = d
         /\ \A i \in Jobs : HeldBy(i) = entryPRR[prJob[d]] => i = prJob[d]
<1> USE DEF IInv
<1>1. PICK j \in Jobs : j = prJob[d] /\ app[j] = "waitPrg" /\ ~done[j]
  BY HandKinds
<1>2. entryPRR[j] = device[j] /\ device[j] \in PRRs
  BY <1>1 DEF AppInv
<1>3. HeldBy(j) = entryPRR[j]
  BY <1>1, <1>2, HeldByCases
<1>4. DeviceOf[entryPRR[j]] = d
  <2>1. j \in At(<<"pr", d>>)
    BY <1>1, AtSpots
  <2>2. \A i \in At(<<"pr", d>>) : DeviceOf[entryPRR[i]] = d
    BY DEF KindInv
  <2> QED BY <2>1, <2>2
<1>5. \A i \in Jobs : HeldBy(i) = entryPRR[j] => i = j
  BY <1>2, <1>3, PipelineAssumption DEF MutualExclusion
<1> QED BY <1>1, <1>2, <1>3, <1>4, <1>5

\* While the task daemon looks at a region for its holder no PR daemon works on it.
LEMMA CheckWorksForHolder ==
  ASSUME IInv, tqPc = "check"
  PROVE  /\ tqJob \in Jobs /\ app[tqJob] = "waitPrg"
         /\ entryPRR[tqJob] \in PRRs /\ device[tqJob] = entryPRR[tqJob]
         /\ \A d \in Devices : prPc[d] # "idle" => entryPRR[prJob[d]] # entryPRR[tqJob]
<1> USE DEF IInv
<1>1. PICK j \in Jobs : j = tqJob /\ app[j] = "waitPrg" /\ ~done[j]
  BY HandKinds
<1>2. entryPRR[j] = device[j] /\ device[j] \in PRRs
  BY <1>1 DEF AppInv
<1>3. HeldBy(j) = entryPRR[j]
  BY <1>1, <1>2, HeldByCases
<1>4. ASSUME NEW d \in Devices, prPc[d] # "idle", entryPRR[prJob[d]] = entryPRR[j]
      PROVE  FALSE
  <2>1. prJob[d] = j
    BY <1>3, <1>4, PrWorksForHolder
  <2>2. j \in At(TaskSpot) /\ j \in At(<<"pr", d>>)
    BY <1>1, <1>4, <2>1, AtSpots
  <2>3. TaskSpot # <<"pr", d>> /\ TaskSpot \in Spots /\ <<"pr", d>> \in Spots
    BY SpotCases DEF TaskSpot
  <2> QED BY <2>2, <2>3 DEF EntryInOnePlace
<1> QED BY <1>1, <1>2, <1>4

\* Therefore what the registry says of that region is true, if it is not lost.
LEMMA RecordHolds ==
  ASSUME IInv, BitstreamInv, tqPc = "check", IsPrgWith(entryPRR[tqJob], ServiceOf[tqJob])
  PROVE  device[tqJob] \in lost \/ config[device[tqJob]] = ServiceOf[tqJob]
<1>1. \/ entryPRR[tqJob] \in lost
      \/ programmed[entryPRR[tqJob]] \in {NoService, config[entryPRR[tqJob]]}
  BY CheckWorksForHolder DEF BitstreamInv
<1>2. ServiceOf[tqJob] # NoService
  BY CheckWorksForHolder, PipelineAssumption
<1> QED BY <1>1, <1>2, CheckWorksForHolder DEF IsPrgWith

\* The same for the second look, of the PR daemon.
LEMMA SecondLookHolds ==
  ASSUME IInv, BitstreamInv, NEW d \in Devices, prPc[d] = "check",
         IsPrgWith(entryPRR[prJob[d]], ServiceOf[prJob[d]])
  PROVE  entryPRR[prJob[d]] \in lost \/ config[entryPRR[prJob[d]]] = ServiceOf[prJob[d]]
<1>1. \A e \in Devices : prPc[e] = "record" => entryPRR[prJob[e]] # entryPRR[prJob[d]]
  BY PrWorksForHolder
<1>2. \/ entryPRR[prJob[d]] \in lost
      \/ programmed[entryPRR[prJob[d]]] \in {NoService, config[entryPRR[prJob[d]]]}
  BY <1>1, PrWorksForHolder DEF BitstreamInv
<1>3. ServiceOf[prJob[d]] # NoService
  BY PrWorksForHolder, PipelineAssumption
<1> QED BY <1>2, <1>3 DEF IsPrgWith

-----------------------------------------------------------------------------
(* The bitstreams *)

\* A step that changes no board, no record, no PR daemon and no entry of a PR
\* daemon, and takes no job to a run or an answer, keeps the invariant.
LEMMA BitstreamsStay ==
  ASSUME IInv, BitstreamInv, UNCHANGED <<config, lost, programmed, prPc, prJob>>,
         \A d \in Devices : prPc[d] # "idle" => entryPRR'[prJob[d]] = entryPRR[prJob[d]],
         \A j \in Jobs : app'[j] = "run" \/ (app'[j] = "waitPrg" /\ done'[j]) =>
           device'[j] \in lost \/ config[device'[j]] = ServiceOf[j]
  PROVE  BitstreamInv'
<1>1. \A p \in PRRs : \/ p \in lost' \/ programmed'[p] \in {NoService, config'[p]}
                      \/ \E d \in Devices : prPc'[d] = "record" /\ entryPRR'[prJob'[d]] = p
  BY DEF BitstreamInv
<1>2. \A d \in Devices : prPc'[d] \in {"record", "answer"} =>
        entryPRR'[prJob'[d]] \in lost' \/ config'[entryPRR'[prJob'[d]]] = ServiceOf[prJob'[d]]
  BY DEF BitstreamInv
<1> QED BY <1>1, <1>2 DEF BitstreamInv

LEMMA AppBitstreams ==
  ASSUME IInv, BitstreamInv, NEW j \in Jobs, SubmitDevice(j) \/ AppProgress(j)
  PROVE  BitstreamInv'
<1> USE DEF IInv
<1>1. UNCHANGED <<config, lost, programmed, prPc, prJob>>
  BY DEF SubmitDevice, AppProgress, ReturnDevice, SubmitProgram, ReturnProgram, RunKernel,
         ReleaseDevice, AppAborts, boardVars, regVars, prVars
<1>2. \A i \in Jobs \ {j} : /\ app'[i] = app[i] /\ device'[i] = device[i]
                            /\ done'[i] = done[i] /\ entryPRR'[i] = entryPRR[i]
  BY DEF SubmitDevice, PushTask, AppProgress, ReturnDevice, SubmitProgram, ReturnProgram,
         RunKernel, ReleaseDevice, AppAborts, appVars, TypeOK
<1>3. \/ entryPRR'[j] = entryPRR[j]
      \/ app[j] # "waitPrg"
  BY DEF SubmitDevice, SubmitProgram, AppProgress, ReturnDevice, ReturnProgram,
         RunKernel, ReleaseDevice, AppAborts, appVars
<1>4. \A d \in Devices : prPc[d] # "idle" => entryPRR'[prJob[d]] = entryPRR[prJob[d]]
  BY <1>2, <1>3, PrWorksForHolder
<1>5. app'[j] = "run" \/ (app'[j] = "waitPrg" /\ done'[j]) => device'[j] \in lost \/ config[device'[j]] = ServiceOf[j]
  <2>1. CASE ReturnProgram(j) \/ AppAborts(j)
    BY <2>1 DEF ReturnProgram, AppAborts, appVars, BitstreamInv
  <2>2. CASE ~(ReturnProgram(j) \/ AppAborts(j))
    <3>1. app'[j] # "run" /\ ~(app'[j] = "waitPrg" /\ done'[j])
      BY <2>2 DEF SubmitDevice, PushTask, AppProgress, ReturnDevice, SubmitProgram,
                  RunKernel, ReleaseDevice, TypeOK
    <3> QED BY <3>1
  <2> QED BY <2>1, <2>2
<1>6. ASSUME NEW i \in Jobs, app'[i] = "run" \/ (app'[i] = "waitPrg" /\ done'[i])
      PROVE  device'[i] \in lost \/ config[device'[i]] = ServiceOf[i]
  BY <1>2, <1>5, <1>6 DEF BitstreamInv
<1> QED BY <1>1, <1>4, <1>6, BitstreamsStay

LEMMA TaskBitstreams ==
  ASSUME IInv, BitstreamInv, TaskDaemon
  PROVE  BitstreamInv'
<1> USE DEF IInv
<1>1. UNCHANGED <<config, lost, programmed, prPc, prJob, entryPRR, app, device>>
  BY DEF TaskDaemon, TaskPop, TaskRoute, TaskAnswer, TaskForward, TaskStamp, appVars,
         boardVars, regVars, prVars
<1>2. ASSUME NEW i \in Jobs, app'[i] = "run" \/ (app'[i] = "waitPrg" /\ done'[i])
      PROVE  device'[i] \in lost \/ config[device'[i]] = ServiceOf[i]
  <2>1. CASE TaskAnswer /\ i = tqJob
    BY <1>1, <2>1, RecordHolds DEF TaskAnswer
  <2>2. CASE ~(TaskAnswer /\ i = tqJob)
    <3>1. done'[i] = done[i]
      BY <2>2 DEF TaskDaemon, TaskPop, TaskRoute, TaskAnswer, TaskForward, TaskStamp, appVars,
                  TypeOK
    <3> QED BY <1>1, <1>2, <3>1 DEF BitstreamInv
  <2> QED BY <2>1, <2>2
<1> QED BY <1>1, <1>2, BitstreamsStay

LEMMA PrrBitstreams ==
  ASSUME IInv, BitstreamInv, NEW p \in PRRs, PrrDaemon(p)
  PROVE  BitstreamInv'
<1> USE DEF IInv
<1>1. UNCHANGED <<config, lost, programmed, prPc, prJob, app, device>>
  BY DEF PrrDaemon, PrrPop, PrrReady, PrrClaim, PrrGrant, appVars, boardVars, regVars, prVars
<1>2. CASE PrrGrant(p)
  <2>1. PICK k \in Jobs : k = prrJob[p] /\ app[k] = "waitDev"
    BY <1>2, HandKinds DEF PrrGrant
  <2>2. \A i \in Jobs \ {k} : done'[i] = done[i] /\ entryPRR'[i] = entryPRR[i]
    BY <1>2, <2>1 DEF PrrGrant, TypeOK
  <2>3. \A d \in Devices : prPc[d] # "idle" => entryPRR'[prJob[d]] = entryPRR[prJob[d]]
    BY <2>1, <2>2, PrWorksForHolder
  <2>4. ASSUME NEW i \in Jobs, app'[i] = "run" \/ (app'[i] = "waitPrg" /\ done'[i])
        PROVE  device'[i] \in lost \/ config[device'[i]] = ServiceOf[i]
    BY <1>1, <2>1, <2>2, <2>4 DEF BitstreamInv
  <2> QED BY <1>1, <2>3, <2>4, BitstreamsStay
<1>3. CASE ~PrrGrant(p)
  <2>1. UNCHANGED <<done, entryPRR>>
    BY <1>3 DEF PrrDaemon, PrrPop, PrrReady, PrrClaim, appVars
  <2> QED BY <1>1, <2>1, BitstreamsStay DEF BitstreamInv
<1> QED BY <1>2, <1>3

LEMMA PrBitstreams ==
  ASSUME IInv, BitstreamInv, NEW d \in Devices, PrDaemon(d)
  PROVE  BitstreamInv'
<1> USE DEF IInv
<1>1. /\ UNCHANGED <<app, device, entryPRR>>
      /\ \A e \in Devices \ {d} : prPc'[e] = prPc[e] /\ prJob'[e] = prJob[e]
  BY DEF PrDaemon, PrPop, PrCheck, Programs, PrReprogram, PrFullChip,
         PrReprogramFails, PrAborts, PrRecord, PrAnswer,
         appVars, prVars, TypeOK
<1>2. CASE PrPop(d)
  <2>1. UNCHANGED <<config, lost, programmed, done>> /\ prPc[d] = "idle" /\ prPc'[d] = "check"
    BY <1>2 DEF PrPop, appVars, boardVars, regVars, TypeOK
  <2> QED BY <1>1, <2>1 DEF BitstreamInv
<1>3. CASE PrCheck(d)
  <2>1. /\ UNCHANGED <<config, lost, programmed, done, prJob>> /\ prPc[d] = "check"
        /\ prPc'[d] = IF IsPrgWith(entryPRR[prJob[d]], ServiceOf[prJob[d]])
                      THEN "answer" ELSE "reprogram"
    BY <1>3 DEF PrCheck, appVars, boardVars, regVars, TypeOK
  <2>2. prPc'[d] = "answer" =>
          entryPRR[prJob[d]] \in lost \/ config[entryPRR[prJob[d]]] = ServiceOf[prJob[d]]
    BY <2>1, SecondLookHolds
  <2>3. \A p \in PRRs : \/ p \in lost' \/ programmed'[p] \in {NoService, config'[p]}
                        \/ \E e \in Devices : prPc'[e] = "record" /\ entryPRR'[prJob'[e]] = p
    BY <1>1, <2>1 DEF BitstreamInv
  <2>4. \A e \in Devices : prPc'[e] \in {"record", "answer"} =>
          entryPRR'[prJob'[e]] \in lost' \/ config'[entryPRR'[prJob'[e]]] = ServiceOf[prJob'[e]]
    BY <1>1, <2>1, <2>2 DEF BitstreamInv
  <2> QED BY <1>1, <2>1, <2>3, <2>4 DEF BitstreamInv
<1>4. CASE Programs(d)
  <2> DEFINE r == entryPRR[prJob[d]]
  <2>1. /\ UNCHANGED <<programmed, done, prJob>> /\ prPc[d] = "reprogram" /\ prPc'[d] = "record"
    BY <1>4 DEF Programs, PrReprogram, PrFullChip, PrReprogramFails, appVars, regVars, TypeOK
  <2>2. /\ r \in PRRs /\ (r \in lost' \/ config'[r] = ServiceOf[prJob[d]])
        /\ \A p \in PRRs \ {r} : p \in lost' \/ (p \notin lost /\ config'[p] = config[p])
    BY <1>4, <2>1, PrWorksForHolder, Programming
  <2>3. \A p \in PRRs : \/ p \in lost' \/ programmed'[p] \in {NoService, config'[p]}
                        \/ \E e \in Devices : prPc'[e] = "record" /\ entryPRR'[prJob'[e]] = p
    <3> TAKE p \in PRRs
    <3>1. CASE p = r
      BY <1>1, <2>1, <3>1
    <3>2. CASE p # r
      BY <1>1, <2>1, <2>2, <3>2 DEF BitstreamInv
    <3> QED BY <3>1, <3>2
  <2>4. ASSUME NEW e \in Devices, prPc'[e] \in {"record", "answer"}
        PROVE  entryPRR'[prJob'[e]] \in lost' \/ config'[entryPRR'[prJob'[e]]] = ServiceOf[prJob'[e]]
    <3>1. CASE e = d
      BY <1>1, <2>1, <2>2, <3>1
    <3>2. CASE e # d
      <4>1. prPc[e] \in {"record", "answer"}
        BY <1>1, <2>4, <3>2
      <4>2. entryPRR[prJob[e]] \in PRRs \ {r}
        BY <2>1, <3>2, <4>1, PrWorksForHolder
      <4> QED BY <1>1, <2>1, <2>2, <4>1, <4>2 DEF BitstreamInv
    <3> QED BY <3>1, <3>2
  <2>5. ASSUME NEW j \in Jobs, app'[j] = "run" \/ (app'[j] = "waitPrg" /\ done'[j])
        PROVE  device'[j] \in lost' \/ config'[device'[j]] = ServiceOf[j]
    <3>1. app[j] = "run" \/ (app[j] = "waitPrg" /\ done[j])
      BY <1>1, <2>1, <2>5
    <3>2. HeldBy(j) = device[j] /\ device[j] \in PRRs
      BY <3>1, HeldByCases DEF AppInv
    <3>3. j # prJob[d]
      BY <2>1, <3>1, PrWorksForHolder
    <3>4. device[j] # r
      BY <2>1, <3>2, <3>3, PrWorksForHolder
    <3> QED BY <1>1, <2>2, <3>1, <3>2, <3>4 DEF BitstreamInv
  <2> QED BY <2>3, <2>4, <2>5 DEF BitstreamInv
<1>5. CASE PrRecord(d)
  <2> DEFINE r == entryPRR[prJob[d]]
  <2>1. /\ UNCHANGED <<config, lost, done, prJob>> /\ prPc[d] = "record" /\ prPc'[d] = "answer"
        /\ programmed' = [programmed EXCEPT ![r] = ServiceOf[prJob[d]]]
    BY <1>5 DEF PrRecord, appVars, boardVars, TypeOK
  <2>2. r \in lost \/ config[r] = ServiceOf[prJob[d]]
    BY <2>1 DEF BitstreamInv
  <2>3. \A p \in PRRs : \/ p \in lost' \/ programmed'[p] \in {NoService, config'[p]}
                        \/ \E e \in Devices : prPc'[e] = "record" /\ entryPRR'[prJob'[e]] = p
    <3> TAKE p \in PRRs
    <3>1. CASE p = r
      BY <2>1, <2>2, <3>1 DEF TypeOK
    <3>2. CASE p # r
      <4>1. programmed'[p] = programmed[p]
        BY <2>1, <3>2 DEF TypeOK
      <4>2. CASE p \in lost \/ programmed[p] \in {NoService, config[p]}
        BY <2>1, <4>1, <4>2
      <4>3. CASE \E e \in Devices : prPc[e] = "record" /\ entryPRR[prJob[e]] = p
        <5>1. PICK e \in Devices : prPc[e] = "record" /\ entryPRR[prJob[e]] = p
          BY <4>3
        <5>2. e # d
          BY <3>2, <5>1
        <5> QED BY <1>1, <5>1, <5>2
      <4> QED BY <4>2, <4>3 DEF BitstreamInv
    <3> QED BY <3>1, <3>2
  <2>4. \A e \in Devices : prPc'[e] \in {"record", "answer"} =>
          entryPRR'[prJob'[e]] \in lost' \/ config'[entryPRR'[prJob'[e]]] = ServiceOf[prJob'[e]]
    BY <1>1, <2>1, <2>2 DEF BitstreamInv
  <2> QED BY <1>1, <2>1, <2>3, <2>4 DEF BitstreamInv
<1>6. CASE PrAnswer(d)
  <2>1. /\ UNCHANGED <<config, lost, programmed>> /\ prPc[d] = "answer" /\ prPc'[d] = "idle"
        /\ done' = [done EXCEPT ![prJob[d]] = TRUE]
    BY <1>6 DEF PrAnswer, boardVars, regVars, TypeOK
  <2>2. \A p \in PRRs : \/ p \in lost' \/ programmed'[p] \in {NoService, config'[p]}
                        \/ \E e \in Devices : prPc'[e] = "record" /\ entryPRR'[prJob'[e]] = p
    BY <1>1, <2>1 DEF BitstreamInv
  <2>3. \A e \in Devices : prPc'[e] \in {"record", "answer"} =>
          entryPRR'[prJob'[e]] \in lost' \/ config'[entryPRR'[prJob'[e]]] = ServiceOf[prJob'[e]]
    BY <1>1, <2>1 DEF BitstreamInv
  <2>4. ASSUME NEW j \in Jobs, app'[j] = "run" \/ (app'[j] = "waitPrg" /\ done'[j])
        PROVE  device'[j] \in lost' \/ config'[device'[j]] = ServiceOf[j]
    <3>1. CASE j = prJob[d]
      BY <1>1, <2>1, <3>1, PrWorksForHolder DEF BitstreamInv
    <3>2. CASE j # prJob[d]
      <4>1. done'[j] = done[j]
        BY <2>1, <3>2 DEF TypeOK
      <4> QED BY <1>1, <2>1, <2>4, <4>1 DEF BitstreamInv
    <3> QED BY <3>1, <3>2
  <2> QED BY <2>2, <2>3, <2>4 DEF BitstreamInv
<1>7. CASE PrAborts(d)
  <2>1. UNCHANGED <<config, lost, programmed, done, prPc, prJob>>
    BY <1>7 DEF PrAborts, appVars, boardVars, regVars, prVars
  <2> QED BY <1>1, <2>1 DEF BitstreamInv
<1> QED BY <1>2, <1>3, <1>4, <1>5, <1>6, <1>7 DEF PrDaemon, Programs

LEMMA NextBitstreams ==
  ASSUME IInv, BitstreamInv, [Next]_vars
  PROVE  BitstreamInv'
<1>1. CASE UNCHANGED vars
  <2>1. UNCHANGED <<config, lost, programmed, app, done, device, entryPRR, prPc, prJob>>
    BY <1>1 DEF vars, appVars, boardVars, regVars, prVars
  <2> QED BY <2>1 DEF BitstreamInv
<1> QED BY <1>1, AppBitstreams, TaskBitstreams, PrrBitstreams, PrBitstreams DEF Next, Aborted

LEMMA InitBitstreams == Init => BitstreamInv
  BY DEF Init, BitstreamInv

\* A kernel only runs on a region that carries the bitstream of its own service,
\* or that was spoilt since it was last loaded.
THEOREM KernelsRunOwnService == Spec => []RunsOwnService
<1>1. IInv /\ BitstreamInv /\ [Next]_vars => BitstreamInv'
  BY NextBitstreams
<1>2. BitstreamInv => RunsOwnService
  BY DEF BitstreamInv, RunsOwnService
<1> QED BY <1>1, <1>2, InitBitstreams, PipelineInvariant, PTL DEF Spec

-----------------------------------------------------------------------------
(* The boards *)

\* A bitstream changes only for a job that holds a region of the board and waits,
\* whichever way the programming goes and whether or not it fails.
LEMMA StepReprogramsForHolder ==
  ASSUME IInv, [Next]_vars, NEW p \in PRRs, config'[p] # config[p]
  PROVE  \E j \in Jobs : /\ HeldBy(j) # NoPRR /\ DeviceOf[HeldBy(j)] = DeviceOf[p]
                         /\ app[j] = "waitPrg" /\ ~done[j]
                         /\ (HeldBy(j) = p \/ p \in lost')
                         /\ config'[p] \in {ServiceOf[j], NoService}
<1>1. PICK d \in Devices : Programs(d)
  BY DEF Next, Aborted, vars, SubmitDevice, AppProgress, ReturnDevice, SubmitProgram,
         ReturnProgram, RunKernel, ReleaseDevice, AppAborts, TaskDaemon, TaskPop, TaskRoute,
         TaskAnswer, TaskForward, TaskStamp, PrDaemon, PrPop, PrCheck, PrAborts, PrRecord, PrAnswer,
         Programs, PrrDaemon, PrrPop, PrrReady, PrrClaim, PrrGrant, boardVars
<1>2. prPc[d] = "reprogram"
  BY <1>1 DEF Programs, PrReprogram, PrFullChip, PrReprogramFails
<1>3. PICK j \in Jobs : /\ j = prJob[d] /\ app[j] = "waitPrg" /\ ~done[j]
                        /\ entryPRR[j] \in PRRs /\ HeldBy(j) = entryPRR[j]
                        /\ DeviceOf[entryPRR[j]] = d
  BY <1>2, PrWorksForHolder
<1>4. /\ DeviceOf[p] = d
      /\ config'[p] \in {ServiceOf[j], NoService}
      /\ HeldBy(j) = p \/ p \in lost'
  BY <1>1, <1>3, Programming DEF IInv
<1> QED BY <1>3, <1>4, PipelineAssumption

\* The bitstream of a region changes only for its holder, while it waits, or else
\* for a waiting holder of another region of the board, and then the region is lost.
THEOREM BoardsChangeForHolders == Spec => OnlyHolderReprograms
<1> DEFINE Step == \A p \in PRRs : config'[p] # config[p] =>
                     \E j \in Jobs : /\ HeldBy(j) # NoPRR /\ DeviceOf[HeldBy(j)] = DeviceOf[p]
                                    /\ app[j] = "waitPrg" /\ ~done[j]
                                    /\ (HeldBy(j) = p \/ p \in lost')
                                    /\ config'[p] \in {ServiceOf[j], NoService}
<1>1. IInv /\ [Next]_vars => Step
  BY StepReprogramsForHolder
<1>2. IInv /\ [Next]_vars => [Step]_vars
  BY <1>1
<1>3. [][Step]_vars => OnlyHolderReprograms
  BY DEF OnlyHolderReprograms
<1> HIDE DEF Step
<1> QED BY <1>2, <1>3, PipelineInvariant, PTL DEF Spec

-----------------------------------------------------------------------------
(* The routes *)

LEMMA RoutesStay ==
  ASSUME RouteInv,
         \A p \in PRRs : At(<<"prrQ", p>>)' \cup At(<<"prr", p>>)'
                           \subseteq At(<<"prrQ", p>>) \cup At(<<"prr", p>>)
  PROVE  RouteInv'
BY DEF RouteInv, Table

LEMMA SpotsShrink ==
  ASSUME RouteInv, \A z \in Spots \ {TaskQSpot, TaskSpot} : At(z)' \subseteq At(z)
  PROVE  RouteInv'
<1>1. \A p \in PRRs : /\ At(<<"prrQ", p>>)' \subseteq At(<<"prrQ", p>>)
                      /\ At(<<"prr", p>>)' \subseteq At(<<"prr", p>>)
  BY SpotCases DEF TaskQSpot, TaskSpot
<1> QED BY <1>1, RoutesStay

LEMMA NextRoute ==
  ASSUME IInv, RouteInv, [Next]_vars
  PROVE  RouteInv'
<1> USE DEF IInv
<1>1. ASSUME NEW j \in Jobs, SubmitDevice(j) \/ AppProgress(j)
      PROVE  RouteInv'
  <2>1. CASE SubmitDevice(j) \/ SubmitProgram(j)
    <3>1. ~Waiting(j)
      BY <2>1 DEF SubmitDevice, SubmitProgram, Waiting
    <3>2. \A z \in Spots \ {TaskQSpot} : At(z)' = At(z)
      BY <2>1, <3>1, PushStep DEF SubmitDevice, SubmitProgram, PushTask, tqVars
    <3> QED BY <3>2, SpotsShrink
  <2>2. CASE AppProgress(j) /\ ~SubmitProgram(j)
    <3>1. \A z \in Spots : At(z)' = At(z)
      BY <2>2, SpotsStay DEF AppProgress, ReturnDevice, ReturnProgram, RunKernel, ReleaseDevice,
                             AppAborts, tqVars, EntryInOnePlace
    <3> QED BY <3>1, SpotsShrink
  <2> QED BY <1>1, <2>1, <2>2
<1>2. CASE TaskDaemon
  <2>1. CASE TaskRoute
    <3>1. PICK p \in PRRs :
            /\ p = NextInstance(ServiceOf[tqJob]) /\ tqJob \in Jobs
            /\ At(<<"prrQ", p>>)' = At(<<"prrQ", p>>) \cup {tqJob}
            /\ \A z \in Spots \ {TaskSpot, <<"prrQ", p>>} : At(z)' = At(z)
      BY <2>1, TaskRouteStep
    <3>2. p \in Elems(Table(ServiceOf[tqJob]))
      BY <3>1, PipelineAssumption, NextInstanceInPRRs
    <3>3. \A q \in PRRs : /\ q # p => At(<<"prrQ", q>>)' = At(<<"prrQ", q>>)
                          /\ At(<<"prr", q>>)' = At(<<"prr", q>>)
      BY <3>1, SpotCases DEF TaskSpot
    <3> QED BY <3>1, <3>2, <3>3 DEF RouteInv, Table
  <2>2. CASE TaskForward
    <3>1. PICK d \in Devices : \A z \in Spots \ {TaskSpot, <<"prQ", d>>} : At(z)' = At(z)
      BY <2>2, TaskForwardStep
    <3>2. \A q \in PRRs : /\ At(<<"prrQ", q>>)' = At(<<"prrQ", q>>)
                          /\ At(<<"prr", q>>)' = At(<<"prr", q>>)
      BY <3>1, SpotCases DEF TaskSpot
    <3> QED BY <3>2, RoutesStay
  <2>3. CASE TaskPop \/ TaskAnswer \/ TaskStamp
    <3>1. \A z \in Spots \ {TaskQSpot, TaskSpot} : At(z)' = At(z)
      BY <2>3, TaskPopStep, TaskAnswerStep, TaskStampStep
    <3> QED BY <3>1, SpotsShrink
  <2> QED BY <1>2, <2>1, <2>2, <2>3 DEF TaskDaemon
<1>3. ASSUME NEW d \in Devices, PrDaemon(d)
      PROVE  RouteInv'
  <2>1. \A z \in Spots \ {<<"prQ", d>>, <<"pr", d>>} : At(z)' = At(z)
    BY <1>3, PrPopStep, PrAnswerStep, PrWorkStep DEF PrDaemon, Programs
  <2>2. \A q \in PRRs : /\ At(<<"prrQ", q>>)' = At(<<"prrQ", q>>)
                        /\ At(<<"prr", q>>)' = At(<<"prr", q>>)
    BY <2>1, SpotCases
  <2> QED BY <2>2, RoutesStay
<1>4. ASSUME NEW p \in PRRs, PrrDaemon(p)
      PROVE  RouteInv'
  <2>1. CASE PrrPop(p)
    <3>1. \A q \in PRRs : At(<<"prrQ", q>>)' \cup At(<<"prr", q>>)'
                             \subseteq At(<<"prrQ", q>>) \cup At(<<"prr", q>>)
      BY <2>1, PrrPopStep, SpotCases
    <3> QED BY <3>1, RoutesStay
  <2>2. CASE PrrGrant(p) \/ PrrReady(p) \/ PrrClaim(p)
    <3>1. \A z \in Spots : At(z)' \subseteq At(z)
      BY <2>2, PrrGrantStep, PrrWorkStep
    <3> QED BY <3>1, SpotsShrink
  <2> QED BY <1>4, <2>1, <2>2 DEF PrrDaemon
<1>5. CASE UNCHANGED vars
  <2>1. \A z \in Spots : At(z)' = At(z)
    BY <1>5, SpotsStay DEF vars, tqVars, EntryInOnePlace
  <2> QED BY <2>1, SpotsShrink
<1> QED BY <1>1, <1>2, <1>3, <1>4, <1>5 DEF Next, Aborted

LEMMA InitRoute == Init => RouteInv
<1> SUFFICES ASSUME Init PROVE RouteInv
  OBVIOUS
<1>1. \A p \in PRRs : prrQ[p] = <<>> /\ prrPc[p] = "idle"
  BY DEF Init
<1>2. Elems(<<>>) = {}
  BY EmptySeq, LenProperties DEF Elems
<1>3. \A p \in PRRs : At(<<"prrQ", p>>) = {} /\ At(<<"prr", p>>) = {}
  BY <1>1, <1>2, AtSpots
<1> QED BY <1>3 DEF RouteInv

-----------------------------------------------------------------------------
(* The pipeline implements PRRLease *)

\* The phase of a job is a function of where its thread is and of its answer.
LEMMA PhaseCases ==
  ASSUME NEW j \in Jobs, IInv
  PROVE  /\ app[j] = "idle" => Phase(j) = "idle"
         /\ app[j] = "waitDev" /\ ~done[j] => Phase(j) = "waiting"
         /\ app[j] = "waitDev" /\ done[j] => Phase(j) = "leased"
         /\ app[j] \in {"hasDev", "waitPrg"} => Phase(j) = "leased"
         /\ app[j] \in {"run", "release"} => Phase(j) = "running"
  BY DEF Phase

LEMMA PhaseCasesNext ==
  ASSUME NEW j \in Jobs
  PROVE  /\ app'[j] = "idle" => Phase(j)' = "idle"
         /\ app'[j] = "waitDev" /\ ~done'[j] => Phase(j)' = "waiting"
         /\ app'[j] = "waitDev" /\ done'[j] => Phase(j)' = "leased"
         /\ app'[j] \in {"hasDev", "waitPrg"} => Phase(j)' = "leased"
         /\ app'[j] \in {"run", "release"} => Phase(j)' = "running"
  BY DEF Phase

LEMMA PhaseStays ==
  ASSUME NEW i \in Jobs, app'[i] = app[i], done'[i] = done[i]
  PROVE  Phase(i)' = Phase(i)
  BY DEF Phase

\* A job whose thread does not act, and which is not being granted a region,
\* stays in its phase.
LEMMA OnlyTheseChangePhase ==
  ASSUME IInv, [Next]_vars, NEW i \in Jobs,
         ~SubmitDevice(i), ~ReturnProgram(i), ~ReleaseDevice(i),
         \A p \in PRRs : PrrGrant(p) => i # prrJob[p]
  PROVE  Phase(i)' = Phase(i)
<1> USE DEF IInv, appVars
<1>1. ASSUME NEW j \in Jobs, SubmitDevice(j) \/ AppProgress(j)
      PROVE  Phase(i)' = Phase(i)
  <2>1. CASE i # j
    <3>1. app'[i] = app[i] /\ done'[i] = done[i]
      BY <1>1, <2>1 DEF SubmitDevice, PushTask, AppProgress, ReturnDevice, SubmitProgram,
                        ReturnProgram, RunKernel, ReleaseDevice, AppAborts, TypeOK
    <3> QED BY <3>1, PhaseStays
  <2>2. CASE i = j
    <3>1. CASE ReturnDevice(i)
      <4>1. app[i] = "waitDev" /\ done[i] /\ app'[i] = "hasDev"
        BY <3>1 DEF ReturnDevice, TypeOK
      <4> QED BY <4>1, PhaseCases, PhaseCasesNext
    <3>2. CASE SubmitProgram(i)
      <4>1. app[i] = "hasDev" /\ app'[i] = "waitPrg"
        BY <3>2 DEF SubmitProgram, TypeOK
      <4> QED BY <4>1, PhaseCases, PhaseCasesNext
    <3>3. CASE RunKernel(i)
      <4>1. app[i] = "run" /\ app'[i] = "release"
        BY <3>3 DEF RunKernel, TypeOK
      <4> QED BY <4>1, PhaseCases, PhaseCasesNext
    <3>4. CASE AppAborts(i)
      BY <3>4, PhaseStays DEF AppAborts
    <3> QED BY <1>1, <2>2, <3>1, <3>2, <3>3, <3>4 DEF AppProgress
  <2> QED BY <2>1, <2>2
<1>2. CASE TaskDaemon
  <2>1. app' = app /\ (done' = done \/ (TaskAnswer /\ done' = [done EXCEPT ![tqJob] = TRUE]))
    BY <1>2 DEF TaskDaemon, TaskPop, TaskRoute, TaskAnswer, TaskForward, TaskStamp
  <2>2. TaskAnswer => app[tqJob] = "waitPrg"
    BY HandKinds DEF TaskAnswer
  <2>3. CASE app[i] = "waitPrg"
    BY <2>1, <2>3, PhaseCases, PhaseCasesNext
  <2>4. CASE app[i] # "waitPrg"
    <3>1. done'[i] = done[i]
      BY <2>1, <2>2, <2>4 DEF TypeOK
    <3> QED BY <2>1, <3>1, PhaseStays
  <2> QED BY <2>3, <2>4
<1>3. ASSUME NEW d \in Devices, PrDaemon(d)
      PROVE  Phase(i)' = Phase(i)
  <2>1. app' = app /\ (done' = done \/ (PrAnswer(d) /\ done' = [done EXCEPT ![prJob[d]] = TRUE]))
    BY <1>3 DEF PrDaemon, PrPop, PrCheck, Programs, PrReprogram, PrFullChip, PrReprogramFails,
         PrAborts, PrRecord, PrAnswer
  <2>2. PrAnswer(d) => app[prJob[d]] = "waitPrg"
    BY HandKinds DEF PrAnswer
  <2>3. CASE app[i] = "waitPrg"
    BY <2>1, <2>3, PhaseCases, PhaseCasesNext
  <2>4. CASE app[i] # "waitPrg"
    <3>1. done'[i] = done[i]
      BY <2>1, <2>2, <2>4 DEF TypeOK
    <3> QED BY <2>1, <3>1, PhaseStays
  <2> QED BY <2>3, <2>4
<1>4. ASSUME NEW p \in PRRs, PrrDaemon(p)
      PROVE  Phase(i)' = Phase(i)
  <2>1. CASE PrrGrant(p)
    <3>1. app'[i] = app[i] /\ done'[i] = done[i]
      BY <2>1 DEF PrrGrant, TypeOK
    <3> QED BY <3>1, PhaseStays
  <2>2. CASE ~PrrGrant(p)
    <3>1. app' = app /\ done' = done
      BY <1>4, <2>2 DEF PrrDaemon, PrrPop, PrrReady, PrrClaim
    <3> QED BY <3>1, PhaseStays
  <2> QED BY <2>1, <2>2
<1>5. CASE UNCHANGED vars
  BY <1>5, PhaseStays DEF vars
<1> QED BY <1>1, <1>2, <1>3, <1>4, <1>5 DEF Next, Aborted

\* A request, a run and a release are steps of the lease.
LEMMA AppImplements ==
  ASSUME IInv, BitstreamInv, NEW j \in Jobs, [Next]_vars,
         SubmitDevice(j) \/ ReturnProgram(j) \/ ReleaseDevice(j)
  PROVE  Lease!Next
<1> USE DEF IInv
<1>1. \A i \in Jobs \ {j} : Phase(i)' = Phase(i)
  <2>1. \A i \in Jobs \ {j} : app'[i] = app[i] /\ done'[i] = done[i]
    BY DEF SubmitDevice, PushTask, ReturnProgram, ReleaseDevice, TypeOK
  <2> QED BY <2>1, PhaseStays
<1>2. UNCHANGED <<config, lost>>
  BY DEF SubmitDevice, ReturnProgram, ReleaseDevice, boardVars
<1>3. CASE SubmitDevice(j)
  <2>1. Phase(j) = "idle" /\ Phase(j)' = "waiting"
    <3>1. app[j] = "idle" /\ app'[j] = "waitDev" /\ ~done'[j]
      BY <1>3 DEF SubmitDevice, PushTask, TypeOK
    <3> QED BY <3>1, PhaseCases, PhaseCasesNext
  <2>2. \A i \in Jobs : HeldBy(i)' = HeldBy(i)
    <3>1. HeldBy(j) = NoPRR /\ HeldBy(j)' = NoPRR
      <4>1. app[j] = "idle" /\ app'[j] = "waitDev" /\ ~done'[j]
        BY <1>3 DEF SubmitDevice, PushTask, TypeOK
      <4> QED BY <4>1, HeldByCases, HeldByCasesNext
    <3>2. \A i \in Jobs \ {j} : /\ app'[i] = app[i] /\ device'[i] = device[i]
                                /\ done'[i] = done[i] /\ entryPRR'[i] = entryPRR[i]
      BY <1>3 DEF SubmitDevice, PushTask, TypeOK
    <3> QED BY <3>1, <3>2, OthersHold
  <2>3. Lease!Request(j)
    BY <1>1, <1>2, <2>1, <2>2 DEF Lease!Request
  <2> QED BY <2>3 DEF Lease!Next
<1>4. CASE ReturnProgram(j)
  <2>1. app[j] = "waitPrg" /\ done[j] /\ app'[j] = "run" /\ device' = device
    BY <1>4 DEF ReturnProgram, TypeOK
  <2>2. Phase(j) = "leased" /\ Phase(j)' = "running"
    BY <2>1, PhaseCases, PhaseCasesNext
  <2>3. HeldBy(j) = device[j] /\ HeldBy(j)' = HeldBy(j)
    BY <2>1, HeldByCases, HeldByCasesNext
  <2>4. \A i \in Jobs : HeldBy(i)' = HeldBy(i)
    <3>1. \A i \in Jobs \ {j} : /\ app'[i] = app[i] /\ device'[i] = device[i]
                                /\ done'[i] = done[i] /\ entryPRR'[i] = entryPRR[i]
      BY <1>4 DEF ReturnProgram, TypeOK
    <3> QED BY <2>3, <3>1, OthersHold
  <2>5. HeldBy(j) \in lost \/ config[HeldBy(j)] = ServiceOf[j]
    BY <2>1, <2>3 DEF BitstreamInv
  <2>6. Lease!Start(j)
    BY <1>1, <1>2, <2>2, <2>4, <2>5 DEF Lease!Start
  <2> QED BY <2>6 DEF Lease!Next
<1>5. CASE ReleaseDevice(j)
  <2>1. Phase(j) = "running" /\ Phase(j)' = "idle"
    <3>1. app[j] = "release" /\ app'[j] = "idle"
      BY <1>5 DEF ReleaseDevice, TypeOK
    <3> QED BY <3>1, PhaseCases, PhaseCasesNext
  <2>2. HeldBy(j)' = NoPRR /\ \A i \in Jobs \ {j} : HeldBy(i)' = HeldBy(i)
    BY <1>5, ReleaseFrees
  <2>3. Lease!Finish(j)
    BY <1>1, <1>2, <2>1, <2>2 DEF Lease!Finish
  <2> QED BY <2>3 DEF Lease!Next
<1> QED BY <1>3, <1>4, <1>5

\* So is the region daemon's answer, and it gives a region that is free and that
\* the job's service may use.
LEMMA GrantImplements ==
  ASSUME IInv, RouteInv, NEW p \in PRRs, PrrGrant(p)
  PROVE  Lease!Next
<1> USE DEF IInv
<1>1. PICK k \in Jobs : k = prrJob[p] /\ app[k] = "waitDev" /\ ~done[k]
  BY HandKinds DEF PrrGrant
<1>2. app' = app /\ done'[k] /\ entryPRR'[k] = p /\ config' = config /\ lost' = lost
  BY <1>1 DEF PrrGrant, boardVars, TypeOK
<1>3. Phase(k) = "waiting" /\ Phase(k)' = "leased"
  BY <1>1, <1>2, PhaseCases, PhaseCasesNext
<1>4. HeldBy(k)' = p
  BY <1>1, <1>2, HeldByCasesNext
<1>5. \A i \in Jobs \ {k} : Phase(i)' = Phase(i) /\ HeldBy(i)' = HeldBy(i)
  <2>1. \A i \in Jobs \ {k} : /\ app'[i] = app[i] /\ device'[i] = device[i]
                              /\ done'[i] = done[i] /\ entryPRR'[i] = entryPRR[i]
    BY <1>1 DEF PrrGrant, TypeOK
  <2> QED BY <2>1, PhaseStays, OthersHold
<1>6. \A i \in Jobs : HeldBy(i) # p
  BY DEF PrrGrant, StatusTracksHolder
<1>7. p \in Elems(Table(ServiceOf[k])) /\ ServiceOf[k] \in Services
  <2>1. k \in At(<<"prr", p>>)
    BY <1>1, AtSpots DEF PrrGrant
  <2> QED BY <2>1, PipelineAssumption DEF RouteInv
<1>8. Lease!Free(p)
  BY <1>6 DEF Lease!Free
<1>9. Lease!Grant(k, p)
  BY <1>2, <1>3, <1>4, <1>5, <1>7, <1>8 DEF Lease!Grant
<1> QED BY <1>9 DEF Lease!Next

\* And a programming; everything else is a stutter.
LEMMA ReprogramImplements ==
  ASSUME IInv, NEW d \in Devices, Programs(d)
  PROVE  Lease!Next
<1> USE DEF IInv
<1>1. PICK k \in Jobs : /\ k = prJob[d] /\ app[k] = "waitPrg" /\ HeldBy(k) = entryPRR[k]
                        /\ entryPRR[k] \in PRRs /\ DeviceOf[entryPRR[k]] = d
  BY PrWorksForHolder DEF Programs, PrReprogram, PrFullChip, PrReprogramFails
<1>2. Phase(k) = "leased"
  BY <1>1, PhaseCases
<1>3. /\ config' \in [PRRs -> Services \cup {NoService}]
      /\ \A p \in PRRs : DeviceOf[p] # DeviceOf[HeldBy(k)] => config'[p] = config[p]
      /\ lost' = {p \in PRRs : IF p = HeldBy(k) THEN config'[p] # ServiceOf[k]
                               ELSE p \in lost \/ config'[p] # config[p]}
  BY <1>1, Programming
<1>4. \A i \in Jobs : Phase(i)' = Phase(i) /\ HeldBy(i)' = HeldBy(i)
  <2>1. app' = app /\ done' = done /\ device' = device /\ entryPRR' = entryPRR
    BY DEF Programs, PrReprogram, PrFullChip, PrReprogramFails, appVars
  <2> QED BY <2>1, PhaseStays, OthersHold
<1>5. Lease!Program(k)
  BY <1>2, <1>3, <1>4 DEF Lease!Program
<1> QED BY <1>5 DEF Lease!Next

LEMMA StepImplements ==
  ASSUME IInv, BitstreamInv, RouteInv, [Next]_vars
  PROVE  [Lease!Next]_(Lease!leaseVars)
<1>1. CASE \E j \in Jobs : SubmitDevice(j) \/ ReturnProgram(j) \/ ReleaseDevice(j)
  BY <1>1, AppImplements
<1>2. CASE \E p \in PRRs : PrrGrant(p)
  BY <1>2, GrantImplements
<1>3. CASE \E d \in Devices : Programs(d)
  BY <1>3, ReprogramImplements
<1>4. CASE /\ \A j \in Jobs : ~SubmitDevice(j) /\ ~ReturnProgram(j) /\ ~ReleaseDevice(j)
           /\ \A p \in PRRs : ~PrrGrant(p)
           /\ \A d \in Devices : ~Programs(d)
  <2>1. \A i \in Jobs : Phase(i)' = Phase(i)
    BY <1>4, OnlyTheseChangePhase
  <2>2. \A i \in Jobs : HeldBy(i)' = HeldBy(i)
    BY <1>4, HeldStays DEF IInv
  <2>3. config' = config /\ lost' = lost
    BY <1>4 DEF Next, Aborted, vars, SubmitDevice, AppProgress, ReturnDevice, SubmitProgram,
         ReturnProgram, RunKernel, ReleaseDevice, AppAborts, TaskDaemon, TaskPop, TaskRoute,
         TaskAnswer, TaskForward, TaskStamp, PrDaemon, PrPop, PrCheck, PrAborts, PrRecord, PrAnswer,
         Programs, PrrDaemon, PrrPop, PrrReady, PrrClaim, PrrGrant, boardVars
  <2> QED BY <2>1, <2>2, <2>3 DEF Lease!leaseVars
<1> QED BY <1>1, <1>2, <1>3, <1>4

LEMMA InitImplements == Init => Lease!Init
<1> SUFFICES ASSUME Init PROVE Lease!Init
  OBVIOUS
<1>1. \A j \in Jobs : Phase(j) = "idle" /\ HeldBy(j) = NoPRR
  BY InitIInv, PhaseCases, HeldByCases DEF Init
<1> QED BY <1>1 DEF Init, Lease!Init

\* Every behaviour of the pipeline is one of the lease.
THEOREM PipelineImplementsLease == Spec => ImplementsLease
<1>1. IInv /\ BitstreamInv /\ [Next]_vars => BitstreamInv'
  BY NextBitstreams
<1>2. IInv /\ RouteInv /\ [Next]_vars => RouteInv'
  BY NextRoute
<1>3. IInv /\ BitstreamInv /\ RouteInv /\ [Next]_vars => [Lease!Next]_(Lease!leaseVars)
  BY StepImplements
<1> QED BY <1>1, <1>2, <1>3, InitBitstreams, InitRoute, InitImplements, PipelineInvariant, PTL
        DEF Spec, ImplementsLease, Lease!Spec

=============================================================================
