------------------------ MODULE ScalerPipelineProofs ------------------------
(***************************************************************************)
(* Proofs about ScalerPipeline, for any sets of jobs, services, regions    *)
(* and boards, and whatever aocl_mmd_reprogram returns.                    *)
(***************************************************************************)
EXTENDS ScalerPipeline, SequenceTheorems, TLAPS

-----------------------------------------------------------------------------
(* Sequences without duplicates *)

\* What popping the front does to a queue without duplicates.
LEMMA PopElems ==
  ASSUME NEW S, NEW q \in Seq(S), q # <<>>, NoDuplicates(q)
  PROVE  /\ Head(q) \in Elems(q) /\ Head(q) \in S
         /\ Tail(q) \in Seq(S)
         /\ Elems(Tail(q)) = Elems(q) \ {Head(q)}
         /\ NoDuplicates(Tail(q))
<1>1. Len(q) \in Nat \ {0} /\ DOMAIN q = 1..Len(q)
  BY EmptySeq, LenProperties
<1>2. Head(q) = q[1] /\ 1 \in DOMAIN q
  BY <1>1
<1>3. /\ Tail(q) \in Seq(S) /\ Len(Tail(q)) = Len(q) - 1
      /\ \A i \in 1..Len(Tail(q)) : Tail(q)[i] = q[i+1]
  BY HeadTailProperties
<1>4. DOMAIN Tail(q) = 1..(Len(q) - 1)
  BY <1>3, LenProperties
<1>5. Elems(Tail(q)) \subseteq Elems(q) \ {Head(q)}
  <2> SUFFICES ASSUME NEW i \in DOMAIN Tail(q)
               PROVE  Tail(q)[i] \in Elems(q) /\ Tail(q)[i] # Head(q)
    BY DEF Elems
  <2>1. i + 1 \in DOMAIN q /\ i + 1 # 1 /\ Tail(q)[i] = q[i+1]
    BY <1>1, <1>3, <1>4
  <2> QED BY <2>1, <1>2 DEF Elems, NoDuplicates
<1>6. Elems(q) \ {Head(q)} \subseteq Elems(Tail(q))
  <2> SUFFICES ASSUME NEW i \in DOMAIN q, q[i] # Head(q)
               PROVE  q[i] \in Elems(Tail(q))
    BY DEF Elems
  <2>1. i - 1 \in DOMAIN Tail(q) /\ Tail(q)[i - 1] = q[i]
    BY <1>1, <1>2, <1>3, <1>4
  <2> QED BY <2>1 DEF Elems
<1>7. NoDuplicates(Tail(q))
  <2> SUFFICES ASSUME NEW i \in DOMAIN Tail(q), NEW k \in DOMAIN Tail(q),
                      Tail(q)[i] = Tail(q)[k]
               PROVE  i = k
    BY DEF NoDuplicates
  <2>1. i + 1 \in DOMAIN q /\ k + 1 \in DOMAIN q /\ q[i+1] = q[k+1]
    BY <1>1, <1>3, <1>4
  <2>2. i + 1 = k + 1
    BY <2>1 DEF NoDuplicates
  <2> QED BY <2>2, <1>1, <1>4
<1> QED BY <1>2, <1>3, <1>5, <1>6, <1>7, HeadTailProperties DEF Elems

\* What appending a new element does to one.
LEMMA PushElems ==
  ASSUME NEW S, NEW q \in Seq(S), NEW e \in S, NoDuplicates(q), e \notin Elems(q)
  PROVE  /\ Append(q, e) \in Seq(S)
         /\ Elems(Append(q, e)) = Elems(q) \cup {e}
         /\ NoDuplicates(Append(q, e))
<1>1. Len(q) \in Nat /\ DOMAIN q = 1..Len(q)
  BY LenProperties
<1>2. /\ Append(q, e) \in Seq(S) /\ Len(Append(q, e)) = Len(q) + 1
      /\ \A i \in 1..Len(q) : Append(q, e)[i] = q[i]
      /\ Append(q, e)[Len(q) + 1] = e
  BY AppendProperties
<1>3. DOMAIN Append(q, e) = 1..(Len(q) + 1)
  BY <1>2, LenProperties
<1>4. Elems(Append(q, e)) = Elems(q) \cup {e}
  BY <1>1, <1>2, <1>3 DEF Elems
<1>5. NoDuplicates(Append(q, e))
  <2> SUFFICES ASSUME NEW i \in 1..(Len(q) + 1), NEW k \in 1..(Len(q) + 1),
                      Append(q, e)[i] = Append(q, e)[k]
               PROVE  i = k
    BY <1>3 DEF NoDuplicates
  <2>1. \A m \in 1..Len(q) : q[m] # e
    BY <1>1 DEF Elems
  <2>2. CASE i \in 1..Len(q) /\ k \in 1..Len(q)
    BY <2>2, <1>1, <1>2 DEF NoDuplicates
  <2>3. CASE i = Len(q) + 1 \/ k = Len(q) + 1
    BY <2>1, <2>3, <1>1, <1>2
  <2> QED BY <2>2, <2>3, <1>1
<1> QED BY <1>2, <1>4, <1>5

-----------------------------------------------------------------------------
(* Type correctness *)

LEMMA InitTypeOK == Init => TypeOK
<1> SUFFICES ASSUME Init PROVE TypeOK
  OBVIOUS
<1>1. \A s \in Services : Len(Table(s)) \in Nat \ {0} /\ Flag(s) \in Services \cup {NoService}
  BY PipelineAssumption, EmptySeq DEF Table, Flag
<1>2. /\ rr \in [Services \cup {NoService} -> Nat]
      /\ \A s \in Services : rr[Flag(s)] < Len(Table(s))
  BY <1>1 DEF Init
<1>3. <<>> \in Seq(Jobs)
  BY EmptySeq
<1> QED BY <1>2, <1>3 DEF Init, TypeOK, AppPhases

\* determinPRR always picks a region of the table it goes round.
LEMMA NextInstanceInPRRs ==
  ASSUME TypeOK, NEW s \in Services
  PROVE  /\ NextInstance(s) \in PRRs
         /\ NextInstance(s) \in Elems(Table(s))
         /\ Len(Table(s)) \in Nat \ {0}
         /\ Flag(s) \in Services \cup {NoService}
<1>1. Table(s) \in Seq(PRRs) /\ Len(Table(s)) \in Nat \ {0}
  BY PipelineAssumption, EmptySeq DEF Table
<1>2. Flag(s) \in Services \cup {NoService}
  BY DEF Flag
<1>3. rr[Flag(s)] \in Nat /\ rr[Flag(s)] + 1 \in 1..Len(Table(s))
  BY <1>1, <1>2 DEF TypeOK
<1>4. DOMAIN Table(s) = 1..Len(Table(s))
  BY <1>1, LenProperties
<1> QED BY <1>1, <1>2, <1>3, <1>4, ElementOfSeq DEF NextInstance, Elems

\* aocl_mmd_reprogram, whatever comes of it.
Programs(d) == PrReprogram(d) \/ PrFullChip(d) \/ PrReprogramFails(d)

\* It leaves the other boards alone and puts nothing on the regions but the service
\* asked for; those that are lost after it are those it has spoilt.
LEMMA Programming ==
  ASSUME TypeOK, HandsInv, NEW d \in Devices, Programs(d)
  PROVE  /\ config' \in [PRRs -> Services \cup {NoService}]
         /\ \A p \in PRRs : DeviceOf[p] # d /\ p # entryPRR[prJob[d]] => config'[p] = config[p]
         /\ \A p \in PRRs : config'[p] \in {config[p], ServiceOf[prJob[d]], NoService}
         /\ lost' = {p \in PRRs : IF p = entryPRR[prJob[d]] THEN config'[p] # ServiceOf[prJob[d]]
                                  ELSE p \in lost \/ config'[p] # config[p]}
         /\ lost' \subseteq PRRs
<1> DEFINE r == entryPRR[prJob[d]]
           s == ServiceOf[prJob[d]]
           Onto(c) == /\ c \in [PRRs -> Services \cup {NoService}]
                      /\ \A p \in PRRs : DeviceOf[p] # d /\ p # r => c[p] = config[p]
                      /\ \A p \in PRRs : c[p] \in {config[p], s, NoService}
<1>1. s \in Services /\ config \in [PRRs -> Services \cup {NoService}]
  BY PipelineAssumption DEF Programs, PrReprogram, PrFullChip, PrReprogramFails, HandsInv, TypeOK
<1>2. ASSUME NEW left \in {config[r], NoService, s}
      PROVE  Onto([config EXCEPT ![r] = left])
  <2>1. CASE r \in PRRs
    BY <1>1, <1>2, <2>1
  <2>2. CASE r \notin PRRs
    <3>1. [config EXCEPT ![r] = left] = config
      BY <1>1, <2>2
    <3> QED BY <1>1, <3>1
  <2> QED BY <2>1, <2>2
<1>3. ASSUME NEW c \in FullChip(d, r, s)
      PROVE  Onto(c)
  BY <1>1, <1>3 DEF FullChip
<1>4. Onto(config')
  <2>1. CASE PrReprogram(d)
    BY <2>1, <1>2 DEF PrReprogram
  <2>2. CASE PrFullChip(d)
    BY <2>2, <1>3 DEF PrFullChip
  <2>3. CASE PrReprogramFails(d)
    <3>1. \/ \E left \in {config[r], NoService, s} : config' = [config EXCEPT ![r] = left]
          \/ config' \in FullChip(d, r, s)
      BY <2>3 DEF PrReprogramFails
    <3> QED BY <3>1, <1>2, <1>3
  <2> QED BY <2>1, <2>2, <2>3 DEF Programs
<1>5. Lost(prJob[d])
  BY DEF Programs, PrReprogram, PrFullChip, PrReprogramFails
<1> QED BY <1>4, <1>5 DEF Lost

LEMMA NextTypeOK ==
  ASSUME TypeOK, HandsInv, AppInv, [Next]_vars
  PROVE  TypeOK'
<1> USE DEF TypeOK, AppPhases
<1>1. ASSUME NEW j \in Jobs, SubmitDevice(j) \/ AppProgress(j)
      PROVE  TypeOK'
  <2>1. CASE SubmitDevice(j)
    BY <2>1, AppendProperties DEF SubmitDevice, PushTask, appVars, queueVars, tqVars, prVars, prrVars, regVars, boardVars
  <2>2. CASE ReturnDevice(j)
    BY <2>2, AppendProperties DEF ReturnDevice, appVars, queueVars, tqVars, prVars, prrVars, regVars, boardVars
  <2>3. CASE SubmitProgram(j)
    BY <2>3, AppendProperties DEF SubmitProgram, PushTask, appVars, queueVars, tqVars, prVars, prrVars, regVars, boardVars
  <2>4. CASE ReturnProgram(j)
    BY <2>4, AppendProperties DEF ReturnProgram, appVars, queueVars, tqVars, prVars, prrVars, regVars, boardVars
  <2>5. CASE RunKernel(j)
    BY <2>5, AppendProperties DEF RunKernel, appVars, queueVars, tqVars, prVars, prrVars, regVars, boardVars
  <2>6. CASE ReleaseDevice(j)
    BY <2>6, AppendProperties DEF ReleaseDevice, appVars, queueVars, tqVars, prVars, prrVars, regVars, boardVars
  <2>7. CASE AppAborts(j)
    BY <2>7, AppendProperties DEF AppAborts, appVars, queueVars, tqVars, prVars, prrVars, regVars, boardVars
  <2> QED BY <1>1, <2>1, <2>2, <2>3, <2>4, <2>5, <2>6, <2>7 DEF AppProgress
<1>2. CASE TaskDaemon
  <2>1. CASE TaskPop
    BY <2>1, HeadTailProperties DEF TaskPop, HandsInv, appVars, queueVars, tqVars, prVars, prrVars, regVars, boardVars
  <2>2. CASE TaskRoute
    <3> DEFINE s == ServiceOf[tqJob]
    <3>1. tqJob \in Jobs /\ s \in Services
      BY <2>2, PipelineAssumption DEF TaskRoute, HandsInv
    <3>2. /\ NextInstance(s) \in PRRs /\ Len(Table(s)) \in Nat \ {0}
          /\ Flag(s) \in Services \cup {NoService}
      BY <3>1, NextInstanceInPRRs
    <3>3. prrQ' \in [PRRs -> Seq(Jobs)]
      BY <2>2, <3>1, <3>2, AppendProperties DEF TaskRoute
    <3>4. (rr[Flag(s)] + 1) % Len(Table(s)) \in 0..(Len(Table(s)) - 1)
      BY <3>1, <3>2
    <3>5. rr' \in [Services \cup {NoService} -> Nat]
      BY <2>2, <3>1, <3>2, <3>4 DEF TaskRoute
    <3>6. ASSUME NEW t \in Services
          PROVE  rr'[Flag(t)] < Len(Table(t))
      <4>1. Flag(t) \in Services \cup {NoService}
        BY DEF Flag
      <4>2. CASE Flag(t) = Flag(s)
        <5>1. Table(t) = Table(s)
          BY <4>2 DEF Flag, Table
        <5> QED BY <2>2, <3>2, <3>4, <4>2, <5>1 DEF TaskRoute
      <4>3. CASE Flag(t) # Flag(s)
        BY <2>2, <3>2, <4>1, <4>3 DEF TaskRoute
      <4> QED BY <4>2, <4>3
    <3> QED BY <2>2, <3>3, <3>5, <3>6 DEF TaskRoute, appVars, queueVars, tqVars, prVars, prrVars, regVars, boardVars
  <2>3. CASE TaskAnswer
    BY <2>3 DEF TaskAnswer, HandsInv, appVars, queueVars, tqVars, prVars, prrVars, regVars, boardVars
  <2>4. CASE TaskForward
    <3>1. tqJob \in Jobs
      BY <2>4 DEF TaskForward, HandsInv
    <3>2. \A q \in Seq(Jobs) : Append(q, tqJob) \in Seq(Jobs)
      BY <3>1, AppendProperties
    <3>3. prQ' \in [Devices -> Seq(Jobs)]
      BY <2>4, <3>2 DEF TaskForward
    <3> QED BY <2>4, <3>3 DEF TaskForward, appVars, queueVars, tqVars, prVars, prrVars, regVars, boardVars
  <2>5. CASE TaskStamp
    BY <2>5 DEF TaskStamp, HandsInv, appVars, queueVars, tqVars, prVars, prrVars, regVars, boardVars
  <2> QED BY <1>2, <2>1, <2>2, <2>3, <2>4, <2>5 DEF TaskDaemon
<1>3. ASSUME NEW d \in Devices, PrDaemon(d)
      PROVE  TypeOK'
  <2>1. CASE PrPop(d)
    BY <2>1, HeadTailProperties DEF PrPop, HandsInv, appVars, queueVars, tqVars, prVars, prrVars, regVars, boardVars
  <2>2. CASE PrCheck(d)
    BY <2>2 DEF PrCheck, HandsInv, appVars, queueVars, tqVars, prVars, prrVars, regVars, boardVars
  <2>3. CASE Programs(d)
    <3>1. handleLive' \in [Devices -> BOOLEAN]
      <4>1. CASE Reopened(d)
        <5>1. PICK live \in HandleSurvives : handleLive' = [handleLive EXCEPT ![d] = live]
          BY <4>1 DEF Reopened
        <5>2. live \in BOOLEAN
          BY PipelineAssumption
        <5> QED BY <5>1, <5>2
      <4>2. CASE handleLive' = handleLive
        BY <4>2
      <4> QED BY <2>3, <4>1, <4>2 DEF Programs, PrReprogram, PrFullChip, PrReprogramFails
    <3>2. config' \in [PRRs -> Services \cup {NoService}] /\ lost' \subseteq PRRs
      BY <2>3, Programming
    <3>3. /\ UNCHANGED <<appVars, queueVars, tqVars, prJob, prrVars, regVars, crashed>>
          /\ prPc' = [prPc EXCEPT ![d] = "record"]
      BY <2>3 DEF Programs, PrReprogram, PrFullChip, PrReprogramFails
    <3> QED BY <3>1, <3>2, <3>3 DEF appVars, queueVars, tqVars, prVars, prrVars, regVars, boardVars
  <2>5. CASE PrAborts(d)
    BY <2>5 DEF PrAborts, HandsInv, appVars, queueVars, tqVars, prVars, prrVars, regVars, boardVars
  <2>6. CASE PrRecord(d)
    BY <2>6, PipelineAssumption DEF PrRecord, HandsInv, appVars, queueVars, tqVars, prVars, prrVars, regVars, boardVars
  <2>7. CASE PrAnswer(d)
    BY <2>7 DEF PrAnswer, HandsInv, appVars, queueVars, tqVars, prVars, prrVars, regVars, boardVars
  <2> QED BY <1>3, <2>1, <2>2, <2>3, <2>5, <2>6, <2>7 DEF PrDaemon, Programs
<1>4. ASSUME NEW p \in PRRs, PrrDaemon(p)
      PROVE  TypeOK'
  <2>1. CASE PrrPop(p)
    BY <2>1, HeadTailProperties DEF PrrPop, HandsInv, appVars, queueVars, tqVars, prVars, prrVars, regVars, boardVars
  <2>2. CASE PrrReady(p)
    BY <2>2 DEF PrrReady, HandsInv, appVars, queueVars, tqVars, prVars, prrVars, regVars, boardVars
  <2>3. CASE PrrClaim(p)
    BY <2>3 DEF PrrClaim, HandsInv, appVars, queueVars, tqVars, prVars, prrVars, regVars, boardVars
  <2>4. CASE PrrGrant(p)
    BY <2>4 DEF PrrGrant, HandsInv, appVars, queueVars, tqVars, prVars, prrVars, regVars, boardVars
  <2> QED BY <1>4, <2>1, <2>2, <2>3, <2>4 DEF PrrDaemon
<1>5. CASE UNCHANGED vars
  BY <1>5 DEF vars, appVars, queueVars, tqVars, prVars, prrVars, regVars, boardVars
<1> QED BY <1>1, <1>2, <1>3, <1>4, <1>5 DEF Next, Aborted

-----------------------------------------------------------------------------
(* Where entries are *)

TaskQSpot == <<"taskQ", NoPRR>>
TaskSpot  == <<"task", NoPRR>>

LEMMA SpotCases ==
  /\ TaskQSpot \in Spots /\ TaskSpot \in Spots
  /\ \A d \in Devices : <<"prQ", d>> \in Spots /\ <<"pr", d>> \in Spots
  /\ \A p \in PRRs : <<"prrQ", p>> \in Spots /\ <<"prr", p>> \in Spots
  /\ \A x \in Spots :
       \/ x = TaskQSpot \/ x = TaskSpot
       \/ \E d \in Devices : x = <<"prQ", d>> \/ x = <<"pr", d>>
       \/ \E p \in PRRs : x = <<"prrQ", p>> \/ x = <<"prr", p>>
  BY DEF Spots, TaskQSpot, TaskSpot

LEMMA AtSpots ==
  /\ At(TaskQSpot) = Elems(taskQ)
  /\ At(TaskSpot) = IF tqPc \in {"route", "check"} THEN {tqJob} ELSE {}
  /\ \A d \in Devices :
       /\ At(<<"prQ", d>>) = Elems(prQ[d])
       /\ At(<<"pr", d>>) = IF prPc[d] # "idle" THEN {prJob[d]} ELSE {}
  /\ \A p \in PRRs :
       /\ At(<<"prrQ", p>>) = Elems(prrQ[p])
       /\ At(<<"prr", p>>) = IF prrPc[p] # "idle" THEN {prrJob[p]} ELSE {}
  BY DEF At, TaskQSpot, TaskSpot

LEMMA AtSpotsNext ==
  /\ At(TaskQSpot)' = Elems(taskQ')
  /\ At(TaskSpot)' = IF tqPc' \in {"route", "check"} THEN {tqJob'} ELSE {}
  /\ \A d \in Devices :
       /\ At(<<"prQ", d>>)' = Elems(prQ'[d])
       /\ At(<<"pr", d>>)' = IF prPc'[d] # "idle" THEN {prJob'[d]} ELSE {}
  /\ \A p \in PRRs :
       /\ At(<<"prrQ", p>>)' = Elems(prrQ'[p])
       /\ At(<<"prr", p>>)' = IF prrPc'[p] # "idle" THEN {prrJob'[p]} ELSE {}
  BY DEF At, TaskQSpot, TaskSpot

\* An entry that goes from one spot to another is again in one place.
LEMMA EntryMoves ==
  ASSUME EntryInOnePlace, QueuesHaveNoDuplicates',
         NEW j \in Jobs, NEW x \in Spots, NEW y \in Spots, x # y, j \in At(x),
         At(x)' = At(x) \ {j}, At(y)' = At(y) \cup {j},
         \A z \in Spots \ {x, y} : At(z)' = At(z),
         \A i \in Jobs : Waiting(i)' <=> Waiting(i)
  PROVE  EntryInOnePlace'
<1>1. ASSUME NEW i \in Jobs, Waiting(i)'
      PROVE  \E z \in Spots : i \in At(z)'
  BY <1>1 DEF EntryInOnePlace
<1>2. ASSUME NEW i \in Jobs, NEW z \in Spots, i \in At(z)'
      PROVE  /\ Waiting(i)'
             /\ i = j => z = y
             /\ i # j => i \in At(z)
  BY <1>2 DEF EntryInOnePlace
<1> QED BY <1>1, <1>2 DEF EntryInOnePlace

\* A thread that did not wait queues its entry.
LEMMA EntryEnters ==
  ASSUME EntryInOnePlace, QueuesHaveNoDuplicates',
         NEW j \in Jobs, NEW x \in Spots, ~Waiting(j), Waiting(j)',
         At(x)' = At(x) \cup {j},
         \A z \in Spots \ {x} : At(z)' = At(z),
         \A i \in Jobs \ {j} : Waiting(i)' <=> Waiting(i)
  PROVE  EntryInOnePlace'
<1>1. \A z \in Spots : j \notin At(z)
  BY DEF EntryInOnePlace
<1>2. ASSUME NEW i \in Jobs, Waiting(i)'
      PROVE  \E z \in Spots : i \in At(z)'
  BY <1>2 DEF EntryInOnePlace
<1>3. ASSUME NEW i \in Jobs, NEW z \in Spots, i \in At(z)'
      PROVE  /\ Waiting(i)'
             /\ i = j => z = x
             /\ i # j => i \in At(z)
  BY <1>1, <1>3 DEF EntryInOnePlace
<1> QED BY <1>2, <1>3 DEF EntryInOnePlace

\* An entry is answered and dropped.
LEMMA EntryLeaves ==
  ASSUME EntryInOnePlace, QueuesHaveNoDuplicates',
         NEW j \in Jobs, NEW x \in Spots, j \in At(x), ~Waiting(j)',
         At(x)' = At(x) \ {j},
         \A z \in Spots \ {x} : At(z)' = At(z),
         \A i \in Jobs \ {j} : Waiting(i)' <=> Waiting(i)
  PROVE  EntryInOnePlace'
<1>1. ASSUME NEW i \in Jobs, Waiting(i)'
      PROVE  \E z \in Spots : i \in At(z)'
  BY <1>1 DEF EntryInOnePlace
<1>2. ASSUME NEW i \in Jobs, NEW z \in Spots, i \in At(z)'
      PROVE  Waiting(i)' /\ i # j /\ i \in At(z)
  BY <1>2 DEF EntryInOnePlace
<1> QED BY <1>1, <1>2 DEF EntryInOnePlace

\* A step that moves nothing.
LEMMA EntriesStay ==
  ASSUME EntryInOnePlace, QueuesHaveNoDuplicates',
         \A z \in Spots : At(z)' = At(z),
         \A i \in Jobs : Waiting(i)' <=> Waiting(i)
  PROVE  EntryInOnePlace'
  BY DEF EntryInOnePlace

-----------------------------------------------------------------------------
(* The daemons' hands *)

LEMMA NextHands ==
  ASSUME TypeOK, HandsInv, [Next]_vars
  PROVE  HandsInv'
<1> USE DEF HandsInv, appVars, queueVars, tqVars, prVars, prrVars, regVars, boardVars
<1>1. ASSUME NEW j \in Jobs, SubmitDevice(j) \/ AppProgress(j)
      PROVE  HandsInv'
  BY <1>1 DEF SubmitDevice, AppProgress, ReturnDevice, SubmitProgram, ReturnProgram,
              RunKernel, ReleaseDevice, AppAborts
<1>2. CASE TaskDaemon
  <2>1. CASE TaskPop
    BY <2>1, HeadTailProperties DEF TaskPop, TypeOK
  <2> QED BY <1>2, <2>1 DEF TaskDaemon, TaskRoute, TaskAnswer, TaskForward, TaskStamp
<1>3. ASSUME NEW d \in Devices, PrDaemon(d)
      PROVE  HandsInv'
  <2>1. CASE PrPop(d)
    BY <2>1, HeadTailProperties DEF PrPop, TypeOK
  <2> QED BY <1>3, <2>1 DEF PrDaemon, PrCheck, Programs, PrReprogram, PrFullChip, PrReprogramFails, PrAborts,
                            PrRecord, PrAnswer, TypeOK
<1>4. ASSUME NEW p \in PRRs, PrrDaemon(p)
      PROVE  HandsInv'
  <2>1. CASE PrrPop(p)
    BY <2>1, HeadTailProperties DEF PrrPop, TypeOK
  <2>2. CASE PrrGrant(p)
    BY <2>2 DEF PrrGrant, TypeOK
  <2>3. CASE PrrReady(p) \/ PrrClaim(p)
    BY <2>3 DEF PrrReady, PrrClaim, TypeOK
  <2> QED BY <1>4, <2>1, <2>2, <2>3 DEF PrrDaemon
<1>5. CASE UNCHANGED vars
  BY <1>5 DEF vars
<1> QED BY <1>1, <1>2, <1>3, <1>4, <1>5 DEF Next, Aborted

-----------------------------------------------------------------------------
(* What each kind of step does to the spots *)

\* A step that leaves the queues and the daemons alone moves no entry.
LEMMA SpotsStay ==
  ASSUME QueuesHaveNoDuplicates, UNCHANGED <<queueVars, tqPc, tqJob, prVars, prrVars>>
  PROVE  QueuesHaveNoDuplicates' /\ \A z \in Spots : At(z)' = At(z)
<1> USE DEF queueVars, prVars, prrVars
<1>1. QueuesHaveNoDuplicates'
  BY DEF QueuesHaveNoDuplicates
<1>2. ASSUME NEW z \in Spots
      PROVE  At(z)' = At(z)
  BY DEF At, Spots, TaskQSpot, TaskSpot
<1> QED BY <1>1, <1>2

\* An application thread queues its entry.
LEMMA PushStep ==
  ASSUME TypeOK, EntryInOnePlace, NEW j \in Jobs, ~Waiting(j),
         taskQ' = Append(taskQ, j),
         UNCHANGED <<prQ, prrQ, tqPc, tqJob, prVars, prrVars>>
  PROVE  /\ QueuesHaveNoDuplicates'
         /\ At(TaskQSpot)' = At(TaskQSpot) \cup {j}
         /\ \A z \in Spots \ {TaskQSpot} : At(z)' = At(z)
<1> USE DEF prVars, prrVars
<1>1. j \notin Elems(taskQ)
  BY SpotCases, AtSpots DEF EntryInOnePlace
<1>2. Elems(taskQ') = Elems(taskQ) \cup {j} /\ NoDuplicates(taskQ')
  BY <1>1, PushElems DEF TypeOK, EntryInOnePlace, QueuesHaveNoDuplicates
<1>3. QueuesHaveNoDuplicates'
  BY <1>2 DEF EntryInOnePlace, QueuesHaveNoDuplicates
<1>4. ASSUME NEW z \in Spots \ {TaskQSpot}
      PROVE  At(z)' = At(z)
  BY DEF At, Spots, TaskQSpot, TaskSpot
<1> QED BY <1>2, <1>3, <1>4, AtSpots, AtSpotsNext

LEMMA TaskPopStep ==
  ASSUME TypeOK, EntryInOnePlace, TaskPop
  PROVE  /\ QueuesHaveNoDuplicates'
         /\ tqJob' \in Jobs /\ tqJob' = Head(taskQ) /\ tqJob' \in At(TaskQSpot)
         /\ At(TaskQSpot)' = At(TaskQSpot) \ {tqJob'}
         /\ At(TaskSpot)' = At(TaskSpot) \cup {tqJob'}
         /\ \A z \in Spots \ {TaskQSpot, TaskSpot} : At(z)' = At(z)
<1> USE DEF TaskPop, prVars, prrVars
<1>1. /\ Head(taskQ) \in Elems(taskQ) /\ Head(taskQ) \in Jobs
      /\ Elems(taskQ') = Elems(taskQ) \ {Head(taskQ)} /\ NoDuplicates(taskQ')
  BY PopElems DEF TypeOK, EntryInOnePlace, QueuesHaveNoDuplicates
<1>2. QueuesHaveNoDuplicates'
  BY <1>1 DEF EntryInOnePlace, QueuesHaveNoDuplicates
<1>3. At(TaskSpot) = {} /\ At(TaskSpot)' = {Head(taskQ)}
  BY AtSpots, AtSpotsNext
<1>4. ASSUME NEW z \in Spots \ {TaskQSpot, TaskSpot}
      PROVE  At(z)' = At(z)
  BY DEF At, Spots, TaskQSpot, TaskSpot
<1> QED BY <1>1, <1>2, <1>3, <1>4, AtSpots, AtSpotsNext

LEMMA TaskRouteStep ==
  ASSUME TypeOK, HandsInv, EntryInOnePlace, TaskRoute
  PROVE  \E p \in PRRs :
           /\ p = NextInstance(ServiceOf[tqJob]) /\ tqJob \in Jobs
           /\ QueuesHaveNoDuplicates'
           /\ tqJob \in At(TaskSpot)
           /\ At(TaskSpot)' = At(TaskSpot) \ {tqJob}
           /\ At(<<"prrQ", p>>)' = At(<<"prrQ", p>>) \cup {tqJob}
           /\ \A z \in Spots \ {TaskSpot, <<"prrQ", p>>} : At(z)' = At(z)
<1> USE DEF TaskRoute, prVars, prrVars
<1> DEFINE p == NextInstance(ServiceOf[tqJob])
<1>1. tqJob \in Jobs /\ p \in PRRs
  BY PipelineAssumption, NextInstanceInPRRs DEF HandsInv
<1> HIDE DEF p
<1>2. prrQ' = [prrQ EXCEPT ![p] = Append(@, tqJob)]
  BY DEF p
<1>3. tqJob \in At(TaskSpot) /\ At(TaskSpot) = {tqJob} /\ At(TaskSpot)' = {}
  BY AtSpots, AtSpotsNext
<1>4. tqJob \notin Elems(prrQ[p])
  <2>1. <<"prrQ", p>> \in Spots /\ <<"prrQ", p>> # TaskSpot /\ TaskSpot \in Spots
    BY <1>1, SpotCases DEF TaskSpot
  <2>2. At(<<"prrQ", p>>) = Elems(prrQ[p])
    BY <1>1, AtSpots
  <2>3. tqJob \notin At(<<"prrQ", p>>)
    BY <1>1, <1>3, <2>1 DEF EntryInOnePlace
  <2> QED BY <2>2, <2>3
<1>5. Elems(prrQ'[p]) = Elems(prrQ[p]) \cup {tqJob} /\ NoDuplicates(prrQ'[p])
  BY <1>1, <1>2, <1>4, PushElems DEF TypeOK, EntryInOnePlace, QueuesHaveNoDuplicates
<1>6. \A q \in PRRs \ {p} : prrQ'[q] = prrQ[q]
  BY <1>1, <1>2 DEF TypeOK
<1>7. QueuesHaveNoDuplicates'
  BY <1>5, <1>6 DEF EntryInOnePlace, QueuesHaveNoDuplicates
<1>8. ASSUME NEW z \in Spots \ {TaskSpot, <<"prrQ", p>>}
      PROVE  At(z)' = At(z)
  BY <1>6 DEF At, Spots, TaskQSpot, TaskSpot
<1>9. p = NextInstance(ServiceOf[tqJob])
  BY DEF p
<1> QED BY <1>1, <1>3, <1>5, <1>7, <1>8, <1>9, AtSpots, AtSpotsNext

LEMMA TaskForwardStep ==
  ASSUME TypeOK, HandsInv, AppInv, KindInv, EntryInOnePlace, TaskForward
  PROVE  \E d \in Devices :
           /\ d = DeviceOf[entryPRR[tqJob]]
           /\ QueuesHaveNoDuplicates'
           /\ tqJob \in Jobs /\ tqJob \in At(TaskSpot)
           /\ At(TaskSpot)' = At(TaskSpot) \ {tqJob}
           /\ At(<<"prQ", d>>)' = At(<<"prQ", d>>) \cup {tqJob}
           /\ \A z \in Spots \ {TaskSpot, <<"prQ", d>>} : At(z)' = At(z)
<1> USE DEF TaskForward, prVars, prrVars
<1>1. tqJob \in Jobs
  BY DEF HandsInv
<1>2. tqJob \in At(TaskSpot) /\ At(TaskSpot) = {tqJob} /\ At(TaskSpot)' = {}
  BY AtSpots, AtSpotsNext
<1>3. Waiting(tqJob)
  BY <1>1, <1>2, SpotCases DEF EntryInOnePlace
<1>4. PICK d \in Devices : d = DeviceOf[entryPRR[tqJob]]
  BY <1>1, <1>3, PipelineAssumption DEF AppInv, KindInv, Waiting
<1>5. prQ' = [prQ EXCEPT ![d] = Append(@, tqJob)]
  BY <1>4
<1>6. tqJob \notin Elems(prQ[d])
  <2>1. <<"prQ", d>> \in Spots /\ <<"prQ", d>> # TaskSpot /\ TaskSpot \in Spots
    BY <1>4, SpotCases DEF TaskSpot
  <2>2. At(<<"prQ", d>>) = Elems(prQ[d])
    BY <1>4, AtSpots
  <2>3. tqJob \notin At(<<"prQ", d>>)
    BY <1>1, <1>2, <2>1 DEF EntryInOnePlace
  <2> QED BY <2>2, <2>3
<1>7. Elems(prQ'[d]) = Elems(prQ[d]) \cup {tqJob} /\ NoDuplicates(prQ'[d])
  BY <1>1, <1>4, <1>5, <1>6, PushElems DEF TypeOK, EntryInOnePlace, QueuesHaveNoDuplicates
<1>8. \A e \in Devices \ {d} : prQ'[e] = prQ[e]
  BY <1>4, <1>5 DEF TypeOK
<1>9. QueuesHaveNoDuplicates'
  BY <1>7, <1>8 DEF EntryInOnePlace, QueuesHaveNoDuplicates
<1>10. ASSUME NEW z \in Spots \ {TaskSpot, <<"prQ", d>>}
       PROVE  At(z)' = At(z)
  BY <1>8 DEF At, Spots, TaskQSpot, TaskSpot
<1>11. At(<<"prQ", d>>)' = At(<<"prQ", d>>) \cup {tqJob}
  <2>1. At(<<"prQ", d>>) = Elems(prQ[d]) /\ At(<<"prQ", d>>)' = Elems(prQ'[d])
    BY <1>4, AtSpots, AtSpotsNext
  <2> QED BY <2>1, <1>7
<1> QED BY <1>1, <1>2, <1>4, <1>9, <1>10, <1>11

LEMMA TaskAnswerStep ==
  ASSUME TypeOK, HandsInv, EntryInOnePlace, TaskAnswer
  PROVE  /\ QueuesHaveNoDuplicates'
         /\ tqJob \in Jobs /\ tqJob \in At(TaskSpot)
         /\ At(TaskSpot)' = At(TaskSpot) \ {tqJob}
         /\ \A z \in Spots \ {TaskSpot} : At(z)' = At(z)
<1> USE DEF TaskAnswer, queueVars, prVars, prrVars
<1>1. tqJob \in Jobs /\ QueuesHaveNoDuplicates'
  BY DEF HandsInv, EntryInOnePlace, QueuesHaveNoDuplicates
<1>2. At(TaskSpot) = {tqJob} /\ At(TaskSpot)' = {}
  BY AtSpots, AtSpotsNext
<1>3. ASSUME NEW z \in Spots \ {TaskSpot}
      PROVE  At(z)' = At(z)
  BY DEF At, Spots, TaskQSpot, TaskSpot
<1> QED BY <1>1, <1>2, <1>3

LEMMA TaskStampStep ==
  ASSUME EntryInOnePlace, TaskStamp
  PROVE  QueuesHaveNoDuplicates' /\ \A z \in Spots : At(z)' = At(z)
<1> USE DEF TaskStamp, queueVars, prVars, prrVars
<1>1. QueuesHaveNoDuplicates'
  BY DEF EntryInOnePlace, QueuesHaveNoDuplicates
<1>2. ASSUME NEW z \in Spots
      PROVE  At(z)' = At(z)
  BY DEF At, Spots, TaskQSpot, TaskSpot
<1> QED BY <1>1, <1>2

LEMMA PrPopStep ==
  ASSUME TypeOK, EntryInOnePlace, NEW d \in Devices, PrPop(d)
  PROVE  /\ QueuesHaveNoDuplicates'
         /\ Head(prQ[d]) \in Jobs /\ Head(prQ[d]) \in At(<<"prQ", d>>)
         /\ At(<<"prQ", d>>)' = At(<<"prQ", d>>) \ {Head(prQ[d])}
         /\ At(<<"pr", d>>)' = At(<<"pr", d>>) \cup {Head(prQ[d])}
         /\ \A z \in Spots \ {<<"prQ", d>>, <<"pr", d>>} : At(z)' = At(z)
<1> USE DEF PrPop, tqVars, prrVars
<1>1. prQ'[d] = Tail(prQ[d]) /\ \A e \in Devices \ {d} : prQ'[e] = prQ[e]
  BY DEF TypeOK
<1>2. /\ Head(prQ[d]) \in Elems(prQ[d]) /\ Head(prQ[d]) \in Jobs
      /\ Elems(prQ'[d]) = Elems(prQ[d]) \ {Head(prQ[d])} /\ NoDuplicates(prQ'[d])
  BY <1>1, PopElems DEF TypeOK, EntryInOnePlace, QueuesHaveNoDuplicates
<1>3. QueuesHaveNoDuplicates'
  <2>1. \A e \in Devices : NoDuplicates(prQ'[e])
    BY <1>1, <1>2 DEF EntryInOnePlace, QueuesHaveNoDuplicates
  <2> QED BY <2>1 DEF EntryInOnePlace, QueuesHaveNoDuplicates
<1>4. At(<<"pr", d>>) = {} /\ At(<<"pr", d>>)' = {Head(prQ[d])}
  <2>1. prPc[d] = "idle" /\ prPc'[d] # "idle" /\ prJob'[d] = Head(prQ[d])
    BY DEF TypeOK
  <2> QED BY <2>1, AtSpots, AtSpotsNext
<1>5. At(<<"prQ", d>>) = Elems(prQ[d]) /\ At(<<"prQ", d>>)' = Elems(prQ'[d])
  BY AtSpots, AtSpotsNext
<1>6. ASSUME NEW z \in Spots \ {<<"prQ", d>>, <<"pr", d>>}
      PROVE  At(z)' = At(z)
  BY <1>1 DEF TypeOK, At, Spots
<1> QED BY <1>2, <1>3, <1>4, <1>5, <1>6

LEMMA PrAnswerStep ==
  ASSUME TypeOK, HandsInv, EntryInOnePlace, NEW d \in Devices, PrAnswer(d)
  PROVE  /\ QueuesHaveNoDuplicates'
         /\ prJob[d] \in Jobs /\ prJob[d] \in At(<<"pr", d>>)
         /\ At(<<"pr", d>>)' = At(<<"pr", d>>) \ {prJob[d]}
         /\ \A z \in Spots \ {<<"pr", d>>} : At(z)' = At(z)
<1> USE DEF PrAnswer, queueVars, tqVars, prrVars
<1>1. prJob[d] \in Jobs /\ QueuesHaveNoDuplicates'
  BY DEF HandsInv, EntryInOnePlace, QueuesHaveNoDuplicates
<1>2. At(<<"pr", d>>) = {prJob[d]} /\ At(<<"pr", d>>)' = {}
  BY AtSpots, AtSpotsNext DEF TypeOK
<1>3. ASSUME NEW z \in Spots \ {<<"pr", d>>}
      PROVE  At(z)' = At(z)
  BY DEF TypeOK, At, Spots
<1> QED BY <1>1, <1>2, <1>3

\* The steps between taking an entry and answering it keep it in the hand.
LEMMA PrWorkStep ==
  ASSUME TypeOK, EntryInOnePlace, NEW d \in Devices,
         PrCheck(d) \/ Programs(d) \/ PrAborts(d) \/ PrRecord(d)
  PROVE  QueuesHaveNoDuplicates' /\ \A z \in Spots : At(z)' = At(z)
<1> USE DEF PrCheck, Programs, PrReprogram, PrFullChip, PrReprogramFails,
       PrAborts, PrRecord, queueVars, tqVars,
            prVars, prrVars
<1>1. QueuesHaveNoDuplicates'
  BY DEF EntryInOnePlace, QueuesHaveNoDuplicates
<1>2. prJob' = prJob /\ \A e \in Devices : prPc'[e] # "idle" <=> prPc[e] # "idle"
  BY DEF TypeOK
<1>3. ASSUME NEW z \in Spots
      PROVE  At(z)' = At(z)
  BY <1>2 DEF At, Spots
<1> QED BY <1>1, <1>3

LEMMA PrrPopStep ==
  ASSUME TypeOK, EntryInOnePlace, NEW p \in PRRs, PrrPop(p)
  PROVE  /\ QueuesHaveNoDuplicates'
         /\ Head(prrQ[p]) \in Jobs /\ Head(prrQ[p]) \in At(<<"prrQ", p>>)
         /\ At(<<"prrQ", p>>)' = At(<<"prrQ", p>>) \ {Head(prrQ[p])}
         /\ At(<<"prr", p>>)' = At(<<"prr", p>>) \cup {Head(prrQ[p])}
         /\ \A z \in Spots \ {<<"prrQ", p>>, <<"prr", p>>} : At(z)' = At(z)
<1> USE DEF PrrPop, tqVars, prVars
<1>1. prrQ'[p] = Tail(prrQ[p]) /\ \A q \in PRRs \ {p} : prrQ'[q] = prrQ[q]
  BY DEF TypeOK
<1>2. /\ Head(prrQ[p]) \in Elems(prrQ[p]) /\ Head(prrQ[p]) \in Jobs
      /\ Elems(prrQ'[p]) = Elems(prrQ[p]) \ {Head(prrQ[p])} /\ NoDuplicates(prrQ'[p])
  BY <1>1, PopElems DEF TypeOK, EntryInOnePlace, QueuesHaveNoDuplicates
<1>3. QueuesHaveNoDuplicates'
  <2>1. \A q \in PRRs : NoDuplicates(prrQ'[q])
    BY <1>1, <1>2 DEF EntryInOnePlace, QueuesHaveNoDuplicates
  <2> QED BY <2>1 DEF EntryInOnePlace, QueuesHaveNoDuplicates
<1>4. At(<<"prr", p>>) = {} /\ At(<<"prr", p>>)' = {Head(prrQ[p])}
  <2>1. prrPc[p] = "idle" /\ prrPc'[p] # "idle" /\ prrJob'[p] = Head(prrQ[p])
    BY DEF TypeOK
  <2> QED BY <2>1, AtSpots, AtSpotsNext
<1>5. At(<<"prrQ", p>>) = Elems(prrQ[p]) /\ At(<<"prrQ", p>>)' = Elems(prrQ'[p])
  BY AtSpots, AtSpotsNext
<1>6. ASSUME NEW z \in Spots \ {<<"prrQ", p>>, <<"prr", p>>}
      PROVE  At(z)' = At(z)
  BY <1>1 DEF TypeOK, At, Spots
<1> QED BY <1>2, <1>3, <1>4, <1>5, <1>6

LEMMA PrrGrantStep ==
  ASSUME TypeOK, HandsInv, EntryInOnePlace, NEW p \in PRRs, PrrGrant(p)
  PROVE  /\ QueuesHaveNoDuplicates'
         /\ prrJob[p] \in Jobs /\ prrJob[p] \in At(<<"prr", p>>)
         /\ At(<<"prr", p>>)' = At(<<"prr", p>>) \ {prrJob[p]}
         /\ \A z \in Spots \ {<<"prr", p>>} : At(z)' = At(z)
<1> USE DEF PrrGrant, queueVars, tqVars, prVars
<1>1. prrJob[p] \in Jobs /\ QueuesHaveNoDuplicates'
  BY DEF HandsInv, EntryInOnePlace, QueuesHaveNoDuplicates
<1>2. At(<<"prr", p>>) = {prrJob[p]} /\ At(<<"prr", p>>)' = {}
  BY AtSpots, AtSpotsNext DEF TypeOK
<1>3. ASSUME NEW z \in Spots \ {<<"prr", p>>}
      PROVE  At(z)' = At(z)
  BY DEF TypeOK, At, Spots
<1> QED BY <1>1, <1>2, <1>3

LEMMA PrrWorkStep ==
  ASSUME TypeOK, EntryInOnePlace, NEW p \in PRRs, PrrReady(p) \/ PrrClaim(p)
  PROVE  QueuesHaveNoDuplicates' /\ \A z \in Spots : At(z)' = At(z)
<1> USE DEF PrrReady, PrrClaim, queueVars, tqVars, prVars, prrVars
<1>1. QueuesHaveNoDuplicates'
  BY DEF EntryInOnePlace, QueuesHaveNoDuplicates
<1>2. prrJob' = prrJob /\ \A q \in PRRs : prrPc'[q] # "idle" <=> prrPc[q] # "idle"
  BY DEF TypeOK
<1>3. ASSUME NEW z \in Spots
      PROVE  At(z)' = At(z)
  BY <1>2 DEF At, Spots
<1> QED BY <1>1, <1>3

-----------------------------------------------------------------------------
(* Every entry in one place *)

LEMMA NextEntries ==
  ASSUME TypeOK, HandsInv, AppInv, KindInv, EntryInOnePlace, [Next]_vars
  PROVE  EntryInOnePlace'
<1> USE SpotCases DEF Waiting
<1>1. ASSUME NEW j \in Jobs, SubmitDevice(j) \/ AppProgress(j)
      PROVE  EntryInOnePlace'
  <2>1. CASE SubmitDevice(j) \/ SubmitProgram(j)
    <3>1. /\ ~Waiting(j) /\ Waiting(j)'
          /\ \A i \in Jobs \ {j} : Waiting(i)' <=> Waiting(i)
      BY <2>1 DEF SubmitDevice, SubmitProgram, PushTask, TypeOK
    <3>2. /\ QueuesHaveNoDuplicates'
          /\ At(TaskQSpot)' = At(TaskQSpot) \cup {j}
          /\ \A z \in Spots \ {TaskQSpot} : At(z)' = At(z)
      BY <2>1, <3>1, PushStep DEF SubmitDevice, SubmitProgram, PushTask, tqVars
    <3> QED BY <3>1, <3>2, EntryEnters
  <2>2. CASE AppProgress(j) /\ ~SubmitProgram(j)
    <3>1. \A i \in Jobs : Waiting(i)' <=> Waiting(i)
      BY <2>2 DEF AppProgress, ReturnDevice, ReturnProgram, RunKernel, ReleaseDevice,
                  AppAborts, TypeOK, appVars
    <3>2. QueuesHaveNoDuplicates' /\ \A z \in Spots : At(z)' = At(z)
      BY <2>2, SpotsStay DEF AppProgress, ReturnDevice, ReturnProgram, RunKernel, ReleaseDevice, AppAborts, tqVars, EntryInOnePlace
    <3> QED BY <3>1, <3>2, EntriesStay
  <2> QED BY <1>1, <2>1, <2>2
<1>2. CASE TaskDaemon
  <2>1. CASE TaskPop
    <3>1. \A i \in Jobs : Waiting(i)' <=> Waiting(i)
      BY <2>1 DEF TaskPop, appVars
    <3>2. TaskQSpot # TaskSpot
      BY DEF TaskQSpot, TaskSpot
    <3>3. PICK j \in Jobs : j = Head(taskQ)
      BY <2>1, TaskPopStep
    <3>4. /\ QueuesHaveNoDuplicates' /\ j \in At(TaskQSpot)
          /\ At(TaskQSpot)' = At(TaskQSpot) \ {j}
          /\ At(TaskSpot)' = At(TaskSpot) \cup {j}
          /\ \A z \in Spots \ {TaskQSpot, TaskSpot} : At(z)' = At(z)
      BY <2>1, <3>3, TaskPopStep
    <3> QED BY <3>1, <3>2, <3>4, EntryMoves
  <2>2. CASE TaskRoute
    <3>1. \A i \in Jobs : Waiting(i)' <=> Waiting(i)
      BY <2>2 DEF TaskRoute, appVars
    <3>2. PICK p \in PRRs :
            /\ QueuesHaveNoDuplicates' /\ tqJob \in At(TaskSpot)
            /\ At(TaskSpot)' = At(TaskSpot) \ {tqJob}
            /\ At(<<"prrQ", p>>)' = At(<<"prrQ", p>>) \cup {tqJob}
            /\ \A z \in Spots \ {TaskSpot, <<"prrQ", p>>} : At(z)' = At(z)
      BY <2>2, TaskRouteStep
    <3>3. tqJob \in Jobs /\ TaskSpot # <<"prrQ", p>> /\ <<"prrQ", p>> \in Spots
      BY <2>2 DEF TaskRoute, HandsInv, TaskSpot
    <3> QED BY <3>1, <3>2, <3>3, EntryMoves
  <2>3. CASE TaskAnswer
    <3>1. PICK j \in Jobs :
            /\ j = tqJob
            /\ QueuesHaveNoDuplicates' /\ j \in At(TaskSpot)
            /\ At(TaskSpot)' = At(TaskSpot) \ {j}
            /\ \A z \in Spots \ {TaskSpot} : At(z)' = At(z)
      BY <2>3, TaskAnswerStep
    <3>2. ~Waiting(j)' /\ \A i \in Jobs \ {j} : Waiting(i)' <=> Waiting(i)
      BY <2>3, <3>1 DEF TaskAnswer, TypeOK
    <3> QED BY <3>1, <3>2, EntryLeaves
  <2>4. CASE TaskForward
    <3>1. \A i \in Jobs : Waiting(i)' <=> Waiting(i)
      BY <2>4 DEF TaskForward, appVars
    <3>2. PICK d \in Devices :
            /\ QueuesHaveNoDuplicates' /\ tqJob \in Jobs /\ tqJob \in At(TaskSpot)
            /\ At(TaskSpot)' = At(TaskSpot) \ {tqJob}
            /\ At(<<"prQ", d>>)' = At(<<"prQ", d>>) \cup {tqJob}
            /\ \A z \in Spots \ {TaskSpot, <<"prQ", d>>} : At(z)' = At(z)
      BY <2>4, TaskForwardStep
    <3>3. TaskSpot # <<"prQ", d>> /\ <<"prQ", d>> \in Spots
      BY DEF TaskSpot
    <3> QED BY <3>1, <3>2, <3>3, EntryMoves
  <2>5. CASE TaskStamp
    <3>1. \A i \in Jobs : Waiting(i)' <=> Waiting(i)
      BY <2>5 DEF TaskStamp, appVars
    <3> QED BY <2>5, <3>1, TaskStampStep, EntriesStay
  <2> QED BY <1>2, <2>1, <2>2, <2>3, <2>4, <2>5 DEF TaskDaemon
<1>3. ASSUME NEW d \in Devices, PrDaemon(d)
      PROVE  EntryInOnePlace'
  <2> DEFINE q == <<"prQ", d>>
             h == <<"pr", d>>
  <2>0. q \in Spots /\ h \in Spots /\ q # h
    OBVIOUS
  <2>1. CASE PrPop(d)
    <3>1. \A i \in Jobs : Waiting(i)' <=> Waiting(i)
      BY <2>1 DEF PrPop, appVars
    <3>2. PICK j \in Jobs : j = Head(prQ[d])
      BY <2>1, PrPopStep
    <3>3. /\ QueuesHaveNoDuplicates' /\ j \in At(q)
          /\ At(q)' = At(q) \ {j} /\ At(h)' = At(h) \cup {j}
          /\ \A z \in Spots \ {q, h} : At(z)' = At(z)
      BY <2>1, <3>2, PrPopStep
    <3> QED BY <2>0, <3>1, <3>2, <3>3, EntryMoves
  <2>2. CASE PrAnswer(d)
    <3>1. PICK j \in Jobs :
            /\ j = prJob[d]
            /\ QueuesHaveNoDuplicates' /\ j \in At(h)
            /\ At(h)' = At(h) \ {j}
            /\ \A z \in Spots \ {h} : At(z)' = At(z)
      BY <2>2, PrAnswerStep
    <3>2. ~Waiting(j)' /\ \A i \in Jobs \ {j} : Waiting(i)' <=> Waiting(i)
      BY <2>2, <3>1 DEF PrAnswer, TypeOK
    <3> QED BY <2>0, <3>1, <3>2, EntryLeaves
  <2>3. CASE PrCheck(d) \/ Programs(d) \/ PrAborts(d) \/ PrRecord(d)
    <3>1. \A i \in Jobs : Waiting(i)' <=> Waiting(i)
      BY <2>3 DEF PrCheck, Programs, PrReprogram, PrFullChip, PrReprogramFails, PrAborts, PrRecord, appVars
    <3> QED BY <2>3, <3>1, PrWorkStep, EntriesStay
  <2> QED BY <1>3, <2>1, <2>2, <2>3 DEF PrDaemon, Programs
<1>4. ASSUME NEW p \in PRRs, PrrDaemon(p)
      PROVE  EntryInOnePlace'
  <2> DEFINE q == <<"prrQ", p>>
             h == <<"prr", p>>
  <2>0. q \in Spots /\ h \in Spots /\ q # h
    OBVIOUS
  <2>1. CASE PrrPop(p)
    <3>1. \A i \in Jobs : Waiting(i)' <=> Waiting(i)
      BY <2>1 DEF PrrPop, appVars
    <3>2. PICK j \in Jobs : j = Head(prrQ[p])
      BY <2>1, PrrPopStep
    <3>3. /\ QueuesHaveNoDuplicates' /\ j \in At(q)
          /\ At(q)' = At(q) \ {j} /\ At(h)' = At(h) \cup {j}
          /\ \A z \in Spots \ {q, h} : At(z)' = At(z)
      BY <2>1, <3>2, PrrPopStep
    <3> QED BY <2>0, <3>1, <3>2, <3>3, EntryMoves
  <2>2. CASE PrrGrant(p)
    <3>1. PICK j \in Jobs :
            /\ j = prrJob[p]
            /\ QueuesHaveNoDuplicates' /\ j \in At(h)
            /\ At(h)' = At(h) \ {j}
            /\ \A z \in Spots \ {h} : At(z)' = At(z)
      BY <2>2, PrrGrantStep
    <3>2. ~Waiting(j)' /\ \A i \in Jobs \ {j} : Waiting(i)' <=> Waiting(i)
      BY <2>2, <3>1 DEF PrrGrant, TypeOK
    <3> QED BY <2>0, <3>1, <3>2, EntryLeaves
  <2>3. CASE PrrReady(p) \/ PrrClaim(p)
    <3>1. \A i \in Jobs : Waiting(i)' <=> Waiting(i)
      BY <2>3 DEF PrrReady, PrrClaim, appVars
    <3> QED BY <2>3, <3>1, PrrWorkStep, EntriesStay
  <2> QED BY <1>4, <2>1, <2>2, <2>3 DEF PrrDaemon
<1>5. CASE UNCHANGED vars
  <2>1. \A i \in Jobs : Waiting(i)' <=> Waiting(i)
    BY <1>5 DEF vars, appVars
  <2>2. QueuesHaveNoDuplicates' /\ \A z \in Spots : At(z)' = At(z)
    BY <1>5, SpotsStay DEF vars, tqVars, EntryInOnePlace
  <2> QED BY <2>1, <2>2, EntriesStay
<1> QED BY <1>1, <1>2, <1>3, <1>4, <1>5 DEF Next, Aborted

-----------------------------------------------------------------------------
(* What an entry says, and where it is *)

\* An entry that a daemon works on is of the daemon's kind, and its owner waits.
LEMMA HandKinds ==
  ASSUME HandsInv, AppInv, KindInv, EntryInOnePlace
  PROVE  /\ tqPc = "route" => tqJob \in Jobs /\ app[tqJob] = "waitDev" /\ ~done[tqJob]
         /\ tqPc = "check" => tqJob \in Jobs /\ app[tqJob] = "waitPrg" /\ ~done[tqJob]
         /\ \A d \in Devices : prPc[d] # "idle" =>
              prJob[d] \in Jobs /\ app[prJob[d]] = "waitPrg" /\ ~done[prJob[d]]
         /\ \A p \in PRRs : prrPc[p] # "idle" =>
              prrJob[p] \in Jobs /\ app[prrJob[p]] = "waitDev" /\ ~done[prrJob[p]]
<1>1. ASSUME tqPc \in {"route", "check"}
      PROVE  tqJob \in Jobs /\ Waiting(tqJob)
  <2>1. tqJob \in Jobs /\ tqJob \in At(TaskSpot) /\ TaskSpot \in Spots
    BY <1>1, AtSpots, SpotCases DEF HandsInv
  <2> QED BY <2>1 DEF EntryInOnePlace
<1>2. ASSUME NEW d \in Devices, prPc[d] # "idle"
      PROVE  prJob[d] \in Jobs /\ Waiting(prJob[d]) /\ prJob[d] \in At(<<"pr", d>>)
  <2>1. prJob[d] \in Jobs /\ prJob[d] \in At(<<"pr", d>>) /\ <<"pr", d>> \in Spots
    BY <1>2, AtSpots, SpotCases DEF HandsInv
  <2> QED BY <2>1 DEF EntryInOnePlace
<1>3. ASSUME NEW p \in PRRs, prrPc[p] # "idle"
      PROVE  prrJob[p] \in Jobs /\ Waiting(prrJob[p]) /\ prrJob[p] \in At(<<"prr", p>>)
  <2>1. prrJob[p] \in Jobs /\ prrJob[p] \in At(<<"prr", p>>) /\ <<"prr", p>> \in Spots
    BY <1>3, AtSpots, SpotCases DEF HandsInv
  <2> QED BY <2>1 DEF EntryInOnePlace
<1>4. ASSUME NEW j \in Jobs, Waiting(j)
      PROVE  /\ type[j] = "GETDEV" => app[j] = "waitDev" /\ ~done[j]
             /\ type[j] = "GETPRG" => app[j] = "waitPrg" /\ ~done[j]
  BY <1>4 DEF AppInv, Waiting
<1>5. /\ tqPc = "route" => type[tqJob] = "GETDEV"
      /\ tqPc = "check" => type[tqJob] = "GETPRG"
  BY DEF KindInv
<1>6. ASSUME NEW d \in Devices, prPc[d] # "idle"
      PROVE  type[prJob[d]] = "GETPRG"
  <2>1. \A j \in At(<<"pr", d>>) : type[j] = "GETPRG"
    BY DEF KindInv
  <2> QED BY <2>1, <1>2, <1>6
<1>7. ASSUME NEW p \in PRRs, prrPc[p] # "idle"
      PROVE  type[prrJob[p]] = "GETDEV"
  <2>1. \A j \in At(<<"prr", p>>) : type[j] = "GETDEV"
    BY DEF KindInv
  <2> QED BY <2>1, <1>3, <1>7
<1> QED BY <1>1, <1>2, <1>3, <1>4, <1>5, <1>6, <1>7

LEMMA AtJobs ==
  ASSUME TypeOK, HandsInv
  PROVE  \A z \in Spots : At(z) \subseteq Jobs
<1>1. \A q \in Seq(Jobs) : Elems(q) \subseteq Jobs
  BY ElementOfSeq, LenProperties DEF Elems
<1>2. /\ Elems(taskQ) \subseteq Jobs
      /\ \A d \in Devices : Elems(prQ[d]) \subseteq Jobs
      /\ \A p \in PRRs : Elems(prrQ[p]) \subseteq Jobs
  BY <1>1 DEF TypeOK
<1> QED BY <1>2 DEF HandsInv, At, Spots

LEMMA NextApp ==
  ASSUME TypeOK, HandsInv, AppInv, KindInv, EntryInOnePlace, [Next]_vars
  PROVE  AppInv'
<1> USE DEF appVars
<1>1. ASSUME NEW j \in Jobs, SubmitDevice(j) \/ AppProgress(j)
      PROVE  AppInv'
  BY <1>1 DEF AppInv, TypeOK, SubmitDevice, PushTask, AppProgress, ReturnDevice, SubmitProgram,
              ReturnProgram, RunKernel, ReleaseDevice, AppAborts
<1>2. CASE TaskDaemon
  <2>1. CASE TaskAnswer
    <3>1. tqJob \in Jobs /\ app[tqJob] = "waitPrg"
      BY <2>1, HandKinds DEF TaskAnswer
    <3> QED BY <2>1, <3>1 DEF TaskAnswer, AppInv, TypeOK
  <2> QED BY <1>2, <2>1 DEF TaskDaemon, TaskPop, TaskRoute, TaskForward, TaskStamp, AppInv
<1>3. ASSUME NEW d \in Devices, PrDaemon(d)
      PROVE  AppInv'
  <2>1. CASE PrAnswer(d)
    <3>1. prJob[d] \in Jobs /\ app[prJob[d]] = "waitPrg"
      BY <2>1, HandKinds DEF PrAnswer
    <3> QED BY <2>1, <3>1 DEF PrAnswer, AppInv, TypeOK
  <2> QED BY <1>3, <2>1 DEF PrDaemon, PrPop, PrCheck, Programs, PrReprogram, PrFullChip, PrReprogramFails, PrAborts,
                            PrRecord, AppInv
<1>4. ASSUME NEW p \in PRRs, PrrDaemon(p)
      PROVE  AppInv'
  <2>1. CASE PrrGrant(p)
    <3>1. prrJob[p] \in Jobs /\ app[prrJob[p]] = "waitDev"
      BY <2>1, HandKinds DEF PrrGrant
    <3> QED BY <2>1, <3>1 DEF PrrGrant, AppInv, TypeOK
  <2> QED BY <1>4, <2>1 DEF PrrDaemon, PrrPop, PrrReady, PrrClaim, AppInv
<1>5. CASE UNCHANGED vars
  BY <1>5 DEF vars, AppInv
<1> QED BY <1>1, <1>2, <1>3, <1>4, <1>5 DEF Next, Aborted

\* Entries that do not move to another daemon and do not change keep their kind.
LEMMA KindsStay ==
  ASSUME KindInv, EntryInOnePlace,
         \A z \in Spots \ {TaskQSpot, TaskSpot} : At(z)' \subseteq At(z),
         tqPc' \in {"route", "check"} => UNCHANGED <<tqPc, tqJob>>,
         \A i \in Jobs : Waiting(i) => type'[i] = type[i] /\ entryPRR'[i] = entryPRR[i],
         HandsInv, TypeOK
  PROVE  KindInv'
<1>1. ASSUME tqPc' \in {"route", "check"}
      PROVE  type'[tqJob'] = type[tqJob] /\ tqPc' = tqPc
  <2>1. tqJob \in Jobs /\ tqJob \in At(TaskSpot) /\ TaskSpot \in Spots
    BY <1>1, AtSpots, SpotCases DEF HandsInv
  <2>2. Waiting(tqJob)
    BY <2>1 DEF EntryInOnePlace
  <2> QED BY <1>1, <2>1, <2>2
<1>2. ASSUME NEW z \in Spots \ {TaskQSpot, TaskSpot}, NEW i \in At(z)'
      PROVE  i \in At(z) /\ type'[i] = type[i] /\ entryPRR'[i] = entryPRR[i]
  <2>1. i \in Jobs
    BY <1>2, AtJobs
  <2> QED BY <1>2, <2>1 DEF EntryInOnePlace
<1>3. ASSUME NEW d \in Devices
      PROVE  \A j \in At(<<"prQ", d>>)' \cup At(<<"pr", d>>)' :
               type'[j] = "GETPRG" /\ DeviceOf[entryPRR'[j]] = d
  <2>1. {<<"prQ", d>>, <<"pr", d>>} \subseteq Spots \ {TaskQSpot, TaskSpot}
    BY SpotCases DEF TaskQSpot, TaskSpot
  <2> QED BY <1>2, <2>1 DEF KindInv
<1>4. ASSUME NEW p \in PRRs
      PROVE  \A j \in At(<<"prrQ", p>>)' \cup At(<<"prr", p>>)' : type'[j] = "GETDEV"
  <2>1. {<<"prrQ", p>>, <<"prr", p>>} \subseteq Spots \ {TaskQSpot, TaskSpot}
    BY SpotCases DEF TaskQSpot, TaskSpot
  <2> QED BY <1>2, <2>1 DEF KindInv
<1> QED BY <1>1, <1>3, <1>4 DEF KindInv

LEMMA NextKind ==
  ASSUME TypeOK, HandsInv, AppInv, KindInv, EntryInOnePlace, [Next]_vars
  PROVE  KindInv'
<1>1. ASSUME NEW j \in Jobs, SubmitDevice(j) \/ AppProgress(j)
      PROVE  KindInv'
  <2>1. CASE SubmitDevice(j) \/ SubmitProgram(j)
    <3>1. ~Waiting(j)
      BY <2>1 DEF SubmitDevice, SubmitProgram, Waiting
    <3>2. \A z \in Spots \ {TaskQSpot} : At(z)' = At(z)
      BY <2>1, <3>1, PushStep DEF SubmitDevice, SubmitProgram, PushTask, tqVars
    <3>3. \A i \in Jobs : Waiting(i) => type'[i] = type[i] /\ entryPRR'[i] = entryPRR[i]
      BY <2>1, <3>1 DEF SubmitDevice, SubmitProgram, PushTask, TypeOK
    <3>4. UNCHANGED <<tqPc, tqJob>>
      BY <2>1 DEF SubmitDevice, SubmitProgram, tqVars
    <3> QED BY <3>2, <3>3, <3>4, KindsStay
  <2>2. CASE AppProgress(j) /\ ~SubmitProgram(j)
    <3>1. UNCHANGED <<type, entryPRR, tqPc, tqJob>>
      BY <2>2 DEF AppProgress, ReturnDevice, ReturnProgram, RunKernel, ReleaseDevice,
                  AppAborts, appVars, tqVars
    <3>2. \A z \in Spots : At(z)' = At(z)
      BY <2>2, SpotsStay DEF AppProgress, ReturnDevice, ReturnProgram, RunKernel, ReleaseDevice, AppAborts, tqVars, EntryInOnePlace
    <3> QED BY <3>1, <3>2, KindsStay
  <2> QED BY <1>1, <2>1, <2>2
<1>2. CASE TaskDaemon
  <2>1. CASE TaskPop
    <3>1. \A z \in Spots \ {TaskQSpot, TaskSpot} : At(z)' = At(z)
      BY <2>1, TaskPopStep
    <3>2. tqPc' = "route" <=> type[tqJob'] = "GETDEV"
      BY <2>1 DEF TaskPop
    <3>3. tqPc' \in {"route", "check"} /\ tqJob' \in Jobs
      BY <2>1, TaskPopStep DEF TaskPop
    <3>4. type' = type /\ entryPRR' = entryPRR
      BY <2>1 DEF TaskPop, appVars
    <3>5. /\ \A d \in Devices : /\ At(<<"prQ", d>>)' = At(<<"prQ", d>>)
                                /\ At(<<"pr", d>>)' = At(<<"pr", d>>)
          /\ \A p \in PRRs : /\ At(<<"prrQ", p>>)' = At(<<"prrQ", p>>)
                             /\ At(<<"prr", p>>)' = At(<<"prr", p>>)
      BY <3>1, SpotCases DEF TaskQSpot, TaskSpot
    <3>6. type[tqJob'] \in {"GETDEV", "GETPRG"}
      BY <3>3 DEF TypeOK
    <3>7. /\ tqPc' = "route" => type'[tqJob'] = "GETDEV"
          /\ tqPc' = "check" => type'[tqJob'] = "GETPRG"
      BY <3>2, <3>3, <3>4, <3>6
    <3> QED BY <3>4, <3>5, <3>7 DEF KindInv
  <2>2. CASE TaskRoute
    <3>1. PICK p \in PRRs :
            /\ At(TaskSpot)' = At(TaskSpot) \ {tqJob}
            /\ At(<<"prrQ", p>>)' = At(<<"prrQ", p>>) \cup {tqJob}
            /\ \A z \in Spots \ {TaskSpot, <<"prrQ", p>>} : At(z)' = At(z)
      BY <2>2, TaskRouteStep
    <3>2. /\ \A d \in Devices : /\ At(<<"prQ", d>>)' = At(<<"prQ", d>>)
                                /\ At(<<"pr", d>>)' = At(<<"pr", d>>)
          /\ \A q \in PRRs : /\ At(<<"prrQ", q>>)' \subseteq At(<<"prrQ", q>>) \cup {tqJob}
                             /\ At(<<"prr", q>>)' = At(<<"prr", q>>)
      BY <3>1, SpotCases DEF TaskSpot
    <3>3. type' = type /\ entryPRR' = entryPRR /\ tqPc' = "stampDev" /\ type[tqJob] = "GETDEV"
      BY <2>2 DEF TaskRoute, appVars, KindInv
    <3> QED BY <3>2, <3>3 DEF KindInv
  <2>3. CASE TaskForward
    <3>1. PICK d \in Devices :
            /\ d = DeviceOf[entryPRR[tqJob]]
            /\ At(<<"prQ", d>>)' = At(<<"prQ", d>>) \cup {tqJob}
            /\ \A z \in Spots \ {TaskSpot, <<"prQ", d>>} : At(z)' = At(z)
      BY <2>3, TaskForwardStep
    <3>2. /\ \A e \in Devices \ {d} : At(<<"prQ", e>>)' = At(<<"prQ", e>>)
          /\ \A e \in Devices : At(<<"pr", e>>)' = At(<<"pr", e>>)
          /\ \A q \in PRRs : /\ At(<<"prrQ", q>>)' = At(<<"prrQ", q>>)
                             /\ At(<<"prr", q>>)' = At(<<"prr", q>>)
      BY <3>1, SpotCases DEF TaskSpot
    <3>3. type' = type /\ entryPRR' = entryPRR /\ tqPc' = "stampPrg" /\ type[tqJob] = "GETPRG"
      BY <2>3 DEF TaskForward, appVars, KindInv
    <3> QED BY <3>1, <3>2, <3>3 DEF KindInv
  <2>4. CASE TaskAnswer \/ TaskStamp
    <3>1. UNCHANGED <<type, entryPRR>> /\ tqPc' \notin {"route", "check"}
      BY <2>4 DEF TaskAnswer, TaskStamp, appVars
    <3>2. \A z \in Spots \ {TaskQSpot, TaskSpot} : At(z)' \subseteq At(z)
      BY <2>4, TaskAnswerStep, TaskStampStep
    <3> QED BY <3>1, <3>2, KindsStay
  <2> QED BY <1>2, <2>1, <2>2, <2>3, <2>4 DEF TaskDaemon
<1>3. ASSUME NEW d \in Devices, PrDaemon(d)
      PROVE  KindInv'
  <2>1. CASE PrPop(d)
    <3>1. UNCHANGED <<type, entryPRR, tqPc, tqJob>>
      BY <2>1 DEF PrPop, appVars, tqVars
    <3>2. /\ \A e \in Devices : At(<<"prQ", e>>)' \cup At(<<"pr", e>>)'
                                \subseteq At(<<"prQ", e>>) \cup At(<<"pr", e>>)
          /\ \A q \in PRRs : /\ At(<<"prrQ", q>>)' = At(<<"prrQ", q>>)
                             /\ At(<<"prr", q>>)' = At(<<"prr", q>>)
      BY <2>1, PrPopStep, SpotCases
    <3> QED BY <3>1, <3>2 DEF KindInv
  <2>2. CASE PrAnswer(d)
    <3>1. UNCHANGED <<type, entryPRR, tqPc, tqJob>>
      BY <2>2 DEF PrAnswer, tqVars
    <3>2. \A z \in Spots : At(z)' \subseteq At(z)
      BY <2>2, PrAnswerStep
    <3> QED BY <3>1, <3>2, KindsStay
  <2>3. CASE PrCheck(d) \/ Programs(d) \/ PrAborts(d) \/ PrRecord(d)
    <3>1. UNCHANGED <<type, entryPRR, tqPc, tqJob>>
      BY <2>3 DEF PrCheck, Programs, PrReprogram, PrFullChip, PrReprogramFails, PrAborts, PrRecord, appVars, tqVars
    <3> QED BY <2>3, <3>1, PrWorkStep, KindsStay
  <2> QED BY <1>3, <2>1, <2>2, <2>3 DEF PrDaemon, Programs
<1>4. ASSUME NEW p \in PRRs, PrrDaemon(p)
      PROVE  KindInv'
  <2>1. CASE PrrPop(p)
    <3>1. UNCHANGED <<type, entryPRR, tqPc, tqJob>>
      BY <2>1 DEF PrrPop, appVars, tqVars
    <3>2. /\ \A e \in Devices : /\ At(<<"prQ", e>>)' = At(<<"prQ", e>>)
                                /\ At(<<"pr", e>>)' = At(<<"pr", e>>)
          /\ \A q \in PRRs : At(<<"prrQ", q>>)' \cup At(<<"prr", q>>)'
                             \subseteq At(<<"prrQ", q>>) \cup At(<<"prr", q>>)
      BY <2>1, PrrPopStep, SpotCases
    <3> QED BY <3>1, <3>2 DEF KindInv
  <2>2. CASE PrrGrant(p)
    <3>1. \A z \in Spots : At(z)' \subseteq At(z)
      BY <2>2, PrrGrantStep
    <3>2. UNCHANGED <<type, tqPc, tqJob>> /\ entryPRR' = [entryPRR EXCEPT ![prrJob[p]] = p]
      BY <2>2 DEF PrrGrant, tqVars
    <3>3. type[prrJob[p]] = "GETDEV"
      BY <2>2, AtSpots DEF PrrGrant, KindInv
    <3>4. \A d \in Devices : \A j \in At(<<"prQ", d>>) \cup At(<<"pr", d>>) :
            j \in Jobs /\ type[j] = "GETPRG" /\ entryPRR'[j] = entryPRR[j]
      BY <3>2, <3>3, AtJobs, SpotCases DEF KindInv, TypeOK
    <3>5. /\ \A d \in Devices : /\ At(<<"prQ", d>>)' \subseteq At(<<"prQ", d>>)
                                /\ At(<<"pr", d>>)' \subseteq At(<<"pr", d>>)
          /\ \A q \in PRRs : /\ At(<<"prrQ", q>>)' \subseteq At(<<"prrQ", q>>)
                             /\ At(<<"prr", q>>)' \subseteq At(<<"prr", q>>)
      BY <3>1, SpotCases
    <3> QED BY <3>2, <3>4, <3>5 DEF KindInv
  <2>3. CASE PrrReady(p) \/ PrrClaim(p)
    <3>1. UNCHANGED <<type, entryPRR, tqPc, tqJob>>
      BY <2>3 DEF PrrReady, PrrClaim, appVars, tqVars
    <3> QED BY <2>3, <3>1, PrrWorkStep, KindsStay
  <2> QED BY <1>4, <2>1, <2>2, <2>3 DEF PrrDaemon
<1>5. CASE UNCHANGED vars
  <2>1. UNCHANGED <<type, entryPRR, tqPc, tqJob>>
    BY <1>5 DEF vars, appVars, tqVars
  <2>2. \A z \in Spots : At(z)' = At(z)
    BY <1>5, SpotsStay DEF vars, tqVars, EntryInOnePlace
  <2> QED BY <2>1, <2>2, KindsStay
<1> QED BY <1>1, <1>2, <1>3, <1>4, <1>5 DEF Next, Aborted

-----------------------------------------------------------------------------
(* Who holds a region *)

LEMMA HeldByCases ==
  ASSUME NEW j \in Jobs
  PROVE  /\ app[j] = "waitDev" /\ done[j] => HeldBy(j) = entryPRR[j]
         /\ app[j] \in {"hasDev", "waitPrg", "run", "release"} => HeldBy(j) = device[j]
         /\ ~(app[j] = "waitDev" /\ done[j]) /\ app[j] \notin {"hasDev", "waitPrg", "run", "release"}
              => HeldBy(j) = NoPRR
  BY DEF HeldBy

LEMMA HeldByCasesNext ==
  ASSUME NEW j \in Jobs
  PROVE  /\ app'[j] = "waitDev" /\ done'[j] => HeldBy(j)' = entryPRR'[j]
         /\ app'[j] \in {"hasDev", "waitPrg", "run", "release"} => HeldBy(j)' = device'[j]
         /\ ~(app'[j] = "waitDev" /\ done'[j]) /\ app'[j] \notin {"hasDev", "waitPrg", "run", "release"}
              => HeldBy(j)' = NoPRR
  BY DEF HeldBy

\* A job whose thread and entry a step leaves alone holds what it held.
LEMMA OthersHold ==
  ASSUME NEW i \in Jobs, app'[i] = app[i], device'[i] = device[i],
         done'[i] = done[i], entryPRR'[i] = entryPRR[i]
  PROVE  HeldBy(i)' = HeldBy(i)
  BY HeldByCases, HeldByCasesNext

\* Only a release and a grant change what a job holds.
LEMMA HeldStays ==
  ASSUME TypeOK, HandsInv, AppInv, KindInv, EntryInOnePlace, [Next]_vars,
         \A j \in Jobs : ~ReleaseDevice(j), \A p \in PRRs : ~PrrGrant(p),
         NEW i \in Jobs
  PROVE  HeldBy(i)' = HeldBy(i)
<1> USE DEF appVars
<1>1. ASSUME NEW j \in Jobs, SubmitDevice(j) \/ AppProgress(j)
      PROVE  HeldBy(i)' = HeldBy(i)
  <2>1. CASE i # j
    <3>1. /\ app'[i] = app[i] /\ device'[i] = device[i]
          /\ done'[i] = done[i] /\ entryPRR'[i] = entryPRR[i]
      BY <1>1, <2>1 DEF SubmitDevice, PushTask, AppProgress, ReturnDevice, SubmitProgram,
                        ReturnProgram, RunKernel, AppAborts, TypeOK
    <3> QED BY <3>1, OthersHold
  <2>2. CASE i = j /\ SubmitDevice(j)
    <3>1. app[i] = "idle" /\ app'[i] = "waitDev" /\ ~done'[i]
      BY <2>2 DEF SubmitDevice, PushTask, TypeOK
    <3> QED BY <3>1, HeldByCases, HeldByCasesNext
  <2>3. CASE i = j /\ ReturnDevice(j)
    <3>1. /\ app[i] = "waitDev" /\ done[i]
          /\ app'[i] = "hasDev" /\ device'[i] = entryPRR[i]
      BY <2>3 DEF ReturnDevice, TypeOK
    <3> QED BY <3>1, HeldByCases, HeldByCasesNext
  <2>4. CASE i = j /\ (SubmitProgram(j) \/ ReturnProgram(j) \/ RunKernel(j))
    <3>1. /\ {app[i], app'[i]} \subseteq {"hasDev", "waitPrg", "run", "release"}
          /\ device'[i] = device[i]
      BY <2>4 DEF SubmitProgram, ReturnProgram, RunKernel, TypeOK
    <3> QED BY <3>1, HeldByCases, HeldByCasesNext
  <2>5. CASE AppAborts(j)
    BY <2>5, OthersHold DEF AppAborts
  <2> QED BY <1>1, <2>1, <2>2, <2>3, <2>4, <2>5 DEF AppProgress
<1>2. CASE TaskDaemon
  <2>1. CASE TaskAnswer
    <3>1. tqJob \in Jobs /\ app[tqJob] = "waitPrg"
      BY <2>1, HandKinds DEF TaskAnswer
    <3>2. CASE i = tqJob
      <4>1. app'[i] = "waitPrg" /\ app[i] = "waitPrg" /\ device'[i] = device[i]
        BY <2>1, <3>1, <3>2 DEF TaskAnswer
      <4> QED BY <4>1, HeldByCases, HeldByCasesNext
    <3>3. CASE i # tqJob
      <4>1. /\ app'[i] = app[i] /\ device'[i] = device[i]
            /\ done'[i] = done[i] /\ entryPRR'[i] = entryPRR[i]
        BY <2>1, <3>1, <3>3 DEF TaskAnswer, TypeOK
      <4> QED BY <4>1, OthersHold
    <3> QED BY <3>2, <3>3
  <2>2. CASE ~TaskAnswer
    <3>1. UNCHANGED appVars
      BY <1>2, <2>2 DEF TaskDaemon, TaskPop, TaskRoute, TaskForward, TaskStamp
    <3> QED BY <3>1, OthersHold
  <2> QED BY <2>1, <2>2
<1>3. ASSUME NEW d \in Devices, PrDaemon(d)
      PROVE  HeldBy(i)' = HeldBy(i)
  <2>1. CASE PrAnswer(d)
    <3>1. prJob[d] \in Jobs /\ app[prJob[d]] = "waitPrg"
      BY <2>1, HandKinds DEF PrAnswer
    <3>2. CASE i = prJob[d]
      <4>1. app'[i] = "waitPrg" /\ app[i] = "waitPrg" /\ device'[i] = device[i]
        BY <2>1, <3>1, <3>2 DEF PrAnswer
      <4> QED BY <4>1, HeldByCases, HeldByCasesNext
    <3>3. CASE i # prJob[d]
      <4>1. /\ app'[i] = app[i] /\ device'[i] = device[i]
            /\ done'[i] = done[i] /\ entryPRR'[i] = entryPRR[i]
        BY <2>1, <3>1, <3>3 DEF PrAnswer, TypeOK
      <4> QED BY <4>1, OthersHold
    <3> QED BY <3>2, <3>3
  <2>2. CASE ~PrAnswer(d)
    <3>1. UNCHANGED appVars
      BY <1>3, <2>2 DEF PrDaemon, PrPop, PrCheck, Programs, PrReprogram, PrFullChip, PrReprogramFails, PrAborts, PrRecord
    <3> QED BY <3>1, OthersHold
  <2> QED BY <2>1, <2>2
<1>4. ASSUME NEW p \in PRRs, PrrDaemon(p)
      PROVE  HeldBy(i)' = HeldBy(i)
  <2>1. UNCHANGED appVars
    BY <1>4 DEF PrrDaemon, PrrPop, PrrReady, PrrClaim
  <2> QED BY <2>1, OthersHold
<1>5. CASE UNCHANGED vars
  BY <1>5, OthersHold DEF vars
<1> QED BY <1>1, <1>2, <1>3, <1>4, <1>5 DEF Next, Aborted

\* A release gives up the region, and nothing else.
LEMMA ReleaseFrees ==
  ASSUME TypeOK, AppInv, NEW j \in Jobs, ReleaseDevice(j)
  PROVE  /\ HeldBy(j) = device[j] /\ device[j] \in PRRs
         /\ HeldBy(j)' = NoPRR
         /\ \A i \in Jobs \ {j} : HeldBy(i)' = HeldBy(i)
<1>1. HeldBy(j) = device[j] /\ device[j] \in PRRs
  BY HeldByCases DEF ReleaseDevice, AppInv
<1>2. HeldBy(j)' = NoPRR
  BY HeldByCasesNext DEF ReleaseDevice, TypeOK
<1>3. ASSUME NEW i \in Jobs \ {j}
      PROVE  HeldBy(i)' = HeldBy(i)
  <2>1. /\ app'[i] = app[i] /\ device'[i] = device[i]
        /\ done'[i] = done[i] /\ entryPRR'[i] = entryPRR[i]
    BY DEF ReleaseDevice, TypeOK
  <2> QED BY <2>1, OthersHold
<1> QED BY <1>1, <1>2, <1>3

\* A grant hands the daemon's region to a job that held none.
LEMMA GrantHands ==
  ASSUME TypeOK, HandsInv, AppInv, KindInv, EntryInOnePlace, NEW p \in PRRs, PrrGrant(p)
  PROVE  \E j \in Jobs :
           /\ HeldBy(j) = NoPRR
           /\ HeldBy(j)' = p
           /\ \A i \in Jobs \ {j} : HeldBy(i)' = HeldBy(i)
<1>1. PICK j \in Jobs : j = prrJob[p] /\ app[j] = "waitDev" /\ ~done[j]
  BY HandKinds DEF PrrGrant
<1>2. HeldBy(j) = NoPRR
  BY <1>1, HeldByCases
<1>3. HeldBy(j)' = p
  BY <1>1, HeldByCasesNext DEF PrrGrant, TypeOK
<1>4. ASSUME NEW i \in Jobs \ {j}
      PROVE  HeldBy(i)' = HeldBy(i)
  <2>1. /\ app'[i] = app[i] /\ device'[i] = device[i]
        /\ done'[i] = done[i] /\ entryPRR'[i] = entryPRR[i]
    BY <1>1 DEF PrrGrant, TypeOK
  <2> QED BY <2>1, OthersHold
<1> QED BY <1>2, <1>3, <1>4

-----------------------------------------------------------------------------
(* The region daemon's test of the flag, and what the flag means *)

LEMMA NextClaim ==
  ASSUME TypeOK, ClaimInv, [Next]_vars
  PROVE  ClaimInv'
<1> USE DEF ClaimInv, regVars, prrVars
<1>1. ASSUME NEW j \in Jobs, SubmitDevice(j) \/ AppProgress(j)
      PROVE  ClaimInv'
  BY <1>1 DEF SubmitDevice, AppProgress, ReturnDevice, SubmitProgram, ReturnProgram, RunKernel,
              ReleaseDevice, AppAborts, TypeOK
<1>2. CASE TaskDaemon
  BY <1>2 DEF TaskDaemon, TaskPop, TaskRoute, TaskAnswer, TaskForward, TaskStamp
<1>3. ASSUME NEW d \in Devices, PrDaemon(d)
      PROVE  ClaimInv'
  BY <1>3 DEF PrDaemon, PrPop, PrCheck, Programs, PrReprogram, PrFullChip, PrReprogramFails, PrAborts, PrRecord, PrAnswer
<1>4. ASSUME NEW p \in PRRs, PrrDaemon(p)
      PROVE  ClaimInv'
  BY <1>4 DEF PrrDaemon, PrrPop, PrrReady, PrrClaim, PrrGrant, TypeOK
<1>5. CASE UNCHANGED vars
  BY <1>5 DEF vars
<1> QED BY <1>1, <1>2, <1>3, <1>4, <1>5 DEF Next, Aborted

\* The flags and the hand-over points of the region daemons, step by step.
LEMMA FlagSteps ==
  ASSUME TypeOK, [Next]_vars, NEW p \in PRRs
  PROVE  /\ PrrClaim(p) => status'[p] = "RUNNING" /\ prrPc'[p] = "grant"
         /\ PrrGrant(p) => status'[p] = status[p] /\ prrPc'[p] # "grant"
         /\ \A j \in Jobs : ReleaseDevice(j) /\ device[j] = p
              => status'[p] = "READY" /\ prrPc'[p] = prrPc[p]
         /\ \/ PrrClaim(p) \/ PrrGrant(p)
            \/ \E j \in Jobs : ReleaseDevice(j) /\ device[j] = p
            \/ status'[p] = status[p] /\ (prrPc'[p] = "grant" <=> prrPc[p] = "grant")
<1> USE DEF regVars, prrVars
<1>1. PrrClaim(p) => status'[p] = "RUNNING" /\ prrPc'[p] = "grant"
  BY DEF PrrClaim, TypeOK
<1>2. PrrGrant(p) => status'[p] = status[p] /\ prrPc'[p] # "grant"
  BY DEF PrrGrant, TypeOK
<1>3. \A j \in Jobs : ReleaseDevice(j) /\ device[j] = p
         => status'[p] = "READY" /\ prrPc'[p] = prrPc[p]
  BY DEF ReleaseDevice, TypeOK
<1> DEFINE Kept == status'[p] = status[p] /\ (prrPc'[p] = "grant" <=> prrPc[p] = "grant")
<1>4. ASSUME NEW j \in Jobs, SubmitDevice(j) \/ AppProgress(j),
             ~(ReleaseDevice(j) /\ device[j] = p)
      PROVE  Kept
  BY <1>4 DEF SubmitDevice, AppProgress, ReturnDevice, SubmitProgram, ReturnProgram, RunKernel,
              ReleaseDevice, AppAborts, TypeOK
<1>5. ASSUME TaskDaemon PROVE Kept
  BY <1>5 DEF TaskDaemon, TaskPop, TaskRoute, TaskAnswer, TaskForward, TaskStamp
<1>6. ASSUME NEW d \in Devices, PrDaemon(d) PROVE Kept
  BY <1>6 DEF PrDaemon, PrPop, PrCheck, Programs, PrReprogram, PrFullChip, PrReprogramFails, PrAborts, PrRecord, PrAnswer
<1>7. ASSUME NEW q \in PRRs, PrrDaemon(q), ~PrrClaim(p), ~PrrGrant(p) PROVE Kept
  BY <1>7 DEF PrrDaemon, PrrPop, PrrReady, PrrClaim, PrrGrant, TypeOK
<1>8. ASSUME UNCHANGED vars PROVE Kept
  BY <1>8 DEF vars
<1> QED BY <1>1, <1>2, <1>3, <1>4, <1>5, <1>6, <1>7, <1>8 DEF Next, Aborted

LEMMA NextStatus ==
  ASSUME IInv, [Next]_vars
  PROVE  StatusTracksHolder'
<1> USE DEF IInv
<1> DEFINE Held(p) == \E j \in Jobs : HeldBy(j) = p
<1> SUFFICES ASSUME NEW p \in PRRs
             PROVE  /\ status'[p] = "RUNNING" <=> (Held(p)' \/ prrPc'[p] = "grant")
                    /\ ~(Held(p)' /\ prrPc'[p] = "grant")
  BY DEF StatusTracksHolder
<1>1. /\ status[p] = "RUNNING" <=> (Held(p) \/ prrPc[p] = "grant")
      /\ ~(Held(p) /\ prrPc[p] = "grant")
  BY DEF StatusTracksHolder
<1>2. CASE \E j \in Jobs : ReleaseDevice(j)
  <2>1. PICK j \in Jobs : ReleaseDevice(j)
    BY <1>2
  <2>2. /\ HeldBy(j) = device[j] /\ device[j] \in PRRs /\ HeldBy(j)' = NoPRR
        /\ \A i \in Jobs \ {j} : HeldBy(i)' = HeldBy(i)
    BY <2>1, ReleaseFrees
  <2>3. CASE device[j] = p
    <3>1. ~Held(p)'
      BY <2>2, <2>3, PipelineAssumption DEF MutualExclusion
    <3>2. status'[p] = "READY" /\ prrPc'[p] = prrPc[p]
      BY <2>1, <2>3, FlagSteps
    <3> QED BY <3>1, <3>2, <2>2, <2>3, <1>1
  <2>4. CASE device[j] # p
    <3>1. Held(p)' <=> Held(p)
      BY <2>2, <2>4, PipelineAssumption
    <3>2. status'[p] = status[p] /\ prrPc'[p] = prrPc[p]
      BY <2>1, <2>4 DEF ReleaseDevice, prrVars, TypeOK
    <3> QED BY <3>1, <3>2, <1>1
  <2> QED BY <2>3, <2>4
<1>3. CASE \E q \in PRRs : PrrGrant(q)
  <2>1. PICK q \in PRRs : PrrGrant(q)
    BY <1>3
  <2>2. PICK j \in Jobs : /\ HeldBy(j) = NoPRR /\ HeldBy(j)' = q
                          /\ \A i \in Jobs \ {j} : HeldBy(i)' = HeldBy(i)
    BY <2>1, GrantHands
  <2>3. CASE q = p
    <3>1. Held(p)' /\ status'[p] = status[p] /\ prrPc'[p] # "grant" /\ prrPc[p] = "grant"
      BY <2>1, <2>2, <2>3, FlagSteps DEF PrrGrant
    <3> QED BY <3>1, <1>1
  <2>4. CASE q # p
    <3>1. Held(p)' <=> Held(p)
      BY <2>2, <2>4, PipelineAssumption
    <3>2. status'[p] = status[p] /\ prrPc'[p] = prrPc[p]
      BY <2>1, <2>4 DEF PrrGrant, regVars, TypeOK
    <3> QED BY <3>1, <3>2, <1>1
  <2> QED BY <2>3, <2>4
<1>4. CASE (\A j \in Jobs : ~ReleaseDevice(j)) /\ (\A q \in PRRs : ~PrrGrant(q))
  <2>1. \A i \in Jobs : HeldBy(i)' = HeldBy(i)
    BY <1>4, HeldStays
  <2>2. Held(p)' <=> Held(p)
    BY <2>1
  <2>3. CASE PrrClaim(p)
    <3>1. status[p] # "RUNNING"
      BY <2>3 DEF PrrClaim, ClaimInv
    <3>2. status'[p] = "RUNNING" /\ prrPc'[p] = "grant"
      BY <2>3, FlagSteps
    <3> QED BY <3>1, <3>2, <2>2, <1>1
  <2>4. CASE ~PrrClaim(p)
    <3>1. status'[p] = status[p] /\ (prrPc'[p] = "grant" <=> prrPc[p] = "grant")
      BY <1>4, <2>4, FlagSteps
    <3> QED BY <3>1, <2>2, <1>1
  <2> QED BY <2>3, <2>4
<1> QED BY <1>2, <1>3, <1>4

LEMMA NextMutex ==
  ASSUME IInv, [Next]_vars
  PROVE  MutualExclusion'
<1> USE DEF IInv
<1>1. CASE \E j \in Jobs : ReleaseDevice(j)
  <2>1. PICK j \in Jobs : ReleaseDevice(j)
    BY <1>1
  <2>2. HeldBy(j)' = NoPRR /\ \A i \in Jobs \ {j} : HeldBy(i)' = HeldBy(i)
    BY <2>1, ReleaseFrees
  <2> QED BY <2>2 DEF MutualExclusion
<1>2. CASE \E p \in PRRs : PrrGrant(p)
  <2>1. PICK p \in PRRs : PrrGrant(p)
    BY <1>2
  <2>2. PICK j \in Jobs : /\ HeldBy(j) = NoPRR /\ HeldBy(j)' = p
                          /\ \A i \in Jobs \ {j} : HeldBy(i)' = HeldBy(i)
    BY <2>1, GrantHands
  <2>3. \A i \in Jobs : HeldBy(i) # p
    BY <2>1 DEF PrrGrant, StatusTracksHolder
  <2> QED BY <2>2, <2>3 DEF MutualExclusion
<1>3. CASE (\A j \in Jobs : ~ReleaseDevice(j)) /\ (\A p \in PRRs : ~PrrGrant(p))
  <2>1. \A i \in Jobs : HeldBy(i)' = HeldBy(i)
    BY <1>3, HeldStays
  <2> QED BY <2>1 DEF MutualExclusion
<1> QED BY <1>1, <1>2, <1>3

-----------------------------------------------------------------------------
(* The inductive invariant and what follows from it *)

LEMMA InitIInv == Init => IInv
<1> SUFFICES ASSUME Init PROVE IInv
  OBVIOUS
<1>1. TypeOK
  BY InitTypeOK
<1>2. \A j \in Jobs : HeldBy(j) = NoPRR /\ ~Waiting(j)
  BY HeldByCases DEF Init, Waiting
<1>3. HandsInv /\ AppInv /\ ClaimInv
  BY DEF Init, HandsInv, AppInv, ClaimInv
<1>4. Elems(<<>>) = {} /\ NoDuplicates(<<>>)
  BY EmptySeq, LenProperties DEF Elems, NoDuplicates
<1>5. \A z \in Spots : At(z) = {}
  BY <1>4 DEF Init, At, Spots
<1>6. EntryInOnePlace
  BY <1>2, <1>4, <1>5 DEF Init, EntryInOnePlace, QueuesHaveNoDuplicates
<1>7. KindInv
  BY <1>5, SpotCases DEF Init, KindInv
<1>8. MutualExclusion /\ StatusTracksHolder
  BY <1>2, PipelineAssumption DEF Init, MutualExclusion, StatusTracksHolder
<1> QED BY <1>1, <1>3, <1>6, <1>7, <1>8 DEF IInv

LEMMA NextIInv == IInv /\ [Next]_vars => IInv'
<1> SUFFICES ASSUME IInv, [Next]_vars PROVE IInv'
  OBVIOUS
<1>1. TypeOK' /\ HandsInv'
  BY NextTypeOK, NextHands DEF IInv
<1>2. EntryInOnePlace' /\ AppInv' /\ KindInv' /\ ClaimInv'
  BY NextEntries, NextApp, NextKind, NextClaim DEF IInv
<1>3. StatusTracksHolder' /\ MutualExclusion'
  BY NextStatus, NextMutex
<1> QED BY <1>1, <1>2, <1>3 DEF IInv

\* The conjunction of the invariants below with what they need to be inductive
\* holds in every reachable state of the pipeline.
THEOREM PipelineInvariant == Spec => []IInv
  BY InitIInv, NextIInv, PTL DEF Spec

\* Type correctness.
THEOREM TypeCorrect == Spec => []TypeOK
<1>1. IInv => TypeOK
  BY DEF IInv
<1> QED BY <1>1, PipelineInvariant, PTL

\* Two jobs never hold one region.
THEOREM RegionsAreExclusive == Spec => []MutualExclusion
<1>1. IInv => MutualExclusion
  BY DEF IInv
<1> QED BY <1>1, PipelineInvariant, PTL

\* A region is marked RUNNING exactly while a job holds it or is handed it.
THEOREM NoRegionIsLost == Spec => []StatusTracksHolder
<1>1. IInv => StatusTracksHolder
  BY DEF IInv
<1> QED BY <1>1, PipelineInvariant, PTL

\* A waiting thread's entry is in exactly one place, and in none once answered.
THEOREM NoRequestIsLost == Spec => []EntryInOnePlace
<1>1. IInv => EntryInOnePlace
  BY DEF IInv
<1> QED BY <1>1, PipelineInvariant, PTL

=============================================================================
