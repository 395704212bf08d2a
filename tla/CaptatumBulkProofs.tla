------------------------- MODULE CaptatumBulkProofs -------------------------
(***************************************************************************)
(* Theorems about CaptatumBulk, for every number of seeds, every guard and *)
(* every set of executor answers.                                          *)
(***************************************************************************)
EXTENDS CaptatumBulk, SequenceTheorems, FiniteSetTheorems, SumTheorems, TLAPS

(* The types of the values every proof below needs; RenderReserve stays    *)
(* folded from here on, so that no product reaches the provers.            *)
LEMMA ConstantTypes ==
  /\ NumSeeds \in Nat /\ NumSeeds > 0
  /\ Seeds \subseteq Int
  /\ Home \in [Seeds -> Hosts]
  /\ MaxConcurrency \in Nat /\ MaxConcurrency > 0
  /\ MaxPerHost \in Nat /\ MaxEgress \in Nat /\ MaxCost \in Nat
  /\ PerSeedCost \in Nat /\ MaxRendered \in Nat
  /\ PerSeedMaxBytes \in Nat
  /\ RenderReserve \in Nat
  /\ AllowRender \in BOOLEAN
  /\ Costs \subseteq Nat
  /\ \A hosts \in EgressSets : hosts \subseteq Hosts
  /\ \A doc \in DocBytes : doc \in Nat /\ doc <= PerSeedMaxBytes
  /\ \A sub \in RenderBytes : sub \in Nat /\ sub <= RenderReserve
<1>1. RenderReserve \in Nat
  BY BulkAssumption DEF BulkAssumption, RenderReserve
<1> QED
  BY <1>1, BulkAssumption, EgressAssumption
  DEF BulkAssumption, EgressAssumption, Seeds

Jobs == [transform : BOOLEAN, slot : BOOLEAN, render : BOOLEAN, retry : BOOLEAN,
         first : [bytes : Nat, hosts : SUBSET Hosts]]
Semaphores == [active : Int, waiters : Seq(Seeds)]

LEMMA ReportedType ==
  ASSUME NEW a, a.doc \in Nat, a.sub \in Nat
  PROVE  Reported(a) \in Nat /\ Reported(a) <= a.doc + a.sub
<1>1. CASE a.lost
  BY <1>1 DEF Reported
<1>2. CASE ~a.lost
  BY <1>2 DEF Reported
<1> QED
  BY <1>1, <1>2

LEMMA CounterTypes ==
  ASSUME TypeOK
  PROVE  /\ bytesSettled \in Nat /\ bytesReserved \in Int
         /\ costSettled \in Nat /\ costReserved \in Int
         /\ wire \in Nat /\ renderedCount \in Nat
BY DEF TypeOK

LEMMA NoJobType == NoJob \in Jobs
BY DEF NoJob, NoFirst, Jobs

LEMMA ReserveTypes ==
  ASSUME NEW j \in Jobs
  PROVE  AttemptReserve(j) \in Nat
BY ConstantTypes DEF AttemptReserve, Jobs

LEMMA ReleasedType ==
  ASSUME NEW semaphore \in Semaphores
  PROVE  /\ Released(semaphore) \in Semaphores
         /\ Heirs(semaphore) \subseteq Seeds
<1>1. semaphore.waiters \in Seq(Seeds) /\ semaphore.active \in Int
  BY DEF Semaphores
<1>2. CASE semaphore.waiters = <<>>
  <2>1. [semaphore EXCEPT !.active = IF @ > 0 THEN @ - 1 ELSE @] \in Semaphores
    BY <1>1 DEF Semaphores
  <2> QED
    BY <1>2, <2>1 DEF Released, Heirs
<1>3. CASE semaphore.waiters # <<>>
  <2>1. /\ Tail(semaphore.waiters) \in Seq(Seeds)
        /\ Head(semaphore.waiters) \in Seeds
    BY <1>1, <1>3, HeadTailProperties
  <2>2. [semaphore EXCEPT !.waiters = Tail(@)] \in Semaphores
    BY <1>1, <2>1 DEF Semaphores
  <2> QED
    BY <1>3, <2>1, <2>2 DEF Released, Heirs
<1> QED
  BY <1>2, <1>3

LEMMA LeaveType ==
  ASSUME TypeOK, NEW s \in Seeds, NEW holdsSlot \in BOOLEAN, Leave(s, holdsSlot)
  PROVE  /\ pc' \in [Seeds -> PCs]
         /\ job' \in [Seeds -> Jobs]
         /\ sem' \in Semaphores
         /\ slot' \in Semaphores
<1>1. sem \in Semaphores /\ slot \in Semaphores /\ job \in [Seeds -> Jobs]
  BY DEF TypeOK, Semaphores, Jobs
<1>2. pc' \in [Seeds -> PCs]
  BY DEF Leave, TypeOK, PCs, Ready
<1>3. job' \in [Seeds -> Jobs]
  BY <1>1, NoJobType DEF Leave
<1>4. sem' \in Semaphores /\ slot' \in Semaphores
  BY <1>1, ReleasedType DEF Leave
<1> QED
  BY <1>2, <1>3, <1>4

LEMMA FinishType ==
  ASSUME TypeOK, NEW s \in Seeds, NEW bytes \in Nat, NEW cost \in Nat,
         NEW hosts \in SUBSET Hosts, NEW rendered \in BOOLEAN, NEW r \in Rows,
         Finish(s, bytes, cost, hosts, rendered, r), wire' \in Nat
  PROVE  TypeOK'
<1>1. job[s] \in Jobs
  BY DEF TypeOK, Jobs
<1>2. /\ pc' \in [Seeds -> PCs] /\ job' \in [Seeds -> Jobs]
      /\ sem' \in Semaphores /\ slot' \in Semaphores
  BY <1>1, LeaveType DEF Finish, Jobs
<1>3. /\ bytesReserved' \in Int /\ bytesSettled' \in Nat
      /\ costReserved' \in Int /\ costSettled' \in Nat
  <2>1. Held(s) \in Nat /\ HeldCost(s) \in Nat
    BY <1>1, ReserveTypes, ConstantTypes DEF Held, HeldCost, Jobs
  <2>2. /\ bytesReserved \in Int /\ bytesSettled \in Nat
        /\ costReserved \in Int /\ costSettled \in Nat
    BY DEF TypeOK
  <2>3. /\ bytesReserved' = bytesReserved - Held(s) /\ bytesSettled' = bytesSettled + bytes
        /\ costReserved' = costReserved - HeldCost(s)
        /\ costSettled' = costSettled + cost \/ costSettled' = costSettled
    BY <2>2 DEF Finish, AfterSeed
  <2> QED
    BY <2>1, <2>2, <2>3
<1>4. hostCounts' \in [Hosts -> Nat]
  BY DEF Finish, Counted, TypeOK
<1>5. shortCircuit' \in Hard \cup {"none", "cost"}
  BY DEF Finish, AfterBudget, AfterBreach, TypeOK, Hard
<1>6. capBreaches' \subseteq Breaches
  BY DEF Finish, Disclose, StopCodes, AfterBreach, Breaches, TypeOK
<1>7. row' \in [Seeds -> Rows]
  BY DEF Finish, Record, TypeOK
<1>8. renderedCount' \in Nat /\ aborted' \in BOOLEAN /\ late' \in BOOLEAN
  BY DEF Finish, TypeOK, walls
<1> QED
  BY <1>2, <1>3, <1>4, <1>5, <1>6, <1>7, <1>8 DEF TypeOK, Jobs, Semaphores

----------------------------------------------------------------------------
(* Type correctness. *)

(* Init's queue holds the seeds beyond the first maxConcurrency.           *)
LEMMA InitType == Init => TypeOK
<1> SUFFICES ASSUME Init
             PROVE  TypeOK
  OBVIOUS
<1> DEFINE n == IF NumSeeds < MaxConcurrency THEN 0 ELSE NumSeeds - MaxConcurrency
<1>1. n \in Nat /\ \A i \in 1..n : i + MaxConcurrency \in Seeds
  BY ConstantTypes DEF Seeds
<1>2. [i \in 1..n |-> i + MaxConcurrency] \in Seq(Seeds)
  <2> HIDE DEF n
  <2>1. [i \in 1..n |-> i + MaxConcurrency] \in [1..n -> Seeds]
    BY <1>1
  <2> QED
    BY <1>1, <2>1, SeqDef
<1>3. sem \in Semaphores
  BY <1>2, ConstantTypes DEF Init, Semaphores
<1>4. slot \in Semaphores
  BY DEF Init, Semaphores
<1>5. job \in [Seeds -> Jobs]
  BY NoJobType DEF Init
<1>6. pc \in [Seeds -> PCs] /\ row \in [Seeds -> Rows]
  BY DEF Init, PCs, Ready, Rows
<1> QED
  BY <1>3, <1>4, <1>5, <1>6 DEF Init, TypeOK, Jobs, Semaphores, Hard

LEMMA CancelType ==
  ASSUME TypeOK, NEW s \in Seeds, CancelReservation(s)
  PROVE  bytesReserved' \in Int /\ costReserved' \in Int
<1>1. HeldCost(s) \in Nat
  BY ConstantTypes DEF HeldCost
<1> QED
  BY <1>1, CounterTypes, ConstantTypes DEF CancelReservation

LEMMA StartType ==
  ASSUME TypeOK, NEW s \in Seeds, NEW extra \in Nat,
         NEW transform \in BOOLEAN, NEW holdsSlot \in BOOLEAN,
         Start(s, extra, transform, holdsSlot)
  PROVE  job' \in [Seeds -> Jobs] /\ bytesReserved' \in Int
<1>1. RenderAllowed(extra) \in BOOLEAN
  BY DEF RenderAllowed
<1>2. [NoJob EXCEPT !.transform = transform, !.slot = holdsSlot,
                    !.render = RenderAllowed(extra)] \in Jobs
  BY <1>1 DEF NoJob, NoFirst, Jobs
<1>3. job' \in [Seeds -> Jobs]
  BY <1>2 DEF Start, TypeOK, Jobs
<1>4. bytesReserved' = bytesReserved + extra
                        + (IF RenderAllowed(extra) THEN RenderReserve ELSE 0)
  BY DEF Start
<1>5. bytesReserved' \in Int
  BY <1>1, <1>4, CounterTypes, ConstantTypes
<1> QED
  BY <1>3, <1>5

LEMMA StepType == TypeOK /\ [Next]_vars => TypeOK'
<1> SUFFICES ASSUME TypeOK, [Next]_vars
             PROVE  TypeOK'
  OBVIOUS
<1>t. /\ job \in [Seeds -> Jobs] /\ sem \in Semaphores /\ slot \in Semaphores
  BY DEF TypeOK, Jobs, Semaphores
<1>1. ASSUME NEW s \in Seeds, EnterGate(s)
      PROVE  TypeOK'
  BY <1>1 DEF EnterGate, TypeOK, PCs, walls, budget, caps
<1>2. ASSUME NEW s \in Seeds, RefuseAdmission(s)
      PROVE  TypeOK'
  <2>1. AdmitRefusal(s) \in Rows \cap Breaches
    BY <1>2 DEF RefuseAdmission, AdmitRefusal, Hard, Rows, Breaches
  <2> QED
    BY <1>2, <2>1, LeaveType
    DEF RefuseAdmission, Record, Disclose, TypeOK, Jobs, Semaphores, walls,
        budget, caps
<1>3. ASSUME NEW s \in Seeds, MissDeadline(s)
      PROVE  TypeOK'
  BY <1>3, LeaveType
  DEF MissDeadline, Record, Disclose, TypeOK, Jobs, Semaphores, Rows, Breaches,
      walls, budget, caps
<1>4. ASSUME NEW s \in Seeds, RefuseBudget(s)
      PROVE  TypeOK'
  BY <1>4, LeaveType
  DEF RefuseBudget, Record, Disclose, TypeOK, Jobs, Semaphores, Rows, Breaches,
      Hard, walls, budget
<1>5. ASSUME NEW s \in Seeds, DispatchRaw(s)
      PROVE  TypeOK'
  <2>1. CostFits \in BOOLEAN
    BY DEF CostFits
  <2>2. job' \in [Seeds -> Jobs] /\ bytesReserved' \in Int
    BY <1>5, <2>1, StartType, ConstantTypes DEF DispatchRaw
  <2>3. costReserved' \in Int
    BY <1>5, ConstantTypes DEF DispatchRaw, TypeOK
  <2> QED
    BY <1>5, <2>2, <2>3
    DEF DispatchRaw, TypeOK, Jobs, PCs, Executing, walls, caps
<1>6. ASSUME NEW s \in Seeds, AskForSlot(s)
      PROVE  TypeOK'
  <2>1. job' \in [Seeds -> Jobs]
    BY <1>6, <1>t DEF AskForSlot, Jobs
  <2>2. bytesReserved' \in Int /\ costReserved' \in Int
    <3>1. /\ bytesReserved' = bytesReserved + PerSeedMaxBytes
          /\ costReserved' = costReserved + PerSeedCost
      BY <1>6 DEF AskForSlot
    <3> QED
      BY <3>1, CounterTypes, ConstantTypes
  <2>3. slot' \in Semaphores /\ pc' \in [Seeds -> PCs]
    <3>1. CASE slot.active < 1
      <4>1. [slot EXCEPT !.active = @ + 1] \in Semaphores
        BY <1>t DEF Semaphores
      <4> QED
        BY <1>6, <3>1, <4>1 DEF AskForSlot, TypeOK, PCs, Ready
    <3>2. CASE ~(slot.active < 1)
      <4>1. Append(slot.waiters, s) \in Seq(Seeds)
        BY <1>t, AppendProperties DEF Semaphores
      <4>2. [slot EXCEPT !.waiters = Append(@, s)] \in Semaphores
        BY <1>t, <4>1 DEF Semaphores
      <4> QED
        BY <1>6, <3>2, <4>2 DEF AskForSlot, TypeOK, PCs
    <3> QED
      BY <3>1, <3>2
  <2> QED
    BY <1>6, <2>1, <2>2, <2>3
    DEF AskForSlot, TypeOK, Jobs, Semaphores, walls, caps
<1>7. ASSUME NEW s \in Seeds, DropOnHardStop(s)
      PROVE  TypeOK'
  <2>1. bytesReserved' \in Int /\ costReserved' \in Int
    BY <1>7, CancelType DEF DropOnHardStop
  <2>2. shortCircuit \in Rows
    BY <1>7 DEF DropOnHardStop, Hard, Rows
  <2> QED
    BY <1>7, <2>1, <2>2, LeaveType
    DEF DropOnHardStop, CancelReservation, Record, TypeOK, Jobs, Semaphores,
        walls, caps
<1>8. ASSUME NEW s \in Seeds, DowngradeToRaw(s)
      PROVE  TypeOK'
  <2>1. job' \in [Seeds -> Jobs] /\ bytesReserved' \in Int
    BY <1>8, StartType DEF DowngradeToRaw
  <2>2. slot' \in Semaphores
    BY <1>8, <1>t, ReleasedType DEF DowngradeToRaw
  <2>3. pc' \in [Seeds -> PCs]
    BY <1>8 DEF DowngradeToRaw, TypeOK, PCs, Ready, Executing
  <2> QED
    BY <1>8, <2>1, <2>2, <2>3
    DEF DowngradeToRaw, TypeOK, Jobs, Semaphores, walls, caps
<1>9. ASSUME NEW s \in Seeds, StartTransform(s)
      PROVE  TypeOK'
  <2>1. job' \in [Seeds -> Jobs] /\ bytesReserved' \in Int
    BY <1>9, StartType DEF StartTransform
  <2> QED
    BY <1>9, <2>1
    DEF StartTransform, TypeOK, Jobs, PCs, Executing, walls, caps
<1>10. ASSUME NEW s \in Seeds, LoseSlot(s)
       PROVE  TypeOK'
  BY <1>10
  DEF LoseSlot, Record, Disclose, TypeOK, PCs, Rows, Breaches, walls, budget, caps
<1>11. ASSUME NEW s \in Seeds, LoseTransformSlot(s)
       PROVE  TypeOK'
  <2>1. bytesReserved' \in Int /\ costReserved' \in Int
    BY <1>11, CancelType DEF LoseTransformSlot
  <2> QED
    BY <1>11, <2>1, LeaveType
    DEF LoseTransformSlot, CancelReservation, Record, Disclose, TypeOK, Jobs,
        Semaphores, Rows, Breaches, walls, caps
<1>12. ASSUME NEW s \in Seeds, SettleAbandoned(s)
       PROVE  TypeOK'
  <2>1. job[s].first.bytes \in Nat /\ job[s].first.hosts \in SUBSET Hosts
    BY <1>t DEF Jobs
  <2>2. wire' \in Nat
    BY <1>12, <2>1, ConstantTypes DEF SettleAbandoned, TypeOK
  <2> QED
    BY <1>12, <2>1, <2>2, FinishType DEF SettleAbandoned, Rows
<1>13. ASSUME NEW s \in Seeds, SettleThrown(s)
       PROVE  TypeOK'
  <2>1. wire' \in Nat
    BY <1>13 DEF SettleThrown, TypeOK
  <2> QED
    BY <1>13, <2>1, FinishType DEF SettleThrown, Rows
<1>14. ASSUME NEW s \in Seeds, Retry(s)
       PROVE  TypeOK'
  BY <1>14 DEF Retry, TypeOK, PCs, Executing, walls, budget, caps
<1>15. ASSUME NEW s \in Seeds, GiveUpRetry(s)
       PROVE  TypeOK'
  <2>1. job[s].first.bytes \in Nat /\ job[s].first.hosts \in SUBSET Hosts
    BY <1>t DEF Jobs
  <2>2. wire' \in Nat
    BY <1>15, <2>1 DEF GiveUpRetry, TypeOK
  <2> QED
    BY <1>15, <2>1, <2>2, FinishType DEF GiveUpRetry, Rows
<1>16. ASSUME NEW s \in Seeds, Settle(s)
       PROVE  TypeOK'
  <2>1. job[s].first.bytes \in Nat /\ job[s].first.hosts \in SUBSET Hosts
    BY <1>t DEF Jobs
  <2>2. PICK a \in Answers(s) :
          /\ Finish(s, job[s].first.bytes + Reported(a), a.cost,
                    job[s].first.hosts \cup a.hosts, a.rendered, "settled")
          /\ wire' = wire + job[s].first.bytes + a.doc + a.sub
    BY <1>16 DEF Settle
  <2>3. /\ a.doc \in Nat /\ a.sub \in Nat /\ a.cost \in Nat
        /\ a.hosts \in SUBSET Hosts /\ a.rendered \in BOOLEAN
    BY ConstantTypes DEF Answers
  <2>4. wire' \in Nat /\ job[s].first.bytes + Reported(a) \in Nat
    BY <2>1, <2>2, <2>3, CounterTypes, ReportedType
  <2>5. job[s].first.hosts \cup a.hosts \in SUBSET Hosts
    BY <2>1, <2>3
  <2> QED
    BY <2>2, <2>3, <2>4, <2>5, FinishType DEF Rows
<1>17. ASSUME NEW s \in Seeds, AwaitRetryAfter(s)
       PROVE  TypeOK'
  <2>1. PICK doc \in DocBytes, hosts \in EgressSets :
          job' = [job EXCEPT ![s].retry = TRUE,
                             ![s].first = [bytes |-> doc, hosts |-> hosts]]
    BY <1>17 DEF AwaitRetryAfter
  <2>2. doc \in Nat /\ hosts \in SUBSET Hosts
    BY ConstantTypes
  <2>3. job' \in [Seeds -> Jobs]
    <3>1. job[s] \in Jobs
      BY <1>t
    <3>2. [job[s] EXCEPT !.retry = TRUE, !.first = [bytes |-> doc, hosts |-> hosts]] \in Jobs
      BY <2>2, <3>1 DEF Jobs
    <3> QED
      BY <1>t, <2>1, <3>2
  <2>4. bytesReserved' \in Int
    BY <1>17, <1>t, ReserveTypes DEF AwaitRetryAfter, TypeOK
  <2> QED
    <3>1. UNCHANGED <<sem, slot, walls, bytesSettled, costReserved, costSettled, caps,
                      capBreaches, row, wire>>
      BY <1>17 DEF AwaitRetryAfter
    <3>2. pc' \in [Seeds -> PCs]
      <4>1. "backoff" \in PCs
        BY DEF PCs
      <4>2. pc \in [Seeds -> PCs]
        BY DEF TypeOK
      <4>3. pc' = [pc EXCEPT ![s] = "backoff"]
        BY <1>17 DEF AwaitRetryAfter
      <4> QED
        BY <4>1, <4>2, <4>3
    <3> QED
      BY <2>3, <2>4, <3>1, <3>2 DEF TypeOK, Jobs, walls, caps
<1>18. ASSUME NEW s \in Seeds, Throw(s)
       PROVE  TypeOK'
  <2>1. job[s].first.bytes \in Nat
    BY <1>t DEF Jobs
  <2>2. wire' \in Nat
    <3>1. PICK doc \in DocBytes : wire' = wire + job[s].first.bytes + doc
      BY <1>18 DEF Throw
    <3> QED
      BY <2>1, <3>1, CounterTypes, ConstantTypes
  <2>3. bytesReserved' \in Int
    BY <1>18, <1>t, ReserveTypes DEF Throw, TypeOK
  <2>4. job' \in [Seeds -> Jobs]
    <3>1. job[s] \in Jobs
      BY <1>t
    <3>2. [job[s] EXCEPT !.retry = FALSE, !.first = NoFirst] \in Jobs
      BY <3>1 DEF Jobs, NoFirst
    <3> QED
      BY <1>18, <1>t, <3>2 DEF Throw
  <2> QED
    <3>1. UNCHANGED <<sem, slot, walls, bytesSettled, costReserved, costSettled, caps,
                      capBreaches, row>>
      BY <1>18 DEF Throw
    <3>2. pc' \in [Seeds -> PCs]
      <4>1. "threw" \in PCs
        BY DEF PCs, Ready
      <4>2. pc \in [Seeds -> PCs]
        BY DEF TypeOK
      <4>3. pc' = [pc EXCEPT ![s] = "threw"]
        BY <1>18 DEF Throw
      <4> QED
        BY <4>1, <4>2, <4>3
    <3> QED
      BY <2>2, <2>3, <2>4, <3>1, <3>2 DEF TypeOK, Jobs, walls, caps
<1>19. CASE WallAbort
  <2>1. sem' \in Semaphores /\ slot' \in Semaphores
    <3>1. <<>> \in Seq(Seeds)
      OBVIOUS
    <3>2. \A semaphore \in Semaphores :
            [semaphore EXCEPT !.waiters = <<>>] \in Semaphores
      BY <3>1 DEF Semaphores
    <3> QED
      BY <1>19, <1>t, <3>2 DEF WallAbort
  <2>2. pc' \in [Seeds -> PCs]
    BY <1>19 DEF WallAbort, AfterAbort, TypeOK, PCs, Ready, Executing
  <2> QED
    BY <1>19, <2>1, <2>2 DEF WallAbort, TypeOK, Semaphores, budget, caps
<1>20. CASE ClockPasses
  BY <1>20 DEF ClockPasses, TypeOK, budget, caps
<1>21. CASE UNCHANGED vars
  BY <1>21 DEF vars, walls, budget, caps, TypeOK
<1> QED
  BY <1>1, <1>2, <1>3, <1>4, <1>5, <1>6, <1>7, <1>8, <1>9, <1>10, <1>11, <1>12,
     <1>13, <1>14, <1>15, <1>16, <1>17, <1>18, <1>19, <1>20, <1>21
  DEF Next, Continue, LeaveGate, LeaveBackoff, Returned

(* Every variable keeps its type in every behaviour: in particular the     *)
(* settled byte and cost counters and the render count are never negative. *)
THEOREM TypeCorrect == Spec => []TypeOK
BY InitType, StepType, PTL DEF Spec

----------------------------------------------------------------------------
(* The byte budget.  What a seed reports never exceeds what it reserved,   *)
(* so that settling it only lowers settled + reserved; the remaining steps *)
(* either test Fits in the block in which they reserve, or release.        *)

(* A first answer is kept only beside the retry it reserved, and fits in   *)
(* the reservation of the first attempt.                                   *)
FirstWithin ==
  \A s \in Seeds :
    job[s].first.bytes <= IF job[s].retry THEN AttemptReserve(job[s]) ELSE 0

BudgetInv == TypeOK /\ FirstWithin /\ BudgetBounded

LEMMA NoJobWithin ==
  NoJob.first.bytes <= IF NoJob.retry THEN AttemptReserve(NoJob) ELSE 0
BY DEF NoJob, NoFirst

LEMMA FirstWithinStep == TypeOK /\ FirstWithin /\ [Next]_vars => FirstWithin'
<1> SUFFICES ASSUME TypeOK, FirstWithin, [Next]_vars
             PROVE  FirstWithin'
  OBVIOUS
<1>t. job \in [Seeds -> Jobs]
  BY DEF TypeOK, Jobs
<1>1. ASSUME NEW s \in Seeds, job' = [job EXCEPT ![s] = NoJob]
      PROVE  FirstWithin'
  BY <1>t, <1>1, NoJobWithin DEF FirstWithin, AttemptReserve
<1>2. ASSUME UNCHANGED job
      PROVE  FirstWithin'
  BY <1>2 DEF FirstWithin, AttemptReserve
<1>3. ASSUME NEW s \in Seeds, NEW extra, NEW transform, NEW holdsSlot,
             Start(s, extra, transform, holdsSlot)
      PROVE  FirstWithin'
  <2>1. \A t \in Seeds : t # s => job'[t] = job[t]
    BY <1>3, <1>t DEF Start
  <2>2. job'[s].first.bytes = 0 /\ job'[s].retry = FALSE
    BY <1>3, <1>t DEF Start, NoJob, NoFirst
  <2> QED
    BY <2>1, <2>2 DEF FirstWithin, AttemptReserve
<1>4. ASSUME NEW s \in Seeds, AskForSlot(s)
      PROVE  FirstWithin'
  BY <1>4, <1>t DEF AskForSlot, FirstWithin, AttemptReserve, Jobs
<1>5. ASSUME NEW s \in Seeds, AwaitRetryAfter(s)
      PROVE  FirstWithin'
  <2>1. PICK doc \in DocBytes, hosts \in EgressSets :
          job' = [job EXCEPT ![s].retry = TRUE,
                             ![s].first = [bytes |-> doc, hosts |-> hosts]]
    BY <1>5 DEF AwaitRetryAfter
  <2>2. \A t \in Seeds : t # s => job'[t] = job[t]
    BY <2>1, <1>t
  <2>3. /\ job'[s].first.bytes = doc /\ job'[s].retry = TRUE
        /\ job'[s].render = job[s].render
    BY <2>1, <1>t DEF Jobs
  <2>4. doc <= AttemptReserve(job'[s])
    BY <2>3, ConstantTypes DEF AttemptReserve
  <2> QED
    BY <2>2, <2>3, <2>4 DEF FirstWithin, AttemptReserve
<1>6. ASSUME NEW s \in Seeds, Throw(s)
      PROVE  FirstWithin'
  <2>1. \A t \in Seeds : t # s => job'[t] = job[t]
    BY <1>6, <1>t DEF Throw
  <2>2. job'[s].first.bytes = 0 /\ job'[s].retry = FALSE
    BY <1>6, <1>t DEF Throw, Jobs, NoFirst
  <2> QED
    BY <2>1, <2>2 DEF FirstWithin, AttemptReserve
<1>7. ASSUME NEW s \in Seeds, Continue(s)
      PROVE  FirstWithin'
  BY <1>1, <1>2, <1>3, <1>7
  DEF Continue, EnterGate, RefuseAdmission, DropOnHardStop, DowngradeToRaw,
      StartTransform, LoseSlot, LoseTransformSlot, SettleAbandoned,
      SettleThrown, Finish, Leave
<1>8. ASSUME NEW s \in Seeds, LeaveGate(s)
      PROVE  FirstWithin'
  BY <1>1, <1>3, <1>4, <1>8
  DEF LeaveGate, MissDeadline, RefuseBudget, DispatchRaw, Leave
<1>9. ASSUME NEW s \in Seeds, LeaveBackoff(s) \/ Settle(s)
      PROVE  FirstWithin'
  BY <1>1, <1>2, <1>9 DEF LeaveBackoff, Retry, GiveUpRetry, Settle, Finish, Leave
<1> QED
  BY <1>2, <1>5, <1>6, <1>7, <1>8, <1>9
  DEF Next, WallAbort, ClockPasses, Returned, vars

(* Everything seed s reports is within what it holds.                      *)
LEMMA ReportWithin ==
  ASSUME TypeOK, FirstWithin, NEW s \in Seeds
  PROVE  /\ job[s].first.bytes \in Nat /\ Held(s) \in Nat
         /\ AttemptReserve(job[s]) \in Nat
         /\ PerSeedMaxBytes <= AttemptReserve(job[s])
         /\ job[s].first.bytes <= Held(s)
         /\ job[s].first.bytes + AttemptReserve(job[s]) <= Held(s)
<1>1. job[s] \in Jobs
  BY DEF TypeOK, Jobs
<1>2. AttemptReserve(job[s]) \in Nat /\ PerSeedMaxBytes <= AttemptReserve(job[s])
  BY <1>1, ConstantTypes DEF AttemptReserve, Jobs
<1>3. job[s].first.bytes \in Nat /\ job[s].retry \in BOOLEAN
  BY <1>1 DEF Jobs
<1>4. job[s].first.bytes <= IF job[s].retry THEN AttemptReserve(job[s]) ELSE 0
  BY DEF FirstWithin
<1> QED
  BY <1>2, <1>3, <1>4 DEF Held

LEMMA AnswerWithin ==
  ASSUME TypeOK, NEW s \in Seeds, NEW a \in Answers(s)
  PROVE  /\ a.doc \in Nat /\ a.sub \in Nat
         /\ a.doc + a.sub <= AttemptReserve(job[s])
         /\ Reported(a) \in Nat /\ Reported(a) <= a.doc + a.sub
<1>1. /\ a.doc \in Nat /\ a.doc <= PerSeedMaxBytes
      /\ a.sub \in Nat /\ a.sub <= RenderReserve
      /\ a.sub # 0 => job[s].render
  BY ConstantTypes DEF Answers
<1>2. job[s].render \in BOOLEAN
  BY DEF TypeOK
<1>3. a.doc + a.sub <= AttemptReserve(job[s])
  <2>1. CASE job[s].render
    BY <1>1, <2>1, ConstantTypes DEF AttemptReserve
  <2>2. CASE ~job[s].render
    <3>1. AttemptReserve(job[s]) = PerSeedMaxBytes /\ a.sub = 0
      BY <1>1, <2>2, ConstantTypes DEF AttemptReserve
    <3> QED
      BY <1>1, <3>1
  <2> QED
    BY <1>2, <2>1, <2>2
<1>4. Reported(a) \in Nat /\ Reported(a) <= a.doc + a.sub
  BY <1>1, ReportedType
<1> QED
  BY <1>1, <1>3, <1>4

LEMMA FinishWithin ==
  ASSUME TypeOK, FirstWithin, BudgetBounded, NEW s \in Seeds, NEW bytes \in Nat,
         bytes <= Held(s), NEW cost, NEW hosts, NEW rendered, NEW r,
         Finish(s, bytes, cost, hosts, rendered, r)
  PROVE  BudgetBounded'
<1>1. /\ bytesReserved' = bytesReserved - Held(s)
      /\ bytesSettled' = bytesSettled + bytes
  BY DEF Finish, AfterSeed
<1> QED
  BY <1>1, CounterTypes, ConstantTypes, ReportWithin DEF BudgetBounded

LEMMA BudgetStep == BudgetInv /\ [Next]_vars => BudgetBounded'
<1> SUFFICES ASSUME TypeOK, FirstWithin, BudgetBounded, [Next]_vars
             PROVE  BudgetBounded'
  BY DEF BudgetInv
<1> USE CounterTypes, ConstantTypes
<1>1. ASSUME UNCHANGED <<bytesSettled, bytesReserved>>
      PROVE  BudgetBounded'
  BY <1>1 DEF BudgetBounded
<1>2. ASSUME NEW s \in Seeds, NEW extra \in Nat, NEW transform, NEW holdsSlot,
             Start(s, extra, transform, holdsSlot), UNCHANGED bytesSettled,
             bytesSettled + bytesReserved + extra <= MaxEgress
      PROVE  BudgetBounded'
  <2>1. CASE RenderAllowed(extra)
    <3>1. bytesSettled + bytesReserved + (extra + RenderReserve) <= MaxEgress
      BY <2>1 DEF RenderAllowed, Fits
    <3>2. bytesReserved' = bytesReserved + extra + RenderReserve
      BY <1>2, <2>1 DEF Start
    <3> QED
      BY <1>2, <3>1, <3>2 DEF BudgetBounded
  <2>2. CASE ~RenderAllowed(extra)
    <3>1. bytesReserved' = bytesReserved + extra + 0
      BY <1>2, <2>2 DEF Start
    <3> QED
      BY <1>2, <3>1 DEF BudgetBounded
  <2> QED
    BY <2>1, <2>2
<1>3. ASSUME NEW s \in Seeds, CancelReservation(s)
      PROVE  BudgetBounded'
  BY <1>3 DEF CancelReservation, BudgetBounded
<1>4. ASSUME NEW s \in Seeds, DispatchRaw(s)
      PROVE  BudgetBounded'
  BY <1>2, <1>4 DEF DispatchRaw, Fits
<1>5. ASSUME NEW s \in Seeds, AskForSlot(s)
      PROVE  BudgetBounded'
  <2>1. /\ bytesReserved' = bytesReserved + PerSeedMaxBytes
        /\ bytesSettled' = bytesSettled
        /\ bytesSettled + bytesReserved + PerSeedMaxBytes <= MaxEgress
    BY <1>5 DEF AskForSlot, Fits
  <2> QED
    BY <2>1 DEF BudgetBounded
<1>6. ASSUME NEW s \in Seeds, DowngradeToRaw(s) \/ StartTransform(s)
      PROVE  BudgetBounded'
  <2>1. /\ Start(s, 0, TRUE, TRUE) \/ Start(s, 0, TRUE, FALSE)
        /\ UNCHANGED bytesSettled
    BY <1>6 DEF DowngradeToRaw, StartTransform
  <2>2. bytesSettled + bytesReserved + 0 <= MaxEgress
    BY DEF BudgetBounded
  <2> QED
    BY <1>2, <2>1, <2>2
<1>7. ASSUME NEW s \in Seeds, SettleAbandoned(s) \/ GiveUpRetry(s)
      PROVE  BudgetBounded'
  BY <1>7, ReportWithin, FinishWithin DEF SettleAbandoned, GiveUpRetry
<1>8. ASSUME NEW s \in Seeds, SettleThrown(s)
      PROVE  BudgetBounded'
  <2>1. 0 \in Nat /\ 0 <= Held(s)
    BY ReportWithin
  <2>2. Finish(s, 0, 0, {}, FALSE, "threw")
    BY <1>8 DEF SettleThrown
  <2> QED
    BY <2>1, <2>2, FinishWithin
<1>9. ASSUME NEW s \in Seeds, Settle(s)
      PROVE  BudgetBounded'
  <2>1. PICK a \in Answers(s) :
          Finish(s, job[s].first.bytes + Reported(a), a.cost,
                 job[s].first.hosts \cup a.hosts, a.rendered, "settled")
    BY <1>9 DEF Settle
  <2>2. /\ job[s].first.bytes + Reported(a) \in Nat
        /\ job[s].first.bytes + Reported(a) <= Held(s)
    BY AnswerWithin, ReportWithin
  <2> QED
    BY <2>1, <2>2, FinishWithin
<1>10. ASSUME NEW s \in Seeds, AwaitRetryAfter(s)
       PROVE  BudgetBounded'
  <2>1. /\ bytesReserved' = bytesReserved + AttemptReserve(job[s])
        /\ bytesSettled' = bytesSettled
        /\ bytesSettled + bytesReserved + AttemptReserve(job[s]) <= MaxEgress
    BY <1>10 DEF AwaitRetryAfter, RetryFits, Fits
  <2> QED
    BY <2>1, ReportWithin DEF BudgetBounded
<1>11. ASSUME NEW s \in Seeds, Throw(s)
       PROVE  BudgetBounded'
  <2>1. /\ bytesReserved' = bytesReserved
                           - (IF job[s].retry THEN AttemptReserve(job[s]) ELSE 0)
        /\ bytesSettled' = bytesSettled
    BY <1>11 DEF Throw
  <2>2. AttemptReserve(job[s]) \in Nat
    BY ReportWithin
  <2>3. bytesReserved' <= bytesReserved /\ bytesReserved' \in Int
    BY <2>1, <2>2
  <2> QED
    BY <2>1, <2>3 DEF BudgetBounded
<1>12. ASSUME NEW s \in Seeds, Continue(s)
       PROVE  BudgetBounded'
  BY <1>1, <1>3, <1>6, <1>7, <1>8, <1>12
  DEF Continue, EnterGate, RefuseAdmission, DropOnHardStop, LoseSlot,
      LoseTransformSlot, budget
<1>13. ASSUME NEW s \in Seeds, LeaveGate(s)
       PROVE  BudgetBounded'
  BY <1>1, <1>4, <1>5, <1>13 DEF LeaveGate, MissDeadline, RefuseBudget, budget
<1>14. ASSUME NEW s \in Seeds, LeaveBackoff(s)
       PROVE  BudgetBounded'
  BY <1>1, <1>7, <1>14 DEF LeaveBackoff, Retry, budget
<1> QED
  BY <1>1, <1>9, <1>10, <1>11, <1>12, <1>13, <1>14
  DEF Next, WallAbort, ClockPasses, Returned, vars, budget

LEMMA InitBudget == Init => BudgetInv
<1>1. Init => FirstWithin
  BY NoJobWithin DEF Init, FirstWithin, AttemptReserve
<1>2. Init => BudgetBounded
  BY ConstantTypes DEF Init, BudgetBounded
<1> QED
  BY <1>1, <1>2, InitType DEF BudgetInv

(* settled + reserved never exceeds maxGlobalEgressBytes, for any number   *)
(* of seeds and any interleaving of their reservations, renders, retries,  *)
(* cancellations, throws and the wall.                                     *)
THEOREM BudgetStaysBounded == Spec => []BudgetBounded
<1>1. BudgetInv /\ [Next]_vars => BudgetInv'
  BY StepType, FirstWithinStep, BudgetStep DEF BudgetInv
<1>2. BudgetInv => BudgetBounded
  BY DEF BudgetInv
<1> QED
  BY InitBudget, <1>1, <1>2, PTL DEF Spec

----------------------------------------------------------------------------
(* The wall.  A seed that holds the transform slot starts its execution    *)
(* without reading the wall again; nobody is there once the signal has     *)
(* fired, because it waits for ready continuations and empties the queue.  *)
SlotIdle == slot.waiters = <<>> /\ \A s \in Seeds : pc[s] # "slotReady"
WallInv == TypeOK /\ (aborted => SlotIdle)
Starts == \E s \in Seeds : pc'[s] \in Executing /\ pc[s] \notin Executing

(* After the wall a seed that returns hands the slot to nobody.            *)
LEMMA LeaveIdle ==
  ASSUME TypeOK, SlotIdle, NEW s \in Seeds, NEW holdsSlot \in BOOLEAN, Leave(s, holdsSlot)
  PROVE  SlotIdle' /\ ~Starts
<1>1. Heirs(slot) = {} /\ Released(slot).waiters = <<>>
  BY DEF SlotIdle, Heirs, Released, TypeOK
<1>2. slot'.waiters = <<>>
  BY <1>1 DEF Leave, SlotIdle
<1>3. \A t \in Seeds : pc'[t] \in {"done", "admitted", pc[t]}
  BY <1>1 DEF Leave
<1> QED
  BY <1>2, <1>3 DEF SlotIdle, Starts, Executing

(* No step starts an execution after the wall, nor leads to one that does. *)
LEMMA WallStep ==
  ASSUME TypeOK, aborted, SlotIdle, [Next]_vars
  PROVE  SlotIdle' /\ ~Starts
<1>1. ASSUME UNCHANGED <<pc, slot>>
      PROVE  SlotIdle' /\ ~Starts
  BY <1>1 DEF SlotIdle, Starts
<1>2. ASSUME NEW s \in Seeds, NEW at, at \notin Executing \cup {"slotReady"},
             pc' = [pc EXCEPT ![s] = at], UNCHANGED slot
      PROVE  SlotIdle' /\ ~Starts
  BY <1>2 DEF SlotIdle, Starts, TypeOK
<1>j. \A s \in Seeds : job[s].slot \in BOOLEAN
  BY DEF TypeOK
<1>3. ASSUME NEW s \in Seeds, NEW bytes, NEW cost, NEW hosts, NEW rendered, NEW r,
             Finish(s, bytes, cost, hosts, rendered, r)
      PROVE  SlotIdle' /\ ~Starts
  BY <1>3, <1>j, LeaveIdle DEF Finish
<1>4. ASSUME NEW s \in Seeds, Continue(s)
      PROVE  SlotIdle' /\ ~Starts
  <2>1. pc[s] # "slotReady"
    BY DEF SlotIdle
  <2>2. CASE EnterGate(s) \/ LoseSlot(s)
    BY <1>2, <2>2 DEF EnterGate, LoseSlot, Executing
  <2>3. CASE RefuseAdmission(s) \/ LoseTransformSlot(s)
    BY <2>3, LeaveIdle DEF RefuseAdmission, LoseTransformSlot
  <2>4. CASE SettleAbandoned(s) \/ SettleThrown(s)
    BY <1>3, <2>4 DEF SettleAbandoned, SettleThrown
  <2> QED
    BY <1>4, <2>1, <2>2, <2>3, <2>4
    DEF Continue, DropOnHardStop, DowngradeToRaw, StartTransform
<1>5. ASSUME NEW s \in Seeds, LeaveGate(s)
      PROVE  SlotIdle' /\ ~Starts
  BY <1>5, LeaveIdle
  DEF LeaveGate, MissDeadline, RefuseBudget, DispatchRaw, AskForSlot, WallReached
<1>6. ASSUME NEW s \in Seeds, LeaveBackoff(s)
      PROVE  SlotIdle' /\ ~Starts
  BY <1>3, <1>6 DEF LeaveBackoff, Retry, GiveUpRetry, WallReached
<1>7. ASSUME NEW s \in Seeds, Settle(s)
      PROVE  SlotIdle' /\ ~Starts
  BY <1>3, <1>7 DEF Settle
<1>8. ASSUME NEW s \in Seeds, AwaitRetryAfter(s) \/ Throw(s)
      PROVE  SlotIdle' /\ ~Starts
  BY <1>2, <1>8 DEF AwaitRetryAfter, Throw, Executing
<1> QED
  BY <1>1, <1>4, <1>5, <1>6, <1>7, <1>8 DEF Next, WallAbort, ClockPasses, Returned, vars

LEMMA WallFires == TypeOK /\ WallAbort => SlotIdle'
BY DEF TypeOK, WallAbort, AfterAbort, SlotIdle, Ready

(* The wall stays up: once the signal has fired nobody holds the slot idly.  *)
LEMMA WallKept == WallInv /\ [Next]_vars => WallInv'
<1> SUFFICES ASSUME TypeOK, aborted => SlotIdle, [Next]_vars, aborted'
             PROVE  SlotIdle'
  BY StepType DEF WallInv
<1>1. CASE aborted
  BY <1>1, WallStep
<1>2. CASE ~aborted
  <2>1. ASSUME UNCHANGED walls PROVE FALSE
    BY <1>2, <2>1 DEF walls
  <2>2. ASSUME NEW s \in Seeds, Continue(s) PROVE UNCHANGED walls
    BY <2>2 DEF Continue, EnterGate, RefuseAdmission, DropOnHardStop, DowngradeToRaw,
                StartTransform, LoseSlot, LoseTransformSlot, SettleAbandoned,
                SettleThrown, Finish
  <2>3. ASSUME NEW s \in Seeds, LeaveGate(s) \/ LeaveBackoff(s) PROVE UNCHANGED walls
    BY <2>3 DEF LeaveGate, MissDeadline, RefuseBudget, DispatchRaw, AskForSlot,
                LeaveBackoff, Retry, GiveUpRetry, Finish
  <2>4. ASSUME NEW s \in Seeds, Settle(s) \/ AwaitRetryAfter(s) \/ Throw(s)
        PROVE  UNCHANGED walls
    BY <2>4 DEF Settle, AwaitRetryAfter, Throw, Finish
  <2>5. ~ClockPasses /\ ~Returned /\ ~UNCHANGED vars
    BY <1>2, <2>1 DEF ClockPasses, Returned, vars, walls
  <2>6. WallAbort
    BY <2>1, <2>2, <2>3, <2>4, <2>5 DEF Next
  <2> QED
    BY <2>6, WallFires
<1> QED
  BY <1>1, <1>2 DEF TypeOK

(* After the wall signal nothing starts and nothing is retried, for any    *)
(* number of seeds: every place at which runPool dispatches either reads   *)
(* the wall in the block that dispatches or cannot be reached any more.    *)
THEOREM WallHolds == Spec => NoDispatchAfterWall
<1>1. Init => WallInv
  BY InitType DEF Init, WallInv
<1>2. WallInv /\ [Next]_vars => WallInv'
  BY WallKept
<1>3. WallInv /\ [Next]_vars
        => [aborted => \A s \in Seeds : pc'[s] \in Executing => pc[s] \in Executing]_vars
  BY WallStep DEF WallInv, Starts
<1> QED
  BY <1>1, <1>2, <1>3, PTL DEF Spec, NoDispatchAfterWall

----------------------------------------------------------------------------
(* Disclosure.  Not every refusal discloses its code in its own block: the *)
(* ones that only read shortCircuit rely on whoever set it.                *)
StopDisclosed == shortCircuit \in Hard => shortCircuit \in capBreaches
DisclosureInv == TypeOK /\ DisclosedBreaches /\ StopDisclosed

(* A seed gets a row whose code is disclosed by then, nothing disclosed is *)
(* taken back, and a stop is disclosed when it is set.                     *)
LEMMA RowKeeps ==
  ASSUME DisclosureInv, NEW s \in Seeds, NEW r, Record(s, r), capBreaches \subseteq capBreaches',
         r \in {"deadline", "egress", "host"} => r \in capBreaches',
         shortCircuit' \in Hard => shortCircuit' \in capBreaches'
  PROVE  DisclosedBreaches' /\ StopDisclosed'
<1>1. row'[s] = r /\ \A t \in Seeds \ {s} : row'[t] = row[t]
  BY DEF Record, DisclosureInv, TypeOK
<1> QED
  BY <1>1 DEF DisclosureInv, DisclosedBreaches, StopDisclosed

LEMMA FinishDiscloses ==
  ASSUME DisclosureInv, NEW s \in Seeds, NEW bytes, NEW cost, NEW hosts, NEW rendered,
         NEW r \in {"settled", "threw"}, Finish(s, bytes, cost, hosts, rendered, r)
  PROVE  DisclosedBreaches' /\ StopDisclosed'
<1> DEFINE breach == AfterBreach(s, bytes, cost)
<1>1. /\ capBreaches' = capBreaches \cup StopCodes(s, breach, hosts) /\ Record(s, r)
      /\ shortCircuit' = IF Quarantines(s, breach, hosts) THEN "host" ELSE AfterBudget(breach)
  BY DEF Finish, Disclose
<1>2. /\ Quarantines(s, breach, hosts) => "host" \in StopCodes(s, breach, hosts)
      /\ breach # "none" => breach \in StopCodes(s, breach, hosts)
  BY DEF StopCodes
<1>3. AfterBudget(breach) \in {breach, shortCircuit}
  BY DEF AfterBudget
<1> HIDE DEF breach
<1>4. shortCircuit' \in Hard => shortCircuit' \in capBreaches'
  BY <1>1, <1>2, <1>3 DEF Hard, DisclosureInv, StopDisclosed
<1> QED
  BY <1>1, <1>4, RowKeeps

LEMMA DisclosureStep == DisclosureInv /\ [Next]_vars => DisclosureInv'
<1> SUFFICES ASSUME DisclosureInv, [Next]_vars PROVE DisclosedBreaches' /\ StopDisclosed'
  BY StepType DEF DisclosureInv
<1>i. DisclosedBreaches /\ (shortCircuit \in Hard => shortCircuit \in capBreaches)
  BY DEF DisclosureInv, StopDisclosed
<1>1. ASSUME UNCHANGED <<row, shortCircuit, capBreaches>>
      PROVE  DisclosedBreaches' /\ StopDisclosed'
  BY <1>i, <1>1 DEF DisclosedBreaches, StopDisclosed
<1>2. ASSUME NEW s \in Seeds, RefuseAdmission(s)
      PROVE  DisclosedBreaches' /\ StopDisclosed'
  <2>1. /\ Record(s, AdmitRefusal(s)) /\ UNCHANGED shortCircuit
        /\ capBreaches' = capBreaches \cup IF ~WallReached /\ shortCircuit \in Hard
                                             THEN {} ELSE {AdmitRefusal(s)}
    BY <1>2 DEF RefuseAdmission, Disclose, caps
  <2>2. ~WallReached /\ shortCircuit \in Hard => AdmitRefusal(s) = shortCircuit
    BY DEF AdmitRefusal
  <2> QED
    BY <1>i, <2>1, <2>2, RowKeeps
<1>3. ASSUME NEW s \in Seeds, MissDeadline(s) \/ LoseSlot(s) \/ LoseTransformSlot(s)
      PROVE  DisclosedBreaches' /\ StopDisclosed'
  <2>1. /\ Record(s, "deadline") /\ UNCHANGED shortCircuit
        /\ capBreaches' = capBreaches \cup {"deadline"}
    BY <1>3 DEF MissDeadline, LoseSlot, LoseTransformSlot, Disclose, caps
  <2> QED
    BY <1>i, <2>1, RowKeeps
<1>4. ASSUME NEW s \in Seeds, RefuseBudget(s)
      PROVE  DisclosedBreaches' /\ StopDisclosed'
  <2>1. /\ Record(s, "egress") /\ capBreaches' = capBreaches \cup {"egress"}
        /\ shortCircuit' \in {"egress", shortCircuit}
    BY <1>4 DEF RefuseBudget, Disclose
  <2> QED
    BY <1>i, <2>1, RowKeeps
<1>5. ASSUME NEW s \in Seeds, DropOnHardStop(s)
      PROVE  DisclosedBreaches' /\ StopDisclosed'
  BY <1>i, <1>5, RowKeeps DEF DropOnHardStop, caps
<1>6. ASSUME NEW s \in Seeds,
             SettleAbandoned(s) \/ SettleThrown(s) \/ GiveUpRetry(s) \/ Settle(s)
      PROVE  DisclosedBreaches' /\ StopDisclosed'
  BY <1>6, FinishDiscloses DEF SettleAbandoned, SettleThrown, GiveUpRetry, Settle
<1>7. ASSUME NEW s \in Seeds,
             \/ EnterGate(s) \/ DowngradeToRaw(s) \/ StartTransform(s) \/ DispatchRaw(s)
             \/ AskForSlot(s) \/ Retry(s) \/ AwaitRetryAfter(s) \/ Throw(s)
      PROVE  DisclosedBreaches' /\ StopDisclosed'
  BY <1>1, <1>7
  DEF EnterGate, DowngradeToRaw, StartTransform, DispatchRaw, AskForSlot, Retry,
      AwaitRetryAfter, Throw, caps
<1> QED
  BY <1>1, <1>2, <1>3, <1>4, <1>5, <1>6, <1>7
  DEF Next, Continue, LeaveGate, LeaveBackoff, WallAbort, ClockPasses, Returned, vars, caps

(* Every seed that is refused or dropped has its reason among the cap      *)
(* breaches of the result, for any number of seeds: a hard stop is         *)
(* disclosed in the block that sets shortCircuit, so a seed may take its   *)
(* reason from there.                                                      *)
THEOREM RefusalsDisclosed == Spec => []DisclosedBreaches
<1>1. Init => DisclosureInv
  BY InitType DEF Init, DisclosureInv, DisclosedBreaches, StopDisclosed, Hard
<1>2. DisclosureInv => DisclosedBreaches
  BY DEF DisclosureInv
<1> QED
  BY <1>1, <1>2, DisclosureStep, PTL DEF Spec

----------------------------------------------------------------------------
(* The two semaphores.  The proofs of SlotPool are used of each pool, once *)
(* the steps of the seeds are shown to be steps of it.                     *)
FetchPool == INSTANCE SlotPoolProofs WITH
  Clients <- Seeds, Capacity <- MaxConcurrency,
  holders <- FetchHolders, queue <- sem.waiters

TransformPool == INSTANCE SlotPoolProofs WITH
  Clients <- Seeds, Capacity <- 1,
  holders <- SlotHolders, queue <- slot.waiters

FetchStep == [FetchPool!Next]_<<FetchHolders, sem.waiters>>
TransformStep == [TransformPool!Next]_<<SlotHolders, slot.waiters>>

(* Where a seed can be while its execution is under way.                   *)
Attempting == Executing \cup {"backoff", "abandoned", "threw"}

(* Whoever is in a queue is suspended in it; the transform slot's count is *)
(* right, and only a seed with an execution under way holds it by its job. *)
FetchTies == \A i \in DOMAIN sem.waiters : pc[sem.waiters[i]] = "queued"
TransformTies ==
  /\ \A i \in DOMAIN slot.waiters : pc[slot.waiters[i]] = "slotWait"
  /\ slot.active = Cardinality(SlotHolders)
  /\ \A s \in Seeds : job[s].slot => pc[s] \in Attempting
SemaphoreInv ==
  TypeOK /\ FetchPool!Safe /\ TransformPool!Safe /\ FetchTies /\ TransformTies
BothStep == FetchStep /\ TransformStep /\ FetchTies' /\ TransformTies'

LEMMA SeedCount ==
  /\ IsFiniteSet(Seeds)
  /\ \A S \in SUBSET Seeds :
       /\ Cardinality(S) \in Nat
       /\ \A s \in Seeds \ S : Cardinality(S \cup {s}) = Cardinality(S) + 1
       /\ \A s \in S : Cardinality(S \ {s}) = Cardinality(S) - 1
<1>1. IsFiniteSet(Seeds)
  BY ConstantTypes, FS_Interval DEF Seeds
<1>2. ASSUME NEW S \in SUBSET Seeds
      PROVE  /\ Cardinality(S) \in Nat
             /\ \A s \in Seeds \ S : Cardinality(S \cup {s}) = Cardinality(S) + 1
             /\ \A s \in S : Cardinality(S \ {s}) = Cardinality(S) - 1
  <2>1. IsFiniteSet(S)
    BY <1>1, FS_Subset
  <2> QED
    BY <2>1, FS_CardinalityType, FS_AddElement, FS_RemoveElement
<1> QED
  BY <1>1, <1>2

LEMMA PoolConstants ==
  /\ FetchPool!SlotAssumption /\ TransformPool!SlotAssumption
  /\ \A S : FetchPool!Cardinality(S) = Cardinality(S)
  /\ \A S : TransformPool!Cardinality(S) = Cardinality(S)
<1>1. FetchPool!IsFiniteSet(Seeds) /\ TransformPool!IsFiniteSet(Seeds)
  BY SeedCount DEF FetchPool!IsFiniteSet, TransformPool!IsFiniteSet, IsFiniteSet
<1> QED
  BY <1>1, ConstantTypes
  DEF FetchPool!SlotAssumption, TransformPool!SlotAssumption, FetchPool!Cardinality,
      TransformPool!Cardinality, Cardinality

(* A release hands the slot to the head of the queue, where everybody is   *)
(* suspended at the same await.                                            *)
LEMMA HeirFacts ==
  ASSUME NEW semaphore \in Semaphores, NEW at,
         \A i \in DOMAIN semaphore.waiters : pc[semaphore.waiters[i]] = at,
         \A i, j \in DOMAIN semaphore.waiters :
           semaphore.waiters[i] = semaphore.waiters[j] => i = j
  PROVE  LET ws == semaphore.waiters IN
         /\ ws = <<>> =>
              /\ Heirs(semaphore) = {}
              /\ Released(semaphore).waiters = <<>>
              /\ Released(semaphore).active
                   = IF semaphore.active > 0 THEN semaphore.active - 1 ELSE semaphore.active
         /\ ws # <<>> =>
              /\ Heirs(semaphore) = {Head(ws)} /\ Head(ws) \in Seeds /\ pc[Head(ws)] = at
              /\ Released(semaphore).waiters = Tail(ws)
              /\ Released(semaphore).active = semaphore.active
              /\ \A i \in DOMAIN Tail(ws) :
                   Tail(ws)[i] \in Seeds /\ Tail(ws)[i] # Head(ws) /\ pc[Tail(ws)[i]] = at
<1> DEFINE ws == semaphore.waiters
<1>1. ws \in Seq(Seeds) /\ Len(ws) \in Nat /\ DOMAIN ws = 1..Len(ws)
  BY LenProperties DEF Semaphores
<1>2. CASE ws = <<>>
  BY <1>2 DEF Heirs, Released, Semaphores
<1>3. CASE ws # <<>>
  <2>1. /\ Head(ws) = ws[1] /\ Head(ws) \in Seeds /\ Tail(ws) \in Seq(Seeds)
        /\ Len(Tail(ws)) = Len(ws) - 1 /\ Len(ws) # 0
        /\ \A i \in 1..Len(Tail(ws)) : Tail(ws)[i] = ws[i + 1]
    BY <1>1, <1>3, HeadTailProperties, EmptySeq
  <2>2. DOMAIN Tail(ws) = 1..(Len(ws) - 1)
    BY <2>1, LenProperties
  <2>3. ASSUME NEW i \in DOMAIN Tail(ws)
        PROVE  Tail(ws)[i] \in Seeds /\ Tail(ws)[i] # Head(ws) /\ pc[Tail(ws)[i]] = at
    <3>1. Tail(ws)[i] = ws[i + 1] /\ i + 1 \in DOMAIN ws /\ 1 \in DOMAIN ws /\ i + 1 # 1
      BY <1>1, <2>1, <2>2
    <3>2. ws[i + 1] \in Seeds
      BY <1>1, <3>1, ElementOfSeq
    <3>3. ws[i + 1] # ws[1] /\ pc[ws[i + 1]] = at
      BY <3>1
    <3> QED
      BY <2>1, <3>1, <3>2, <3>3
  <2>4. pc[Head(ws)] = at
    BY <1>1, <2>1
  <2>5. /\ Heirs(semaphore) = {Head(ws)} /\ Released(semaphore).waiters = Tail(ws)
        /\ Released(semaphore).active = semaphore.active
    BY <1>3 DEF Heirs, Released, Semaphores
  <2> QED
    BY <1>3, <2>1, <2>3, <2>4, <2>5
<1> QED
  BY <1>2, <1>3

LEMMA PoolTypes ==
  ASSUME SemaphoreInv
  PROVE  /\ sem \in Semaphores /\ slot \in Semaphores
         /\ job \in [Seeds -> Jobs] /\ pc \in [Seeds -> PCs]
         /\ FetchHolders \subseteq Seeds /\ SlotHolders \subseteq Seeds
         /\ \A i, j \in DOMAIN sem.waiters : sem.waiters[i] = sem.waiters[j] => i = j
         /\ \A i, j \in DOMAIN slot.waiters : slot.waiters[i] = slot.waiters[j] => i = j
BY DEF SemaphoreInv, TypeOK, Semaphores, Jobs, FetchHolders, SlotHolders, FetchPool!Safe,
       FetchPool!NoRepetition, TransformPool!Safe, TransformPool!NoRepetition

(* The heads of the queues that a leaving seed resolves are suspended in   *)
(* them.                                                                   *)
LEMMA HeirsHold ==
  ASSUME SemaphoreInv
  PROVE  /\ \A t \in Heirs(sem) : t \in Seeds /\ pc[t] = "queued"
         /\ \A t \in Heirs(slot) : t \in Seeds /\ pc[t] = "slotWait"
<1>1. /\ sem \in Semaphores /\ slot \in Semaphores
      /\ \A i \in DOMAIN sem.waiters : pc[sem.waiters[i]] = "queued"
      /\ \A i \in DOMAIN slot.waiters : pc[slot.waiters[i]] = "slotWait"
      /\ \A i, j \in DOMAIN sem.waiters : sem.waiters[i] = sem.waiters[j] => i = j
      /\ \A i, j \in DOMAIN slot.waiters : slot.waiters[i] = slot.waiters[j] => i = j
  BY PoolTypes DEF SemaphoreInv, FetchTies, TransformTies
<1>2. \A t \in Heirs(sem) : t \in Seeds /\ pc[t] = "queued"
  <2>1. CASE sem.waiters = <<>>
    BY <2>1 DEF Heirs
  <2>2. CASE sem.waiters # <<>>
    <3>1. /\ Heirs(sem) = {Head(sem.waiters)}
          /\ Head(sem.waiters) \in Seeds /\ pc[Head(sem.waiters)] = "queued"
      BY <1>1, <2>2, HeirFacts
    <3> QED
      BY <3>1
  <2> QED
    BY <2>1, <2>2
<1>3. \A t \in Heirs(slot) : t \in Seeds /\ pc[t] = "slotWait"
  <2>1. CASE slot.waiters = <<>>
    BY <2>1 DEF Heirs
  <2>2. CASE slot.waiters # <<>>
    <3>1. /\ Heirs(slot) = {Head(slot.waiters)}
          /\ Head(slot.waiters) \in Seeds /\ pc[Head(slot.waiters)] = "slotWait"
      BY <1>1, <2>2, HeirFacts
    <3> QED
      BY <3>1
  <2> QED
    BY <2>1, <2>2
<1> QED
  BY <1>2, <1>3

(* A seed moves where the fetch semaphore does not notice.                 *)
LEMMA FetchQuiet ==
  ASSUME SemaphoreInv, sem'.waiters = sem.waiters,
         \A t \in Seeds : pc[t] \in {"queued", "lost", "done"}
                            <=> pc'[t] \in {"queued", "lost", "done"},
         \A t \in Seeds : pc[t] = "queued" => pc'[t] = "queued"
  PROVE  FetchStep /\ FetchTies'
<1>1. FetchHolders' = FetchHolders
  BY DEF FetchHolders
<1>2. \A i \in DOMAIN sem.waiters : sem.waiters[i] \in Seeds
  BY PoolTypes, ElementOfSeq, LenProperties DEF Semaphores
<1> QED
  BY <1>1, <1>2 DEF FetchStep, FetchTies, SemaphoreInv

(* Or the transform slot.                                                  *)
LEMMA TransformQuiet ==
  ASSUME SemaphoreInv, slot' = slot,
         \A t \in Seeds : (t \in SlotHolders)
                            <=> (pc'[t] = "slotReady" \/ job'[t].slot),
         \A t \in Seeds : pc[t] = "slotWait" => pc'[t] = "slotWait",
         \A t \in Seeds : job'[t].slot => pc'[t] \in Attempting
  PROVE  TransformStep /\ TransformTies'
<1>1. SlotHolders' = SlotHolders
  BY DEF SlotHolders
<1>2. \A i \in DOMAIN slot.waiters : slot.waiters[i] \in Seeds
  BY PoolTypes, ElementOfSeq, LenProperties DEF Semaphores
<1> QED
  BY <1>1, <1>2 DEF TransformStep, TransformTies, SemaphoreInv

(* A seed that returns passes its fetch slot on.                           *)
LEMMA LeaveFetch ==
  ASSUME SemaphoreInv, NEW s \in FetchHolders, NEW holdsSlot \in BOOLEAN, Leave(s, holdsSlot)
  PROVE  FetchStep /\ FetchTies'
<1> DEFINE ws == sem.waiters
<1>1. /\ s \in Seeds /\ pc[s] # "queued"
      /\ FetchTies /\ TransformTies
  BY DEF FetchHolders, SemaphoreInv
<1>2. \A t \in Heirs(slot) : t \in Seeds /\ pc[t] = "slotWait"
  BY HeirsHold
<1>3. CASE ws = <<>>
  <2>1. Heirs(sem) = {} /\ sem'.waiters = <<>>
    BY <1>1, <1>3, PoolTypes, HeirFacts DEF FetchTies, Leave
  <2>2. FetchHolders' = FetchHolders \ {s}
    BY <1>1, <1>2, <2>1 DEF Leave, FetchHolders
  <2>3. FetchPool!Release(s)
    BY <1>3, <2>1, <2>2 DEF FetchPool!Release
  <2> QED
    BY <1>1, <2>1, <2>3 DEF FetchStep, FetchPool!Next, FetchTies
<1>4. CASE ws # <<>>
  <2>1. /\ Heirs(sem) = {Head(ws)} /\ Head(ws) \in Seeds /\ pc[Head(ws)] = "queued"
        /\ sem'.waiters = Tail(ws)
        /\ \A i \in DOMAIN Tail(ws) :
             Tail(ws)[i] \in Seeds /\ Tail(ws)[i] # Head(ws) /\ pc[Tail(ws)[i]] = "queued"
    BY <1>1, <1>4, PoolTypes, HeirFacts DEF FetchTies, Leave
  <2>2. FetchHolders' = (FetchHolders \ {s}) \cup {Head(ws)}
    BY <1>1, <1>2, <2>1 DEF Leave, FetchHolders
  <2>3. FetchPool!Release(s)
    BY <1>4, <2>1, <2>2 DEF FetchPool!Release
  <2>4. FetchTies'
    BY <1>1, <1>2, <2>1 DEF Leave, FetchTies
  <2> QED
    BY <1>1, <2>3, <2>4 DEF FetchStep, FetchPool!Next
<1> QED
  BY <1>3, <1>4

(* A holder of the transform slot gives it up, and moves where it counts   *)
(* no longer; heirs of the fetch slot may move too.                        *)
LEMMA GiveSlot ==
  ASSUME SemaphoreInv, NEW s \in SlotHolders, slot' = Released(slot),
         pc'[s] # "slotReady", ~job'[s].slot,
         \A t \in Seeds \ {s} :
           /\ job'[t].slot = job[t].slot
           /\ t \in Heirs(slot) => pc'[t] = "slotReady"
           /\ t \notin Heirs(slot) => \/ pc'[t] = pc[t]
                                      \/ pc[t] = "queued" /\ pc'[t] = "admitted"
  PROVE  TransformStep /\ TransformTies'
<1> DEFINE ws == slot.waiters
<1>1. /\ s \in Seeds /\ pc[s] # "slotWait" /\ TransformTies
      /\ \A t \in Seeds : job[t].slot \in BOOLEAN
  BY PoolTypes DEF SlotHolders, SemaphoreInv, TransformTies, Attempting, Executing, Jobs
<1>2. slot.active = Cardinality(SlotHolders) /\ Cardinality(SlotHolders) \in Nat
  BY <1>1, PoolTypes, SeedCount DEF TransformTies
<1>3. Cardinality(SlotHolders \ {s}) = Cardinality(SlotHolders) - 1
      /\ Cardinality(SlotHolders \ {s}) \in Nat
  BY PoolTypes, SeedCount
<1>4. ASSUME \A t \in Heirs(slot) : pc[t] = "slotWait"
      PROVE  \A t \in Seeds : job'[t].slot => pc'[t] \in Attempting
  BY <1>1, <1>4 DEF TransformTies, Attempting, Executing
<1>5. CASE ws = <<>>
  <2>1. /\ Heirs(slot) = {} /\ slot'.waiters = <<>>
        /\ slot'.active = IF slot.active > 0 THEN slot.active - 1 ELSE slot.active
    BY <1>1, <1>5, PoolTypes, HeirFacts DEF TransformTies
  <2>2. SlotHolders' = SlotHolders \ {s}
    BY <1>1, <2>1 DEF SlotHolders
  <2>3. TransformPool!Release(s)
    BY <1>5, <2>1, <2>2 DEF TransformPool!Release
  <2>4. slot'.active = Cardinality(SlotHolders')
    BY <1>2, <1>3, <2>1, <2>2
  <2> QED
    BY <1>1, <1>4, <2>1, <2>3, <2>4 DEF TransformStep, TransformPool!Next, TransformTies
<1>6. CASE ws # <<>>
  <2>1. /\ Heirs(slot) = {Head(ws)} /\ Head(ws) \in Seeds /\ pc[Head(ws)] = "slotWait"
        /\ slot'.waiters = Tail(ws) /\ slot'.active = slot.active
        /\ \A i \in DOMAIN Tail(ws) :
             Tail(ws)[i] \in Seeds /\ Tail(ws)[i] # Head(ws) /\ pc[Tail(ws)[i]] = "slotWait"
    BY <1>1, <1>6, PoolTypes, HeirFacts DEF TransformTies
  <2>2. Head(ws) # s /\ Head(ws) \notin SlotHolders
    BY <1>1, <2>1 DEF SlotHolders, TransformTies, Attempting, Executing
  <2>3. SlotHolders' = (SlotHolders \ {s}) \cup {Head(ws)}
    BY <1>1, <2>1, <2>2 DEF SlotHolders
  <2>4. TransformPool!Release(s)
    BY <1>6, <2>1, <2>3 DEF TransformPool!Release
  <2>5. slot'.active = Cardinality(SlotHolders')
    <3>1. SlotHolders \ {s} \in SUBSET Seeds /\ Head(ws) \in Seeds \ (SlotHolders \ {s})
      BY <2>1, <2>2, PoolTypes
    <3>2. Cardinality((SlotHolders \ {s}) \cup {Head(ws)}) = Cardinality(SlotHolders \ {s}) + 1
      BY <3>1, SeedCount
    <3> QED
      BY <1>2, <1>3, <2>1, <2>3, <3>2
  <2>6. \A i \in DOMAIN slot'.waiters : pc'[slot'.waiters[i]] = "slotWait"
    BY <1>1, <2>1
  <2> QED
    BY <1>1, <1>4, <2>1, <2>4, <2>5, <2>6 DEF TransformStep, TransformPool!Next, TransformTies
<1> QED
  BY <1>5, <1>6

(* A seed that returns passes both of its slots on, or the one it has.     *)
LEMMA LeaveBoth ==
  ASSUME SemaphoreInv, NEW s \in FetchHolders, NEW holdsSlot \in BOOLEAN,
         holdsSlot <=> s \in SlotHolders, pc[s] # "slotWait", Leave(s, holdsSlot)
  PROVE  BothStep
<1>1. s \in Seeds /\ FetchTies /\ TransformTies
  BY DEF FetchHolders, SemaphoreInv
<1>2. \A t \in Heirs(sem) : pc[t] = "queued"
  BY HeirsHold
<1>3. \A t \in Heirs(slot) : pc[t] = "slotWait"
  BY HeirsHold
<1>4. /\ ~job'[s].slot /\ pc'[s] = "done"
      /\ \A t \in Seeds \ {s} : job'[t] = job[t]
  BY <1>1, PoolTypes DEF Leave, NoJob
<1>5. CASE holdsSlot
  BY <1>2, <1>3, <1>4, <1>5, GiveSlot, LeaveFetch DEF Leave, BothStep
<1>6. CASE ~holdsSlot
  <2>1. /\ slot' = slot
        /\ \A t \in Seeds \ {s} : pc'[t] = pc[t] \/ (pc[t] = "queued" /\ pc'[t] = "admitted")
    BY <1>2, <1>6 DEF Leave
  <2>2. s \notin SlotHolders /\ pc[s] # "slotReady"
    BY <1>1, <1>6 DEF SlotHolders
  <2>3. \A t \in Seeds : job[t].slot => pc[t] \in Attempting
    BY <1>1 DEF TransformTies
  <2>4. \A t \in Seeds : (t \in SlotHolders) <=> (pc'[t] = "slotReady" \/ job'[t].slot)
    BY <1>4, <2>1, <2>2 DEF SlotHolders
  <2>5. \A t \in Seeds : pc[t] = "slotWait" => pc'[t] = "slotWait"
    BY <2>1
  <2>6. \A t \in Seeds : job'[t].slot => pc'[t] \in Attempting
    BY <1>4, <2>1, <2>3 DEF Attempting, Executing
  <2>7. TransformStep /\ TransformTies'
    BY <2>1, <2>4, <2>5, <2>6, TransformQuiet
  <2> QED
    BY <2>7, LeaveFetch DEF BothStep
<1> QED
  BY <1>5, <1>6

(* A seed that moves between awaits at which it keeps what it holds.       *)
LEMMA SeedQuiet ==
  ASSUME SemaphoreInv, NEW s \in Seeds, NEW at, pc' = [pc EXCEPT ![s] = at],
         UNCHANGED <<sem, slot>>, pc[s] \notin {"queued", "slotWait"},
         pc[s] \in {"lost", "done"} <=> at \in {"queued", "lost", "done"},
         (s \in SlotHolders) <=> (at = "slotReady" \/ job'[s].slot),
         job'[s].slot => at \in Attempting,
         \A t \in Seeds \ {s} : job'[t] = job[t]
  PROVE  BothStep
<1>1. pc'[s] = at /\ \A t \in Seeds \ {s} : pc'[t] = pc[t]
  BY PoolTypes
<1>2. FetchStep /\ FetchTies'
  BY <1>1, FetchQuiet
<1>3. \A t \in Seeds : (t \in SlotHolders) <=> (pc'[t] = "slotReady" \/ job'[t].slot)
  BY <1>1 DEF SlotHolders
<1>4. \A t \in Seeds : job'[t].slot => pc'[t] \in Attempting
  BY <1>1 DEF SemaphoreInv, TransformTies
<1>5. TransformStep /\ TransformTies'
  BY <1>1, <1>3, <1>4, TransformQuiet
<1> QED
  BY <1>2, <1>5 DEF BothStep

(* A seed asks for the transform slot: it takes it, or goes to the back.   *)
LEMMA AskKeeps ==
  ASSUME SemaphoreInv, NEW s \in Seeds, AskForSlot(s)
  PROVE  BothStep
<1> DEFINE ws == slot.waiters
<1>1. /\ pc[s] = "gate" /\ TransformTies /\ UNCHANGED sem
      /\ slot \in Semaphores /\ ws \in Seq(Seeds) /\ DOMAIN ws = 1..Len(ws) /\ Len(ws) \in Nat
  BY PoolTypes, LenProperties DEF AskForSlot, SemaphoreInv, Semaphores
<1>2. \A t \in Seeds : job'[t].slot = job[t].slot
  BY PoolTypes DEF AskForSlot, Jobs
<1>3. /\ s \notin SlotHolders /\ s \notin TransformPool!Waiting /\ ~job[s].slot
  BY <1>1, PoolTypes
  DEF SlotHolders, TransformTies, Attempting, Executing, TransformPool!Waiting, TransformPool!Range
<1>4. /\ slot.active = Cardinality(SlotHolders) /\ Cardinality(SlotHolders) \in Nat
      /\ Cardinality(SlotHolders) <= 1
      /\ Cardinality(SlotHolders \cup {s}) = Cardinality(SlotHolders) + 1
  BY <1>1, <1>3, PoolTypes, SeedCount, PoolConstants
  DEF TransformTies, SemaphoreInv, TransformPool!Safe
<1>5. CASE slot.active < 1
  <2>1. /\ pc' = [pc EXCEPT ![s] = "slotReady"] /\ slot' = [slot EXCEPT !.active = @ + 1]
    BY <1>5 DEF AskForSlot
  <2>2. slot'.active = slot.active + 1 /\ slot'.waiters = ws
    BY <1>1, <2>1 DEF Semaphores
  <2>3. pc'[s] = "slotReady" /\ \A t \in Seeds \ {s} : pc'[t] = pc[t]
    BY <2>1, PoolTypes
  <2>4. SlotHolders' = SlotHolders \cup {s}
    BY <1>2, <2>3 DEF SlotHolders
  <2>5. TransformPool!Take(s)
    BY <1>3, <1>4, <1>5, <2>2, <2>4, PoolConstants DEF TransformPool!Take
  <2>6. TransformTies'
    <3>1. \A i \in DOMAIN ws : pc'[ws[i]] = "slotWait"
      BY <1>1, <2>1, PoolTypes DEF TransformTies
    <3>2. \A t \in Seeds : job'[t].slot => pc'[t] \in Attempting
      BY <1>1, <1>2, <1>3, <2>3 DEF TransformTies
    <3> QED
      BY <1>4, <2>2, <2>4, <3>1, <3>2 DEF TransformTies
  <2>7. FetchStep /\ FetchTies'
    BY <1>1, <2>3, FetchQuiet
  <2> QED
    BY <2>5, <2>6, <2>7 DEF BothStep, TransformStep, TransformPool!Next
<1>6. CASE ~(slot.active < 1)
  <2>1. /\ pc' = [pc EXCEPT ![s] = "slotWait"] /\ slot' = [slot EXCEPT !.waiters = Append(@, s)]
    BY <1>6 DEF AskForSlot
  <2>2. slot'.active = slot.active /\ slot'.waiters = Append(ws, s)
    BY <1>1, <2>1 DEF Semaphores
  <2>3. pc'[s] = "slotWait" /\ \A t \in Seeds \ {s} : pc'[t] = pc[t]
    BY <2>1, PoolTypes
  <2>4. SlotHolders' = SlotHolders
    BY <1>1, <1>2, <2>3 DEF SlotHolders
  <2>5. TransformPool!Wait(s)
    BY <1>3, <1>4, <1>6, <2>2, <2>4, PoolConstants DEF TransformPool!Wait
  <2>6. TransformTies'
    <3>1. /\ DOMAIN Append(ws, s) = 1..(Len(ws) + 1)
          /\ \A i \in 1..(Len(ws) + 1) : Append(ws, s)[i] = IF i <= Len(ws) THEN ws[i] ELSE s
      BY <1>1, AppendProperties, LenProperties
    <3>2. \A i \in DOMAIN ws : pc'[ws[i]] = "slotWait"
      BY <1>1, <2>1, PoolTypes DEF TransformTies
    <3>3. ASSUME NEW i \in DOMAIN Append(ws, s) PROVE pc'[Append(ws, s)[i]] = "slotWait"
      <4>1. CASE i <= Len(ws)
        BY <1>1, <3>1, <3>2, <4>1
      <4>2. CASE ~(i <= Len(ws))
        BY <2>3, <3>1, <4>2
      <4> QED
        BY <4>1, <4>2
    <3>4. \A t \in Seeds : job'[t].slot => pc'[t] \in Attempting
      BY <1>1, <1>2, <1>3, <2>3 DEF TransformTies
    <3> QED
      BY <1>4, <2>2, <2>4, <3>3, <3>4 DEF TransformTies
  <2>7. FetchStep /\ FetchTies'
    BY <1>1, <2>3, FetchQuiet
  <2> QED
    BY <2>5, <2>6, <2>7 DEF BothStep, TransformStep, TransformPool!Next
<1> QED
  BY <1>5, <1>6

(* The wall empties both queues, and takes no slot from anybody.           *)
LEMMA WallGivesUp ==
  ASSUME SemaphoreInv, WallAbort
  PROVE  BothStep
<1>1. /\ sem'.waiters = <<>> /\ slot'.waiters = <<>> /\ slot'.active = slot.active
      /\ UNCHANGED job /\ \A t \in Seeds : pc'[t] = AfterAbort(pc[t]) /\ pc[t] \notin Ready
  BY PoolTypes DEF WallAbort, Semaphores
<1>2. FetchHolders' = FetchHolders
  BY <1>1 DEF FetchHolders, AfterAbort, Executing
<1>3. SlotHolders' = SlotHolders
  BY <1>1 DEF SlotHolders, AfterAbort, Ready
<1>4. \A q : q \in Seq(Seeds) /\ q # <<>> =>
        /\ 0 \in 0..(Len(q) - 1)
        /\ \E kept \in [1..0 -> DOMAIN q] :
             /\ \A i, j \in 1..0 : i < j => kept[i] < kept[j]
             /\ <<>> = [i \in 1..0 |-> q[kept[i]]]
  <2> SUFFICES ASSUME NEW q, q \in Seq(Seeds), q # <<>>
               PROVE  /\ 0 \in 0..(Len(q) - 1)
                      /\ \E kept \in [1..0 -> DOMAIN q] :
                           /\ \A i, j \in 1..0 : i < j => kept[i] < kept[j]
                           /\ <<>> = [i \in 1..0 |-> q[kept[i]]]
    OBVIOUS
  <2> DEFINE none == [i \in 1..0 |-> 1]
  <2>1. Len(q) \in Nat /\ Len(q) # 0
    BY LenProperties, EmptySeq
  <2>2. none \in [1..0 -> DOMAIN q] /\ \A i \in 1..0 : FALSE
    OBVIOUS
  <2>3. <<>> = [i \in 1..0 |-> q[none[i]]]
    OBVIOUS
  <2>4. 0 \in 0..(Len(q) - 1)
    BY <2>1
  <2> HIDE DEF none
  <2> QED
    BY <2>2, <2>3, <2>4
<1>5. FetchStep
  <2>1. CASE sem.waiters = <<>>
    BY <1>1, <1>2, <2>1 DEF FetchStep
  <2>2. CASE sem.waiters # <<>>
    <3>1. /\ 0 \in 0..(Len(sem.waiters) - 1)
          /\ \E kept \in [1..0 -> DOMAIN sem.waiters] :
               /\ \A i, j \in 1..0 : i < j => kept[i] < kept[j]
               /\ sem'.waiters = [i \in 1..0 |-> sem.waiters[kept[i]]]
      <4>1. sem.waiters \in Seq(Seeds)
        BY PoolTypes DEF Semaphores
      <4> QED
        BY <1>1, <1>4, <2>2, <4>1
    <3>2. FetchPool!GiveUp
      BY <1>2, <3>1, Zenon DEF FetchPool!GiveUp
    <3> QED
      BY <3>2 DEF FetchStep, FetchPool!Next
  <2> QED
    BY <2>1, <2>2
<1>6. TransformStep
  <2>1. CASE slot.waiters = <<>>
    BY <1>1, <1>3, <2>1 DEF TransformStep
  <2>2. CASE slot.waiters # <<>>
    <3>1. /\ 0 \in 0..(Len(slot.waiters) - 1)
          /\ \E kept \in [1..0 -> DOMAIN slot.waiters] :
               /\ \A i, j \in 1..0 : i < j => kept[i] < kept[j]
               /\ slot'.waiters = [i \in 1..0 |-> slot.waiters[kept[i]]]
      <4>1. slot.waiters \in Seq(Seeds)
        BY PoolTypes DEF Semaphores
      <4> QED
        BY <1>1, <1>4, <2>2, <4>1
    <3>2. TransformPool!GiveUp
      BY <1>3, <3>1, Zenon DEF TransformPool!GiveUp
    <3> QED
      BY <3>2 DEF TransformStep, TransformPool!Next
  <2> QED
    BY <2>1, <2>2
<1>7. FetchTies' /\ TransformTies'
  BY <1>1, <1>3
  DEF FetchTies, TransformTies, SemaphoreInv, AfterAbort, Attempting, Executing
<1> QED
  BY <1>5, <1>6, <1>7 DEF BothStep

(* Every step of a seed.                                                   *)
LEMMA SeedKeeps ==
  ASSUME SemaphoreInv, NEW s \in Seeds,
         \/ Continue(s) \/ LeaveGate(s) \/ LeaveBackoff(s)
         \/ Settle(s) \/ AwaitRetryAfter(s) \/ Throw(s)
  PROVE  BothStep
<1>1. job[s] \in Jobs /\ job[s].slot \in BOOLEAN /\ (job[s].slot => pc[s] \in Attempting)
  BY PoolTypes DEF SemaphoreInv, TransformTies, Jobs
<1>2. (s \in SlotHolders) <=> (pc[s] = "slotReady" \/ job[s].slot)
  BY DEF SlotHolders
<1>3. (s \in FetchHolders) <=> pc[s] \notin {"queued", "lost", "done"}
  BY DEF FetchHolders
<1>4. CASE EnterGate(s) \/ LoseSlot(s) \/ Retry(s)
  <2>1. /\ UNCHANGED <<job, sem, slot>>
        /\ \/ pc[s] = "admitted" /\ pc' = [pc EXCEPT ![s] = "gate"]
           \/ pc[s] = "lost" /\ pc' = [pc EXCEPT ![s] = "done"]
           \/ pc[s] = "backoff" /\ pc' = [pc EXCEPT ![s] = "rerunning"]
    BY <1>4 DEF EnterGate, LoseSlot, Retry
  <2> QED
    BY <1>1, <1>2, <2>1, SeedQuiet DEF Attempting, Executing
<1>5. CASE RefuseAdmission(s) \/ MissDeadline(s) \/ RefuseBudget(s) \/ LoseTransformSlot(s)
  BY <1>1, <1>2, <1>3, <1>5, LeaveBoth
  DEF RefuseAdmission, MissDeadline, RefuseBudget, LoseTransformSlot, Attempting, Executing
<1>6. CASE DropOnHardStop(s)
  BY <1>2, <1>3, <1>6, LeaveBoth DEF DropOnHardStop
<1>7. ASSUME NEW bytes, NEW cost, NEW hosts, NEW rendered, NEW r,
             Finish(s, bytes, cost, hosts, rendered, r), pc[s] \in Attempting
      PROVE  BothStep
  BY <1>1, <1>2, <1>3, <1>7, LeaveBoth DEF Finish, Attempting, Executing
<1>8. CASE SettleAbandoned(s) \/ SettleThrown(s) \/ GiveUpRetry(s) \/ Settle(s)
  BY <1>7, <1>8 DEF SettleAbandoned, SettleThrown, GiveUpRetry, Settle, Attempting
<1>9. ASSUME NEW extra, NEW transform, NEW holdsSlot, Start(s, extra, transform, holdsSlot)
      PROVE  job'[s].slot = holdsSlot /\ \A t \in Seeds \ {s} : job'[t] = job[t]
  BY <1>9, PoolTypes DEF Start, NoJob
<1>10. CASE DispatchRaw(s) \/ StartTransform(s)
  <2>1. /\ UNCHANGED <<sem, slot>> /\ pc' = [pc EXCEPT ![s] = "running"]
        /\ \/ pc[s] = "gate" /\ ~job'[s].slot
           \/ pc[s] = "slotReady" /\ job'[s].slot
        /\ \A t \in Seeds \ {s} : job'[t] = job[t]
    BY <1>9, <1>10 DEF DispatchRaw, StartTransform
  <2> QED
    BY <1>1, <1>2, <2>1, SeedQuiet DEF Attempting, Executing
<1>11. CASE DowngradeToRaw(s)
  <2>1. /\ pc[s] = "slotReady" /\ UNCHANGED sem /\ slot' = Released(slot)
        /\ pc'[s] = "running" /\ ~job'[s].slot
        /\ \A t \in Seeds \ {s} :
             /\ job'[t] = job[t]
             /\ t \in Heirs(slot) => pc'[t] = "slotReady"
             /\ t \notin Heirs(slot) => pc'[t] = pc[t]
    BY <1>9, <1>11 DEF DowngradeToRaw
  <2>2. TransformStep /\ TransformTies'
    BY <1>2, <2>1, GiveSlot
  <2>3. \A t \in Heirs(slot) : pc[t] = "slotWait"
    BY HeirsHold
  <2>4. FetchStep /\ FetchTies'
    BY <2>1, <2>3, FetchQuiet
  <2> QED
    BY <2>2, <2>4 DEF BothStep
<1>12. CASE AwaitRetryAfter(s) \/ Throw(s)
  <2>1. /\ UNCHANGED <<sem, slot>> /\ pc[s] \in Executing
        /\ \/ pc' = [pc EXCEPT ![s] = "backoff"] \/ pc' = [pc EXCEPT ![s] = "threw"]
    BY <1>12 DEF AwaitRetryAfter, Throw, Executing
  <2>2. job'[s].slot = job[s].slot /\ \A t \in Seeds \ {s} : job'[t] = job[t]
    BY <1>12, PoolTypes DEF AwaitRetryAfter, Throw, Jobs
  <2> QED
    BY <1>1, <1>2, <2>1, <2>2, SeedQuiet DEF Attempting, Executing
<1> QED
  BY <1>4, <1>5, <1>6, <1>8, <1>10, <1>11, <1>12, AskKeeps
  DEF Continue, LeaveGate, LeaveBackoff

LEMMA SemaphoreStep == SemaphoreInv /\ [Next]_vars => BothStep /\ SemaphoreInv'
<1> SUFFICES ASSUME SemaphoreInv, [Next]_vars PROVE BothStep /\ SemaphoreInv'
  OBVIOUS
<1>1. BothStep
  <2>1. CASE UNCHANGED <<pc, job, sem, slot>>
    BY <2>1, FetchQuiet, TransformQuiet DEF BothStep, SlotHolders, SemaphoreInv, TransformTies
  <2> QED
    BY <2>1, SeedKeeps, WallGivesUp DEF Next, ClockPasses, Returned, vars
<1>2. FetchPool!Safe' /\ TransformPool!Safe'
  BY <1>1, PoolConstants, FetchPool!SafeInductive, TransformPool!SafeInductive
  DEF SemaphoreInv, BothStep, FetchStep, TransformStep, FetchPool!slotVars, TransformPool!slotVars
<1> QED
  BY <1>1, <1>2, StepType DEF SemaphoreInv, BothStep

(* The first maxConcurrency seeds begin with a fetch slot, the others in   *)
(* the queue, in their order.                                              *)
LEMMA InitPools ==
  ASSUME Init
  PROVE  /\ SemaphoreInv
         /\ sem.waiters \in [1..Len(sem.waiters) -> Seeds] /\ Len(sem.waiters) \in 0..NumSeeds
         /\ slot.waiters = <<>>
<1> DEFINE n == IF NumSeeds < MaxConcurrency THEN 0 ELSE NumSeeds - MaxConcurrency
<1>1. n \in 0..NumSeeds /\ NumSeeds \in Nat /\ MaxConcurrency \in Nat \ {0}
  BY ConstantTypes
<1>2. sem.waiters = [i \in 1..n |-> i + MaxConcurrency] /\ slot = [active |-> 0, waiters |-> <<>>]
  BY DEF Init
<1>3. sem \in Semaphores /\ TypeOK
  BY InitType DEF TypeOK, Semaphores
<1>4. DOMAIN sem.waiters = 1..n /\ Len(sem.waiters) = n /\ sem.waiters \in Seq(Seeds)
  <2>1. n \in Nat
    BY <1>1
  <2> HIDE DEF n
  <2>2. sem.waiters \in Seq(Seeds) /\ DOMAIN sem.waiters = 1..n
    BY <1>2, <1>3 DEF Semaphores
  <2>3. Len(sem.waiters) \in Nat /\ 1..Len(sem.waiters) = 1..n
    BY <2>2, LenProperties
  <2>4. \A l \in Nat : 1..l = 1..n => l = n
    BY <2>1
  <2> QED
    BY <2>2, <2>3, <2>4
<1>5. \A s \in Seeds : pc[s] = IF s <= MaxConcurrency THEN "admitted" ELSE "queued"
  BY DEF Init
<1>6. FetchHolders = 1..(NumSeeds - n)
  BY <1>1, <1>5, ConstantTypes DEF FetchHolders, Seeds
<1>7. Cardinality(FetchHolders) = NumSeeds - n
  <2>1. NumSeeds - n \in Nat
    BY <1>1
  <2> QED
    BY <1>6, <2>1, FS_Interval
<1>8. SlotHolders = {}
  BY <1>5 DEF SlotHolders, Init, NoJob
<1>9. FetchPool!Safe
  <2>1. FetchHolders \cap FetchPool!Waiting = {}
    BY <1>1, <1>2, <1>4, <1>6 DEF FetchPool!Waiting, FetchPool!Range
  <2>2. FetchPool!NoRepetition
    <3> HIDE DEF n
    <3> QED
      BY <1>1, <1>2, <1>4 DEF FetchPool!NoRepetition
  <2>3. NumSeeds - n <= MaxConcurrency /\ (n # 0 => NumSeeds - n = MaxConcurrency)
    BY <1>1
  <2>4. sem.waiters # <<>> => n # 0
    <3> HIDE DEF n
    <3> QED
      BY <1>4, EmptySeq
  <2>5. FetchHolders \subseteq Seeds
    BY DEF FetchHolders
  <2> QED
    BY <1>4, <1>7, <2>1, <2>2, <2>3, <2>4, <2>5, PoolConstants
    DEF FetchPool!Safe, FetchPool!SlotTypeOK, FetchPool!WorkConserving
<1>10. TransformPool!Safe
  BY <1>2, <1>8, FS_EmptySet, PoolConstants, EmptySeq
  DEF TransformPool!Safe, TransformPool!SlotTypeOK, TransformPool!WorkConserving,
      TransformPool!NoRepetition
<1>11. FetchTies
  <2>1. ASSUME NEW i \in 1..n PROVE pc[sem.waiters[i]] = "queued"
    <3>1. sem.waiters[i] = i + MaxConcurrency /\ sem.waiters[i] \in Seeds
      <4> HIDE DEF n
      <4> QED
        BY <1>2, <1>4, <2>1, ElementOfSeq
    <3> QED
      BY <1>1, <1>5, <3>1
  <2> QED
    BY <1>4, <2>1 DEF FetchTies
<1>12. TransformTies
  BY <1>2, <1>8, FS_EmptySet DEF TransformTies, Init, NoJob
<1>13. sem.waiters \in [1..n -> Seeds]
  BY <1>4
<1> QED
  BY <1>1, <1>2, <1>3, <1>4, <1>9, <1>10, <1>11, <1>12, <1>13 DEF SemaphoreInv

(* The pools of the proofs are the pools of the model.                     *)
LEMMA SameFetchPool ==
  /\ FetchPool!Next => FetchSlots!Next
  /\ FetchPool!Safe => FetchSlots!Safe
BY DEF FetchPool!Next, FetchPool!GiveUp, FetchPool!Take, FetchPool!Wait, FetchPool!Release,
       FetchPool!Waiting, FetchPool!Range, FetchPool!Cardinality, FetchPool!Safe,
       FetchPool!SlotTypeOK, FetchPool!WorkConserving, FetchPool!NoRepetition,
       FetchSlots!Next, FetchSlots!GiveUp, FetchSlots!Take, FetchSlots!Wait, FetchSlots!Release,
       FetchSlots!Waiting, FetchSlots!Range, FetchSlots!Cardinality, FetchSlots!Safe,
       FetchSlots!SlotTypeOK, FetchSlots!WorkConserving, FetchSlots!NoRepetition

LEMMA SameTransformPool ==
  /\ TransformPool!Next => TransformSlots!Next
  /\ TransformPool!Safe => TransformSlots!Safe
BY DEF TransformPool!Next, TransformPool!GiveUp, TransformPool!Take, TransformPool!Wait,
       TransformPool!Release, TransformPool!Waiting, TransformPool!Range,
       TransformPool!Cardinality, TransformPool!Safe, TransformPool!SlotTypeOK,
       TransformPool!WorkConserving, TransformPool!NoRepetition,
       TransformSlots!Next, TransformSlots!GiveUp, TransformSlots!Take, TransformSlots!Wait,
       TransformSlots!Release, TransformSlots!Waiting, TransformSlots!Range,
       TransformSlots!Cardinality, TransformSlots!Safe, TransformSlots!SlotTypeOK,
       TransformSlots!WorkConserving, TransformSlots!NoRepetition

(* Both semaphores of runPool implement the abstract slot pool, for any    *)
(* number of seeds and workers: whichever way a seed ends - refused,       *)
(* dropped, downgraded, settled, thrown or cut off by the wall - it passes *)
(* on what it holds exactly once, to the seed that has waited longest; and *)
(* so at most one transform runs at a time.                                *)
THEOREM SemaphoresArePools == Spec => SlotPoolsImplemented
<1>1. Init => SemaphoreInv /\ FetchSlots!Init /\ TransformSlots!Init
  <2> SUFFICES ASSUME Init PROVE SemaphoreInv /\ FetchSlots!Init /\ TransformSlots!Init
    OBVIOUS
  <2>1. /\ SemaphoreInv /\ FetchSlots!Safe /\ TransformSlots!Safe
        /\ FetchHolders \in SUBSET Seeds /\ SlotHolders \in SUBSET Seeds
    BY InitPools, PoolTypes, SameFetchPool, SameTransformPool DEF SemaphoreInv
  <2>2. /\ Cardinality(Seeds) = NumSeeds /\ NumSeeds \in Nat
        /\ FetchSlots!Cardinality(Seeds) = Cardinality(Seeds)
        /\ TransformSlots!Cardinality(Seeds) = Cardinality(Seeds)
    <3>1. \A S : FetchSlots!Cardinality(S) = Cardinality(S)
      BY DEF FetchSlots!Cardinality, Cardinality
    <3>2. \A S : TransformSlots!Cardinality(S) = Cardinality(S)
      BY DEF TransformSlots!Cardinality, Cardinality
    <3>3. Cardinality(1..NumSeeds) = NumSeeds /\ NumSeeds \in Nat
      BY ConstantTypes, FS_Interval
    <3> QED
      BY <3>1, <3>2, <3>3 DEF Seeds
  <2>3. FetchSlots!Init
    BY <2>1, <2>2, InitPools DEF FetchSlots!Init
  <2>4. 0 \in 0..NumSeeds /\ slot.waiters \in [1..0 -> Seeds]
    <3>1. <<>> \in [1..0 -> Seeds]
      OBVIOUS
    <3>2. slot.waiters = <<>>
      BY InitPools
    <3>3. 0 \in 0..NumSeeds
      BY <2>2
    <3> QED
      BY <3>1, <3>2, <3>3, Zenon
  <2>5. TransformSlots!Init
    BY <2>1, <2>2, <2>4 DEF TransformSlots!Init
  <2> QED
    BY <2>1, <2>3, <2>5
<1>2. SemaphoreInv /\ [Next]_vars =>
        /\ SemaphoreInv'
        /\ [FetchSlots!Next]_<<FetchHolders, sem.waiters>>
        /\ [TransformSlots!Next]_<<SlotHolders, slot.waiters>>
  BY SemaphoreStep, SameFetchPool, SameTransformPool DEF BothStep, FetchStep, TransformStep
<1> QED
  BY <1>1, <1>2, PTL
  DEF Spec, SlotPoolsImplemented, FetchSlots!Spec, FetchSlots!slotVars, TransformSlots!Spec,
      TransformSlots!slotVars

----------------------------------------------------------------------------
(* The ledger. Every reservation counter is the sum, over the seeds, of    *)
(* what each of them holds where it is suspended: the sum is proved from   *)
(* the one term that a step changes (SumUpdate).                           *)

(* What a seed holds, as a function of where it is suspended and of its    *)
(* job.                                                                    *)
SlotPlaces == {"slotWait", "slotReady", "slotLost"}

Reserved(at, j) ==
  IF at \in SlotPlaces THEN PerSeedMaxBytes
  ELSE IF at \in Attempting
       THEN AttemptReserve(j) + (IF j.retry THEN AttemptReserve(j) ELSE 0)
       ELSE 0
Charge(j) == IF j.transform THEN PerSeedCost ELSE 0

(* The model's ReservedBytes and HeldCost are these functions.             *)
LEMMA ReservedIs ==
  ASSUME NEW s \in Seeds
  PROVE  /\ ReservedBytes(s) = Reserved(pc[s], job[s])
         /\ ReservedBytes(s)' = Reserved(pc'[s], job'[s])
         /\ HeldCost(s) = Charge(job[s]) /\ HeldCost(s)' = Charge(job'[s])
<1>1. ReservedBytes(s) = Reserved(pc[s], job[s])
  BY DEF ReservedBytes, Reserved, Held, SlotPlaces, Attempting, Executing
<1>2. ReservedBytes(s)' = Reserved(pc'[s], job'[s])
  BY DEF ReservedBytes, Reserved, Held, SlotPlaces, Attempting, Executing, AttemptReserve
<1>3. HeldCost(s) = Charge(job[s]) /\ HeldCost(s)' = Charge(job'[s])
  BY DEF HeldCost, Charge
<1> QED
  BY <1>1, <1>2, <1>3

LEMMA ReservedTypes ==
  ASSUME NEW at, NEW j \in Jobs
  PROVE  /\ Reserved(at, j) \in Nat /\ Charge(j) \in Nat
         /\ at \in SlotPlaces => Reserved(at, j) = PerSeedMaxBytes
         /\ at \in Attempting => Reserved(at, j) = AttemptReserve(j)
                                   + (IF j.retry THEN AttemptReserve(j) ELSE 0)
         /\ at \notin SlotPlaces \cup Attempting => Reserved(at, j) = 0
<1>1. AttemptReserve(j) \in Nat /\ j.retry \in BOOLEAN /\ j.transform \in BOOLEAN
  BY ReserveTypes DEF Jobs
<1>2. SlotPlaces \cap Attempting = {}
  BY DEF SlotPlaces, Attempting, Executing
<1> QED
  BY <1>1, <1>2, ConstantTypes DEF Reserved, Charge

(* The terms of the two sums.                                              *)
ByteTerms == [s \in Seeds |-> ReservedBytes(s)]
CostTerms == [s \in Seeds |-> HeldCost(s)]

TermFacts ==
  /\ ByteTerms \in [Seeds -> Int] /\ CostTerms \in [Seeds -> Int]
  /\ \A s \in Seeds : ByteTerms[s] = Reserved(pc[s], job[s]) /\ ByteTerms[s] >= 0
  /\ \A s \in Seeds : CostTerms[s] = Charge(job[s]) /\ CostTerms[s] >= 0

LEMMA TermTypes == TypeOK => TermFacts
<1> SUFFICES ASSUME TypeOK PROVE TermFacts
  OBVIOUS
<1>1. ASSUME NEW s \in Seeds
      PROVE  /\ ReservedBytes(s) = Reserved(pc[s], job[s]) /\ HeldCost(s) = Charge(job[s])
             /\ Reserved(pc[s], job[s]) \in Nat /\ Charge(job[s]) \in Nat
  <2>1. job[s] \in Jobs
    BY DEF TypeOK, Jobs
  <2> QED
    BY <2>1, ReservedIs, ReservedTypes
<1> QED
  BY <1>1 DEF ByteTerms, CostTerms, TermFacts

LEMMA TermTypesNext == TypeOK' => TermFacts'
BY TermTypes, PTL

SumsExact ==
  /\ bytesReserved = SumFunction(ByteTerms)
  /\ costReserved = SumFunction(CostTerms)

(* Only s moves: the counters change by what its move changes.             *)
Moves(s) ==
  /\ \A t \in Seeds \ {s} : /\ Reserved(pc'[t], job'[t]) = Reserved(pc[t], job[t])
                            /\ Charge(job'[t]) = Charge(job[t])
  /\ bytesReserved' = bytesReserved + Reserved(pc'[s], job'[s]) - Reserved(pc[s], job[s])
  /\ costReserved' = costReserved + Charge(job'[s]) - Charge(job[s])

LEMMA MoveKeepsSums ==
  ASSUME TypeOK, TypeOK', SumsExact, NEW s \in Seeds, Moves(s)
  PROVE  SumsExact'
<1>1. SumFunction(ByteTerms') = SumFunction(ByteTerms) + ByteTerms'[s] - ByteTerms[s]
  BY TermTypes, TermTypesNext, SumUpdate, SeedCount DEF Moves, TermFacts
<1>2. SumFunction(CostTerms') = SumFunction(CostTerms) + CostTerms'[s] - CostTerms[s]
  BY TermTypes, TermTypesNext, SumUpdate, SeedCount DEF Moves, TermFacts
<1> QED
  BY <1>1, <1>2, TermTypes, TermTypesNext DEF Moves, SumsExact, TermFacts

(* What a seed carries where.                                              *)
JobTies ==
  \A s \in Seeds :
    /\ job[s].transform => pc[s] \in SlotPlaces \cup Attempting
    /\ pc[s] \in SlotPlaces => job[s].transform
    /\ job[s].retry => pc[s] \in {"backoff", "rerunning", "abandoned"}
    /\ job[s].slot => job[s].transform
    /\ job[s].render => pc[s] \in Attempting
TieOf(at, j) ==
  /\ j.transform => at \in SlotPlaces \cup Attempting
  /\ at \in SlotPlaces => j.transform
  /\ j.retry => at \in {"backoff", "rerunning", "abandoned"}
  /\ j.slot => j.transform
  /\ j.render => at \in Attempting

LedgerInv == SemaphoreInv /\ JobTies /\ SumsExact

LEMMA QuietMove ==
  ASSUME LedgerInv, NEW s \in Seeds,
         NEW at, pc' = [pc EXCEPT ![s] = at], \A t \in Seeds \ {s} : job'[t] = job[t],
         bytesReserved' = bytesReserved + Reserved(at, job'[s]) - Reserved(pc[s], job[s]),
         costReserved' = costReserved + Charge(job'[s]) - Charge(job[s]),
         TieOf(at, job'[s])
  PROVE  Moves(s) /\ JobTies'
<1>1. pc \in [Seeds -> PCs]
  BY PoolTypes DEF LedgerInv
<1>2. pc'[s] = at /\ \A t \in Seeds \ {s} : pc'[t] = pc[t]
  BY <1>1
<1> QED
  BY <1>2 DEF LedgerInv, JobTies, TieOf, Moves

LEMMA NoJobTie ==
  ASSUME NEW at
  PROVE  /\ at \notin SlotPlaces => TieOf(at, NoJob)
         /\ Charge(NoJob) = 0 /\ Reserved("done", NoJob) = 0
BY DEF NoJob, TieOf, Charge, Reserved, SlotPlaces, Attempting, Executing

(* A seed that leaves holds nothing more, and those it lets pass hold what *)
(* they held.                                                              *)
Leaves(s) == \E holds \in BOOLEAN : Leave(s, holds)

LEMMA LeaveMove ==
  ASSUME LedgerInv, NEW s \in Seeds, Leaves(s),
         bytesReserved' = bytesReserved - Reserved(pc[s], job[s]),
         costReserved' = costReserved - Charge(job[s])
  PROVE  Moves(s) /\ JobTies'
<1>1. job \in [Seeds -> Jobs] /\ bytesReserved \in Int /\ costReserved \in Int
  BY PoolTypes DEF LedgerInv, SemaphoreInv, TypeOK
<1>2. /\ pc'[s] = "done" /\ job'[s] = NoJob
      /\ \A t \in Seeds \ {s} :
           /\ job'[t] = job[t]
           /\ \/ pc'[t] = pc[t]
              \/ (pc[t] = "queued" /\ pc'[t] = "admitted")
              \/ (pc[t] = "slotWait" /\ pc'[t] = "slotReady")
  <2>1. PICK holds \in BOOLEAN : Leave(s, holds)
    BY DEF Leaves
  <2> QED
    BY <1>1, <2>1, HeirsHold DEF Leave, LedgerInv
<1>3. ASSUME NEW t \in Seeds \ {s}
      PROVE  /\ Reserved(pc'[t], job'[t]) = Reserved(pc[t], job[t])
             /\ Charge(job'[t]) = Charge(job[t])
             /\ TieOf(pc'[t], job'[t])
  <2>1. TieOf(pc[t], job[t])
    BY DEF LedgerInv, JobTies, TieOf
  <2> QED
    BY <1>2, <2>1 DEF Reserved, TieOf, SlotPlaces, Attempting, Executing
<1>4. JobTies'
  BY <1>2, <1>3, NoJobTie DEF JobTies, TieOf, SlotPlaces
<1>5. /\ Reserved(pc[s], job[s]) \in Nat /\ Charge(job[s]) \in Nat
  BY <1>1, ReservedTypes
<1> QED
  BY <1>1, <1>2, <1>3, <1>4, <1>5, NoJobTie DEF Moves

(* A seed that has reserved nothing yet, or has settled, owes nothing.     *)
LEMMA HoldsNothing ==
  ASSUME LedgerInv, NEW s \in Seeds, pc[s] \notin SlotPlaces \cup Attempting
  PROVE  Reserved(pc[s], job[s]) = 0 /\ Charge(job[s]) = 0
BY PoolTypes, ReservedTypes DEF LedgerInv, JobTies, Charge

(* Every step of a seed moves that seed alone, by the difference between   *)
(* what it holds afterwards and what it held.                              *)
LEMMA SeedMoves ==
  ASSUME LedgerInv, NEW s \in Seeds,
         \/ Continue(s) \/ LeaveGate(s) \/ LeaveBackoff(s)
         \/ Settle(s) \/ AwaitRetryAfter(s) \/ Throw(s)
  PROVE  Moves(s) /\ JobTies'
<1> DEFINE old == Reserved(pc[s], job[s])
<1>1. /\ job[s] \in Jobs /\ old \in Nat /\ Charge(job[s]) \in Nat
      /\ bytesReserved \in Int /\ costReserved \in Int /\ PerSeedMaxBytes \in Nat
      /\ job \in [Seeds -> Jobs] /\ TieOf(pc[s], job[s])
      /\ PerSeedCost \in Nat /\ RenderReserve \in Nat
  BY PoolTypes, ReservedTypes, ConstantTypes
  DEF LedgerInv, SemaphoreInv, TypeOK, JobTies, TieOf
<1>2. CASE EnterGate(s) \/ LoseSlot(s)
  <2>1. PICK at \in {"gate", "done"} : /\ pc' = [pc EXCEPT ![s] = at]
                                      /\ pc[s] \in {"admitted", "lost"}
    BY <1>2 DEF EnterGate, LoseSlot
  <2>2. job' = job /\ bytesReserved' = bytesReserved /\ costReserved' = costReserved
    BY <1>2 DEF EnterGate, LoseSlot, budget
  <2>3. Reserved(at, job[s]) = 0 /\ old = 0 /\ TieOf(at, job[s])
    BY <1>1, <2>1 DEF Reserved, TieOf, SlotPlaces, Attempting, Executing
  <2>4. /\ bytesReserved' = bytesReserved + Reserved(at, job'[s]) - Reserved(pc[s], job[s])
        /\ costReserved' = costReserved + Charge(job'[s]) - Charge(job[s])
        /\ TieOf(at, job'[s]) /\ \A t \in Seeds \ {s} : job'[t] = job[t]
    BY <1>1, <2>2, <2>3
  <2> QED
    BY <2>1, <2>4, QuietMove
<1>3. CASE Retry(s)
  <2>1. pc' = [pc EXCEPT ![s] = "rerunning"] /\ pc[s] = "backoff"
    BY <1>3 DEF Retry
  <2>2. job' = job /\ bytesReserved' = bytesReserved /\ costReserved' = costReserved
    BY <1>3 DEF Retry, budget
  <2>3. Reserved("rerunning", job[s]) = old /\ TieOf("rerunning", job[s])
    BY <1>1, <2>1 DEF Reserved, TieOf, SlotPlaces, Attempting, Executing
  <2>4. /\ bytesReserved' = bytesReserved + Reserved("rerunning", job'[s])
                             - Reserved(pc[s], job[s])
        /\ costReserved' = costReserved + Charge(job'[s]) - Charge(job[s])
        /\ TieOf("rerunning", job'[s]) /\ \A t \in Seeds \ {s} : job'[t] = job[t]
    BY <1>1, <2>2, <2>3
  <2> QED
    BY <2>1, <2>4, QuietMove
<1>4. CASE RefuseAdmission(s) \/ MissDeadline(s) \/ RefuseBudget(s)
  <2>1. Leaves(s) /\ pc[s] \in {"admitted", "gate"}
        /\ bytesReserved' = bytesReserved /\ costReserved' = costReserved
    BY <1>4 DEF RefuseAdmission, MissDeadline, RefuseBudget, budget, Leaves
  <2>2. pc[s] \notin SlotPlaces \cup Attempting
    BY <2>1 DEF SlotPlaces, Attempting, Executing
  <2>3. Reserved(pc[s], job[s]) = 0 /\ Charge(job[s]) = 0
    BY <2>2, HoldsNothing
  <2>4. /\ bytesReserved' = bytesReserved - Reserved(pc[s], job[s])
        /\ costReserved' = costReserved - Charge(job[s])
    BY <1>1, <2>1, <2>3
  <2> QED
    BY <2>1, <2>4, LeaveMove
<1>5. CASE DropOnHardStop(s) \/ LoseTransformSlot(s)
  <2>1. /\ CancelReservation(s) /\ pc[s] \in {"slotReady", "slotLost"}
        /\ Leaves(s)
    BY <1>5 DEF Leaves, DropOnHardStop, LoseTransformSlot
  <2>2. Reserved(pc[s], job[s]) = PerSeedMaxBytes
    BY <1>1, <2>1, ReservedTypes DEF SlotPlaces
  <2>3. /\ bytesReserved' = bytesReserved - Reserved(pc[s], job[s])
        /\ costReserved' = costReserved - Charge(job[s])
    BY <2>1, <2>2 DEF CancelReservation, HeldCost, Charge
  <2> QED
    BY <2>1, <2>3, LeaveMove
<1>6. ASSUME NEW bytes, NEW cost, NEW hosts, NEW rendered, NEW r,
             Finish(s, bytes, cost, hosts, rendered, r), pc[s] \in Attempting
      PROVE  Moves(s) /\ JobTies'
  <2>1. Reserved(pc[s], job[s]) = Held(s) /\ Charge(job[s]) = HeldCost(s)
    BY <1>1, <1>6, ReservedTypes DEF Held, HeldCost, Charge
  <2>2. /\ Leaves(s)
        /\ bytesReserved' = bytesReserved - Reserved(pc[s], job[s])
        /\ costReserved' = costReserved - Charge(job[s])
    BY <1>1, <1>6, <2>1 DEF Finish, AfterSeed, Jobs, Leaves
  <2> QED
    BY <2>2, LeaveMove
<1>7. CASE SettleAbandoned(s) \/ SettleThrown(s) \/ GiveUpRetry(s) \/ Settle(s)
  BY <1>6, <1>7 DEF SettleAbandoned, SettleThrown, GiveUpRetry, Settle, Attempting
<1>8. ASSUME NEW extra \in Nat, NEW transform \in BOOLEAN, NEW holdsSlot \in BOOLEAN,
             Start(s, extra, transform, holdsSlot), holdsSlot => transform
      PROVE  /\ job'[s] \in Jobs /\ \A t \in Seeds \ {s} : job'[t] = job[t]
             /\ bytesReserved' = bytesReserved + extra - PerSeedMaxBytes
                                   + Reserved("running", job'[s])
             /\ Charge(job'[s]) = IF transform THEN PerSeedCost ELSE 0
             /\ TieOf("running", job'[s])
  <2>1. RenderAllowed(extra) \in BOOLEAN
    BY DEF RenderAllowed
  <2>2. job'[s] = [NoJob EXCEPT !.transform = transform, !.slot = holdsSlot,
                                !.render = RenderAllowed(extra)]
        /\ \A t \in Seeds \ {s} : job'[t] = job[t]
    BY <1>1, <1>8 DEF Start
  <2>3. /\ job'[s] \in Jobs /\ job'[s].retry = FALSE /\ job'[s].transform = transform
        /\ job'[s].slot = holdsSlot /\ job'[s].render = RenderAllowed(extra)
    <3>1. job'[s] = [transform |-> transform, slot |-> holdsSlot,
                     render |-> RenderAllowed(extra), retry |-> FALSE, first |-> NoFirst]
      BY <2>2 DEF NoJob
    <3>2. NoFirst \in [bytes : Nat, hosts : SUBSET Hosts]
      BY DEF NoFirst
    <3> HIDE DEF RenderAllowed, NoFirst
    <3> QED
      BY <2>1, <3>1, <3>2, <1>8 DEF Jobs
  <2>4. Reserved("running", job'[s]) = AttemptReserve(job'[s])
    BY <2>3, ReservedTypes, ReserveTypes DEF Attempting, Executing
  <2>5. AttemptReserve(job'[s]) = PerSeedMaxBytes
                                    + (IF RenderAllowed(extra) THEN RenderReserve ELSE 0)
    BY <2>3 DEF AttemptReserve
  <2>6. bytesReserved' = bytesReserved + extra
                          + (IF RenderAllowed(extra) THEN RenderReserve ELSE 0)
    BY <1>8 DEF Start
  <2>7. bytesReserved' = bytesReserved + extra - PerSeedMaxBytes
                                   + Reserved("running", job'[s])
    BY <1>1, <2>1, <2>4, <2>5, <2>6
  <2> QED
    BY <2>2, <2>3, <2>7, <1>8 DEF Charge, TieOf, SlotPlaces, Attempting, Executing
<1>9. CASE DispatchRaw(s)
  <2>1. /\ pc[s] = "gate" /\ pc' = [pc EXCEPT ![s] = "running"]
        /\ Start(s, PerSeedMaxBytes, CostFits, FALSE)
        /\ costReserved' = costReserved + (IF CostFits THEN PerSeedCost ELSE 0)
    BY <1>9 DEF DispatchRaw
  <2>2. old = 0 /\ Charge(job[s]) = 0
    BY <2>1, HoldsNothing DEF SlotPlaces, Attempting, Executing
  <2>3. CostFits \in BOOLEAN
    BY DEF CostFits
  <2>4. /\ job'[s] \in Jobs /\ \A t \in Seeds \ {s} : job'[t] = job[t]
        /\ bytesReserved' = bytesReserved + PerSeedMaxBytes - PerSeedMaxBytes
                                   + Reserved("running", job'[s])
        /\ Charge(job'[s]) = IF CostFits THEN PerSeedCost ELSE 0
        /\ TieOf("running", job'[s])
    BY <1>1, <1>8, <2>1, <2>3
  <2>5. Reserved("running", job'[s]) \in Nat
    BY <2>4, ReservedTypes
  <2>6. /\ bytesReserved' = bytesReserved + Reserved("running", job'[s]) - old
        /\ costReserved' = costReserved + Charge(job'[s]) - Charge(job[s])
    BY <1>1, <2>1, <2>2, <2>4, <2>5
  <2> QED
    BY <2>1, <2>4, <2>6, QuietMove
<1>10. CASE StartTransform(s) \/ DowngradeToRaw(s)
  <2>1. PICK holdsSlot \in BOOLEAN : Start(s, 0, TRUE, holdsSlot)
    BY <1>10 DEF StartTransform, DowngradeToRaw
  <2>2. pc[s] = "slotReady" /\ costReserved' = costReserved
    BY <1>10 DEF StartTransform, DowngradeToRaw
  <2>3. old = PerSeedMaxBytes /\ Charge(job[s]) = PerSeedCost
    BY <1>1, <2>2, ReservedTypes DEF TieOf, SlotPlaces, Charge
  <2>4. /\ job'[s] \in Jobs /\ \A t \in Seeds \ {s} : job'[t] = job[t]
        /\ bytesReserved' = bytesReserved + 0 - PerSeedMaxBytes
                                   + Reserved("running", job'[s])
        /\ Charge(job'[s]) = PerSeedCost
        /\ TieOf("running", job'[s])
    BY <1>8, <2>1
  <2>5. Reserved("running", job'[s]) \in Nat
    BY <2>4, ReservedTypes
  <2>6. /\ bytesReserved' = bytesReserved + Reserved("running", job'[s]) - old
        /\ costReserved' = costReserved + Charge(job'[s]) - Charge(job[s])
    BY <1>1, <2>2, <2>3, <2>4, <2>5
  <2>7. CASE StartTransform(s)
    BY <2>4, <2>6, <2>7, QuietMove DEF StartTransform
  <2>8. CASE DowngradeToRaw(s)
    <3>1. pc'[s] = "running"
          /\ \A t \in Seeds \ {s} :
               pc'[t] = pc[t] \/ (pc[t] = "slotWait" /\ pc'[t] = "slotReady")
      BY <2>8, HeirsHold DEF DowngradeToRaw, LedgerInv
    <3>2. ASSUME NEW t \in Seeds \ {s}
          PROVE  /\ Reserved(pc'[t], job'[t]) = Reserved(pc[t], job[t])
                 /\ Charge(job'[t]) = Charge(job[t])
                 /\ TieOf(pc'[t], job'[t])
      <4>1. TieOf(pc[t], job[t])
        BY DEF LedgerInv, JobTies, TieOf
      <4> QED
        BY <2>4, <3>1, <4>1 DEF Reserved, TieOf, SlotPlaces, Attempting, Executing
    <3>3. JobTies'
      BY <2>4, <3>1, <3>2 DEF JobTies, TieOf
    <3> QED
      BY <2>6, <3>1, <3>2, <3>3 DEF Moves
  <2> QED
    BY <1>10, <2>7, <2>8
<1>11. CASE AskForSlot(s)
  <2>1. PICK at \in {"slotReady", "slotWait"} : pc' = [pc EXCEPT ![s] = at]
    BY <1>11 DEF AskForSlot
  <2>2. /\ pc[s] = "gate"
        /\ bytesReserved' = bytesReserved + PerSeedMaxBytes
        /\ costReserved' = costReserved + PerSeedCost
        /\ job' = [job EXCEPT ![s].transform = TRUE]
    BY <1>11 DEF AskForSlot
  <2>3. old = 0 /\ Charge(job[s]) = 0
    BY <2>2, HoldsNothing DEF SlotPlaces, Attempting, Executing
  <2>4. /\ job'[s] \in Jobs /\ job'[s].transform = TRUE /\ job'[s].retry = job[s].retry
        /\ job'[s].slot = job[s].slot /\ job'[s].render = job[s].render
        /\ \A t \in Seeds \ {s} : job'[t] = job[t]
    BY <1>1, <2>2 DEF Jobs
  <2>5. Reserved(at, job'[s]) = PerSeedMaxBytes /\ Charge(job'[s]) = PerSeedCost
        /\ TieOf(at, job'[s])
    BY <1>1, <2>2, <2>4, ReservedTypes DEF SlotPlaces, Charge, TieOf, Attempting, Executing
  <2>6. /\ bytesReserved' = bytesReserved + Reserved(at, job'[s]) - old
        /\ costReserved' = costReserved + Charge(job'[s]) - Charge(job[s])
    BY <1>1, <2>2, <2>3, <2>5
  <2> QED
    BY <2>1, <2>4, <2>5, <2>6, QuietMove
<1>12. CASE AwaitRetryAfter(s)
  <2>1. PICK doc \in DocBytes, hosts \in EgressSets :
          job' = [job EXCEPT ![s].retry = TRUE,
                             ![s].first = [bytes |-> doc, hosts |-> hosts]]
    BY <1>12 DEF AwaitRetryAfter
  <2>2. /\ pc[s] = "running" /\ pc' = [pc EXCEPT ![s] = "backoff"]
        /\ bytesReserved' = bytesReserved + AttemptReserve(job[s])
        /\ costReserved' = costReserved
    BY <1>12 DEF AwaitRetryAfter
  <2>3. /\ job'[s].retry = TRUE /\ job'[s].render = job[s].render
        /\ job'[s].transform = job[s].transform /\ job'[s].slot = job[s].slot
        /\ \A t \in Seeds \ {s} : job'[t] = job[t]
    BY <1>1, <2>1 DEF Jobs
  <2>4. AttemptReserve(job'[s]) = AttemptReserve(job[s]) /\ AttemptReserve(job[s]) \in Nat
    BY <1>1, <2>3, ReserveTypes DEF AttemptReserve
  <2>5. old = AttemptReserve(job[s])
    BY <1>1, <2>2, <2>4, ReservedTypes DEF TieOf, Attempting, Executing
  <2>6. Reserved("backoff", job'[s]) = AttemptReserve(job[s]) + AttemptReserve(job[s])
    BY <2>3, <2>4 DEF Reserved, SlotPlaces, Attempting
  <2>7. /\ Charge(job'[s]) = Charge(job[s]) /\ TieOf("backoff", job'[s])
    BY <1>1, <2>2, <2>3 DEF TieOf, Charge, SlotPlaces, Attempting, Executing
  <2>8. /\ bytesReserved' = bytesReserved + Reserved("backoff", job'[s]) - old
        /\ costReserved' = costReserved + Charge(job'[s]) - Charge(job[s])
    BY <1>1, <2>2, <2>4, <2>5, <2>6, <2>7
  <2> QED
    BY <2>2, <2>3, <2>7, <2>8, QuietMove
<1>13. CASE Throw(s)
  <2>1. /\ pc[s] \in Executing /\ pc' = [pc EXCEPT ![s] = "threw"]
        /\ bytesReserved' = bytesReserved
                            - (IF job[s].retry THEN AttemptReserve(job[s]) ELSE 0)
        /\ job' = [job EXCEPT ![s].retry = FALSE, ![s].first = NoFirst]
        /\ costReserved' = costReserved
    BY <1>13 DEF Throw
  <2>2. /\ job'[s].retry = FALSE /\ job'[s].render = job[s].render
        /\ job'[s].transform = job[s].transform /\ job'[s].slot = job[s].slot
        /\ \A t \in Seeds \ {s} : job'[t] = job[t]
    BY <1>1, <2>1 DEF Jobs
  <2>3. AttemptReserve(job'[s]) = AttemptReserve(job[s]) /\ AttemptReserve(job[s]) \in Nat
    BY <1>1, <2>2, ReserveTypes DEF AttemptReserve
  <2>4. old = AttemptReserve(job[s]) + (IF job[s].retry THEN AttemptReserve(job[s]) ELSE 0)
    BY <1>1, <2>1, ReservedTypes DEF Attempting
  <2>5. Reserved("threw", job'[s]) = AttemptReserve(job[s])
    BY <2>2, <2>3 DEF Reserved, SlotPlaces, Attempting
  <2>6. /\ Charge(job'[s]) = Charge(job[s]) /\ TieOf("threw", job'[s])
    BY <1>1, <2>1, <2>2 DEF TieOf, Charge, SlotPlaces, Attempting, Executing
  <2>7. job[s].retry \in BOOLEAN
    BY <1>1 DEF Jobs
  <2>8. /\ bytesReserved' = bytesReserved + Reserved("threw", job'[s]) - old
        /\ costReserved' = costReserved + Charge(job'[s]) - Charge(job[s])
    BY <1>1, <2>1, <2>3, <2>4, <2>5, <2>6, <2>7
  <2> QED
    BY <2>1, <2>2, <2>6, <2>8, QuietMove
<1> QED
  BY <1>2, <1>3, <1>4, <1>5, <1>7, <1>9, <1>10, <1>11, <1>12, <1>13
  DEF Continue, LeaveGate, LeaveBackoff

(* TransformPool!Safe in the words of AccountsExact: the slot has one      *)
(* holder.                                                                 *)
LEMMA OneHolder == SemaphoreInv => \A s, t \in SlotHolders : s = t
<1> SUFFICES ASSUME SemaphoreInv, NEW s \in SlotHolders, NEW t \in SlotHolders, s # t
             PROVE  FALSE
  OBVIOUS
<1>1. SlotHolders \in SUBSET Seeds /\ Cardinality(SlotHolders) <= 1
  <2>1. SlotHolders \in SUBSET Seeds
    BY PoolTypes
  <2>2. TransformPool!Cardinality(SlotHolders) <= 1
    BY DEF SemaphoreInv, TransformPool!Safe
  <2>3. TransformPool!Cardinality(SlotHolders) = Cardinality(SlotHolders)
    BY DEF TransformPool!Cardinality, Cardinality
  <2> QED
    BY <2>1, <2>2, <2>3
<1>2. /\ Cardinality(SlotHolders) \in Nat
      /\ Cardinality(SlotHolders \ {s}) = Cardinality(SlotHolders) - 1
      /\ Cardinality((SlotHolders \ {s}) \ {t}) = Cardinality(SlotHolders \ {s}) - 1
      /\ Cardinality((SlotHolders \ {s}) \ {t}) \in Nat
  BY <1>1, SeedCount
<1> QED
  BY <1>1, <1>2

(* The ledger is right after every step, the wall included: it moves seeds *)
(* between places at which they hold the same.                             *)
LEMMA LedgerStep == LedgerInv /\ [Next]_vars => LedgerInv'
<1> SUFFICES ASSUME LedgerInv, [Next]_vars PROVE LedgerInv'
  OBVIOUS
<1>1. SemaphoreInv' /\ TypeOK /\ TypeOK'
  BY SemaphoreStep DEF LedgerInv, SemaphoreInv
<1>2. ASSUME NEW s \in Seeds, Moves(s), JobTies' PROVE LedgerInv'
  BY <1>1, <1>2, MoveKeepsSums DEF LedgerInv
<1>3. ASSUME NEW s \in Seeds,
             \/ Continue(s) \/ LeaveGate(s) \/ LeaveBackoff(s)
             \/ Settle(s) \/ AwaitRetryAfter(s) \/ Throw(s)
      PROVE  LedgerInv'
  BY <1>2, <1>3, SeedMoves
<1>4. ASSUME bytesReserved' = bytesReserved, costReserved' = costReserved, job' = job,
             \A s \in Seeds : /\ Reserved(pc'[s], job[s]) = Reserved(pc[s], job[s])
                              /\ TieOf(pc'[s], job[s])
      PROVE  LedgerInv'
  <2>1. JobTies'
    BY <1>4 DEF JobTies, TieOf
  <2>2. ByteTerms' = ByteTerms /\ CostTerms' = CostTerms
    BY <1>4, ReservedIs DEF ByteTerms, CostTerms
  <2> QED
    BY <1>1, <1>4, <2>1, <2>2 DEF LedgerInv, SumsExact
<1>5. \A s \in Seeds : TieOf(pc[s], job[s])
  BY DEF LedgerInv, JobTies, TieOf
<1>6. CASE WallAbort
  <2>1. /\ bytesReserved' = bytesReserved /\ costReserved' = costReserved /\ job' = job
        /\ \A s \in Seeds : pc'[s] = AfterAbort(pc[s])
    BY <1>6 DEF WallAbort, budget
  <2>2. ASSUME NEW s \in Seeds
        PROVE  /\ Reserved(pc'[s], job[s]) = Reserved(pc[s], job[s])
               /\ TieOf(pc'[s], job[s])
    BY <1>5, <2>1
    DEF AfterAbort, Reserved, TieOf, SlotPlaces, Attempting, Executing
  <2> QED
    BY <1>4, <2>1, <2>2
<1>7. CASE ClockPasses \/ Returned \/ UNCHANGED vars
  <2>1. bytesReserved' = bytesReserved /\ costReserved' = costReserved /\ job' = job /\ pc' = pc
    BY <1>7 DEF ClockPasses, Returned, vars, budget
  <2> QED
    BY <1>4, <1>5, <2>1
<1> QED
  BY <1>3, <1>6, <1>7 DEF Next

LEMMA InitLedger == Init => LedgerInv
<1> SUFFICES ASSUME Init PROVE LedgerInv
  OBVIOUS
<1>1. SemaphoreInv
  BY InitPools
<1>2. \A s \in Seeds : job[s] = NoJob /\ pc[s] \in {"admitted", "queued"}
  BY DEF Init
<1>3. JobTies
  BY <1>2 DEF JobTies, NoJob, SlotPlaces
<1>4. \A s \in Seeds : Reserved(pc[s], job[s]) = 0 /\ Charge(job[s]) = 0
  BY <1>2 DEF Reserved, Charge, NoJob, SlotPlaces, Attempting, Executing
<1>5. SumFunction(ByteTerms) = 0 /\ SumFunction(CostTerms) = 0
  BY <1>1, <1>4, TermTypes, SeedCount, SumType DEF SemaphoreInv, TermFacts
<1> QED
  BY <1>1, <1>3, <1>5 DEF LedgerInv, SumsExact, Init

(* The bill. Whoever holds the transform slot has found the settled and the*)
(* reserved cost within the cap when it started (StartTransform), and      *)
(* nobody else can settle a cost meanwhile: so one seed at most pushes the *)
(* bill over the cap, by what it costs beyond its own reservation.         *)
MostCosts == {c \in Costs : \A d \in Costs : d <= c}
BillBounded ==
  \A cost \in MostCosts :
    costSettled <= MaxCost + (IF cost > PerSeedCost THEN cost - PerSeedCost ELSE 0)
SlotAffordable == \A s \in Seeds : job[s].slot => costSettled + costReserved <= MaxCost
BillInv == LedgerInv /\ SlotAffordable /\ BillBounded

LEMMA BillTypes ==
  ASSUME LedgerInv
  PROVE  /\ costSettled \in Nat /\ costReserved \in Int /\ MaxCost \in Nat /\ PerSeedCost \in Nat
         /\ Costs \subseteq Nat /\ job \in [Seeds -> Jobs]
         /\ costReserved >= 0
         /\ \A s \in Seeds : HeldCost(s) \in Nat /\ HeldCost(s) <= costReserved
<1>1. TypeOK /\ SumsExact /\ IsFiniteSet(Seeds)
  BY SeedCount DEF LedgerInv, SemaphoreInv
<1>2. ASSUME NEW s \in Seeds PROVE HeldCost(s) \in Nat /\ HeldCost(s) <= costReserved
  BY <1>1, TermTypes, SumAtLeast, ConstantTypes DEF TermFacts, SumsExact, CostTerms, HeldCost
<1>3. costReserved >= 0
  BY <1>1, TermTypes, SumType DEF SumsExact, TermFacts
<1> QED
  BY <1>1, <1>2, <1>3, ConstantTypes, PoolTypes DEF TypeOK, LedgerInv

(* Steps that only give reservations back.                                 *)
LEMMA BillQuiet ==
  ASSUME BillInv, costSettled' = costSettled, costReserved' \in Int, costReserved' <= costReserved,
         \A t \in Seeds : job'[t].slot => job[t].slot
  PROVE  SlotAffordable' /\ BillBounded'
<1>1. costSettled \in Nat /\ costReserved \in Int /\ MaxCost \in Nat
  BY BillTypes DEF BillInv
<1>2. SlotAffordable'
  BY <1>1 DEF BillInv, SlotAffordable
<1>3. BillBounded'
  BY DEF BillInv, BillBounded, MostCosts
<1> QED
  BY <1>2, <1>3

LEMMA BillStep == BillInv /\ [Next]_vars => BillInv'
<1> SUFFICES ASSUME BillInv, [Next]_vars PROVE SlotAffordable' /\ BillBounded'
  BY LedgerStep DEF BillInv
<1>1. /\ costSettled \in Nat /\ costReserved \in Int /\ MaxCost \in Nat /\ PerSeedCost \in Nat
      /\ Costs \subseteq Nat /\ job \in [Seeds -> Jobs] /\ costReserved >= 0
      /\ \A s \in Seeds : HeldCost(s) \in Nat /\ HeldCost(s) <= costReserved
  BY BillTypes DEF BillInv
<1>2. ASSUME NEW s \in Seeds,
             EnterGate(s) \/ LoseSlot(s) \/ Retry(s) \/ RefuseAdmission(s)
             \/ MissDeadline(s) \/ RefuseBudget(s) \/ DropOnHardStop(s)
             \/ LoseTransformSlot(s) \/ DowngradeToRaw(s) \/ AwaitRetryAfter(s) \/ Throw(s)
      PROVE  SlotAffordable' /\ BillBounded'
  <2>1. costSettled' = costSettled
    BY <1>2 DEF EnterGate, LoseSlot, Retry, RefuseAdmission, MissDeadline, RefuseBudget,
      DropOnHardStop, LoseTransformSlot, DowngradeToRaw, AwaitRetryAfter, Throw,
      CancelReservation, budget
  <2>2. costReserved' = costReserved \/ costReserved' = costReserved - HeldCost(s)
    BY <1>2 DEF EnterGate, LoseSlot, Retry, RefuseAdmission, MissDeadline, RefuseBudget,
      DropOnHardStop, LoseTransformSlot, DowngradeToRaw, AwaitRetryAfter, Throw,
      CancelReservation, budget
  <2>3. \A t \in Seeds : job'[t].slot => job[t].slot
    <3>1. CASE EnterGate(s) \/ LoseSlot(s) \/ Retry(s)
      BY <3>1 DEF EnterGate, LoseSlot, Retry
    <3>2. CASE RefuseAdmission(s) \/ MissDeadline(s) \/ RefuseBudget(s)
               \/ DropOnHardStop(s) \/ LoseTransformSlot(s)
      BY <1>1, <3>2 DEF RefuseAdmission, MissDeadline, RefuseBudget, DropOnHardStop,
        LoseTransformSlot, Leave, NoJob
    <3>3. CASE DowngradeToRaw(s)
      BY <1>1, <3>3 DEF DowngradeToRaw, Start, NoJob
    <3>4. CASE AwaitRetryAfter(s) \/ Throw(s)
      BY <1>1, <3>4 DEF AwaitRetryAfter, Throw, Jobs
    <3> QED
      BY <1>2, <3>1, <3>2, <3>3, <3>4
  <2> QED
    BY <1>1, <2>1, <2>2, <2>3, BillQuiet
<1>3. ASSUME NEW s \in Seeds, DispatchRaw(s) \/ AskForSlot(s)
      PROVE  SlotAffordable' /\ BillBounded'
  <2>1. CASE CostFits
    <3>1. costSettled' = costSettled /\ costReserved' = costReserved + PerSeedCost
      BY <1>3, <2>1 DEF DispatchRaw, AskForSlot
    <3>2. costSettled' + costReserved' <= MaxCost
      BY <1>1, <2>1, <3>1 DEF CostFits
    <3> QED
      BY <3>1, <3>2 DEF BillInv, SlotAffordable, BillBounded, MostCosts
  <2>2. CASE ~CostFits
    <3>1. /\ costSettled' = costSettled /\ costReserved' = costReserved + 0
          /\ Start(s, PerSeedMaxBytes, CostFits, FALSE)
      BY <1>3, <2>2 DEF DispatchRaw, AskForSlot
    <3>2. \A t \in Seeds : job'[t].slot => job[t].slot
      BY <1>1, <3>1 DEF Start, NoJob
    <3> QED
      BY <1>1, <3>1, <3>2, BillQuiet
  <2> QED
    BY <2>1, <2>2
<1>4. ASSUME NEW s \in Seeds, StartTransform(s)
      PROVE  SlotAffordable' /\ BillBounded'
  <2>1. /\ costSettled' = costSettled /\ costReserved' = costReserved
        /\ costSettled + costReserved <= MaxCost
    BY <1>1, <1>4 DEF StartTransform, CostCapReached
  <2> QED
    BY <2>1 DEF BillInv, SlotAffordable, BillBounded, MostCosts
<1>5. ASSUME NEW s \in Seeds, NEW bytes, NEW cost \in Costs, NEW hosts, NEW rendered, NEW r,
             Finish(s, bytes, cost, hosts, rendered, r), cost # 0 => job[s].slot
      PROVE  SlotAffordable' /\ BillBounded'
  <2>1. /\ costReserved' = costReserved - HeldCost(s)
        /\ costSettled' = costSettled + (IF job[s].transform THEN cost ELSE 0)
        /\ job' = [job EXCEPT ![s] = NoJob]
    BY <1>5 DEF Finish, AfterSeed, Leave
  <2>2. \A t \in Seeds : job'[t].slot => t # s /\ job[t].slot
    BY <1>1, <2>1 DEF NoJob
  <2>3. CASE cost = 0
    BY <1>1, <2>1, <2>2, <2>3, BillQuiet
  <2>4. CASE cost # 0
    <3>1. job[s].slot /\ job[s].transform /\ s \in SlotHolders
      BY <1>5, <2>4 DEF BillInv, LedgerInv, JobTies, SlotHolders
    <3>2. \A t \in Seeds : ~job'[t].slot
      BY <2>2, <3>1, OneHolder DEF BillInv, LedgerInv, SlotHolders
    <3>3. costSettled + costReserved <= MaxCost /\ HeldCost(s) = PerSeedCost
      BY <3>1 DEF BillInv, SlotAffordable, HeldCost
    <3>4. costSettled' = costSettled + cost /\ PerSeedCost <= costReserved
      BY <1>1, <2>1, <3>1, <3>3
    <3>5. costSettled + PerSeedCost <= MaxCost
      BY <1>1, <3>3, <3>4
    <3>6. ASSUME NEW most \in MostCosts
          PROVE  costSettled' <= MaxCost + (IF most > PerSeedCost THEN most - PerSeedCost ELSE 0)
      BY <1>1, <3>4, <3>5 DEF MostCosts
    <3> QED
      BY <3>2, <3>6 DEF SlotAffordable, BillBounded, MostCosts
  <2> QED
    BY <2>3, <2>4
<1>6. ASSUME NEW s \in Seeds, Settle(s) PROVE SlotAffordable' /\ BillBounded'
  <2>1. PICK a \in Answers(s) :
          Finish(s, job[s].first.bytes + Reported(a), a.cost,
                 job[s].first.hosts \cup a.hosts, a.rendered, "settled")
    BY <1>6 DEF Settle
  <2>2. a.cost \in Costs /\ (a.cost # 0 => job[s].slot)
    BY DEF Answers
  <2> QED
    BY <1>5, <2>1, <2>2
<1>7. ASSUME NEW s \in Seeds, SettleAbandoned(s) \/ SettleThrown(s) \/ GiveUpRetry(s)
      PROVE  SlotAffordable' /\ BillBounded'
  <2>1. 0 \in Costs
    BY BulkAssumption DEF BulkAssumption
  <2> QED
    BY <1>5, <1>7, <2>1 DEF SettleAbandoned, SettleThrown, GiveUpRetry
<1>8. CASE WallAbort \/ ClockPasses \/ Returned \/ UNCHANGED vars
  <2>1. costSettled' = costSettled /\ costReserved' = costReserved /\ job' = job
    BY <1>8 DEF WallAbort, ClockPasses, Returned, vars, budget
  <2> QED
    BY <1>1, <2>1, BillQuiet
<1> QED
  BY <1>2, <1>3, <1>4, <1>6, <1>7, <1>8 DEF Next, Continue, LeaveGate, LeaveBackoff

LEMMA InitBill == Init => BillInv
<1> SUFFICES ASSUME Init PROVE BillInv
  OBVIOUS
<1>1. LedgerInv
  BY InitLedger
<1>2. (\A s \in Seeds : ~job[s].slot) /\ costSettled = 0
  BY DEF Init, NoJob
<1>3. \A cost \in MostCosts : cost \in Nat
  BY ConstantTypes DEF MostCosts
<1> QED
  BY <1>1, <1>2, <1>3, ConstantTypes DEF BillInv, SlotAffordable, BillBounded

(* The reservations are exact and the bill is bounded for any number of    *)
(* seeds, guard and answers: nothing leaks and nothing is released twice on*)
(* the abort, downgrade, retry and throw paths of runPool, and one seed's  *)
(* excess is all the bill can overshoot by (bulk-budget.ts).               *)
THEOREM LedgerExact == Spec => []AccountsExact
<1>2. BillInv => AccountsExact
  <2> SUFFICES ASSUME BillInv PROVE AccountsExact
    OBVIOUS
  <2>1. \A s, t \in SlotHolders : s = t
    BY OneHolder DEF BillInv, LedgerInv
  <2>2. \A cost \in Costs : (\A c \in Costs : c <= cost) =>
          costSettled <= MaxCost + (IF cost > PerSeedCost THEN cost - PerSeedCost ELSE 0)
    BY DEF BillInv, BillBounded, MostCosts
  <2> QED
    BY <2>1, <2>2 DEF BillInv, LedgerInv, SumsExact, ByteTerms, CostTerms, AccountsExact
<1> QED
  BY <1>2, InitBill, BillStep, PTL DEF Spec

----------------------------------------------------------------------------
(* What the call does to the world. Before the wall the bytes moved are the*)
(* bytes settled, unless an execution loses count of what it moved         *)
(* (MayTimeOut, MayThrow); after it nothing reserves any more, and what an *)
(* abandoned execution moves was reserved.                                 *)
WireInv ==
  ~(MayTimeOut \/ MayThrow) =>
    /\ wire + bytesReserved <= MaxEgress
    /\ ~aborted => wire = bytesSettled
(* Only the wall abandons an execution.                                    *)
Endings ==
  \A s \in Seeds : /\ pc[s] = "abandoned" => aborted
                   /\ pc[s] = "threw" => MayThrow

LEMMA EndingsStep == TypeOK /\ Endings /\ [Next]_vars => Endings'
<1> SUFFICES ASSUME TypeOK, Endings, [Next]_vars PROVE Endings'
  OBVIOUS
<1>t. pc \in [Seeds -> PCs] /\ job \in [Seeds -> Jobs]
  BY DEF TypeOK, Jobs
<1>1. ASSUME NEW s \in Seeds, NEW at, pc' = [pc EXCEPT ![s] = at], aborted' = aborted,
             at = "threw" => MayThrow, at # "abandoned"
      PROVE  Endings'
  BY <1>1, <1>t DEF Endings
<1>2. ASSUME NEW s \in Seeds, aborted' = aborted, NEW holds, Leave(s, holds) PROVE Endings'
  BY <1>2 DEF Endings, Leave
<1>3. ASSUME NEW s \in Seeds, Continue(s) PROVE Endings'
  <2>1. CASE EnterGate(s) \/ StartTransform(s) \/ LoseSlot(s)
    BY <1>1, <2>1 DEF EnterGate, StartTransform, LoseSlot, walls
  <2>2. CASE RefuseAdmission(s) \/ DropOnHardStop(s) \/ LoseTransformSlot(s)
    BY <1>2, <2>2 DEF RefuseAdmission, DropOnHardStop, LoseTransformSlot, walls
  <2>3. CASE SettleAbandoned(s) \/ SettleThrown(s)
    BY <1>2, <2>3 DEF SettleAbandoned, SettleThrown, Finish, walls
  <2>4. CASE DowngradeToRaw(s)
    BY <2>4 DEF DowngradeToRaw, walls, Endings
  <2> QED
    BY <1>3, <2>1, <2>2, <2>3, <2>4 DEF Continue
<1>4. ASSUME NEW s \in Seeds, LeaveGate(s) \/ LeaveBackoff(s) PROVE Endings'
  <2>1. CASE MissDeadline(s) \/ RefuseBudget(s) \/ GiveUpRetry(s)
    BY <1>2, <2>1 DEF MissDeadline, RefuseBudget, GiveUpRetry, Finish, walls
  <2>2. CASE DispatchRaw(s) \/ Retry(s)
    <3>1. aborted' = aborted
      BY <2>2 DEF DispatchRaw, Retry, walls
    <3>2. \/ pc' = [pc EXCEPT ![s] = "running"]
          \/ pc' = [pc EXCEPT ![s] = "rerunning"]
      BY <2>2 DEF DispatchRaw, Retry
    <3> QED
      BY <1>1, <3>1, <3>2
  <2>3. CASE AskForSlot(s)
    <3>1. aborted' = aborted
      BY <2>3 DEF AskForSlot, walls
    <3>2. \/ pc' = [pc EXCEPT ![s] = "slotReady"]
          \/ pc' = [pc EXCEPT ![s] = "slotWait"]
      BY <2>3 DEF AskForSlot
    <3> QED
      BY <1>1, <3>1, <3>2
  <2> QED
    BY <1>4, <2>1, <2>2, <2>3 DEF LeaveGate, LeaveBackoff
<1>5. ASSUME NEW s \in Seeds, Settle(s) \/ AwaitRetryAfter(s) \/ Throw(s) PROVE Endings'
  <2>1. CASE Settle(s)
    BY <1>2, <2>1 DEF Settle, Finish, walls
  <2>2. CASE AwaitRetryAfter(s) \/ Throw(s)
    BY <1>1, <2>2 DEF AwaitRetryAfter, Throw, walls
  <2> QED
    BY <1>5, <2>1, <2>2
<1>6. CASE WallAbort
  <2>1. aborted' /\ \A s \in Seeds : pc'[s] = "threw" => pc[s] = "threw"
    BY <1>6 DEF WallAbort, AfterAbort
  <2> QED
    BY <2>1 DEF Endings
<1>7. CASE ClockPasses \/ Returned \/ UNCHANGED vars
  BY <1>7 DEF ClockPasses, Returned, vars, walls, Endings
<1> QED
  BY <1>3, <1>4, <1>5, <1>6, <1>7 DEF Next

WireTies == BudgetInv /\ WallInv /\ Endings /\ WireInv

LEMMA WireStep == WireTies /\ [Next]_vars /\ BudgetBounded' => WireInv'
<1> SUFFICES ASSUME WireTies, [Next]_vars, BudgetBounded', ~(MayTimeOut \/ MayThrow)
             PROVE  /\ wire' + bytesReserved' <= MaxEgress
                    /\ ~aborted' => wire' = bytesSettled'
  BY DEF WireInv
<1>t. /\ wire \in Nat /\ bytesReserved \in Int /\ bytesSettled \in Nat /\ MaxEgress \in Nat
      /\ wire + bytesReserved <= MaxEgress /\ (~aborted => wire = bytesSettled)
      /\ TypeOK /\ FirstWithin /\ bytesSettled + bytesReserved <= MaxEgress
      /\ bytesSettled' + bytesReserved' <= MaxEgress
      /\ PerSeedMaxBytes \in Nat
      /\ aborted \in BOOLEAN
  BY CounterTypes, ConstantTypes
  DEF WireTies, BudgetInv, BudgetBounded, WireInv, WallInv, TypeOK
<1>1. ASSUME ~aborted, aborted' = aborted, wire' = wire, bytesSettled' = bytesSettled
      PROVE  /\ wire' + bytesReserved' <= MaxEgress
             /\ ~aborted' => wire' = bytesSettled'
  BY <1>1, <1>t
<1>2. ASSUME NEW d \in Nat, NEW e \in Nat, d <= e, bytesReserved' = bytesReserved - e,
             wire' = wire + d, aborted' = aborted,
             ~aborted => bytesSettled' = bytesSettled + d
      PROVE  /\ wire' + bytesReserved' <= MaxEgress
             /\ ~aborted' => wire' = bytesSettled'
  BY <1>2, <1>t
<1>3. ASSUME NEW s \in Seeds,
             \/ EnterGate(s) \/ LoseSlot(s) \/ Retry(s)
             \/ RefuseAdmission(s) \/ MissDeadline(s) \/ RefuseBudget(s)
      PROVE  /\ wire' + bytesReserved' <= MaxEgress
             /\ ~aborted' => wire' = bytesSettled'
  <2>1. /\ wire' = wire /\ aborted' = aborted /\ bytesSettled' = bytesSettled
        /\ bytesReserved' = bytesReserved
    BY <1>3 DEF EnterGate, LoseSlot, Retry, RefuseAdmission, MissDeadline, RefuseBudget,
      budget, walls
  <2> QED
    BY <2>1, <1>t
<1>4. ASSUME NEW s \in Seeds, DropOnHardStop(s) \/ LoseTransformSlot(s)
      PROVE  /\ wire' + bytesReserved' <= MaxEgress
             /\ ~aborted' => wire' = bytesSettled'
  <2>1. /\ wire' = wire /\ aborted' = aborted /\ bytesSettled' = bytesSettled
        /\ bytesReserved' = bytesReserved - PerSeedMaxBytes
    BY <1>4 DEF DropOnHardStop, LoseTransformSlot, CancelReservation, walls
  <2> QED
    BY <2>1, <1>t
<1>5. ASSUME NEW s \in Seeds,
             \/ DispatchRaw(s) \/ AskForSlot(s) \/ AwaitRetryAfter(s)
             \/ StartTransform(s) \/ DowngradeToRaw(s)
      PROVE  /\ wire' + bytesReserved' <= MaxEgress
             /\ ~aborted' => wire' = bytesSettled'
  <2>1. aborted' = aborted /\ wire' = wire /\ bytesSettled' = bytesSettled
    BY <1>5 DEF DispatchRaw, AskForSlot, AwaitRetryAfter, StartTransform, DowngradeToRaw, walls
  <2>2. ~aborted
    BY <1>5 DEF DispatchRaw, AskForSlot, AwaitRetryAfter, StartTransform, DowngradeToRaw,
      WallReached, RetryFits, WireTies, WallInv, SlotIdle
  <2> QED
    BY <2>1, <2>2, <1>1
<1>6. ASSUME NEW s \in Seeds, NEW bytes \in Nat, NEW cost, NEW hosts, NEW rendered, NEW r,
             Finish(s, bytes, cost, hosts, rendered, r),
             NEW d \in Nat, d <= Held(s), wire' = wire + d, ~aborted => bytes = d
      PROVE  /\ wire' + bytesReserved' <= MaxEgress
             /\ ~aborted' => wire' = bytesSettled'
  <2>1. /\ bytesReserved' = bytesReserved - Held(s) /\ bytesSettled' = bytesSettled + bytes
        /\ aborted' = aborted
    BY <1>6 DEF Finish, AfterSeed, walls
  <2>2. Held(s) \in Nat
    BY <1>t, ReportWithin
  <2> QED
    BY <1>2, <1>6, <2>1, <2>2
<1>7. ASSUME NEW s \in Seeds, Settle(s)
      PROVE  /\ wire' + bytesReserved' <= MaxEgress
             /\ ~aborted' => wire' = bytesSettled'
  <2>1. PICK a \in Answers(s) :
          /\ Finish(s, job[s].first.bytes + Reported(a), a.cost,
                    job[s].first.hosts \cup a.hosts, a.rendered, "settled")
          /\ wire' = wire + job[s].first.bytes + a.doc + a.sub
    BY <1>7 DEF Settle
  <2>2. Reported(a) = a.doc + a.sub /\ a.doc \in Nat /\ a.sub \in Nat
        /\ a.doc + a.sub <= AttemptReserve(job[s])
    BY <1>t, AnswerWithin DEF Answers, Reported
  <2>3. /\ job[s].first.bytes \in Nat /\ Held(s) \in Nat /\ AttemptReserve(job[s]) \in Nat
        /\ job[s].first.bytes + AttemptReserve(job[s]) <= Held(s)
    BY <1>t, ReportWithin
  <2>4. /\ job[s].first.bytes + Reported(a) \in Nat
        /\ job[s].first.bytes + Reported(a) <= Held(s)
        /\ wire' = wire + (job[s].first.bytes + Reported(a))
    BY <1>t, <2>1, <2>2, <2>3
  <2> QED
    BY <1>6, <2>1, <2>4
<1>8. ASSUME NEW s \in Seeds, GiveUpRetry(s)
      PROVE  /\ wire' + bytesReserved' <= MaxEgress
             /\ ~aborted' => wire' = bytesSettled'
  <2>1. job[s].first.bytes \in Nat /\ job[s].first.bytes <= Held(s)
    BY <1>t, ReportWithin
  <2> QED
    BY <1>6, <1>8, <2>1 DEF GiveUpRetry
<1>9. ASSUME NEW s \in Seeds, SettleAbandoned(s)
      PROVE  /\ wire' + bytesReserved' <= MaxEgress
             /\ ~aborted' => wire' = bytesSettled'
  <2>1. aborted
    BY <1>9 DEF SettleAbandoned, WireTies, Endings
  <2>2. PICK doc \in DocBytes, sub \in RenderBytes :
          /\ sub # 0 => job[s].render
          /\ wire' = wire + job[s].first.bytes + doc + sub
    BY <1>9 DEF SettleAbandoned
  <2>3. doc \in Nat /\ sub \in Nat /\ doc + sub <= AttemptReserve(job[s])
    BY <2>2, <1>t, ConstantTypes DEF AttemptReserve
  <2>4. /\ job[s].first.bytes \in Nat /\ Held(s) \in Nat /\ AttemptReserve(job[s]) \in Nat
        /\ job[s].first.bytes + AttemptReserve(job[s]) <= Held(s)
    BY <1>t, ReportWithin
  <2>5. /\ job[s].first.bytes + doc + sub \in Nat
        /\ job[s].first.bytes + doc + sub <= Held(s)
        /\ wire' = wire + (job[s].first.bytes + doc + sub)
    BY <1>t, <2>2, <2>3, <2>4
  <2> QED
    BY <1>6, <1>9, <2>1, <2>4, <2>5 DEF SettleAbandoned
<1>10. ASSUME NEW s \in Seeds, SettleThrown(s) \/ Throw(s) PROVE FALSE
  BY <1>10 DEF SettleThrown, Throw, WireTies, Endings
<1>11. CASE WallAbort
  <2>1. /\ aborted' /\ ~aborted /\ wire' = wire /\ bytesSettled' = bytesSettled
        /\ bytesReserved' = bytesReserved
    BY <1>11 DEF WallAbort, budget
  <2> QED
    BY <1>t, <2>1
<1>12. CASE ClockPasses \/ Returned \/ UNCHANGED vars
  <2>1. /\ aborted' = aborted /\ wire' = wire /\ bytesSettled' = bytesSettled
        /\ bytesReserved' = bytesReserved
    BY <1>12 DEF ClockPasses, Returned, vars, budget, walls
  <2> QED
    BY <1>t, <2>1
<1> QED
  BY <1>3, <1>4, <1>5, <1>7, <1>8, <1>9, <1>10, <1>11, <1>12
  DEF Next, Continue, LeaveGate, LeaveBackoff

----------------------------------------------------------------------------
(* The hosts. While no stop is hard, the seeds of h that are in flight and *)
(* the count of h stay together below twice the cap: a foreign seed that   *)
(* reaches the cap stops the dispatch, and a home seed is admitted below   *)
(* the cap only. After a hard stop only what is in flight still counts.    *)
InFlight == {s \in Seeds : pc[s] \notin {"queued", "admitted", "lost", "done"}}
HomeFlight(h) == {s \in InFlight : Home[s] = h}

HostsInv ==
  \A h \in Hosts :
    /\ shortCircuit \notin Hard =>
         hostCounts[h] + Cardinality(HomeFlight(h)) <= MaxPerHost + Least - 1
    /\ shortCircuit \in Hard =>
         hostCounts[h] + Cardinality(InFlight) <= MaxPerHost + Least - 1 + MaxConcurrency

FlightFacts ==
  /\ InFlight \in SUBSET Seeds /\ Cardinality(InFlight) \in Nat
  /\ Cardinality(InFlight) <= MaxConcurrency
  /\ \A h \in Hosts : /\ HomeFlight(h) \in SUBSET Seeds /\ Cardinality(HomeFlight(h)) \in Nat
                      /\ Cardinality(HomeFlight(h)) <= Cardinality(InFlight)
                      /\ Cardinality(HomeFlight(h)) <= Least

LEMMA LeastType ==
  /\ Least \in Nat /\ MaxPerHost \in Nat /\ MaxConcurrency \in Nat /\ Least >= 1
  /\ Least = MaxPerHost \/ Least = MaxConcurrency
BY BulkAssumption DEF BulkAssumption, Least

LEMMA FlightSizes == SemaphoreInv => FlightFacts
<1> SUFFICES ASSUME SemaphoreInv PROVE FlightFacts
  OBVIOUS
<1>1. FetchHolders \in SUBSET Seeds /\ Cardinality(FetchHolders) <= MaxConcurrency
  <2>1. FetchPool!Cardinality(FetchHolders) <= MaxConcurrency
    BY DEF SemaphoreInv, FetchPool!Safe
  <2> QED
    BY <2>1, PoolConstants, PoolTypes
<1>2. InFlight \in SUBSET FetchHolders
  BY DEF InFlight, FetchHolders
<1>3. \A S \in SUBSET Seeds : \A T \in SUBSET S :
        /\ Cardinality(S) \in Nat /\ Cardinality(T) \in Nat
        /\ Cardinality(T) <= Cardinality(S)
  BY SeedCount, FS_Subset
<1>4. ASSUME NEW h \in Hosts
      PROVE  /\ HomeFlight(h) \in SUBSET Seeds /\ Cardinality(HomeFlight(h)) \in Nat
             /\ Cardinality(HomeFlight(h)) <= Cardinality(InFlight)
             /\ Cardinality(HomeFlight(h)) <= MaxPerHost
  <2>1. /\ HomeFlight(h) \in SUBSET InFlight /\ InFlight \in SUBSET Seeds
        /\ HomeFlight(h) \in SUBSET {s \in Seeds : Home[s] = h}
        /\ {s \in Seeds : Home[s] = h} \in SUBSET Seeds
    BY DEF HomeFlight, InFlight
  <2>2. /\ Cardinality(HomeFlight(h)) \in Nat
        /\ Cardinality(HomeFlight(h)) <= Cardinality(InFlight)
        /\ Cardinality(HomeFlight(h)) <= Cardinality({s \in Seeds : Home[s] = h})
        /\ Cardinality({s \in Seeds : Home[s] = h}) \in Nat
    BY <1>3, <2>1
  <2>3. Cardinality({s \in Seeds : Home[s] = h}) <= MaxPerHost
    BY ShapingAssumption DEF ShapingAssumption
  <2> QED
    BY <2>1, <2>2, <2>3, ConstantTypes
<1>5. Cardinality(InFlight) \in Nat /\ Cardinality(InFlight) <= MaxConcurrency
  BY <1>1, <1>2, <1>3, ConstantTypes
<1>6. \A h \in Hosts : Cardinality(HomeFlight(h)) <= Least
  BY <1>4, <1>5, LeastType
<1> QED
  BY <1>1, <1>2, <1>4, <1>5, <1>6 DEF FlightFacts

LEMMA FlightSizesNext == SemaphoreInv' => FlightFacts'
BY FlightSizes, PTL

(* Steps that neither admit nor count.                                     *)
LEMMA HostsShrink ==
  ASSUME SemaphoreInv, SemaphoreInv', HostsInv, InFlight' \subseteq InFlight, TypeOK,
         hostCounts' = hostCounts, shortCircuit \in Hard => shortCircuit' \in Hard
  PROVE  HostsInv'
<1>1. ASSUME NEW h \in Hosts
      PROVE  /\ Cardinality(HomeFlight(h)') <= Cardinality(HomeFlight(h))
             /\ Cardinality(InFlight') <= Cardinality(InFlight)
             /\ Cardinality(HomeFlight(h)') \in Nat /\ Cardinality(InFlight') \in Nat
  <2>1. InFlight' \in SUBSET InFlight /\ HomeFlight(h)' \in SUBSET HomeFlight(h)
    BY DEF HomeFlight
  <2> QED
    BY <2>1, FlightSizes, SeedCount, FS_Subset DEF FlightFacts
<1>2. ASSUME NEW h \in Hosts
      PROVE  /\ Cardinality(HomeFlight(h)) \in Nat /\ Cardinality(InFlight) \in Nat
             /\ Cardinality(HomeFlight(h)) <= Cardinality(InFlight)
             /\ hostCounts[h] \in Nat /\ hostCounts'[h] = hostCounts[h]
  BY FlightSizes DEF FlightFacts, TypeOK
<1>3. ASSUME NEW h \in Hosts, shortCircuit' \notin Hard
      PROVE  hostCounts'[h] + Cardinality(HomeFlight(h)') <= MaxPerHost + Least - 1
  <2>1. hostCounts[h] + Cardinality(HomeFlight(h)) <= MaxPerHost + Least - 1
    BY <1>3 DEF HostsInv
  <2> QED
    BY <1>1, <1>2, <2>1, LeastType
<1>4. ASSUME NEW h \in Hosts, shortCircuit' \in Hard
      PROVE  hostCounts'[h] + Cardinality(InFlight')
               <= MaxPerHost + Least - 1 + MaxConcurrency
  <2>1. CASE shortCircuit \in Hard
    <3>1. hostCounts[h] + Cardinality(InFlight) <= MaxPerHost + Least - 1 + MaxConcurrency
      BY <2>1 DEF HostsInv
    <3> QED
      BY <1>1, <1>2, <3>1, LeastType
  <2>2. CASE shortCircuit \notin Hard
    <3>1. hostCounts[h] + Cardinality(HomeFlight(h)) <= MaxPerHost + Least - 1
      BY <2>2 DEF HostsInv
    <3>2. Cardinality(InFlight) <= MaxConcurrency
      BY FlightSizes DEF FlightFacts
    <3> QED
      BY <1>1, <1>2, <3>1, <3>2, LeastType
  <2> QED
    BY <2>1, <2>2
<1> QED
  BY <1>3, <1>4 DEF HostsInv

(* A seed that settles counts each host it touched once and is in flight no*)
(* more.                                                                   *)
LEMMA HostsFinish ==
  ASSUME SemaphoreInv, SemaphoreInv', HostsInv, NEW s \in InFlight, NEW bytes, NEW cost,
         NEW hosts \in SUBSET Hosts, NEW rendered, NEW r,
         Finish(s, bytes, cost, hosts, rendered, r)
  PROVE  HostsInv'
<1> DEFINE breach == AfterBreach(s, bytes, cost)
<1>1. /\ hostCounts' = Counted(s, hosts)
      /\ shortCircuit' = IF Quarantines(s, breach, hosts) THEN "host" ELSE AfterBudget(breach)
      /\ Leave(s, job[s].slot) /\ s \in Seeds
  BY DEF Finish, InFlight
<1>2. InFlight' = InFlight \ {s}
  <2>2. /\ \A t \in Heirs(sem) : t \in Seeds /\ pc[t] = "queued"
        /\ \A t \in Heirs(slot) : t \in Seeds /\ pc[t] = "slotWait"
    BY HeirsHold
  <2>3. /\ pc'[s] = "done"
        /\ \A t \in Seeds \ {s} :
             \/ pc'[t] = pc[t]
             \/ (pc[t] = "queued" /\ pc'[t] = "admitted")
             \/ (pc[t] = "slotWait" /\ pc'[t] = "slotReady")
    BY <1>1, <2>2 DEF Leave
  <2> QED
    BY <2>3 DEF InFlight
<1>3. /\ Cardinality(InFlight') = Cardinality(InFlight) - 1
      /\ \A h \in Hosts :
           /\ Home[s] = h => Cardinality(HomeFlight(h)') = Cardinality(HomeFlight(h)) - 1
           /\ Home[s] # h => Cardinality(HomeFlight(h)') = Cardinality(HomeFlight(h))
  <2>1. \A h \in Hosts : HomeFlight(h)' = IF Home[s] = h THEN HomeFlight(h) \ {s} ELSE HomeFlight(h)
    BY <1>2 DEF HomeFlight
  <2>2. \A h \in Hosts : Home[s] = h => s \in HomeFlight(h)
    BY DEF HomeFlight
  <2> QED
    BY <1>2, <2>1, <2>2, FlightSizes, SeedCount DEF FlightFacts
<1>4. /\ hostCounts \in [Hosts -> Nat] /\ Home[s] \in Hosts
      /\ shortCircuit \in Hard \cup {"none", "cost"}
  BY <1>1, ConstantTypes DEF SemaphoreInv, TypeOK
<1>5. ASSUME NEW h \in Hosts
      PROVE  /\ hostCounts'[h] \in {hostCounts[h], hostCounts[h] + 1}
             /\ hostCounts'[h] \in Nat
             /\ shortCircuit' \notin Hard /\ Home[s] # h /\ hostCounts'[h] # hostCounts[h] =>
                  hostCounts'[h] <= MaxPerHost - 1
             /\ shortCircuit \in Hard => shortCircuit' \in Hard
  <2>1. hostCounts'[h] = hostCounts[h] + (IF h \in Union(s, hosts) THEN 1 ELSE 0)
    BY <1>1 DEF Counted
  <2>2. hostCounts'[h] \in Nat /\ hostCounts'[h] \in {hostCounts[h], hostCounts[h] + 1}
    BY <1>4, <2>1
  <2>3. shortCircuit \in Hard => shortCircuit' \in Hard
    BY <1>1 DEF AfterBudget, Quarantines, Hard
  <2>4. ASSUME shortCircuit' \notin Hard, Home[s] # h, hostCounts'[h] # hostCounts[h]
        PROVE  hostCounts'[h] <= MaxPerHost - 1
    <3>1. Victims(s, hosts) = {}
      BY <1>1, <2>4 DEF Quarantines, Hard
    <3>2. h \in hosts \ {Home[s]}
      BY <1>4, <2>1, <2>4 DEF Union
    <3>3. ~(Counted(s, hosts)[h] >= MaxPerHost)
      BY <3>1, <3>2 DEF Victims
    <3> QED
      BY <1>1, <2>2, <3>3, ConstantTypes
  <2> QED
    BY <2>2, <2>3, <2>4
<1>6. ASSUME NEW h \in Hosts, shortCircuit' \notin Hard
      PROVE  hostCounts'[h] + Cardinality(HomeFlight(h)') <= MaxPerHost + Least - 1
  <2>1. /\ hostCounts[h] + Cardinality(HomeFlight(h)) <= MaxPerHost + Least - 1
        /\ Cardinality(HomeFlight(h)) \in Nat
        /\ Cardinality(HomeFlight(h)) <= Least
    BY <1>5, <1>6, FlightSizes, LeastType DEF FlightFacts, HostsInv
  <2>2. CASE Home[s] = h
    BY <1>3, <1>4, <1>5, <2>1, <2>2, FlightSizes, LeastType DEF FlightFacts
  <2>3. CASE Home[s] # h
    BY <1>3, <1>4, <1>5, <1>6, <2>1, <2>3, FlightSizes, LeastType DEF FlightFacts
  <2> QED
    BY <2>2, <2>3
<1>7. ASSUME NEW h \in Hosts, shortCircuit' \in Hard
      PROVE  hostCounts'[h] + Cardinality(InFlight') <= MaxPerHost + Least - 1 + MaxConcurrency
  <2>1. CASE shortCircuit \in Hard
    BY <1>3, <1>4, <1>5, <2>1, FlightSizes, LeastType DEF FlightFacts, HostsInv
  <2>2. CASE shortCircuit \notin Hard
    <3>1. hostCounts[h] <= MaxPerHost + Least - 1
      BY <1>4, <2>2, FlightSizes, LeastType DEF FlightFacts, HostsInv
    <3> QED
      BY <1>3, <1>4, <1>5, <3>1, FlightSizes, LeastType DEF FlightFacts
  <2> QED
    BY <2>1, <2>2
<1> QED
  BY <1>6, <1>7 DEF HostsInv

LEMMA HostsStep == SemaphoreInv /\ HostsInv /\ [Next]_vars => HostsInv'
<1> SUFFICES ASSUME SemaphoreInv, HostsInv, [Next]_vars PROVE HostsInv'
  OBVIOUS
<1>t. /\ SemaphoreInv' /\ TypeOK /\ pc \in [Seeds -> PCs] /\ Hard \subseteq {"egress", "host"}
      /\ \A t \in Heirs(sem) : t \in Seeds /\ pc[t] = "queued"
      /\ \A t \in Heirs(slot) : t \in Seeds /\ pc[t] = "slotWait"
      /\ job \in [Seeds -> Jobs]
  BY SemaphoreStep, PoolTypes, HeirsHold DEF SemaphoreInv, Hard
<1>1. ASSUME hostCounts' = hostCounts, shortCircuit \in Hard => shortCircuit' \in Hard,
             InFlight' \subseteq InFlight
      PROVE  HostsInv'
  BY <1>1, <1>t, HostsShrink
<1>2. ASSUME NEW s \in Seeds, pc[s] \in Executing \cup {"backoff", "abandoned", "threw"},
             NEW bytes, NEW cost, NEW hosts \in SUBSET Hosts, NEW rendered, NEW r,
             Finish(s, bytes, cost, hosts, rendered, r)
      PROVE  HostsInv'
  <2>1. s \in InFlight
    BY <1>2 DEF InFlight, Executing
  <2> QED
    BY <1>2, <1>t, <2>1, HostsFinish
<1>3. ASSUME NEW s \in Seeds, Settle(s) \/ SettleAbandoned(s) \/ SettleThrown(s) \/ GiveUpRetry(s)
      PROVE  HostsInv'
  <2>1. job[s].first.hosts \in SUBSET Hosts /\ {} \in SUBSET Hosts
    BY <1>t DEF Jobs
  <2>2. CASE Settle(s)
    <3>1. PICK a \in Answers(s) :
            Finish(s, job[s].first.bytes + Reported(a), a.cost,
                   job[s].first.hosts \cup a.hosts, a.rendered, "settled")
      BY <2>2 DEF Settle
    <3>2. job[s].first.hosts \cup a.hosts \in SUBSET Hosts
      BY <2>1, ConstantTypes DEF Answers
    <3> QED
      BY <1>2, <2>2, <3>1, <3>2 DEF Settle
  <2>3. CASE SettleAbandoned(s) \/ SettleThrown(s) \/ GiveUpRetry(s)
    BY <1>2, <2>1, <2>3 DEF SettleAbandoned, SettleThrown, GiveUpRetry
  <2> QED
    BY <1>3, <2>2, <2>3
<1>4. ASSUME NEW s \in Seeds, EnterGate(s) PROVE HostsInv'
  <2>1. /\ pc[s] = "admitted" /\ pc' = [pc EXCEPT ![s] = "gate"]
        /\ shortCircuit \notin Hard /\ ~(hostCounts[Home[s]] >= MaxPerHost)
        /\ hostCounts' = hostCounts /\ shortCircuit' = shortCircuit
    BY <1>4 DEF EnterGate, AdmitRefusal, caps, Hard
  <2>2. ASSUME NEW h \in Hosts
        PROVE  hostCounts[h] + Cardinality(HomeFlight(h)') <= MaxPerHost + Least - 1
    <3>1. CASE Home[s] = h
      <4>1. Cardinality(HomeFlight(h)') <= Least /\ Cardinality(HomeFlight(h)') \in Nat
        BY <1>t, FlightSizesNext DEF FlightFacts
      <4>2. hostCounts[h] \in Nat /\ ~(hostCounts[h] >= MaxPerHost)
        BY <1>t, <2>1, <3>1 DEF TypeOK
      <4> QED
        BY <4>1, <4>2, FlightSizes, LeastType DEF FlightFacts
    <3>2. CASE Home[s] # h
      <4>1. HomeFlight(h)' = HomeFlight(h)
        BY <1>t, <2>1, <3>2 DEF HomeFlight, InFlight
      <4> QED
        BY <2>1, <4>1 DEF HostsInv
    <3> QED
      BY <3>1, <3>2
  <2> QED
    BY <2>1, <2>2 DEF HostsInv
<1>5. ASSUME NEW s \in Seeds,
             \/ LoseSlot(s) \/ Retry(s) \/ StartTransform(s) \/ AwaitRetryAfter(s) \/ Throw(s)
             \/ DispatchRaw(s) \/ AskForSlot(s) \/ DowngradeToRaw(s)
      PROVE  HostsInv'
  <2>1. hostCounts' = hostCounts /\ shortCircuit' = shortCircuit
    BY <1>5 DEF LoseSlot, Retry, StartTransform, AwaitRetryAfter, Throw, DispatchRaw, AskForSlot,
      DowngradeToRaw, caps
  <2>2. InFlight' \subseteq InFlight
    <3>1. \A t \in Seeds : \/ pc'[t] = pc[t]
                           \/ pc'[t] \in {"queued", "admitted", "lost", "done"}
                           \/ pc[t] \notin {"queued", "admitted", "lost", "done"}
      <4>1. CASE LoseSlot(s) \/ Retry(s) \/ StartTransform(s)
        BY <1>t, <4>1 DEF LoseSlot, Retry, StartTransform
      <4>2. CASE AwaitRetryAfter(s) \/ Throw(s)
        BY <1>t, <4>2 DEF AwaitRetryAfter, Throw, Executing
      <4>3. CASE DispatchRaw(s) \/ AskForSlot(s)
        BY <1>t, <4>3 DEF DispatchRaw, AskForSlot
      <4>4. CASE DowngradeToRaw(s)
        BY <1>t, <4>4 DEF DowngradeToRaw
      <4> QED
        BY <1>5, <4>1, <4>2, <4>3, <4>4
    <3> QED
      BY <3>1 DEF InFlight
  <2> QED
    BY <1>1, <2>1, <2>2
<1>6. ASSUME NEW s \in Seeds,
             \/ RefuseAdmission(s) \/ MissDeadline(s) \/ RefuseBudget(s)
             \/ DropOnHardStop(s) \/ LoseTransformSlot(s)
      PROVE  HostsInv'
  <2>1. Leaves(s)
    BY <1>6 DEF RefuseAdmission, MissDeadline, RefuseBudget, DropOnHardStop, LoseTransformSlot, Leaves
  <2>2. \A t \in Seeds : \/ pc'[t] = pc[t]
                         \/ pc'[t] \in {"queued", "admitted", "lost", "done"}
                         \/ pc[t] \notin {"queued", "admitted", "lost", "done"}
    BY <1>t, <2>1 DEF Leaves, Leave
  <2>3. hostCounts' = hostCounts /\ (shortCircuit \in Hard => shortCircuit' \in Hard)
    BY <1>6 DEF RefuseAdmission, MissDeadline, RefuseBudget, DropOnHardStop, LoseTransformSlot,
      caps, Hard
  <2> QED
    BY <1>1, <2>2, <2>3 DEF InFlight
<1>7. CASE WallAbort \/ ClockPasses \/ Returned \/ UNCHANGED vars
  <2>1. hostCounts' = hostCounts /\ shortCircuit' = shortCircuit
    BY <1>7 DEF WallAbort, ClockPasses, Returned, vars, caps
  <2>2. InFlight' \subseteq InFlight
    <3>1. CASE WallAbort
      BY <3>1 DEF WallAbort, AfterAbort, InFlight, Executing
    <3>2. CASE ClockPasses \/ Returned \/ UNCHANGED vars
      BY <3>2 DEF ClockPasses, Returned, vars, InFlight
    <3> QED
      BY <1>7, <3>1, <3>2
  <2> QED
    BY <1>1, <2>1, <2>2
<1> QED
  BY <1>3, <1>4, <1>5, <1>6, <1>7 DEF Next, Continue, LeaveGate, LeaveBackoff

----------------------------------------------------------------------------
(* The renders. A granted render holds a unit of bytes until its seed      *)
(* settles, so the renders under way fit the byte cap; the count was below *)
(* its cap when the last of them was granted.                              *)
Unit == PerSeedMaxBytes + RenderReserve
Times(n) == n * Unit
RenderTerms == [s \in Seeds |-> IF job[s].render THEN Unit ELSE 0]
RenderInv ==
  renderedCount > 0 \/ SumFunction(RenderTerms) > 0 =>
    Times(renderedCount) + SumFunction(RenderTerms) <= MaxEgress + Times(MaxRendered) - Unit

(* The only products of the proofs.                                        *)
LEMMA TimesFacts ==
  /\ Unit \in Nat /\ Unit > 0
  /\ \A n \in Nat : Times(n) \in Nat /\ Times(n + 1) = Times(n) + Unit
  /\ \A n \in Nat : n < MaxRendered => Times(n) + Unit <= Times(MaxRendered)
<1>1. Unit \in Nat /\ Unit > 0 /\ MaxRendered \in Nat
  BY BulkAssumption, ConstantTypes DEF Unit, BulkAssumption
<1>2. ASSUME NEW u \in Nat, NEW n \in Nat
      PROVE  n * u \in Nat /\ (n + 1) * u = n * u + u
  OBVIOUS
<1>3. ASSUME NEW u \in Nat, NEW n \in Nat, NEW m \in Nat, n < m
      PROVE  n * u + u <= m * u
  <2>1. m - (n + 1) \in Nat
    BY <1>3
  <2>2. (m - (n + 1)) * u \in Nat
    BY <2>1, <1>2
  <2>3. (m - (n + 1)) * u = m * u - (n + 1) * u
    BY <2>1
  <2> QED
    BY <1>2, <2>2, <2>3
<1> QED
  BY <1>1, <1>2, <1>3 DEF Times

RenderFacts ==
  /\ RenderTerms \in [Seeds -> Int] /\ SumFunction(RenderTerms) \in Int
  /\ \A s \in Seeds : RenderTerms[s] = (IF job[s].render THEN Unit ELSE 0)
                       /\ RenderTerms[s] >= 0
  /\ SumFunction(RenderTerms) >= 0
  /\ SumFunction(RenderTerms) <= bytesReserved
  /\ \A s \in Seeds : job[s].render => SumFunction(RenderTerms) > 0

LEMMA RenderTermTypes == LedgerInv => RenderFacts
<1> SUFFICES ASSUME LedgerInv PROVE RenderFacts
  OBVIOUS
<1>1. /\ RenderTerms \in [Seeds -> Int] /\ IsFiniteSet(Seeds) /\ TypeOK
      /\ \A s \in Seeds : RenderTerms[s] = (IF job[s].render THEN Unit ELSE 0)
                              /\ RenderTerms[s] >= 0
  BY TimesFacts, SeedCount DEF RenderTerms, LedgerInv, SemaphoreInv
<1>2. ASSUME NEW s \in Seeds PROVE RenderTerms[s] <= ByteTerms[s]
  <2>1. CASE job[s].render
    <3>1. Reserved(pc[s], job[s]) = AttemptReserve(job[s])
                                     + (IF job[s].retry THEN AttemptReserve(job[s]) ELSE 0)
      BY <2>1, ReservedTypes, PoolTypes DEF LedgerInv, JobTies
    <3>2. AttemptReserve(job[s]) = Unit /\ Unit \in Nat /\ job[s].retry \in BOOLEAN
      BY <2>1, <1>1, TimesFacts DEF AttemptReserve, Unit, TypeOK
    <3> QED
      BY <1>1, <2>1, <3>1, <3>2, TermTypes DEF TermFacts
  <2>2. CASE ~job[s].render
    BY <1>1, <2>2, TermTypes DEF TermFacts
  <2> QED
    BY <2>1, <2>2
<1>3. SumFunction(RenderTerms) <= SumFunction(ByteTerms)
  BY <1>1, <1>2, TermTypes, SumMonotone DEF TermFacts
<1>4. SumFunction(RenderTerms) \in Int /\ SumFunction(RenderTerms) >= 0
  BY <1>1, SumType
<1>5. \A s \in Seeds : job[s].render => SumFunction(RenderTerms) > 0
  BY <1>1, <1>4, SumAtLeast, TimesFacts
<1> QED
  BY <1>1, <1>3, <1>4, <1>5 DEF LedgerInv, SumsExact, RenderFacts

LEMMA RenderTermTypesNext == LedgerInv' => RenderFacts'
BY RenderTermTypes, PTL

Renders(j) == IF j.render THEN Unit ELSE 0

LEMMA RenderMove ==
  ASSUME LedgerInv, LedgerInv', NEW s \in Seeds, \A t \in Seeds \ {s} : job'[t] = job[t]
  PROVE  SumFunction(RenderTerms') = SumFunction(RenderTerms) + Renders(job'[s]) - Renders(job[s])
<1>1. /\ RenderTerms \in [Seeds -> Int] /\ RenderTerms' \in [Seeds -> Int]
      /\ IsFiniteSet(Seeds)
      /\ \A t \in Seeds : RenderTerms[t] = Renders(job[t]) /\ RenderTerms'[t] = Renders(job'[t])
  BY RenderTermTypes, RenderTermTypesNext, SeedCount DEF RenderFacts, Renders
<1> QED
  BY <1>1, SumUpdate

LEMMA RenderStep ==
  LedgerInv /\ LedgerInv' /\ BudgetInv' /\ RenderInv /\ [Next]_vars => RenderInv'
<1> SUFFICES ASSUME LedgerInv, LedgerInv', BudgetInv', RenderInv, [Next]_vars PROVE RenderInv'
  OBVIOUS
<1> DEFINE rs == SumFunction(RenderTerms)
           most == MaxEgress + Times(MaxRendered) - Unit
<1>1. /\ rs \in Int /\ rs >= 0 /\ rs' \in Int /\ rs' >= 0 /\ rs' <= bytesReserved'
      /\ \A s \in Seeds : job[s].render => rs > 0
      /\ renderedCount \in Nat /\ renderedCount' \in Nat
      /\ bytesReserved' \in Int /\ bytesSettled' \in Nat
      /\ bytesSettled' + bytesReserved' <= MaxEgress
      /\ Times(renderedCount) \in Nat /\ Times(MaxRendered) \in Nat
      /\ Times(renderedCount + 1) = Times(renderedCount) + Unit
      /\ Unit \in Nat /\ Unit > 0 /\ MaxEgress \in Nat /\ MaxRendered \in Nat
      /\ job \in [Seeds -> Jobs]
  BY RenderTermTypes, RenderTermTypesNext, TimesFacts, ConstantTypes, PoolTypes
  DEF RenderFacts, LedgerInv, SemaphoreInv, TypeOK, BudgetInv, BudgetBounded
<1>r. rs' <= MaxEgress
  <2>1. bytesReserved' <= MaxEgress
    <3>1. bytesSettled' \in Nat /\ bytesReserved' \in Int /\ MaxEgress \in Nat
          /\ bytesSettled' + bytesReserved' <= MaxEgress
      BY <1>1
    <3>2. \A a \in Nat : \A b \in Int : \A c \in Nat : a + b <= c => b <= c
      OBVIOUS
    <3> QED
      BY <3>1, <3>2
  <2> QED
    BY <1>1, <2>1
<1>2. renderedCount > 0 \/ rs > 0 => Times(renderedCount) + rs <= most
  BY DEF RenderInv
<1>3. ASSUME renderedCount' = renderedCount, rs' <= rs PROVE RenderInv'
  BY <1>1, <1>2, <1>3 DEF RenderInv, Times
<1>4. ASSUME NEW s \in Seeds, NEW extra \in Nat, NEW transform, NEW holdsSlot,
             Start(s, extra, transform, holdsSlot), renderedCount' = renderedCount,
             pc[s] \in {"gate", "slotReady"}
      PROVE  RenderInv'
  <2>1. ~job[s].render
    BY <1>4 DEF LedgerInv, JobTies, Attempting, Executing
  <2>2. /\ \A t \in Seeds \ {s} : job'[t] = job[t]
        /\ job'[s].render = RenderAllowed(extra)
    BY <1>1, <1>4 DEF Start, NoJob
  <2>3. rs' = rs + Renders(job'[s])
    BY <1>1, <2>1, <2>2, RenderMove DEF Renders
  <2>4. CASE RenderAllowed(extra)
    <3>1. renderedCount < MaxRendered
      BY <2>4 DEF RenderAllowed
    <3>2. Times(renderedCount) + Unit <= Times(MaxRendered)
      BY <1>1, <3>1, TimesFacts
    <3>3. rs' <= MaxEgress
      BY <1>1, <1>r
    <3> QED
      BY <1>1, <1>4, <3>2, <3>3 DEF RenderInv, Times
  <2>5. CASE ~RenderAllowed(extra)
    <3>1. rs' = rs
      BY <1>1, <2>2, <2>3, <2>5 DEF Renders
    <3> QED
      BY <1>1, <1>3, <1>4, <3>1
  <2> QED
    BY <2>4, <2>5
<1>5. ASSUME NEW s \in Seeds, NEW bytes, NEW cost, NEW hosts, NEW rendered \in BOOLEAN, NEW r,
             Finish(s, bytes, cost, hosts, rendered, r), rendered => job[s].render
      PROVE  RenderInv'
  <2>1. /\ renderedCount' = renderedCount + (IF rendered THEN 1 ELSE 0)
        /\ \A t \in Seeds \ {s} : job'[t] = job[t]
        /\ job'[s] = NoJob
    BY <1>1, <1>5 DEF Finish, Leave
  <2>2. rs' = rs - Renders(job[s]) /\ Renders(job[s]) \in Nat
    BY <1>1, <2>1, RenderMove DEF Renders, NoJob
  <2>3. CASE rendered
    <3>1. rs > 0 /\ rs' = rs - Unit /\ renderedCount' = renderedCount + 1
      BY <1>1, <1>5, <2>1, <2>2, <2>3 DEF Renders
    <3> QED
      BY <1>1, <1>2, <3>1 DEF RenderInv, Times
  <2>4. CASE ~rendered
    BY <1>1, <1>3, <2>1, <2>2, <2>4
  <2> QED
    BY <2>3, <2>4
<1>6. ASSUME NEW s \in Seeds, Settle(s) PROVE RenderInv'
  <2>1. PICK a \in Answers(s) :
          Finish(s, job[s].first.bytes + Reported(a), a.cost,
                 job[s].first.hosts \cup a.hosts, a.rendered, "settled")
    BY <1>6 DEF Settle
  <2>2. a.rendered \in BOOLEAN /\ (a.rendered => job[s].render)
    BY DEF Answers
  <2> QED
    BY <1>5, <2>1, <2>2
<1>7. ASSUME NEW s \in Seeds, SettleAbandoned(s) \/ SettleThrown(s) \/ GiveUpRetry(s)
      PROVE  RenderInv'
  BY <1>5, <1>7 DEF SettleAbandoned, SettleThrown, GiveUpRetry
<1>8. ASSUME NEW s \in Seeds, DispatchRaw(s) \/ StartTransform(s) \/ DowngradeToRaw(s)
      PROVE  RenderInv'
  <2>1. renderedCount' = renderedCount
    BY <1>8 DEF DispatchRaw, StartTransform, DowngradeToRaw, caps
  <2>2. PerSeedMaxBytes \in Nat
    BY ConstantTypes
  <2> QED
    BY <1>4, <1>8, <2>1, <2>2 DEF DispatchRaw, StartTransform, DowngradeToRaw
<1>9. ASSUME NEW s \in Seeds, renderedCount' = renderedCount,
             \A t \in Seeds \ {s} : job'[t] = job[t], job'[s].render => job[s].render
      PROVE  RenderInv'
  <2>1. rs' = rs + Renders(job'[s]) - Renders(job[s])
    BY <1>9, RenderMove
  <2>2. Renders(job'[s]) <= Renders(job[s]) /\ Renders(job'[s]) \in Nat /\ Renders(job[s]) \in Nat
    BY <1>1, <1>9 DEF Renders
  <2> QED
    BY <1>1, <1>3, <1>9, <2>1, <2>2
<1>10. ASSUME NEW s \in Seeds,
             \/ EnterGate(s) \/ LoseSlot(s) \/ Retry(s) \/ AskForSlot(s)
             \/ AwaitRetryAfter(s) \/ Throw(s)
             \/ RefuseAdmission(s) \/ MissDeadline(s) \/ RefuseBudget(s)
             \/ DropOnHardStop(s) \/ LoseTransformSlot(s)
       PROVE RenderInv'
  <2>1. renderedCount' = renderedCount
    BY <1>10 DEF EnterGate, LoseSlot, Retry, AskForSlot, AwaitRetryAfter, Throw, RefuseAdmission,
      MissDeadline, RefuseBudget, DropOnHardStop, LoseTransformSlot, caps
  <2>2. (\A t \in Seeds \ {s} : job'[t] = job[t]) /\ (job'[s].render => job[s].render)
    <3>1. CASE EnterGate(s) \/ LoseSlot(s) \/ Retry(s)
      BY <3>1 DEF EnterGate, LoseSlot, Retry
    <3>2. CASE AskForSlot(s)
      BY <1>1, <3>2 DEF AskForSlot, Jobs
    <3>3. CASE AwaitRetryAfter(s) \/ Throw(s)
      BY <1>1, <3>3 DEF AwaitRetryAfter, Throw, Jobs
    <3>4. CASE \/ RefuseAdmission(s) \/ MissDeadline(s) \/ RefuseBudget(s)
               \/ DropOnHardStop(s) \/ LoseTransformSlot(s)
      BY <1>1, <3>4 DEF RefuseAdmission, MissDeadline, RefuseBudget, DropOnHardStop,
        LoseTransformSlot, Leave, NoJob
    <3> QED
      BY <1>10, <3>1, <3>2, <3>3, <3>4
  <2> QED
    BY <1>9, <2>1, <2>2
<1>11. CASE WallAbort \/ ClockPasses \/ Returned \/ UNCHANGED vars
  <2>1. job' = job /\ renderedCount' = renderedCount
    BY <1>11 DEF WallAbort, ClockPasses, Returned, vars, caps
  <2>2. rs' = rs
    BY <2>1 DEF RenderTerms
  <2> QED
    BY <1>1, <1>3, <2>1, <2>2
<1> QED
  BY <1>6, <1>7, <1>8, <1>10, <1>11 DEF Next, Continue, LeaveGate, LeaveBackoff

CallInv == BillInv /\ BudgetInv /\ WallInv /\ Endings /\ WireInv /\ HostsInv /\ RenderInv

LEMMA CallStep == CallInv /\ [Next]_vars => CallInv'
<1> SUFFICES ASSUME CallInv, [Next]_vars PROVE CallInv'
  OBVIOUS
<1>1. BillInv' /\ LedgerInv' /\ TypeOK' /\ LedgerInv /\ SemaphoreInv /\ TypeOK
  BY BillStep DEF CallInv, BillInv, LedgerInv, SemaphoreInv
<1>2. BudgetInv'
  BY <1>1, BudgetStep, FirstWithinStep DEF CallInv, BudgetInv
<1>3. WallInv'
  BY <1>1, WallKept DEF CallInv
<1>4. Endings' /\ HostsInv'
  BY <1>1, EndingsStep, HostsStep DEF CallInv
<1>5. WireInv'
  BY <1>2, WireStep DEF CallInv, WireTies, BudgetInv
<1>6. RenderInv'
  BY <1>1, <1>2, RenderStep DEF CallInv
<1> QED
  BY <1>1, <1>2, <1>3, <1>4, <1>5, <1>6 DEF CallInv

(* The bytes the call moves, the seeds of it that touch one host and the   *)
(* seeds that render stay within their bounds for any number of seeds and  *)
(* any answers. The host bound is larger by Least - 1 than the documents   *)
(* say: a home seed that fills its host's count does not stop the dispatch.*)
THEOREM CallStaysBounded == Spec => []CallBounds
<1>1. Init => CallInv
  <2> SUFFICES ASSUME Init PROVE CallInv
    OBVIOUS
  <2>1. BillInv /\ BudgetInv /\ LedgerInv /\ SemaphoreInv
    BY InitBill, InitBudget DEF BillInv, LedgerInv
  <2>2. WallInv /\ Endings
    BY InitType DEF Init, WallInv, Endings
  <2>3. WireInv
    BY ConstantTypes DEF Init, WireInv
  <2>4. HostsInv
    <3>1. InFlight = {} /\ \A h \in Hosts : HomeFlight(h) = {} /\ hostCounts[h] = 0
      BY DEF Init, InFlight, HomeFlight
    <3>2. shortCircuit \notin Hard
      BY DEF Init, Hard
    <3> QED
      BY <3>1, <3>2, LeastType, FS_EmptySet DEF HostsInv
  <2>5. RenderInv
    <3>1. \A s \in Seeds : RenderTerms[s] = 0
      BY DEF Init, NoJob, RenderTerms
    <3>2. SumFunction(RenderTerms) = 0
      BY <2>1, <3>1, RenderTermTypes, SeedCount, SumType DEF RenderFacts
    <3> QED
      BY <3>2 DEF RenderInv, Init
  <2> QED
    BY <2>1, <2>2, <2>3, <2>4, <2>5 DEF CallInv
<1>2. CallInv => CallBounds
  <2> SUFFICES ASSUME CallInv PROVE CallBounds
    OBVIOUS
  <2>1. TypeOK /\ LedgerInv /\ SemaphoreInv
    BY DEF CallInv, BillInv, LedgerInv, SemaphoreInv
  <2>2. bytesReserved >= 0 /\ bytesReserved \in Int /\ wire \in Nat /\ renderedCount \in Nat
    BY <2>1, TermTypes, SeedCount, SumType DEF LedgerInv, SumsExact, TypeOK, TermFacts
  <2>3. MayTimeOut \/ MayThrow \/ wire <= MaxEgress
    BY <2>2, ConstantTypes DEF CallInv, WireInv
  <2>4. ASSUME NEW h \in Hosts
        PROVE  hostCounts[h] <= MaxPerHost + MaxConcurrency + Least - 1
    BY <2>1, FlightSizes, LeastType DEF FlightFacts, CallInv, HostsInv, TypeOK
  <2>5. ASSUME renderedCount > 0
        PROVE  (renderedCount - MaxRendered + 1) * Unit <= MaxEgress
    <3>1. Times(renderedCount) <= MaxEgress + Times(MaxRendered) - Unit
      BY <2>1, <2>2, <2>5, RenderTermTypes, TimesFacts, ConstantTypes
      DEF RenderFacts, CallInv, RenderInv
    <3>2. (renderedCount - MaxRendered + 1) * Unit
             = renderedCount * Unit - MaxRendered * Unit + Unit
      BY <2>2, TimesFacts, ConstantTypes
    <3> QED
      BY <3>1, <3>2, <2>2, TimesFacts, ConstantTypes DEF Times
  <2> QED
    BY <2>3, <2>4, <2>5 DEF CallBounds, Unit
<1> QED
  BY <1>1, <1>2, CallStep, PTL DEF Spec

=============================================================================
