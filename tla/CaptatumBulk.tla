--------------------------- MODULE CaptatumBulk ---------------------------
(***************************************************************************)
(* One captatum_bulk call, from the moment runPool has started every seed  *)
(* until each of them has a row: the fetch semaphore, the per-host gate,   *)
(* the single transform slot, the one 429/503 retry, the wall deadline and *)
(* the budget, host and render caps that the concurrent seeds share.       *)
(*                                                                         *)
(* An action is one synchronous block of the orchestrator: what runs       *)
(* between two awaits.  The event loop runs every promise continuation     *)
(* that is ready before the next timer, so the wall timer fires only when  *)
(* no seed is Ready.                                                       *)
(***************************************************************************)
EXTENDS Integers, Sequences, FiniteSets, Functions

CONSTANTS
  NumSeeds,            \* seeds left after input shaping
  Hosts,               \* registrable domains
  Home,                \* Home[s]: the domain of seed s
  MaxConcurrency,      \* guard.maxConcurrency
  MaxPerHost,          \* guard.maxPerHostInBulk
  MaxEgress,           \* guard.maxGlobalEgressBytes
  PerSeedMaxBytes,     \* request.maxBytes
  RenderUnits,         \* renderEgressUnits(request.maxBytes)
  MaxCost,             \* guard.maxTransformCostUsd
  PerSeedCost,         \* guard.perSeedTransformCostUsd
  MaxRendered,         \* guard.maxRenderedSeeds
  WantTransform,       \* request.requestedOutput # "raw"
  AllowRender,         \* request.allowRender
  \* What one execution of a seed may do:
  DocBytes,            \* bytes of the fetched document
  RenderBytes,         \* bytes of the subresources of a render
  Costs,               \* what a transform may actually cost
  EgressSets,          \* sets of redirect, final and subresource hosts
  MayRetry,            \* a 429/503 with a Retry-After can be answered
  MayTimeOut,          \* a fetch can time out in the middle of its body
  MayThrow             \* the executor can throw after it has egressed

Seeds == 1..NumSeeds
RenderReserve == RenderUnits * PerSeedMaxBytes

ASSUME BulkAssumption ==
  /\ NumSeeds \in Nat \ {0}
  /\ Home \in [Seeds -> Hosts]
  /\ MaxConcurrency \in Nat \ {0}
  /\ MaxPerHost \in Nat \ {0}
  /\ MaxEgress \in Nat
  /\ PerSeedMaxBytes \in Nat \ {0}
  /\ RenderUnits \in Nat
  /\ MaxCost \in Nat /\ PerSeedCost \in Nat
  /\ MaxRendered \in Nat
  /\ WantTransform \in BOOLEAN /\ AllowRender \in BOOLEAN
  /\ MayRetry \in BOOLEAN /\ MayTimeOut \in BOOLEAN /\ MayThrow \in BOOLEAN
  /\ EgressSets \subseteq SUBSET Hosts /\ {} \in EgressSets
  /\ Costs \subseteq Nat /\ 0 \in Costs

(* readCappedBody returns at most maxBytes, and renderEgressUnits is meant *)
(* to cover whatever a render can egress.                                  *)
ASSUME EgressAssumption ==
  /\ DocBytes \subseteq 0..PerSeedMaxBytes /\ 0 \in DocBytes
  /\ RenderBytes \subseteq 0..RenderReserve /\ 0 \in RenderBytes

(* applyPerHostCap leaves at most maxPerHostInBulk seeds of one domain.    *)
ASSUME ShapingAssumption ==
  \A h \in Hosts : Cardinality({s \in Seeds : Home[s] = h}) <= MaxPerHost

VARIABLES
  pc,             \* where each seed's async function is suspended
  job,            \* the locals a seed carries across its awaits
  sem,            \* Semaphore(maxConcurrency)
  slot,           \* Semaphore(1): the transform slot
  aborted,        \* the wall signal
  late,           \* budget.wallExceeded()
  bytesSettled, bytesReserved, costSettled, costReserved,
  renderedCount,
  hostCounts,
  shortCircuit,   \* "none", or the cap that stopped the dispatch
  capBreaches,    \* the codes disclosed in the result
  row,            \* the row of each seed
  wire            \* history: bytes the finished executions really moved

budget == <<bytesSettled, bytesReserved, costSettled, costReserved>>
caps == <<renderedCount, hostCounts, shortCircuit>>
walls == <<aborted, late>>
vars == <<pc, job, sem, slot, walls, budget, caps, capBreaches, row, wire>>

Hard == {"egress", "host"}
Ready == {"admitted", "slotReady", "lost", "slotLost", "abandoned", "threw"}
Executing == {"running", "rerunning"}
PCs == Ready \cup Executing
       \cup {"queued", "gate", "slotWait", "backoff", "done"}
Breaches == {"deadline", "egress", "cost", "host", "crossed"}
Rows == {"none", "deadline", "egress", "host", "settled", "threw"}

NoFirst == [bytes |-> 0, hosts |-> {}]
NoJob == [transform |-> FALSE, slot |-> FALSE, render |-> FALSE,
          retry |-> FALSE, first |-> NoFirst]

TypeOK ==
  /\ pc \in [Seeds -> PCs]
  /\ job \in [Seeds -> [transform : BOOLEAN, slot : BOOLEAN, render : BOOLEAN,
                        retry : BOOLEAN,
                        first : [bytes : Nat, hosts : SUBSET Hosts]]]
  /\ sem \in [active : Int, waiters : Seq(Seeds)]
  /\ slot \in [active : Int, waiters : Seq(Seeds)]
  /\ aborted \in BOOLEAN /\ late \in BOOLEAN
  /\ bytesSettled \in Nat /\ bytesReserved \in Int
  /\ costSettled \in Nat /\ costReserved \in Int
  /\ renderedCount \in Nat
  /\ hostCounts \in [Hosts -> Nat]
  /\ shortCircuit \in Hard \cup {"none", "cost"}
  /\ capBreaches \subseteq Breaches
  /\ row \in [Seeds -> Rows]
  /\ wire \in Nat

----------------------------------------------------------------------------
(* Semaphore: a release hands the slot to the head waiter, active unchanged. *)

(* Mutant: the last waiter is resolved first. *)
Heirs_Last(s) == IF s.waiters = <<>> THEN {} ELSE {s.waiters[Len(s.waiters)]}

Heirs(s) == IF s.waiters = <<>> THEN {} ELSE {Head(s.waiters)}

Released(s) ==
  IF s.waiters = <<>>
    THEN [s EXCEPT !.active = IF @ > 0 THEN @ - 1 ELSE @]
    ELSE [s EXCEPT !.waiters = Tail(@)]

(* Seed s returns: its transform slot (if it holds one) and its fetch slot *)
(* pass to the heads of their queues, in one synchronous block.            *)
Leave(s, holdsSlot) ==
  LET next == Heirs(sem)
      nextSlot == IF holdsSlot THEN Heirs(slot) ELSE {}
  IN /\ pc' = [t \in Seeds |-> IF t = s THEN "done"
                               ELSE IF t \in next THEN "admitted"
                               ELSE IF t \in nextSlot THEN "slotReady"
                               ELSE pc[t]]
     /\ job' = [job EXCEPT ![s] = NoJob]
     /\ sem' = Released(sem)
     /\ slot' = IF holdsSlot THEN Released(slot) ELSE slot

Record(s, r) == row' = [row EXCEPT ![s] = r]
Disclose(codes) == capBreaches' = capBreaches \cup codes

----------------------------------------------------------------------------
(* BudgetTracker. *)

(* Mutant: the bytes in flight are not counted. *)
Fits_SettledOnly(bytes) == bytesSettled + bytes <= MaxEgress

Fits(bytes) == bytesSettled + bytesReserved + bytes <= MaxEgress

CostFits ==
  /\ PerSeedCost > 0
  /\ costSettled + costReserved + PerSeedCost <= MaxCost

CostCapReached == costSettled + costReserved > MaxCost

AttemptReserve(j) == PerSeedMaxBytes + (IF j.render THEN RenderReserve ELSE 0)

(* Every byte reservation seed s holds while it is executing. *)
Held(s) == AttemptReserve(job[s])
           + (IF job[s].retry THEN AttemptReserve(job[s]) ELSE 0)

HeldCost(s) == IF job[s].transform THEN PerSeedCost ELSE 0

(* Mutant: the transform's reservation is not given back. *)
CancelReservation_KeepCost(s) ==
  /\ bytesReserved' = bytesReserved - PerSeedMaxBytes
  /\ UNCHANGED <<bytesSettled, costSettled, costReserved>>

CancelReservation(s) ==
  /\ bytesReserved' = bytesReserved - PerSeedMaxBytes
  /\ costReserved' = costReserved - HeldCost(s)
  /\ UNCHANGED <<bytesSettled, costSettled>>

(* afterSeed: the reservations go, the actuals are counted. *)
AfterSeed(s, bytes, cost) ==
  /\ bytesReserved' = bytesReserved - Held(s)
  /\ bytesSettled' = bytesSettled + bytes
  /\ costReserved' = costReserved - HeldCost(s)
  /\ costSettled' = costSettled + (IF job[s].transform THEN cost ELSE 0)

(* The cap that afterSeed's re-check finds breached. *)
AfterBreach(s, bytes, cost) ==
  IF job[s].transform /\ costSettled + cost > MaxCost THEN "cost"
  ELSE IF bytesSettled + bytes > MaxEgress THEN "egress"
  ELSE "none"

----------------------------------------------------------------------------
Init ==
  /\ pc = [s \in Seeds |-> IF s <= MaxConcurrency THEN "admitted" ELSE "queued"]
  /\ job = [s \in Seeds |-> NoJob]
  /\ sem = [active  |-> IF NumSeeds < MaxConcurrency THEN NumSeeds
                                                     ELSE MaxConcurrency,
            waiters |-> [i \in 1..(IF NumSeeds < MaxConcurrency THEN 0
                                   ELSE NumSeeds - MaxConcurrency)
                           |-> i + MaxConcurrency]]
  /\ slot = [active |-> 0, waiters |-> <<>>]
  /\ aborted = FALSE /\ late = FALSE
  /\ bytesSettled = 0 /\ bytesReserved = 0
  /\ costSettled = 0 /\ costReserved = 0
  /\ renderedCount = 0
  /\ hostCounts = [h \in Hosts |-> 0]
  /\ shortCircuit = "none"
  /\ capBreaches = {}
  /\ row = [s \in Seeds |-> "none"]
  /\ wire = 0

AllDone == \A s \in Seeds : pc[s] = "done"

(* Mutant: the abort signal is not read. *)
WallReached_ClockOnly == late

(* The two readings of the wall: the clock and the abort signal. *)
WallReached == aborted \/ late

----------------------------------------------------------------------------
(* CHECK A, as soon as the seed has a fetch slot. *)

(* Mutant: a hard stop does not keep queued seeds out. *)
AdmitRefusal_NoStop(s) ==
  IF WallReached THEN "deadline"
  ELSE IF hostCounts[Home[s]] >= MaxPerHost THEN "host"
  ELSE "none"

AdmitRefusal(s) ==
  IF WallReached THEN "deadline"
  ELSE IF shortCircuit \in Hard THEN shortCircuit
  ELSE IF hostCounts[Home[s]] >= MaxPerHost THEN "host"
  ELSE "none"

EnterGate(s) ==
  /\ pc[s] = "admitted"
  /\ AdmitRefusal(s) = "none"
  /\ pc' = [pc EXCEPT ![s] = "gate"]
  /\ UNCHANGED <<job, sem, slot, walls, budget, caps, capBreaches, row, wire>>

RefuseAdmission(s) ==
  /\ pc[s] = "admitted"
  /\ AdmitRefusal(s) # "none"
  /\ Record(s, AdmitRefusal(s))
  /\ Disclose(IF ~WallReached /\ shortCircuit \in Hard THEN {}
              ELSE {AdmitRefusal(s)})
  /\ Leave(s, FALSE)
  /\ UNCHANGED <<walls, budget, caps, wire>>

----------------------------------------------------------------------------
(* After the per-host gate.  The gate's token bucket is abstracted to the  *)
(* wait it causes: a seed stays in "gate" for as long as it sleeps.        *)

MissDeadline(s) ==
  /\ pc[s] = "gate"
  /\ WallReached
  /\ Record(s, "deadline")
  /\ Disclose({"deadline"})
  /\ Leave(s, FALSE)
  /\ UNCHANGED <<walls, budget, caps, wire>>

RefuseBudget(s) ==
  /\ pc[s] = "gate"
  /\ ~WallReached
  /\ ~Fits(PerSeedMaxBytes)
  /\ shortCircuit' = IF shortCircuit = "none" THEN "egress" ELSE shortCircuit
  /\ Record(s, "egress")
  /\ Disclose({"egress"})
  /\ Leave(s, FALSE)
  /\ UNCHANGED <<walls, budget, renderedCount, hostCounts, wire>>

(* The seed starts its first execution, with a render if both the count    *)
(* and the byte budget allow one on top of the extra bytes reserved.       *)

RenderAllowed(extra) ==
  /\ AllowRender
  /\ renderedCount < MaxRendered
  /\ Fits(extra + RenderReserve)

Start(s, extra, transform, holdsSlot) ==
  /\ job' = [job EXCEPT ![s] = [NoJob EXCEPT !.transform = transform,
                                             !.slot = holdsSlot,
                                             !.render = RenderAllowed(extra)]]
  /\ bytesReserved' = bytesReserved + extra
                      + (IF RenderAllowed(extra) THEN RenderReserve ELSE 0)

DispatchRaw(s) ==
  /\ pc[s] = "gate"
  /\ ~WallReached
  /\ Fits(PerSeedMaxBytes)
  /\ ~(WantTransform /\ CostFits)
  /\ Start(s, PerSeedMaxBytes, CostFits, FALSE)
  /\ costReserved' = costReserved + (IF CostFits THEN PerSeedCost ELSE 0)
  /\ pc' = [pc EXCEPT ![s] = "running"]
  /\ UNCHANGED <<sem, slot, walls, bytesSettled, costSettled, caps, capBreaches,
                 row, wire>>

AskForSlot(s) ==
  /\ pc[s] = "gate"
  /\ ~WallReached
  /\ Fits(PerSeedMaxBytes)
  /\ WantTransform /\ CostFits
  /\ bytesReserved' = bytesReserved + PerSeedMaxBytes
  /\ costReserved' = costReserved + PerSeedCost
  /\ job' = [job EXCEPT ![s].transform = TRUE]
  /\ IF slot.active < 1
       THEN /\ slot' = [slot EXCEPT !.active = @ + 1]
            /\ pc' = [pc EXCEPT ![s] = "slotReady"]
       ELSE /\ slot' = [slot EXCEPT !.waiters = Append(@, s)]
            /\ pc' = [pc EXCEPT ![s] = "slotWait"]
  /\ UNCHANGED <<sem, walls, bytesSettled, costSettled, caps, capBreaches, row,
                 wire>>

----------------------------------------------------------------------------
(* With the transform slot in hand. *)

DropOnHardStop(s) ==
  /\ pc[s] = "slotReady"
  /\ shortCircuit \in Hard
  /\ CancelReservation(s)
  /\ Record(s, shortCircuit)
  /\ Leave(s, TRUE)
  /\ UNCHANGED <<walls, caps, capBreaches, wire>>

(* Over the cost cap: give the slot back and run raw. *)
DowngradeToRaw(s) ==
  /\ pc[s] = "slotReady"
  /\ shortCircuit \notin Hard
  /\ shortCircuit # "none" \/ CostCapReached
  /\ Start(s, 0, TRUE, FALSE)
  /\ pc' = [t \in Seeds |-> IF t = s THEN "running"
                            ELSE IF t \in Heirs(slot) THEN "slotReady"
                            ELSE pc[t]]
  /\ slot' = Released(slot)
  /\ UNCHANGED <<sem, walls, bytesSettled, costSettled, costReserved, caps,
                 capBreaches, row, wire>>

StartTransform(s) ==
  /\ pc[s] = "slotReady"
  /\ shortCircuit = "none" /\ ~CostCapReached
  /\ Start(s, 0, TRUE, TRUE)
  /\ pc' = [pc EXCEPT ![s] = "running"]
  /\ UNCHANGED <<sem, slot, walls, bytesSettled, costSettled, costReserved, caps,
                 capBreaches, row, wire>>

----------------------------------------------------------------------------
(* What one execution may answer.  A render needs the permission its input *)
(* carried; a bill needs the transform slot.  An answer that asks to retry *)
(* (429 or 503 with a Retry-After) is a bare document: a render's result   *)
(* carries no retryAfterMs, and an error status is never transformed.  A   *)
(* fetch that times out in its body is rejected, and a rejected fetch      *)
(* reports zero bytes: what it had read is lost to the accounting.         *)

Answers(s) ==
  {a \in [doc : DocBytes, sub : RenderBytes, cost : Costs,
          hosts : EgressSets, rendered : BOOLEAN, lost : BOOLEAN] :
     /\ a.rendered => job[s].render
     /\ a.sub # 0 => a.rendered
     /\ a.cost # 0 => job[s].slot
     /\ a.lost => MayTimeOut /\ ~a.rendered /\ a.cost = 0}

Reported(a) == IF a.lost THEN 0 ELSE a.doc + a.sub

RetryFits(s) == ~WallReached /\ Fits(AttemptReserve(job[s]))

(* What follows the executor in the same block: release the transform slot, *)
(* count the render, settle the budget, count the hosts the seed reached,   *)
(* write the row, release the fetch slot.                                   *)
Union(s, hosts) == {Home[s]} \cup hosts

Counted(s, hosts) ==
  [h \in Hosts |-> hostCounts[h] + (IF h \in Union(s, hosts) THEN 1 ELSE 0)]

Victims(s, hosts) ==
  {h \in hosts \ {Home[s]} : Counted(s, hosts)[h] >= MaxPerHost}

Crossed(s, hosts) ==
  \E h \in Union(s, hosts) : Counted(s, hosts)[h] > MaxPerHost

AfterBudget(breach) == IF shortCircuit = "none" THEN breach ELSE shortCircuit

Quarantines(s, breach, hosts) ==
  Victims(s, hosts) # {} /\ AfterBudget(breach) \notin Hard

(* Mutant: the quarantine is not disclosed. *)
StopCodes_NoHost(s, breach, hosts) ==
  (IF aborted THEN {"deadline"} ELSE {})
  \cup ({breach} \ {"none"})
  \cup (IF Crossed(s, hosts) THEN {"crossed"} ELSE {})

(* The codes disclosed when seed s settles. *)
StopCodes(s, breach, hosts) ==
  (IF aborted THEN {"deadline"} ELSE {})
  \cup ({breach} \ {"none"})
  \cup (IF Quarantines(s, breach, hosts) THEN {"host"} ELSE {})
  \cup (IF Crossed(s, hosts) THEN {"crossed"} ELSE {})

Finish(s, bytes, cost, hosts, rendered, r) ==
  LET breach == AfterBreach(s, bytes, cost)
  IN /\ renderedCount' = renderedCount + (IF rendered THEN 1 ELSE 0)
     /\ AfterSeed(s, bytes, cost)
     /\ hostCounts' = Counted(s, hosts)
     /\ shortCircuit' = IF Quarantines(s, breach, hosts) THEN "host"
                                                  ELSE AfterBudget(breach)
     /\ Disclose(StopCodes(s, breach, hosts))
     /\ Record(s, r)
     /\ Leave(s, job[s].slot)
     /\ UNCHANGED walls

(* The executor answers and the seed settles; a second answer is merged    *)
(* with the bytes and the redirects of the first.                          *)
Settle(s) ==
  /\ pc[s] \in Executing
  /\ \E a \in Answers(s) :
       /\ Finish(s, job[s].first.bytes + Reported(a), a.cost,
                 job[s].first.hosts \cup a.hosts, a.rendered, "settled")
       /\ wire' = wire + job[s].first.bytes + a.doc + a.sub

(* The first answer asks to retry, and the wall and the byte budget allow. *)
AwaitRetryAfter(s) ==
  /\ MayRetry
  /\ pc[s] = "running"
  /\ RetryFits(s)
  /\ bytesReserved' = bytesReserved + AttemptReserve(job[s])
  /\ \E doc \in DocBytes, hosts \in EgressSets :
       job' = [job EXCEPT ![s].retry = TRUE,
                          ![s].first = [bytes |-> doc, hosts |-> hosts]]
  /\ pc' = [pc EXCEPT ![s] = "backoff"]
  /\ UNCHANGED <<sem, slot, walls, bytesSettled, costSettled, costReserved, caps,
                 capBreaches, row, wire>>

Retry(s) ==
  /\ pc[s] = "backoff"
  /\ ~WallReached
  /\ pc' = [pc EXCEPT ![s] = "rerunning"]
  /\ UNCHANGED <<job, sem, slot, walls, budget, caps, capBreaches, row, wire>>

GiveUpRetry(s) ==
  /\ pc[s] = "backoff"
  /\ WallReached
  /\ Finish(s, job[s].first.bytes, 0, job[s].first.hosts, FALSE, "settled")
  /\ wire' = wire + job[s].first.bytes

(* The executor throws after it has moved some bytes: a second attempt's   *)
(* reservation is released at once, the seed settles one turn later with   *)
(* an empty result.                                                        *)
Throw(s) ==
  /\ MayThrow
  /\ pc[s] \in Executing
  /\ bytesReserved' = bytesReserved
                      - (IF job[s].retry THEN AttemptReserve(job[s]) ELSE 0)
  /\ \E doc \in DocBytes : wire' = wire + job[s].first.bytes + doc
  /\ job' = [job EXCEPT ![s].retry = FALSE, ![s].first = NoFirst]
  /\ pc' = [pc EXCEPT ![s] = "threw"]
  /\ UNCHANGED <<sem, slot, walls, bytesSettled, costSettled, costReserved, caps,
                 capBreaches, row>>

SettleThrown(s) ==
  /\ pc[s] = "threw"
  /\ Finish(s, 0, 0, {}, FALSE, "threw")
  /\ UNCHANGED wire

(* The wall won the race: the seed settles with what its first attempt, if *)
(* there was one, reported, while the abandoned attempt moved bytes too.   *)
SettleAbandoned(s) ==
  /\ pc[s] = "abandoned"
  /\ Finish(s, job[s].first.bytes, 0, job[s].first.hosts, FALSE, "settled")
  /\ \E doc \in DocBytes, sub \in RenderBytes :
       /\ sub # 0 => job[s].render
       /\ wire' = wire + job[s].first.bytes + doc + sub

----------------------------------------------------------------------------
(* The wall timer.  Every wait that listens to the signal ends, the waiters *)
(* of both semaphores leaving their queues without a slot.                 *)

(* Mutant: waiters do not listen to the signal. *)
AfterAbort_Stranded(p) == IF p \in Executing THEN "abandoned" ELSE p

AfterAbort(p) ==
  CASE p = "queued" -> "lost"
    [] p = "slotWait" -> "slotLost"
    [] p \in Executing -> "abandoned"
    [] OTHER -> p

WallAbort ==
  /\ ~aborted
  /\ ~AllDone
  /\ \A s \in Seeds : pc[s] \notin Ready
  /\ aborted' = TRUE
  /\ pc' = [s \in Seeds |-> AfterAbort(pc[s])]
  /\ sem' = [sem EXCEPT !.waiters = <<>>]
  /\ slot' = [slot EXCEPT !.waiters = <<>>]
  /\ UNCHANGED <<job, late, budget, caps, capBreaches, row, wire>>

LoseSlot(s) ==
  /\ pc[s] = "lost"
  /\ Record(s, "deadline")
  /\ Disclose({"deadline"})
  /\ pc' = [pc EXCEPT ![s] = "done"]
  /\ UNCHANGED <<job, sem, slot, walls, budget, caps, wire>>

LoseTransformSlot(s) ==
  /\ pc[s] = "slotLost"
  /\ CancelReservation(s)
  /\ Record(s, "deadline")
  /\ Disclose({"deadline"})
  /\ Leave(s, FALSE)
  /\ UNCHANGED <<walls, caps, wire>>

(* The clock passes the deadline: it may do so before the timer fires.     *)
ClockPasses ==
  /\ ~late
  /\ ~AllDone
  /\ late' = TRUE
  /\ UNCHANGED <<pc, job, sem, slot, aborted, budget, caps, capBreaches, row, wire>>

(* Promise.all resolves: the call returns and changes nothing more.        *)
Returned == AllDone /\ UNCHANGED vars

Continue(s) ==
  \/ EnterGate(s) \/ RefuseAdmission(s)
  \/ DropOnHardStop(s) \/ DowngradeToRaw(s) \/ StartTransform(s)
  \/ LoseSlot(s) \/ LoseTransformSlot(s)
  \/ SettleAbandoned(s) \/ SettleThrown(s)

LeaveGate(s) ==
  \/ MissDeadline(s) \/ RefuseBudget(s) \/ DispatchRaw(s) \/ AskForSlot(s)

LeaveBackoff(s) == Retry(s) \/ GiveUpRetry(s)

Next ==
  \/ \E s \in Seeds : \/ Continue(s) \/ LeaveGate(s) \/ LeaveBackoff(s)
                       \/ Settle(s) \/ AwaitRetryAfter(s) \/ Throw(s)
  \/ WallAbort \/ ClockPasses \/ Returned

(* Ready continuations and timers run; the executor may never answer.      *)
Fairness ==
  /\ \A s \in Seeds : WF_vars(Continue(s)) /\ WF_vars(LeaveGate(s))
                      /\ WF_vars(LeaveBackoff(s))
  /\ WF_vars(WallAbort)

Spec == Init /\ [][Next]_vars
FairSpec == Spec /\ Fairness

----------------------------------------------------------------------------
(* Properties. *)

(* The reservation gate holds settled + reserved within the global byte    *)
(* cap at all times (bulk-budget.ts), whatever order the concurrent seeds  *)
(* reserve, retry, render, cancel and settle in.                           *)
BudgetBounded == bytesSettled + bytesReserved <= MaxEgress

(* No reservation leaks and none is released twice: the two counters are   *)
(* exactly what the seeds still in flight hold, on every abort, downgrade, *)
(* retry and throw path.  Transforms never overlap (transformSem), so the  *)
(* bill overshoots the caller's cap by at most what one seed can cost      *)
(* beyond its reservation (bulk-budget.ts, mechanic 2).                    *)
ReservedBytes(s) ==
  CASE pc[s] \in {"slotWait", "slotReady", "slotLost"} -> PerSeedMaxBytes
    [] pc[s] \in Executing \cup {"backoff", "abandoned", "threw"} -> Held(s)
    [] OTHER -> 0

FetchHolders == {s \in Seeds : pc[s] \notin {"queued", "lost", "done"}}
SlotHolders == {s \in Seeds : pc[s] = "slotReady" \/ job[s].slot}

AccountsExact ==
  /\ bytesReserved = SumFunction([s \in Seeds |-> ReservedBytes(s)])
  /\ costReserved = SumFunction([s \in Seeds |-> HeldCost(s)])
  /\ \A s, t \in SlotHolders : s = t
  /\ \A cost \in Costs : (\A c \in Costs : c <= cost) =>
       costSettled <= MaxCost + (IF cost > PerSeedCost THEN cost - PerSeedCost ELSE 0)

(* What the call does to the world.  The bytes it really moved stay within *)
(* the cap, abandoned attempts included, as long as every execution that   *)
(* is not abandoned answers and reports what it moved (bulk-budget.ts).    *)
(* A host counts at most maxPerHostInBulk + maxConcurrency of its seeds,   *)
(* however they reach it, and Least - 1 more: the documents' bound         *)
(* (contracts.md, in-flight discovery) forgets that a home seed that fills *)
(* the count stops nobody, so that the home seeds in flight go on before a *)
(* foreign one does.  The seeds that rendered exceed maxRenderedSeeds by   *)
(* less than the number of renders whose reservations fit the byte cap     *)
(* together: the count is read before the renders ahead of it have settled. *)
Least == IF MaxPerHost < MaxConcurrency THEN MaxPerHost ELSE MaxConcurrency

CallBounds ==
  /\ MayTimeOut \/ MayThrow \/ wire <= MaxEgress
  /\ \A h \in Hosts : hostCounts[h] <= MaxPerHost + MaxConcurrency + Least - 1
  /\ renderedCount > 0 =>
       (renderedCount - MaxRendered + 1) * (PerSeedMaxBytes + RenderReserve) <= MaxEgress

(* Both semaphores implement SlotPool step by step: every change of their  *)
(* holders and queues is a take, a wait, a hand-off to the head of the     *)
(* queue, or waiters leaving it at the wall.                               *)
FetchSlots == INSTANCE SlotPool WITH
  Clients <- Seeds, Capacity <- MaxConcurrency,
  holders <- FetchHolders, queue <- sem.waiters

TransformSlots == INSTANCE SlotPool WITH
  Clients <- Seeds, Capacity <- 1,
  holders <- SlotHolders, queue <- slot.waiters

SlotPoolsImplemented == FetchSlots!Spec /\ TransformSlots!Spec

(* Every seed the pool refused or dropped carries a reason that the result *)
(* discloses among its cap breaches.                                       *)
DisclosedBreaches ==
  \A s \in Seeds : row[s] \in {"deadline", "egress", "host"}
                     => row[s] \in capBreaches

(* No execution starts, and none is retried, after the wall signal.        *)
NoDispatchAfterWall ==
  [][aborted => \A s \in Seeds : pc'[s] \in Executing => pc[s] \in Executing]_vars

(* The call returns even when no executor ever answers: the wall settles   *)
(* every seed.                                                             *)
CallReturns == <>AllDone

===========================================================================
