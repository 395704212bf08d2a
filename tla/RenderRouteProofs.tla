-------------------------- MODULE RenderRouteProofs --------------------------
(***************************************************************************)
(* What holds of a render whatever the page requests: types, the fetch     *)
(* semaphore as an implementation of SlotPool, the bound on each byte pool *)
(* when bodies arrive whole, and the egress that is reported.              *)
(***************************************************************************)
EXTENDS RenderRoute, SumTheorems, SequenceTheorems, FiniteSetTheorems, TLAPS

(* The constants as the leaves below use them.                             *)
LEMMA ConstantFacts ==
  /\ FetchPermits \in Nat /\ FetchPermits > 0 /\ PostPermits \in Nat
  /\ EssentialCap \in Nat /\ MaxBytes \in Nat /\ PostMaxBytes \in Nat
  /\ \A p \in Pools : Cap[p] \in Nat
  /\ \A r \in Requests : Pool(r) \in Pools /\ PostBody[r] \in Nat
                         /\ PostBody[r] <= PostMaxBytes
  /\ \A bytes \in BodySizes : bytes \in Nat /\ bytes <= MaxBytes
<1>1. FetchPermits \in Nat /\ FetchPermits > 0 /\ PostPermits \in Nat
  BY RenderAssumption
<1>2. EssentialCap \in Nat /\ MaxBytes \in Nat /\ PostMaxBytes \in Nat
  BY RenderAssumption
<1>3. \A p \in Pools : Cap[p] \in Nat
  BY <1>2 DEF Pools, Cap
<1>4. \A r \in Requests : Pool(r) \in Pools /\ PostBody[r] \in Nat
                          /\ PostBody[r] <= PostMaxBytes
  BY <1>2, RenderAssumption DEF Pool, Pools
<1>5. \A bytes \in BodySizes : bytes \in Nat /\ bytes <= MaxBytes
  BY <1>2, RenderAssumption
<1> QED
  BY <1>1, <1>2, <1>3, <1>4, <1>5

(* A hand-off or a release leaves the types of what it touches alone.      *)
LEMMA ReleasePermitTypes ==
  ASSUME TypeOK, NEW r \in Requests, NEW next \in PCs, ReleasePermit(r, next)
  PROVE  /\ pc' \in [Requests -> PCs]
         /\ fetchSem' \in [available : Nat, waiters : Seq(Requests)]
<1>1. fetchSem.available \in Nat /\ fetchSem.waiters \in Seq(Requests)
  BY DEF TypeOK
<1>2. "granted" \in PCs
  BY DEF PCs
<1>3. pc' \in [Requests -> PCs]
  BY <1>2 DEF TypeOK, ReleasePermit
<1>r. fetchSem \in [available : Nat, waiters : Seq(Requests)]
  BY DEF TypeOK
<1>4. CASE fetchSem.waiters = <<>>
  <2>1. fetchSem' = [fetchSem EXCEPT !.available = @ + 1]
    BY <1>4 DEF ReleasePermit
  <2>2. fetchSem' \in [available : Nat, waiters : Seq(Requests)]
    BY <1>1, <1>r, <2>1
  <2> QED
    BY <1>3, <2>2
<1>5. CASE fetchSem.waiters # <<>>
  <2>1. Tail(fetchSem.waiters) \in Seq(Requests)
    BY <1>1, <1>5, HeadTailProperties
  <2>2. fetchSem' = [fetchSem EXCEPT !.waiters = Tail(@)]
    BY <1>5 DEF ReleasePermit
  <2>3. fetchSem' \in [available : Nat, waiters : Seq(Requests)]
    BY <1>r, <2>1, <2>2
  <2> QED
    BY <1>3, <2>3
<1> QED
  BY <1>3, <1>4, <1>5

LEMMA ReturnPostPermitTypes ==
  ASSUME TypeOK, NEW r \in Requests, ReturnPostPermit(r)
  PROVE  postFree' \in Nat
BY DEF TypeOK, ReturnPostPermit

LEMMA AnswerTypes ==
  ASSUME TypeOK, NEW r \in Requests, Abort(r) \/ Fulfill(r)
  PROVE  /\ actions' \subseteq Requests
         /\ answer' \in [Requests -> {"none", "fulfilled", "aborted"}]
BY DEF TypeOK, Abort, Fulfill

LEMMA CountEgressTypes ==
  ASSUME TypeOK, NEW r \in Requests, NEW bytes \in BodySizes, CountEgress(r, bytes)
  PROVE  /\ used' \in [Pools -> Int] /\ egressHosts' \subseteq Requests
         /\ moved' \in [Requests -> Nat]
<1>1. bytes \in Nat /\ PostBody[r] \in Nat
  BY ConstantFacts
<1>2. Pool(r) \in Pools /\ used \in [Pools -> Int] /\ moved \in [Requests -> Nat]
  BY ConstantFacts DEF TypeOK
<1>3. /\ used' = [used EXCEPT ![Pool(r)] = @ + bytes]
      /\ moved' = [moved EXCEPT ![r] = PostBody[r] + bytes]
  BY DEF CountEgress
<1>4. used' \in [Pools -> Int] /\ moved' \in [Requests -> Nat]
  BY <1>1, <1>2, <1>3
<1>5. egressHosts' \subseteq Requests
  BY DEF TypeOK, CountEgress
<1> QED
  BY <1>4, <1>5

(* Every action of a request's handler keeps the types.                    *)
LEMMA BeginTypes ==
  ASSUME TypeOK, NEW r \in Requests, Begin(r)
  PROVE  TypeOK'
<1>1. CASE AbortUnfetched(r)
  <2>1. pc' \in [Requests -> PCs]
    BY <1>1 DEF AbortUnfetched, TypeOK, PCs
  <2> QED
    BY <1>1, <2>1, AnswerTypes DEF AbortUnfetched, TypeOK, Sizes, Outcome
<1>2. CASE AnswerPreflight(r)
  <2>1. pc' \in [Requests -> PCs]
    BY <1>2 DEF AnswerPreflight, TypeOK, PCs
  <2> QED
    BY <1>2, <2>1, AnswerTypes DEF AnswerPreflight, TypeOK, Sizes, Outcome
<1>3. CASE CheckBlockedType(r)
  <2>1. pc' \in [Requests -> PCs]
    BY <1>3 DEF CheckBlockedType, TypeOK, PCs
  <2> QED
    BY <1>3, <2>1 DEF CheckBlockedType, TypeOK, Sizes, Outcome
<1>4. CASE Acquire(r)
  <2>1. pc' \in [Requests -> PCs]
    BY <1>4 DEF Acquire, TypeOK, PCs
  <2>2. postFree' \in Nat
    BY <1>4 DEF Acquire, TypeOK, BlockedAtOnce
  <2>3. fetchSem.available \in Nat /\ fetchSem.waiters \in Seq(Requests)
    BY DEF TypeOK
  <2>4. Append(fetchSem.waiters, r) \in Seq(Requests)
    BY <2>3, AppendProperties
  <2>5. fetchSem' \in [available : Nat, waiters : Seq(Requests)]
    <3>r. fetchSem \in [available : Nat, waiters : Seq(Requests)]
      BY DEF TypeOK
    <3>1. CASE fetchSem.available > 0
      <4>1. fetchSem' = [fetchSem EXCEPT !.available = @ - 1]
        BY <1>4, <3>1 DEF Acquire
      <4> QED
        BY <2>3, <3>r, <3>1, <4>1
    <3>2. CASE ~(fetchSem.available > 0)
      <4>1. fetchSem' = [fetchSem EXCEPT !.waiters = Append(@, r)]
        BY <1>4, <3>2 DEF Acquire
      <4> QED
        BY <2>4, <3>r, <4>1
    <3> QED
      BY <3>1, <3>2
  <2> QED
    BY <1>4, <2>1, <2>2, <2>5 DEF Acquire, TypeOK, Sizes, Outcome
<1> QED
  BY <1>1, <1>2, <1>3, <1>4 DEF Begin

LEMMA ProceedTypes ==
  ASSUME TypeOK, NEW r \in Requests, Proceed(r)
  PROVE  TypeOK'
<1>d. "done" \in PCs /\ "answering" \in PCs
  BY DEF PCs
<1>1. CASE AbortBlockedType(r)
  <2>1. pc' \in [Requests -> PCs]
    BY <1>1 DEF AbortBlockedType, TypeOK, PCs
  <2> QED
    BY <1>1, <2>1, AnswerTypes DEF AbortBlockedType, TypeOK, Sizes, Outcome
<1>2. CASE Deny(r)
  BY <1>2, <1>d, ReleasePermitTypes, ReturnPostPermitTypes, AnswerTypes
  DEF Deny, TypeOK, Sizes, Outcome
<1>3. CASE Fetch(r)
  <2>1. pc' \in [Requests -> PCs]
    BY <1>3 DEF Fetch, TypeOK, PCs, Fetching
  <2>2. PostBody[r] \in Nat /\ Pool(r) \in Pools
    BY ConstantFacts
  <2>3. used' \in [Pools -> Int]
    BY <1>3, <2>2 DEF Fetch, TypeOK
  <2>4. exceeded' \subseteq Pools
    BY <1>3 DEF Fetch, TypeOK, Pools
  <2> QED
    BY <1>3, <2>1, <2>3, <2>4 DEF Fetch, TypeOK, Outcome
<1>4. CASE FinishPost(r)
  <2>1. pc' \in [Requests -> PCs]
    BY <1>4 DEF FinishPost, TypeOK, PCs
  <2> QED
    BY <1>4, <2>1 DEF FinishPost, TypeOK, Sizes, Outcome
<1>5. CASE RejectTruncated(r)
  <2>1. /\ used' \in [Pools -> Int] /\ egressHosts' \subseteq Requests
        /\ moved' \in [Requests -> Nat]
    BY <1>5, CountEgressTypes DEF RejectTruncated
  <2>2. fatal' \in BOOLEAN
    BY <1>5 DEF RejectTruncated, RejectNavigation, TypeOK
  <2> QED
    BY <1>5, <1>d, <2>1, <2>2, ReleasePermitTypes, ReturnPostPermitTypes, AnswerTypes
    DEF RejectTruncated, TypeOK
<1>6. CASE RejectUncounted(r)
  <2>1. PostBody[r] \in Nat /\ Pool(r) \in Pools
    BY ConstantFacts
  <2>2. used' \in [Pools -> Int]
    BY <1>6, <2>1 DEF RejectUncounted, ReleaseBody, TypeOK
  <2>3. moved' \in [Requests -> Nat]
    <3>1. ASSUME NEW bytes \in BodySizes,
                 moved' = [moved EXCEPT ![r] = PostBody[r] + bytes]
          PROVE  moved' \in [Requests -> Nat]
      <4>1. PostBody[r] + bytes \in Nat
        BY <2>1, ConstantFacts
      <4> QED
        BY <3>1, <4>1 DEF TypeOK
    <3> QED
      BY <1>6, <3>1 DEF RejectUncounted, TypeOK
  <2>4. fatal' \in BOOLEAN
    BY <1>6 DEF RejectUncounted, RejectNavigation, TypeOK
  <2> QED
    BY <1>6, <1>d, <2>2, <2>3, <2>4, ReleasePermitTypes, ReturnPostPermitTypes,
       AnswerTypes
    DEF RejectUncounted, TypeOK
<1>7. CASE Deliver(r)
  <2>1. PICK bytes \in BodySizes :
          /\ CountEgress(r, bytes)
          /\ exceeded' = IF Crosses(r, bytes) THEN exceeded \cup {Pool(r)}
                                              ELSE exceeded
          /\ IF Served(r, bytes)
               THEN /\ Fulfill(r)
                    /\ ReleasePermit(r, IF Kind[r] = "post" THEN "answering"
                                                            ELSE "done")
                    /\ UNCHANGED postFree
               ELSE /\ Abort(r)
                    /\ ReleasePermit(r, "done")
                    /\ ReturnPostPermit(r)
    BY <1>7 DEF Deliver
  <2>2. /\ used' \in [Pools -> Int] /\ egressHosts' \subseteq Requests
        /\ moved' \in [Requests -> Nat]
    BY <2>1, CountEgressTypes
  <2>3. exceeded' \subseteq Pools
    BY <2>1, ConstantFacts DEF TypeOK
  <2>4. \E next \in PCs : ReleasePermit(r, next)
    BY <2>1, <1>d
  <2>5. /\ pc' \in [Requests -> PCs]
        /\ fetchSem' \in [available : Nat, waiters : Seq(Requests)]
    BY <2>4, ReleasePermitTypes
  <2>6. /\ actions' \subseteq Requests
        /\ answer' \in [Requests -> {"none", "fulfilled", "aborted"}]
        /\ postFree' \in Nat
    BY <2>1, AnswerTypes, ReturnPostPermitTypes DEF TypeOK
  <2>7. provenance' \subseteq Requests /\ fatal' \in BOOLEAN
        /\ teardown' \in BOOLEAN /\ reported' \in Int
    BY <1>7 DEF Deliver, TypeOK
  <2> QED
    BY <2>2, <2>3, <2>5, <2>6, <2>7 DEF TypeOK
<1> QED
  BY <1>1, <1>2, <1>3, <1>4, <1>5, <1>6, <1>7 DEF Proceed

(* Every variable of a render keeps its type: the permits are never        *)
(* negative, whatever the page requests and however its fetches fail.      *)
THEOREM TypeCorrect == Spec => []TypeOK
<1>1. Init => TypeOK
  <2> SUFFICES ASSUME Init PROVE TypeOK
    OBVIOUS
  <2>1. FetchPermits \in Nat /\ PostPermits \in Nat
    BY ConstantFacts
  <2>2. <<>> \in Seq(Requests)
    BY EmptySeq
  <2>3. [available |-> FetchPermits, waiters |-> <<>>]
          \in [available : Nat, waiters : Seq(Requests)]
    BY <2>1, <2>2
  <2>4. fetchSem \in [available : Nat, waiters : Seq(Requests)]
    BY <2>3 DEF Init
  <2>5. [r \in Requests |-> "idle"] \in [Requests -> PCs]
    BY DEF PCs
  <2>6. /\ [p \in Pools |-> 0] \in [Pools -> Int]
        /\ [r \in Requests |-> 0] \in [Requests -> Nat]
    OBVIOUS
  <2>7. pc \in [Requests -> PCs] /\ postFree \in Nat
    BY <2>1, <2>5 DEF Init
  <2>8. /\ used \in [Pools -> Int] /\ moved \in [Requests -> Nat]
        /\ reported \in Int
    BY <2>6 DEF Init
  <2>9. answer \in [Requests -> {"none", "fulfilled", "aborted"}]
    BY DEF Init
  <2>10. /\ exceeded \subseteq Pools /\ egressHosts \subseteq Requests
         /\ actions \subseteq Requests /\ provenance \subseteq Requests
         /\ fatal \in BOOLEAN /\ teardown \in BOOLEAN
    BY DEF Init
  <2> QED
    BY <2>4, <2>7, <2>8, <2>9, <2>10 DEF TypeOK
<1>2. TypeOK /\ [Next]_vars => TypeOK'
  <2> SUFFICES ASSUME TypeOK, [Next]_vars PROVE TypeOK'
    OBVIOUS
  <2>1. CASE EndRender
    <3>1. used["essential"] \in Int /\ used["other"] \in Int
      BY DEF TypeOK, Pools
    <3> QED
      BY <2>1, <3>1 DEF EndRender, TypeOK, Sizes
  <2>2. CASE UNCHANGED vars
    BY <2>2 DEF vars, TypeOK
  <2> QED
    BY <2>1, <2>2, BeginTypes, ProceedTypes DEF Next, Closed
<1> QED
  BY <1>1, <1>2, PTL DEF Spec

----------------------------------------------------------------------------
(* The permits.  What SlotPoolProofs shows of every slot pool holds of the *)
(* fetch semaphore, once its steps are shown to be a slot pool's.          *)
Slots == INSTANCE SlotPoolProofs WITH
  Clients <- Requests, Capacity <- FetchPermits,
  holders <- FetchHolders, queue <- fetchSem.waiters

LEMMA SameCount == ASSUME NEW S PROVE Slots!Cardinality(S) = Cardinality(S)
BY DEF Slots!Cardinality, Cardinality

LEMMA SlotConstants == Slots!SlotAssumption
<1>1. Slots!IsFiniteSet(Requests) <=> IsFiniteSet(Requests)
  BY DEF Slots!IsFiniteSet, IsFiniteSet
<1> QED
  BY <1>1, RenderAssumption DEF Slots!SlotAssumption

(* Everyone in the queue is suspended in it, and a permit is free or held. *)
PermitInv ==
  /\ Slots!Safe
  /\ fetchSem.available + Cardinality(FetchHolders) = FetchPermits
  /\ \A i \in DOMAIN fetchSem.waiters : pc[fetchSem.waiters[i]] = "queued"

(* A set of requests is finite.                                            *)
LEMMA RequestCount ==
  ASSUME NEW H \in SUBSET Requests
  PROVE  /\ Cardinality(H) \in Nat
         /\ \A r \in Requests \ H : Cardinality(H \cup {r}) = Cardinality(H) + 1
         /\ \A r \in H : Cardinality(H \ {r}) = Cardinality(H) - 1
         /\ \A K \in SUBSET H : Cardinality(K) <= Cardinality(H)
<1>1. IsFiniteSet(H)
  BY RenderAssumption, FS_Subset
<1>2. Cardinality(H) \in Nat
  BY <1>1, FS_CardinalityType
<1>3. \A r \in Requests \ H : Cardinality(H \cup {r}) = Cardinality(H) + 1
  BY <1>1, FS_AddElement
<1>4. \A r \in H : Cardinality(H \ {r}) = Cardinality(H) - 1
  BY <1>1, FS_RemoveElement
<1>5. \A K \in SUBSET H : Cardinality(K) <= Cardinality(H)
  BY <1>1, FS_Subset
<1> QED
  BY <1>2, <1>3, <1>4, <1>5

(* A holder that passes its permit on is a Release of the abstract pool.   *)
LEMMA HandOff ==
  ASSUME TypeOK, PermitInv, NEW r \in Requests, r \in FetchHolders,
         NEW next \in {"answering", "done"}, ReleasePermit(r, next)
  PROVE  /\ Slots!Release(r)
         /\ fetchSem'.available + Cardinality(FetchHolders') = FetchPermits
         /\ \A i \in DOMAIN fetchSem'.waiters : pc'[fetchSem'.waiters[i]] = "queued"
         /\ FetchHolders' \subseteq Requests
<1> DEFINE ws == fetchSem.waiters
<1>s. \A S : Slots!Cardinality(S) = Cardinality(S)
  BY SameCount
<1>t. /\ fetchSem.available \in Nat /\ ws \in Seq(Requests)
      /\ fetchSem \in [available : Nat, waiters : Seq(Requests)]
      /\ pc \in [Requests -> PCs] /\ FetchPermits \in Nat
  BY ConstantFacts DEF TypeOK
<1>h. FetchHolders \subseteq Requests /\ FetchHolders' \subseteq Requests
  BY DEF FetchHolders
<1>n. next # "granted" /\ next \notin Fetching /\ next # "queued"
  BY DEF Fetching
<1>c. /\ fetchSem.available + Cardinality(FetchHolders) = FetchPermits
      /\ Cardinality(FetchHolders) \in Nat
  BY <1>h, RequestCount DEF PermitInv
<1>q. pc[r] # "queued"
  BY DEF FetchHolders, Fetching
<1>1. CASE ws = <<>>
  <2>1. /\ fetchSem' = [fetchSem EXCEPT !.available = @ + 1]
        /\ pc' = [q \in Requests |-> IF q = r THEN next ELSE pc[q]]
    BY <1>1 DEF ReleasePermit
  <2>2. fetchSem'.available = fetchSem.available + 1 /\ fetchSem'.waiters = ws
    BY <1>t, <2>1
  <2>3. FetchHolders' = FetchHolders \ {r}
    BY <1>n, <2>1 DEF FetchHolders
  <2>4. Cardinality(FetchHolders') = Cardinality(FetchHolders) - 1
    BY <1>h, <2>3, RequestCount
  <2>5. fetchSem'.available + Cardinality(FetchHolders') = FetchPermits
    BY <1>t, <1>c, <2>2, <2>4
  <2>6. Slots!Release(r)
    BY <1>1, <2>2, <2>3 DEF Slots!Release
  <2>7. DOMAIN ws = {}
    BY <1>1
  <2> QED
    BY <1>h, <2>2, <2>5, <2>6, <2>7
<1>2. CASE ws # <<>>
  <2> DEFINE heir == Head(ws)
             left == FetchHolders \ {r}
  <2>1. /\ fetchSem' = [fetchSem EXCEPT !.waiters = Tail(@)]
        /\ pc' = [q \in Requests |-> IF q = r THEN next
                                     ELSE IF q = heir THEN "granted" ELSE pc[q]]
    BY <1>2 DEF ReleasePermit
  <2>2. fetchSem'.available = fetchSem.available /\ fetchSem'.waiters = Tail(ws)
    BY <1>t, <2>1
  <2>l. Len(ws) \in Nat \ {0} /\ DOMAIN ws = 1..Len(ws)
    BY <1>t, <1>2, EmptySeq, LenProperties
  <2>3. heir = ws[1] /\ heir \in Requests /\ 1 \in DOMAIN ws
    BY <1>t, <1>2, <2>l, HeadTailProperties
  <2>4. pc[heir] = "queued"
    BY <2>3 DEF PermitInv
  <2>5. heir # r /\ heir \notin FetchHolders
    BY <1>q, <2>4 DEF FetchHolders, Fetching
  <2>6. FetchHolders' = left \cup {heir}
    BY <1>n, <2>1, <2>3, <2>5 DEF FetchHolders
  <2>7. Cardinality(left) = Cardinality(FetchHolders) - 1 /\ left \in SUBSET Requests
    BY <1>h, RequestCount
  <2>8. Cardinality(left \cup {heir}) = Cardinality(left) + 1
    BY <2>3, <2>5, <2>7, RequestCount
  <2>9. fetchSem'.available + Cardinality(FetchHolders') = FetchPermits
    BY <1>t, <1>c, <2>2, <2>6, <2>7, <2>8
  <2>10. Slots!Release(r)
    BY <1>2, <2>2, <2>6 DEF Slots!Release
  <2>11. ASSUME NEW i \in DOMAIN Tail(ws)
         PROVE  pc'[Tail(ws)[i]] = "queued"
    <3>1. DOMAIN Tail(ws) = 1..(Len(ws) - 1) /\ Tail(ws)[i] = ws[i + 1]
      BY <1>t, <1>2, <2>l, HeadTailProperties, LenProperties
    <3>2. i + 1 \in DOMAIN ws /\ i + 1 # 1
      BY <2>l, <3>1
    <3>3. ws[i + 1] # heir
      BY <2>3, <3>2 DEF PermitInv, Slots!Safe, Slots!NoRepetition
    <3>4. pc[ws[i + 1]] = "queued" /\ ws[i + 1] \in Requests
      BY <1>t, <2>l, <3>2, ElementOfSeq DEF PermitInv
    <3>5. ws[i + 1] # r
      BY <3>4, <1>q
    <3> QED
      BY <2>1, <3>1, <3>3, <3>4, <3>5
  <2> QED
    BY <1>h, <2>2, <2>9, <2>10, <2>11
<1> QED
  BY <1>1, <1>2

(* What a request's step does to the semaphore is a step of SlotPool, and  *)
(* the two conjuncts that tie the semaphore to the handlers survive it.    *)
PoolStep == [Slots!Next]_<<FetchHolders, fetchSem.waiters>>

PermitTies ==
  /\ fetchSem.available + Cardinality(FetchHolders) = FetchPermits
  /\ \A i \in DOMAIN fetchSem.waiters : pc[fetchSem.waiters[i]] = "queued"

(* A handler that neither takes nor returns a permit.                      *)
LEMMA QuietStep ==
  ASSUME PermitInv, UNCHANGED fetchSem, FetchHolders' = FetchHolders,
         \A q : pc[q] = "queued" => pc'[q] = "queued"
  PROVE  PoolStep /\ PermitTies'
BY DEF PermitInv, PoolStep, PermitTies

LEMMA BeginPermits ==
  ASSUME TypeOK, PermitInv, NEW r \in Requests, Begin(r)
  PROVE  PoolStep /\ PermitTies'
<1> DEFINE ws == fetchSem.waiters
<1>s. \A S : Slots!Cardinality(S) = Cardinality(S)
  BY SameCount
<1>t. /\ fetchSem.available \in Nat /\ ws \in Seq(Requests)
      /\ fetchSem \in [available : Nat, waiters : Seq(Requests)]
      /\ pc \in [Requests -> PCs] /\ FetchPermits \in Nat
  BY ConstantFacts DEF TypeOK
<1>h. FetchHolders \subseteq Requests
  BY DEF FetchHolders
<1>c. /\ fetchSem.available + Cardinality(FetchHolders) = FetchPermits
      /\ Cardinality(FetchHolders) \in Nat
  BY <1>h, RequestCount DEF PermitInv
<1>l. Len(ws) \in Nat /\ DOMAIN ws = 1..Len(ws)
  BY <1>t, LenProperties
<1>i. pc[r] = "idle" /\ r \notin FetchHolders /\ r \notin Slots!Waiting
  <2>1. pc[r] = "idle"
    BY DEF Begin, AbortUnfetched, AnswerPreflight, CheckBlockedType, Acquire
  <2> QED
    BY <2>1 DEF FetchHolders, Fetching, PermitInv, Slots!Waiting, Slots!Range
<1>1. CASE AbortUnfetched(r) \/ AnswerPreflight(r) \/ CheckBlockedType(r)
  <2>1. PICK next \in {"done", "checking"} : pc' = [pc EXCEPT ![r] = next]
    BY <1>1 DEF AbortUnfetched, AnswerPreflight, CheckBlockedType
  <2>2. UNCHANGED fetchSem
    BY <1>1 DEF AbortUnfetched, AnswerPreflight, CheckBlockedType
  <2>3. FetchHolders' = FetchHolders
    BY <1>t, <1>i, <2>1 DEF FetchHolders, Fetching
  <2>4. \A i \in DOMAIN ws : pc'[ws[i]] = "queued"
    BY <1>t, <1>i, <2>1 DEF PermitInv
  <2> QED
    BY <1>c, <2>2, <2>3, <2>4 DEF PoolStep, PermitTies
<1>2. CASE Acquire(r) /\ fetchSem.available > 0
  <2>1. /\ fetchSem' = [fetchSem EXCEPT !.available = @ - 1]
        /\ pc' = [pc EXCEPT ![r] = "granted"]
    BY <1>2 DEF Acquire
  <2>2. fetchSem'.available = fetchSem.available - 1 /\ fetchSem'.waiters = ws
    BY <1>t, <2>1
  <2>3. FetchHolders' = FetchHolders \cup {r}
    BY <1>t, <2>1 DEF FetchHolders
  <2>4. Cardinality(FetchHolders') = Cardinality(FetchHolders) + 1
    BY <1>h, <1>i, <2>3, RequestCount
  <2>5. fetchSem'.available + Cardinality(FetchHolders') = FetchPermits
    BY <1>t, <1>c, <2>2, <2>4
  <2>6. Cardinality(FetchHolders) < FetchPermits
    BY <1>t, <1>c, <1>2
  <2>7. Slots!Take(r)
    BY <1>s, <1>i, <2>2, <2>3, <2>6 DEF Slots!Take
  <2>8. \A i \in DOMAIN ws : pc'[ws[i]] = "queued"
    BY <1>t, <1>i, <2>1 DEF PermitInv
  <2> QED
    BY <2>2, <2>5, <2>7, <2>8 DEF PoolStep, PermitTies, Slots!Next
<1>3. CASE Acquire(r) /\ ~(fetchSem.available > 0)
  <2>1. /\ fetchSem' = [fetchSem EXCEPT !.waiters = Append(@, r)]
        /\ pc' = [pc EXCEPT ![r] = "queued"]
    BY <1>3 DEF Acquire
  <2>2. /\ fetchSem'.available = fetchSem.available
        /\ fetchSem'.waiters = Append(ws, r)
    BY <1>t, <2>1
  <2>3. FetchHolders' = FetchHolders
    BY <1>t, <1>i, <2>1 DEF FetchHolders, Fetching
  <2>4. Cardinality(FetchHolders) = FetchPermits
    BY <1>t, <1>c, <1>3
  <2>5. Slots!Wait(r)
    BY <1>s, <1>i, <2>2, <2>3, <2>4 DEF Slots!Wait
  <2>6. /\ DOMAIN Append(ws, r) = 1..(Len(ws) + 1)
        /\ \A i \in 1..(Len(ws) + 1) :
             Append(ws, r)[i] = IF i <= Len(ws) THEN ws[i] ELSE r
    BY <1>t, AppendProperties, LenProperties
  <2>7. \A i \in DOMAIN ws : pc'[ws[i]] = "queued"
    BY <1>t, <1>i, <2>1 DEF PermitInv
  <2>8. pc'[r] = "queued"
    BY <1>t, <2>1
  <2>9. \A i \in DOMAIN fetchSem'.waiters : pc'[fetchSem'.waiters[i]] = "queued"
    <3> SUFFICES ASSUME NEW i \in 1..(Len(ws) + 1)
                 PROVE  pc'[Append(ws, r)[i]] = "queued"
      BY <2>2, <2>6
    <3>1. CASE i <= Len(ws)
      <4>1. i \in DOMAIN ws /\ Append(ws, r)[i] = ws[i]
        BY <1>l, <2>6, <3>1
      <4> QED
        BY <2>7, <4>1
    <3>2. CASE ~(i <= Len(ws))
      BY <2>6, <2>8, <3>2
    <3> QED
      BY <3>1, <3>2
  <2> QED
    BY <1>c, <2>2, <2>3, <2>5, <2>9 DEF PoolStep, PermitTies, Slots!Next
<1> QED
  BY <1>1, <1>2, <1>3 DEF Begin

LEMMA ProceedPermits ==
  ASSUME TypeOK, PermitInv, NEW r \in Requests, Proceed(r)
  PROVE  PoolStep /\ PermitTies'
<1>t. pc \in [Requests -> PCs]
  BY DEF TypeOK
<1>1. CASE AbortBlockedType(r) \/ FinishPost(r)
  <2>1. /\ pc[r] \in {"checking", "answering"} /\ UNCHANGED fetchSem
        /\ pc' = [pc EXCEPT ![r] = "done"]
    BY <1>1 DEF AbortBlockedType, FinishPost
  <2>2. FetchHolders' = FetchHolders
    BY <1>t, <2>1 DEF FetchHolders, Fetching
  <2>3. \A q : pc[q] = "queued" => pc'[q] = "queued"
    BY <1>t, <2>1
  <2> QED
    BY <2>1, <2>2, <2>3, QuietStep
<1>2. CASE Fetch(r)
  <2>1. PICK next \in Fetching : pc' = [pc EXCEPT ![r] = next]
    BY <1>2 DEF Fetch, Fetching
  <2>2. pc[r] = "granted" /\ UNCHANGED fetchSem
    BY <1>2 DEF Fetch
  <2>3. FetchHolders' = FetchHolders
    BY <1>t, <2>1, <2>2 DEF FetchHolders, Fetching
  <2>4. \A q : pc[q] = "queued" => pc'[q] = "queued"
    BY <1>t, <2>1, <2>2
  <2> QED
    BY <2>2, <2>3, <2>4, QuietStep
<1>3. CASE Deny(r) \/ RejectTruncated(r) \/ RejectUncounted(r) \/ Deliver(r)
  <2>1. r \in FetchHolders
    BY <1>3 DEF Deny, RejectTruncated, RejectUncounted, Deliver, FetchHolders, Fetching
  <2>2. \E next \in {"answering", "done"} : ReleasePermit(r, next)
    BY <1>3 DEF Deny, RejectTruncated, RejectUncounted, Deliver
  <2>3. /\ Slots!Release(r)
        /\ fetchSem'.available + Cardinality(FetchHolders') = FetchPermits
        /\ \A i \in DOMAIN fetchSem'.waiters : pc'[fetchSem'.waiters[i]] = "queued"
    BY <2>1, <2>2, HandOff
  <2> QED
    BY <2>3 DEF PoolStep, PermitTies, Slots!Next
<1> QED
  BY <1>1, <1>2, <1>3 DEF Proceed

LEMMA PermitStep == TypeOK /\ PermitInv /\ [Next]_vars => PoolStep /\ PermitInv'
<1> SUFFICES ASSUME TypeOK, PermitInv, [Next]_vars PROVE PoolStep /\ PermitInv'
  OBVIOUS
<1>1. PoolStep /\ PermitTies'
  <2>1. CASE \E r \in Requests : Begin(r) \/ Proceed(r)
    BY <2>1, BeginPermits, ProceedPermits
  <2>2. CASE EndRender \/ UNCHANGED vars
    <3>1. UNCHANGED <<pc, fetchSem>>
      BY <2>2 DEF EndRender, vars
    <3>2. FetchHolders' = FetchHolders
      BY <3>1 DEF FetchHolders
    <3> QED
      BY <3>1, <3>2, QuietStep
  <2> QED
    BY <2>1, <2>2 DEF Next, Closed
<1>2. Slots!Safe'
  BY <1>1, SlotConstants, Slots!SafeInductive DEF PermitInv, PoolStep, Slots!slotVars
<1> QED
  BY <1>1, <1>2 DEF PermitInv, PermitTies

LEMMA PermitInit == Init => PermitInv
<1> SUFFICES ASSUME Init PROVE PermitInv
  OBVIOUS
<1>1. fetchSem.available = FetchPermits /\ fetchSem.waiters = <<>>
  BY DEF Init
<1>2. FetchHolders = {} /\ FetchHolders \subseteq Requests
  BY DEF Init, FetchHolders, Fetching
<1>3. Cardinality(FetchHolders) = 0 /\ Slots!Cardinality(FetchHolders) = 0
  BY <1>2, SameCount, FS_EmptySet
<1>4. FetchPermits \in Nat
  BY ConstantFacts
<1>5. Slots!Safe
  BY <1>1, <1>2, <1>3, <1>4, EmptySeq
  DEF Slots!Safe, Slots!SlotTypeOK, Slots!WorkConserving, Slots!NoRepetition
<1> QED
  BY <1>1, <1>3, <1>4, <1>5 DEF PermitInv

LEMMA PermitsInvariant == Spec => [](TypeOK /\ PermitInv)
<1>1. TypeOK /\ PermitInv /\ [Next]_vars => PermitInv'
  BY PermitStep
<1> QED
  BY <1>1, PermitInit, TypeCorrect, PTL DEF Spec

(* Slots is the same pool as the model's FetchSlots.                       *)
LEMMA SameSlots == Slots!Next => FetchSlots!Next
BY DEF Slots!Next, Slots!GiveUp, Slots!Take, Slots!Wait, Slots!Release,
       Slots!Waiting, Slots!Range, Slots!Cardinality,
       FetchSlots!Next, FetchSlots!GiveUp, FetchSlots!Take, FetchSlots!Wait,
       FetchSlots!Release, FetchSlots!Waiting, FetchSlots!Range,
       FetchSlots!Cardinality

(* AsyncSemaphore, as the handlers of a render use it, implements the      *)
(* abstract slot pool on every path out of a handler: the gates, the       *)
(* rejects, the aborts and the answers pass the permit on exactly once,    *)
(* to the request that has waited longest.                                 *)
THEOREM FetchSemaphoreIsAPool == Spec => FetchSlotsImplemented
<1>1. Init => FetchSlots!Init
  <2> SUFFICES ASSUME Init PROVE FetchSlots!Init
    OBVIOUS
  <2>1. FetchHolders = {} /\ fetchSem.waiters = <<>>
    BY DEF Init, FetchHolders, Fetching
  <2>2. \A S : FetchSlots!Cardinality(S) = Cardinality(S)
    BY DEF FetchSlots!Cardinality, Cardinality
  <2>3. Cardinality(Requests) \in Nat /\ Cardinality({}) = 0
    BY RequestCount, FS_EmptySet
  <2>4. FetchSlots!Safe
    BY <2>1, <2>2, <2>3, ConstantFacts, EmptySeq
    DEF FetchSlots!Safe, FetchSlots!SlotTypeOK, FetchSlots!WorkConserving,
        FetchSlots!NoRepetition
  <2>5. 0 \in 0..Cardinality(Requests) /\ <<>> \in [1..0 -> Requests]
    BY <2>3
  <2> QED
    BY <2>1, <2>2, <2>4, <2>5 DEF FetchSlots!Init
<1>2. TypeOK /\ PermitInv /\ [Next]_vars =>
        [FetchSlots!Next]_<<FetchHolders, fetchSem.waiters>>
  BY PermitStep, SameSlots DEF PoolStep
<1> QED
  BY <1>1, <1>2, PermitsInvariant, PTL
  DEF Spec, FetchSlotsImplemented, FetchSlots!Spec, FetchSlots!slotVars

----------------------------------------------------------------------------
(* The byte pools.  A pool that is not blown is within its cap; a blown    *)
(* one has room left for a whole body of each fetch still in flight.       *)
InFlight(p) == {r \in Requests : pc[r] = "fetching" /\ Pool(r) = p}

Room(p) == Cap[p] + (IF p = "essential" THEN PostMaxBytes ELSE 0)
                  + FetchPermits * MaxBytes

PoolOK(p) ==
  IF p \in exceeded
    THEN used[p] + Cardinality(InFlight(p)) * MaxBytes <= Room(p)
    ELSE used[p] <= Cap[p]

PoolInv == \A p \in Pools : PoolOK(p)

LEMMA Products ==
  ASSUME NEW m \in Nat
  PROVE  /\ \A a, b \in Nat : a * m \in Nat /\ (a <= b => a * m <= b * m)
         /\ \A a \in Nat : (a + 1) * m = a * m + m
<1>1. \A a \in Nat : a * m \in Nat /\ (a + 1) * m = a * m + m
  OBVIOUS
<1>2. ASSUME NEW a \in Nat, NEW b \in Nat, a <= b PROVE a * m <= b * m
  <2>1. PICK d \in Nat : b = a + d
    BY <1>2
  <2>2. d * m \in Nat /\ b * m = a * m + d * m
    BY <2>1
  <2> QED
    BY <1>1, <2>2
<1> QED
  BY <1>1, <1>2

LEMMA FlightCount ==
  ASSUME TypeOK, PermitInv, NEW p \in Pools
  PROVE  /\ Cardinality(InFlight(p)) \in Nat
         /\ Cardinality(InFlight(p)) <= FetchPermits
<1>1. /\ InFlight(p) \subseteq FetchHolders
      /\ InFlight(p) \subseteq Requests /\ FetchHolders \subseteq Requests
  BY DEF InFlight, FetchHolders, Fetching
<1>2. /\ Cardinality(InFlight(p)) \in Nat /\ Cardinality(FetchHolders) \in Nat
      /\ Cardinality(InFlight(p)) <= Cardinality(FetchHolders)
  BY <1>1, RequestCount
<1>3. fetchSem.available \in Nat
      /\ fetchSem.available + Cardinality(FetchHolders) = FetchPermits
  BY DEF TypeOK, PermitInv
<1> QED
  BY <1>2, <1>3

(* A step that charges nothing to a pool and starts no fetch of it.        *)
LEMMA PoolShrinks ==
  ASSUME TypeOK, TypeOK', NEW p \in Pools, PoolOK(p),
         p \in exceeded' <=> p \in exceeded, used'[p] <= used[p],
         InFlight(p)' \subseteq InFlight(p)
  PROVE  PoolOK(p)'
<1>1. used[p] \in Int /\ used'[p] \in Int /\ Cap[p] \in Nat /\ MaxBytes \in Nat
  BY ConstantFacts DEF TypeOK
<1>2. InFlight(p) \subseteq Requests /\ InFlight(p)' \subseteq Requests
  BY DEF InFlight
<1>3. /\ Cardinality(InFlight(p)) \in Nat /\ Cardinality(InFlight(p)') \in Nat
      /\ Cardinality(InFlight(p)') <= Cardinality(InFlight(p))
  BY <1>2, RequestCount
<1>4. /\ Cardinality(InFlight(p)) * MaxBytes \in Nat
      /\ Cardinality(InFlight(p)') * MaxBytes \in Nat
      /\ Cardinality(InFlight(p)') * MaxBytes <= Cardinality(InFlight(p)) * MaxBytes
  BY <1>1, <1>3, Products
<1>5. Room(p) \in Nat
  BY ConstantFacts DEF Room
<1> QED
  BY <1>1, <1>4, <1>5 DEF PoolOK

(* What the holder's hand-off does to the fetches in flight.               *)
LEMMA FlightEnds ==
  ASSUME TypeOK, NEW r \in Requests, NEW next \in {"answering", "done"},
         ReleasePermit(r, next), NEW p \in Pools
  PROVE  InFlight(p)' \subseteq InFlight(p) \ {r}
BY DEF ReleasePermit, InFlight, TypeOK

(* A pool is charged a body: the fetch that brought it is over.            *)
LEMMA PoolCharged ==
  ASSUME TypeOK, TypeOK', PermitInv, NEW r \in Requests, NEW bytes \in BodySizes,
         PoolOK(Pool(r)), pc[r] = "fetching",
         InFlight(Pool(r))' \subseteq InFlight(Pool(r)) \ {r},
         used' = [used EXCEPT ![Pool(r)] = @ + bytes],
         exceeded' = IF Crosses(r, bytes) THEN exceeded \cup {Pool(r)} ELSE exceeded
  PROVE  PoolOK(Pool(r))'
<1> DEFINE p == Pool(r)
           n == Cardinality(InFlight(p))
           m == Cardinality(InFlight(p)')
<1>1. /\ p \in Pools /\ bytes \in Nat /\ bytes <= MaxBytes
      /\ Cap[p] \in Nat /\ MaxBytes \in Nat /\ PostMaxBytes \in Nat
      /\ FetchPermits \in Nat
  BY ConstantFacts
<1>2. used[p] \in Int /\ used'[p] = used[p] + bytes
  BY <1>1 DEF TypeOK
<1>3. r \in InFlight(p) /\ InFlight(p) \subseteq Requests
  BY DEF InFlight
<1>4. n \in Nat /\ n <= FetchPermits
  BY <1>1, FlightCount
<1>5. Cardinality(InFlight(p) \ {r}) = n - 1
  BY <1>3, RequestCount
<1>6. m \in Nat /\ m <= n - 1
  <2>1. InFlight(p)' \subseteq Requests /\ InFlight(p) \ {r} \subseteq Requests
    BY <1>3 DEF InFlight
  <2> QED
    BY <1>5, <2>1, RequestCount
<1>7. m + 1 \in Nat /\ m + 1 <= n /\ m + 1 <= FetchPermits
  BY <1>1, <1>4, <1>6
<1>8. /\ m * MaxBytes \in Nat /\ n * MaxBytes \in Nat
      /\ FetchPermits * MaxBytes \in Nat
      /\ m * MaxBytes + MaxBytes <= n * MaxBytes
      /\ m * MaxBytes + MaxBytes <= FetchPermits * MaxBytes
  <2>1. (m + 1) * MaxBytes = m * MaxBytes + MaxBytes
    BY <1>1, <1>6, Products
  <2>2. /\ (m + 1) * MaxBytes <= n * MaxBytes
        /\ (m + 1) * MaxBytes <= FetchPermits * MaxBytes
    BY <1>1, <1>4, <1>7, Products
  <2>3. /\ m * MaxBytes \in Nat /\ n * MaxBytes \in Nat
        /\ FetchPermits * MaxBytes \in Nat
    BY <1>1, <1>4, <1>6, Products
  <2> QED
    BY <2>1, <2>2, <2>3
<1>9. Room(p) \in Nat /\ Room(p) >= Cap[p] + FetchPermits * MaxBytes
  BY <1>1, <1>8 DEF Room
<1>10. CASE p \in exceeded
  <2>1. p \in exceeded' /\ used[p] + n * MaxBytes <= Room(p)
    BY <1>10 DEF PoolOK
  <2>2. used'[p] + m * MaxBytes <= Room(p)
    BY <1>1, <1>2, <1>8, <1>9, <2>1
  <2> QED
    BY <2>1, <2>2 DEF PoolOK, Room, Cap
<1>11. CASE p \notin exceeded /\ Crosses(r, bytes)
  <2>1. p \in exceeded' /\ used[p] <= Cap[p]
    BY <1>11 DEF PoolOK
  <2>2. used'[p] + m * MaxBytes <= Room(p)
    BY <1>1, <1>2, <1>8, <1>9, <2>1
  <2> QED
    BY <2>1, <2>2 DEF PoolOK, Room, Cap
<1>12. CASE p \notin exceeded /\ ~Crosses(r, bytes)
  <2>1. p \notin exceeded' /\ ~(used[p] + bytes > Cap[p])
    BY <1>12 DEF Crosses
  <2>2. used'[p] <= Cap[p]
    BY <1>1, <1>2, <2>1
  <2> QED
    BY <2>1, <2>2 DEF PoolOK, Cap
<1> QED
  BY <1>10, <1>11, <1>12

(* A POST's own body can cross the essential cap when it is sent.          *)
LEMMA PoolPosted ==
  ASSUME TypeOK, TypeOK', PermitInv, PermitInv', NEW r \in Requests,
         PoolOK(Pool(r)), Fetch(r)
  PROVE  PoolOK(Pool(r))'
<1> DEFINE p == Pool(r)
           m == Cardinality(InFlight(p)')
<1>1. /\ p \in Pools /\ Cap[p] \in Nat /\ MaxBytes \in Nat
      /\ PostMaxBytes \in Nat /\ FetchPermits \in Nat
      /\ PostBody[r] \in Nat /\ PostBody[r] <= PostMaxBytes
  BY ConstantFacts
<1>2. used[p] \in Int /\ used'[p] = used[p] + PostBody[r]
  BY <1>1 DEF TypeOK, Fetch
<1>3. p \notin exceeded /\ used[p] <= Cap[p]
  BY DEF Fetch, PostAcquireGate, PoolOK
<1>4. CASE Kind[r] # "post"
  <2>1. PostBody[r] = 0 /\ exceeded' = exceeded
    BY <1>4, RenderAssumption DEF Fetch
  <2>2. used'[p] <= Cap[p]
    BY <1>1, <1>2, <1>3, <2>1
  <2> QED
    BY <1>3, <2>1, <2>2 DEF PoolOK, Cap
<1>5. CASE Kind[r] = "post"
  <2>1. p = "essential" /\ Cap[p] = EssentialCap
    BY <1>5 DEF Pool, Cap
  <2>2. m \in Nat /\ m <= FetchPermits
    <3>1. /\ InFlight(p)' \subseteq FetchHolders'
          /\ InFlight(p)' \subseteq Requests /\ FetchHolders' \subseteq Requests
      BY DEF InFlight, FetchHolders, Fetching
    <3>2. /\ m \in Nat /\ Cardinality(FetchHolders') \in Nat
          /\ m <= Cardinality(FetchHolders')
      BY <3>1, RequestCount
    <3>3. fetchSem'.available \in Nat
          /\ fetchSem'.available + Cardinality(FetchHolders') = FetchPermits
      BY DEF TypeOK, PermitInv
    <3> QED
      BY <1>1, <3>2, <3>3
  <2>3. /\ m * MaxBytes \in Nat /\ FetchPermits * MaxBytes \in Nat
        /\ m * MaxBytes <= FetchPermits * MaxBytes
    BY <1>1, <2>2, Products
  <2>4. Room(p) = Cap[p] + PostMaxBytes + FetchPermits * MaxBytes
    BY <2>1 DEF Room
  <2>5. CASE used'[p] > EssentialCap
    <3>1. p \in exceeded'
      BY <1>5, <2>1, <2>5 DEF Fetch
    <3>2. used'[p] + m * MaxBytes <= Room(p)
      BY <1>1, <1>2, <1>3, <2>3, <2>4
    <3> QED
      BY <3>1, <3>2 DEF PoolOK, Room, Cap
  <2>6. CASE ~(used'[p] > EssentialCap)
    <3>1. p \notin exceeded'
      BY <1>3, <2>1, <2>6 DEF Fetch
    <3>2. used'[p] <= Cap[p]
      BY <1>1, <1>2, <2>1, <2>6
    <3> QED
      BY <3>1, <3>2 DEF PoolOK, Cap
  <2> QED
    BY <2>5, <2>6
<1> QED
  BY <1>4, <1>5

LEMMA PoolsBegin ==
  ASSUME TypeOK, TypeOK', PoolInv, NEW r \in Requests, Begin(r)
  PROVE  PoolInv'
<1>1. UNCHANGED <<used, exceeded>>
  BY DEF Begin, AbortUnfetched, AnswerPreflight, CheckBlockedType, Acquire, Sizes
<1>2. ASSUME NEW p \in Pools PROVE InFlight(p)' \subseteq InFlight(p)
  BY DEF Begin, AbortUnfetched, AnswerPreflight, CheckBlockedType, Acquire, InFlight,
         TypeOK
<1>3. ASSUME NEW p \in Pools PROVE used'[p] <= used[p]
  BY <1>1 DEF TypeOK
<1> QED
  BY <1>1, <1>2, <1>3, PoolShrinks DEF PoolInv

LEMMA PoolsProceed ==
  ASSUME "truncated" \notin Failures,
         TypeOK, TypeOK', PermitInv, PermitInv', PoolInv,
         NEW r \in Requests, Proceed(r)
  PROVE  PoolInv'
<1>p. Pool(r) \in Pools /\ PostBody[r] \in Nat
  BY ConstantFacts
<1>t. used \in [Pools -> Int] /\ pc \in [Requests -> PCs]
  BY DEF TypeOK
<1>1. CASE AbortBlockedType(r) \/ FinishPost(r) \/ Deny(r)
  <2>1. UNCHANGED <<used, exceeded>>
    BY <1>1 DEF AbortBlockedType, FinishPost, Deny, Sizes
  <2>2. ASSUME NEW p \in Pools PROVE InFlight(p)' \subseteq InFlight(p)
    <3>1. CASE AbortBlockedType(r) \/ FinishPost(r)
      BY <3>1, <1>t DEF AbortBlockedType, FinishPost, InFlight
    <3>2. CASE Deny(r)
      BY <3>2, FlightEnds DEF Deny
    <3> QED
      BY <1>1, <3>1, <3>2
  <2>3. ASSUME NEW p \in Pools PROVE used'[p] <= used[p]
    BY <1>t, <2>1
  <2> QED
    BY <2>1, <2>2, <2>3, PoolShrinks DEF PoolInv
<1>2. CASE Fetch(r)
  <2>1. PoolOK(Pool(r))'
    BY <1>p, <1>2, PoolPosted DEF PoolInv
  <2>2. ASSUME NEW p \in Pools, p # Pool(r) PROVE PoolOK(p)'
    <3>1. used'[p] <= used[p]
      BY <1>2, <1>t, <1>p, <2>2 DEF Fetch
    <3>2. p \in exceeded' <=> p \in exceeded
      BY <1>2, <2>2 DEF Fetch, Pool
    <3>3. InFlight(p)' \subseteq InFlight(p)
      BY <1>2, <1>t, <2>2 DEF Fetch, InFlight
    <3> QED
      BY <2>2, <3>1, <3>2, <3>3, PoolShrinks DEF PoolInv
  <2> QED
    BY <2>1, <2>2 DEF PoolInv
<1>3. CASE RejectUncounted(r)
  <2>1. ReleasePermit(r, "done") /\ exceeded' = exceeded
        /\ used' = [used EXCEPT ![Pool(r)] = @ - PostBody[r]]
    BY <1>3 DEF RejectUncounted, ReleaseBody
  <2>2. ASSUME NEW p \in Pools
        PROVE  used'[p] <= used[p] /\ InFlight(p)' \subseteq InFlight(p)
    <3>1. used'[p] <= used[p]
      <4>1. used[p] \in Int
        BY <1>t
      <4>2. used'[p] = used[p] - PostBody[r] \/ used'[p] = used[p]
        BY <1>t, <2>1
      <4> QED
        BY <1>p, <4>1, <4>2
    <3>2. InFlight(p)' \subseteq InFlight(p)
      BY <2>1, FlightEnds
    <3> QED
      BY <3>1, <3>2
  <2> QED
    BY <2>1, <2>2, PoolShrinks DEF PoolInv
<1>4. CASE Deliver(r)
  <2>1. PICK bytes \in BodySizes :
          /\ CountEgress(r, bytes)
          /\ exceeded' = IF Crosses(r, bytes) THEN exceeded \cup {Pool(r)}
                                              ELSE exceeded
          /\ \E next \in {"answering", "done"} : ReleasePermit(r, next)
    BY <1>4 DEF Deliver
  <2>2. pc[r] = "fetching" /\ used' = [used EXCEPT ![Pool(r)] = @ + bytes]
    BY <1>4, <2>1 DEF Deliver, CountEgress
  <2>3. \A p \in Pools : InFlight(p)' \subseteq InFlight(p) \ {r}
    BY <2>1, FlightEnds
  <2>4. PoolOK(Pool(r))'
    BY <1>p, <2>1, <2>2, <2>3, PoolCharged DEF PoolInv
  <2>5. ASSUME NEW p \in Pools, p # Pool(r) PROVE PoolOK(p)'
    <3>1. used'[p] = used[p] /\ used[p] \in Int
      BY <1>t, <2>2, <2>5
    <3>2. used'[p] <= used[p]
      BY <3>1
    <3>3. p \in exceeded' <=> p \in exceeded
      BY <2>1, <2>5
    <3>4. InFlight(p)' \subseteq InFlight(p)
      BY <2>3
    <3> QED
      BY <2>5, <3>2, <3>3, <3>4, PoolShrinks DEF PoolInv
  <2> QED
    BY <2>4, <2>5 DEF PoolInv
<1>5. ~RejectTruncated(r)
  BY DEF RejectTruncated
<1> QED
  BY <1>1, <1>2, <1>3, <1>4, <1>5 DEF Proceed

LEMMA PoolsBound == TypeOK /\ PermitInv /\ PoolInv => PoolBounded
<1> SUFFICES ASSUME TypeOK, PermitInv, PoolInv PROVE PoolBounded
  OBVIOUS
<1>1. ASSUME NEW p \in Pools PROVE used[p] <= Room(p)
  <2>1. /\ used[p] \in Int /\ Cap[p] \in Nat /\ MaxBytes \in Nat
        /\ PostMaxBytes \in Nat /\ FetchPermits \in Nat
    BY ConstantFacts DEF TypeOK
  <2>2. Cardinality(InFlight(p)) * MaxBytes \in Nat /\ FetchPermits * MaxBytes \in Nat
    BY <2>1, FlightCount, Products
  <2>3. Room(p) \in Nat /\ Room(p) >= Cap[p]
    BY <2>1, <2>2 DEF Room
  <2> QED
    BY <2>1, <2>2, <2>3 DEF PoolInv, PoolOK
<1>2. used["essential"] <= Room("essential") /\ used["other"] <= Room("other")
  BY <1>1 DEF Pools
<1>3. MaxBytes \in Nat /\ FetchPermits \in Nat /\ FetchPermits * MaxBytes \in Nat
  BY ConstantFacts, Products
<1>4. /\ Room("essential") = EssentialCap + PostMaxBytes + FetchPermits * MaxBytes
      /\ Room("other") = MaxBytes + FetchPermits * MaxBytes
  BY <1>3 DEF Room, Cap
<1> QED
  BY <1>2, <1>4 DEF PoolBounded

(* When no body is truncated in transit, the two gates and the permits     *)
(* hold each pool to its cap, one body per fetch permit and one POST body, *)
(* for any page, any caps and any number of permits.                       *)
THEOREM PoolsStayBounded ==
  ASSUME "truncated" \notin Failures
  PROVE  Spec => []PoolBounded
<1>1. Init => PoolInv
  <2>1. \A p \in Pools : Cap[p] \in Nat
    BY ConstantFacts
  <2> QED
    BY <2>1 DEF Init, PoolInv, PoolOK
<1>2. TypeOK /\ TypeOK' /\ PermitInv /\ PermitInv' /\ PoolInv /\ [Next]_vars
        => PoolInv'
  <2> SUFFICES ASSUME TypeOK, TypeOK', PermitInv, PermitInv', PoolInv, [Next]_vars
               PROVE  PoolInv'
    OBVIOUS
  <2>1. CASE \E r \in Requests : Begin(r) \/ Proceed(r)
    BY <2>1, PoolsBegin, PoolsProceed
  <2>2. CASE EndRender \/ UNCHANGED vars
    <3>1. UNCHANGED <<pc, used, exceeded>>
      BY <2>2 DEF EndRender, vars, Sizes
    <3> QED
      BY <3>1 DEF PoolInv, PoolOK, InFlight, Room
  <2> QED
    BY <2>1, <2>2 DEF Next, Closed
<1> QED
  BY <1>1, <1>2, PermitsInvariant, PoolsBound, PTL DEF Spec

----------------------------------------------------------------------------
(* The POST permits.  Only a blocked resource awaits the URL guard, and    *)
(* only a POST's handler still holds something while its answer is sent.   *)
PostInv ==
  /\ postFree + Cardinality(PostHolders) = PostPermits
  /\ \A r \in Requests : /\ pc[r] = "checking" => Kind[r] = "blocked"
                         /\ pc[r] = "answering" => Kind[r] = "post"

(* A request that leaves its handler, and what it returns on the way out.  *)
LEMMA PostReturned ==
  ASSUME TypeOK, TypeOK', PostInv, NEW r \in Requests,
         pc[r] \notin {"idle", "done"}, pc'[r] = "done",
         \A q \in Requests \ {r} :
           pc[q] \in {"idle", "done"} <=> pc'[q] \in {"idle", "done"},
         postFree' = IF Kind[r] = "post" THEN postFree + 1 ELSE postFree
  PROVE  postFree' + Cardinality(PostHolders') = PostPermits
<1>1. PostHolders \subseteq Requests /\ postFree \in Nat /\ PostPermits \in Nat
  BY ConstantFacts DEF PostHolders, TypeOK
<1>2. Cardinality(PostHolders) \in Nat
      /\ postFree + Cardinality(PostHolders) = PostPermits
  BY <1>1, RequestCount DEF PostInv
<1>3. CASE Kind[r] = "post"
  <2>1. r \in PostHolders /\ PostHolders' = PostHolders \ {r}
    BY <1>3 DEF PostHolders
  <2>2. Cardinality(PostHolders') = Cardinality(PostHolders) - 1
    BY <1>1, <2>1, RequestCount
  <2> QED
    BY <1>1, <1>2, <1>3, <2>2
<1>4. CASE Kind[r] # "post"
  <2>1. PostHolders' = PostHolders
    BY <1>4 DEF PostHolders
  <2> QED
    BY <1>2, <1>4, <2>1
<1> QED
  BY <1>3, <1>4

(* What a hand-off of the fetch permit does to the other handlers.         *)
LEMMA HandOffPcs ==
  ASSUME TypeOK, PermitInv, NEW r \in Requests, pc[r] # "queued",
         NEW next \in {"answering", "done"}, ReleasePermit(r, next)
  PROVE  /\ pc'[r] = next
         /\ \A q \in Requests \ {r} :
              pc'[q] = pc[q] \/ (pc[q] = "queued" /\ pc'[q] = "granted")
<1> DEFINE ws == fetchSem.waiters
<1>1. CASE ws = <<>>
  BY <1>1 DEF ReleasePermit
<1>2. CASE ws # <<>>
  <2>1. ws \in Seq(Requests)
    BY DEF TypeOK
  <2>2. Head(ws) = ws[1] /\ 1 \in DOMAIN ws
    BY <1>2, <2>1, EmptySeq, LenProperties, HeadTailProperties
  <2>3. pc[Head(ws)] = "queued"
    BY <2>2 DEF PermitInv
  <2> QED
    BY <1>2, <2>3 DEF ReleasePermit
<1> QED
  BY <1>1, <1>2

LEMMA PostsBegin ==
  ASSUME TypeOK, TypeOK', PostInv, NEW r \in Requests, Begin(r)
  PROVE  PostInv'
<1>1. /\ PostHolders \subseteq Requests /\ postFree \in Nat /\ PostPermits \in Nat
      /\ pc \in [Requests -> PCs]
  BY ConstantFacts DEF PostHolders, TypeOK
<1>2. Cardinality(PostHolders) \in Nat
      /\ postFree + Cardinality(PostHolders) = PostPermits
  BY <1>1, RequestCount DEF PostInv
<1>3. CASE AbortUnfetched(r) \/ AnswerPreflight(r) \/ CheckBlockedType(r)
  <2>1. postFree' = postFree /\ PostHolders' = PostHolders
    BY <1>1, <1>3 DEF AbortUnfetched, AnswerPreflight, CheckBlockedType, PostHolders
  <2>2. \A q \in Requests : /\ pc'[q] = "checking" => Kind[q] = "blocked"
                            /\ pc'[q] = "answering" => Kind[q] = "post"
    BY <1>1, <1>3 DEF AbortUnfetched, AnswerPreflight, CheckBlockedType, PostInv
  <2> QED
    BY <1>2, <2>1, <2>2 DEF PostInv
<1>4. CASE Acquire(r)
  <2>1. PICK next \in {"granted", "queued"} : pc' = [pc EXCEPT ![r] = next]
    BY <1>4 DEF Acquire
  <2>2. pc[r] = "idle"
        /\ postFree' = IF Kind[r] = "post" THEN postFree - 1 ELSE postFree
    BY <1>4 DEF Acquire
  <2>3. \A q \in Requests : /\ pc'[q] = "checking" => Kind[q] = "blocked"
                            /\ pc'[q] = "answering" => Kind[q] = "post"
    BY <1>1, <2>1 DEF PostInv
  <2>4. CASE Kind[r] = "post"
    <3>1. r \notin PostHolders /\ PostHolders' = PostHolders \cup {r}
      BY <1>1, <2>1, <2>2, <2>4 DEF PostHolders
    <3>2. Cardinality(PostHolders') = Cardinality(PostHolders) + 1
      BY <1>1, <3>1, RequestCount
    <3>3. postFree' + Cardinality(PostHolders') = PostPermits
      BY <1>1, <1>2, <2>2, <2>4, <3>2
    <3> QED
      BY <2>3, <3>3 DEF PostInv
  <2>5. CASE Kind[r] # "post"
    <3>1. PostHolders' = PostHolders
      BY <1>1, <2>1, <2>5 DEF PostHolders
    <3>2. postFree' + Cardinality(PostHolders') = PostPermits
      BY <1>2, <2>2, <2>5, <3>1
    <3> QED
      BY <2>3, <3>2 DEF PostInv
  <2> QED
    BY <2>4, <2>5
<1> QED
  BY <1>3, <1>4 DEF Begin

LEMMA PostsProceed ==
  ASSUME TypeOK, TypeOK', PermitInv, PostInv, NEW r \in Requests, Proceed(r)
  PROVE  PostInv'
<1>1. /\ PostHolders \subseteq Requests /\ postFree \in Nat
      /\ pc \in [Requests -> PCs] /\ pc' \in [Requests -> PCs]
  BY DEF PostHolders, TypeOK
<1>2. postFree + Cardinality(PostHolders) = PostPermits
  BY DEF PostInv
<1>3. CASE AbortBlockedType(r) \/ FinishPost(r)
  <2>1. /\ pc[r] \in {"checking", "answering"} /\ pc' = [pc EXCEPT ![r] = "done"]
        /\ postFree' = IF Kind[r] = "post" THEN postFree + 1 ELSE postFree
    BY <1>3 DEF AbortBlockedType, FinishPost, PostInv
  <2>2. postFree' + Cardinality(PostHolders') = PostPermits
    BY <1>1, <2>1, PostReturned
  <2> QED
    BY <1>1, <2>1, <2>2 DEF PostInv
<1>4. CASE Fetch(r)
  <2>1. /\ pc[r] = "granted" /\ postFree' = postFree
        /\ \E next \in Fetching : pc' = [pc EXCEPT ![r] = next]
    BY <1>4 DEF Fetch, Fetching
  <2>2. PostHolders' = PostHolders
    BY <1>1, <2>1 DEF PostHolders, Fetching
  <2> QED
    BY <1>1, <1>2, <2>1, <2>2 DEF PostInv, Fetching
<1>5. CASE \/ Deny(r) \/ RejectTruncated(r) \/ RejectUncounted(r)
           \/ (Deliver(r) /\ ReleasePermit(r, "done"))
  <2>1. pc[r] \in {"granted"} \cup Fetching /\ ReleasePermit(r, "done")
    BY <1>5 DEF Deny, RejectTruncated, RejectUncounted, Deliver, Fetching
  <2>2. /\ pc'[r] = "done"
        /\ \A q \in Requests \ {r} :
             pc'[q] = pc[q] \/ (pc[q] = "queued" /\ pc'[q] = "granted")
    BY <2>1, HandOffPcs DEF Fetching
  <2>3. postFree' = IF Kind[r] = "post" THEN postFree + 1 ELSE postFree
    <3>1. CASE Deny(r) \/ RejectTruncated(r) \/ RejectUncounted(r)
      BY <3>1 DEF Deny, RejectTruncated, RejectUncounted, ReturnPostPermit
    <3>2. CASE Deliver(r) /\ ReleasePermit(r, "done")
      <4>1. ReturnPostPermit(r)
            \/ (ReleasePermit(r, IF Kind[r] = "post" THEN "answering" ELSE "done")
                /\ UNCHANGED postFree)
        BY <3>2 DEF Deliver
      <4>2. ASSUME Kind[r] = "post", ReleasePermit(r, "answering") PROVE FALSE
        BY <4>2, <2>2 DEF ReleasePermit
      <4> QED
        BY <4>1, <4>2 DEF ReturnPostPermit
    <3> QED
      BY <1>5, <3>1, <3>2
  <2>4. postFree' + Cardinality(PostHolders') = PostPermits
    BY <2>1, <2>2, <2>3, PostReturned DEF Fetching
  <2> QED
    BY <2>2, <2>4 DEF PostInv
<1>6. CASE Deliver(r) /\ ~ReleasePermit(r, "done")
  <2>1. /\ Kind[r] = "post" /\ pc[r] = "fetching" /\ postFree' = postFree
        /\ ReleasePermit(r, "answering")
    BY <1>6 DEF Deliver
  <2>2. /\ pc'[r] = "answering"
        /\ \A q \in Requests \ {r} :
             pc'[q] = pc[q] \/ (pc[q] = "queued" /\ pc'[q] = "granted")
    BY <2>1, HandOffPcs
  <2>3. PostHolders' = PostHolders
    BY <2>1, <2>2 DEF PostHolders
  <2> QED
    BY <1>2, <2>1, <2>2, <2>3 DEF PostInv
<1> QED
  BY <1>3, <1>4, <1>5, <1>6 DEF Proceed

(* Every fetch permit and every POST permit is free or held by exactly one *)
(* request, whichever way the handlers end.                                *)
THEOREM NoPermitLost == Spec => []PermitsConserved
<1>1. Init => PostInv
  <2> SUFFICES ASSUME Init PROVE PostInv
    OBVIOUS
  <2>1. PostHolders = {} /\ postFree = PostPermits
    BY DEF Init, PostHolders
  <2>2. Cardinality(PostHolders) = 0 /\ PostPermits \in Nat
    BY <2>1, FS_EmptySet, ConstantFacts
  <2> QED
    BY <2>1, <2>2 DEF Init, PostInv
<1>2. TypeOK /\ TypeOK' /\ PermitInv /\ PostInv /\ [Next]_vars => PostInv'
  <2> SUFFICES ASSUME TypeOK, TypeOK', PermitInv, PostInv, [Next]_vars
               PROVE  PostInv'
    OBVIOUS
  <2>1. CASE \E r \in Requests : Begin(r) \/ Proceed(r)
    BY <2>1, PostsBegin, PostsProceed
  <2>2. CASE EndRender \/ UNCHANGED vars
    <3>1. UNCHANGED <<pc, postFree>>
      BY <2>2 DEF EndRender, vars
    <3> QED
      BY <3>1 DEF PostInv, PostHolders
  <2> QED
    BY <2>1, <2>2 DEF Next, Closed
<1>3. PermitInv /\ PostInv => PermitsConserved
  BY DEF PermitInv, PostInv, PermitsConserved
<1> QED
  BY <1>1, <1>2, <1>3, PermitsInvariant, PTL DEF Spec

----------------------------------------------------------------------------
(* A blown pool stays blown to every request: no fetch of it starts, those *)
(* that queued before it blew included.                                    *)
THEOREM RegateHolds == Spec => NoFetchAfterExceeded
<1>1. ASSUME TypeOK, PermitInv, [Next]_vars, NEW q \in Requests,
             Pool(q) \in exceeded, pc'[q] \in Fetching
      PROVE  pc[q] \in Fetching
  <2>t. pc \in [Requests -> PCs]
    BY <1>1 DEF TypeOK
  <2>1. ASSUME NEW r \in Requests, Begin(r) PROVE pc[q] \in Fetching
    BY <1>1, <2>1, <2>t
    DEF Begin, AbortUnfetched, AnswerPreflight, CheckBlockedType, Acquire, Fetching
  <2>2. ASSUME NEW r \in Requests, Proceed(r) PROVE pc[q] \in Fetching
    <3>1. CASE AbortBlockedType(r) \/ FinishPost(r)
      BY <1>1, <2>t, <3>1 DEF AbortBlockedType, FinishPost, Fetching
    <3>2. CASE Fetch(r)
      BY <1>1, <2>t, <3>2 DEF Fetch, PostAcquireGate, Fetching
    <3>3. CASE Deny(r) \/ RejectTruncated(r) \/ RejectUncounted(r) \/ Deliver(r)
      <4>1. \E next \in {"answering", "done"} : ReleasePermit(r, next)
        BY <3>3 DEF Deny, RejectTruncated, RejectUncounted, Deliver
      <4> QED
        BY <1>1, <2>t, <4>1 DEF ReleasePermit, Fetching
    <3> QED
      BY <2>2, <3>1, <3>2, <3>3 DEF Proceed
  <2>3. CASE EndRender \/ UNCHANGED vars
    BY <1>1, <2>3 DEF EndRender, vars
  <2> QED
    BY <1>1, <2>1, <2>2, <2>3 DEF Next, Closed
<1>2. TypeOK /\ PermitInv /\ [Next]_vars =>
        [\A r \in Requests :
           Pool(r) \in exceeded /\ pc'[r] \in Fetching => pc[r] \in Fetching]_vars
  BY <1>1
<1> QED
  BY <1>2, PermitsInvariant, PTL DEF Spec, NoFetchAfterExceeded

----------------------------------------------------------------------------
(* The egress.  What a fetch may still move that no pool has been charged   *)
(* for is at most one body; what the pools were charged for bodies of POSTs *)
(* is given back, or has moved, when the fetch ends.                        *)
Bodies == [r \in Requests |-> InFlightBodies(r)]
Owed == [r \in Requests |-> IF pc[r] = "fetching" THEN PostBody[r] + MaxBytes ELSE 0]
Charged == used["essential"] + used["other"]

Unmoved ==
  /\ \A r \in Requests : pc[r] \notin {"answering", "done"} => moved[r] = 0
  /\ \A r \in Requests : pc[r] = "doomed" => teardown
Told ==
  IF teardown THEN SumFunction(moved) + SumFunction(Owed) <= reported + FetchPermits * MaxBytes
  ELSE /\ Charged = SumFunction(moved) + SumFunction(Bodies)
       /\ \A r \in Requests : moved[r] > 0 => r \in egressHosts
EgressInv == Unmoved /\ Told

EgressFacts ==
  /\ Bodies \in [Requests -> Int] /\ Owed \in [Requests -> Int]
  /\ moved \in [Requests -> Int] /\ Charged \in Int /\ reported \in Int
  /\ SumFunction(Bodies) \in Int /\ SumFunction(moved) \in Int
  /\ SumFunction(Owed) \in Int /\ SumFunction(Owed) >= 0
  /\ FetchPermits * MaxBytes \in Nat

LEMMA EgressTypes == TypeOK => EgressFacts
<1> SUFFICES ASSUME TypeOK PROVE EgressFacts
  OBVIOUS
<1>1. \A r \in Requests : PostBody[r] \in Nat /\ MaxBytes \in Nat
  BY ConstantFacts
<1>2. \A r \in Requests : Owed[r] \in Int /\ Owed[r] >= 0 /\ InFlightBodies(r) \in Int
  BY <1>1 DEF Owed, InFlightBodies
<1>3. Bodies \in [Requests -> Int] /\ Owed \in [Requests -> Int]
  BY <1>2 DEF Bodies, Owed
<1>4. /\ moved \in [Requests -> Int] /\ reported \in Int
      /\ used["essential"] \in Int /\ used["other"] \in Int
  BY DEF TypeOK, Pools
<1>5. FetchPermits * MaxBytes \in Nat
  BY ConstantFacts
<1>6. SumFunction(Bodies) \in Int /\ SumFunction(moved) \in Int /\ SumFunction(Owed) \in Int
  BY <1>3, <1>4, RenderAssumption, SumType
<1>7. SumFunction(Owed) >= 0
  BY <1>2, <1>3, RenderAssumption, SumType
<1> QED  BY <1>3, <1>4, <1>5, <1>6, <1>7 DEF EgressFacts, Charged

LEMMA EgressTypesNext == TypeOK' => EgressFacts'
BY EgressTypes, PTL

(* One request's fetch begins or ends, and the others go on.                *)
OthersGoOn(r) ==
  \A q \in Requests \ {r} : /\ pc'[q] \in Fetching <=> pc[q] \in Fetching
                            /\ pc'[q] = "fetching" <=> pc[q] = "fetching"
                            /\ pc'[q] \in {"answering", "done"} <=> pc[q] \in {"answering", "done"}
                            /\ pc'[q] = "doomed" => pc[q] = "doomed"

LEMMA FlightSums ==
  ASSUME TypeOK, TypeOK', NEW r \in Requests, OthersGoOn(r)
  PROVE  /\ SumFunction(Bodies)' = SumFunction(Bodies) + InFlightBodies(r)' - InFlightBodies(r)
         /\ SumFunction(Owed)' = SumFunction(Owed) + Owed'[r] - Owed[r]
<1>1. /\ Bodies \in [Requests -> Int] /\ Owed \in [Requests -> Int]
      /\ Bodies' \in [Requests -> Int] /\ Owed' \in [Requests -> Int]
  BY EgressTypes, EgressTypesNext DEF EgressFacts
<1>2. \A q \in Requests \ {r} : Bodies'[q] = Bodies[q] /\ Owed'[q] = Owed[q]
  BY DEF OthersGoOn, Bodies, Owed, InFlightBodies
<1>3. SumFunction(Bodies') = SumFunction(Bodies) + Bodies'[r] - Bodies[r]
  BY <1>1, <1>2, RenderAssumption, SumUpdate
<1>4. SumFunction(Owed') = SumFunction(Owed) + Owed'[r] - Owed[r]
  BY <1>1, <1>2, RenderAssumption, SumUpdate
<1>5. Bodies'[r] = InFlightBodies(r)' /\ Bodies[r] = InFlightBodies(r)
  BY DEF Bodies
<1> QED  BY <1>3, <1>4, <1>5

LEMMA MovedSum ==
  ASSUME TypeOK, NEW r \in Requests, moved[r] = 0, NEW v \in Nat,
         moved' = [moved EXCEPT ![r] = v]
  PROVE  SumFunction(moved)' = SumFunction(moved) + v
<1>1. moved \in [Requests -> Int] /\ moved' \in [Requests -> Int] /\ moved'[r] = v
  BY DEF TypeOK
<1>2. \A q \in Requests \ {r} : moved'[q] = moved[q]
  BY DEF TypeOK
<1>3. ASSUME NEW f \in [Requests -> Int], NEW h \in [Requests -> Int],
             \A q \in Requests \ {r} : h[q] = f[q]
      PROVE  SumFunction(h) = SumFunction(f) + h[r] - f[r]
  BY <1>3, RenderAssumption, SumUpdate
<1>5. SumFunction(moved') = SumFunction(moved) + moved'[r] - moved[r]
  BY <1>1, <1>2, <1>3
<1>4. SumFunction(moved) \in Int
  BY EgressTypes DEF EgressFacts
<1> QED  BY <1>1, <1>5, <1>4

LEMMA ChargedBy ==
  ASSUME TypeOK, NEW r \in Requests, NEW d \in Int,
         used' = [used EXCEPT ![Pool(r)] = @ + d]
  PROVE  Charged' = Charged + d
<1>1. used \in [Pools -> Int] /\ Pool(r) \in Pools
  BY ConstantFacts DEF TypeOK
<1>2. CASE Pool(r) = "essential"
  BY <1>1, <1>2 DEF Charged, Pools
<1>3. CASE Pool(r) = "other"
  BY <1>1, <1>3 DEF Charged, Pools
<1> QED  BY <1>1, <1>2, <1>3 DEF Pools

(* A hand-off moves its request out of the fetch, and a waiter towards it.  *)
LEMMA HandOffGoesOn ==
  ASSUME TypeOK, PermitInv, NEW r \in Requests, r \in FetchHolders,
         NEW next \in {"answering", "done"}, ReleasePermit(r, next)
  PROVE  OthersGoOn(r) /\ pc'[r] = next
<1>1. pc'[r] = next
  BY DEF ReleasePermit, TypeOK
<1>2. \A q \in Requests \ {r} : pc'[q] = pc[q] \/ (pc[q] = "queued" /\ pc'[q] = "granted")
  <2>1. CASE fetchSem.waiters = <<>>
    BY <2>1 DEF ReleasePermit, TypeOK
  <2>2. CASE fetchSem.waiters # <<>>
    <3>1. fetchSem.waiters \in Seq(Requests)
      BY DEF TypeOK
    <3>2. 1 \in DOMAIN fetchSem.waiters /\ Head(fetchSem.waiters) = fetchSem.waiters[1]
      BY <3>1, <2>2
    <3>3. pc[Head(fetchSem.waiters)] = "queued"
      BY <3>2 DEF PermitInv
    <3> QED  BY <3>3, <2>2 DEF ReleasePermit, TypeOK
  <2> QED  BY <2>1, <2>2
<1> QED  BY <1>1, <1>2 DEF OthersGoOn, Fetching

(* A step of a handler that moves nothing and charges nothing.              *)
LEMMA QuietEgress ==
  ASSUME TypeOK, TypeOK', EgressInv, NEW r \in Requests, OthersGoOn(r),
         pc[r] \notin Fetching, pc'[r] \notin Fetching,
         pc[r] \in {"answering", "done"} => pc'[r] \in {"answering", "done"},
         UNCHANGED <<used, moved, egressHosts, teardown, reported>>
  PROVE  EgressInv'
<1>1. SumFunction(Bodies)' = SumFunction(Bodies) /\ SumFunction(Owed)' = SumFunction(Owed)
  <2>1. InFlightBodies(r)' = 0 /\ InFlightBodies(r) = 0 /\ Owed'[r] = 0 /\ Owed[r] = 0
    BY DEF InFlightBodies, Owed, Fetching
  <2>2. SumFunction(Bodies) \in Int /\ SumFunction(Owed) \in Int
    BY EgressTypes DEF EgressFacts
  <2>3. /\ SumFunction(Bodies)' = SumFunction(Bodies) + InFlightBodies(r)' - InFlightBodies(r)
        /\ SumFunction(Owed)' = SumFunction(Owed) + Owed'[r] - Owed[r]
    BY FlightSums
  <2> QED  BY <2>1, <2>2, <2>3
<1>2. Unmoved'
  BY DEF Unmoved, EgressInv, OthersGoOn, Fetching
<1>3. SumFunction(moved)' = SumFunction(moved) /\ Charged' = Charged
  BY DEF Charged
<1>4. Told'
  BY <1>1, <1>3 DEF Told, EgressInv
<1> QED  BY <1>2, <1>4 DEF EgressInv

LEMMA BeginEgress ==
  ASSUME TypeOK, TypeOK', EgressInv, NEW r \in Requests, Begin(r)
  PROVE  EgressInv'
<1>1. /\ pc[r] = "idle" /\ \A q \in Requests \ {r} : pc'[q] = pc[q]
      /\ pc'[r] \in {"done", "checking", "granted", "queued"}
      /\ UNCHANGED <<used, moved, egressHosts, teardown, reported>>
  <2>1. CASE AbortUnfetched(r)
    BY <2>1 DEF AbortUnfetched, TypeOK, Sizes, Outcome
  <2>2. CASE AnswerPreflight(r)
    BY <2>2 DEF AnswerPreflight, TypeOK, Sizes, Outcome
  <2>3. CASE CheckBlockedType(r)
    BY <2>3 DEF CheckBlockedType, TypeOK, Sizes, Outcome
  <2>4. CASE Acquire(r)
    BY <2>4 DEF Acquire, TypeOK, Sizes, Outcome
  <2> QED  BY <2>1, <2>2, <2>3, <2>4 DEF Begin
<1>2. OthersGoOn(r)
  BY <1>1 DEF OthersGoOn
<1>3. pc[r] \notin Fetching /\ pc'[r] \notin Fetching
  BY <1>1 DEF Fetching
<1>4. pc[r] \notin {"answering", "done"}
  BY <1>1
<1> QED  BY <1>1, <1>2, <1>3, <1>4, QuietEgress

(* A fetch begins: the pool is charged the body that will be sent.          *)
LEMMA FetchEgress ==
  ASSUME TypeOK, TypeOK', EgressInv, NEW r \in Requests, Fetch(r)
  PROVE  EgressInv'
<1>1. /\ pc[r] = "granted" /\ \A q \in Requests \ {r} : pc'[q] = pc[q]
      /\ pc'[r] = (IF teardown THEN "doomed" ELSE "fetching")
      /\ UNCHANGED <<moved, egressHosts, teardown, reported>>
      /\ used' = [used EXCEPT ![Pool(r)] = @ + PostBody[r]]
  BY DEF Fetch, TypeOK, Outcome
<1>2. OthersGoOn(r)
  BY <1>1 DEF OthersGoOn
<1>3. PostBody[r] \in Int
  BY ConstantFacts
<1>4. Charged' = Charged + PostBody[r]
  BY <1>1, <1>3, ChargedBy
<1>5. InFlightBodies(r)' = PostBody[r] /\ InFlightBodies(r) = 0 /\ Owed[r] = 0
      /\ (teardown => Owed'[r] = 0)
  BY <1>1 DEF InFlightBodies, Owed, Fetching
<1>6. /\ SumFunction(Bodies)' = SumFunction(Bodies) + InFlightBodies(r)' - InFlightBodies(r)
      /\ SumFunction(Owed)' = SumFunction(Owed) + Owed'[r] - Owed[r]
  BY <1>2, FlightSums
<1>7. Unmoved'
  BY <1>1, <1>2 DEF Unmoved, EgressInv, OthersGoOn
<1>8. SumFunction(moved)' = SumFunction(moved)
  BY <1>1
<1>9. /\ SumFunction(Bodies) \in Int /\ SumFunction(moved) \in Int
      /\ SumFunction(Owed) \in Int /\ Charged \in Int
  BY EgressTypes DEF EgressFacts
<1>10. Told'
  <2>1. CASE teardown
    <3>1. SumFunction(Owed)' = SumFunction(Owed)
      BY <1>5, <1>6, <1>9, <2>1
    <3> QED  BY <1>1, <1>8, <2>1, <3>1 DEF Told, EgressInv
  <2>2. CASE ~teardown
    <3>1. Charged' = SumFunction(moved)' + SumFunction(Bodies)'
      <4>1. Charged = SumFunction(moved) + SumFunction(Bodies)
        BY <2>2 DEF Told, EgressInv
      <4> QED  BY <1>3, <1>4, <1>5, <1>6, <1>8, <1>9, <4>1
    <3> QED  BY <1>1, <2>2, <3>1 DEF Told, EgressInv
  <2> QED  BY <2>1, <2>2
<1> QED  BY <1>7, <1>10 DEF EgressInv

(* A fetch ends having moved v bytes, d of them charged now.  While the     *)
(* render runs, what was charged for its body and d are what it moved.      *)
LEMMA FetchEnds ==
  ASSUME TypeOK, TypeOK', EgressInv, NEW r \in Requests, OthersGoOn(r),
         pc[r] \in Fetching, pc'[r] \in {"answering", "done"},
         NEW v \in Nat, moved' = [moved EXCEPT ![r] = v],
         v <= PostBody[r] + MaxBytes, pc[r] = "doomed" => v = 0,
         NEW d \in Int, used' = [used EXCEPT ![Pool(r)] = @ + d],
         ~teardown => PostBody[r] + d = v,
         ~teardown /\ v > 0 => r \in egressHosts', egressHosts \subseteq egressHosts',
         UNCHANGED <<teardown, reported>>
  PROVE  EgressInv'
<1>0. moved[r] = 0
  BY DEF EgressInv, Unmoved, Fetching
<1>1. SumFunction(moved)' = SumFunction(moved) + v
  BY <1>0, MovedSum
<1>2. Charged' = Charged + d
  BY ChargedBy
<1>3. /\ SumFunction(Bodies)' = SumFunction(Bodies) + InFlightBodies(r)' - InFlightBodies(r)
      /\ SumFunction(Owed)' = SumFunction(Owed) + Owed'[r] - Owed[r]
  BY FlightSums
<1>4. PostBody[r] \in Nat /\ MaxBytes \in Nat
  BY ConstantFacts
<1>5. InFlightBodies(r)' = 0 /\ InFlightBodies(r) = PostBody[r] /\ Owed'[r] = 0
  BY DEF InFlightBodies, Owed, Fetching
<1>6. Owed[r] >= v /\ Owed[r] \in Int
  BY <1>4 DEF Owed, Fetching
<1>7. /\ SumFunction(Bodies) \in Int /\ SumFunction(moved) \in Int
      /\ SumFunction(Owed) \in Int /\ Charged \in Int /\ reported \in Int
      /\ FetchPermits * MaxBytes \in Nat
  BY EgressTypes DEF EgressFacts
<1>8. Unmoved'
  <2>1. \A q \in Requests \ {r} : moved'[q] = moved[q]
    BY DEF TypeOK
  <2> QED  BY <2>1 DEF Unmoved, EgressInv, OthersGoOn
<1>9. Told'
  <2>1. CASE teardown
    <3>1. SumFunction(moved) + SumFunction(Owed) <= reported + FetchPermits * MaxBytes
      BY <2>1 DEF Told, EgressInv
    <3>2. SumFunction(moved)' + SumFunction(Owed)' <= reported + FetchPermits * MaxBytes
      BY <1>1, <1>3, <1>5, <1>6, <1>7, <3>1
    <3> QED  BY <2>1, <3>2 DEF Told
  <2>2. CASE ~teardown
    <3>1. Charged' = SumFunction(moved)' + SumFunction(Bodies)'
      <4>1. Charged = SumFunction(moved) + SumFunction(Bodies)
        BY <2>2 DEF Told, EgressInv
      <4> QED  BY <1>1, <1>2, <1>3, <1>4, <1>5, <1>7, <2>2, <4>1
    <3>2. \A q \in Requests : moved'[q] > 0 => q \in egressHosts'
      BY <2>2 DEF Told, EgressInv, TypeOK
    <3> QED  BY <2>2, <3>1, <3>2 DEF Told
  <2> QED  BY <2>1, <2>2
<1> QED  BY <1>8, <1>9 DEF EgressInv

LEMMA RejectEgress ==
  ASSUME TypeOK, TypeOK', PermitInv, EgressInv, "cut" \notin Failures,
         NEW r \in Requests, RejectTruncated(r) \/ RejectUncounted(r)
  PROVE  EgressInv'
<1>1. ReleasePermit(r, "done") /\ pc[r] \in Fetching
  BY DEF RejectTruncated, RejectUncounted, Fetching
<1>2. r \in FetchHolders
  BY <1>1 DEF FetchHolders
<1>3. OthersGoOn(r) /\ pc'[r] = "done"
  BY <1>1, <1>2, HandOffGoesOn
<1>4. pc'[r] \in {"answering", "done"} /\ UNCHANGED <<teardown, reported>>
  BY <1>3 DEF RejectTruncated, RejectUncounted
<1>5. CASE RejectTruncated(r)
  <2>1. pc[r] # "doomed"
    BY <1>5 DEF RejectTruncated
  <2>2. PICK bytes \in BodySizes : CountEgress(r, bytes)
    BY <1>5 DEF RejectTruncated
  <2>3. /\ bytes \in Nat /\ bytes <= MaxBytes /\ MaxBytes \in Nat
        /\ PostBody[r] \in Nat /\ bytes \in Int
    BY ConstantFacts
  <2>4. /\ used' = [used EXCEPT ![Pool(r)] = @ + bytes]
        /\ moved' = [moved EXCEPT ![r] = PostBody[r] + bytes]
        /\ r \in egressHosts' /\ egressHosts \subseteq egressHosts'
    BY <2>2 DEF CountEgress
  <2>5. PostBody[r] + bytes \in Nat /\ PostBody[r] + bytes <= PostBody[r] + MaxBytes
    BY <2>3
  <2> QED  BY <1>1, <1>3, <1>4, <2>1, <2>3, <2>4, <2>5, FetchEnds
<1>6. CASE RejectUncounted(r)
  <2>1. /\ used' = [used EXCEPT ![Pool(r)] = @ - PostBody[r]]
        /\ egressHosts' = egressHosts
    BY <1>6 DEF RejectUncounted, ReleaseBody
  <2>2. PostBody[r] \in Nat /\ MaxBytes \in Nat
    BY ConstantFacts
  <2> DEFINE n == 0 - PostBody[r]
  <2>n. n \in Int /\ PostBody[r] + n = 0 /\ \A u \in Int : u - PostBody[r] = u + n
    BY <2>2
  <2> HIDE DEF n
  <2>3. used' = [used EXCEPT ![Pool(r)] = @ + n]
    <3>1. used \in [Pools -> Int] /\ Pool(r) \in Pools
      BY ConstantFacts DEF TypeOK
    <3>2. used[Pool(r)] - PostBody[r] = used[Pool(r)] + n
      BY <2>n, <3>1
    <3> QED  BY <2>1, <3>2
  <2>4. CASE UNCHANGED moved
    <3>0. PICK v \in Nat : v = 0
      OBVIOUS
    <3>1. moved' = [moved EXCEPT ![r] = v]
      BY <3>0, <1>1, <2>4 DEF EgressInv, Unmoved, Fetching, TypeOK
    <3>2. v <= PostBody[r] + MaxBytes /\ PostBody[r] + n = v /\ ~(v > 0)
      BY <3>0, <2>2, <2>n
    <3> QED  BY <1>1, <1>3, <1>4, <2>1, <2>n, <2>3, <3>0, <3>1, <3>2, FetchEnds
  <2>5. CASE /\ pc[r] = "fetching" /\ teardown
             /\ \E bytes \in BodySizes : moved' = [moved EXCEPT ![r] = PostBody[r] + bytes]
    <3>1. PICK bytes \in BodySizes : moved' = [moved EXCEPT ![r] = PostBody[r] + bytes]
      BY <2>5
    <3>2. bytes \in Nat /\ bytes <= MaxBytes
      BY ConstantFacts
    <3>3. PostBody[r] + bytes \in Nat /\ PostBody[r] + bytes <= PostBody[r] + MaxBytes
      BY <2>2, <3>2
    <3>4. pc[r] # "doomed"
      BY <2>5
    <3> QED  BY <1>1, <1>3, <1>4, <2>1, <2>n, <2>3, <2>5, <3>1, <3>3, <3>4, FetchEnds
  <2> QED  BY <1>6, <2>4, <2>5 DEF RejectUncounted
<1> QED  BY <1>5, <1>6

LEMMA DeliverEgress ==
  ASSUME TypeOK, TypeOK', PermitInv, EgressInv, NEW r \in Requests, Deliver(r)
  PROVE  EgressInv'
<1>1. PICK bytes \in BodySizes : /\ CountEgress(r, bytes)
                                 /\ \E next \in {"answering", "done"} : ReleasePermit(r, next)
  BY DEF Deliver
<1>2. /\ pc[r] = "fetching" /\ pc[r] \in Fetching /\ pc[r] # "doomed"
      /\ UNCHANGED <<teardown, reported>>
  BY DEF Deliver, Fetching
<1>3. r \in FetchHolders
  BY <1>2 DEF FetchHolders
<1>4. OthersGoOn(r) /\ pc'[r] \in {"answering", "done"}
  BY <1>1, <1>3, HandOffGoesOn
<1>5. /\ bytes \in Nat /\ bytes <= MaxBytes /\ MaxBytes \in Nat
      /\ PostBody[r] \in Nat /\ bytes \in Int
  BY ConstantFacts
<1>6. /\ used' = [used EXCEPT ![Pool(r)] = @ + bytes]
      /\ moved' = [moved EXCEPT ![r] = PostBody[r] + bytes]
      /\ r \in egressHosts' /\ egressHosts \subseteq egressHosts'
  BY <1>1 DEF CountEgress
<1>7. PostBody[r] + bytes \in Nat /\ PostBody[r] + bytes <= PostBody[r] + MaxBytes
  BY <1>5
<1> QED  BY <1>2, <1>4, <1>5, <1>6, <1>7, FetchEnds

LEMMA ProceedEgress ==
  ASSUME TypeOK, TypeOK', PermitInv, EgressInv, "cut" \notin Failures,
         NEW r \in Requests, Proceed(r)
  PROVE  EgressInv'
<1>1. CASE AbortBlockedType(r) \/ FinishPost(r)
  <2>1. /\ pc[r] \in {"checking", "answering"} /\ pc'[r] = "done"
        /\ \A q \in Requests \ {r} : pc'[q] = pc[q]
        /\ UNCHANGED <<used, moved, egressHosts, teardown, reported>>
    BY <1>1 DEF AbortBlockedType, FinishPost, TypeOK, Sizes, Outcome
  <2>2. OthersGoOn(r)
    BY <2>1 DEF OthersGoOn
  <2>3. pc[r] \notin Fetching /\ pc'[r] \notin Fetching /\ pc'[r] \in {"answering", "done"}
    BY <2>1 DEF Fetching
  <2> QED  BY <2>1, <2>2, <2>3, QuietEgress
<1>2. CASE Deny(r)
  <2>1. /\ pc[r] = "granted" /\ ReleasePermit(r, "done")
        /\ UNCHANGED <<used, moved, egressHosts, teardown, reported>>
    BY <1>2 DEF Deny, Sizes, Outcome
  <2>2. r \in FetchHolders
    BY <2>1 DEF FetchHolders
  <2>3. OthersGoOn(r) /\ pc'[r] = "done"
    BY <2>1, <2>2, HandOffGoesOn
  <2>4. pc[r] \notin Fetching /\ pc'[r] \notin Fetching /\ pc'[r] \in {"answering", "done"}
    BY <2>1, <2>3 DEF Fetching
  <2> QED  BY <2>1, <2>3, <2>4, QuietEgress
<1> QED  BY <1>1, <1>2, FetchEgress, RejectEgress, DeliverEgress DEF Proceed

(* The report is taken when the fetches in flight are at most as many as    *)
(* the permits.                                                             *)
LEMMA EndEgress ==
  ASSUME TypeOK, TypeOK', PermitInv, EgressInv, EndRender
  PROVE  EgressInv'
<1>1. /\ ~teardown /\ teardown' /\ reported' = Charged
      /\ UNCHANGED <<pc, used, moved, egressHosts>>
  BY DEF EndRender, Sizes, Charged
<1> DEFINE Flying == {r \in Requests : pc[r] = "fetching"}
<1>2. Flying \subseteq FetchHolders /\ Flying \subseteq Requests /\ FetchHolders \subseteq Requests
  BY DEF FetchHolders, Fetching
<1>3. /\ Cardinality(Flying) \in Nat /\ Cardinality(FetchHolders) \in Nat
      /\ Cardinality(Flying) <= Cardinality(FetchHolders)
  BY <1>2, RequestCount
<1>4. Cardinality(Flying) <= FetchPermits /\ FetchPermits \in Nat /\ MaxBytes \in Nat
  BY <1>3, ConstantFacts DEF TypeOK, PermitInv
<1>5. Cardinality(Flying) * MaxBytes <= FetchPermits * MaxBytes
      /\ Cardinality(Flying) * MaxBytes \in Nat
  BY <1>3, <1>4, Products
<1>6. SumFunction(Owed) = SumFunction(Bodies) + Cardinality(Flying) * MaxBytes
  <2>1. Bodies \in [Requests -> Int] /\ Owed \in [Requests -> Int]
    BY EgressTypes DEF EgressFacts
  <2>2. \A r \in Requests : Owed[r] = Bodies[r] + (IF r \in Flying THEN MaxBytes ELSE 0)
    <3> SUFFICES ASSUME NEW r \in Requests
                 PROVE  Owed[r] = Bodies[r] + (IF r \in Flying THEN MaxBytes ELSE 0)
      OBVIOUS
    <3>1. pc[r] # "doomed"
      BY <1>1 DEF EgressInv, Unmoved
    <3>2. PostBody[r] \in Nat /\ MaxBytes \in Nat
      BY ConstantFacts
    <3> QED  BY <3>1, <3>2 DEF Owed, Bodies, InFlightBodies, Fetching
  <2> HIDE DEF Flying
  <2> QED  BY <1>2, <1>4, <2>1, <2>2, RenderAssumption, SumShift
<1>7. Charged = SumFunction(moved) + SumFunction(Bodies)
  BY <1>1 DEF EgressInv, Told
<1>8. /\ SumFunction(Bodies) \in Int /\ SumFunction(moved) \in Int
      /\ SumFunction(Owed) \in Int /\ Charged \in Int
      /\ FetchPermits * MaxBytes \in Nat
  BY EgressTypes DEF EgressFacts
<1>9. SumFunction(moved) + SumFunction(Owed) <= reported' + FetchPermits * MaxBytes
  <2> HIDE DEF Flying
  <2> QED  BY <1>1, <1>5, <1>6, <1>7, <1>8
<1>10. SumFunction(Owed)' = SumFunction(Owed) /\ SumFunction(moved)' = SumFunction(moved)
  BY <1>1 DEF Owed
<1>11. Told'
  BY <1>1, <1>9, <1>10 DEF Told
<1>12. Unmoved'
  BY <1>1 DEF EgressInv, Unmoved
<1> QED  BY <1>11, <1>12 DEF EgressInv

(* While a render runs, its pools hold exactly what moved and the bodies of *)
(* the POSTs in flight, and the host of everything that moved is noted; the *)
(* report at its end misses one body per permit at most (the outcome and   *)
(* the finally of PlaywrightRenderer.render).  It assumes that no fetch is  *)
(* cut by a timer of its own: what such a fetch moved is in no pool.        *)
THEOREM EgressIsAccounted ==
  ASSUME "cut" \notin Failures
  PROVE  Spec => []EgressAccounted
<1>1. Init => EgressInv
  <2> SUFFICES ASSUME Init PROVE EgressInv
    OBVIOUS
  <2>1. Unmoved
    BY DEF Init, Unmoved
  <2>2. moved \in [Requests -> Int] /\ Bodies \in [Requests -> Int]
        /\ \A r \in Requests : moved[r] = 0 /\ Bodies[r] = 0
    BY DEF Init, Bodies, InFlightBodies, Fetching
  <2>3. SumFunction(moved) = 0 /\ SumFunction(Bodies) = 0
    BY <2>2, RenderAssumption, SumType
  <2>4. Charged = 0
    BY DEF Init, Charged, Pools
  <2>5. Told
    BY <2>2, <2>3, <2>4 DEF Init, Told
  <2> QED  BY <2>1, <2>5 DEF EgressInv
<1>2. TypeOK /\ TypeOK' /\ PermitInv /\ EgressInv /\ [Next]_vars => EgressInv'
  <2> SUFFICES ASSUME TypeOK, TypeOK', PermitInv, EgressInv, [Next]_vars PROVE EgressInv'
    OBVIOUS
  <2>1. CASE UNCHANGED vars
    BY <2>1 DEF vars, EgressInv, Unmoved, Told, Charged, Owed, Bodies, InFlightBodies
  <2> QED  BY <2>1, BeginEgress, ProceedEgress, EndEgress DEF Next, Closed
<1>3. TypeOK /\ EgressInv => EgressAccounted
  <2> SUFFICES ASSUME TypeOK, EgressInv PROVE EgressAccounted
    OBVIOUS
  <2>1. /\ SumFunction(moved) \in Int /\ SumFunction(Owed) \in Int /\ SumFunction(Owed) >= 0
        /\ reported \in Int /\ FetchPermits * MaxBytes \in Nat
    BY EgressTypes DEF EgressFacts
  <2> QED  BY <2>1 DEF EgressInv, Told, EgressAccounted, Charged, Bodies
<1> QED
  BY <1>1, <1>2, <1>3, PermitsInvariant, PTL DEF Spec
=============================================================================
