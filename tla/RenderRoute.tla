----------------------------- MODULE RenderRoute -----------------------------
(***************************************************************************)
(* One Tier-3 render as its requests see it: every request the page makes  *)
(* is intercepted, resolved through the guarded fetcher under a fetch      *)
(* semaphore, charged to one of two byte pools, and fulfilled or aborted.  *)
(*                                                                         *)
(* An action is one synchronous block of RenderRouteState.handle.  Taking  *)
(* a permit and continuing with it are separate blocks, so other requests' *)
(* blocks run in between, which is why the code gates twice.               *)
(***************************************************************************)
EXTENDS Integers, Sequences, FiniteSets, Functions

CONSTANTS
  Requests,        \* the requests the page may make
  Kind,            \* Kind[r]: what handle makes of the request
  PostBody,        \* PostBody[r]: bytes of a POST's body, 0 for the others
  FetchPermits,    \* RENDER_FETCH_CONCURRENCY
  PostPermits,     \* config.render.postConcurrency()
  EssentialCap,    \* ESSENTIAL_RENDER_BYTES
  MaxBytes,        \* input.maxBytes
  PostMaxBytes,    \* min(postMaxBytes, maxBytes)
  BodySizes,       \* sizes of response bodies
  Failures         \* ways a fetch can fail, see Reject

Kinds ==
  {"navigation",   \* main-frame document
   "essential",    \* script, fetch, xhr, subframe document
   "other",        \* stylesheets and the rest
   "post",         \* first-party POST within the declared and real body cap
   "preflight",    \* first-party OPTIONS
   "refused",      \* any other method, or a POST that may not be forwarded
   "blocked"}      \* image, font, media, ad or tracker

ASSUME RenderAssumption ==
  /\ IsFiniteSet(Requests)
  /\ Kind \in [Requests -> Kinds]
  /\ FetchPermits \in Nat \ {0} /\ PostPermits \in Nat \ {0}
  /\ EssentialCap \in Nat /\ MaxBytes \in Nat \ {0}
  /\ PostMaxBytes \in 0..MaxBytes
  /\ PostBody \in [Requests -> 0..PostMaxBytes]
  /\ \A r \in Requests : Kind[r] # "post" => PostBody[r] = 0
  /\ BodySizes \subseteq 0..MaxBytes /\ 0 \in BodySizes
  /\ Failures \subseteq {"refused", "cut", "truncated"}

VARIABLES
  pc,           \* where each request's handler is suspended
  fetchSem,     \* AsyncSemaphore(RENDER_FETCH_CONCURRENCY)
  postFree,     \* Semaphore(postConcurrency).available
  used,         \* bytes charged to each pool
  exceeded,     \* the pools that are blown
  egressHosts,  \* requests whose hosts are noted as egress
  actions,      \* requests recorded in the render's provenance
  answer,       \* what the browser was told
  fatal,        \* a main-frame navigation was rejected
  provenance,   \* the navigation (if any yet) that owns status and finalUrl
  teardown,     \* the render has its outcome and is closing the page
  reported,     \* egressBytes of that outcome
  moved         \* history: bytes each request really moved

vars == <<pc, fetchSem, postFree, used, exceeded, egressHosts, actions, answer,
          fatal, provenance, teardown, reported, moved>>

Pools == {"essential", "other"}
Pool(r) == IF Kind[r] = "other" THEN "other" ELSE "essential"
Cap == [essential |-> EssentialCap, other |-> MaxBytes]
Fetched == {"navigation", "essential", "other", "post"}
Fetching == {"fetching", "doomed"}
PCs == {"idle", "checking", "queued", "granted", "answering", "done"} \cup Fetching

TypeOK ==
  /\ pc \in [Requests -> PCs]
  /\ fetchSem \in [available : Nat, waiters : Seq(Requests)]
  /\ postFree \in Nat
  /\ used \in [Pools -> Int]
  /\ exceeded \subseteq Pools
  /\ egressHosts \subseteq Requests
  /\ actions \subseteq Requests
  /\ answer \in [Requests -> {"none", "fulfilled", "aborted"}]
  /\ fatal \in BOOLEAN
  /\ provenance \subseteq Requests
  /\ teardown \in BOOLEAN
  /\ reported \in Int
  /\ moved \in [Requests -> Nat]

Init ==
  /\ pc = [r \in Requests |-> "idle"]
  /\ fetchSem = [available |-> FetchPermits, waiters |-> <<>>]
  /\ postFree = PostPermits
  /\ used = [p \in Pools |-> 0]
  /\ exceeded = {}
  /\ egressHosts = {} /\ actions = {}
  /\ answer = [r \in Requests |-> "none"]
  /\ fatal = FALSE /\ provenance = {}
  /\ teardown = FALSE /\ reported = 0
  /\ moved = [r \in Requests |-> 0]

----------------------------------------------------------------------------
Sizes == <<used, exceeded, egressHosts, moved>>
Outcome == <<fatal, provenance, teardown, reported>>

(* Mutant: the permit is lost when somebody waits. *)
ReleasePermit_Lost(r, next) ==
  /\ fetchSem' = IF fetchSem.waiters = <<>>
                   THEN [fetchSem EXCEPT !.available = @ + 1]
                   ELSE [fetchSem EXCEPT !.waiters = Tail(@)]
  /\ pc' = [pc EXCEPT ![r] = next]

(* Mutant: the permit goes to the one who came last. *)
ReleasePermit_Latest(r, next) ==
  LET last  == Len(fetchSem.waiters)
      heirs == IF last = 0 THEN {} ELSE {fetchSem.waiters[last]}
  IN /\ fetchSem' = IF heirs = {}
                      THEN [fetchSem EXCEPT !.available = @ + 1]
                      ELSE [fetchSem EXCEPT !.waiters = SubSeq(@, 1, last - 1)]
     /\ pc' = [q \in Requests |-> IF q = r THEN next
                                  ELSE IF q \in heirs THEN "granted" ELSE pc[q]]

(* AsyncSemaphore.release, by a request whose handler goes to next.        *)
ReleasePermit(r, next) ==
  LET heirs == IF fetchSem.waiters = <<>> THEN {} ELSE {Head(fetchSem.waiters)}
  IN /\ fetchSem' = IF heirs = {}
                      THEN [fetchSem EXCEPT !.available = @ + 1]
                      ELSE [fetchSem EXCEPT !.waiters = Tail(@)]
     /\ pc' = [q \in Requests |-> IF q = r THEN next
                                  ELSE IF q \in heirs THEN "granted" ELSE pc[q]]

(* abortRoute: a teardown cancellation stays out of the provenance.        *)
Abort(r) ==
  /\ answer' = [answer EXCEPT ![r] = "aborted"]
  /\ actions' = IF teardown THEN actions ELSE actions \cup {r}

(* A forwarded POST is recorded, a fulfilled GET is not.                   *)
Fulfill(r) ==
  /\ answer' = [answer EXCEPT ![r] = "fulfilled"]
  /\ actions' = IF Kind[r] = "post" THEN actions \cup {r} ELSE actions

(* An aborted POST returns its permit in the same block.                   *)
ReturnPostPermit(r) == postFree' = IF Kind[r] = "post" THEN postFree + 1 ELSE postFree

----------------------------------------------------------------------------
(* handle: what is decided before the first await.                         *)

BlockedAtOnce(r) ==
  \/ Kind[r] = "refused"
  \/ Kind[r] \in Fetched /\ Pool(r) \in exceeded
  \/ Kind[r] = "post" /\ postFree = 0

AbortUnfetched(r) ==
  /\ pc[r] = "idle"
  /\ BlockedAtOnce(r)
  /\ pc' = [pc EXCEPT ![r] = "done"]
  /\ Abort(r)
  /\ UNCHANGED <<fetchSem, postFree, Sizes, Outcome>>

AnswerPreflight(r) ==
  /\ pc[r] = "idle"
  /\ Kind[r] = "preflight"
  /\ pc' = [pc EXCEPT ![r] = "done"]
  /\ Fulfill(r)
  /\ UNCHANGED <<fetchSem, postFree, Sizes, Outcome>>

(* abortBlockedType awaits the URL guard for the reason it records.        *)
CheckBlockedType(r) ==
  /\ pc[r] = "idle"
  /\ Kind[r] = "blocked"
  /\ pc' = [pc EXCEPT ![r] = "checking"]
  /\ UNCHANGED <<fetchSem, postFree, Sizes, actions, answer, Outcome>>

AbortBlockedType(r) ==
  /\ pc[r] = "checking"
  /\ pc' = [pc EXCEPT ![r] = "done"]
  /\ Abort(r)
  /\ UNCHANGED <<fetchSem, postFree, Sizes, Outcome>>

Acquire(r) ==
  /\ pc[r] = "idle"
  /\ Kind[r] \in Fetched
  /\ ~BlockedAtOnce(r)
  /\ postFree' = IF Kind[r] = "post" THEN postFree - 1 ELSE postFree
  /\ IF fetchSem.available > 0
       THEN /\ fetchSem' = [fetchSem EXCEPT !.available = @ - 1]
            /\ pc' = [pc EXCEPT ![r] = "granted"]
       ELSE /\ fetchSem' = [fetchSem EXCEPT !.waiters = Append(@, r)]
            /\ pc' = [pc EXCEPT ![r] = "queued"]
  /\ UNCHANGED <<Sizes, actions, answer, Outcome>>

----------------------------------------------------------------------------
(* postAcquireGate: the pool may have blown while the request queued.      *)

(* Mutant: only the first gate is there. *)
PostAcquireGate_Open(r) == TRUE

PostAcquireGate(r) == Pool(r) \notin exceeded

Deny(r) ==
  /\ pc[r] = "granted"
  /\ ~PostAcquireGate(r)
  /\ ReleasePermit(r, "done")
  /\ ReturnPostPermit(r)
  /\ Abort(r)
  /\ UNCHANGED <<Sizes, Outcome>>

(* The fetch starts; a POST's body is charged now that it will be sent.    *)
(* After the teardown the fetch's signal is already aborted.               *)
Fetch(r) ==
  /\ pc[r] = "granted"
  /\ PostAcquireGate(r)
  /\ pc' = [pc EXCEPT ![r] = IF teardown THEN "doomed" ELSE "fetching"]
  /\ used' = [used EXCEPT ![Pool(r)] = @ + PostBody[r]]
  /\ exceeded' = IF Kind[r] = "post" /\ used'["essential"] > EssentialCap
                   THEN exceeded \cup {"essential"} ELSE exceeded
  /\ UNCHANGED <<fetchSem, postFree, egressHosts, moved, actions, answer, Outcome>>

----------------------------------------------------------------------------
(* The fetch ends: its permit passes on, then its outcome is judged.       *)

(* Mutant: an aborted body is not counted. *)
CountEgress_Nothing(r, bytes) ==
  /\ UNCHANGED used
  /\ egressHosts' = egressHosts \cup {r}
  /\ moved' = [moved EXCEPT ![r] = PostBody[r] + bytes]

CountEgress(r, bytes) ==
  /\ used' = [used EXCEPT ![Pool(r)] = @ + bytes]
  /\ egressHosts' = egressHosts \cup {r}
  /\ moved' = [moved EXCEPT ![r] = PostBody[r] + bytes]

RejectNavigation(r) == fatal' = (fatal \/ Kind[r] = "navigation")

(* A body truncated in transit is aborted, and what had come is counted.   *)
RejectTruncated(r) ==
  /\ pc[r] = "fetching"
  /\ "truncated" \in Failures
  /\ ReleasePermit(r, "done")
  /\ ReturnPostPermit(r)
  /\ \E bytes \in BodySizes : CountEgress(r, bytes)
  /\ Abort(r)
  /\ RejectNavigation(r)
  /\ UNCHANGED <<exceeded, provenance, teardown, reported>>

ReleaseBody(r) == used' = [used EXCEPT ![Pool(r)] = @ - PostBody[r]]

(* Any other reject counts nothing: a guard refuses the request before it  *)
(* is sent, and a timeout or the teardown cuts the fetch when some of its  *)
(* bytes have moved.                                                       *)
RejectUncounted(r) ==
  /\ pc[r] \in Fetching
  /\ \/ /\ "refused" \in Failures \/ pc[r] = "doomed"
        /\ UNCHANGED moved
     \/ /\ pc[r] = "fetching"
        /\ "cut" \in Failures \/ teardown
        /\ \E bytes \in BodySizes : moved' = [moved EXCEPT ![r] = PostBody[r] + bytes]
  /\ ReleasePermit(r, "done")
  /\ ReturnPostPermit(r)
  /\ ReleaseBody(r)
  /\ Abort(r)
  /\ RejectNavigation(r)
  /\ UNCHANGED <<exceeded, egressHosts, provenance, teardown, reported>>

(* Mutant: crossing the cap goes unnoticed by the essential pool. *)
Crosses_OtherOnly(r, bytes) ==
  Pool(r) = "other" /\ used[Pool(r)] + bytes > Cap[Pool(r)]

Crosses(r, bytes) == used[Pool(r)] + bytes > Cap[Pool(r)]

(* The body goes to the browser unless its pool is blown already, or it is *)
(* the one that blows the non-essential pool.                              *)
Served(r, bytes) ==
  /\ Pool(r) \notin exceeded
  /\ ~(Pool(r) = "other" /\ Crosses(r, bytes))

Deliver(r) ==
  /\ pc[r] = "fetching"
  /\ \E bytes \in BodySizes :
       /\ CountEgress(r, bytes)
       /\ exceeded' = IF Crosses(r, bytes) THEN exceeded \cup {Pool(r)} ELSE exceeded
       /\ IF Served(r, bytes)
            THEN /\ Fulfill(r)
                 /\ ReleasePermit(r, IF Kind[r] = "post" THEN "answering" ELSE "done")
                 /\ UNCHANGED postFree
            ELSE /\ Abort(r)
                 /\ ReleasePermit(r, "done")
                 /\ ReturnPostPermit(r)
  /\ provenance' = IF Kind[r] = "navigation" THEN {r} ELSE provenance
  /\ UNCHANGED <<fatal, teardown, reported>>

(* route.fulfill resolves, and the POST's permit is free again.            *)
FinishPost(r) ==
  /\ pc[r] = "answering"
  /\ pc' = [pc EXCEPT ![r] = "done"]
  /\ postFree' = postFree + 1
  /\ UNCHANGED <<fetchSem, Sizes, actions, answer, Outcome>>

----------------------------------------------------------------------------
(* The render has its outcome, success or failure: the bytes of both pools *)
(* are reported, then every fetch in flight is aborted.                    *)
EndRender ==
  /\ ~teardown
  /\ teardown' = TRUE
  /\ reported' = used["essential"] + used["other"]
  /\ UNCHANGED <<pc, fetchSem, postFree, Sizes, actions, answer, fatal, provenance>>

(* The page is closed when every handler has returned.                     *)
Closed ==
  /\ teardown
  /\ \A r \in Requests : pc[r] \in {"idle", "done"}
  /\ UNCHANGED vars

Begin(r) ==
  AbortUnfetched(r) \/ AnswerPreflight(r) \/ CheckBlockedType(r) \/ Acquire(r)

Proceed(r) ==
  \/ AbortBlockedType(r) \/ Deny(r) \/ Fetch(r) \/ FinishPost(r)
  \/ RejectTruncated(r) \/ RejectUncounted(r) \/ Deliver(r)

Next ==
  \/ \E r \in Requests : Begin(r) \/ Proceed(r)
  \/ EndRender \/ Closed

(* Handlers continue, and the fetcher answers within its own timeout.      *)
Fairness == (\A r \in Requests : WF_vars(Proceed(r))) /\ WF_vars(EndRender)

Spec == Init /\ [][Next]_vars
FairSpec == Spec /\ Fairness

----------------------------------------------------------------------------
(* Properties. *)

FetchHolders == {r \in Requests : pc[r] \in {"granted"} \cup Fetching}
PostHolders ==
  {r \in Requests : Kind[r] = "post" /\ pc[r] \notin {"idle", "done"}}

(* Every permit is either free or held by exactly one request, on every    *)
(* path out of a handler: the gates, the rejects, the aborts and the       *)
(* answers (semaphore.ts; the two finally blocks of route-state.ts).       *)
PermitsConserved ==
  /\ fetchSem.available + Cardinality(FetchHolders) = FetchPermits
  /\ postFree + Cardinality(PostHolders) = PostPermits

(* The fetch semaphore implements SlotPool: hand-off in arrival order, no  *)
(* idle permit beside a queue.                                             *)
FetchSlots == INSTANCE SlotPool WITH
  Clients <- Requests, Capacity <- FetchPermits,
  holders <- FetchHolders, queue <- fetchSem.waiters

FetchSlotsImplemented == FetchSlots!Spec

(* Once a pool is blown no further fetch of that pool starts, those that   *)
(* were already queued for a permit included (the re-gate of #143).        *)
NoFetchAfterExceeded ==
  [][\A r \in Requests :
       Pool(r) \in exceeded /\ pc'[r] \in Fetching => pc[r] \in Fetching]_vars

(* What each pool can be charged when every body arrives whole: its cap,   *)
(* one body per permit and, in the essential pool, one POST body.          *)
PoolBounded ==
  /\ used["essential"] <= EssentialCap + PostMaxBytes + FetchPermits * MaxBytes
  /\ used["other"] <= MaxBytes + FetchPermits * MaxBytes

(* While the render runs, the pools hold exactly the bytes that moved and  *)
(* the bodies of the POSTs in flight, whatever was served or aborted, and  *)
(* the host of everything that moved is noted.  The egress that is told    *)
(* misses at most one body per fetch permit: what the fetches that the     *)
(* teardown cancels had moved.                                             *)
InFlightBodies(r) == IF pc[r] \in Fetching THEN PostBody[r] ELSE 0

EgressAccounted ==
  IF teardown THEN SumFunction(moved) <= reported + FetchPermits * MaxBytes
  ELSE /\ used["essential"] + used["other"] =
            SumFunction(moved) + SumFunction([r \in Requests |-> InFlightBodies(r)])
       /\ \A r \in Requests : moved[r] > 0 => r \in egressHosts

(* Every request the page makes is answered, fulfilled or aborted, so none *)
(* hangs the page and none is left waiting for a permit.                   *)
EveryRequestAnswered ==
  \A r \in Requests : pc[r] # "idle" ~> pc[r] = "done"
=============================================================================
