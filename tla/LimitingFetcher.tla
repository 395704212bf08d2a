--------------------------- MODULE LimitingFetcher ---------------------------
(***************************************************************************)
(* The process-wide cap on concurrent fetches: single fetches, bulk seeds  *)
(* and render subresources of the hosted gateway share Capacity slots, and *)
(* nobody waits for one longer than its own timeout or its signal allow.   *)
(*                                                                         *)
(* An action is a block of fetchGuarded between two awaits, a timer or the *)
(* dispatch of an abort event.  A slot is handed over in one block and     *)
(* taken up in another, and timers and aborts come in between.             *)
(***************************************************************************)
EXTENDS Integers, Sequences, FiniteSets, Functions

CONSTANTS
  Calls,      \* the calls of fetchGuarded
  Signals,    \* abort signals, one bulk's calls sharing one
  SignalOf,   \* SignalOf[c]: opts.signal
  Capacity,   \* the global cap
  Timeout,    \* opts.timeoutMs, in ticks
  Lag         \* bound: ticks counted past the timeout

ASSUME LimiterAssumption ==
  /\ IsFiniteSet(Calls)
  /\ SignalOf \in [Calls -> Signals]
  /\ Capacity \in Nat \ {0}
  /\ Timeout \in Nat \ {0} /\ Lag \in Nat

VARIABLES
  pc,        \* where each call is suspended
  active,    \* slots taken
  waiters,   \* the FIFO queue
  aborted,   \* signals that have fired
  waited,    \* ticks since a call began, until its inner fetch starts
  budget     \* the timeout its inner fetch was given

limiterVars == <<pc, active, waiters, aborted, waited, budget>>

TypeOK ==
  /\ pc \in [Calls -> {"idle", "waiting", "granted", "fetching", "done"}]
  /\ active \in 0..Capacity
  /\ waiters \in Seq(Calls)
  /\ aborted \subseteq Signals
  /\ waited \in [Calls -> 0..(Timeout + Lag)]
  /\ budget \in [Calls -> 0..Timeout]

LimiterInit ==
  /\ pc = [c \in Calls |-> "idle"]
  /\ active = 0
  /\ waiters = <<>>
  /\ aborted = {}
  /\ waited = [c \in Calls |-> 0]
  /\ budget = [c \in Calls |-> 0]

Goes(c, place) == pc' = [pc EXCEPT ![c] = place]

(* The waiters that remain when some have left, in their order.            *)
Without(gone) ==
  LET stay[n \in 0..Len(waiters)] ==
        IF n = 0 THEN <<>>
        ELSE IF waiters[n] \in gone THEN stay[n - 1]
        ELSE Append(stay[n - 1], waiters[n])
  IN stay[Len(waiters)]

----------------------------------------------------------------------------
(* acquire: a free slot, a signal that is aborted already, or the queue.   *)
TakeSlot(c) ==
  /\ pc[c] = "idle"
  /\ active < Capacity
  /\ active' = active + 1
  /\ Goes(c, "granted")
  /\ UNCHANGED <<waiters, aborted, waited, budget>>

RefuseAborted(c) ==
  /\ pc[c] = "idle"
  /\ active >= Capacity
  /\ SignalOf[c] \in aborted
  /\ Goes(c, "done")
  /\ UNCHANGED <<active, waiters, aborted, waited, budget>>

(* Mutant: a call whose signal is aborted already waits. *)
MayQueue_Always(c) == TRUE

MayQueue(c) == SignalOf[c] \notin aborted

Queue(c) ==
  /\ pc[c] = "idle"
  /\ active >= Capacity
  /\ MayQueue(c)
  /\ waiters' = Append(waiters, c)
  /\ Goes(c, "waiting")
  /\ UNCHANGED <<active, aborted, waited, budget>>

(* The waiter's own timer fires.  Its composed signal aborts only once:    *)
(* born aborted, it fires no event.                                        *)
TimeOutWaiting(c) ==
  /\ pc[c] = "waiting"
  /\ waited[c] >= Timeout
  /\ SignalOf[c] \notin aborted
  /\ waiters' = Without({c})
  /\ Goes(c, "done")
  /\ UNCHANGED <<active, aborted, waited, budget>>

(* The caller's signal fires: all its waiters leave in one dispatch.  A    *)
(* call that was handed a slot in the meantime keeps it.                   *)
AbortSignal(s) ==
  LET gone == {c \in Calls : pc[c] = "waiting" /\ SignalOf[c] = s}
  IN /\ s \notin aborted
     /\ aborted' = aborted \cup {s}
     /\ waiters' = Without(gone)
     /\ pc' = [c \in Calls |-> IF c \in gone THEN "done" ELSE pc[c]]
     /\ UNCHANGED <<active, waited, budget>>

(* release: the slot passes to the head waiter, or is free.                *)

Release(c) ==
  LET heirs == IF waiters = <<>> THEN {} ELSE {Head(waiters)}
  IN /\ active' = IF heirs = {} /\ active > 0 THEN active - 1 ELSE active
     /\ waiters' = IF heirs = {} THEN waiters ELSE Tail(waiters)
     /\ pc' = [d \in Calls |-> IF d = c THEN "done"
                               ELSE IF d \in heirs THEN "granted" ELSE pc[d]]

(* The timeout left for the inner fetch.                                   *)
(* Mutant: a floor, however little is left. *)
Remaining_Floor(c) == IF waited[c] < Timeout THEN Timeout - waited[c] ELSE 1

Remaining(c) == Timeout - waited[c]

StartFetch(c) ==
  /\ pc[c] = "granted"
  /\ Remaining(c) > 0
  /\ budget' = [budget EXCEPT ![c] = Remaining(c)]
  /\ Goes(c, "fetching")
  /\ UNCHANGED <<active, waiters, aborted, waited>>

(* The wait used the whole timeout up: the slot is returned unused.        *)
ReturnUnused(c) ==
  /\ pc[c] = "granted"
  /\ Remaining(c) <= 0
  /\ Release(c)
  /\ UNCHANGED <<aborted, waited, budget>>

FinishFetch(c) ==
  /\ pc[c] = "fetching"
  /\ Release(c)
  /\ UNCHANGED <<aborted, waited, budget>>

(* Time passes for the calls that have not started their fetch.  Counting  *)
(* stops Lag ticks past the timeout: later is no different.                *)
Waits(c) == pc[c] \in {"waiting", "granted"} /\ waited[c] < Timeout + Lag

Tick ==
  /\ \E c \in Calls : Waits(c)
  /\ waited' = [c \in Calls |-> IF Waits(c) THEN waited[c] + 1 ELSE waited[c]]
  /\ UNCHANGED <<pc, active, waiters, aborted, budget>>

AllServed == (\A c \in Calls : pc[c] = "done") /\ UNCHANGED limiterVars

Call(c) == TakeSlot(c) \/ RefuseAborted(c) \/ Queue(c)

Step(c) == StartFetch(c) \/ ReturnUnused(c) \/ TimeOutWaiting(c)

LimiterNext ==
  \/ \E c \in Calls : Call(c) \/ Step(c) \/ FinishFetch(c)
  \/ \E s \in Signals : AbortSignal(s)
  \/ Tick \/ AllServed

(* Continuations run, timers fire and time passes; the inner fetch may     *)
(* never answer.                                                           *)
Fairness == WF_limiterVars(Tick) /\ \A c \in Calls : WF_limiterVars(Step(c))

LimiterSpec == LimiterInit /\ [][LimiterNext]_limiterVars
LimiterFairSpec == LimiterSpec /\ Fairness

----------------------------------------------------------------------------
(* Properties. *)

Holders == {c \in Calls : pc[c] \in {"granted", "fetching"}}

(* The wait and the fetch together stay within the caller's timeout: no    *)
(* fetch starts with more than what the wait has left of it.               *)
DeadlineKept == \A c \in Calls :
  pc[c] = "fetching" => budget[c] > 0 /\ waited[c] + budget[c] <= Timeout

GlobalSlots == INSTANCE SlotPool WITH
  Clients <- Calls, holders <- Holders, queue <- waiters

(* The global cap implements SlotPool, with waiters that give up, and no   *)
(* caller hangs on it though the fetches ahead of it may never end         *)
(* (contracts.md, Hosted amplification controls).                          *)
QueueServed ==
  GlobalSlots!Spec /\ \A c \in Calls : pc[c] = "waiting" ~> pc[c] # "waiting"
=============================================================================
