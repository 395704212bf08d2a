------------------------------ MODULE SlotPool ------------------------------
(***************************************************************************)
(* What every queueing slot limiter of the gateway promises its callers:   *)
(* at most Capacity of them run, a slot never idles while somebody waits   *)
(* for it, and slots are granted in the order they were asked for, except  *)
(* that a caller whose deadline passes leaves the queue.                   *)
(*                                                                         *)
(* The bulk semaphores, the render's fetch semaphore and the global fetch  *)
(* limiter are each shown to implement it.                                 *)
(***************************************************************************)
EXTENDS Integers, Sequences, FiniteSets, Functions

CONSTANTS Clients, Capacity

(* What the limiters owe their pool.                                       *)
SlotAssumption == Capacity \in Nat \ {0} /\ IsFiniteSet(Clients)

VARIABLES holders, queue

slotVars == <<holders, queue>>

Waiting == Range(queue)

NoRepetition == \A i, j \in DOMAIN queue : queue[i] = queue[j] => i = j

(* Safe: the slots are never oversubscribed and never idle beside a queue, *)
(* and nobody waits twice or waits for what it already holds.              *)
SlotTypeOK == holders \subseteq Clients /\ queue \in Seq(Clients)

WorkConserving == queue # <<>> => Cardinality(holders) = Capacity

Safe ==
  /\ SlotTypeOK
  /\ Cardinality(holders) <= Capacity
  /\ WorkConserving
  /\ NoRepetition
  /\ holders \cap Waiting = {}

(* A limiter may be observed from any safe state on.                       *)
Init ==
  /\ holders \in SUBSET Clients
  /\ \E n \in 0..Cardinality(Clients) : queue \in [1..n -> Clients]
  /\ Safe

(* A free slot is taken at once; else the caller goes to the back.         *)
Take(c) ==
  /\ c \notin holders \cup Waiting
  /\ Cardinality(holders) < Capacity
  /\ holders' = holders \cup {c}
  /\ UNCHANGED queue

Wait(c) ==
  /\ c \notin holders \cup Waiting
  /\ Cardinality(holders) = Capacity
  /\ queue' = Append(queue, c)
  /\ UNCHANGED holders

(* A holder leaves: its slot passes to the head of the queue.              *)
Release(c) ==
  /\ c \in holders
  /\ IF queue = <<>>
       THEN holders' = holders \ {c} /\ UNCHANGED queue
       ELSE /\ holders' = (holders \ {c}) \cup {Head(queue)}
            /\ queue' = Tail(queue)

(* Some waiters give up, the others keep their order: kept lists the       *)
(* places of those that stay.                                              *)
GiveUp ==
  /\ \E n \in 0..(Len(queue) - 1) : \E kept \in [1..n -> DOMAIN queue] :
       /\ \A i, j \in 1..n : i < j => kept[i] < kept[j]
       /\ queue' = [i \in 1..n |-> queue[kept[i]]]
  /\ UNCHANGED holders

Next == GiveUp \/ \E c \in Clients : Take(c) \/ Wait(c) \/ Release(c)

Spec == Init /\ [][Next]_slotVars

----------------------------------------------------------------------------
(* Slots are granted in the order they were asked for: whoever was ahead   *)
(* of a granted waiter has been granted a slot too or has given up.        *)
NoOvertaking ==
  [][\A i, j \in DOMAIN queue :
       i < j /\ queue[j] \in holders' => queue[i] \notin Range(queue')]_slotVars
=============================================================================
