--------------------------- MODULE SlotPoolProofs ---------------------------
(***************************************************************************)
(* The abstract limiter keeps its promise for any number of clients and    *)
(* slots.  Safe is inductive as it stands.                                 *)
(***************************************************************************)
EXTENDS SlotPool, SequenceTheorems, FiniteSetTheorems, TLAPS

(* A set of clients is finite, and adding or removing one moves its size   *)
(* by one.                                                                 *)
LEMMA HolderCount ==
  ASSUME SlotAssumption, NEW H \in SUBSET Clients
  PROVE  /\ Cardinality(H) \in Nat
         /\ \A c \in Clients \ H : Cardinality(H \cup {c}) = Cardinality(H) + 1
         /\ \A c \in H : Cardinality(H \ {c}) = Cardinality(H) - 1
<1>1. IsFiniteSet(H)
  BY FS_Subset DEF SlotAssumption
<1>2. Cardinality(H) \in Nat
  BY <1>1, FS_CardinalityType
<1>3. \A c \in Clients \ H : Cardinality(H \cup {c}) = Cardinality(H) + 1
  BY <1>1, FS_AddElement
<1>4. \A c \in H : Cardinality(H \ {c}) = Cardinality(H) - 1
  BY <1>1, FS_RemoveElement
<1> QED
  BY <1>2, <1>3, <1>4

(* What a sequence's positions say of its range, its head and its tail.    *)
LEMMA TailFacts ==
  ASSUME NEW q \in Seq(Clients), q # <<>>
  PROVE  /\ Head(q) = q[1] /\ 1 \in DOMAIN q /\ Head(q) \in Clients
         /\ Tail(q) \in Seq(Clients)
         /\ DOMAIN Tail(q) = 1..(Len(q) - 1)
         /\ \A i \in DOMAIN Tail(q) : Tail(q)[i] = q[i + 1] /\ i + 1 \in DOMAIN q
<1>1. Len(q) \in Nat \ {0} /\ DOMAIN q = 1..Len(q)
  BY EmptySeq, LenProperties
<1>2. /\ Head(q) \in Clients /\ Tail(q) \in Seq(Clients)
      /\ Len(Tail(q)) = Len(q) - 1
      /\ \A i \in 1..Len(Tail(q)) : Tail(q)[i] = q[i + 1]
  BY HeadTailProperties
<1>3. Head(q) = q[1]
  BY SMT
<1>4. DOMAIN Tail(q) = 1..(Len(q) - 1)
  BY <1>2, LenProperties
<1> QED
  BY <1>1, <1>2, <1>3, <1>4

(* Safe survives every step.                                               *)
LEMMA SafeInductive == SlotAssumption /\ Safe /\ [Next]_slotVars => Safe'
<1> SUFFICES ASSUME SlotAssumption, Safe, [Next]_slotVars PROVE Safe'
  OBVIOUS
<1>t. holders \subseteq Clients /\ queue \in Seq(Clients)
  BY DEF Safe, SlotTypeOK
<1>l. Len(queue) \in Nat /\ DOMAIN queue = 1..Len(queue)
  BY <1>t, LenProperties
<1>1. ASSUME NEW c \in Clients, Take(c) PROVE Safe'
  <2>1. Cardinality(holders') = Cardinality(holders) + 1 /\ holders' \subseteq Clients
    BY <1>1, <1>t, HolderCount DEF Take
  <2>2. Cardinality(holders) \in Nat /\ Capacity \in Nat
    BY <1>t, HolderCount DEF SlotAssumption
  <2>3. queue' = <<>>
    BY <1>1, <2>2 DEF Take, Safe, WorkConserving
  <2>4. Cardinality(holders') <= Capacity
    BY <1>1, <2>1, <2>2 DEF Take
  <2> QED
    BY <1>1, <2>1, <2>3, <2>4
    DEF Take, Safe, SlotTypeOK, WorkConserving, NoRepetition, Waiting, Range
<1>2. ASSUME NEW c \in Clients, Wait(c) PROVE Safe'
  <2>1. /\ queue' \in Seq(Clients) /\ DOMAIN queue' = 1..(Len(queue) + 1)
        /\ \A i \in 1..(Len(queue) + 1) :
             queue'[i] = IF i <= Len(queue) THEN queue[i] ELSE c
    BY <1>2, <1>t, AppendProperties, LenProperties DEF Wait
  <2>2. NoRepetition'
    BY <1>2, <1>l, <2>1 DEF Wait, Safe, NoRepetition, Waiting, Range
  <2>3. (holders \cap Waiting = {})'
    BY <1>2, <1>l, <2>1 DEF Wait, Safe, Waiting, Range
  <2> QED
    BY <1>2, <2>1, <2>2, <2>3 DEF Wait, Safe, SlotTypeOK, WorkConserving
<1>3. ASSUME NEW c \in Clients, Release(c) PROVE Safe'
  <2>1. CASE queue = <<>>
    <3>1. Cardinality(holders') = Cardinality(holders) - 1 /\ holders' \subseteq Clients
      BY <1>3, <1>t, <2>1, HolderCount DEF Release
    <3>2. Cardinality(holders') <= Capacity
      BY <3>1, <1>t, HolderCount DEF SlotAssumption, Safe
    <3> QED
      BY <1>3, <2>1, <3>1, <3>2
      DEF Release, Safe, SlotTypeOK, WorkConserving, NoRepetition, Waiting, Range
  <2>2. CASE queue # <<>>
    <3> DEFINE heir == Head(queue)
               left == holders \ {c}
    <3>1. /\ heir = queue[1] /\ 1 \in DOMAIN queue /\ heir \in Clients
          /\ Tail(queue) \in Seq(Clients)
          /\ DOMAIN Tail(queue) = 1..(Len(queue) - 1)
          /\ \A i \in DOMAIN Tail(queue) :
               Tail(queue)[i] = queue[i + 1] /\ i + 1 \in DOMAIN queue
      BY <1>t, <2>2, TailFacts
    <3>2. holders' = left \cup {heir} /\ queue' = Tail(queue) /\ c \in holders
      BY <1>3, <2>2 DEF Release
    <3>3. heir \notin holders
      BY <3>1 DEF Safe, Waiting, Range
    <3>4. Cardinality(left) = Cardinality(holders) - 1
      BY <1>t, <3>2, HolderCount
    <3>5. Cardinality(left \cup {heir}) = Cardinality(left) + 1
      BY <1>t, <3>1, <3>3, HolderCount
    <3>6. Cardinality(holders') = Cardinality(holders)
      BY <1>t, <3>2, <3>4, <3>5, HolderCount
    <3>7. NoRepetition'
      BY <3>1, <3>2, <1>l DEF Safe, NoRepetition
    <3>8. \A i \in DOMAIN queue' : queue'[i] \notin holders'
      <4> SUFFICES ASSUME NEW i \in DOMAIN queue' PROVE queue'[i] \notin holders'
        OBVIOUS
      <4>1. queue'[i] = queue[i + 1] /\ i + 1 \in DOMAIN queue /\ i + 1 # 1
        BY <3>1, <3>2, <1>l
      <4>2. queue[i + 1] \notin holders
        BY <4>1 DEF Safe, Waiting, Range
      <4>3. queue[i + 1] # heir
        BY <4>1, <3>1 DEF Safe, NoRepetition
      <4> QED
        BY <4>1, <4>2, <4>3, <3>2
    <3>9. (holders \cap Waiting = {})'
      BY <3>8 DEF Waiting, Range
    <3>10. Cardinality(holders') = Capacity
      BY <2>2, <3>6 DEF Safe, WorkConserving
    <3>11. SlotTypeOK'
      BY <1>t, <3>1, <3>2 DEF SlotTypeOK
    <3>12. Cardinality(holders') <= Capacity
      BY <3>10 DEF SlotAssumption
    <3> QED
      BY <3>7, <3>9, <3>10, <3>11, <3>12 DEF Safe, WorkConserving
  <2> QED
    BY <2>1, <2>2
<1>4. ASSUME GiveUp PROVE Safe'
  <2>1. PICK n \in 0..(Len(queue) - 1) : \E kept \in [1..n -> DOMAIN queue] :
          /\ \A i, j \in 1..n : i < j => kept[i] < kept[j]
          /\ queue' = [i \in 1..n |-> queue[kept[i]]]
    BY <1>4 DEF GiveUp
  <2>2. PICK kept \in [1..n -> DOMAIN queue] :
          /\ \A i, j \in 1..n : i < j => kept[i] < kept[j]
          /\ queue' = [i \in 1..n |-> queue[kept[i]]]
    BY <2>1
  <2>3. n \in Nat /\ DOMAIN queue' = 1..n
        /\ \A i \in 1..n : queue'[i] = queue[kept[i]] /\ kept[i] \in DOMAIN queue
    BY <2>2, <1>l
  <2>4. queue' \in Seq(Clients)
    <3>1. \A i \in 1..n : queue[kept[i]] \in Clients
      BY <2>3, <1>t, <1>l, ElementOfSeq
    <3> QED
      BY <2>2, <2>3, <3>1, IsASeq
  <2>5. NoRepetition'
    <3> SUFFICES ASSUME NEW i \in 1..n, NEW j \in 1..n, queue'[i] = queue'[j]
                 PROVE  i = j
      BY <2>3 DEF NoRepetition
    <3>1. kept[i] = kept[j]
      BY <2>3 DEF Safe, NoRepetition
    <3>2. kept[i] \in Nat /\ kept[j] \in Nat
      BY <2>3, <1>l
    <3> QED
      BY <3>1, <3>2, <2>2, <2>3
  <2>6. queue # <<>> /\ holders' = holders
    BY <2>1, <1>4, <1>l, EmptySeq DEF GiveUp
  <2>7. (holders \cap Waiting = {})'
    BY <2>3, <2>6 DEF Safe, Waiting, Range
  <2> QED
    BY <1>t, <2>4, <2>5, <2>6, <2>7 DEF Safe, SlotTypeOK, WorkConserving
<1>5. CASE UNCHANGED slotVars
  BY <1>5 DEF slotVars, Safe, SlotTypeOK, WorkConserving, NoRepetition, Waiting
<1> QED
  BY <1>1, <1>2, <1>3, <1>4, <1>5 DEF Next

(* A limiter is never oversubscribed and never idles beside a queue,       *)
(* whoever takes, waits, leaves and gives up, and in whatever order        *)
(* (Semaphore in bulk-concurrency.ts).                                     *)
THEOREM SlotsSafe == ASSUME SlotAssumption PROVE Spec => []Safe
<1>1. Init => Safe
  BY DEF Init
<1>2. Safe /\ [Next]_slotVars => Safe'
  BY SafeInductive
<1> QED
  BY <1>1, <1>2, PTL DEF Spec

(* Nobody is overtaken: when a waiter is granted a slot, nobody who was    *)
(* ahead of it still waits.                                                *)
LEMMA GrantIsInOrder ==
  Safe /\ [Next]_slotVars =>
    \A i, j \in DOMAIN queue :
      i < j /\ queue[j] \in holders' => queue[i] \notin Range(queue')
<1> SUFFICES ASSUME Safe, [Next]_slotVars,
                    NEW i \in DOMAIN queue, NEW j \in DOMAIN queue,
                    i < j, queue[j] \in holders'
             PROVE  FALSE
  OBVIOUS
<1>t. queue \in Seq(Clients) /\ queue[j] \notin holders
  BY DEF Safe, SlotTypeOK, Waiting, Range
<1>l. Len(queue) \in Nat /\ DOMAIN queue = 1..Len(queue)
  BY <1>t, LenProperties
<1>1. ASSUME NEW c \in Clients, Take(c) PROVE FALSE
  <2>1. queue[j] = c
    BY <1>1, <1>t DEF Take
  <2> QED
    BY <1>1, <2>1 DEF Take, Waiting, Range
<1>2. ASSUME NEW c \in Clients, Release(c) PROVE FALSE
  <2>1. queue # <<>>
    BY <1>l, EmptySeq
  <2>2. queue[j] = Head(queue)
    BY <1>2, <1>t, <2>1 DEF Release
  <2>3. Head(queue) = queue[1] /\ 1 \in DOMAIN queue
    BY <1>t, <2>1, TailFacts
  <2>4. j = 1
    BY <2>2, <2>3 DEF Safe, NoRepetition
  <2> QED
    BY <2>4, <1>l
<1>3. ASSUME NEW c \in Clients, Wait(c) PROVE FALSE
  BY <1>3, <1>t DEF Wait
<1>4. CASE GiveUp
  BY <1>4, <1>t DEF GiveUp
<1>5. CASE UNCHANGED slotVars
  BY <1>5, <1>t DEF slotVars
<1> QED
  BY <1>1, <1>2, <1>3, <1>4, <1>5 DEF Next

(* First come, first served, for any number of clients and slots.          *)
THEOREM FirstComeFirstServed == ASSUME SlotAssumption PROVE Spec => NoOvertaking
<1>1. Safe /\ [Next]_slotVars =>
        [\A i, j \in DOMAIN queue :
           i < j /\ queue[j] \in holders' => queue[i] \notin Range(queue')]_slotVars
  BY GrantIsInOrder
<1> QED
  BY <1>1, SlotsSafe, PTL DEF Spec, NoOvertaking
=============================================================================
