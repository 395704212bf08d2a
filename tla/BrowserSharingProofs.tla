------------------------ MODULE BrowserSharingProofs ------------------------
(***************************************************************************)
(* What renders share stays usable, for any number of renders, places and  *)
(* connection attempts.  The invariant has a half for the limiter and a    *)
(* half for the connection; they meet only where a render ends.            *)
(***************************************************************************)
EXTENDS BrowserSharing, SequenceTheorems, FiniteSetTheorems, TLAPS

Woken == {r \in Renders : pc[r] = "woken"}
Joining == {r \in Renders : pc[r] = "joining"}
Statuses == {"unused", "pending", "open", "closed", "failed"}

(* TypeOK without the ranges of the counters, which follow.                *)
Types ==
  /\ pc \in [Renders -> Places]
  /\ waiters \in Seq(Renders)
  /\ attempt \in [Attempts -> Statuses]
  /\ cdpBrowser \in Attempts \cup {NoAttempt}
  /\ cdpConnecting \in Attempts \cup {NoAttempt}
  /\ slot \in [Renders -> Attempts \cup {NoAttempt}]

(* Whoever is in the queue is suspended in it, once; and a free place      *)
(* beside a queue has somebody on the way to it.                           *)
QueueInv ==
  /\ \A i \in DOMAIN waiters : pc[waiters[i]] = "queued"
  /\ \A i, j \in DOMAIN waiters : waiters[i] = waiters[j] => i = j
LimiterInv ==
  /\ running = Cardinality(Inside) /\ running <= MaxRenders
  /\ waiters # <<>> => running + Cardinality(Woken) >= MaxRenders

(* A pending attempt that somebody awaits is the one that can be joined,   *)
(* and the one that can be joined is awaited by somebody.                  *)
ConnectionInv ==
  /\ cdpWaiters = Cardinality(Joining)
  /\ \A r \in Renders : pc[r] = "using" => slot[r] \in Attempts /\ attempt[slot[r]] = "open"
  /\ \A r \in Renders : pc[r] = "joining" =>
       /\ slot[r] \in Attempts /\ attempt[slot[r]] \in {"pending", "open", "failed"}
       /\ attempt[slot[r]] = "pending" => cdpConnecting = slot[r]
  /\ \A a \in Attempts : attempt[a] = "open" <=> cdpBrowser = a
  /\ \A a \in Attempts : cdpConnecting = a =>
       /\ attempt[a] \in {"pending", "open"}
       /\ attempt[a] = "pending" =>
            cdpBrowser = NoAttempt /\ \E r \in Renders : pc[r] = "joining" /\ slot[r] = a
SharingInv == Types /\ QueueInv /\ LimiterInv /\ ConnectionInv

(* The size of a set of renders, and of the set with one more or less.     *)
LEMMA RenderCount ==
  ASSUME NEW S \in SUBSET Renders
  PROVE  /\ Cardinality(S) \in Nat /\ Cardinality(S) <= Cardinality(Renders)
         /\ \A r \in Renders \ S : Cardinality(S \cup {r}) = Cardinality(S) + 1
         /\ \A r \in S : Cardinality(S \ {r}) = Cardinality(S) - 1
         /\ Cardinality(S) = 0 <=> S = {}
<1>1. IsFiniteSet(S) /\ Cardinality(S) <= Cardinality(Renders)
  BY FS_Subset, SharingAssumption
<1>2. Cardinality(S) \in Nat
  BY <1>1, FS_CardinalityType
<1>3. \A r \in Renders \ S : Cardinality(S \cup {r}) = Cardinality(S) + 1
  BY <1>1, FS_AddElement
<1>4. \A r \in S : Cardinality(S \ {r}) = Cardinality(S) - 1
  BY <1>1, FS_RemoveElement
<1>5. Cardinality(S) = 0 <=> S = {}
  BY <1>1, FS_EmptySet
<1> QED
  BY <1>1, <1>2, <1>3, <1>4, <1>5

(* Nobody who was in the queue is in its tail twice, nor its head at all.  *)
LEMMA QueueTail ==
  ASSUME Types, QueueInv, waiters # <<>>
  PROVE  /\ Head(waiters) \in Renders /\ pc[Head(waiters)] = "queued"
         /\ Tail(waiters) \in Seq(Renders)
         /\ \A i \in DOMAIN Tail(waiters) :
              pc[Tail(waiters)[i]] = "queued" /\ Tail(waiters)[i] # Head(waiters)
         /\ \A i, j \in DOMAIN Tail(waiters) : Tail(waiters)[i] = Tail(waiters)[j] => i = j
<1>1. waiters \in Seq(Renders) /\ Len(waiters) \in Nat \ {0} /\ DOMAIN waiters = 1..Len(waiters)
  BY EmptySeq, LenProperties DEF Types
<1>2. /\ Head(waiters) \in Renders /\ Tail(waiters) \in Seq(Renders)
      /\ Len(Tail(waiters)) = Len(waiters) - 1
      /\ \A i \in 1..Len(Tail(waiters)) : Tail(waiters)[i] = waiters[i + 1]
  BY <1>1, HeadTailProperties
<1>3. Head(waiters) = waiters[1] /\ 1 \in DOMAIN waiters
  BY <1>1
<1>4. DOMAIN Tail(waiters) = 1..(Len(waiters) - 1)
  BY <1>1, <1>2, LenProperties
<1>5. \A i \in DOMAIN Tail(waiters) :
        i + 1 \in DOMAIN waiters /\ i \in Int /\ Tail(waiters)[i] = waiters[i + 1]
  BY <1>1, <1>2, <1>4
<1>6. pc[Head(waiters)] = "queued"
  BY <1>3 DEF QueueInv
<1>7. \A i \in DOMAIN Tail(waiters) :
        pc[Tail(waiters)[i]] = "queued" /\ Tail(waiters)[i] # Head(waiters)
  <2> TAKE i \in DOMAIN Tail(waiters)
  <2>1. i + 1 \in DOMAIN waiters /\ Tail(waiters)[i] = waiters[i + 1] /\ i + 1 # 1
    BY <1>1, <1>4, <1>5
  <2> QED
    BY <1>3, <2>1 DEF QueueInv
<1>8. \A i, j \in DOMAIN Tail(waiters) : Tail(waiters)[i] = Tail(waiters)[j] => i = j
  <2> TAKE i, j \in DOMAIN Tail(waiters)
  <2>1. /\ i + 1 \in DOMAIN waiters /\ Tail(waiters)[i] = waiters[i + 1] /\ i \in Int
        /\ j + 1 \in DOMAIN waiters /\ Tail(waiters)[j] = waiters[j + 1] /\ j \in Int
    BY <1>5
  <2>2. waiters[i + 1] = waiters[j + 1] => i + 1 = j + 1
    BY <2>1 DEF QueueInv
  <2> QED
    BY <2>1, <2>2
<1> QED
  BY <1>2, <1>6, <1>7, <1>8

----------------------------------------------------------------------------
(* The limiter.                                                            *)

(* A move that neither enters, waits nor leaves.                           *)
Still(r, place) ==
  \/ /\ pc[r] \in {"loading", "joining", "using", "ending"}
     /\ place \in {"loading", "joining", "using", "ending"}
  \/ pc[r] \in {"idle", "done"} /\ place \in {"idle", "done"}
LEMMA StillKeeps ==
  ASSUME Types, QueueInv, LimiterInv, NEW r \in Renders, NEW place \in Places,
         Still(r, place), Goes(r, place), UNCHANGED Limiter
  PROVE  QueueInv' /\ LimiterInv' /\ pc' \in [Renders -> Places]
<1>1. /\ pc' \in [Renders -> Places] /\ pc'[r] = place
      /\ \A q \in Renders \ {r} : pc'[q] = pc[q]
      /\ running' = running /\ waiters' = waiters
  BY DEF Goes, Types, Limiter
<1>2. Inside' = Inside /\ Woken' = Woken
  BY <1>1 DEF Inside, Woken, Still
<1>3. \A i \in DOMAIN waiters : waiters[i] \in Renders \ {r}
  <2>1. \A i \in DOMAIN waiters : waiters[i] \in Renders
    BY ElementOfSeq, LenProperties DEF Types
  <2> QED
    BY <2>1 DEF QueueInv, Still
<1>4. QueueInv'
  BY <1>1, <1>3 DEF QueueInv
<1>5. LimiterInv'
  BY <1>1, <1>2 DEF LimiterInv
<1> QED
  BY <1>1, <1>4, <1>5

(* A call that looks for a place takes it or queues.                       *)
LEMMA EnterKeeps ==
  ASSUME Types, QueueInv, LimiterInv, NEW r \in Renders, pc[r] \in {"idle", "woken"}, Enter(r)
  PROVE  /\ QueueInv' /\ LimiterInv' /\ pc' \in [Renders -> Places] /\ waiters' \in Seq(Renders)
         /\ pc'[r] \in {"loading", "queued"} /\ \A q \in Renders \ {r} : pc'[q] = pc[q]
<1>q. \A i \in DOMAIN waiters : waiters[i] \in Renders \ {r}
  <2>1. \A i \in DOMAIN waiters : waiters[i] \in Renders
    BY ElementOfSeq, LenProperties DEF Types
  <2> QED
    BY <2>1 DEF QueueInv
<1>c. Inside \in SUBSET Renders /\ Woken \in SUBSET Renders /\ r \notin Inside
  BY DEF Inside, Woken
<1>n. Cardinality(Inside) \in Nat /\ Cardinality(Woken) \in Nat /\ MaxRenders \in Nat
  BY <1>c, RenderCount, SharingAssumption
<1>1. CASE running < MaxRenders /\ running' = running + 1 /\ Goes(r, "loading")
           /\ waiters' = waiters
  <2>1. /\ pc' \in [Renders -> Places] /\ pc'[r] = "loading"
        /\ \A q \in Renders \ {r} : pc'[q] = pc[q]
    BY <1>1 DEF Goes, Types, Places
  <2>2. QueueInv'
    BY <1>1, <1>q, <2>1 DEF QueueInv
  <2>3. Inside' = Inside \cup {r} /\ Woken' = Woken \ {r}
    BY <2>1 DEF Inside, Woken
  <2>4. Cardinality(Inside') = Cardinality(Inside) + 1
    BY <2>3, <1>c, RenderCount
  <2>5. Cardinality(Woken') >= Cardinality(Woken) - 1 /\ Cardinality(Woken') \in Nat
    <3>1. CASE r \in Woken
      <4>1. Woken \ {r} \in SUBSET Renders /\ Cardinality(Woken \ {r}) = Cardinality(Woken) - 1
        BY <1>c, <3>1, RenderCount
      <4> QED
        BY <4>1, <2>3, <1>n, RenderCount
    <3>2. CASE r \notin Woken
      <4>1. Woken' = Woken
        BY <2>3, <3>2
      <4> QED
        BY <4>1, <1>n
    <3> QED
      BY <3>1, <3>2
  <2>6. LimiterInv'
    BY <1>1, <1>n, <2>4, <2>5 DEF LimiterInv
  <2> QED
    BY <1>1, <2>1, <2>2, <2>6 DEF Types
<1>2. CASE running >= MaxRenders /\ waiters' = Append(waiters, r) /\ Goes(r, "queued")
           /\ running' = running
  <2>1. /\ pc' \in [Renders -> Places] /\ pc'[r] = "queued"
        /\ \A q \in Renders \ {r} : pc'[q] = pc[q]
    BY <1>2 DEF Goes, Types, Places
  <2>2. /\ waiters' \in Seq(Renders) /\ Len(waiters) \in Nat /\ DOMAIN waiters = 1..Len(waiters)
        /\ DOMAIN waiters' = 1..(Len(waiters) + 1) /\ waiters'[Len(waiters) + 1] = r
        /\ \A i \in 1..Len(waiters) : waiters'[i] = waiters[i]
    BY <1>2, AppendProperties, LenProperties DEF Types
  <2>3. QueueInv'
    <3>1. \A i \in DOMAIN waiters' : pc'[waiters'[i]] = "queued"
      BY <1>q, <2>1, <2>2 DEF QueueInv
    <3>2. \A i, j \in DOMAIN waiters' : waiters'[i] = waiters'[j] => i = j
      BY <1>q, <2>2 DEF QueueInv
    <3> QED
      BY <3>1, <3>2 DEF QueueInv
  <2>4. Inside' = Inside
    BY <2>1, <1>c DEF Inside
  <2>5. Woken' \in SUBSET Renders
    BY DEF Woken
  <2>6. Cardinality(Woken') \in Nat
    BY <2>5, RenderCount
  <2>7. LimiterInv'
    BY <1>2, <1>n, <2>4, <2>6 DEF LimiterInv
  <2> QED
    BY <2>1, <2>2, <2>3, <2>7
<1> QED
  BY <1>1, <1>2 DEF Enter

(* A call that leaves gives back its place and wakes the head of the queue.*)
LEMMA ReleaseKeeps ==
  ASSUME Types, QueueInv, LimiterInv, NEW r \in Renders, pc[r] \in {"using", "ending"}, Release(r)
  PROVE  /\ QueueInv' /\ LimiterInv' /\ pc' \in [Renders -> Places] /\ waiters' \in Seq(Renders)
         /\ pc'[r] = "done"
         /\ \A q \in Renders \ {r} : pc'[q] = pc[q] \/ (pc[q] = "queued" /\ pc'[q] = "woken")
<1>c. Inside \in SUBSET Renders /\ Woken \in SUBSET Renders /\ r \in Inside /\ r \notin Woken
  BY DEF Inside, Woken
<1>n. /\ Cardinality(Inside) \in Nat /\ Cardinality(Woken) \in Nat /\ MaxRenders \in Nat
      /\ Cardinality(Inside \ {r}) = Cardinality(Inside) - 1
  BY <1>c, RenderCount, SharingAssumption
<1>1. CASE waiters = <<>>
  <2>1. /\ running' = running - 1 /\ waiters' = waiters
        /\ pc' = [q \in Renders |-> IF q = r THEN "done" ELSE pc[q]]
    BY <1>1 DEF Release
  <2>2. /\ pc' \in [Renders -> Places] /\ pc'[r] = "done"
        /\ \A q \in Renders \ {r} : pc'[q] = pc[q]
    BY <2>1 DEF Types, Places
  <2>3. Inside' = Inside \ {r}
    BY <2>2 DEF Inside
  <2>4. LimiterInv'
    BY <1>1, <1>n, <2>1, <2>3 DEF LimiterInv
  <2>5. QueueInv'
    BY <1>1, <2>1 DEF QueueInv
  <2> QED
    BY <2>1, <2>2, <2>4, <2>5 DEF Types
<1>2. CASE waiters # <<>>
  <2> DEFINE h == Head(waiters)
             rest == Tail(waiters)
  <2>1. /\ running' = running - 1 /\ waiters' = rest
        /\ pc' = [q \in Renders |-> IF q = r THEN "done" ELSE IF q = h THEN "woken" ELSE pc[q]]
    BY <1>2 DEF Release
  <2>2. /\ h \in Renders /\ pc[h] = "queued" /\ rest \in Seq(Renders)
        /\ \A i \in DOMAIN rest : pc[rest[i]] = "queued" /\ rest[i] # h
        /\ \A i, j \in DOMAIN rest : rest[i] = rest[j] => i = j
    BY <1>2, QueueTail
  <2>3. \A i \in DOMAIN rest : rest[i] \in Renders
    BY <2>2, ElementOfSeq, LenProperties
  <2> HIDE DEF h, rest
  <2>4. /\ pc' \in [Renders -> Places] /\ pc'[r] = "done" /\ pc'[h] = "woken" /\ h # r
        /\ \A q \in Renders \ {r, h} : pc'[q] = pc[q]
    BY <2>1, <2>2 DEF Types, Places
  <2>5. QueueInv'
    <3>1. \A i \in DOMAIN rest : pc'[rest[i]] = "queued"
      BY <2>2, <2>3, <2>4
    <3> QED
      BY <2>1, <2>2, <3>1 DEF QueueInv
  <2>6. Inside' = Inside \ {r} /\ Woken' = Woken \cup {h} /\ h \notin Woken
    BY <2>2, <2>4 DEF Inside, Woken
  <2>7. Cardinality(Woken') = Cardinality(Woken) + 1
    BY <1>c, <2>2, <2>6, RenderCount
  <2>8. LimiterInv'
    <3>1. running + Cardinality(Woken) >= MaxRenders
      BY <1>2 DEF LimiterInv
    <3> QED
      BY <1>n, <2>1, <2>6, <2>7, <3>1 DEF LimiterInv
  <2> QED
    BY <2>1, <2>2, <2>4, <2>5, <2>8
<1> QED
  BY <1>1, <1>2

----------------------------------------------------------------------------
(* The connection.                                                         *)

(* A step of the limiter touches nobody who has to do with a connection.   *)
LEMMA ConnectionUntouched ==
  ASSUME ConnectionInv, UNCHANGED Connection,
         \A q \in Renders : pc'[q] = pc[q] \/ {pc[q], pc'[q]} \cap {"joining", "using"} = {}
  PROVE  ConnectionInv'
<1>1. /\ attempt' = attempt /\ cdpBrowser' = cdpBrowser /\ cdpConnecting' = cdpConnecting
      /\ cdpWaiters' = cdpWaiters /\ slot' = slot
  BY DEF Connection
<1>2. \A q \in Renders : (pc'[q] = "joining" <=> pc[q] = "joining")
                         /\ (pc'[q] = "using" <=> pc[q] = "using")
  BY Zenon
<1>3. Joining' = Joining
  BY <1>2 DEF Joining
<1> QED
  BY <1>1, <1>2, <1>3 DEF ConnectionInv

LEMMA EndKeeps ==
  ASSUME Types, ConnectionInv, NEW r \in Renders, pc[r] \in {"using", "ending"},
         pc'[r] = "done",
         \A q \in Renders \ {r} : pc'[q] = pc[q] \/ (pc[q] = "queued" /\ pc'[q] = "woken"),
         slot' = [slot EXCEPT ![r] = NoAttempt],
         UNCHANGED <<attempt, cdpBrowser, cdpConnecting, cdpWaiters>>
  PROVE  ConnectionInv' /\ slot' \in [Renders -> Attempts \cup {NoAttempt}]
<1>1. /\ slot' \in [Renders -> Attempts \cup {NoAttempt}]
      /\ \A q \in Renders \ {r} : slot'[q] = slot[q]
  BY DEF Types
<1>2. \A q \in Renders : (pc'[q] = "joining" <=> pc[q] = "joining")
                         /\ (pc'[q] = "using" => pc[q] = "using" /\ q # r)
                         /\ (pc[q] = "joining" => q # r)
  OBVIOUS
<1>3. Joining' = Joining
  BY <1>2 DEF Joining
<1>4. /\ \A q \in Renders : pc'[q] = "using" =>
           slot'[q] \in Attempts /\ attempt'[slot'[q]] = "open"
      /\ \A q \in Renders : pc'[q] = "joining" =>
           /\ slot'[q] \in Attempts /\ attempt'[slot'[q]] \in {"pending", "open", "failed"}
           /\ attempt'[slot'[q]] = "pending" => cdpConnecting' = slot'[q]
  BY <1>1, <1>2 DEF ConnectionInv
<1>5. \A a \in Attempts : cdpConnecting' = a =>
        /\ attempt'[a] \in {"pending", "open"}
        /\ attempt'[a] = "pending" =>
             cdpBrowser' = NoAttempt /\ \E q \in Renders : pc'[q] = "joining" /\ slot'[q] = a
  <2> SUFFICES ASSUME NEW a \in Attempts, cdpConnecting = a, attempt[a] = "pending"
               PROVE  \E q \in Renders : pc'[q] = "joining" /\ slot'[q] = a
    BY DEF ConnectionInv
  <2>1. PICK q \in Renders : pc[q] = "joining" /\ slot[q] = a
    BY DEF ConnectionInv
  <2> QED
    BY <1>1, <1>2, <2>1
<1> QED
  BY <1>1, <1>3, <1>4, <1>5 DEF ConnectionInv

ConnectionTypes ==
  /\ attempt \in [Attempts -> Statuses]
  /\ cdpBrowser \in Attempts \cup {NoAttempt}
  /\ cdpConnecting \in Attempts \cup {NoAttempt}
  /\ slot \in [Renders -> Attempts \cup {NoAttempt}]

(* What a move does to the sets that are counted.                          *)
LEMMA MoveOne ==
  ASSUME Types, NEW r \in Renders, NEW place \in Places, Goes(r, place)
  PROVE  /\ pc'[r] = place /\ \A q \in Renders \ {r} : pc'[q] = pc[q]
         /\ place = "joining" => Joining' = Joining \cup {r}
         /\ place # "joining" => Joining' = Joining \ {r}
  BY DEF Goes, Types, Joining

LEMMA UseCachedKeeps ==
  ASSUME Types, ConnectionInv, NEW r \in Renders, UseCached(r)
  PROVE  ConnectionInv' /\ ConnectionTypes'
<1>1. /\ pc[r] = "loading" /\ cdpBrowser # NoAttempt /\ slot' = [slot EXCEPT ![r] = cdpBrowser]
      /\ Goes(r, "using") /\ "using" \in Places
      /\ attempt' = attempt /\ cdpBrowser' = cdpBrowser /\ cdpConnecting' = cdpConnecting
      /\ cdpWaiters' = cdpWaiters
  BY DEF UseCached, Places
<1>2. /\ pc'[r] = "using" /\ \A q \in Renders \ {r} : pc'[q] = pc[q]
      /\ Joining' = Joining
  BY <1>1, MoveOne DEF Joining
<1>3. ConnectionTypes' /\ slot'[r] = cdpBrowser /\ \A q \in Renders \ {r} : slot'[q] = slot[q]
  BY <1>1 DEF Types, ConnectionTypes
<1>4. cdpBrowser \in Attempts /\ attempt[cdpBrowser] = "open"
  BY <1>1 DEF Types, ConnectionInv
<1>5. \A a \in Attempts : cdpConnecting' = a =>
        /\ attempt'[a] \in {"pending", "open"}
        /\ attempt'[a] = "pending" =>
             cdpBrowser' = NoAttempt /\ \E q \in Renders : pc'[q] = "joining" /\ slot'[q] = a
  BY <1>1 DEF ConnectionInv
<1> QED
  BY <1>1, <1>2, <1>3, <1>4, <1>5 DEF ConnectionInv

LEMMA JoinKeeps ==
  ASSUME Types, ConnectionInv, NEW r \in Renders, Join(r)
  PROVE  ConnectionInv' /\ ConnectionTypes'
<1>1. /\ pc[r] = "loading" /\ cdpBrowser = NoAttempt /\ cdpConnecting # NoAttempt
      /\ slot' = [slot EXCEPT ![r] = cdpConnecting]
      /\ Goes(r, "joining") /\ "joining" \in Places
      /\ attempt' = attempt /\ cdpBrowser' = cdpBrowser /\ cdpConnecting' = cdpConnecting
      /\ cdpWaiters' = cdpWaiters + 1
  BY DEF Join, Places
<1>2. /\ pc'[r] = "joining" /\ \A q \in Renders \ {r} : pc'[q] = pc[q]
      /\ Joining' = Joining \cup {r} /\ r \notin Joining
  BY <1>1, MoveOne DEF Joining
<1>3. /\ ConnectionTypes' /\ slot'[r] = cdpConnecting
      /\ \A q \in Renders \ {r} : slot'[q] = slot[q]
  BY <1>1 DEF Types, ConnectionTypes
<1>4. cdpConnecting \in Attempts /\ attempt[cdpConnecting] \in {"pending", "open"}
  BY <1>1 DEF Types, ConnectionInv
<1>5. cdpWaiters' = Cardinality(Joining')
  <2>1. Joining \in SUBSET Renders
    BY DEF Joining
  <2> QED
    BY <1>1, <1>2, <2>1, RenderCount DEF ConnectionInv
<1>6. \A a \in Attempts : cdpConnecting' = a =>
        /\ attempt'[a] \in {"pending", "open"}
        /\ attempt'[a] = "pending" =>
             cdpBrowser' = NoAttempt /\ \E q \in Renders : pc'[q] = "joining" /\ slot'[q] = a
  BY <1>1, <1>2, <1>3, <1>4
<1> QED
  BY <1>1, <1>2, <1>3, <1>4, <1>5, <1>6 DEF ConnectionInv

LEMMA ConnectKeeps ==
  ASSUME Types, ConnectionInv, NEW r \in Renders, Connect(r)
  PROVE  ConnectionInv' /\ ConnectionTypes'
<1>1. PICK a \in Attempts :
        /\ Nameable(a) /\ attempt' = [attempt EXCEPT ![a] = "pending"]
        /\ cdpConnecting' = a /\ slot' = [slot EXCEPT ![r] = a]
  BY DEF Connect
<1>2. /\ pc[r] = "loading" /\ cdpBrowser = NoAttempt /\ cdpConnecting = NoAttempt
      /\ Goes(r, "joining") /\ "joining" \in Places /\ cdpBrowser' = cdpBrowser
      /\ cdpWaiters' = cdpWaiters + 1
  BY DEF Connect, Places
<1>3. /\ pc'[r] = "joining" /\ \A q \in Renders \ {r} : pc'[q] = pc[q]
      /\ Joining' = Joining \cup {r} /\ r \notin Joining
  BY <1>2, MoveOne DEF Joining
<1>4. /\ ConnectionTypes' /\ slot'[r] = a /\ attempt'[a] = "pending"
      /\ \A q \in Renders \ {r} : slot'[q] = slot[q]
      /\ \A b \in Attempts \ {a} : attempt'[b] = attempt[b]
  BY <1>1, <1>2 DEF Types, ConnectionTypes, Statuses
<1>5. \A q \in Renders : slot[q] # a
  BY <1>1 DEF Nameable
<1>6. cdpWaiters' = Cardinality(Joining')
  <2>1. Joining \in SUBSET Renders
    BY DEF Joining
  <2> QED
    BY <1>2, <1>3, <2>1, RenderCount DEF ConnectionInv
<1>7. \A b \in Attempts : attempt[b] # "open"
  BY <1>2, SharingAssumption DEF ConnectionInv
<1>8. \A b \in Attempts : attempt'[b] = "open" <=> cdpBrowser' = b
  BY <1>2, <1>4, <1>7, SharingAssumption
<1>9. \A q \in Renders : pc'[q] = "joining" =>
        /\ slot'[q] \in Attempts /\ attempt'[slot'[q]] \in {"pending", "open", "failed"}
        /\ attempt'[slot'[q]] = "pending" => cdpConnecting' = slot'[q]
  <2> SUFFICES ASSUME NEW q \in Renders, q # r, pc'[q] = "joining"
               PROVE  /\ slot'[q] \in Attempts
                      /\ attempt'[slot'[q]] \in {"pending", "open", "failed"}
                      /\ attempt'[slot'[q]] = "pending" => cdpConnecting' = slot'[q]
    BY <1>1, <1>4
  <2>1. /\ pc[q] = "joining" /\ slot'[q] = slot[q] /\ slot[q] \in Attempts \ {a}
        /\ attempt'[slot'[q]] = attempt[slot[q]]
    BY <1>3, <1>4, <1>5 DEF ConnectionInv
  <2>2. attempt[slot[q]] # "pending"
    BY <1>2, <2>1, SharingAssumption DEF ConnectionInv
  <2> QED
    BY <2>1, <2>2 DEF ConnectionInv
<1>10. \A q \in Renders : pc'[q] = "using" =>
         slot'[q] \in Attempts /\ attempt'[slot'[q]] = "open"
  BY <1>3, <1>4, <1>5 DEF ConnectionInv
<1>11. \A b \in Attempts : cdpConnecting' = b =>
         /\ attempt'[b] \in {"pending", "open"}
         /\ attempt'[b] = "pending" =>
              cdpBrowser' = NoAttempt /\ \E q \in Renders : pc'[q] = "joining" /\ slot'[q] = b
  BY <1>1, <1>2, <1>3, <1>4
<1> QED
  BY <1>6, <1>8, <1>9, <1>10, <1>11, <1>4 DEF ConnectionInv

(* An attempt settles.  If it still counts, it has waiters; if not, nobody *)
(* awaits it any more.                                                     *)
LEMMA SucceedKeeps ==
  ASSUME Types, ConnectionInv, NEW a \in Attempts, Succeed(a)
  PROVE  ConnectionInv' /\ ConnectionTypes'
<1>1. /\ attempt[a] = "pending" /\ pc' = pc /\ cdpWaiters' = cdpWaiters /\ slot' = slot
      /\ attempt' = [attempt EXCEPT ![a] = IF Keeps(a) THEN "open" ELSE "closed"]
      /\ cdpBrowser' = IF Keeps(a) THEN a ELSE cdpBrowser
      /\ cdpConnecting' = IF cdpConnecting = a /\ ~Keeps(a) THEN NoAttempt ELSE cdpConnecting
  BY DEF Succeed
<1>2. /\ attempt'[a] = IF Keeps(a) THEN "open" ELSE "closed"
      /\ \A b \in Attempts \ {a} : attempt'[b] = attempt[b]
      /\ ConnectionTypes' /\ Joining' = Joining
  BY <1>1 DEF Types, ConnectionTypes, Statuses, Joining
<1>3. cdpConnecting = a => Keeps(a) /\ cdpBrowser = NoAttempt
  <2> SUFFICES ASSUME cdpConnecting = a PROVE Keeps(a) /\ cdpBrowser = NoAttempt
    OBVIOUS
  <2>1. cdpBrowser = NoAttempt /\ Joining # {}
    BY <1>1 DEF ConnectionInv, Joining
  <2>2. Joining \in SUBSET Renders
    BY DEF Joining
  <2>3. cdpWaiters > 0
    BY <2>1, <2>2, RenderCount DEF ConnectionInv
  <2> QED
    BY <2>1, <2>3 DEF Keeps
<1>4. CASE cdpConnecting = a
  <2>1. attempt'[a] = "open" /\ cdpBrowser' = a /\ cdpConnecting' = a
    BY <1>1, <1>2, <1>3, <1>4
  <2>2. \A b \in Attempts : attempt[b] # "open"
    BY <1>3, <1>4, SharingAssumption DEF ConnectionInv
  <2>3. \A b \in Attempts : attempt'[b] = "open" <=> cdpBrowser' = b
    BY <1>2, <2>1, <2>2
  <2>4. \A q \in Renders : pc'[q] = "joining" =>
          /\ slot'[q] \in Attempts /\ attempt'[slot'[q]] \in {"pending", "open", "failed"}
          /\ attempt'[slot'[q]] = "pending" => cdpConnecting' = slot'[q]
    BY <1>1, <1>2, <1>4, <2>1 DEF ConnectionInv
  <2>5. \A q \in Renders : pc'[q] # "using"
    BY <1>1, <2>2 DEF ConnectionInv
  <2> QED
    BY <1>1, <1>2, <2>1, <2>3, <2>4, <2>5 DEF ConnectionInv
<1>5. CASE cdpConnecting # a
  <2>1. attempt'[a] = "closed" /\ cdpBrowser' = cdpBrowser /\ cdpConnecting' = cdpConnecting
    BY <1>1, <1>2, <1>5 DEF Keeps
  <2>2. \A q \in Renders : pc[q] = "joining" \/ pc[q] = "using" => slot[q] # a
    BY <1>1, <1>5 DEF ConnectionInv
  <2>3. cdpBrowser # a
    BY <1>1 DEF ConnectionInv
  <2>4. /\ \A q \in Renders : pc'[q] = "using" =>
             slot'[q] \in Attempts /\ attempt'[slot'[q]] = "open"
        /\ \A q \in Renders : pc'[q] = "joining" =>
             /\ slot'[q] \in Attempts /\ attempt'[slot'[q]] \in {"pending", "open", "failed"}
             /\ attempt'[slot'[q]] = "pending" => cdpConnecting' = slot'[q]
    BY <1>1, <1>2, <2>1, <2>2 DEF ConnectionInv
  <2>5. \A b \in Attempts : attempt'[b] = "open" <=> cdpBrowser' = b
    BY <1>2, <2>1, <2>3 DEF ConnectionInv
  <2>6. \A b \in Attempts : cdpConnecting' = b =>
          /\ attempt'[b] \in {"pending", "open"}
          /\ attempt'[b] = "pending" =>
               cdpBrowser' = NoAttempt /\ \E q \in Renders : pc'[q] = "joining" /\ slot'[q] = b
    BY <1>1, <1>2, <1>5, <2>1 DEF ConnectionInv
  <2> QED
    BY <1>1, <1>2, <2>4, <2>5, <2>6 DEF ConnectionInv
<1> QED
  BY <1>2, <1>4, <1>5

LEMMA FailKeeps ==
  ASSUME Types, ConnectionInv, NEW a \in Attempts, Fail(a)
  PROVE  ConnectionInv' /\ ConnectionTypes'
<1>1. /\ attempt[a] = "pending" /\ pc' = pc /\ cdpWaiters' = cdpWaiters /\ slot' = slot
      /\ attempt' = [attempt EXCEPT ![a] = "failed"] /\ cdpBrowser' = cdpBrowser
      /\ cdpConnecting' = IF cdpConnecting = a THEN NoAttempt ELSE cdpConnecting
  BY DEF Fail
<1>2. /\ attempt'[a] = "failed" /\ \A b \in Attempts \ {a} : attempt'[b] = attempt[b]
      /\ ConnectionTypes' /\ Joining' = Joining
  BY <1>1 DEF Types, ConnectionTypes, Statuses, Joining
<1>3. cdpBrowser # a
  BY <1>1 DEF ConnectionInv
<1>4. \A b \in Attempts : attempt'[b] = "open" <=> cdpBrowser' = b
  BY <1>1, <1>2, <1>3 DEF ConnectionInv
<1>5. \A q \in Renders : pc'[q] = "using" => slot'[q] \in Attempts /\ attempt'[slot'[q]] = "open"
  <2>1. \A q \in Renders : pc[q] = "using" => slot[q] # a
    BY <1>1 DEF ConnectionInv
  <2> QED
    BY <1>1, <1>2, <2>1 DEF ConnectionInv
<1>6. \A q \in Renders : pc'[q] = "joining" =>
        /\ slot'[q] \in Attempts /\ attempt'[slot'[q]] \in {"pending", "open", "failed"}
        /\ attempt'[slot'[q]] = "pending" => cdpConnecting' = slot'[q]
  BY <1>1, <1>2 DEF ConnectionInv
<1>7. \A b \in Attempts : cdpConnecting' = b =>
        /\ attempt'[b] \in {"pending", "open"}
        /\ attempt'[b] = "pending" =>
             cdpBrowser' = NoAttempt /\ \E q \in Renders : pc'[q] = "joining" /\ slot'[q] = b
  BY <1>1, <1>2, SharingAssumption DEF ConnectionInv
<1> QED
  BY <1>1, <1>2, <1>4, <1>5, <1>6, <1>7 DEF ConnectionInv

(* Whoever stops waiting leaves the attempt to the others: when somebody   *)
(* stays, somebody who awaits the pending attempt does, because a timer    *)
(* only fires when everybody's attempt is pending, which is then the same. *)
LEMMA LeaveKeeps ==
  ASSUME Types, ConnectionInv, NEW r \in Renders, NEW place \in {"using", "ending"},
         pc[r] = "joining", Leave(r), Goes(r, place), attempt[slot[r]] = "pending" => Drained,
         place = "using" => attempt[slot[r]] = "open",
         UNCHANGED <<attempt, cdpBrowser, slot>>
  PROVE  ConnectionInv' /\ ConnectionTypes'
<1>1. /\ attempt' = attempt /\ cdpBrowser' = cdpBrowser /\ slot' = slot
      /\ cdpWaiters' = cdpWaiters - 1
      /\ cdpConnecting' = IF cdpWaiters' = 0 /\ cdpConnecting = slot[r] THEN NoAttempt
                          ELSE cdpConnecting
  BY DEF Leave
<1>2. /\ pc'[r] = place /\ \A q \in Renders \ {r} : pc'[q] = pc[q]
      /\ Joining' = Joining \ {r} /\ r \in Joining /\ Joining \in SUBSET Renders
  <2>1. place \in Places /\ place # "joining"
    BY DEF Places
  <2> QED
    BY <2>1, MoveOne DEF Joining
<1>3. cdpWaiters' = Cardinality(Joining') /\ (cdpWaiters' = 0 <=> Joining' = {})
  <2>1. Cardinality(Joining \ {r}) = Cardinality(Joining) - 1
    BY <1>2, RenderCount
  <2>2. Joining' \in SUBSET Renders
    BY <1>2
  <2> QED
    BY <1>1, <1>2, <2>1, <2>2, RenderCount DEF ConnectionInv
<1>4. ConnectionTypes'
  BY <1>1 DEF Types, ConnectionTypes
<1>5. \A q \in Renders : pc'[q] = "using" => slot'[q] \in Attempts /\ attempt'[slot'[q]] = "open"
  BY <1>1, <1>2 DEF ConnectionInv
<1>6. \A q \in Renders : pc'[q] = "joining" => cdpConnecting' = cdpConnecting
  BY <1>1, <1>3 DEF Joining
<1>7. \A q \in Renders : pc'[q] = "joining" =>
        /\ slot'[q] \in Attempts /\ attempt'[slot'[q]] \in {"pending", "open", "failed"}
        /\ attempt'[slot'[q]] = "pending" => cdpConnecting' = slot'[q]
  <2> TAKE q \in Renders
  <2> HAVE pc'[q] = "joining"
  <2>1. pc[q] = "joining" /\ cdpConnecting' = cdpConnecting
    BY <1>2, <1>6
  <2> QED
    BY <1>1, <2>1 DEF ConnectionInv
<1>8. \A a \in Attempts : cdpConnecting' = a =>
        /\ attempt'[a] \in {"pending", "open"}
        /\ attempt'[a] = "pending" =>
             cdpBrowser' = NoAttempt /\ \E q \in Renders : pc'[q] = "joining" /\ slot'[q] = a
  <2> SUFFICES ASSUME NEW a \in Attempts, cdpConnecting' = a
               PROVE  /\ attempt'[a] \in {"pending", "open"}
                      /\ attempt'[a] = "pending" =>
                           /\ cdpBrowser' = NoAttempt
                           /\ \E q \in Renders : pc'[q] = "joining" /\ slot'[q] = a
    OBVIOUS
  <2>1. cdpConnecting = a
    BY <1>1, SharingAssumption
  <2>2. attempt[a] \in {"pending", "open"} /\ (attempt[a] = "pending" => cdpBrowser = NoAttempt)
    BY <2>1 DEF ConnectionInv
  <2>3. ASSUME attempt[a] = "pending"
        PROVE  \E q \in Renders : pc'[q] = "joining" /\ slot'[q] = a
    <3>1. PICK w \in Renders : pc[w] = "joining" /\ slot[w] = a
      BY <2>1, <2>3 DEF ConnectionInv
    <3>2. CASE w # r
      BY <1>1, <1>2, <3>1, <3>2
    <3>3. CASE w = r
      <4>1. Joining' # {}
        BY <1>1, <1>3, <2>1, <3>1, <3>3, SharingAssumption
      <4>2. PICK q \in Renders \ {r} : pc[q] = "joining"
        BY <1>2, <4>1 DEF Joining
      <4>3. attempt[slot[q]] = "pending"
        BY <2>3, <3>1, <3>3, <4>2 DEF Drained
      <4>4. slot[q] = a
        BY <2>1, <4>2, <4>3 DEF ConnectionInv
      <4> QED
        BY <1>1, <1>2, <4>2, <4>4
    <3> QED
      BY <3>2, <3>3
  <2> QED
    BY <1>1, <2>2, <2>3
<1> QED
  BY <1>1, <1>3, <1>4, <1>5, <1>7, <1>8 DEF ConnectionInv

----------------------------------------------------------------------------
LEMMA SharingInductive == SharingInv /\ [Next]_vars => SharingInv'
<1> SUFFICES ASSUME SharingInv, [Next]_vars PROVE SharingInv'
  OBVIOUS
<1>i. Types /\ QueueInv /\ LimiterInv /\ ConnectionInv
  BY DEF SharingInv
<1>t. ASSUME ConnectionTypes', pc' \in [Renders -> Places], waiters' \in Seq(Renders) PROVE Types'
  BY <1>t DEF ConnectionTypes, Types
<1>u. UNCHANGED Connection => ConnectionTypes'
  BY <1>i DEF Connection, ConnectionTypes, Types
<1>w. UNCHANGED Limiter => waiters' \in Seq(Renders)
  BY <1>i DEF Limiter, Types
<1>1. ASSUME NEW r \in Renders, Ask(r) \/ LookAgain(r) PROVE SharingInv'
  <2>1. pc[r] \in {"idle", "woken"} /\ Enter(r) /\ UNCHANGED Connection
    BY <1>1 DEF Ask, LookAgain
  <2>2. /\ QueueInv' /\ LimiterInv' /\ pc' \in [Renders -> Places] /\ waiters' \in Seq(Renders)
        /\ pc'[r] \in {"loading", "queued"} /\ \A q \in Renders \ {r} : pc'[q] = pc[q]
    BY <1>i, <2>1, EnterKeeps
  <2>3. ConnectionInv'
    BY <1>i, <2>1, <2>2, ConnectionUntouched
  <2> QED
    BY <1>t, <1>u, <2>1, <2>2, <2>3 DEF SharingInv
<1>2. ASSUME NEW r \in Renders, Again(r) \/ NotLoaded(r) PROVE SharingInv'
  <2>1. PICK place \in {"idle", "ending"} :
          /\ Still(r, place) /\ Goes(r, place) /\ pc[r] \in {"done", "loading"}
          /\ UNCHANGED Limiter /\ UNCHANGED Connection
    BY <1>2 DEF Again, NotLoaded, Still
  <2>2. place \in Places
    BY DEF Places
  <2>3. QueueInv' /\ LimiterInv' /\ pc' \in [Renders -> Places]
    BY <1>i, <2>1, <2>2, StillKeeps
  <2>4. ConnectionInv'
    <3>1. pc'[r] = place /\ \A q \in Renders \ {r} : pc'[q] = pc[q]
      BY <1>i, <2>1, <2>2, MoveOne
    <3> QED
      BY <1>i, <2>1, <3>1, ConnectionUntouched
  <2> QED
    BY <1>t, <1>u, <1>w, <2>1, <2>3, <2>4 DEF SharingInv
<1>3. ASSUME NEW r \in Renders, End(r) PROVE SharingInv'
  <2>1. /\ pc[r] \in {"using", "ending"} /\ Release(r) /\ slot' = [slot EXCEPT ![r] = NoAttempt]
        /\ UNCHANGED <<attempt, cdpBrowser, cdpConnecting, cdpWaiters>>
    BY <1>3 DEF End
  <2>2. /\ QueueInv' /\ LimiterInv' /\ pc' \in [Renders -> Places] /\ waiters' \in Seq(Renders)
        /\ pc'[r] = "done"
        /\ \A q \in Renders \ {r} : pc'[q] = pc[q] \/ (pc[q] = "queued" /\ pc'[q] = "woken")
    BY <1>i, <2>1, ReleaseKeeps
  <2>3. ConnectionInv' /\ slot' \in [Renders -> Attempts \cup {NoAttempt}]
    BY <1>i, <2>1, <2>2, EndKeeps
  <2>4. ConnectionTypes'
    BY <1>i, <2>1, <2>3 DEF Types, ConnectionTypes
  <2> QED
    BY <1>t, <2>2, <2>3, <2>4 DEF SharingInv
<1>4. ASSUME NEW r \in Renders, NEW place \in {"joining", "using", "ending"},
             pc[r] \in {"loading", "joining"}, Goes(r, place), UNCHANGED Limiter,
             ConnectionInv', ConnectionTypes'
      PROVE  SharingInv'
  <2>1. place \in Places /\ Still(r, place)
    BY <1>4 DEF Places, Still
  <2>2. QueueInv' /\ LimiterInv' /\ pc' \in [Renders -> Places]
    BY <1>i, <1>4, <2>1, StillKeeps
  <2> QED
    BY <1>t, <1>w, <1>4, <2>2 DEF SharingInv
<1>5. ASSUME NEW r \in Renders, UseCached(r) PROVE SharingInv'
  <2>1. pc[r] = "loading" /\ Goes(r, "using") /\ UNCHANGED Limiter
    BY <1>5 DEF UseCached
  <2> QED
    BY <1>i, <1>4, <1>5, <2>1, UseCachedKeeps
<1>6. ASSUME NEW r \in Renders, Join(r) PROVE SharingInv'
  <2>1. pc[r] = "loading" /\ Goes(r, "joining") /\ UNCHANGED Limiter
    BY <1>6 DEF Join
  <2> QED
    BY <1>i, <1>4, <1>6, <2>1, JoinKeeps
<1>7. ASSUME NEW r \in Renders, Connect(r) PROVE SharingInv'
  <2>1. pc[r] = "loading" /\ Goes(r, "joining") /\ UNCHANGED Limiter
    BY <1>7 DEF Connect
  <2> QED
    BY <1>i, <1>4, <1>7, <2>1, ConnectKeeps
<1>8. ASSUME NEW r \in Renders, TakeBrowser(r) \/ SeeFailure(r) \/ GiveUp(r) PROVE SharingInv'
  <2>1. /\ pc[r] = "joining" /\ Leave(r) /\ UNCHANGED Limiter
        /\ UNCHANGED <<attempt, cdpBrowser, slot>>
        /\ attempt[slot[r]] = "pending" => Drained
    BY <1>8 DEF TakeBrowser, SeeFailure, GiveUp
  <2>2. slot[r] \in Attempts /\ attempt[slot[r]] \in {"pending", "open", "failed"}
    BY <1>i, <2>1 DEF ConnectionInv
  <2>3. PICK place \in {"using", "ending"} :
          Goes(r, place) /\ (place = "using" => attempt[slot[r]] = "open")
    BY <1>8, <2>2 DEF TakeBrowser, SeeFailure, GiveUp
  <2>4. ConnectionInv' /\ ConnectionTypes'
    BY <1>i, <2>1, <2>3, LeaveKeeps
  <2> QED
    BY <1>4, <2>1, <2>3, <2>4
<1>9. ASSUME NEW a \in Attempts, Succeed(a) \/ Fail(a) PROVE SharingInv'
  <2>1. ConnectionInv' /\ ConnectionTypes'
    BY <1>i, <1>9, SucceedKeeps, FailKeeps
  <2>2. pc' = pc /\ running' = running /\ waiters' = waiters
    BY <1>9 DEF Succeed, Fail, Limiter
  <2>3. QueueInv' /\ LimiterInv'
    BY <1>i, <2>2 DEF QueueInv, LimiterInv, Inside, Woken
  <2>4. Types'
    BY <1>i, <2>1, <2>2 DEF Types, ConnectionTypes
  <2> QED
    BY <2>1, <2>3, <2>4 DEF SharingInv
<1>10. CASE UNCHANGED vars
  BY <1>i, <1>10 DEF vars, SharingInv, Types, QueueInv, LimiterInv, ConnectionInv, Inside, Woken,
     Joining
<1> QED
  BY <1>1, <1>2, <1>3, <1>5, <1>6, <1>7, <1>8, <1>9, <1>10 DEF Next, Proceed, Finished

LEMMA SharingInit == Init => SharingInv
<1> SUFFICES ASSUME Init PROVE SharingInv
  OBVIOUS
<1>1. Types
  BY DEF Init, Types, Places, Statuses
<1>2. Inside = {} /\ Woken = {} /\ Joining = {}
  BY DEF Init, Inside, Woken, Joining
<1>3. LimiterInv
  BY <1>2, FS_EmptySet, SharingAssumption DEF Init, LimiterInv
<1>4. QueueInv
  BY DEF Init, QueueInv
<1>5. ConnectionInv
  BY <1>2, FS_EmptySet, SharingAssumption DEF Init, ConnectionInv
<1> QED
  BY <1>1, <1>3, <1>4, <1>5 DEF SharingInv

THEOREM SharingInvariant == Spec => []SharingInv
  BY SharingInit, SharingInductive, PTL DEF Spec

(* Every variable keeps its type; neither counter leaves its range, so     *)
(* cdpWaiters never goes below zero however often connectCdpSingleFlight   *)
(* is left.                                                                *)
THEOREM TypeCorrect == Spec => []TypeOK
<1>1. SharingInv => TypeOK
  <2> SUFFICES ASSUME SharingInv PROVE TypeOK
    OBVIOUS
  <2>1. Inside \in SUBSET Renders /\ Joining \in SUBSET Renders
    BY DEF Inside, Joining
  <2>2. running \in 0..MaxRenders /\ cdpWaiters \in 0..Cardinality(Renders)
    <3>1. /\ Cardinality(Inside) \in Nat /\ Cardinality(Joining) \in Nat
          /\ Cardinality(Joining) <= Cardinality(Renders)
      BY <2>1, RenderCount
    <3>2. Renders \in SUBSET Renders
      OBVIOUS
    <3>3. Cardinality(Renders) \in Nat
      BY <3>2, RenderCount
    <3> QED
      BY <3>1, <3>3, SharingAssumption DEF SharingInv, LimiterInv, ConnectionInv
  <2> QED
    BY <2>2 DEF SharingInv, Types, TypeOK, Statuses
<1> QED
  BY <1>1, SharingInvariant, PTL

(* For any number of renders, places and attempts: createRenderLimiter     *)
(* never lets more than its limit in nor leaves a place idle beside a      *)
(* queue without somebody on the way to it, and connectCdpSingleFlight     *)
(* hands out only the one cached browser, open, and leaves no attempt to   *)
(* be joined that nobody awaits.                                           *)
THEOREM BrowserStaysUsable == Spec => []BrowserUsable
<1>1. SharingInv => BrowserUsable
  <2> SUFFICES ASSUME SharingInv PROVE BrowserUsable
    OBVIOUS
  <2>1. /\ running = Cardinality(Inside) /\ running <= MaxRenders
        /\ waiters # <<>> =>
             running + Cardinality({r \in Renders : pc[r] = "woken"}) >= MaxRenders
    BY DEF SharingInv, LimiterInv, Woken
  <2>2. cdpWaiters = Cardinality({r \in Renders : pc[r] = "joining"})
    BY DEF SharingInv, ConnectionInv, Joining
  <2>3. /\ \A r \in Renders : pc[r] = "using" => attempt[slot[r]] = "open"
        /\ \A a \in Attempts : attempt[a] = "open" => cdpBrowser = a
        /\ \A a \in Attempts : cdpConnecting = a /\ attempt[a] = "pending" =>
             \E r \in Renders : pc[r] = "joining" /\ slot[r] = a
    BY DEF SharingInv, ConnectionInv
  <2> QED
    BY <2>1, <2>2, <2>3 DEF BrowserUsable
<1> QED
  BY <1>1, SharingInvariant, PTL
=============================================================================
