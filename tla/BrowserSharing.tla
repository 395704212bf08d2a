--------------------------- MODULE BrowserSharing ---------------------------
(***************************************************************************)
(* What concurrent renders share: the slots of the render limiter, and the *)
(* one connection to the remote browser, made by a single attempt that all *)
(* renders in need of it join, each with its own deadline.                 *)
(*                                                                         *)
(* An action is a block of render() between two awaits, or the settling of *)
(* a connection attempt.  A waiter that is woken, or whose attempt has     *)
(* settled, continues in a later block than the one that woke it.          *)
(***************************************************************************)
EXTENDS Integers, Sequences, FiniteSets, Functions

CONSTANTS
  Renders,     \* the calls of render()
  MaxRenders,  \* config.render.maxConcurrentRenders()
  Attempts,    \* bound: connection attempts distinguished at a time
  NoAttempt,   \* undefined
  Repeaters    \* the calls that are made again and again

ASSUME SharingAssumption ==
  /\ IsFiniteSet(Renders)
  /\ MaxRenders \in Nat \ {0}
  /\ NoAttempt \notin Attempts
  /\ Repeaters \subseteq Renders

VARIABLES
  pc,             \* where each call is suspended
  running,        \* renders past the limiter
  waiters,        \* the limiter's queue
  attempt,        \* what became of each connection attempt
  cdpBrowser,     \* the cached browser, named by its attempt
  cdpConnecting,  \* the attempt that new renders join
  cdpWaiters,     \* live waiters
  slot            \* the attempt whose browser a call awaits or uses

vars == <<pc, running, waiters, attempt, cdpBrowser, cdpConnecting, cdpWaiters, slot>>

Limiter == <<running, waiters>>
Connection == <<attempt, cdpBrowser, cdpConnecting, cdpWaiters, slot>>

Places ==
  {"idle", "queued", "woken", "loading", "joining", "using", "ending", "done"}

TypeOK ==
  /\ pc \in [Renders -> Places]
  /\ running \in 0..MaxRenders
  /\ waiters \in Seq(Renders)
  /\ attempt \in [Attempts -> {"unused", "pending", "open", "closed", "failed"}]
  /\ cdpBrowser \in Attempts \cup {NoAttempt}
  /\ cdpConnecting \in Attempts \cup {NoAttempt}
  /\ cdpWaiters \in 0..Cardinality(Renders)
  /\ slot \in [Renders -> Attempts \cup {NoAttempt}]

Init ==
  /\ pc = [r \in Renders |-> "idle"]
  /\ running = 0
  /\ waiters = <<>>
  /\ attempt = [a \in Attempts |-> "unused"]
  /\ cdpBrowser = NoAttempt
  /\ cdpConnecting = NoAttempt
  /\ cdpWaiters = 0
  /\ slot = [r \in Renders |-> NoAttempt]

Goes(r, place) == pc' = [pc EXCEPT ![r] = place]

----------------------------------------------------------------------------
(* The limiter: a call that is woken looks again, since another may have   *)
(* taken the place meanwhile, and then queues at the back.                 *)

Enter(r) ==
  \/ /\ running < MaxRenders
     /\ running' = running + 1
     /\ Goes(r, "loading")
     /\ UNCHANGED waiters
  \/ /\ running >= MaxRenders
     /\ waiters' = Append(waiters, r)
     /\ Goes(r, "queued")
     /\ UNCHANGED running

Ask(r) ==
  /\ pc[r] = "idle"
  /\ Enter(r)
  /\ UNCHANGED Connection

LookAgain(r) ==
  /\ pc[r] = "woken"
  /\ Enter(r)
  /\ UNCHANGED Connection

(* Mutant: nobody is woken. *)
Release_Silent(r) ==
  /\ running' = running - 1
  /\ UNCHANGED waiters
  /\ Goes(r, "done")

Release(r) ==
  LET next == IF waiters = <<>> THEN {} ELSE {Head(waiters)}
  IN /\ running' = running - 1
     /\ waiters' = IF next = {} THEN waiters ELSE Tail(waiters)
     /\ pc' = [q \in Renders |-> IF q = r THEN "done"
                                 ELSE IF q \in next THEN "woken" ELSE pc[q]]

(* The page and its context are closed; the remote browser is not.         *)
End(r) ==
  /\ pc[r] \in {"using", "ending"}
  /\ Release(r)
  /\ slot' = [slot EXCEPT ![r] = NoAttempt]
  /\ UNCHANGED <<attempt, cdpBrowser, cdpConnecting, cdpWaiters>>

Again(r) ==
  /\ r \in Repeaters
  /\ pc[r] = "done"
  /\ Goes(r, "idle")
  /\ UNCHANGED <<Limiter, Connection>>

----------------------------------------------------------------------------
(* connectCdpSingleFlight, once Playwright is loaded.                      *)

UseCached(r) ==
  /\ pc[r] = "loading"
  /\ cdpBrowser # NoAttempt
  /\ slot' = [slot EXCEPT ![r] = cdpBrowser]
  /\ Goes(r, "using")
  /\ UNCHANGED <<Limiter, attempt, cdpBrowser, cdpConnecting, cdpWaiters>>

(* Playwright did not load, or the call's signal has fired meanwhile.      *)
NotLoaded(r) ==
  /\ pc[r] = "loading"
  /\ Goes(r, "ending")
  /\ UNCHANGED <<Limiter, Connection>>

Join(r) ==
  /\ pc[r] = "loading"
  /\ cdpBrowser = NoAttempt
  /\ cdpConnecting # NoAttempt
  /\ slot' = [slot EXCEPT ![r] = cdpConnecting]
  /\ cdpWaiters' = cdpWaiters + 1
  /\ Goes(r, "joining")
  /\ UNCHANGED <<Limiter, attempt, cdpBrowser, cdpConnecting>>

(* An attempt that is over and that nobody refers to names a new one.      *)
Nameable(a) ==
  /\ attempt[a] \in {"unused", "closed", "failed"}
  /\ \A r \in Renders : slot[r] # a

Connect(r) ==
  /\ pc[r] = "loading"
  /\ cdpBrowser = NoAttempt
  /\ cdpConnecting = NoAttempt
  /\ \E a \in Attempts :
       /\ Nameable(a)
       /\ attempt' = [attempt EXCEPT ![a] = "pending"]
       /\ cdpConnecting' = a
       /\ slot' = [slot EXCEPT ![r] = a]
  /\ cdpWaiters' = cdpWaiters + 1
  /\ Goes(r, "joining")
  /\ UNCHANGED <<Limiter, cdpBrowser>>

----------------------------------------------------------------------------
(* The attempt settles, perhaps after everyone has gone.                   *)

Keeps(a) == cdpConnecting = a /\ cdpWaiters > 0

Succeed(a) ==
  /\ attempt[a] = "pending"
  /\ attempt' = [attempt EXCEPT ![a] = IF Keeps(a) THEN "open" ELSE "closed"]
  /\ cdpBrowser' = IF Keeps(a) THEN a ELSE cdpBrowser
  /\ cdpConnecting' = IF cdpConnecting = a /\ ~Keeps(a) THEN NoAttempt
                                                        ELSE cdpConnecting
  /\ UNCHANGED <<pc, Limiter, cdpWaiters, slot>>

Fail(a) ==
  /\ attempt[a] = "pending"
  /\ attempt' = [attempt EXCEPT ![a] = "failed"]
  /\ cdpConnecting' = IF cdpConnecting = a THEN NoAttempt ELSE cdpConnecting
  /\ UNCHANGED <<pc, Limiter, cdpBrowser, cdpWaiters, slot>>

(* attempt.finally: the last waiter detaches the attempt it joined.        *)

(* Mutant: whoever leaves detaches it. *)
Leave_First(r) ==
  /\ cdpWaiters' = cdpWaiters - 1
  /\ cdpConnecting' = IF cdpConnecting = slot[r] THEN NoAttempt ELSE cdpConnecting

Leave(r) ==
  /\ cdpWaiters' = cdpWaiters - 1
  /\ cdpConnecting' = IF cdpWaiters' = 0 /\ cdpConnecting = slot[r]
                        THEN NoAttempt ELSE cdpConnecting

TakeBrowser(r) ==
  /\ pc[r] = "joining"
  /\ attempt[slot[r]] \in {"open", "closed"}
  /\ Leave(r)
  /\ Goes(r, "using")
  /\ UNCHANGED <<Limiter, attempt, cdpBrowser, slot>>

SeeFailure(r) ==
  /\ pc[r] = "joining"
  /\ attempt[slot[r]] = "failed"
  /\ Leave(r)
  /\ Goes(r, "ending")
  /\ UNCHANGED <<Limiter, attempt, cdpBrowser, slot>>

(* Continuations of a settled attempt run before the next timer.           *)
Drained == \A r \in Renders : pc[r] = "joining" => attempt[slot[r]] = "pending"

(* The call's own timer or signal comes before the attempt.                *)
GiveUp(r) ==
  /\ pc[r] = "joining"
  /\ Drained
  /\ Leave(r)
  /\ Goes(r, "ending")
  /\ UNCHANGED <<Limiter, attempt, cdpBrowser, slot>>

----------------------------------------------------------------------------
Finished == (\A r \in Renders : pc[r] = "done") /\ UNCHANGED vars

Proceed(r) ==
  \/ LookAgain(r) \/ UseCached(r) \/ NotLoaded(r) \/ Join(r) \/ Connect(r)
  \/ TakeBrowser(r) \/ SeeFailure(r) \/ GiveUp(r) \/ End(r)

Next ==
  \/ \E r \in Renders : Ask(r) \/ Proceed(r) \/ Again(r)
  \/ \E a \in Attempts : Succeed(a) \/ Fail(a)
  \/ Finished

(* Continuations run, every render ends within its deadline, and a caller  *)
(* may render again; an attempt may never settle.                          *)
Fairness == \A r \in Renders : WF_vars(Proceed(r))

Spec == Init /\ [][Next]_vars
FairSpec == Spec /\ Fairness

----------------------------------------------------------------------------
(* Properties. *)

Inside == {r \in Renders : pc[r] \in {"loading", "joining", "using", "ending"}}

(* However the woken calls and the newcomers race, no more than MaxRenders *)
(* are inside, and a place never idles beside a queue unless somebody is   *)
(* on the way to take it.  Nobody works with a browser that was closed     *)
(* under it; at most one connection is up, and it is the cached one: an    *)
(* attempt that succeeds late, or beside another, is closed and never      *)
(* overwrites it.  An attempt can be joined only while one of those who    *)
(* joined it still waits, so a stalled one is gone when they are.          *)
BrowserUsable ==
  /\ running = Cardinality(Inside) /\ running <= MaxRenders
  /\ waiters # <<>> =>
       running + Cardinality({r \in Renders : pc[r] = "woken"}) >= MaxRenders
  /\ \A r \in Renders : pc[r] = "using" => attempt[slot[r]] = "open"
  /\ \A a \in Attempts : attempt[a] = "open" => cdpBrowser = a
  /\ cdpWaiters = Cardinality({r \in Renders : pc[r] = "joining"})
  /\ \A a \in Attempts : cdpConnecting = a /\ attempt[a] = "pending" =>
       \E r \in Renders : pc[r] = "joining" /\ slot[r] = a

(* Every render that was asked for gets its turn, although attempts may    *)
(* stall.                                                                  *)
EveryRenderEnds == \A r \in Renders : pc[r] = "queued" ~> pc[r] = "done"

=============================================================================
