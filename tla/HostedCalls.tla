----------------------------- MODULE HostedCalls -----------------------------
(* The calls of one hosted server: the tools behind the admission limiter,  *)
(* the shaping of a bulk call, the seed quota of its tenant, the audit of   *)
(* every call and the answer to it - and the OAuth routes behind the proxy  *)
(* envelope and the flood limiter.  What an execution does is elsewhere.    *)
EXTENDS Integers, Sequences, FiniteSets, FiniteSetsExt, Functions

CONSTANTS
  Callers,      \* calls that may overlap
  Requests,     \* what they ask for
  Posts,        \* OAuth requests as they arrive
  Edge,         \* the trusted proxy
  MAX_CONCURRENT_MCP,
  QUOTA_LIMIT, QUOTA_WINDOW,
  FLOOD_LIMIT, FLOOD_WINDOW, MAX_KEYS,
  RAW_MAX_URLS, SUMMARY_MAX_URLS, MAX_PER_HOST,
  CONCURRENCY, MAX_COST, SEED_COST,          \* operator's cap and the cost ceilings
  Budgets, MaxTime                           \* bounds: calls and posts, time

ASSUME CallsAssumption ==
  /\ IsFiniteSet(Callers) /\ MAX_CONCURRENT_MCP \in Nat
  /\ QUOTA_LIMIT \in Nat /\ QUOTA_WINDOW \in Nat \ {0}
  /\ FLOOD_LIMIT \in Nat \ {0} /\ FLOOD_WINDOW \in Nat \ {0} /\ MAX_KEYS \in Nat
  /\ {RAW_MAX_URLS, SUMMARY_MAX_URLS, MAX_PER_HOST} \subseteq Nat
  /\ CONCURRENCY \in Nat \ {0} /\ {MAX_COST, SEED_COST} \subseteq Nat
  /\ Budgets \subseteq [calls : Nat, posts : Nat]

(* Requests are [tool, tenant, valid, output, scopes], and of a bulk call   *)
(* [urls, maxCost, seedCost] too, its URLs being [host, path, kind].        *)
ASSUME RequestsAssumption ==
  \A q \in Requests : q.tool # "captatum" =>
    /\ Len(q.urls) \in Nat /\ DOMAIN q.urls = 1..Len(q.urls)
    /\ {q.maxCost, q.seedCost} \subseteq Nat

(* Posts are OAuth requests [client, remote, forwarded, secret, surface].   *)
(* The edge alone knows the secret and names the client that it forwards    *)
(* for; who claims nothing is the client itself.                            *)
NoClaim == "none"
ASSUME PostsAssumption ==
  \A m \in Posts :
    /\ m.client # NoClaim
    /\ m.secret = "right" => m.remote = Edge /\ m.forwarded = m.client
    /\ m.secret = "absent" /\ m.forwarded = NoClaim => m.remote = m.client

VARIABLES
  now,
  active,       \* AdmissionLimiter.active
  windows,      \* the tenants' reservations, [nth, at, seeds]
  buckets,      \* the flood limiter's map from keys to [count, resetAt]
  call,         \* the calls
  left,         \* the calls and posts to come
  past          \* what was granted and hinted lately, for the properties
callsVars == <<now, active, windows, buckets, call, left, past>>

Tenants == {q.tenant : q \in Requests}
NoResult == [status |-> "none"]
Idle == [at |-> "idle"]
Least(a, b) == IF a < b THEN a ELSE b

CallsInit ==
  /\ now = 0 /\ active = 0 /\ left \in Budgets
  /\ windows = [t \in Tenants |-> {}]
  /\ buckets = << >>
  /\ call = [c \in Callers |-> Idle]
  /\ past = [granted |-> [t \in Tenants |-> {}], hints |-> {}, posts |-> {}]

-----------------------------------------------------------------------------
(* Shaping of a bulk call.  A seed is its place among the URLs, and what is *)
(* kept of them a set of places: of equal URLs the first, of a host and of  *)
(* the whole as many as the cap lets in, first come.                        *)
OfKind(urls, kind) == {i \in DOMAIN urls : urls[i].kind = kind}
OfHost(urls, S, host) == {i \in S : urls[i].host = host}
Before(S, i) == {j \in S : j < i}
DedupeSeeds(urls, S) == {i \in S : \A j \in Before(S, i) : urls[j] # urls[i]}
ApplyPerHostCap(urls, S) ==
  {i \in S : Cardinality(Before(OfHost(urls, S, urls[i].host), i)) < MAX_PER_HOST}
ApplyTotalClamp(S, n) == {i \in S : Cardinality(Before(S, i)) < n}
MaxUrls(q) == IF q.output = "raw" THEN RAW_MAX_URLS ELSE SUMMARY_MAX_URLS
ShapeBulkInput_CapFirst(q) ==
  LET all == OfKind(q.urls, "seed")
      capped == ApplyPerHostCap(q.urls, all)
      unique == DedupeSeeds(q.urls, capped)
  IN [seeds |-> ApplyTotalClamp(unique, MaxUrls(q)), inputUrls |-> Cardinality(all),
      deduped |-> Cardinality(capped) - Cardinality(unique),
      truncated |-> Cardinality(all) - Cardinality(capped),
      clampedTo |-> IF Cardinality(unique) > MaxUrls(q) THEN MaxUrls(q) ELSE 0]
ShapeBulkInput(q) ==
  LET all == OfKind(q.urls, "seed")
      unique == DedupeSeeds(q.urls, all)
      capped == ApplyPerHostCap(q.urls, unique)
  IN [seeds |-> ApplyTotalClamp(capped, MaxUrls(q)), inputUrls |-> Cardinality(all),
      deduped |-> Cardinality(all) - Cardinality(unique),
      truncated |-> Cardinality(unique) - Cardinality(capped),
      clampedTo |-> IF Cardinality(capped) > MaxUrls(q) THEN MaxUrls(q) ELSE 0]

(* resolveBulkGuard's cost caps: the caller may lower them, and one wave of *)
(* concurrent seeds stays below the cap of the call.                        *)
ResolveBulkGuard(q) ==
  LET cost == Least(q.maxCost, MAX_COST)
      seed == Least(q.seedCost, SEED_COST)
      safe == cost \div CONCURRENCY
  IN [cost |-> cost, seed |-> Least(seed, safe),
      clamped |-> (IF q.maxCost > MAX_COST THEN {"maxTransformCostUsd"} ELSE {})
                  \cup (IF q.seedCost > SEED_COST \/ seed > safe
                        THEN {"perSeedTransformCostUsd"} ELSE {})]

(* The receipt of a bulk call of which failed seeds failed and partial are  *)
(* partial.                                                                 *)
ClassifyBulkStatus(n, failed, partial) ==
  IF failed = n THEN "fail" ELSE IF failed + partial = 0 THEN "pass" ELSE "partial"
AssembleBulkResult(q, failed, partial) ==
  LET s == ShapeBulkInput(q)
      g == ResolveBulkGuard(q)
      count == Cardinality(s.seeds)
      rejects == Len(q.urls) - s.inputUrls
  IN [status |-> ClassifyBulkStatus(count + rejects, failed + rejects, partial),
      count |-> count, passed |-> count - failed, failed |-> failed + rejects,
      truncated |-> s.truncated, deduped |-> s.deduped, inputUrls |-> s.inputUrls,
      afterPerHostCap |-> s.inputUrls - s.deduped - s.truncated,
      clampedTo |-> s.clampedTo, seeds |-> s.seeds, guard |-> g, warnings |-> g.clamped]

-----------------------------------------------------------------------------
(* InMemoryBulkQuotaPort.tryReserve.                                        *)
Purged(reservations, t) == {r \in reservations : r.at > t - QUOTA_WINDOW}
Seeds(reservations) == SumFunction([r \in reservations |-> r.seeds])
Hint(standing) == Min({r.at : r \in standing}) + QUOTA_WINDOW
Reservation(n) == [nth |-> left.calls, at |-> now, seeds |-> n]
Reserved(standing, n) ==
  LET fits == Seeds(standing) + n <= QUOTA_LIMIT
  IN [ok |-> fits, until |-> IF fits \/ standing = {} THEN 0 ELSE Hint(standing),
      window |-> IF fits THEN standing \cup {Reservation(n)} ELSE standing]
TryReserve_Unpurged(t, n) ==
  Reserved(IF \E r \in windows[t] : r.at <= now - QUOTA_WINDOW THEN {} ELSE windows[t], n)
TryReserve(t, n) == Reserved(Purged(windows[t], now), n)

RequiredScope(q) == IF q.output = "raw" THEN "fetch:read" ELSE "fetch:transform"
NewCall(q, at, error) ==
  [at |-> at, request |-> q, error |-> error, result |-> NoResult, events |-> 0, lost |-> FALSE,
   answer |-> "none"]
Starts(c, q, at, error) ==
  /\ call' = [call EXCEPT ![c] = NewCall(q, at, error)]
  /\ left' = [left EXCEPT !.calls = @ - 1]

(* callCaptatum and callBulk up to their first await: the input, the scope  *)
(* of the caller, an admission slot, and for a bulk call its shape and the  *)
(* reservation of its seeds, before any of them is dispatched.              *)
Refusal(q) ==
  IF ~q.valid THEN "invalid_input"
  ELSE IF RequiredScope(q) \notin q.scopes THEN "forbidden" ELSE "overloaded"
CallTool(c, q) ==
  /\ call[c].at = "idle" /\ left.calls > 0
  /\ UNCHANGED <<now, buckets>>
  /\ IF ~q.valid \/ RequiredScope(q) \notin q.scopes \/ active >= MAX_CONCURRENT_MCP
     THEN Starts(c, q, "failing", Refusal(q)) /\ UNCHANGED <<active, windows, past>>
     ELSE /\ active' = active + 1
          /\ IF q.tool = "captatum"
             THEN Starts(c, q, "running", "none") /\ UNCHANGED <<windows, past>>
             ELSE LET n == Cardinality(ShapeBulkInput(q).seeds)
                      r == TryReserve(q.tenant, n)
                  IN /\ windows' = [windows EXCEPT ![q.tenant] = r.window]
                     /\ IF r.ok
                        THEN /\ Starts(c, q, "running", "none")
                             /\ past' = [past EXCEPT !.granted[q.tenant] =
                                                      @ \cup {Reservation(n)}]
                        ELSE /\ Starts(c, q, "throwing", "bulk_quota_exceeded")
                             /\ past' = [past EXCEPT !.hints = @ \cup
                                  IF r.until = 0 THEN {}
                                  ELSE {[tenant |-> q.tenant, seeds |-> n, until |-> r.until]}]

(* The execution ends, for a caller that still waits or for nobody, and the *)
(* slot is given back before anything else happens.                         *)
Leave_OnSuccess(threw) == IF threw THEN active ELSE active - 1
Leave(threw) == IF active > 0 THEN active - 1 ELSE active
Throws(c) ==
  /\ call[c].at \in {"running", "throwing"}
  /\ active' = Leave(TRUE)
  /\ call' = [call EXCEPT ![c].at = "failing",
                          ![c].error = IF @ = "none" THEN "internal" ELSE @]
  /\ UNCHANGED <<now, windows, buckets, left, past>>
Ends(c, failed, partial) ==
  /\ call[c].at = "running"
  /\ LET q == call[c].request
         n == IF q.tool = "captatum" THEN 1 ELSE Cardinality(ShapeBulkInput(q).seeds)
     IN /\ failed + partial <= n
        /\ call' = [call EXCEPT ![c].at = "auditing",
             ![c].result = IF q.tool = "captatum" THEN [status |-> "fetched"]
                           ELSE AssembleBulkResult(q, failed, partial)]
  /\ active' = Leave(FALSE)
  /\ UNCHANGED <<now, windows, buckets, left, past>>

(* One event of a fetch; one per seed and a summary of a bulk call.  A sink *)
(* that rejects ends the writing and changes nothing else.                  *)
Events(k) == IF k.request.tool = "captatum" THEN 1 ELSE k.result.count + 1
AuditResult_Fatal(k, ok) ==
  IF ~ok THEN [k EXCEPT !.lost = TRUE, !.at = "answered", !.answer = "internal"]
  ELSE IF k.events + 1 < Events(k) THEN [k EXCEPT !.events = @ + 1]
  ELSE [k EXCEPT !.events = @ + 1, !.at = "answered", !.answer = "result"]
AuditResult(k, ok) ==
  IF ok /\ k.events + 1 < Events(k) THEN [k EXCEPT !.events = @ + 1]
  ELSE [k EXCEPT !.at = "answered", !.answer = "result", !.lost = ~ok,
                 !.events = IF ok THEN @ + 1 ELSE @]
(* One event of a call that failed; here a rejection replaces the error.    *)
AuditFailure(k, ok) ==
  [k EXCEPT !.at = "answered", !.lost = ~ok, !.events = IF ok THEN @ + 1 ELSE @,
            !.answer = IF ok THEN k.error ELSE "internal"]
Audit(c, ok) ==
  /\ call[c].at \in {"auditing", "failing"}
  /\ call' = [call EXCEPT ![c] = IF @.at = "auditing" THEN AuditResult(@, ok)
                                 ELSE AuditFailure(@, ok)]
  /\ UNCHANGED <<now, active, windows, buckets, left, past>>
Return(c) ==
  /\ call[c].at = "answered"
  /\ call' = [call EXCEPT ![c] = Idle]
  /\ UNCHANGED <<now, active, windows, buckets, left, past>>

-----------------------------------------------------------------------------
(* What an OAuth request claims to be forwarded for is only believed of the *)
(* edge, which proves itself; a claim without the proof is refused before   *)
(* it is counted.                                                           *)
AuthenticateProxyHeaders_Optional(m) ==
  IF m.secret = "wrong" THEN "reject" ELSE "authenticated"
AuthenticateProxyHeaders(m) ==
  IF m.secret = "right" THEN "authenticated"
  ELSE IF m.secret = "absent" /\ m.forwarded = NoClaim THEN "direct" ELSE "reject"
Key(m) == <<m.surface, IF m.forwarded # NoClaim /\ m.remote = Edge THEN m.forwarded ELSE m.remote>>

(* InMemoryAuthRateLimit.check: a key that is new, or whose bucket is over, *)
(* first has what is over removed.                                          *)
Live(t) == {k \in DOMAIN buckets : buckets[k].resetAt > t}
Bucket == [count |-> 1, resetAt |-> now + FLOOD_WINDOW]
Admit(key) ==
  IF key \notin DOMAIN buckets /\ Cardinality(Live(now)) >= MAX_KEYS
  THEN [ok |-> FALSE, buckets |-> Restrict(buckets, Live(now))]
  ELSE [ok |-> TRUE, buckets |-> [k \in Live(now) \cup {key} |->
                                   IF k = key THEN Bucket ELSE buckets[k]]]
Check(key) ==
  IF key \in Live(now)
  THEN [ok |-> buckets[key].count + 1 <= FLOOD_LIMIT,
        buckets |-> [buckets EXCEPT ![key].count = @ + 1]]
  ELSE Admit(key)

OAuthPost(m) ==
  /\ left.posts > 0
  /\ left' = [left EXCEPT !.posts = @ - 1]
  /\ IF AuthenticateProxyHeaders(m) = "reject" THEN UNCHANGED <<buckets, past>>
     ELSE LET r == Check(Key(m)) IN
          /\ buckets' = r.buckets
          /\ past' = IF r.ok
                     THEN [past EXCEPT !.posts = @ \cup
                             {[nth |-> left.posts, client |-> m.client, surface |-> m.surface,
                               at |-> now]}]
                     ELSE past
  /\ UNCHANGED <<now, active, windows, call>>

Tick ==
  /\ now < MaxTime
  /\ now' = now + 1
  /\ past' = [granted |-> [t \in Tenants |-> Purged(past.granted[t], now')],
              hints |-> {h \in past.hints : h.until > now'},
              posts |-> {e \in past.posts : e.at > now' - FLOOD_WINDOW}]
  /\ UNCHANGED <<active, windows, buckets, call, left>>

Proceeds(c) ==
  \/ Throws(c)
  \/ \E failed \in 0..RAW_MAX_URLS, partial \in 0..1 : Ends(c, failed, partial)
  \/ \E ok \in BOOLEAN : Audit(c, ok)
CallsNext ==
  \/ \E c \in Callers : (\E q \in Requests : CallTool(c, q)) \/ Proceeds(c) \/ Return(c)
  \/ \E m \in Posts : OAuthPost(m)
  \/ Tick
CallsSpec == CallsInit /\ [][CallsNext]_callsVars

-----------------------------------------------------------------------------
Answered == {c \in Callers : call[c].at = "answered"}

(* A slot is held by exactly the executions under way, whatever they end    *)
(* with and whoever still waits, so that neither too many run nor, after a  *)
(* failure, too few may.                                                    *)
AdmissionExact ==
  /\ active = Cardinality({c \in Callers : call[c].at \in {"running", "throwing"}})
  /\ active <= MAX_CONCURRENT_MCP

(* The seeds granted to a tenant in any window of time stay within the      *)
(* limit although refused and expired ones come and go, and the hint of a   *)
(* refusal is a lower bound: no call of that tenant with as many seeds is   *)
(* granted before it.                                                       *)
QuotaBounded ==
  /\ [](\A t \in Tenants : Seeds(past.granted[t]) <= QUOTA_LIMIT)
  /\ [][\A t \in Tenants : \A r \in past'.granted[t] \ past.granted[t], h \in past.hints :
          h.tenant = t /\ h.seeds <= r.seeds => now >= h.until]_callsVars

(* What a receipt r says to the request q, to which r sent the seeds        *)
(* r.seeds and at which it held the guards of r.guard.                      *)
Receipt(q, r) ==
  LET given == {q.urls[i] : i \in OfKind(q.urls, "seed")}
      sent == {q.urls[i] : i \in r.seeds}
      hostShare(h) == Cardinality({u \in sent : u.host = h})
      rejects == Cardinality({i \in DOMAIN q.urls : q.urls[i].kind # "seed"})
  IN /\ Cardinality(sent) = r.count /\ sent \subseteq given
     /\ r.count <= MaxUrls(q)
     /\ \A u \in given \ sent :
          \/ hostShare(u.host) = MAX_PER_HOST /\ r.truncated > 0
          \/ r.count = r.clampedTo
     /\ \A u \in sent : hostShare(u.host) <= MAX_PER_HOST
     /\ r.afterPerHostCap + r.deduped + r.truncated + rejects = Len(q.urls)
     /\ r.passed + r.failed = r.count + rejects
     /\ r.status = "pass" => rejects = 0 /\ r.passed = r.count
     /\ r.passed = 0 <=> r.status = "fail"
     /\ CONCURRENCY * r.guard.seed <= r.guard.cost /\ r.guard.cost <= MAX_COST
     /\ r.guard.cost < q.maxCost => "maxTransformCostUsd" \in r.warnings
     /\ r.guard.seed < q.seedCost => "perSeedTransformCostUsd" \in r.warnings

(* The receipt of a bulk call accounts for every URL it was given: it was   *)
(* processed, or is a duplicate of one that was considered, or was dropped  *)
(* because its host or the call had its fill, or is told as a failure; no   *)
(* host is asked more than its share, a clean status means that nothing was *)
(* left out of what was processed, and every clamp is disclosed.            *)
ReceiptTruthful == \A c \in Callers :
  call[c].at \in {"auditing", "answered"} /\ call[c].result.status \in {"pass", "partial", "fail"}
    => Receipt(call[c].request, call[c].result)

(* Every call leaves its trace: one event of a fetch or of a failure, one   *)
(* per seed and a summary of a bulk call, unless the sink itself rejected;  *)
(* and a sink that rejects never turns a success into an error.             *)
AuditedAndAnswered == \A c \in Answered :
  LET k == call[c] IN
  /\ ~k.lost => k.events = IF k.result = NoResult THEN 1 ELSE Events(k)
  /\ k.result # NoResult <=> k.answer = "result"
  /\ k.result = NoResult /\ ~k.lost => k.answer = k.error

(* No client gets twice the limit through in any window, also not by        *)
(* claiming other addresses or by filling the table with keys, and the      *)
(* table stays within its size.                                             *)
FloodBounded ==
  /\ Cardinality(DOMAIN buckets) <= MAX_KEYS
  /\ \A e \in past.posts :
       Cardinality({x \in past.posts : x.client = e.client /\ x.surface = e.surface})
         < 2 * FLOOD_LIMIT
=============================================================================
