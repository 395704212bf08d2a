----------------------------- MODULE ModelRouter -----------------------------
(* LlmTransformer.transform over ModelRouter and the providers: concurrent  *)
(* transforms pick a model, ask it, escalate a cut answer, fall back after a *)
(* failure, and share one health record per model.  What runs between two   *)
(* awaits of a provider is one step.                                        *)
EXTENDS Naturals, Sequences, FiniteSets, FiniteSetsExt, SequencesExt

CONSTANTS
  Transforms,   \* calls of transform that may overlap
  Inputs,       \* [mode, sensitive, provider, model, tokens, budget, schema]
  Candidates,   \* [provider, model, local, json, context, max, order, rank, price]
  DefaultCap,   \* maxOutputTokensDefault
  MAX_TRANSFORM_ATTEMPTS, HEALTH_WINDOW, FAIL_THRESHOLD, RECOVER_SUCCESSES,
  Histories,    \* what the calls served before left: books after books
  MaxCalls      \* bound on the calls that follow

VARIABLES
  health,       \* ModelRouter.health
  run,          \* the transforms under way
  calls,        \* how many were started
  log           \* every model's outcomes since its last recovery, for the properties
routerVars == <<health, run, calls, log>>

Unset == "any"                 \* no override given
Models == {c.model : c \in Candidates}
Nobody == [provider |-> "none", model |-> "none"]

(* `rank` is the place among equals by staticRank, the name and the order   *)
(* of configuration, so that no two models tie.                             *)
ASSUME RouterAssumption ==
  /\ DefaultCap \in Nat \ {0} /\ HEALTH_WINDOW \in Nat \ {0} /\ RECOVER_SUCCESSES \in Nat
  /\ \A c \in Candidates : c.max \in Nat \ {0} /\ {c.context, c.order, c.rank} \subseteq Nat
  /\ \A c, d \in Candidates : c = d \/ c.order # d.order \/ c.rank # d.rank
  /\ \A i \in Inputs : {i.tokens, i.budget} \subseteq Nat

Least(a, b) == IF a < b THEN a ELSE b

emptyHealth == [recent |-> <<>>, wins |-> 0, demotion |-> 0]

(* asked, longest, whole and told only record what happened: who was sent   *)
(* the content, the longest cut text, whether a whole text came, and what   *)
(* the texts cost.                                                          *)
NewRun(i) ==
  [at |-> "asked", input |-> i, tried |-> {}, best |-> 0, floor |-> i.budget, escalations |-> 0,
   cost |-> 0, with |-> Nobody, cap |-> 0, attempt |-> 1, result |-> "none",
   asked |-> {}, longest |-> 0, whole |-> FALSE, told |-> 0]
IdleRun == [at |-> "idle"]

-----------------------------------------------------------------------------
Window(s) == IF Len(s) > HEALTH_WINDOW THEN Tail(s) ELSE s
Fails(s) == Cardinality({k \in DOMAIN s : s[k]})

(* recordOutcome; a success only counts while demoted, so it is counted to  *)
(* RECOVER_SUCCESSES.                                                       *)
Failed_KeepsWins(h) ==
  LET recent == Window(Append(h.recent, TRUE)) IN
  [h EXCEPT !.recent = recent,
            !.demotion = IF Fails(recent) >= FAIL_THRESHOLD THEN 1 ELSE @]
Failed(h) == [Failed_KeepsWins(h) EXCEPT !.wins = 0]
Succeeded(h) ==
  LET wins == Least(h.wins + 1, RECOVER_SUCCESSES) IN
  IF h.demotion > 0 /\ wins >= RECOVER_SUCCESSES THEN emptyHealth
  ELSE [h EXCEPT !.recent = Window(Append(@, FALSE)), !.wins = wins]
Record(h, model, outcome) ==
  CASE outcome = "hard_fail" -> [h EXCEPT ![model] = Failed(@)]
    [] outcome = "success"   -> [h EXCEPT ![model] = Succeeded(@)]
    [] OTHER                 -> h

Books == [health |-> [m \in Models |-> emptyHealth], log |-> [m \in Models |-> <<>>]]
Entered(b, m, outcome) ==
  LET h == Record(b.health, m, outcome)
      recovered == b.health[m].demotion = 1 /\ h[m].demotion = 0
  IN [health |-> h,
      log |-> IF outcome = "soft" THEN b.log
              ELSE IF recovered THEN [b.log EXCEPT ![m] = <<>>]
              ELSE [b.log EXCEPT ![m] = Window(Append(@, outcome = "hard_fail"))]]

(* Outcomes entered one after another, from the books of a fresh process.   *)
Chronicle(past) ==
  /\ Len(past) \in Nat \ {0} /\ past[1] = Books
  /\ \A k \in 2..Len(past) : \E m \in Models, o \in {"success", "hard_fail"} :
       past[k] = Entered(past[k - 1], m, o)
ASSUME HistoryAssumption == \A past \in Histories : Chronicle(past)

RouterInit ==
  /\ \E past \in Histories : health = Last(past).health /\ log = Last(past).log
  /\ run = [t \in Transforms |-> IdleRun]
  /\ calls = 0

(* fits: the constraints of the call, and room for what will be requested.  *)
Suits_AnyHost(c, i) ==
  /\ i.provider \in {Unset, c.provider} \/ i.sensitive
  /\ i.model \in {Unset, c.model}
  /\ i.mode = "extract" => c.json
Suits(c, i) == Suits_AnyHost(c, i) /\ (i.sensitive => c.local)
Reserve(c, floor) == Least(IF floor > 0 THEN floor ELSE DefaultCap, c.max)
Fits(c, r) ==
  /\ Suits(c, r.input)
  /\ c.model \notin r.tried
  /\ c.context >= r.input.tokens + Reserve(c, r.floor)

(* The order of pick: configured order plus demotion, then the demoted      *)
(* last, then the static rank with the name as its last resort.             *)
Before(c, d, h) ==
  LET dem(x) == h[x.model].demotion
      eff(x) == x.order + dem(x)
  IN \/ eff(c) < eff(d)
     \/ (eff(c) = eff(d) /\ dem(c) < dem(d))
     \/ (eff(c) = eff(d) /\ dem(c) = dem(d) /\ c.rank < d.rank)
Pick(fitting, h) == CHOOSE c \in fitting : \A d \in fitting \ {c} : Before(c, d, h)

(* What the call held while it ran is gone when it returns.                 *)
Finish(r, result) ==
  [r EXCEPT !.at = "done", !.result = result, !.tried = {}, !.with = Nobody, !.cap = 0,
            !.attempt = 1, !.floor = 0, !.escalations = 0]

(* noneReason and the end of the loop: the best cut text, the page itself   *)
(* when nobody was asked, or an error.                                      *)
Exhausted(r) ==
  IF r.best > 0 THEN Finish(r, "cut")
  ELSE IF r.tried = {} THEN Finish(r, IF r.input.sensitive THEN "raw: sensitive" ELSE "raw: no model")
  ELSE Finish(r, "transform_provider_failed")

(* One turn of the candidate loop, up to the call of provider.generate.     *)
Turn(r, h) ==
  LET fitting == {c \in Candidates : Fits(c, r)} IN
  IF fitting = {} THEN Exhausted(r)
  ELSE LET c == Pick(fitting, h) IN
       [r EXCEPT !.with = c, !.cap = Reserve(c, r.floor), !.attempt = 1,
                 !.asked = @ \cup {c}]

Transform(t, i) ==
  /\ run[t].at = "idle" /\ calls < MaxCalls
  /\ calls' = calls + 1
  /\ run' = [run EXCEPT ![t] =
       IF i.provider = "unsupported" THEN Finish(NewRun(i), "raw: unsupported")
       ELSE Turn(NewRun(i), health)]
  /\ UNCHANGED <<health, log>>

Asking(t) == run[t].at = "asked"
Attempts(provider) == IF provider = "openrouter" THEN 2 ELSE 1

(* r goes on with the outcome of its model folded into the shared health.   *)
Settle(t, outcome, r, on) ==
  LET b == Entered([health |-> health, log |-> log], run[t].with.model, outcome) IN
     /\ health' = b.health /\ log' = b.log
     /\ run' = [run EXCEPT ![t] = IF on THEN Turn(r, b.health) ELSE r]
     /\ UNCHANGED calls

Delivered(r) == [r EXCEPT !.cost = @ + r.with.price, !.told = @ + r.with.price]
HardFail_Untried(t, r) == Settle(t, "hard_fail", r, TRUE)
HardFail(t, r) == Settle(t, "hard_fail", [r EXCEPT !.tried = @ \cup {r.with.model}], TRUE)

(* The request fails, times out, is refused, or its completion is empty -   *)
(* which OpenRouter is asked once more for - or is blank.                   *)
ProviderFails(t, blank) ==
  /\ Asking(t)
  /\ LET r == run[t] IN
     IF ~blank /\ r.attempt < Attempts(r.with.provider)
     THEN run' = [run EXCEPT ![t] = [r EXCEPT !.attempt = @ + 1]] /\ UNCHANGED <<health, calls, log>>
     ELSE HardFail(t, r)

(* An answer cut at the cap: the longest is kept, an explicit budget or the *)
(* escalation limit ends the call, the same model is asked for more while   *)
(* it can give more, and the next one otherwise.                            *)
Keep_Latest(best, len) == len
Keep(best, len) == IF len > best THEN len ELSE best
Ceiling(r) == Least(r.with.max, r.with.context - r.input.tokens)
AfterCut(r) ==
  IF r.input.budget > 0 THEN Finish(r, "cut")
  ELSE IF r.cap >= Ceiling(r) THEN [r EXCEPT !.tried = @ \cup {r.with.model}]
  ELSE IF r.escalations >= MAX_TRANSFORM_ATTEMPTS THEN Finish(r, "cut")
  ELSE [r EXCEPT !.escalations = @ + 1, !.floor = Ceiling(r)]
ProviderCuts(t, len) ==
  /\ Asking(t) /\ len <= run[t].cap
  /\ LET d == Delivered(run[t])
         r == AfterCut([d EXCEPT !.best = Keep(@, len),
                                 !.longest = IF len > @ THEN len ELSE @])
     IN Settle(t, "success", r, r.at = "asked")

(* A whole completion, finalized: an extract may turn out unusable after it *)
(* was billed, or not to match its schema.                                  *)
Verdicts(i) ==
  CASE i.mode # "extract"    -> {"valid"}
    [] i.schema = "unusable" -> {"extract_schema_invalid"}
    [] OTHER                 -> {"valid", "mismatch", "extract_invalid_json"}
ProviderAnswers(t, verdict) ==
  /\ Asking(t) /\ verdict \in Verdicts(run[t].input)
  /\ LET r == [Delivered(run[t]) EXCEPT !.whole = TRUE] IN
     CASE verdict = "valid"    -> Settle(t, "success", Finish(r, "answer"), FALSE)
       [] verdict = "mismatch" -> Settle(t, "soft", Finish(r, "answer"), FALSE)
       [] OTHER                -> Settle(t, "hard_fail", Finish(r, verdict), FALSE)

(* postJson listens for data, end and a request error.  A response that is  *)
(* aborted after its head gives none of the three, and closes the socket    *)
(* that carried the timeout.                                                *)
ConnectionCut(t) ==
  /\ Asking(t)
  /\ run' = [run EXCEPT ![t].at = "hung"]
  /\ UNCHANGED <<health, calls, log>>

(* The caller has its result; the slot serves another call.                 *)
Return(t) ==
  /\ run[t].at = "done"
  /\ run' = [run EXCEPT ![t] = IdleRun]
  /\ UNCHANGED <<health, calls, log>>

Replies(t) ==
  \/ \E blank \in BOOLEAN : ProviderFails(t, blank)
  \/ \E len \in 1..Max({c.max : c \in Candidates}) : ProviderCuts(t, len)
  \/ \E verdict \in {"valid", "mismatch", "extract_invalid_json", "extract_schema_invalid"} :
       ProviderAnswers(t, verdict)

RouterNext == \E t \in Transforms :
  \/ \E i \in Inputs : Transform(t, i)
  \/ Replies(t)
  \/ ConnectionCut(t)
  \/ Return(t)

RouterSpec == RouterInit /\ [][RouterNext]_routerVars
(* A provider answers, or the request's timeout makes it fail.              *)
RouterFairSpec == RouterSpec /\ \A t \in Transforms : WF_routerVars(Replies(t))

-----------------------------------------------------------------------------
Active == {t \in Transforms : run[t].at # "idle"}
Ended == {t \in Transforms : run[t].at = "done"}

(* Content with a credential in it is sent to no model off this machine, on *)
(* no turn of the loop and whatever provider or model the caller asked for, *)
(* and no request exceeds what the caller allowed, what its model can       *)
(* generate, or what is left of its context, however often the budget was   *)
(* raised for the models before it.                                         *)
RequestsAllowed == \A t \in Active :
  LET r == run[t] IN
  /\ r.input.sensitive => \A c \in r.asked : c.local
  /\ Asking(t) =>
       /\ r.cap >= 1 /\ r.cap <= r.with.max
       /\ r.input.tokens + r.cap <= r.with.context
       /\ r.input.budget > 0 => r.cap <= r.input.budget

(* A paid-for text is never thrown away: a whole one is the answer unless   *)
(* it is no JSON, otherwise the longest cut one is, with the cost of every  *)
(* text received, also of those that were dropped for a longer one; and a   *)
(* transform gives up only after every model that could have served it was  *)
(* asked.                                                                   *)
BestReturned == \A t \in Ended :
  LET r == run[t] IN
  /\ r.cost = r.told
  /\ r.result = "answer" => r.whole
  /\ r.result = "cut" => ~r.whole /\ r.best = r.longest /\ r.best > 0
  /\ r.result = "transform_provider_failed" =>
       /\ ~r.whole /\ r.longest = 0
       /\ \A c \in Candidates :
            Suits(c, r.input) /\ c.context >= r.input.tokens + Reserve(c, r.input.budget)
              => c.model \in {d.model : d \in r.asked}

(* Only a sustained failure demotes a model, counted afresh after every     *)
(* recovery, and only successes in a row restore it, although outcomes of   *)
(* overlapping transforms interleave in one record; and unless it was       *)
(* demoted, the first model that fits is the one a call turns to first - a  *)
(* demoted one lets exactly the next in line go ahead.                      *)
DemotionEarned ==
  [][/\ \A m \in Models :
          /\ health[m].demotion = 0 /\ health'[m].demotion = 1
               => Fails(log'[m]) >= FAIL_THRESHOLD
          /\ health[m].demotion = 1 /\ health'[m].demotion = 0 =>
               LET n == Len(log[m]) IN RECOVER_SUCCESSES > 1 => n >= 1 /\ ~log[m][n]
     /\ \A t \in Transforms :
          run[t].at = "idle" /\ run'[t].at = "asked" =>
            LET r == run'[t] IN
            \A d \in {c \in Candidates : Fits(c, [r EXCEPT !.tried = {}])} :
              /\ d.order < r.with.order =>
                   health[d.model].demotion = 1 /\ r.with.order = d.order + 1
              /\ d.order = r.with.order + 1 /\ health[d.model].demotion = 0
                   => health[r.with.model].demotion = 0]_routerVars

(* No loop of escalations, second requests and fallbacks goes on for ever:  *)
(* a transform ends, unless a provider's answer was cut in the middle.      *)
LoopEnds == \A t \in Transforms : run[t].at = "asked" ~> run[t].at \in {"done", "hung"}
=============================================================================
