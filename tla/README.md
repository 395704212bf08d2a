# Captatum in TLA+

This directory models the parts of captatum whose correctness depends on
order: what several seeds, requests, renders or processes do to shared state,
in whatever order they get there. TLC checks small instances of each model and
TLAPS proves the properties that matter most for every value of the constants.
`PROJECT.json` maps every definition to the source lines it translates.

    tlc -workers 2 -config bulk_transform.cfg MCBulk.tla    # any run below
    tlapm CaptatumBulkProofs.tla                            # any *Proofs module

## The system

Captatum is a fetch gateway. A tool call (`captatum`, or `captatum_bulk` for up
to 50 URLs) is resolved through tiers: a guarded HTTP fetch (Tier 1), a
site adapter (Tier 2), a browser render (Tier 3), and an optional model transform of
the content. The hosted flavour puts an OAuth server, an admission limiter and
a global fetch limiter in front; the local flavour runs over stdio. Everything
runs on one Node event loop, so the unit of atomicity is the code between two
awaits; only the client database is shared between processes.

| Component | State it keeps | Operations | Hard behaviour | What makes it correct |
|---|---|---|---|---|
| Bulk pool (`captatum-bulk.ts`, `bulk-budget.ts`, `bulk-concurrency.ts`, `bulk-retry.ts`, `bulk-seed.ts`) | two semaphores, per-host gate, byte and cost ledger, render count, per-host counts, stop reason, disclosed breaches, rows | admit, gate, reserve, wait for the transform slot, execute, retry, settle, wall | seeds interleave at every await; a wall timer cuts every wait; reservations are taken and released on a dozen paths | budget never oversubscribed, reservations and slots exact, bounded overshoots, every refusal disclosed, the call returns |
| Bulk shaping and quota (`bulk-policy.ts`, `bulk-config.ts`, `bulk-input.ts`, `in-memory-bulk-quota.ts`) | a window of reservations per tenant | dedupe, cap, clamp, reserve | boundaries; purging, charging and the retry hint of one window | no URL lost or counted twice; a refused charge changes nothing; no tenant exceeds its window |
| Fetch pipeline (`captatum.ts`, `tier1-extract.ts`, `render.ts`, `tier2.ts`) | per-call result | escalate, retry a broken body read, render, transform | partial failures at every tier | the result is what it says it is; what the fetches that succeeded moved is reported; the call returns |
| Guarded fetcher (`infrastructure/http/`) | none beyond a call | redirect loop, address validation, capped read | timeout in every phase; a POST body must not follow a redirect | every hop vetted by its own look-up; caps respected |
| Global fetch limiter (`limiting-fetcher.ts`) | active count, FIFO queue | acquire, hand off, time out | time-out against hand-off | slots conserved, FIFO, bounded wait |
| Render routing (`route-state.ts` and its helpers) | fetch and POST semaphores, two byte pools, provenance, egress hosts | intercept, gate, fetch, count, fulfil, abort | a page's requests interleave; pools blow while requests queue; the render ends under them | pools bounded and exact, permits conserved, every request answered |
| Renderer and browser sharing (`playwright-renderer.ts`, `render/index.ts`) | shared CDP connection, attempt in flight, waiters, running renders | connect, join, expire, detach, close | late successes, lost last waiter | one connection, none leaked, everyone gets a turn |
| Transform routing (`model-router.ts`, `model-health.ts`) | health of each model | rank, try, fall back, escalate, record | outcomes of concurrent transforms out of order | sensitive text stays local, the best answer and all its cost returned, demotion earned, the loop ends |
| Transform schema (`json-schema.ts`, `schema-allowlist.ts`, `bounded-pattern.ts`) | the pattern tests of one validation | admit, collect, test, decide | two walks that must ask the same questions | the verdict JSON Schema gives (rounding of `multipleOf` apart); nothing admitted turns out unverifiable |
| OAuth client store (`sqlite-client-store.ts`, `auth-store.ts`) | SQLite tables shared by processes | save, find, compare-and-swap, sweep, migrate | concurrent processes, interruption | no lost update, capacity respected, one cutover |
| Machine client command (`machine-client*.ts`) | none beyond the store | provision, rotate, disable, compensate | output fails after the store changed | no live client whose secret was lost; the exit code is true |
| Server runtime (`server-runtime.ts`) and configuration (`config.ts`, `mcp-sso-config.ts`) | owned resources, sweep timer | read settings, boot, listen, close | failure half-way through a boot or a close; lazily read settings | everything closed once, nothing touched when refused, the boot ends |
| HTTP route and tools (`mcp-route.ts`, `interfaces/mcp/`, `in-memory-auth-rate-limit.ts`) | admission count, rate-limit buckets | admit, execute, audit, answer, release | failures after the slot or the quota was taken | slots returned, every call audited and answered, floods bounded |

Calls go down this table: the HTTP route admits a call, the bulk pool runs
several single fetches over shared budgets, a fetch may render, and a render
sends every request of its page back through the guarded fetcher (behind the
global limiter when hosted). The render's egress and hosts come back up as
`egressBytes` and `renderEgressHosts`, which is what the pool settles with.

`PROJECT.json` lists these components, the ones without state that are not
modelled, and every hazard with the properties that cover it.

## Modules

| Module | Models | Extends or instantiates |
|---|---|---|
| `SumTheorems` | library: sums over finite sets, proved by induction on the set | |
| `SlotPool` | the abstract limiter: what each queueing semaphore promises | |
| `SlotPoolProofs` | its safety and its FIFO order | `SlotPool` |
| `CaptatumBulk` | one `captatum_bulk` call: `runPool` and all it shares | instantiates `SlotPool` twice |
| `CaptatumBulkProofs` | types, the byte budget, the exact ledger and bill, the bounds of a call, the wall, disclosure and both semaphores | `CaptatumBulk`, `SumTheorems`; instantiates `SlotPoolProofs` twice |
| `RenderRoute` | one render's request handlers | instantiates `SlotPool` |
| `RenderRouteProofs` | types, permits, the re-gate, the pool bound and the report of the egress | `RenderRoute`, `SumTheorems`; instantiates `SlotPoolProofs` |
| `LimitingFetcher` | the global fetch limiter and the time it leaves a fetch | instantiates `SlotPool` |
| `BrowserSharing` | the render limiter and the shared CDP connection | |
| `BrowserSharingProofs` | types, the limiter and the one connection | `BrowserSharing` |
| `GuardedFetch` | one guarded fetch: redirects, vetting, deadline, capped body | |
| `FetchPipeline` | one call of `execute`: tiers, retry, render, transform, stamps | `GuardedFetch` |
| `FetchPipelineProofs` | what a fetch goes through: the vetting of every connection, the truth of every result, the limiter's deadline and its slots, the requests, the choice and the demotions of the router, the verdict on an extracted answer | `FetchPipeline`, `LimitingFetcher`, `ModelRouter`, `SchemaValidation`; instantiates `SlotPoolProofs` |
| `ModelRouter` | overlapping transforms over shared model health | |
| `SchemaValidation` | the admission of a schema and the two-walk validation | |
| `ClientStore` | the client table, its transactions and its audit | |
| `MachineClient` | the command line tool against that store, beside a server | `ClientStore` |
| `MachineClientProofs` | the caps of the store, its audit, the exit codes and the compensation | `MachineClient` |
| `BootConfig` | which environments boot a hosted server | |
| `HostedServer` | boot, cutover, listening, closing, kills of several processes | `BootConfig` |
| `HostedServerProofs` | the cutover, what is closed, what is left alone; admission, audit, receipt, quota and floods of the calls | `HostedServer`, `HostedCalls`, `SumTheorems` |
| `HostedCalls` | admission, quota, receipt, audit and sign-in floods of a server | |
| `MCBulk`, `MCRender`, `MCLimiter`, `MCBrowser`, `MCFetch`, `MCRouter`, `MCSchema`, `MCStore`, `MCHosted`, `MCCalls` | the constants of the TLC instances | |

### SlotPool

Two variables: the set of `holders` and the `queue`. `Take`, `Wait`, `Release`
(the slot passes to the head of the queue) and `GiveUp` (some waiters leave,
the others keep their order). Three independent limiters of the code have this
shape, each with its own counter and its own way of cancelling a wait; each
model states that its limiter implements `SlotPool!Spec`.

### CaptatumBulk

A seed's `pc` is the await it is suspended at: `queued` (fetch semaphore),
`admitted` (slot granted, continuation not yet run), `gate` (per-host gate),
`slotWait` and `slotReady` (transform slot), `running`, `backoff`, `rerunning`,
`abandoned` (the wall won the race), `threw`, `lost` and `slotLost` (aborted while
waiting), `done`. Each action is the synchronous block that follows: for example
`Settle` releases the transform slot, counts the render, settles the ledger,
counts the hosts, decides the stop, discloses, writes the row and releases the
fetch slot, because the code does all of it between two awaits. The event loop
drains continuations before timers, so `WallAbort` requires that no seed is
`Ready`; the deadline can also be noticed by reading the clock (`late`) before
the timer fires.

Abstracted: the token bucket of the per-host gate (a seed stays in `gate` as
long as it likes), the contents of rows, and what the executor does: its answer
is any document size, render size, cost and set of hosts from the constants.
`wire` is a history variable, the bytes executions really moved, against which
the ledger is judged.

### RenderRoute

A request's `pc` is the await of its handler: `checking` (URL guard for a
blocked type), `queued` and `granted` (fetch semaphore), `fetching` (or `doomed`,
when the render's signal was aborted before the fetch began), `answering`
(`route.fulfill` of a POST), `done`. `Deliver`, `RejectTruncated` and
`RejectUncounted` are the three ways a fetch ends; each passes the permit on
and judges the outcome in one block, as the code does. `moved` is the history
of what each request really moved. `EndRender` is the end of
`PlaywrightRenderer.render`: it snapshots the reported bytes, raises `teardown`
and aborts the fetches in flight, while handlers go on.

Abstracted: the content of requests. `Kind` says what the helpers
(`shouldAbortWithoutBody`, `authorizePostForward`, `planOptionsPreflight`)
decided about each request; all their outcomes are kinds.

### LimitingFetcher

A call is `waiting` in the queue, `granted` (a slot was handed over and its
continuation has not run yet), `fetching`, or `done`. `Tick` is the clock;
`TimeOutWaiting` is the call's own timer and `Abort` the dispatch of the caller's signal, after
which its waiters are gone in one step. A call that was granted a slot before its
timer is noticed keeps it, and then finds whether any of its timeout is left
(`StartFetch`) or not (`ReturnUnused`). `Signals` are shared as the seeds of a
bulk share one. Abstracted: what the inner fetch does, and how long it takes.

### BrowserSharing

A render is `queued` or `woken` at the limiter, `loading` Playwright, `joining` a
connection attempt, `using` a browser, `ending` without one. A connection attempt
has a life of its own (`pending`, then `open` and cached, `closed` on late arrival, or
`failed`), which may outlast every render that joined it. `slot` is the local
variable of the same name: the attempt a call joined, not the current one. A render's own
timer (`GiveUp`) comes only after the continuations of an attempt that has settled
(`Drained`), as in the event loop; everything else interleaves freely.

The limiter is not first-in-first-out, which `render/index.ts:58` calls it: the place is
free before the woken call continues, and a call of `render()` in between takes it and
sends the woken one to the back. `EveryRenderEnds` holds with one caller that
repeats beside two places; with as many such callers as places it would not.

Abstracted: what a render does with its page, and the local flavour's own launch
(nothing is shared there but the limiter). The remote browser does not
die in the model.

### GuardedFetch and FetchPipeline

`GuardedFetch` has one variable, the fetch in progress (`get`): `hop` (the top of the
redirect loop), `lookup`, `connect`, `request`, `body`, `done`. The network chooses each
answer - addresses, status, `Location`, a body that is whole, cut, too long or
broken - or gives none; `Expire` is the fetch's own timer. `contacts` is a history of the
connections that were made. `FetchPipeline` composes it with one call of
`CaptatumUseCase.execute`: the board of a job-board adapter, the embed, Tier 1 with its
retry, the render (each request of the page is a guarded fetch again), the
transform, and the result with its stamps. The wall of a bulk call may fire at any time.

A render begins with the navigation to where the document was found; the page may then navigate its
main frame again or send other requests. `frame` is the state of the main frame (`blank`, `loaded`, or `dead`
after a navigation was rejected), `seen` what its last navigation saw. A result keeps its `final` URL, the hosts of its
`redirects` and its `renderHosts` apart, as the code does, because `Promoted` carries only the last of them from
the document to the rendered page. `Charged` is what the bulk pool computes from a result (`unionEgressHosts`
and `mergeRenderEgressHosts`). The histories `victims` (where a document was found, what a fulfilled
request of a render reached) and `passed` (what the redirects of a document led through) are judged against it.

Abstracted: text. A page has a status, needs a render or not, is `thin`, `empty`, `content` or a
`crash` screen, and is a challenge or not. Not told apart: charsets, excerpts, timings,
the alternative transport (`wreq`). A challenge that only the render shows is not detected,
as in the code. Of a render's request that was rejected without a byte neither host nor bytes are noted
anywhere by the code, nor are they in `read` and `victims`: `ResultTruthful` says nothing of them.

### ModelRouter

A transform is `asked` (a provider was called and has not answered), `done` or `hung`; the
synchronous block between two answers - record the outcome, escalate or choose again, ask - is one
step (`Settle`, which ends in a `Turn` of the loop). Health is the window of each model's
outcomes, its wins while demoted, and its demotion. `Histories` are what was served
before, as traces: outcomes entered one after another in the books of a fresh process
(`Chronicle`). `log`, `asked`, `longest`, `whole` and `told` are histories the properties judge by.
A provider that is not configured cannot be picked, so that branch is not modelled. A
response that breaks off after its head is the answer `hung`.

### SchemaValidation

The walk `findUnsupportedSchemaKeyword` of the boundary, then `validateJsonSchema`: the
collecting walk, the worker (which answers or does not), the deciding walk. The composites
are translated with their order and their early exits, because the second walk may
only look up what the first one collected. `Conforms` is the reference: what JSON Schema says.
Schemas with keywords of a wrong form are judged by the code as the code does, and are
outside `VerdictSound`. So are those with a divisor that `isMultipleOf` is mistaken about: it divides
floating-point numbers and rounds, so the pairs it accepts are a constant (`Multiples`), the
reference is divisibility, and `Exact` (a part of `WellFormed`) says that for the numbers there are
the two agree. Numbers are finite (`SchemaAssumption`). `JSON.parse` makes `Infinity` of 1e999; `validateNumber`
passes it whatever the bounds, and `canonicalJson` takes it for null. The model has no such value.

A walk is a recursive function `ValidateAt(pass)` from schemas and values to a result
`[r, asked]`: how the code's `SchemaValidationResult` ends, and the tests it met on the way
(`pass.tests` in the collecting walk, the look-ups in `pass.byNode` in the deciding one). `Then` and
`UpTo` are the early exits: what comes after a step that stops is neither judged nor asked. The code's
array of tests is a set here, because a node and a value are noted once, and
its order decides nothing: the worker answers for all of them or for none. `Children` is where the boundary
looks (a mutant looks at less), `Inside` everything a schema holds, from which
`Conforms`, `WellFormed` and the assumption are stated. Identity of nodes is their `id`; the
`stack` and `seen` sets, guards against cycles that parsed JSON cannot have, are left out.

### ClientStore and MachineClient

The store is the two tables; each transaction is one action, with the sweep that `save`
starts with in the same transaction. A command is at the await it
continues from: `find`, `commit`, `write`, `writing` its secret to stdout, `written`, `compensate` and
`disable` (the compensation), then `exited` with a code or `killed`. The stream may fail in the callback, as an event, or both.
The server saves, finds, touches and sweeps users in between; it may be restarted with another
redirect allowlist (the allowlist is what decides which stored rows still decode).

### BootConfig and HostedServer

`BootConfig` has no state: an environment is a function from names to raw words, and
`Accepts` follows `resolveBoot` through every reader of the settings in order. `HostedServer`
runs processes on one state directory: a boot is its steps between two things that can
fail, from `ResolveBoot` to `Listen`; `Unwind` closes what that step owes. The cutover has its
write lock, its uncommitted work and its commit. `Crash` may come at every step; the file
system and SQLite forget what was not committed.

Abstracted: mcp-sso's own tables beyond the three that the cutover empties, its own
checks of its key material, the `:memory:` store, the discovery of models, and the values of
settings that are accepted. Every process reads one environment, which does not change.
`app.close()` waits for the requests under way, without a limit of its own.

### HostedCalls

A call is `running`, `throwing` (its quota was refused inside the execution), `failing` or
`auditing` (one event after the other), `answered`. Admission, quota, shaping and guard
resolution happen in the synchronous block in which the call starts. OAuth requests are
judged by the sign-in limiter, keyed on the address the proxy headers give. A seed is its place
among the URLs, and each step of the shaping keeps a set of places; a tenant's window is the set of
its reservations, each with the time it was made. `past` is a history:
what was granted, which hints were given, which requests got through.

Abstracted: a client that disconnects changes nothing in the code (the slot is held until the
execution ends), so it is no action. Left out: body caps, the quota's `store_error` path
(an in-memory quota has none), wall-clock jumps (`Date.now()` is taken as monotone). A call with
more seeds than the whole limit is refused as retryable for ever, in the code and the model.

## Runs

| Run | Shows | Bounds |
|---|---|---|
| `bulk_limits` | reserved and settled bytes stay within the cap; what was really moved stays within it too, when no fetch times out or throws; the renders overshoot by what the byte budget lets fly; the touches of a host stay below `MaxPerHost + MaxConcurrency + min(MaxPerHost, MaxConcurrency)`; every refusal is disclosed; nothing starts after the wall | 5 seeds on 5 hosts, 3 at a time, a cap two renders fill, per-host cap 1 |
| `bulk_transform` | no slot or reservation is lost on any path; transforms never overlap; the bill overshoots by one seed; both semaphores implement `SlotPool`; the call returns although executors may never answer | 4 seeds, 3 at a time, costs 0, 1 and 4 against a reservation of 1 |
| `render_pools` | pools hold what moved and stay bounded; nothing of a blown pool starts; the report misses one body per permit at most | 5 requests that queue and 2 that do not, 2 permits, caps of 1 and 2 bytes, bodies of 2 |
| `render_permits` | the fetch semaphore implements `SlotPool` on every exit, hand-off in order of arrival included; every request is answered | 5 requests of 4 kinds over 1 permit, so that 3 can wait at once, every failure |
| `limiter` | hand-offs, time-outs and aborts in any order implement `SlotPool` and lengthen no deadline; nobody waits for ever, though fetches may never end | 4 calls, 2 signals, 2 slots, 2 ticks |
| `browser` | one connection at most, always the cached one, never used closed; no attempt is left to be joined that nobody awaits; never more renders than places, no idle place beside a queue, and everyone gets a turn | 4 renders, one repeated, 2 places, 2 attempts alive at a time |
| `fetch` | every connection goes to an address of that hop's own look-up, none private, the caller's body on the first hop only; the result is what it says; what a bulk call is charged with; the call returns | 2 redirects, 4 locations, 3 addresses, 6 kinds of page, 2 deployments, a rendered page that navigates or posts after its first navigation (in a bulk call) |
| `router` | sensitive text stays local and limits are kept; the best text and the whole cost come back; only a sustained failure demotes; the loop ends | 2 overlapping transforms, 3 models, window 3, threshold 2, 6 inputs, 3 traces of what was served before |
| `schema` | the verdict of the two walks is JSON Schema's, where its divisors are exact, and nothing the boundary admits is unverifiable afterwards | 34 schemas and all that is nested in them by 13 values and their parts, depth 3 |
| `store` | the caps hold, the audit tells the history, the exit code is true, a compensation ends only its own secret, commands end | 2 commands, 1 user, 2 machine clients, caps of 2, 1 and 1, 1 restart |
| `hosted` | one cutover, nothing issued is deleted; what was opened is closed once; what is foreign, or met under a malformed setting, is not touched; no in-process browser; every boot ends | 2 processes, 3 boots, 5 directories, 75 environments of which 73 are wrong in one setting |
| `calls` | slots are exact; no tenant exceeds its window and no hint is early; the receipt accounts for every URL; every call is audited and answered; floods are bounded | 2 callers, 3 calls, 1 slot, 7 requests, 5 posts, window 2 of 3 ticks |

The bounds are small where the case is small: one more seed than slots makes a
queue, two more make an order in it; a cap that two renders fill makes the third
a refusal; a body larger than what is left makes a crossing, and two permits
make a crossing with another fetch in flight; two ticks make a timeout that a wait can
use up in part or whole, and one tick of `Lag` a timer that is late; a second attempt
is one that starts while an earlier one, abandoned, is still pending. One redirect makes
a second hop, two a host that the chain only passes through, and the loop's limit is reached by the next; a fetch retried once has
every pair of outcomes. A demotion takes two failures of three, so two transforms can fail one
model together. Two commands are the writer and the one that comes in between;
two processes are the one that migrates and the one that waits, three boots make one of them
return. A third tick opens a second window. No request of `render_pools` is one that is
refused for its method: it ends in one step, as one of a blown pool does.

A property that a mutation of the code does not break
says nothing: `PROJECT.json` names one mutant for each, and each is violated under the
run's own bounds. Every action fires in some run.

Deadlock is not checked where the system may stop: `fetch` and `router` (the calls are
over), `schema` (a verdict is the end) and `calls` (the bounds on time and calls).

## Where the code and its documents disagree

Met while modelling; each was confirmed by a counterexample of TLC to the sentence quoted,
which is therefore not among the properties (the properties say what does hold).

- A fetch that times out in its body rejects with zero bytes (`captatum-util.ts:47`, `body.ts:49`
  and `:67-68`), so its reservation is released and what it moved is in no ledger. `docs/contracts.md:259-260`
  bounds the worst aggregate egress by `maxGlobalEgressBytes + maxConcurrency x perSeedMaxBytes`,
  `bulk-budget.ts:8-9` by the cap. (`CaptatumBulk`, one seed at a time, documents of up to
  2 bytes, `MayTimeOut`: four such seeds move 8 bytes while the budget sees 0.) `bulk_limits`
  therefore has no timeouts.
- After the per-host gate only the wall is read again (`captatum-bulk.ts:134`): a seed asleep in the gate
  is dispatched after a quarantine. `docs/threat-model.md:772-773`: the orchestrator "stops dispatching
  the remaining seeds". (Two seeds at a time, the second in the gate while the first settles on a victim.)
- A host that is not yet over its cap when a seed finds it may still be the home of seeds in flight, and
  the quarantine lets a wave of others finish: `hostCounts` reaches
  `maxPerHostInBulk + maxConcurrency + min(maxPerHostInBulk, maxConcurrency) - 1` (17 at the defaults of 10 and 4).
  `docs/contracts.md:144` and `:205` and `docs/threat-model.md:438` and `:774` say
  `maxPerHostInBulk + maxConcurrency` (14). (`CaptatumBulk`, 6 seeds, 3 at a time, `MaxPerHost` 2: a count of 6.)
  `CallBounds` states the bound that holds, and `CallStaysBounded` proves it.
- A body truncated in transit is charged without marking its pool exceeded (`route-state.ts:148` and `:213`),
  and a POST adds its response to a body that already blew the pool (`:207`): `route-state.ts:27`
  claims an overage of at most N x maxBytes per pool. `PoolBounded` says what holds of complete bodies.
- A connection attempt is detached when its last waiter leaves; renders that overlap keep a stalled
  one joined for ever (`playwright-renderer.ts:215`, against the comment at `:213`).
- `postJson` settles on the `end` of the answer or an `error` of the request (`http-json.ts:46`). An answer
  that breaks off after its head emits neither, and the socket with its timeout is gone: the transform
  and the fetch that waits for it never return. `docs/contracts.md:764` gives provider calls a timeout.
  `LoopEnds` and `CallEnds` are stated of providers that do not break off.
- The list of models already tried and the health map hold bare names (`model-router.ts:150`): a local
  model with the name of a hosted one that failed is never asked. `router-helpers.ts:54` calls
  `provider:model` the key of both. The instance of `router` has distinct names.
- The price of an empty completion is charged but not told (`model-router.ts:111` leaves before the sum).
- A store file created under an open umask by a process that is killed before its `chmod`
  (`auth-store.ts:106-108`, `sqlite-client-store.ts:224-226`) is refused as untrusted by every later boot,
  although `auth-store.ts:103` calls the cutover restart-safe. (`hosted` has this umask: such a boot ends in an exit.)
- A string too long for the pattern test makes its node invalid, and a composite around it takes that
  for a mismatch: `{"not": {"pattern": "^a"}}` accepts a long string that starts with `a`
  (`json-schema.ts:112`, against `:109-110` and `bounded-pattern.ts:14-15`, "never a silent pass").
  `VerdictSound` is stated of answers without such strings.
- A rendered page takes the place of the document with the redirects of its own navigation, which starts where
  the document was found (`render.ts:125`, `promoteRenderedResult` at `:152-188`): the hosts that the document's
  redirects led through are then in none of `redirects`, `finalUrl` and `renderEgressHosts`, and the pool does not count
  them (`captatum-bulk.ts:211-212`). `docs/threat-model.md:438` counts the seed, the redirect hosts and
  `finalUrl`, `docs/contracts.md:144` likewise. (`FetchPipeline`, page to board to page, rendered: `boards` is
  in `passed` and not in `Charged`.) `ResultTruthful` claims the hosts led through only where no rendered page was
  promoted.
- `isMultipleOf` (`json-schema-utils.ts:115-118`) divides floating-point numbers and accepts a quotient within a fixed
  distance of an integer: 4.35 is refused as a multiple of 0.01 and 1 is accepted as one of 1e15, against the
  keyword of JSON Schema. (`schema` has a divisor of the second sort; without `Exact`, `VerdictSound` is violated.)
- When the audit of a failed call rejects, its error replaces the one to be told, an overload's
  retryable error included (`mcp-route.ts:84-88`); `AuditedAndAnswered` exempts a lost audit.
- A `Retry-After` date that has passed gives 0 (`guarded-fetcher.ts:199`), where the comment at `:181-182` says
  it "floors to undefined".
- `render/index.ts:58` calls the render limiter first-in-first-out; it is not (see `BrowserSharing`).

## Fairness

`bulk_transform` assumes weak fairness of continuations that are ready, of the
gate and the back-off (both are timers) and of the wall timer, and none of the executor:
it may hang, which is what the wall is for. `render_permits` assumes fairness of
the handlers and of the fetcher, which answers within its own timeout
(`opts.timeoutMs`). `limiter` assumes that time passes, timers fire and continuations run, and
nothing of the inner fetch. `browser` assumes that a
render inside the limiter goes on, which its deadline (`timeoutMs`) gives, and nothing of a
connection attempt. `fetch` assumes that the program continues and its timers fire, that a renderer
answers by its deadline and a transformer by the timeout of its provider calls (see the
disagreement above), and nothing of the network. `router` assumes that providers answer,
succeed or fail, and that a transform continues. `store` assumes that a command that has begun
takes its next step, unless it is killed: its awaits are transactions with a busy timeout and a write that
calls back, errs or closes. `hosted` assumes that a process that runs takes its next step
(it may also fail or be killed there) and that requests under way end.

## Proofs

- `SlotPoolProofs`: `Safe` is inductive as it stands (`SafeInductive`, one step
  per action; the hand-off keeps the number of holders because the head of the
  queue is not among them). `FirstComeFirstServed` follows: only the head of the
  queue can be granted a slot, so nobody ahead of it is still waiting. Both hold under the
  hypothesis `SlotAssumption`, which each limiter meets with its own sets.
- `SumTheorems`: a sum over a finite set moves with one element (`SumUpdate`), is monotone,
  shifts, splits and grows by an insertion. The fold behind it is the recursive function
  of the community modules, which takes any element next; `Iterate` shows that it has a value for every
  order, by induction on the set. The induction is `WFMin` on the subsets, so that no theorem with an operator
  parameter is needed.
- `CaptatumBulkProofs`, for any number of seeds, any guard and any executor within its byte bounds:
  - `TypeCorrect`; `BudgetStaysBounded`. `BudgetBounded` is not inductive
    alone: a seed that settles gives back its reservation and adds what it
    reports, so the step preserves the bound only if it reports no more than it
    held. The strengthening (`FirstWithin`) says that what a first attempt
    reported fits the reservation of one attempt; `ReportWithin` derives that
    every report fits what the seed holds.
  - `SemaphoresArePools`: both semaphores are slot pools. `LeaveBoth` and `GiveSlot` make each way
    out of a seed a `Release`, the wall is a `GiveUp` of a whole queue, and `SemaphoreInv` says who is
    suspended where and that only a seed with an execution under way holds the transform slot by its job.
  - `LedgerExact`: the reserved bytes and costs are the sums of what the seeds hold. `SeedMoves` says of
    each action that it moves both by what it changes of one seed. The bill needs `SlotAffordable`: who
    holds the transform slot found the bill within its cap, and nobody else can settle a cost meanwhile.
  - `CallStaysBounded`: `CallInv` puts together what moved (`WireInv`: before the wall it is what was settled),
    the hosts (`HostsInv`: a count and the seeds in flight that can still raise it) and the renders
    (`RenderInv`: a granted render holds its bytes until it settles, so the renders under way fit the byte cap).
  - `WallHolds` needs that nobody is left with a transform slot and no execution when the wall fires (the
    timer waits for ready continuations); `RefusalsDisclosed` that a hard stop is disclosed in the block that sets it.
- `RenderRouteProofs`, for any page, any caps and any number of permits.
  `PermitInv` ties the semaphore to the handlers (free permits plus holders
  make `FetchPermits`, and whoever is in the queue is suspended in it); `HandOff`
  shows that each way out of a handler is a `Release` of the abstract pool, so
  `SafeInductive` of `SlotPoolProofs`, instantiated with the render's sets, keeps
  the pool safe and `FetchSemaphoreIsAPool` follows. `PostInv` does the same for
  the POST permits (`NoPermitLost`). `PoolsStayBounded` needs more than the bound
  itself: `PoolInv` says that a pool that is not blown is within its cap, and that
  a blown one has room left for a whole body of each fetch still in flight; the
  gates keep new fetches out of a blown pool, and each fetch that ends pays from
  the room kept for it. It assumes that no body is truncated in transit (see above).
  `EgressIsAccounted` follows the pools against what moved: they hold it and the bodies of the POSTs
  in flight, exactly, until the render ends (`Told`); from then on a permit each may move one more body.
  It assumes that no fetch is cut by a timer of its own, as `render_pools` does: what such a fetch
  moved is in no pool.
- `BrowserSharingProofs`: `TypeCorrect` and `BrowserStaysUsable` for any renders, places
  and attempts. `SharingInv` has a half for the limiter (whoever is in the queue is
  suspended in it, and as many renders as there are free places are on their way to one
  when somebody queues) and a half for the connection. What makes the second inductive is
  that a render that awaits a pending attempt awaits the one that can be joined, and that a
  pending attempt that can be joined has somebody who awaits it; `LeaveKeeps` needs that a timer fires only
  when no attempt has settled unnoticed (`Drained`), so that all who are left await one attempt.
- `FetchPipelineProofs`, one part for each module it is about.
  - The pipeline, for any URLs, redirects, limit of hops, pages and answers. `EveryConnectionVetted`:
    `GetInv` speaks of the fetch alone: the connections that were made are vetted, the one about
    to be made will be, and there is at most one per hop, none yet before the hop's request.
    `FetchKeeps` has a step per action of the fetch; `PipelineHandles` shows that
    the pipeline only begins a fetch, forgets one or cuts one short, so each of its actions keeps it.
    `EveryResultTruthful`: `PipelineInv` adds `CallOK`, which says for each place of the call what its
    result already owes (`Draft`, `CrashTold`) and that the books of a bulk call agree with
    what was read and contacted (`Booked`). During a render the books are `Pending`: bytes and hosts are not on the result yet,
    and what a rendered page will not tell is kept apart; `Framed` ties the main frame to the hosts noted, since
    a page that loaded was navigated to, and its navigation starts where the document was found.
    The result of a call that is done is `Honest`.
  - The limiter: `DeadlinesKept` for any timeout, any lag of the timers and any
    number of slots. The argument is local to a call (`Clocks`: a call that has not
    begun has not waited): only `StartFetch` brings a call to its fetch, with what
    is left, and the wait's clock stops there.
  - `GlobalLimiterIsAPool`: the global limiter implements `SlotPool`. `LimiterInv` is the pool's `Safe` and
    `LimiterTies`: `active` counts the holders, and whoever is queued is suspended there. Time-outs and aborts take
    waiters out by a recursive function; `StayDefined` and `KeptInOrder` show what it does to a queue of any length,
    with an induction by the least place where that would fail (`LeastNat`), since the induction theorems are out of reach.
    Expiries and aborts are then `GiveUp` or a stutter, and `release` the pool's `Release`; `SafeInductive` gives the rest.
  - The router, for any candidates, inputs and overlapping transforms, after anything that was served before.
    `RouterInv` ties the books to the log of outcomes (`BooksOK`: the window of a
    model is the log since its last recovery, and a count of wins means that the last outcome was one) and each transform to its histories, between two requests (`Midway`),
    during one (`Underway`) and at its end (`Final`). `OnlyAllowedRequests` and `BestIsReturned` are read off it;
    `DemotionIsEarned` also needs `FirstPicked`: whatever fits has a first, by effective place, then demotion, then rank.
  - The validation, for any schemas and answers. `RecursionOnRank` gives the five recursive functions their equations
    (a recursion that looks only at what is less high has a solution, by `LeastNat` on the height up to which it has one), and
    `RankInduction` the two inductions. `WalksCover`: whatever is acceptable, the walk that collects passes wherever the one
    that decides passes, meets every test it meets, and neither finds anything unsupported; `UpToCovers` is the
    heart of it, since the two stop at different places. `WalkTells`: where each test that is asked for has its real
    result, the deciding walk says "ok" exactly of what conforms
    (of a node whose divisor is `Exact`: there the pairs the code accepts are those that divide). Every keyword that nests has a lemma for
    its type and for what it reads of the nested results, one for each of these two claims. `SchemaInv` then
    ties `tests` and `byNode` to the first walk, for `VerdictIsSound`, `BoundaryHolds` and
    `NothingUntested`.
- `HostedServerProofs`, in two parts.
  - The server, for any environment, processes and
    boots. `ServerInv` ties the place a process has reached to what it holds open, to what its
    unwinding owes, to the lock and the uncommitted work of a migration, and to the marker and
    the trust of the directory. It has a lemma per action; `Gentle` collects what a step that
    leaves the directory alone owes to the other processes. `OneCutover` is what the marker read under the
    write lock gives; `LeftAsFound` and `RenderedElsewhere` add two facts about the configuration,
    `AcceptedIsWellFormed` and `AcceptedRendersElsewhere`, proved by going through the readers of the settings.
  - The calls, for any callers, requests and limits, four invariants for four theorems.
    `AdmissionExact` is nearly inductive: it only needs that every caller has a record with a state.
    `RecordsInv` says what the record of a call owes at each place, which gives `EveryCallAudited`; with
    `ReceiptHolds`, about the shaping and the guard alone (`FirstCount`: keeping the first n of a set
    keeps n; `HostCapped`, `Unrepeated`, `Shares`), it gives `ReceiptsAddUp`. `QuotaInv`: what stands for a tenant, purged, is
    exactly what it was granted in the window, and until a hint is over there is no room for what
    was refused. `FloodInv`: a bucket counts what went through since it began, one less after its first
    instant, and before it less than the limit went through; a bucket that is forgotten leaves less than the limit behind.
- `MachineClientProofs`: for any clients, commands, servers and restarts. The invariant, `StoreInv`, is the caps, the audit
  and `CommandInv`: what a command's own record says at each place (`LocalOK`), and what the store owes it
  (`Knows`: a version that a command has seen or made is still there, unchanged, or has been replaced by a later one).
  `CapsHold` needs nothing of the commands but that a swap revives nobody; `ExitCodesTruthful` and
  `CompensationIsExact` rest on `Knows`.

The proofs rest on the named `ASSUME`s of the modules, which TLC evaluates for each instance. Most
say that a bound is a number and a set finite (`SharingAssumption`, `LimiterAssumption`, `FetchAssumption`, `RenderAssumption`,
`CallsAssumption`), or give the shape of an input (`RequestsAssumption`, `PagesAssumption`). Those with content:

- `EgressAssumption`: a document is at most `maxBytes` (`readCappedBody` cuts it there) and
  a render at most its reservation (`renderEgressUnits`; `PoolBounded` is what the renderer
  itself guarantees, and the disagreement about truncated bodies shows when that is less).
- `ShapingAssumption`: at most `maxPerHostInBulk` seeds of a call are of one host, which is what the shaping leaves.
- `ServerAssumption`: a boot finds no file without its directory, and no marker beside a
  grant of before the cutover.
- `StoreAssumption`: what was provisioned before fits the caps; user and machine clients have different ids.
- `RouterAssumption`: no two models have the same place and the same rank (the order is that of the settings);
  `HistoryAssumption`: what was served before is a trace of the code's own bookkeeping (`Chronicle`).
- `SchemaAssumption`: schemas and values are what parsing JSON gives. Each holds finitely many others, all of a
  smaller `Height`; a schema is still one without the knobs. The height is at most `Tallest`, any number. Numbers are finite.
- `PostsAssumption`: the trusted proxy alone knows the secret and forwards the address of its client; who comes without
  the secret and without a claim is at its own address.

Only model-checked:

- liveness: `CallReturns`, `EveryRequestAnswered`, `EveryRenderEnds`,
  `CommandEnds`, `CallEnds`, `LoopEnds`, `EveryBootEnds` and the second half of `QueueServed`
  (its first half is `GlobalLimiterIsAPool`): fairness and ENABLED are beyond the prover.

Every other property of a run is a theorem.

## Plan

What is left, in order of importance.

1. `BrowserSharing`: the death of the remote browser, after which the cached connection is handed out
   without asking whether it is still there.
2. `RenderRoute`: the capture of the content against a later navigation of the main frame.
3. `CaptatumBulk`: the token bucket of the per-host gate, in place of a wait of any length.

## Not modelled

- HTML extraction, hidden-text removal, content quality and anti-bot heuristics (`extract/`,
  `classify.ts`, `content-quality.ts`, `antibot.ts`): deterministic functions of large texts, without state
  or order. The models take their verdicts as inputs.
- Site adapters for job boards (`ats/`, `ashby/`, `greenhouse/`, `lever/`): stateless mappings of
  responses; that they fetch, fail and fall through is in `FetchPipeline`.
- Prompts, redaction, sensitive-content detection and token counts of a transform: functions of text;
  whether content is sensitive is an input of `ModelRouter`.
- Decoding of charsets and the alternative transport (`wreq`).
- The local launch of a browser, and the phases of a page (goto, settle, capture): Playwright does them, and a
  render keeps nothing of them.
- Formatting of results, the schemas of the tools, the stdio bridge and the command line.
- mcp-sso beyond the three tables that the cutover empties and the calls captatum makes to it.
- The development probes under `dev/`: scripts that exercise the program.
