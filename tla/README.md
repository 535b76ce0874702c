# CogniGate in TLA+

A TLA+ model of the CogniGate gateway (`src/gateway`) and of its contract with
the analytics service (`src/analytics`): modules translated from the Go source,
TLC configurations that check them on small instances, and TLAPS proofs of what
matters most for every value of the constants.  `PROJECT.json` maps every
definition to the lines it models and lists the runs, their mutants, the
findings, the hazards and the theorems.

Paths below are relative to `src/gateway/internal` unless they start with `src/`.

## The system

CogniGate is an OpenAI-compatible gateway in front of several LLM providers.  A
request passes the middleware (identity, drain, authentication, body and rate
limits, a concurrency slot, the quota check), is answered from the response cache
or resolved to a chain of candidates, and dispatched along that chain behind a
circuit breaker per tenant, provider and model.  The answer is metered; the usage
record is queued for the analytics service.  State transitions of breakers,
quotas, the catalog and debug capture raise events that are delivered to webhooks.

Nothing but the analytics database outlives the process: the store is in memory,
and the gateway's answer to a crash is that its queue, its history and its counters
are gone.  What is left to go wrong is concurrency: fasthttp serves every request in
a goroutine of its own, streams go on in a second one after the handler has returned,
timers, workers and the telemetry dispatcher run beside them, and administrators
change what requests have already read.

| Part | State | Operations | Hard behaviour |
| ---- | ----- | ---------- | -------------- |
| Circuit breaker (`routing/breaker.go`) | per key: state, failure times, opened-at, probing | Allow, Success, Failure, State, Snapshot | reports of calls admitted in an earlier state; probes that report nothing |
| Dispatcher (`routing/dispatch.go`, `provider/`) | cursors, key cool-downs; per request: chain position, keys left, deadline | Dispatch, tryCandidate, keyOrder, readyKeys, coolKey | concurrent requests share breakers, cursors and cool-downs; provider list read once; deadline in mid-cascade; silent upstreams |
| Usage pipeline (`obs/telemetry.go`, `analytics/client.go`, `src/analytics/.../UsageController.java`) | queue, record in hand, drop counter; rows by request id | Record, deliver, retry, drain, Close; check, insert | timeouts that race the late write, lost answers, restarts of analytics, shutdown in an outage |
| Events (`events/`) | history, webhooks, job queue, workers | Emit, enqueue, deliver, retry, Close | fan-out onto a full queue, dead endpoints, Close under load |
| Rate limiter (`server/limits.go`) | bucket per tenant | take, sweep | late refill, two refusals at once, forgotten tenants |
| Chat (`server/chat.go`, `server/limits.go`, `server/middleware.go`) | slots per key; per request: handler, relay, watchdog | acquire, adopt, relaySSE, meterStream | a slot that changes hands, a watchdog that races the last line, clients that fall behind or leave |
| Quotas (`server/quota.go`) | cached positions, per-scope lock, announcements | evaluate, invalidate, announce | stale positions at a reset or an admin change, concurrent evaluation, failing store |
| Response cache and debug capture (`cache/`, `capture/`, `server/cache.go`, `server/capture.go`) | LRU list and byte count; capture buckets | Get, Put, Flush, sweep | requests of a tenant that is being deleted, evictions, shortened policies |
| Catalog and resolution (`catalog/`, `routing/resolve.go`, `routing/diagnose.go`, `server/data.go`) | snapshot per tenant, its lock | Get, Refresh, Invalidate, Resolve, diagnose | polls under way during admin writes, partial failures, two sets of rules for routing and for health |
| Admin plane (`server/admin.go`, `server/audit.go`, `server/page.go`, `store/`) | tenants, keys, configuration, quotas, audit log | create, update, put, delete, revoke, list | cascades that race writes, scopes of minted keys, pages over a changing collection |
| Usage rows and billing (`store/memory.go`, `server/data.go`, `analytics/store.go`, `src/analytics/.../UsageMetricRepo.java`, `BillingService.java`) | the rows of either store; a report or a billing job under way | record, totals, breakdown, `GET /v1/usage`, monthly invoices | rows that land between the reads of a report, period boundaries, the cap of the in-process store, a job that runs late |
| Errors, configuration, logging, metrics, documentation, mock provider | none that others read | | |

## Plan

The modules were built from the ones others rest on outwards.

1. `BreakerOps` and `Breaker`, the abstract `Circuit`, and the proof that the one
   implements the other; `Dispatch`, which composes breakers with the cascade, and
   the same promise proved of it.
2. `Telemetry` with the analytics endpoint, the abstract `Ledger`, the proof of
   at-most-once billing and of the refinement.
3. The rest of the request path: `RateLimit`, `Quota`, `Chat`, `Catalog`, `Routing`.
4. What outlives a request: `Events`, `Tenancy`, `Admin`.
5. What requests leave behind: `Usage`, with both stores, the report and the billing job,
   and `Breakdowns` over them.
6. Proofs beyond the breaker and the pipeline: `ChatProofs` (with the rate limiter),
   `AdminProofs` (with pagination), `QuotaProofs`, `EventsProofs`, `TenancyProofs`,
   `CatalogProofs` (with routing), and the usage stores in `TelemetryProofs`.  Where a
   proof needed it the model was rewritten with the same meaning: loops as recursive
   functions, sorting as a count of what comes before.

A step that remains possible: a composition of `Quota` with `Telemetry`, so that the lag of
the usage rows is part of the overshoot.

## Modules

| Module | Models | Runs |
| ------ | ------ | ---- |
| `Lists` | the loop that filters a list, for `BreakerOps` and `Tenancy` | |
| `BreakerOps` | the methods of a breaker as operators on its entry | |
| `Breaker` | one entry, its concurrent callers and the clock | `breaker` (as a property: `UsesBreaker`) |
| `Circuit` | what a breaker promises: closed, open for the cool-off, one probe | `dispatch` (as a property) |
| `Dispatch` | requests, candidates with a breaker each, pools of keys, the deadline | `breaker`, `dispatch`, `dispatch_leak` |
| `Failures` | `Dispatch` with a history of the failures its requests met | `breaker` |
| `Telemetry` | metered requests, the queue, the dispatcher goroutine, shutdown, analytics | `telemetry` |
| `Ledger` | what the pipeline promises: a record is billed or counted as lost | `telemetry` (as a property) |
| `Events` | callbacks, the history, the queue, workers, endpoints, Close | `events` |
| `RateLimit` | buckets and minutes, beside a limiter that forgets nothing | `rate` |
| `Quota` | positions of keys, evaluation, admin writes, days | `quota` |
| `Chat` | slots, handlers, relays, watchdogs, upstreams, clients | `chat` |
| `Tenancy` | tenants, keys, the cache, captures, requests and admin handlers | `tenancy` |
| `Catalog` | providers, polls one provider at a time, snapshots, events | `catalog` |
| `Routing` | resolution, health and listing, as operators on a snapshot | `catalog` |
| `Usage` | the two usage stores, the usage report, the billing job | `usage` |
| `Breakdowns` | usage by model, key or label, as each store computes it | `usage` |
| `Admin` | the handlers of the admin plane over the store, the audit log | `admin` |
| `Pages` | lists, their pagination, and a client that walks them while `Admin` goes on | `admin` |
| `MC*` | the constants of the runs | |
| `DispatchProofs` (also of `Breaker` and `Failures`), `TelemetryProofs` (also of `Usage`), `EventsProofs`, `ChatProofs` (also of `RateLimit`), `QuotaProofs`, `TenancyProofs`, `CatalogProofs` (also of `Routing`), `AdminProofs` (also of `Pages`) | theorems | |

An action is a step between two points where another goroutine can come between: a
critical section, a channel operation, a call of the store, a request on the network.
Variables carry the names of the fields they stand for and each says so where it is
declared.  Time is a `Tick` that ages what the code stamps; ages are capped at the
largest constant they are compared with.  Operators named for what they get wrong
(`AcquireOneOver`, `FireUnclosed`, ...) stand before the definition they vary.  No
specification uses them; with one in its place, the property it is listed with in
`PROJECT.json` fails, which shows that the property depends on that code.

### How the state corresponds

- `Breaker.entry` is `breakerEntry`: `failures` holds ages instead of times, `openAge`
  the time since `openedAt`.  `Allow`, `Success` and `Failure` each run under the mutex
  and are one action.  `inside` is the set of callers that were admitted and have not
  left; a caller leaves by a report, or without one (`Abandon`).  `Dispatch` has an entry
  for each candidate, and `UsesBreaker` says that its requests are such callers.
- `Dispatch.req[r]` is the frame of `Dispatch` and `tryCandidate`: the chain position,
  the keys still to be tried, whether the deadline has passed.  Every kind of outcome
  `provider.Error` tells apart is an action.  `Unusable` and `Reject` are the two ways
  out that tell the breaker nothing.
- `Telemetry.pc`, `mode` and `hand` are the position of the dispatcher goroutine;
  `handler[h]` is one execution of `UsageController.record`, of which only the
  latest is heard by the gateway.  `rows` counts rows of a request id, so that a
  second one would show.
- `Events.emit[g]` is a callback goroutine inside `Emit`, `worker[w]` one inside
  `deliver`.
- `Quota.handler[h]` is inside `quotaCache.get` and `computeQuota`, between two lookups;
  `inflight` is the lock of a scope; `asof` counts the admin writes a position has seen.
- `Chat.handler`, `relay`, `up` and `client` are the two goroutines of a request, its
  upstream and its client.
- `Tenancy.cache` is the LRU list, `bytes` the counter beside it; a request carries the
  tenant as authentication read it, as in the code.
- `Catalog.poll` is the snapshot under construction while `lock` is held: providers are
  asked one at a time (`todo` is what is left of them), as in `refresh`'s loop; `dirty`
  counts handlers between their write and their `Invalidate`.
- `Usage.metered` is what was served, in order, and `landed` how much of it has reached
  the stores: the lag of `Telemetry`.  `memory` and `table` are the two stores, fed alike
  so that their answers can be compared; a deployment has one of them.  The table is in
  the order of its ids.  `report` is `handleUsage` between two reads, `job` is
  `runMonthlyBilling` between two tenants; what each still has to do is a set of places or
  of tenants, taken lowest first, which is the order of the code's loop and of the query.
- `Admin.handler[h]` is between two calls of the store; `next` is the next identifier.  In
  `Pages`, `Rank` is the order of random identifiers, so that creation order and identifier
  order differ, `walk` is a client between two pages, and `held` what its collection has
  held since the first.  A list is sorted by counting, for each item, those before it.
- `Failures.recent` is outside the system: how many failures each candidate's callers have
  met in the last tick, in the last two, and so on, since its last success.

## Runs

Every passing run explores its whole state space.  The number of distinct states is
for the instance in the `.cfg` file, whose comment says what the instance is for.

| Run | Instance | Shows |
| --- | -------- | ----- |
| `breaker` | two requests over two candidates of two providers, threshold 3, a window of one tick; 39 thousand states | the requests of the dispatcher are callers of each breaker as `Breaker` has it (`UsesBreaker`), a breaker trips when and only when the threshold is met within the window, measured by a history of its own (`TripsExactlyOnThreshold`), a half-open breaker is resolved in the absence of the two outcomes that report nothing (`HalfOpenResolves`), and every buffered request is answered though upstreams may be silent for good (`BufferedAnswered`) |
| `dispatch` | two requests, two candidates of one provider with two keys, all replies, the provider may be disabled; 541 thousand states | a cascade uses each candidate as `Circuit` promises (`KeepsPromise`), keeps breakers sound and offers no key twice (`CascadeInv`) and never cuts a cool-down short (`CoolDownOnlyEndsByTime`) |
| `dispatch_leak` | two requests for one candidate, all replies | the violation described under Findings |
| `telemetry` | three records, a buffer of one, two deliveries at once, one malformed record, crashes and restarts; 14 thousand states | one row per request (`BilledOnce`), an orderly shutdown leaves nothing behind (`NothingLeftBehind`), a record let go is stored or counted (`KeepsTheBooks`), `Close` returns during an outage (`CloseReturns`), and a backlog arrives after it (`BacklogArrives`) |
| `events` | two sources, a live and a dead endpoint, two workers, two attempts, a queue of one, a history of two; 215 thousand states | history before delivery (`OnRecordFirst`), one schedule per event and endpoint (`OneSchedule`), nobody starved by a dead endpoint (`OthersGetTheirs`), `Close` returns |
| `rate` | two tenants, half-second ticks, sweeps at the second bucket; 13 thousand states | late refill and forgetting change no answer (`ForgettingChangesNothing`), and `Retry-After` is long enough (`RetryAfterSuffices`) |
| `quota` | two keys, two requests at a time, two days of one month, one admin change; 1.2 million states | positions settle within the time to live (`SettlesWithinTTL`), a change is outlived only by a computation that overlapped it (`ChangeTakesEffect`), a rejection names the reset that ends it and the usage report shows it (`RejectedUntilReset`), a crossing is announced once in its scope (`AnnouncedOnce`) |
| `chat` | two requests for one slot, streams of a line, an idle timeout of two; 428 thousand states | slots are counted exactly and bound the work (`InFlightBounded`), a served request is metered once (`MeteredOnce`), an ending is told truthfully (`EndingTruthful`), slots come back (`SlotFreed`) |
| `tenancy` | two tenants that share a cache of two answers, two requests, two admin changes to policies, keys and tenants; 879 thousand states | the byte count is exact and an item is the answer of the tenant and model it is filed under (`AnswersUnderTheirName`), captures go in time (`RetentionBounded`), and a deletion leaves behind only what overlapped it (`DeletedLeavesNothing`) |
| `usage` | three rows of two tenants, two keys and two models over two months, one row more than the in-process store keeps; 1.2 million states | both stores and every way to ask give the same numbers (`BackendsAgree`), a report of several reads does not contradict itself (`ReportCoherent`), and a billing job that ends has invoiced what had landed when it began and nothing outside its window (`InvoicesWhatLanded`) |
| `catalog` | two providers, two models, four definitions of an alias, four chains; 618 thousand states | no snapshot predates an invalidated change and each answers for every enabled provider (`PolledAfterChange`), events add up to the catalog (`EventsTellTheCatalog`), health and the model list agree with routing, a tenant with every path dead included (`DiagnosisMatchesRouting`, `ListedAsServed`) |
| `admin` | two handlers, three writes, a walk over tenants, providers or the audit log; 730 thousand states | nothing but quotas outlives its tenant and names are unique (`NothingOrphaned`), chains of minted keys stay in their tenant (`ScopeConfined`), a walk misses nothing and repeats nothing (`WalkComplete`), the audit log accounts for every item (`Explained`) |

Each module has a type invariant.  It is proved of all of them; the runs check it as the
first conjunct of `CascadeInv`, `OneSchedule`, `ForgettingChangesNothing`, `AnnouncedOnce`, `InFlightBounded`, `AnswersUnderTheirName`, `BackendsAgree`,
`ListedAsServed` and `NothingOrphaned`.

### Bounds

Two requests, handlers or workers are what an interleaving needs: every critical
section and every shared counter is met by a second actor at each of its points.  Where
a third matters it is there: the telemetry queue has three records (one in hand, one
queued, one too many), the usage rows three (one more than the store keeps).  Where two
requests must not hide a case the bound is on the other side: a breaker of threshold 3
needs requests that return, and they do, any number of times.  Queues, caches and logs
hold one to three items, so that all of them overflow.  Ages are capped at the largest
value compared with.  Times to live of one or two ticks let an entry be fresh, nearly
stale and stale.

`MaxChanges` (admin writes), `MaxTurns` (changes upstream), `MaxUse` (metered use, over
all keys), `MaxDay`, `MaxLines`, `MaxRows`, `MaxTime` and the identifiers `Ids` bound what
may happen any number of times.  The instance of `quota` has two days of one month, so a
day ends while the month goes on; the end of a month is crossed in `usage`.  There,
`BilledSpan` is as long as the first month, as 30 days are for a month of 30, and the job
may start at either instant of its day, so its window can be off by one.  The instance of
`admin` has one kind of configuration for each of the two verbs (providers and aliases).
Handlers, requests and models are symmetric where a run without liveness says so; no run
that checks liveness uses symmetry.

Deadlock is checked in the runs whose system goes on for ever (in `telemetry`, analytics
still restarts after the gateway has exited; in `usage`, reports can always be asked for);
`events`, `chat` and `admin` allow a stop: their requests, lines, writes and events are
bounded and used up.

### Fairness

- `Dispatch`: the goroutine of each request is scheduled (`Move`), and time passes
  (`Tick`): timers expire, and a call whose deadline has passed returns an error, because
  its context is cancelled.  Nothing is assumed of upstreams.
- `Telemetry`: the dispatcher goroutine runs, its timers fire and an attempt ends by
  `writeTimeout` at the latest.  `BacklogArrives` has as a premise, not as part of the
  specification, that the outage ends.  `CloseReturns` does without.
- `Events`: workers run, and an attempt ends, at the latest by the client's timeout.
- `Chat`: handlers return, relays and watchdogs run, time passes.  Upstreams and clients
  may stop for ever: `SlotFreed` speaks of requests whose dispatch has answered, and
  lets a slot wait for a client that does not read.

## Proofs

TLAPS proves the following for every value of the constants that satisfies the named
assumptions, which TLC evaluates on every instance.

**Breaker** (`DispatchProofs`, where a single breaker is the instance `One`; assumption
`BreakerSettings`: the threshold, window and cool-off are positive).  The inductive
invariant is `IInv == TypeOK /\ BreakerInv`: a closed entry is below its threshold,
half-open is exactly probing, and the failures are oldest first.  The order is what makes
the model faithful for every setting: `Failure` filters the failures that have aged out,
the model drops a prefix (`Live`), and for a list in time order the two are the same.
Theorems: `Invariance`, `Truthful` (`HealthIsTruthful`) and `Refinement` (`KeepsPromise`:
the entry's state and the time since it opened are a `Circuit`, step by step).

**Dispatch** (`DispatchProofs`; assumption `DispatchInputs`).  `AllSound`, soundness of all
entries at once, is inductive because every action changes at most one entry, by one
method.  That only admitted calls report, and each once, follows from where a request is:
one that calls is inside the breaker of the candidate its position names, and every way out
of a call moves it on.  Theorems, whatever the chains, pools, replies and number of
requests:
- `Breakers` (`EntriesSound`);
- `BreakersUsed` (`UsesBreaker`): the requests are callers of every breaker as `Breaker`
  has them, so what is proved there of one entry holds of each;
- `CircuitsKept` (`KeepsPromise` of every candidate): no request calls an upstream whose
  circuit is open, and only one finds the cool-off over;
- `CoolDowns` (`CoolDownOnlyEndsByTime`);
- `Cascades` (`CascadeInv`): no key is tried twice for a candidate.  The keys still to try
  are one pass over the pool from the cursor (`OnePass`), for which the cursor must be a
  place of the pool (`Placed`);
- `Trips` (`TripsExactlyOnThreshold`, of `Failures`): a closed breaker opens exactly when
  one more failure of its callers makes `Threshold` of them within the window.  `Agrees`
  relates the history, which counts, to the entry, which lists: the failures younger than n
  are the last `recent[c][n]` of the list.

**Telemetry** (`TelemetryProofs`; assumption `TelemetrySettings`).  The inductive
invariant is `TypeOK /\ OnePlace /\ BilledOnce`.  That a request has at most one row
rests on the unique constraint alone, but that a row is only of a request that was
served needs that each record is in one place and that deliveries are of records that
left the queue.  Theorems: `Invariance`, `TypesHold`, `OnePlaceHolds`,
`NeverBilledTwice` (`BilledOnce`) and `Refinement` (`KeepsTheBooks`: the pipeline
implements `Ledger`, so a record is let go only with its row written or its loss
counted), also where requests outlast the drain; and `ExitsEmpty` (`NothingLeftBehind`)
where none does (`~MayTimeOut`), which is how the run has it and what the property needs.

**Usage** (`TelemetryProofs`; assumption `UsageSettings`).  `Stored` says that the table is
the part of what was metered that has landed, in that order.  On it rest
- `Invoices` (`InvoicesWhatLanded`): each invoice the job has written charges what the rows
  up to some point between its start and now come to (`Supported`), and no tenant with
  something due that had landed when the job started is left out (`Reached`), although
  rows land between the listing of the tenants and each of their sums;
- `Reports` (`ReportCoherent`): the totals of a report are at most what the table has now,
  and a limit of the same period was read after them (`Reporting`); so no limit of the
  tenant shows less used than the totals, and one past its cap has nothing left.  What is
  published rounded is compared too, as rounding to one figure keeps the order
  (`OneFigureOrder`);
- `SameTotals` (`StoresAlike`): until the in-process store drops a row of a tenant, it and
  the table give the same totals for every key and period;
- `OldestGoFirst` (`KeepsTheLatest`): at its limit and beyond, that store holds the latest
  rows of each tenant that landed, without a gap and in their order.  The rank of a row
  among those of its tenant says which ones they are;
- `UsageTypes` (`UsageTypeOK`).

The last three are parts of `BackendsAgree`.

**Events** (`EventsProofs`; assumption `EventsSettings`).  The invariant is `Scheduled`, in
which `Untouched` says that a job the fan-out has not reached is nowhere and was never
tried (this needs that webhook identifiers are not given out twice), and `Recorded`, that an
event a goroutine fans out is in the history or was pushed out of a full one.  Theorems:
`Deliveries`, `Schedules` (`OneSchedule`) and `HistoryFirst` (`OnRecordFirst`), for any
callbacks, batches, webhooks and workers.

**Chat** (`ChatProofs`; assumption `ChatSettings`: a positive limit and idle timeout,
finitely many requests).  The count of slots is compared with the set of their holders,
and a slot changes hands when a stream outlives its handler: so the invariant says whose a
request is at each point (`Owned`: a handler that was not served, a handler that has
adopted nothing, a relay) together with the exact count (`SlotsCounted`).  `Told` is what a
relay knows of its upstream once it has stopped reading; it is what makes the last line
truthful although the watchdog may have closed the upstream meanwhile.  Theorems:
`Invariance`, `SlotsBound` (`InFlightBounded`), `Metered` (`MeteredOnce`), `Truthful`
(`EndingTruthful`).

**RateLimit** (`ChatProofs`; assumption `RateSettings`: overrides within the ceilings, as
the admin API sees to, and ages told apart up to a minute and to the time a bucket takes to
fill).  `Buckets` bounds every bucket by its tenant's limits.  The arithmetic is in lemmas:
rounding up covers what was divided, in tokens per tick and again in whole seconds.
Theorems: `RateInvariance` (`Buckets`), `RetryAfterLongEnough` (`RetryAfterSuffices`) and
`ForgettingIsSafe` (`ForgettingChangesNothing`), the last with the hypothesis `Alike` that
all tenants have the same rate and burst.  Its invariant relates each bucket to the one that
was refilled at every tick: refilling once for n ticks is refilling n times once, capped or
not, and a forgotten bucket was full and its minute over.  Without `Alike` the step of the
sweep fails, and so does the property: see the observations.

**Quota** (`QuotaProofs`; assumption `QuotaSettings`: a positive time to live and length of
a month, a tenant that is not one of its keys).  `IInv` has four parts: `Typed`; `Locked`,
that a key's lock and the one handler computing its position name each other; `Current`,
that a reading made since the last change, half done or stored, is the true one, for which
an entry's age is compared with the time that was quiet; and `Dated`, that an entry from
before an admin write is marked or about to be dropped.  Two more invariants rest on it.

`Heard` carries the announcements: nothing told is newer or worse than what
`quotaCache.announced` holds, what it holds was told, and it is of a period no later than
the day of a handler that is about to compare with it.  `shouldAnnounce` only asks whether
the period is a different one, so this needs that periods advance with the day and that
the lock keeps two handlers of a key, which may have read the clock on different days,
apart.  `Grounded` gives every cached or half-computed rejection its reason: a cap that the
records of its period used up when it was read, and still do, since records are only added.

Theorems: `Invariance`, `HeardAlways`, `ReasonsHold`, `Settles` (`SettlesWithinTTL`),
`TakesEffect` (`ChangeTakesEffect`), `Announced` (`AnnouncedOnce`) and `Rejections`
(`RejectedUntilReset`), for any keys, requests, quotas and usage.

**Tenancy** (`TenancyProofs`; assumption `TenancySettings`).  `CacheSound`: an item of the
cache has the name of its tenant and model, no two have the same, and `bytes` is the sum of
the sizes.  `CapturesSound`: a bucket is oldest first and no capture is older than the
longest time to live and the time since the last sweep.  `DeletionSound`: once the flushes
of a deletion are through, nothing of the tenant is left or comes back, unless a request
overlapped.  Theorems: `Invariance`, `Named` (`AnswersUnderTheirName`), `Bounded`
(`RetentionBounded`) and `NothingLeft` (`DeletedLeavesNothing`).  The proof settled the
bound of `RetentionBounded`, which is `MaxCaptureTTL + SweepEvery`: the time to live a
capture was itself given is not one, see the observations.

**Catalog** and **Routing** (`CatalogProofs`; assumptions `CatalogSettings`,
`RoutingSettings`).  The invariant of the polls is `PolledAfterChange` and
`EventsTellTheCatalog` themselves with `PollCurrent`: a poll under way has an answer of, or
is still to ask, every enabled provider, unless an `Invalidate` is still to come.  `Sound`
adds that no list has a provider twice.  Theorems: `Invariance`, `Current`
(`PolledAfterChange`), `EventsExact` (`EventsTellTheCatalog`), `NoProviderTwice` (`TypeOK`),
`Diagnosed` (`DiagnosisMatchesRouting`) and `ListingServed` (`ListedAsServed`).  For the
last two the selection order is shown to be total, so that every rank has its candidate,
and the loop over an alias's choices is followed by what it has found so far (`Leads`).
`ListingServed` has the hypothesis that the alias is not named like a model, which
`upsertAlias` refuses for the models it knows (`server/admin.go:973`).

**Admin** (`AdminProofs`; assumption `AdminSettings`).  A handler makes several calls of
the store and others come between them.  The invariant has what the handler still relies on
when it goes on (`HandlerInv`: while it sets a quota, its key is the tenant's or the tenant
is gone), that everything with a tenant has one (`Homes`), unique identifiers and names
(`Unique`), and the scopes of minted keys (`ScopeConfined` itself).  `Kept`, that no tenant
comes back and no key leaves a tenant that stays, carries the first over the steps of
others; it holds because identifiers are never drawn twice.  Theorems: `Invariance`,
`NoOrphans` (`NothingOrphaned`), `Confined` (`ScopeConfined`) and `Accountable`
(`Explained`, by counting over finitely many handlers: a tenant's items that were not
seeded are no more than the writes in the log and those about to enter it), for any number
of writes, seeds and names.  They are of `Admin!Spec`; the run checks them under
`Pages!WSpec`, whose steps leave the variables of `Admin` alone or are steps of its `Next`.

**Pages** (`AdminProofs`; assumption `PagesSettings`).  `Walks` is `WalkComplete`: a client
that follows the cursors to the end has seen what was there all the time, and nothing
twice, whatever is created and deleted meanwhile, for each of the lists and every size of a
page.  The
invariant (`OnTheWay`) is about the last item seen: while it is there, what was seen comes
before it and what is yet to be seen comes after.  It holds because the place of an item
does not depend on what comes or goes (`Steady`), and because the log is in the order of its
identifiers (`Chronicle`).

**Induction.**  The library's induction theorems take an operator, which the installed
provers cannot instantiate.  Where a fact about all lengths or all sums is needed it is
proved by a least counterexample: a set of numbers that is not empty has a least member
(`Least`), and that a recursive function defined by `LET` is one is shown for all numbers
up to n (`UpTo`).

**Only model-checked.**  The liveness properties `HalfOpenResolves`, `BufferedAnswered`,
`CloseReturns`, `BacklogArrives`, `OthersGetTheirs` and `SlotFreed`: the prover does not
reason about fairness or `ENABLED`.  The rest of `BackendsAgree`: the breakdowns of
the two stores are folds over rows grouped and sorted in different ways, and what these
compute for every list takes an induction of its own for each.

## Findings

`dispatch_leak`: a request that `Allow` has made the probe of a half-open breaker and
that the upstream then refuses as the caller's fault (a 400, say) returns from
`Dispatch` without `Success` or `Failure` (`routing/dispatch.go:285`); so does one whose
provider turns out to be unusable (`:250`).  `probing` stays set.  The comment at
`routing/breaker.go:106` says that it "marks that a half-open probe is in flight"; none
is, and `Allow` refuses that candidate until a call admitted before the trip happens to
report, or the process is restarted.

## Observations

Met while translating the code.  They are not checked by a run of their own; the models
contain the behaviour unless it says otherwise.

Routing
- A failure reported late, by a call from before the trip, reopens a half-open breaker
  while its probe is still out; after the cool-off there are two probes
  (`routing/breaker.go:282`).
- When the deadline passes in mid-cascade, the remaining candidates fail at once and
  their breakers are told so, although nobody asked them (`routing/dispatch.go:301`).
- A streamed request has no deadline before its stream opens, and
  `ResponseHeaderTimeout` is 0 beside a comment that asks for the connect budget
  (`provider/openai.go:48`).

Catalog (ids with a slash of their own are not in the model)
- A provider that fails to list, while another succeeds, loses its models from the
  snapshot, and `catalog.model_removed` is emitted for them (`catalog/catalog.go:324`).
  `src/spec/gw-01-model-discovery.md:25` says that a failed poll "MUST NOT evict the
  previous catalog snapshot for that provider", and a comment of `buildHealth`
  (`server/data.go:718`) that such a provider "keeps whatever models the last good poll found".
  `PolledAfterChange` states what the code does: the snapshot lists a provider or names it
  among its errors.
- A model id that contains a slash is cut at the first one when it is not found as it
  stands (`routing/resolve.go:225`, `catalog/catalog.go:417`).
- `diagnoseRoute` looks for duplicates of the first choice, where `Resolve` goes on to
  the next choice; `diagnoseAlias` ignores a route whose match is the alias's name.
- Deleting a provider emits no `model_removed`.
- `buildHealth` calls `Catalog.Get`, which may poll the providers.

Usage and quotas
- The record in hand is beside the buffer, so `telemetry.buffer` + 1 records can be lost
  with the process (`obs/telemetry.go:221`).
- A request that outlasts `drain_timeout` records its usage into a queue that nobody
  reads: neither stored nor counted (`obs/telemetry.go:157`, `src/gateway/app.go:263`).
  `NothingLeftBehind` is checked with `MayTimeOut = FALSE`.
- A record whose row breaks a constraint other than the unique one is answered with a
  500 for ever and holds up the queue (`UsageController.java:76`).  `BacklogArrives` is
  checked with `Unstorable = {}`.
- The sweep of the rate limiter measures other tenants' buckets by the caller's limits
  (`server/limits.go:397`).  With different bursts it forgets a bucket that is not full;
  `ForgettingChangesNothing` is checked where the buckets are alike.
- A tenant's crossing is announced once for each key that notices it
  ("once per window crossing", `src/spec/gw-04` line 39).
- A computation that overlaps an admin change is stored after its invalidation
  (`server/quota.go:205`); `ChangeTakesEffect` says how far that goes.
- The store keeps 50 000 usage records of a tenant, and quotas undercount beyond.
- The comment of `usageLimit` (`server/data.go`) says that consumed and remaining "always
  sum to Cap"; past the cap they do not.  With costs published as a hint, rounding can
  leave something of a cap that is used up; `ReportCoherent` asks for nothing left only
  where costs are exact.
- `BillingService` bills the 30 days before the moment it runs.  The first day of a month
  of 31 days is in no invoice, the last days of January are in two (the window that ends on
  the first of March reaches back to them), and a job that starts late shifts its window. A
  row that lands after its tenant's invoice is in no later window.  A query that throws
  leaves the remaining tenants without an invoice (`BillingService.java:55`). 
  `InvoicesWhatLanded` states what a job does with its window.

Requests and tenants
- A client that does not read makes the watchdog close a healthy upstream, which is
  reported as stalled (`server/chat.go:442`).
- An answer that is stored after `deleteTenant` has flushed stays until it is evicted
  (`server/chat.go:253`); `DeletedLeavesNothing` allows for requests that overlap.
- Captures expire from the front of their bucket only.  After a policy was shortened, an
  expired capture behind a live one stays, and `Put` may evict the live one for room, where
  its comment says that "a tenant never loses a live capture to make room for one that only
  appeared to be needed" (`capture/capture.go:106`).  With a time to live of 5, then 1, a
  capture of the second kind can be held for 5 and a sweep; `RetentionBounded` states the
  bound that holds.
- `DeleteTenant` deletes `quotas[id]`, while quotas are kept under `quotaKey(tenant, key)`:
  they stay (`store/memory.go:225`), and so does the tenant's event history.
- `seedAliases` overwrites an alias that was put on a tenant just created.

## Not modelled

The configuration of the analytics service, the parsing of errors and configuration files,
logging and metrics, the mock provider, the documentation site and the installers;
`PROJECT.json` gives the reason for each.  They have no state that another part reads.
Within the parts that are modelled: field validation, the text of payloads and their
rewriting, token estimates, signatures, hashing of keys, the redaction of captures, the time
for which a health report is cached, and the static metadata endpoint.
