# MirrorGap: TLA+ models and proofs

MirrorGap watches tokenised real-world assets. A *scan* asks the CoinMarketCap
API for one batch of quotes, measures for every watched asset how far its
tokens are from the reference price and from one another, and keeps an
*anomaly event* per asset from the first anomalous reading to the one that
resolves or invalidates it. Everything is stored in one SQLite database that a
web server, a CLI and an MCP server share.

This directory models the parts of the program where order, overlap, failure or
a long sequence of legal calls could break a promise, checks them with TLC, and
proves the central ones with TLAPS. All paths below are relative to `src/`.

## 1. Inventory

| Component | Code | State it keeps | Operations | What is hard | What makes it correct |
|---|---|---|---|---|---|
| Event lifecycle | `packages/core/src/lifecycle.ts` | none (a pure step on an event row) | `applyScanToEvent` | long sequences: fading, changing kind, closing, reopening | one open event per asset, an exact summary of the asset's run; closing is final; confirmed by count |
| Scan pipeline | `packages/runtime/src/runtime.ts` | the scan's local lists | `scan`, `processEntry`, `recordTransition`, `resolveWatchlist` | overlapping scans, two processes, exceptions and crashes between store operations | evidence before claim; completed means whole; every run finishes |
| Store | `packages/storage/src/sqlite.ts`, `schema.ts` | 14 tables | upserts, inserts, `openEventFor`, `nextEventSeq`, lists | each operation commits on its own | keys, upserts and queries as used above |
| Alert dispatcher | `packages/runtime/src/alerts.ts` | `alert_log`, deliveries in memory | `notify`, `deliver` | check, await, record; retry; crash; a POST taken and not recorded | a key is repeated only while its first notification is out or unrecorded; no silent escalation; every outcome logged once |
| Integrity engine | `packages/core/src/{anomaly,parity,dispersion,freshness,quality,engine}.ts` | none | `evaluateAsset` and its parts | thresholds, boundaries, missing data | the worst band wins, signs, freshness before comparison |
| Receipts, audit, capsule | `packages/core/src/{receipt,audit,capsule,canonical}.ts` | none | build, sign, verify, audit | what the hash covers; a second reading of the same evidence | the program's receipts pass, an altered one fails where the audit holds it against the observations |
| Investigation, workbench | `packages/core/src/{investigation,workbench}.ts` | none | claim ledger, review | evidence partly pruned, verdicts that aged | agrees with the engine |
| Timeline, history | `packages/core/src/{timeline,history}.ts` | none | folds over rows, chart reduction | running maxima over any sequence | tells the whole arc once; peaks kept |
| Market hours | `packages/core/src/market-hours.ts` | none | closures, session | holidays that meet weekends, months, years | open exactly on trading days |
| CMC client | `packages/cmc/src/{client,cache,errors,diagnostics}.ts` | cache, throttle window, diagnostics ring | `request` | concurrent requests, retry, expiry | the budget per window, attempts bounded |
| CMC adapter, fixtures | `packages/cmc/src/{adapter,normalize,schemas}.ts`, `fixtures/` | capability flags | list, quotes, info | pages; a cached malformed answer | |
| Watchlist | `runtime.ts` 118-186 | table `watchlist` | add, remove, resolve | limit checked across an await | exceeded only by adds in flight together |
| Retention | `sqlite.ts` 431-448 | | `pruneOlderThan` | rows others refer to | an event keeps its latest snapshot, a snapshot what it cites for the whole period |
| Web server | `apps/web/src/{server,api}.ts` | scanning flag, rate buckets | guard, routes, loop | overlap with POST /scan, boundaries of the window | loop comes back; admitted load is bounded |
| CLI, MCP server | `apps/cli/src`, `apps/mcp/src` | none | commands, tools | three surfaces with their own limits and filters | one answer to one question |
| Browser client | `apps/web/public` | route version, retained filter, selection | mount, refresh, filter, retry | answers late or out of order, lost signals | a quiet page shows the present of what was chosen last, but in named cases |

Interaction: the server's loop, `POST /api/v1/scan`, the CLI and the MCP server
call `scan()`; `scan()` awaits the source (client, cache), then runs
`processEntry` for each entry without an await; `processEntry` calls the engine,
the lifecycle and the store, and starts `notify()`, whose delivery continues on
its own; the last thing `scan()` awaits is those deliveries. Signals of a scan go
over the bus to the event stream of the server and make the browser ask again.
The read side (routes, tools, commands) computes its answers from the tables.

## 2. Modules

| Module | What it is |
|---|---|
| `Domain` | severities, states, statuses, verdicts; shared by all |
| `LifecycleRules` | `applyScanToEvent`, one operator per branch |
| `Incident` | abstract specification: what the lifecycle promises per asset |
| `Lifecycle` | a history of serial scans, `processEntry` as one step; implements `Incident` |
| `LifecycleProofs` | proofs about `Lifecycle`, its refinement of `Incident`, and the read side (`Timeline`, `History`, `Surfaces`) |
| `LifecycleRulesProofs` | what each branch of `applyScanToEvent` returns; used by the next two |
| `EngineProofs` | proofs about `Engine`, `Evidence` and `Calendar` |
| `ScanPipelineProofs`, `AlertsProofs`, `CmcClientProofs`, `WebServerProofs`, `BrowserProofs` | proofs about the module each is named for |
| `Timeline` | incident timeline, statistics, windows and chart reduction as operators on rows |
| `History` | extends `Lifecycle` and `Timeline`: the runtime's read-side methods over what scans stored |
| `Surfaces` | extends `History`: the answers of HTTP routes, MCP tools and CLI commands |
| `ScanPipeline` | `scan()` one store operation per action, with processes, overlap, exceptions, crashes |
| `Alerts` | `notify` and `deliver` driven by the events of one asset |
| `CmcClient` | one CMC call through adapter, cache, throttle, retries; overlapping calls |
| `Engine` | `evaluateAsset` and its measurements; successive evaluations of one asset |
| `Evidence` | extends `Engine`: claim ledger, receipt, audit and review of each evaluation |
| `Calendar` | US market closures and session, walked day by day |
| `Watchlist` | adds, removals, resolution and retention between the awaits of one process |
| `WebServer` | extends `Watchlist`: guard, rate limiter, mutation handlers and scan loop |
| `Browser` | one page: router, live signals, polling, views over an unordered network |
| `MC*` | instances for TLC; `MCEngine` composes `Evidence` and `Calendar` |

### Lifecycle

A step is one evaluation of one asset. `Verdicts` is the set of outcomes the
engine may produce (`Domain!WellFormed` says which are possible), so the model
covers every sequence of readings. Rows of a table are a sequence; an event id
is a position in `events`, a timestamp the number of the scan that wrote it.
`applyScanToEvent` is five operators: `CreatedEvent`, `ContinuedEvent`,
`InvalidatedEvent`, `ResolvedEvent` and the null result. `ExistingId` is the
lookup of `processEntry`: an open parity gap, else an open dispersion.
Investigation and receipt are one table here (their two inserts are apart in
`ScanPipeline`).

### ScanPipeline

An action is one store operation, since each commits on its own. `cpu[p]` is
the scan inside its synchronous part: from the last await on the source to the
one on the alerts no other scan of that process moves. Between processes
everything interleaves. `StoreThrows` is an exception out of any store operation
(also out of the `completeScan` of the catch clause), `Crash` a stop of the
process. The data source may fail or answer with any subset of the watchlist.
Scan `s` is the `s`-th to start, which is its `scanNow` too, and the measure of
age: `Prune`, the last store operation before `completeScan`, deletes the snapshots
measured more than `Retention` scans before it that are no event's latest. `snapshots`
remembers every row that was ever stored and `pruned` which are gone, so that what
the table holds (`Held`) can be told from what was never written. The telemetry
upserts (`assets`, `representations`, `observations`) are left out here; observations
and their retention are in `Watchlist`. `Lifecycle` and what reads it are about the
rows scans wrote, within the period of retention.

### Alerts

`Scan` is the whole of `processEntry` as far as the asset's event and its alert
are concerned; `Notify` is `notify()` up to its first await, the only place
where floor and deduplication are decided. Each job then walks the destinations:
`Accepted`, `Refused` (a status below 500 other than 429), `Unanswered` (429,
5xx, network error, timeout; retried once through `Retry`), of which the last may
come after the destination took the POST. Scans may start while deliveries of earlier
ones are pending, as they do when scans overlap. The faults are `AlertLost` (the scan
is cut short behind the event row, or `alertSent` throws in `notify()`, whose rejection
`Promise.allSettled` swallows), `RecordThrows` and `Crash`. Three histories that no
guard reads tell the world from the log: `taken`, what a destination took; `beside`,
which deliveries were out when one was decided; `crossed`, the events a scan without
fault brought up to the floor.

### CmcClient

`CacheHit` and `CacheMiss` are `request` up to its first await, `Wake` the rest of a
throttled call, and `Succeed`, `Refuse`, `Interrupt`, `Retry` the ways round its loop of
attempts; `Validated` is the adapter's validation, which comes after the cache. An
instant is kept as its distance from now (a stamp's age, a sleep's remainder), so time
needs no bound: `Tick` ages everything, up to the age that no longer matters. `sent`
(each call let out and how long ago) and `delivered` are histories that only properties
read. Every call of the adapter has a ttl, so `skipCache` and a request without one are
left out.

### Engine

A step is one evaluation; between two of them one input changes, which lets an action
property compare them. Time is one such change: `TimePasses` lets the reference grow
older and, as the code derives both from one `now`, the session turn with it (`Turns`).
Without a reference the market state is unknown, whatever the session. A percentage is
an exact quotient rounded as `roundForHash` does, in 1/`Unit` percent (the code: 10^6 of
a double). The sorted prices, the widest gap and the best candidate are described, not
searched for. The runtime prices every token in USD and drops prices that are not
positive before the engine sees them; the other inputs the engine guards against come
from its own tests. `VerdictWellFormed` is what `Lifecycle` and its proofs assume of a
verdict (`Domain!WellFormed`): the two models meet there. That an anomaly has a
deviation other than 0 is part of it (thresholds are positive); the timeline needs that,
as it takes a stored 0 for an unknown one (`timeline.ts` 35).

### Timeline, History, Surfaces

`Timeline` holds no state: each function of `timeline.ts` and `history.ts` is an
operator on rows. A sort, a filter or a sequence of pushes is described by where each
item ends up (`Ranked`: one place after those before it; `InOrder`, `Picked`, `SortedBy`
are cases of it), not by a recursive fold, so that the same text can be evaluated and
reasoned about. `History` applies them to the tables of `Lifecycle` in every reachable
state, with every window and every number of points, so that the properties relate what
is told to the scans that happened. The limits of the reads are kept: a chart and a set
of statistics read the oldest `RowLimit` rows of their window (`snapshotsFor`, 20 000),
the overview counts over the newest `OverviewLimit` events (1000). `Surfaces` does the
same for what a reader asks: one operator per route, tool and command, an answer being a
code and a body; the parameters of each (absent, garbled, below, at and above the limit)
are quantified in the properties. Limits have small values that keep the order they have
in the code (`LimitAssumption`), and a parameter that is not given or makes no sense is
none of the values that do (`ParameterAssumption`). Most surfaces ask the same method of
the store, so that they answer alike is no property here; each answer is held against
what was scanned, and where two surfaces differ the property says by what.

### Evidence, Calendar

The receipt, its hash and its signature are records of what they cover: a hash is the
content it was computed from, since SHA-256 over canonical JSON tells contents apart.
`Audit` is the list of checks of `audit.ts`, each by its own reading of the receipt and
within its tolerance (`Near`; 0.000002 in the code). The alterations are of every kind
of number a receipt holds: one that must match an observation exactly (`Matched`), a
percentage or an extreme recomputed from them (`Percentages`, `Extremes`), and those the
audit does not read (`Unread`), which verification alone protects. `Review` takes the
observations that retention left, the age of the snapshot and whether its mode is the
runtime's, all quantified. `Calendar` states the rules of the closures a second time, by
adjacent days and weekdays instead of by date arithmetic.

### Watchlist, WebServer

An action is what runs between two awaits: `AddAsks` and `AddAnswered` are the two
halves of `addToWatchlist`, `ScanBegins`, `MapAnswers`, `QuotesArrive` and
`ScanProcesses` the parts of a scan. Catalog, ranks and pages are constants, the source
may fail at each await. An event is open or not, with the snapshot it refers to; a
snapshot has the observations it cites, each with the time its row was first retrieved.
The source may repeat an observation with its old time for good: then its row is stored
and deleted by the same scan, once it is past the period. `WebServer` puts the guard and
the limiter before the mutations and adds the loop; one clock serves the limiter's
minutes and retention's days, as neither reads what the other measures. `admitted`
remembers the instants at which the limiter let an address through, for the properties
only.

### Browser

A flight stands for all requests of one mount, of one rendering into the surface on
display, or of one part (a history tab, the evidence journey). Answers come in any
order and are read at any revision of the store since they were asked for; each may
be an error. A surface is named by the router's version that mounted it. Whether the
reader is at work (`isInteracting`, which asks for focus and scrolling) is decided
anew at each signal. `retainedStatus` and `selection` are the filter and the wrapper
the reader chose last, which no answer changes; whatever a mount began with, the page
is held against them (`LastChosen`). `behind`, `crossed`, `late` and `failed` are
ghosts of what the property makes an exception of: a change that was not signalled,
renderings that overtook each other, a filter chosen while a signal was reading the
incidents again, an answer that failed. TLC finds the property violated without any
one of them.

## 3. Runs

| Run | Instance | What it shows |
|---|---|---|
| `lifecycle` | 2 assets, 5 verdicts (clean, not comparable, both kinds, either sign), confirm after 2, 5 scans | the event summarises its run, the log replays to it, certified once, only advances, implements `Incident`; timeline, statistics, charts and the three surfaces agree with the scans, on both sides of their limits |
| `receipt_mode` (violation) | the same, restart in live mode after scan 1 | a receipt of one mode over provenance of the other |
| `api_defaults` (violation) | the same, 3 scans | an absent number of points is the lower bound, not the documented default |
| `scan_overlap` | 1 process, 2 assets (symmetric), 3 scans, retention of 1 scan, 1 fault | overlap inside a process is harmless; failures lose rows and invent none; a completed run lacks only what retention reached |
| `scan_processes` | 2 processes, 1 asset, 3 scans, retention of 1 scan, clean/gap/dispersion, fair | what the database refers to was written before and is gone only by retention, event identity survives two processes, every run finishes |
| `scan_duplicate` (violation) | 2 processes, 2 scans | two open events for one asset |
| `alerts` | 2 destinations, floor "high", 4 scans, 2 notifications, 1 fault, fair | outcomes, when a key is taken twice, crossings, escalations, termination |
| `alerts_resolution` (violation) | 3 scans, no fault | a notified event closes in silence |
| `cmc_client` | 2 callers, 1 endpoint, 2 requests a minute, 1 retry, fair | the limiter forgets nothing, only sleepers exceed the budget, cache age, termination |
| `engine` | up to 3 wrappers of 5 prices and a foreign one, 8 references of every age, 3 market states; 1 venue, 1 key, every subset of the evidence; every day of 2021-2027 | the verdict is well formed, the worst band, independent of listing order, no milder for a wider outlier, no better for a later look but at the opening; receipts audit, what the audit finds of an altered one, the review agrees; sessions follow the rules |
| `web` | 3 assets, 2 clients on the machine, list limit 1, 2 scans, 3 instants, fair loop | list overrun only by overlap, what retention keeps and how long, admitted mutations bounded, the loop comes back |
| `browser` | 4 views, 2 options, 3 mounts, 3 revisions, 2 flights | a quiet page is current and of the choice made last, but in named cases |

Why the bounds suffice. Lifecycle: with confirmation after 2 scans, five scans hold a
full life (create, confirm, continue, close, reopen) and an interleaved second asset; a
deviation of each sign and a change of kind are among the verdicts; windows of 2 and 9
scans cut a history or take it all, and three points are fewer than five snapshots. Four
rows and two events are limits that five scans exceed. Pipeline: a race needs two scans,
and the third sees what they left behind; one fault is enough to cut a scan at each of
its steps, and the scans after it find the result; with retention of one scan the third
reaches what the first wrote, its own process's and another's. Alerts: in `alerts`
confirmation takes one scan, so that four scans reach the shortest history in which a
key comes back (open, escalate, fall, escalate again); in `alerts_resolution` it takes
two. Two notifications are one key twice, after each other or at once; the proofs have
no bound. Client: with a window of two requests two callers fill it, sleep together and
wake one after the other; a tick stands for 20 s, so a window, a ttl and a back-off have
their true proportions. One retry is enough for a first, a middle and a last attempt to
differ; two callers already meet in every state of each other. Engine: three wrappers
are the fewest with a median that is neither end, and the prices lie on both sides of
every default threshold; the changes of a receipt, 1 and 3, lie on both sides of the
tolerances (2 for a percentage, 1 for a price). Calendar: seven years hold every weekday
of New Year's Day but one combination with leap years, and both neighbours of each
year's end. Web: two clients are the fewest whose adds overlap, a list limit of one
makes the second add the excess, and with retention of one day three instants have a row
inside, on and outside the border; two scans overlap. Browser: an overtaken mount needs
a second version, the third overtakes both a navigation and a signal; two flights are
the fewest that come back in the wrong order; three revisions are a scan's beginning and
its end; two signals come as a burst. Symmetry is used only in `scan_overlap`, which has
no liveness property, over assets, which the specification treats alike. For the same
reason `lifecycle` gives one of its two assets (always the same) no more than two of the
five scans: in every history one of them has no more.

Fairness. `scan_processes` assumes weak fairness of each scan's next step: the
event loop runs a ready continuation, and a call on the source or on an alert
destination settles because both have timeouts and bounded attempts
(`packages/cmc/src/client.ts`, `packages/runtime/src/alerts.ts`). `alerts` assumes
the same of each delivery, `web` of the scan of the loop (and of nothing a client
does). `cmc_client` assumes that time passes, that a sleep ends and that a fetch
settles: the abort timer covers the wait for the headers; once they have come
it is cleared, and the wait for the body is bounded by the platform's own
timeout only. Nothing is assumed about which answer comes, nor about scans being
started. Crashes and exceptions are never fair. `browser` states what holds when
the page is quiet and needs no fairness.

Deadlock checking is off because the bounded instances stop when their scans,
mounts or days are used up; progress is stated by the liveness properties instead.

## 4. What the program's own texts say and the code does not do

With a run:

* **Two processes duplicate an event.** `processEntry` reads the open event and
  writes it back in separate operations (`runtime.ts` 335, 368). The server's
  loop and a CLI scan on one database can both create an event for one asset;
  later scans continue only the most recently seen one.
* **Resolutions below the floor are silent** (`alerts.ts` 119) although the
  header of the file says they are reported for events that once crossed it.
* **An absent limit is not the default** (`api.ts` 97): `Number(null)` is 0, so
  a chart without a number of points has 16, against `openapi.json`. A list without a
  limit has 1 event in the same way.
* **A receipt may mix data modes** (`lifecycle.ts` 64): an event keeps the mode of
  the scan that opened it, its receipt has the provenance of the one that confirmed it.

Seen in the models or met while reading, without a run of their own:

* A confirmed event may never get its receipt (`runtime.ts` 394): only the
  confirming scan writes it, after the event row was committed.
* Deduplication reads the log only (`alerts.ts` 120): one key is taken twice when
  scans overlap, when the row of a success could not be written, and when an answer is
  lost. `OneNotificationPerKey` says that nothing else repeats it.
* "Never throws" (`alerts.ts` 111) holds while the store does not throw: `alertSent`
  and `recordAlert` reject the promise, which `Promise.allSettled` swallows
  (`runtime.ts` 290, 391), so the scan completes and the alert is lost.
* Retention keeps the latest snapshot of an event "so incident detail stays intact"
  (`sqlite.ts` 433), but not the observations that snapshot cites, nor the snapshots of
  the event's transitions. A scan of another process may also prune a snapshot between
  the insert and the event that is to refer to it.
* An observation that the source repeats with a time past the period is stored and
  deleted by one scan (`sqlite.ts` 141, 434), so the snapshot it is cited by lacks it at once.
* The audit "recomputes numerical claims" of a receipt, but not its finding (peak and
  latest deviation), confirmations, quality and age (`audit.ts` 33-114): altered and
  rehashed, an unsigned receipt passes.
* The thresholds of a scan are read after its awaits (`runtime.ts` 235), the watchlist
  before them.
* Retries are outside the request budget (`client.ts` 97, 104): the throttle
  is passed once per call, "max requests per rolling minute" counts attempts.
* A cached answer looks newly retrieved (`adapter.ts` 346): provenance is
  stamped after the cache, and token observations take it as their time.
* The capability "no" reaches the quality score as `false`, which `quality.ts` 19
  keeps for an answer without pairs. `parity.ts` 11-14 promises a reason for every
  invalid input, but a reference price that is not positive drops the tokens without
  one (the normaliser keeps such a reference from the engine).
* An equal deviation is narrated as decreasing (`timeline.ts` 90), and a change of
  severity on the confirming row is not told. `investigation.ts` 138 says "lowest
  observed 24h volume among peers" of a token with less than half the upper median.
* Overlapping scans of one process may store `lastSeenAt` before `firstSeenAt`.
  The overview counts over the newest 1000 events (`runtime.ts` 560), so an open one
  may drop out; `snapshotsFor` keeps the oldest 20 000 rows of a long window
  (`sqlite.ts` 197), so its newest readings and their peaks are shown by no chart.
  `OverviewAgrees` and `ChartKeepsPeaks` say exactly which.
* When no watched symbol resolves, the live source refuses the empty list of ids and
  the scan fails (`runtime.ts` 132), and the fixture source answers with every asset
  (`fixtures/index.ts` 24).
* December 31 counts as closed when January 1 is a Saturday (`market-hours.ts` 153),
  which the exchanges do not observe; `Calendar` takes the code's comment as the rule.
* MCP `inspect` filters behind its limit of 50 (`tools.ts` 119), so it may miss an open
  event of the asset (`ListsAreNewest` says when); its radar has null
  where HTTP has a gap of exactly 0 (`tools.ts` 96); the CLI says "unknown event" with
  exit code 0.
* In the browser: a mount that was overtaken and answers late takes over the selection
  (`overview.js` 50-56, 77-81), after which the instrument of the shown overview moves
  no journey; "retry" of an overview mounts it without its `__afterMount`, so the
  journey stays loading (`overview.js` 84); a filter of the incidents or a removal
  from the watchlist has no check for late answers (`events.js` 9, `watchlist.js` 96),
  so the earlier rows may stay under the later choice; a filter chosen while a live
  refresh is out is taken back by it on display (`events.js` 8), against "Preserve an
  active filter" (`app.js` 190); an older tab that
  fails late puts its notice over a newer one that succeeded (`asset.js` 144); a
  delivered alert, a change of the watchlist and another process's scan send no signal.
  Views that give no limit meet the default above (`events.js` 11, `asset.js` 30).

## 5. Proofs

Every theorem holds for all values of the constants that satisfy the named
assumptions of its module, which TLC evaluates in the runs: any number of assets,
verdicts, scans, faults, callers, clients, destinations, prices or surfaces. One
hypothesis is stated in the theorems themselves, because without it the property is
false and a run shows it: one process for `OneEventOpen`, `LogStaysBehind` and
`GapsAreExplained`.

| Theorem | Property of a run |
|---|---|
| `LifecycleProofs!TypeCorrect`, `AtMostOneOpenEvent` | `TypeOK`, `OneOpenEvent` (serial scans) |
| `LifecycleProofs!ConfirmationByCount`, `ClosedEventsAreFinal`, `EventsOnlyProgress`, `EventsAdvance` | `EventsOnlyAdvance` is the last |
| `LifecycleProofs!CertificateEarnedOnce`, `EventIsItsRun` | `CertifiedOnce`, `EventSummarisesRun` |
| `LifecycleProofs!LifecycleImplementsIncident` | `ImplementsIncident` |
| `LifecycleProofs!TimelinesTellArc`, `ViewsMatchHistory`, `PeaksAreKept` | `TimelineTellsArc`, `StatsMatchHistory`, `ChartKeepsPeaks` |
| `LifecycleProofs!SurfacesTellAlike` | `SurfacesAgree` |
| `ScanPipelineProofs!IdentityIsStable`, `EvidencePrecedes` | `EventIdentityStable`, `EvidenceBeforeClaim` |
| `ScanPipelineProofs!CompletedIsWhole` | `CompletedScanIsWhole` |
| `ScanPipelineProofs!OneEventOpen`, `LogStaysBehind` | `OneOpenEvent`, `LogNeverAhead` |
| `ScanPipelineProofs!GapsAreExplained` | `GapOnlyAfterFailure` |
| `AlertsProofs!OutcomesLogged`, `NotificationsDeduplicated` | `EveryOutcomeLogged`, `OneNotificationPerKey` |
| `AlertsProofs!CrossingsNotified`, `EscalationsNotified` | `CrossingNotified`, `EscalationNeverSilent` |
| `CmcClientProofs!LimiterForgetsNothing`, `BudgetIsKept`, `NothingStaleServed` | `LimiterRemembers`, `OnlyWaitersExceed`, `ServedWithinTtl` |
| `EngineProofs!VerdictsFit`, `WorstIsReported`, `LaterIsNoBetter` | `VerdictWellFormed`, `WorstBandReported`, `BetterOnlyAtOpening` |
| `EngineProofs!OrderIsForgotten`, `FurtherIsNoMilder` | `OrderDecidesNothing`, `OutlierNeverMilder` |
| `EngineProofs!SessionsAreTradingDays` | `SessionFollowsRules` |
| `EngineProofs!IssuedReceiptsAudit`, `AlteredReceiptsFail` | `IssuedReceiptAudits`, `AlteredReceiptFails` |
| `EngineProofs!ReviewFindsOutlier` | `ReviewNamesOutlier` |
| `WebServerProofs!BurstsStayBounded`, `OverrunIsBounded`, `RetentionIsSafe` | `WindowAdmits`, `OverrunNeedsOverlap`, `RetentionKeepsRecent` |
| `BrowserProofs!PageIsCurrent` | `QuietMeansCurrent` |

The arguments, and why each needs more than the property:

* **Lifecycle.** That a new event is the only open one needs that the lookup found
  nothing, which is about both kinds and uses the types of the rows, so `TypeOK` and
  `OneOpenEvent` are inductive together (`Inv`). `ProcessEntryCases` reduces a step to
  "nothing stored", "a row appended" or "the looked-up row replaced".
  `CertifiedOnce` needs that no row refers to an event yet to come (`RowsRefer`);
  `EventSummarisesRun` is carried by `RunInv`: an asset either has no run under way and
  nothing open, or an open event that summarises the run up to now. The refinement of
  `Incident` maps each step, asset by asset, to a step or a stutter (`StepRefines`).
* **The read side.** What is told of a closed event is read from rows written scans ago,
  and `EventSummarisesRun` speaks of runs under way only. `ArcInv` says of every event,
  open or closed, what its rows and its fields owe to the snapshots of its arc (`Arced`:
  dates, last reading, peak, one row per observation, how the first and the last are
  named), and that rows are in order and the events of an asset apart in time. It is
  inductive, one case per outcome of `ProcessEntry`. The statistics follow one by one
  (`ObservedOnceEach`, `LastsAsLong`, `PeakIsDated`, `RecursAsOften`, `CapsuleAgrees`);
  the halves of the overview differ by the events it overlooks: open events and
  anomalous assets are as many by a bijection (`SameNumber`), and an open one is among
  the newest unless enough were seen after it (`ActiveAndOverlooked`). For the timeline,
  the rows of an event form a `Story`. Its entries are sorted by time, then row, then
  number; that is the order of a single number `KeyOf` (3 times the row plus the entry's
  number, the receipt right behind the confirmed row; `KeysDecide`). From the place of
  each entry (`TimelineTold`) follow the parts of `TellsArc`: `CandidateFirst`,
  `ClosingLast`, `OneEach` (one row per confirmation), `PeaksRise`, `LastExtreme` (the
  last peak is the event's), `ReceiptFollows`. A chart keeps one point per bucket, the
  highest and latest of it, so nothing kept hides a higher one; what it did not read has
  `RowLimit` rows before it (`TakeIs`, `PointsRead`). A list of events has one order, as
  no two events were last seen by one scan (`EventsSeenApart`), and a limit cuts a
  prefix (`ShowsNewest`). A member's place is the number of those seen after it
  (`ListedWhen`), which says what a filter behind the limit misses (`InspectMisses`).
  That what is answered about is what was scanned or confirmed comes from `ArcInv`
  (`ReceiptsTold`, `QuestionsAnswered`); for the radar it is a sort losing no row
  (`SortShows`) and the open event of an asset being the one seen last (`PageBegins`).
* **ScanPipeline.** Between its store operations a scan carries what it knows in
  `work`; `WorksFit` says what is true of that at each label and `NumbersUnshared` that
  a number handed out is known to one scan until its row exists. That is what keeps an
  identity stable among any number of processes. `EvidencePrecedes` adds
  what a scan has prepared for the rows it is about to write, and `RetentionInv` what
  retention may have taken: whatever is pruned has a scan outliving it
  (`PrunedExpired`), and the latest snapshot of an event, or of an entry on its way
  there, only one of another process (`LatestKept`). For one process `CpuInv`
  says that only the scan in its loop is inside an entry, so what it looked up is still
  so when it writes. `LogStaysBehind` then carries which row the event under
  work still lacks (`RowsMissing`), also after the scan that owed it died.
  `CompletedIsWhole` keeps the books of every scan: its tally is the number of
  entries behind it, confirmations recorded exceed those reported by at most the one
  under way, and each anomalous snapshot behind it has its row (`Books`). A step
  touches the books of one scan only (`EntryStepSpares`), which is why it needs no
  hypothesis about processes. `GapsAreExplained` rests on both of these and on two more
  facts: `DecisionsExact`, what a scan decided adds exactly one scan to the event it is
  about to write, and `GapsExcused`, an event whose arc no cut-short scan excuses lacks
  at most the rows that the scan recording it still owes.
* **Alerts.** `LogFollowsJobs` fixes what a pending job has logged: the destinations
  before its own. For deduplication, a job knows which earlier ones were out when it was
  started (`KnowsPending`); an earlier one with its key and a success on record was among
  them, for otherwise `alertSent` would have found it (`SuccessWasPending`).
* **CmcClient.** `LimiterRemembers` is an equality between the stamps and the recent part of
  the history; it is inductive with the fact that stamps are ordered by age, since
  `recentStamps` cuts a prefix. `BudgetIsKept` adds that a call let out without sleep
  found room. That a cut is where it should be is an induction over a number, made by
  the least counterexample (`LeastNumber`), since the library's induction theorems take
  an operator.
* **Engine.** The engine is a function, so its invariant is `evaluation =
  Evaluate(reading)` and the work is in lemmas: the prices can be sorted
  (`OrderExists`), a median of positive prices is positive, a best candidate
  exists (`BestExists`), the order of candidates is total, and the best has the worst
  band (`ReportedIsWorst`). `LaterIsNoBetter` compares two evaluations that differ in
  age and session: freshness only falls, and every use of it moves the answer down; the
  session adds what it adds to the quality and lifts the verification at the opening only.
  For `OrderIsForgotten`, two lists with a bijection between them that keeps the prices
  sort alike (`SortedForgets`): at no place can one have less than the other, by a
  pigeonhole (`NoLessThere`). The widest gap is then the same in size, as it is the
  greatest, whichever of several is listed first. For `FurtherIsNoMilder`, an end that
  moves out widens the range by more than it moves the median (`StretchWidens`), and
  rounding keeps the order of quotients (`PercentOrdered`).
* **Evidence.** The layout of a receipt is fixed by the reading, so each check of the
  audit finds the observations where they were put (`ObservationsFound`) and recomputes
  what was computed from them (`IssuedAudits`). An issued body is `BodyIsSound`, what is
  sound passes (`SoundAudits`), and alterations are judged kind by kind
  (`AlterationsJudged`): some check holds the altered number against one that was left,
  or the body stays sound. A percentage is issued rounded, within half a unit of the
  quotient (`RoundedIsNear`), so it fails beyond the tolerance and passes below it; at
  the tolerance itself it may do either. A body left under its old hash, or under a
  signature of the old hash, does not verify. In the review a wrapper is compared with
  the others: their median is lowest without the dearest and highest without the
  cheapest (`RestMedianFalls`), so the distance is greatest at an end
  (`FarthestAtTheEnds`), and where all others agree it is the odd one's
  (`OddIsFarthest`). Halves are rounded up, not away from zero, so equal gaps above and
  below may round apart (`PercentMirrored`), and two wrappers may round to one distance,
  in which case the one listed first need not itself be an end. That is why
  `ReviewNamesOutlier` speaks of the distance shown.
* **Calendar.** The walk keeps `today` a date with the weekday the calendar gives it
  (`DateInv`), and the rules are compared holiday by holiday, for every year. Easter by
  the code's computus is the Sunday in the week after the Paschal moon
  (`EasterIsSunday`). Years below 100 are left out (`Years`): `Date.UTC` takes
  them for 19xx.
* **WebServer.** `LimiterInv` ties a bucket to the history of what was admitted: its
  count are the last admissions, its window began with the first of them, and from the
  limit-th admission before that start to the start a whole window has passed. The bound
  `2 limit - 1` for every window (`BurstsBounded`) follows. For the list, what it
  holds or adds under way have pledged stays within the limit and one place for each
  client but one (`PledgesBounded`, which needs a finite set of clients). Retention needs
  the times a scan under way carries (`ScanTimes`) and that what a snapshot cites is
  backed by a row no older than the citation, while that is within the period (`Backed`).
* **Browser.** A mount has its surface to itself until it is done (`SurfacesApart`), the
  page holds the last mount or that mount is out (`Located`), what the last mount holds or
  waits for is the present unless a signal is under way (`Fresh`), what it was
  last asked for is shown or its only answer is out (`Settled`), and what it was asked
  for is what the reader chose last (`Chosen`).

The assumptions the proofs use are about constants and hold of the code: thresholds,
limits and widths of a window are positive and ordered as in the code; a measured
gap is a number or missing; a verdict is well formed (which `VerdictsFit` proves of
the engine); venues have identifiers of their own, apart from those of
observations; what is absent or garbled is no value; the symbols order the assets.

Only model-checked: all liveness under fairness (every run of a scan finishes, an alert
and a call end, the loop comes back), which is out of the prover's reach as is
`ENABLED`. Every invariant and every action property that a passing run checks is
stated by a theorem. Nothing is proved of an induction over recursively defined
data, which the library cannot instantiate: where the code folds, the models
describe the result instead.

## 6. Not modelled

Not modelled because they are formatting, prose or I/O: the strings of explanations,
timelines and claims; static files, headers and the wire format of the API; argument
parsing and tables of the CLI; the MCP protocol; charts and motion of the browser and
its search box; configuration, migrations, the ring of diagnostics, the seed of the
demo and the smoke tests. New York time is the host's; SHA-256, Ed25519 and SQLite
are taken at their word.
