# Formal models of prediction-market-value-lab

TLA+ models of the parts of this repository in which several actors, or several steps of
one actor, must agree on shared state, and of the decision procedures whose answers are
published. Each module is translated from the source files it names, model-checked with
TLC on a small instance, and most safety properties are proved with TLAPS for every value
of the constants. `PROJECT.json` maps each definition to the lines it models and lists the
runs, the mutants, the findings, the hazards and the theorems.

Contents: 1 the system, 2 how the modules fit together, 3 the modules one by one,
4 what the checks found in the code, 5 the proofs, 6 what is not modelled, 7 what was seen
while reading, 8 the plan.

## 1. The system

A read-only research platform for prediction markets (Kalshi, Polymarket). A Python worker
fetches markets and order books, estimates probabilities, publishes ranked recommendations,
freezes them daily, and grades them when the venues settle. A pipeline script runs all jobs
once on a private copy of the database and publishes the result as a gzip file with a
manifest; the API serves that file. A research engine collects point-in-time evidence and
replays strategies over it. A Next.js site sells a subscription through Stripe and caches
the entitlement in Clerk. A browser extension shows costs next to an order ticket.

### 1.1 Inventory

Status: M modelled, P partly, - not modelled. "Hard" names the behaviour a test hardly reaches.

| Component (main sources) | State | Operations | Hard | Correct when | |
|---|---|---|---|---|---|
| Run lease (`jobs.py` `job_run`) | `job_runs` rows, heartbeat thread | claim, skip, supersede, beat, close | statement interleaving, stalls, crashes, late writes | one running row per key, a live run keeps it, a dead one loses it | M |
| Pipeline DAG and run (`pipeline_dag.py`, `run_automated_snapshot_pipeline.py`) | statuses, candidate, report | order, block, run, gate, build, hand over | partial failure at every step | nothing consumes a refused upstream; only whole truthful runs publish | M |
| Published files (`snapshot_artifact.py`, `promote`) | gzip, manifest, cache of databases | resolve, seed, promote | two-file updates, crashes, damaged cache, concurrent cold starts | readers get a whole published snapshot or a refusal; lineage is honest | P |
| Snapshot validation (`validate_snapshot.py`) | raw file, verdict, bundle | check, compress, record, verify | deaths and damage between the steps | what is published was checked | P |
| Publication to git (`pipeline.yml`, `verify_candidate.py`) | `main`, runs, candidates | queue, verify, commit, push, rerun | `main` moves under the job | each publication follows the one it was computed from | M |
| Snapshot build and retention (`build_snapshot.py`, `snapshot_retention.py`) | candidate file | select, bound, cascade | size limit, reused ids | nothing audited is dropped, no row changes its market | P |
| Track record (`value/pipeline.py`, `backtest/`) | markets, settlements, recommendations, snapshots | ingest, rank, freeze, settle, grade | jobs in flight across each other, corrections, full batches | one verdict, no hindsight, nothing left ungraded | P |
| Backtest, calibration, demo history (`backtest/`, `demo/seed.py`) | runs, maps, demo rows | select, size, pay, fit, count | claims settle in any order, to halves or nothing | only the record counts, and it is not lost | P |
| Entitlement cache (`webhook/route.ts`, `entitlement.ts`) | Clerk metadata | retrieve, guard, write, read back | reordered and repeated events, unconditional writes | an acknowledged event is reflected | P |
| Checkout and portal (`api/billing`) | Stripe sessions and subscriptions | create, refuse a second, pay | a cache that lags | whoever pays is served | P |
| Strategy simulator (`alpha/simulator.py`) | exposure ledger, one order, one position | size, post, fill, withdraw, close, settle | orders that outlive their check, shared ceilings | ceilings hold, tape is credited once, no signal disappears | P |
| Alpha decisions (`alpha/factors.py`, `models.py`, `strategy.py`) | none | context, factors, score, order, review | conventions of sides and prices | an order pays its way | P |
| Capacity preflight (`alpha/capacity.py`) | none | walk, price, scan, count | fees of a whole order; books pruned meanwhile | a capacity can be had | P |
| Venue clients (`providers/http.py`) | breaker, token bucket, GET cache | request, retry, trip, probe | concurrent probes, retries of 429 | the breaker follows the streak, every call ends | P |
| Ingest and store (`ingest/`) | events, markets, books | choose, fetch, upsert | budgets, two sessions of one key | floors hold, each write happens once | P |
| Matching (`matching/`) | stored pairings | candidates, equivalence, verify, refresh | rules reworded after the verdict | a strict pair settles alike, no verdict is stale | P |
| Pricing and arbitrage (`pricing/`, `arbitrage/`) | opportunities | walk, fees, size, scan, label | rounding, incomplete baskets | a guarantee pays in every outcome | P |
| Cost of entry (`cost_truth.py`, `routers/cost.py`) | none | cost, ladder, table, medians | rounding, exhausted depth | outlays are what is paid | P |
| Research collection (`alpha/collection.py`, `issuance.py`, `payload_store.py`) | archive rows, payload files | capture, poll, archive, decide | slow captures, late sleeps, foreign clocks | grid kept, evidence known in time | P |
| Scheduler, cadence, CLI (`worker/`, `cadence.py`, `pipeline_status.py`) | triggers, runs | fire, misfire, restart, status | stops, deaths, suspensions, a sequence by hand | stalled only for a reason, the day's record is in | P |
| API lists and prices (`services/api`) | one snapshot, or live tables | read several times, answer | writers between the reads | one answer is of one state | P |
| Pilot digest (`pilot/`) | copies of snapshots, reports | gate, open, select, refuse | publications and deaths in between | what is called actionable is fresh | P |
| Extension (`apps/extension`) | panel, reload number | fetch, paint | out-of-order answers | the panel is of the ticket that was read last | P |
| Normalisation, probability models, research dataset, retrodiction, freshness and configuration, schema, the other API routes, website, operations scripts, shadow ledger | see 6 | | | | - |

### 1.2 How the parts meet

* Scheduler, CLI and pipeline script all invoke jobs through `job_run`; two processes may
  invoke the same key at a time. The lease is the only thing between them.
* Jobs with different leases (ingest, rank, snapshot, settle) share tables and interleave
  freely; each holds its own transactions, and none re-reads what it loaded.
* The pipeline script runs the same jobs sequentially on a copy of the published snapshot,
  so its faults are those of its environment: venues, subprocesses, the file system.
* Publication is a pair of files. A local run replaces them in place; in GitHub Actions a
  second job commits them. The API resolves the pair at a cold start, the pilot's gate and
  digest each time they run.
* API requests are several statements on tables that writers change in between, unless the
  deployment serves a snapshot, which is one file for the life of a process.
* Stripe calls the webhook at least once and in any order; every handler re-reads the
  subscription and merges it into Clerk, whose write has no precondition. The checkout
  reads what that cache says.
* The simulator is one sequential loop; its hard part is that capital is checked at one
  event and spent at a later one, with other markets in the same ceilings.

## 2. The modules

| Family | Component modules | Run | Proofs |
|---|---|---|---|
| lease | `JobLease` refines `ActiveSlot` | `lease_sqlite`, `lease_live` | `JobLeaseProofs` |
| pipeline | `SnapshotPipeline` extends `PipelineDag` | `algorithms` | `SnapshotPipelineProofs` |
| decision procedures | `ArbitrageScan`, `ExecutableCapacity`, `SourceLag` extend `BookPricing`; `RuleMatching`; `PilotReport` | `algorithms` | `TradingProofs` (scans, capacity, alpha), `ServicesProofs` (matching), `SnapshotPipelineProofs` (reports) |
| files and what is read of them | `SnapshotFiles` refines `PublishedSnapshot`; `SnapshotValidation`, `ScanReport`, `QuoteViews`, `RankingViews`, `EntryCost` | `served`, `snapshot_split` | `SnapshotFilesProofs` (files, validation, scans, quotes, rankings), `TradingProofs` (costs) |
| track record | `TrackRecord` | `track_record` | `TrackRecordProofs` |
| billing | `EntitlementCache`, `BillingCheckout` | `entitlement`, `entitlement_tie` | `EntitlementCacheProofs` |
| research | `StrategySimulator`, `IssuanceWindows` under `ResearchCollector`, `ObservationStore`, `SnapshotRetention`, `WorkerSchedule`, `WalkForward` | `research`, `estimates` | `TradingProofs` (simulator), `ResearchProofs` (the others) |
| shared services | `VenueClient`, `MarketIngest`, `IngestStore`, `GitPublication`, `CostOverlay` | `services`, `ingest_matched` | `ServicesProofs` |

`SnapshotPipeline` composes a run with the DAG it executes and with the publish job that may
follow; its jobs end as any outcome of `job_run`, whose inside is `JobLease`. Its `Promote`
is the one atomic step that `SnapshotFiles` splits into two renames, its publish job the
whole of `GitPublication`. `SnapshotValidation` is the subprocess that its `Build` calls.
`EntitlementCache` takes apart the webhook that `BillingCheckout` takes as one step.

The modules of one MC module (`MCAlgorithms`, `MCServed`, `MCResearch`, `MCServices`,
`MCEntitlementCache`) share no state. Its specification chooses one part at the start, and a
behaviour is a behaviour of that part, the others keeping their initial states: the state
graph is the union of the parts' graphs, not their product, and a property of a part holds
in the run exactly if it holds of that part's own specification. The proofs are about the
parts' own specifications.

A definition whose comment starts with "Mutant of" is a plausible bug of the definition
after it; no specification uses it. Putting it in place makes the property that
`PROJECT.json` names fail, which shows that the property depends on that piece of code.

Conventions: an action is a whole handler up to the next point where another actor can
act; a bound that the code does not have is a constant whose name starts with `Max`, `MAX_`
or `Last`, or is named in section 3; `CHECK_DEADLOCK FALSE` is used only where the system
may stop.

## 3. What each module says

### 3.1 JobLease: the run lease

One idempotency key; rows of different keys never meet, since every query filters on it.
An element of `Runs` is an invocation with its row (`status`, `startAge`, `beatAge`), the
place of its main thread (`pc`) and of its heartbeat thread (`hb`).

* Timestamps are ages. `Tick` makes all ages one older; an age stops at `AgeCap`, beyond
  which no comparison of the code differs. `Forget` reuses a finished identifier, so a
  behaviour has infinitely many invocations.
* `SQLITE` TRUE: a transaction holds the write lock from its first INSERT (`BEGIN IMMEDIATE`)
  to its commit (`writer`). FALSE: PostgreSQL, where `ClaimFresh`/`ClaimConflict`, `JudgeStale`,
  `ListStale` and `Supersede` are separate statements and claims interleave between them.
* The heartbeat reads the row and writes by primary key in two steps, and may be still
  writing when the terminal write lands (the join gives up after 5 s).
* Faults: failed beat, failed terminal session, crash, stall. `Healthy` is alive, running and
  not stalled for `HB_STALE`. `Tick` may not make a healthy run miss its beat: that is the
  meaning of not being stalled.

Properties: `ExclusiveBody` (two bodies overlap only if one has stalled);
`LiveRunKeepsLease` (a healthy run is never interrupted); `OutcomeIsTheOwners` (a closed row
changes only by its own late write); `CrashedRunIsReplaced` (a run that dies with the lease
is superseded in the end, beaten or not, unless a body still runs without the lease);
`ImplementsSlot` (refines `ActiveSlot`: one holder, taken over only from a lost one).

`lease_sqlite`: three invocations (the run, its rival and a third that claims between) and two
faults (a zombie plus a crash); `RUN_STALE`=3 > `HB_STALE`=2 > `HB_INTERVAL`=1 keeps the order of
the real windows. `lease_live`: PostgreSQL, two invocations, the one that dies and the one
retried until it takes over, no symmetry.

Fairness: weak on `Invoke`, `Forget` (the scheduler fires for ever) and `BeatRead` (a live
thread runs); strong on `Tick` (time passes between beats), and on claim steps, the beat's
write and the terminal write: on SQLite each needs a lock that others take and give back,
which the busy timeout polls. Nothing forces a body to end or a fault to happen.

### 3.2 PipelineDag and SnapshotPipeline: one automated run

`PipelineDag` has `execution_order`, the blocking rule and the publication gate over a table
given as constants; the instance gives the fifteen jobs of `PIPELINE`. `SnapshotPipeline` is
one run of `main`: `Seed`, then per job `SkipJob`, `JobReturns`, `JobRaises`, `JobUnclaimed` or
`JobUnclosed`, then `Gate`, `Build`, `Emit`/`Promote`/`Discard`, `WriteReport` and the publish
job (`Publish`), or `Abort`. `scope` is what the run was started with: event, flags, and the
status all jobs have in the parent snapshot, which a job that never got a row inherits.
`candidate` is a copy of the rows taken by the build, before the agreement check.

`PublicationIsHonest`: every required job ran, ended as its spec allows and stands on accepted
upstreams (`PublishedIsEarned`), and no artefact leaves the run with job statuses other than
the report's (`CandidateTellsTheRun`).

In `algorithms`: every trigger and parent, `MAX_FAULTS`=2 failures per run. Two suffice for the
interesting pairs: a partial ingest plus a failed job, a missing row plus a failed delivery.
Only ingest can end partial in the instance, since each venue failure is a fault. No
fairness: a run may die anywhere.

### 3.3 SnapshotFiles and SnapshotValidation: the published pair

One read or one `os.replace` is atomic; anything that takes two file operations takes two
steps. Contents are named by the snapshot that produced them; hash checks are equality.
`Load`, `CheckGzip`, `UseCached` or `Decompress`, `Install`, `Return` are `resolve_snapshot_path`;
`NameParent`, `CopySeed`, `Build`, `ReplaceGzip`, `ReplaceManifest` are the run around it;
`ColdStart` is the API; `Damage` truncates a cached file, `Crash` ends a process anywhere.
`EXCLUSIVE` says that runs are started one at a time: the workflow's concurrency group or
the operator does that, no lock of the code.

Properties: `LineageIsHonest` (a run's database was copied from the parent its manifest
names); `ReadersGetThrough` (a reader that keeps starting resolves, unless a pair stays split);
`ImplementsPublished` (refines `PublishedSnapshot`: a chain in which each snapshot is published
once, as the child of the current one, and readers get the one current when they asked). Three
runs (a chain of three generations), one reader, two crashes or damages. Fairness: weak, on
the steps of started processes and on cold starts of readers. Runs need not start.

`SnapshotValidation` is the way of a candidate: raw file and pending manifest, check,
compression, verdict, verification, then promotion, the publish job's own checks and CI, with
deaths between and damage to any file. What a look at the database can find is any set of
flaws. `ChecksAreEarned`: what is published has no flaw (`PublishedWithoutFlaw`), a bundle that
agrees with itself was checked (`BundlesWereChecked`), and the matching histogram of an honest
scan never stops a publication (`HonestScansPass`). Two builds, two deaths or damages.

### 3.4 ScanReport, QuoteViews, RankingViews: answers that take several reads

* `ScanReport`: scans claim a run, commit their rows, and commit the run's outcome; the endpoint
  reads rows, newest completed run, newest run and health one after the other.
  `ScansAreReportedTruly`: rows that a later completed scan replaced are not listed
  (`GoneStaysGone`), "completed and found nothing" is so but for the two cases its comment
  names (`EmptyIsEarned`), and an empty list counts as a finding only of a fresh scan
  (`FindingIsFresh`). Two scans, two instants, one or more requests.
* `QuoteViews`: two writers observe a market (listing and book) and store in any order, books are
  pruned; a view reads row, newest header, levels. `PricesAreObservations`: bid, ask and age are
  of one sighting, a cost is of the sighting that dates it, a memo is still true. Three
  sightings, both deployments.
* `RankingViews`: rankings score, gate and publish in one transaction beside another ranking and
  settlement. `RankingsAreToldTruly`: the tabs' counts match the lists, what is offered was open,
  no superseded estimate is told by the disagreements or the funnel, these two agree, and a
  recommendation cites an estimate at least as new as its batch. A disagreement passes every test
  of `disagreements` (open, event ahead, two-sided and tight quote, window, divergence); its limit
  only shortens the list. A market's window is a constant, two estimates of a market have two
  times, and the watchlist is left out. Two runs, two markets, two changes.

### 3.5 TrackRecord and WalkForward: publishing, settling, grading, and using the record

The jobs hold different leases and interleave: ingest (`Fetch`, `Store`), ranking (`StartRank`,
`Publish`), the daily snapshot (`Freeze`), settlement (`StartSettle`, one `Answer` per market,
`CommitSettle` or `AbortSettle`). The venue resolves and may correct. One clock unit is coarse:
`Tick` waits for a settlement run that began and ended in it, as settlement runs every 30
minutes and the lookback is 45 days. A listing carries the time the venue then expected, and
`Store` overwrites status and time however old it is. History variables (what resolved by its
expected time, what was put off after its outcome was asked for, what a full batch left out)
appear in properties only.

Properties: `RecordIsFinal` (every grade of a market, on recommendations and on snapshots, is
its settlement, also after a correction and with grades in flight, and nothing is frozen
twice); `NoHindsight` (ranking loads no market whose outcome is on file, although a stale
listing may have put its status back to open, with one exception: a listing older than the
outcome, stored after it, that also puts the expected time ahead again); `NoneSlipsOut` (a
market that resolved in time, and that no listing then moves into the past, is settled before it
leaves the lookback, unless a full batch had no room for it: the limit of 400 at
settlement.py:113); `GradingCatchesUp` (again and again nothing is ungraded).

`track_record`: two markets due one after the other, the first of which may be put off by two,
`LIMIT`=1 (so a batch fills), `LOOKBACK`=3, one batch, one failed question or aborted run, one
correction. Fairness: settlement starts, its answers
and its commit (the schedule; an abort costs the error bound).

`WalkForward` is what is computed from the frozen claims: the backtest over each provenance, with
selection, sizing and payout; the calibration fit with its split and threshold; readiness; the
demo history's coming and going. `RecordIsWellUsed`: each trade gains what settlement graded its
claim with, a later run retells a day of which nothing more settled, nothing synthetic passes
for live, and a map is adopted only if it is the best ascending fit to a first part of enough
live claims and beats the plain estimates on the rest by more than noise. Ranks are counted per
horizon (value/pipeline.py:356-372), so two claims of a batch may share one, and a load of rows is
ordered by day and rank only (engine.py:214-216): `Loads` are the orders that allows, and each
backtest and fit takes any. What is retold excepts claims of the one rank that a strategy's limit
cuts through (`OnTheCut`), which either load may put first. In `research`: a batch of two claims of
one rank and horizons apart, strategies of one horizon and of both, up to four claims, three for a
fit, two jobs, settlement in any order and to any result.

### 3.6 EntitlementCache and BillingCheckout: what was paid for

Event `e` announces version `e` of one user's subscription; a handler retrieves whatever
version is current. Every `await` is a step boundary: `Retrieve`, `Guard`, `Write`, `ReadBack`,
up to `ATTEMPTS` passes. Stripe redelivers what got no 200, and up to `MAX_DUPES` times what it
did not need to. The checkout reads and writes its own key (`CheckoutRead`, `Remember`).

Properties: `AcknowledgedIsReflected` (if Stripe got 200 for an event, the cache holds that
version or a later one, unless one of four causes occurred: a skipped user lookup, a failed
metadata read, the window docs/stripe-entitlement-concurrency.md describes, or two events in
one second); `EventsAreAnswered` (an event alone in its second is acknowledged in the end:
503 answers do not livelock).

`BillingCheckout` has tabs that ask for sessions under the idempotency key of plan and minute,
payments, cancellations, and webhooks in any order. `OnlyDoublesGoUnserved`: once every webhook
is answered a payer is served, unless two subscriptions were live at once, which no check at
which the other was live and on record leads to.

`entitlement`: three events, two of them in one second, two handlers, `ATTEMPTS`=2 (code: 3; the
loop tells only the last pass from the others), one duplicate, one fault; two tabs, two
minutes, four events. Fairness: handlers proceed; Stripe delivers an unacknowledged event
again (strong, since handlers are busy in between).

### 3.7 The research side: simulator, collector, observations, retention, schedule

* `StrategySimulator`: a timeline is chosen as the replay reaches it, an instant at a time; events
  are taken by kind rank, and one event runs through resting-order handling, then dispatch.
  `Take` opens at the quote, `Post` leaves an order, `RestingFills` credits 1/`SHARE` of the prints
  since posting, `RestingExpires` withdraws, `Exit` and `Settle` close; `Fits` is the sizing rule.
  `BooksBalance`: a bucket or day exceeds its ceiling only by notional paid above the quote it
  was sized with or filled on another day than the one checked, and each evaluated signal is
  tallied, resting, open, or in a position that vanished with its exit. `PrintsCountOnce`: no
  contract is credited from one print twice. Two markets sharing a group of capacity 3 with own
  capacity 2, three instants (post, wait, fill or expire), two days, prices 1 and 2.
* `ResearchCollector` over `IssuanceWindows`: one resident loop that captures on a grid, captures
  that overrun, sleeps that wake late, the archive, the daily health report. `CollectionIsHonest`:
  captures keep to the grid and every point was used or counted as skipped; a report that passes
  rests on one market captured through one whole closed window and on a fresh book. Three
  histories of publications, six hours, captures of up to three ticks.
* `ObservationStore`: polls of a source whose clock may be ahead, with payload, row and view as of
  an instant, and sealed decisions for now or for an earlier instant. `EvidenceCanBeShown`: all a
  decision rests on was read, published and stored by its instant. Three instants, two rows.
* `SnapshotRetention`: selection, bounds, ladder and cascade over runs that seed from each other,
  with SQLite's reuse of ids. `RowsNameTheirMarket` (a stored row is about the market it was
  written for); `SacrificeIsOrderly` (no audited market is dropped, none that ranks above one
  that stayed; after any number of rungs the candidate is what a build at the last of them alone
  would leave, children included, and what builds at the earlier ones would leave was too large,
  so that no rung was needless). Boards of three listings that close and settle in another order
  than they are fed, two recommendations, two builds, sizes that ask for up to three rungs.
* `WorkerSchedule`: the resident worker's triggers in memory, misfires, one instance per job, stops,
  deaths and suspensions, the command line's sequence beside it, and the status page.
  `ScheduleIsKept`: a worker that has been up long enough is called stalled only when one fire of a
  job after the other came to nothing, three for a job that repeats, since "a single skipped tick
  is normal" (cadence.py:131-133), one for a daily job; and the backtest includes its day's record
  unless a fire was lost or something went wrong with the snapshot since it fell due. A job every
  two hours, two daily ones in days of four, seven hours, so that both kinds are called stalled
  after they have had the time to run; one trouble.

### 3.8 The shared services: client, ingest, store, publication, extension

* `VenueClient`: concurrent calls over one breaker, token bucket, semaphore and cache.
  `TripsOnAStreak` (the breaker follows the streak of failures), `CallsEnd` (every call ends).
  Two callers, threshold 2, two retries, two pages. Fairness: time passes; a call's own steps
  are taken, strongly where they need the bucket or the semaphore, which others give back.
* `MarketIngest`: choice of the books to fetch and what a cycle leaves. `ReservesAreFloors`: the
  reserves of the budget are floors. Six listings of two series and an event, two cycles.
* `IngestStore`: keyed upserts of two sessions. `WritesHappenOnce`: one row per key, and each print
  counted by one ingest. Two sessions, two wordings, two trades.
* `GitPublication`: queue, research and publish jobs, reruns, people who push, a lost answer to a
  push. `PublicationsChain`: a snapshot is published on the commit it was computed from, once.
  Two runs, two attempts, three commits.
* `CostOverlay`: reloads of one tab that overlap. A Kalshi address is an event; which of its
  markets is meant is the outcome that the order panel names when a reload begins
  (`marketNamedInPanel`), if it names one. `PricesTheTicket`: once every watcher has run, the panel
  is of the address on screen, and of the outcome and side its ticket had when the newest reload
  began. It is not always the ticket on screen: nothing watches for another outcome of the same
  event (`Choose`, `strayed`), and the side may move unnoticed in the two ways named (`missed`). An
  address of two outcomes and one of a single market, three reloads, two moves.

### 3.9 The decision procedures

`MCAlgorithms` asks each about every input of a small set.

* `BookPricing` and `ArbitrageScan`: fees with the venues' roundings, the walk of a ladder, and the
  five scanners. `ScansPayWhatTheySay`: the executable label is put on legs that return more than
  they cost in every resolution, and no size the books fill beats the one reported.
* `RuleMatching`: verdicts on the rules of one Kalshi and two Polymarket markets, stored and
  refreshed while rules are reworded and the horizon moves. Strikes within a thousandth of the
  larger are taken for one strike, as in `compare_thresholds` (strikes 2000 and 2001 in the run).
  `PairsAreTrue`: a strict pair settles alike, because its digests are equal and the strike is in
  them; any other match never pays against its polarity, except for a value among two strikes the
  tolerance took for one; and no stored claim outlives the rules it was made from.
* `PilotReport`: two generators around a publication, one of which may die. `ReportsAreEarned`:
  what is called actionable is fresh, and a sound snapshot is refused only for a reason.
* `SourceLag`: a decision from context to order, position and review. `SignalsAreHonest`: an order
  of up to a hundred contracts gains at its own size, it rests where its edge was computed, and
  a reversed thesis is told as wrong.
* `ExecutableCapacity`: books read one by one while they are pruned. `CapacityCanBeHad`: a capacity
  can be bought at its profit, and no larger one of the grid could.
* `EntryCost` (run in `served`): outlays, floors and medians. `CostsAddUp`.

The money lattice is coarser than the code's (`One`=100 or 1000 steps to the dollar, with cents
and the fifth decimal in proportion), the ladders have at most two or three levels.

## 4. Findings

1. `snapshot_split`: a run that dies between its two `os.replace` calls (lines 784-785) leaves a
   pair that readers and later runs refuse, against the script's own header (lines 30-32).
2. `entitlement_tie`: the ordering guard compares whole seconds with `<` (entitlement.ts:411), so
   of two events of one second the older can overwrite the newer, and both are answered 200.
3. `estimates`: the builder keeps only the newest prediction of each market before it exempts
   recommended ones (build_snapshot.py:126), so a market scored again after it was recommended
   loses the prediction its recommendation names, against lines 143-146.
4. `ingest_matched`: a matched leg that the listing lacks gets a place in the budget, and its book
   is dropped because the id map is the listing's (runner.py:580), against lines 394-395.

## 5. The proofs

Every theorem is proved from the `ASSUME`s of its module (ranges and disjointness of
constants, the order of staleness windows) and holds for any number of runs, readers,
markets, sessions, handlers, faults and any clock range. In each family `Init => Inv`,
`Inv /\ [Next]_vars => Inv'` and `Inv => P` are separate lemmas or steps; the inductive
proof has one step per action and under it one per conjunct.

* Lease (`JobLeaseProofs`). `LeaseInv` = `OneRunningRow`, `RowFitsPc` (which status goes with
  which place of `job_run`), `HealthyIsFresh` (a healthy run's proof of life is younger than the
  window that judges it) and, on SQLite, `JudgementHolds` (while a claimer holds the write lock,
  what it listed stays dead) and `BodyHoldsLease`. `OneRunningRow` alone is not inductive: an
  INSERT is excluded by the index, but `ExclusiveBody` and `LiveRunKeepsLease` need the judgement
  to survive to the commit. Then `SingleRunningRow` (both databases), `BodiesExclude`,
  `LiveRunsKeepLease`, `OutcomesAreTheirs` and the refinement `LeaseImplementsSlot` (SQLite).
* Pipeline (`SnapshotPipelineProofs`). `Undecided` (nothing is recorded of jobs not yet reached),
  `UpstreamHonoured`, `Early`, `Gated`, `Compared` (each phase has passed the checks before it).
  Holds for every DAG table, also one that is not topological. `PublicationsAreHonest`.
* Reports (same module). `ReportsHold`. `PilotInv`: a generator that nobody disturbed has been alone
  since it began and read the pair that is published (`LonelyFit`); a whole copy is of the snapshot
  it is named for (`CopiesFit`); and what was selected is fresh and one side of a market
  (`ActionableIsFresh`), by lemmas about the selection. It assumes finitely many markets.
* Files (`SnapshotFilesProofs`). `FilesInv` needs nothing of the runs; `ChainInv` (parent, copy and
  pair agree while a run computes) needs `EXCLUSIVE`. From both, `ResolutionIsWhole`,
  `LineageHolds`, `SplitPairsHaveAuthors` and the refinement `FilesImplementPublished`.
* Validation (same module). `ChecksHold`. `BundleInv`: a recorded verdict, and a check that is about
  to record one, was of the file that is served or of a torn one, which the contract refuses; a run
  that damaged nothing goes on only with what production accepts; what is published had both.
  Honest scans pass because their counts are cardinalities of sets of (code, pair), of which the
  listed ones are some and the absent codes none. It needs finitely many codes and room to list at
  least one of them: the proof showed that `TOP_REASONS` = 0 would refuse honest scans (it is 8).
* Scans (same module). `ScansAreTold`. `ScansInOrder`: the scans claimed are the first of their
  numbers, no two begin at one place in the order of bodies, and what is committed or completed
  has begun. `AnswerStands`: what each of the four reads found was the newest of a set that has
  only grown since. The newest exists because < on the naturals is well-founded.
* Quotes (same module). `PricesAreTold`. `ViewStands`: what a view has read is the newest of the
  books it knew, and of that whatever pruning left; an answer is computed from just this row and
  these levels. `MemoStands`: a memoised sector is what would be computed now, because it is only
  kept where one file is served and nothing is written.
* Rankings (same module). `RankingsAreTold`. `RunsDiffer`: two rankers never share a run, and the run
  of one at work has no rows yet. `BatchesAreBatches`: a batch has one number, at most `TOP_N` rows
  at a horizon and one row of a market. `ListedWasOpen`: what may be listed was open when it was
  last looked at. `OneEstimateARun`: a run estimates a market once, so the newest is one. It assumes
  finitely many markets, for the first `TOP_N` of a ranking to exist.
* Track record (`TrackRecordProofs`). `FrozenOnce` and `OneVerdict` with `RankHasRoom`,
  `FutureIsBlank`, `AskedAreOpen`, `FiledArePast` (settlements exist only for markets whose
  expected time has passed, or had until a stale listing put it off, which is why ranking, which
  loads future ones, lacks hindsight but for those) and
  `StatusHasProof`: a settlement in flight asks only about markets that have none.
  `NoSettlementIsLost` needs a counting invariant (`SlipInv`): while a resolved market that no full
  batch left out has no settlement, every clock value of its window at which settlement ran has
  cost a failure, and the run in progress asks about it (`MissesArePaid`).
* Entitlement (`EntitlementCacheProofs`). `RetrievedIsNew`, `CacheKeepsUp`, `GuardsPassed`,
  `RecordReflects`: the event on record is never newer than the cached version, and never older
  than an acknowledged event unless an excuse is set; so a handler that passed its guards writes
  over nothing newer.
* Checkout (same module). `PayersAreServed`. `CheckoutInv`: a cached state of a subscription that
  is stale has a later event of that subscription pending (`StateFollows`); the subscription of the
  newest event is the only live one unless two were live at once (`NewestEvent`); and no form was
  made by a check at which another subscription was live and on record.
* Simulator (`TradingProofs`). `PendingFits` (a resting order fits under every ceiling
  it was checked against, because nothing commits while it rests), `Backed` (each bucket holds at
  least what the open position will release) and `PhaseOK`. `BooksAlwaysBalance`.
  `LedgerIsItsPositions`: each bucket of the ledger is the sum of its markets' exposures, which no
  run checks (sums over all buckets in every state are slow). `PrintsAreCreditedOnce` (`Credited`:
  what was credited had printed by now, or by the instant a resting order was posted). Both are
  about sums over sets, whose laws (additivity, monotony, change of one summand) are lemmas here:
  the library's induction theorems take an operator, which the provers cannot instantiate, but
  that a set of naturals has a least element they can use.
* Pricing (same module). A walk takes from each level what is left of the order, so what it fills
  and pays are two sums over the levels; the lemmas (`Total` of sums, bounds, depth and boundaries
  of ladders, the average between the best and the last price, rounding within half a unit) are
  proved once, by the same least-element argument, and the four results rest on them.
  `CapacitiesHold`: `CapacityInv` says of a preflight what it has at each of its steps: while it
  reads, what it has seen are observations of well-formed books and what is left to read are stored
  captures; when it is done, it reports what it saw. That a stricter floor or a smaller edge never
  allows more needs only that the sizes that qualify are among those that qualified; that a reported
  size pays needs the rounding of the average and of the fee per contract, which is the slack the
  property names. `SignalsHold`: an order no larger than the research size pays at most the average
  of the larger walk, since a ladder ascends, and the fee of the smaller order exceeds its share of
  the larger one's by less than a cent, which the minimal edge covers. Resting orders need books on
  the market's tick: the assumption `OnLattice` on `Situations` (section 7 says what happens off
  it). `GuaranteesHold`: what a scan calls executable pays more than it cost in every resolution its
  kind admits. It rests on `PadsCover`: at least one slippage tick of at least one price step, the
  default of config.py:130. Without it the rounding of average prices (`_price_at`) can hide half a
  step per contract and leg, more than a small profit. `CostsHold`: the cost told per contract,
  times what fills, is the cash of the ladder within `CostSlack`, since every part is rounded by
  half a unit; on a whole-cent ladder what an order pays above its best ask is a whole number of
  cents and covers what the fee, itself in cents, falls by along its curve, so a price without a
  book is a floor; and a number of every rank exists among finitely many (one of those with enough
  numbers within it that has fewest), which gives the median and the quarters. Each answer is
  computed in one step, so the property is inductive as it stands. `EntryCostAssumption` asks for
  ladders sorted as the parsers leave them (best first) and a fee rate of at most 0.50: Kalshi's is
  0.07 times the multiplier of the series (fees.py:35, 44), which leaves room for one of seven.
* Services (`ServicesProofs`), each of its own specification. `BreakerTrips`: the breaker's state is
  a function of the streak (`BreakerCounts`). `IngestWritesOnce`: rows are unique by key, what a
  session has seen is there when it commits, and counts are the session's own insertions
  (`StoreInv`). `PanelPricesTheTicket`: address, outcome and side of whatever is in flight or
  painted hold while it is the newest and the ticket has not strayed to another outcome, or moved
  to another side unnoticed (`OverlayInv`). `PublicationsFormAChain`: what is published
  of a run was built by an attempt that is over, a candidate's pedigree is that of its run's
  commit, and what was verified was built in this attempt (`PublicationInv`).
  `PairsStayTrue`: a stored strict row is the verdict on rules the two markets had, and one seen
  since is that of their present rules (`PairsInv`); and lemmas about the verdict: a strict one
  implies equal digests of what is observed and equal void policies, these pay alike, and
  comparators that match never pay the other way round on a value outside their two strikes.
  `BudgetIsShared`: a pass over an ordered list never exceeds its budget, keeps what was chosen
  and, if slots remain, has offered one to every market of the list (lemmas on the recursive
  functions `Fill` and `Leftover`, by a least counterexample); an order of priority lists each
  market once, and first the one that comes strictly first. Proving it showed that an earlier form
  of `ReservesAreFloors` claimed the slot for the most traded market also when no share is
  reserved for coverage and when two are traded alike, neither of which the code promises.
* Research (`ResearchProofs`). `EvidenceIsShown`: a poll's steps keep their order in time, and a
  recorded forecast has its payload (`EvidenceInv`). `CollectionHonest`: starts and sleeps are on the
  grid of the current cadence (`LoopInv`), and a passing report's figures are of one market
  (`HealthInv`). `RowsKeepTheirMarket`: in the database and the
  artefact ids are one market's each, and every row with an id finds the market it was written
  about (`RetentionInv`), so a reused id has no row left. `SacrificeInOrder`: a rung keeps an upper
  set of the ranking, and a narrower rung after a wider one leaves what it would leave alone
  (`RungsCompose`): what is missing from the first n has n before it, all of them kept
  (`FirstOfTheFirst`), and no audited market is ever missing (`SacrificeInv`).
  `ScheduleKept`: every past fire of a job since the worker came up was lost or passed over, or a run
  as late as it completed, or one that answers it goes on (`FiresAnswered`), so a page that finds no
  run recent enough has each fire of the window to blame; daily jobs are due at their time of day
  (`ScheduleInv`, with lemmas on quotients and rests of periods), so the snapshot of the
  backtest's day was due before it. Proving it showed that an earlier form of the model let
  a stop of the worker end a run started from the command line, which the code does not.
* Record (`ResearchProofs`). `RecordHolds`, of three invariants. `RowsInv`: marks and ids are one
  row's each, no live row is missing, a settled row has the profit its market's verdict gives its
  side; and a step only settles rows, adds new ones or takes demo rows away. `TradesInv`: the trades
  of a run are what its strategy picks and pays among the rows it was over, in whatever order they
  were loaded; the rows before a claim in any load are those of a lesser rank and some of its own
  (`PrecedingAre`), so whether it is picked follows from the ranks of its day unless the limit cuts
  through its own (`RankDecides`), and two runs over the same settled rows of a day tell it alike
  but there (`DaysAreToldAlike`). `FitInv`: the map on file satisfies its conditions, with the rows
  it was fitted to. `FitIsTheRegression` is a result of its own: pooling adjacent violators, as the
  loop of `fit_isotonic` does it, ends in the isotonic regression, defined apart by its closed form.
  The blocks of a stack are contiguous, none could be cut into a lower mean before a higher one, and
  a merge keeps it so (`GrowingPools`); when the last two no longer descend, the ends of the blocks
  are the corners of the lower hull of the sums (`PoolTopHull`), and these are where the closed form
  takes a step (`BlocksOfHull`, `RegressionIs`). The knots ascend, so the map that interpolates them
  does (`AppliesRising`). `WalkForwardAssumption` asks for claims and verdicts of the shapes the
  tables have, verdicts that pay what their result says, strategies with names of their own and
  whole limits, and at least two samples for a fit (the code has 150, calibration.py:61): with one
  there is nothing to hold out.

What the theorems do not cover stays with TLC:

* every liveness property (`CrashedRunIsReplaced`, `ReadersGetThrough`, `GradingCatchesUp`,
  `EventsAreAnswered`, `CallsEnd`): fairness and ENABLED are beyond this prover;
* `SizeIsBest`, the other half of `ScansPayWhatTheySay`: that no size beats the one found by more
  than rounding compares sums of roundings at two sizes of every leg, and a bisection.

## 6. What is not modelled

* Normalisation, probability models, ensemble, metrics, capacity presentation: parsing, or numeric
  models over the reals; they have no state. What they select is any choice in the models.
* Research dataset and parity, retrodiction, shadow ledger, readiness, evidence: offline
  computations over frozen records.
* Freshness and configuration: pure functions of ages; where a module uses a threshold it is a
  parameter. Schema and migrations: declarations; their unique indexes are in the models.
* Start, system and research routes, website, operations scripts and CI, the portal: stateless.

Inside the modelled parts (the notes of `PROJECT.json` are complete): the bodies of jobs, prices
and scores (any choice), how a Stripe subscription becomes an entitlement, the legacy
uncompressed snapshot, the in-process resolution cache, fees and P&L of the simulator,
order-book evidence in snapshots, `scan_exhaustive_sum`, risk flags, text scores of matches,
payload pruning, byte sizes of SQLite (a linear size stands for them), payload parsers, the
extension's ten-second answer cache and its search of a page's markup for a ticker, filters and
paging of the API, the pilot's watchlist and rendering, APScheduler's thread pool, the leakage
checker and what `fit_beta` converges to.

## 7. Seen while reading, and not turned into runs

Places where the code and its text part, or where a state a reader would not expect is reached;
each is followed by the model as the code has it.

* Lease and pipeline. On PostgreSQL a run claimed between the two SELECTs of `_claim_active_key`
  is interrupted while its body runs (jobs.py:143), and the superseder's own claim may raise
  (jobs.py:158). An ingest in which every venue failed is recorded as SUCCESS (job_record.py:156,
  against tests/test_job_runner.py:91). A body cut short by `KeyboardInterrupt` is stored as
  SUCCESS (jobs.py:273). A failed research job stops publication by the exit code (run script :916)
  although pipeline_dag.py:113 does not require it. "Re-run failed jobs" can never publish, since
  the attempt no longer matches; `verify_candidate` compares with the run's own checkout, so only
  the last confirmation and the refused push protect `main`.
* Published files. A validator run without a manifest passes with a note. A demo-profile
  finalisation gives a pruned file a passing verdict; only the publish job and CI stop it. A
  newest arbitrage run that failed leaves no diagnostics, and the candidate is refused.
* Retention. `source_observations` is not among the market-scoped tables nor the cascades, while
  SQLite reuses freed ids. A failed retention unlinks the manifest and leaves the raw file.
* Archive. A re-poll of an unchanged forecast is a new row, because the unique key ends in
  `available_at` (models.py:853, against 849-850); `AsOfView.previous` then compares a forecast
  with itself. A publication time ahead of our clock raises in the session (jobs.py:1001). The
  observed schedule drops minutes (issuance.py:211). Rule history A, B, A returns B.
* Matching and arbitrage. A monotonicity hedge sizes on gross edge. The upper bound of a `between`
  market is never compared. `VOID_REFUND` stands for a refund and for 50-50. A closed Polymarket
  market whose last price is within 0.01 of 0.5 is taken as 50-50 (polymarket.py:543). Scores are
  made before the matches of the run are refreshed.
* API. A run that dies between its commit and its outcome makes the endpoint say that a scan found
  nothing while rows exist. Cost answers are dated by a book even where the ask is the row's
  (cost.py:292-300). The watchlist filters for independent priors before it takes the newest
  estimate, against the comment at opportunities.py:417-423. The disagreements are called no
  recommendations (opportunities.py:407-408), and nothing takes the recommended markets out. An
  empty ranking writes no row, so the batch before stays the latest.
* Billing. A second subscription is possible (against checkout/route.ts:102), and the end of one
  hides the other. A failed `customers.retrieve` creates a second Stripe customer.
* Extension. Another outcome of the same Kalshi event (same address and side) starts no reload, so
  the panel prices the one left behind until the timer fires (content.ts:232, 255; the model and
  `PricesTheTicket` have it so); a ticket closed by a click leaves its costs on the page as long; a
  toggle while a reload is under way is missed until the timer; answers slower than it starve.
* Simulator and alpha. An exit without a bid yields no trade, yet the position is dropped
  (simulator.py:377-382, against 589-591). The context takes the price of the likelier side, and
  `source_divergence` subtracts it from the YES estimate: gaps of estimates below one half are
  overstated, and crossing one half fakes a reversal. The risk stop compares a NO entry with that
  price. The edge is computed at a hundred contracts, the order is a few. `ALPHA_DECAYED` cannot
  fire with the defaults. A resting order is priced one tick above the bid or below the ask,
  whichever is less (factors.py:756), and placed one tick above the bid: off the market's tick the
  two differ. The capacity report prints the edge at 100 for every size.
* Backtest and calibration. Ranks start at one in each of the three horizons and rows are loaded by
  date and rank only (engine.py:214-216, value/pipeline.py:369-372), so `top1_10usd` buys whichever
  of up to three first-ranked claims of a day the database returns first (engine.py:112-116), and
  two runs over one record may differ. The split is by publication, so training claims may settle
  after the held-out ones, a market published on many days sits in both, and a day may be cut in
  two. `MIN_FIT_SAMPLES` is documented for the training part and compared with the total
  (calibration.py:21, 54). The map is applied nowhere. A scalar Kalshi result is graded with the
  venue's payout and silently skipped by the backtest (against engine.py:21). Void results count as
  half in the fit. `purge_demo_data` deletes trades of runs named `demo-%`, and run ids are not
  (seed.py:142), so demo trades survive. A demo pool with no eligible claims is labelled live.
* Settlement. A listing stored after a settlement puts the market's expected time back ahead
  (ingest/store.py:210), so a settled market can be ranked again.
* Scheduler. The backtest an hour after the snapshot only assumes that it has finished
  (scheduler.py:129); triggers are in memory, so a worker restarted more often than an interval
  never runs that job. A fresh live deployment is reported stalled until every job has completed
  once. `daily_climate` is in `CADENCES` and not in the DAG, so a deployment that runs only the DAG
  is never active overall. A `JobSkipped` in any stage of `pmvl pipeline` ends the sequence, and
  the command succeeds.
* Pilot. The gate's copy is written in place and taken if it exists (gate.py:323), so a death leaves
  half a copy and the sound snapshot is refused until it is removed. The digest opens whatever is
  published after the gate judged. A split pair makes `open_snapshot` raise, so no report of the
  refusal is written. A death between the four writes mixes reports of one day.

## 8. Plan

Done: every component marked M or P in 1.1, and a theorem for every safety property of a passing
run, except one half of `ScansPayWhatTheySay`. Next:

1. `SizeIsBest` without the bisection, with the lemmas on walks and roundings of `TradingProofs`.
2. The scores of a backtest (`backtest/metrics.py`), of which `WalkForward` has the total and the
   drawdown, which no property is about.
