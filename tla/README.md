# Formal models of tennixai

TLA+ models of the backend of tennixai (`src/backend/app`), the TLC runs that
check them on small instances, and theorems about them proved with TLAPS for
every value of the constants.

## The system

tennixai follows professional tennis matches and the prediction markets on
them. One daemon process (`runtime/daemon.py`) owns most writes: it follows the
sports provider and the market exchange, predicts, decides, trades on paper and
settles; an API process serves what the daemon stored (and fills in match
metadata itself); a Next.js frontend shows it. PostgreSQL is the authority,
Redis holds leases, hot snapshots, markers and streams.

| component | state it keeps | operations | hard because | correct when |
|---|---|---|---|---|
| paper trading (`paper/`, `persistence/paper_repositories.py`) | intents, fills, positions, tracks, resolutions; Redis markers | `on_decision`, `execute_due_intents`, `settle_market`, each a sequence of transactions and publishes | death or cancellation between two transactions, replays, two processes at once, delay and expiry on one clock | orders are one-shot, filled in their window, decided in the end; positions follow fills; settled once, with all tracks, under a final resolution; Redis is never ahead |
| decision engine and worker (`decision/`) | newest book, prediction and version of a match, queue of books | `handle_sports`, `handle_book`, `submit_book`, `pump_once`, `recover_cursors`, `evaluate` | a queue that drops its oldest book, inputs that are stale when used, a save that fails after the version moved | actions are on record under their version, versions go forward, no action on a stale or gapped input, no sale of what the same book just sold |
| market worker and book (`markets/worker.py`, `reducer.py`) | subscription, book, queue, recovery of each market; the cursors of the cycle | demand reconcile, recovery, reader, pump, REST reconcile, retire | a queue that overflows while it is pumped, baselines of two reads, a stream that closes during its recovery, markets that fail and use up the time of the others | a live book that lacks an event is flagged; decisions on a failed market are gated until it recovers; the hot book is the venue's; markets take turns |
| market discovery, rules, quotes (`markets/mapping.py`, `rules_index.py`, `quotes.py`, `runtime/market_snapshot.py`, `market_catalog_quote_feed.py`) | listings, links, rules, index, quote rows | scan, link, publish rules; rounds, frames, mirror | a provider that changes between its pages, lanes that write one row at different ages | rules are current when acted on; a quote of a round or of the feed that is shown as fresh is |
| realtime worker and live reducer (`realtime/worker.py`, `reducer.py`, `persistence/repositories.py`) | subscription and recovery flags of each match, snapshot, rows of points | reconcile, reader, apply, publish, save, load | a call that fails half way through a recovery; points that are corrected, inserted and dropped; the API process writing the same rows | a subscription is read or flagged; what is shown was committed and goes forward; rows hold what is shown |
| viewer leases (`realtime/leases.py`) | lease keys, grace deadlines and members of matches in Redis | acquire, renew, release, `demanded_matches` | commands that are no transaction, from several processes | a seen viewer keeps its match in demand, a match nobody watches leaves it |
| runtime daemon (`runtime/daemon.py`, `health.py`) | recovery flags, hints, rotation, source freshness | start, recovery, tick, recheck, pump, stop | one failing market in a loop, budgets, a crash anywhere | nothing is bought in a recovery, nor pumped after a failed reconcile; every order and position comes to its end |
| ownership and launcher (`runtime/launcher.py`, `child.py`, `assembly.py`, `bootstrap.py`) | `state.json`, children, containers, advisory lock, schema marker | `init`, `up`, `down` | overlapping and killed invocations, reused PIDs, a lost session | no foreign process is signalled; `up` waits for its runtime |
| sports catalog (`runtime/daemon.py`, `persistence/repositories.py`, `service.py`) | rows of matches | sync of live and upcoming feeds, lookup of stale rows, snapshots of both processes | row locks, statements that read at different times, a feed that just stops listing | no sync goes back; what is over stops being live |
| chat (`chat/`) | calls, outcomes, facts and topics of one request | rounds of tool calls, batches | any calls of the model in any order, duplicates, budgets, the match going on | facts of one snapshot, planned topics covered |
| API reads (`service.py`, `cache.py`, `players/`) | cache entries; generations of rankings | pages of several reads; sync and pruning | reads between which the daemon commits; loads that outlive requests | a page agrees with itself; answers are recent; movement is day over day |
| prediction, momentum, provider parsing, frontend | numbers, views | predict, parse, render | numerical or formatting | not modelled |

Interactions: the realtime worker hands each snapshot to the decision worker
(`SportsBridge`), the market worker hands it books (`MarketBridge`); the
decision worker reads the position, saves its decision and then calls
`PaperTradingService.on_decision`; the daemon's tick executes due intents and
its recheck calls `settle_market`. All of these run in one asyncio task of the
daemon; readers of sockets only fill queues. A job runs under
`asyncio.timeout`, so a coroutine may be cut off at any await. API and daemon
share only PostgreSQL and Redis.

The hazards that follow from this are in `PROJECT.json`, each with the line
where it bites and the properties that would notice it.

## How the models are built

An action of a model is what the code does between two awaits: one repository
transaction, one Redis command, one statement under a row lock, or the code
between two calls. A call that may raise has an action that fails, and a
coroutine that may be cut off has one that ends it there; a crash keeps the
database and Redis and loses the rest. Texts, prices and payloads are model
values or small numbers, told apart only as far as a property needs it. Names
are those of the source where TLA+ allows it; `map` in `PROJECT.json` gives the
lines of each definition. Every bound is a constant or a guard named as a bound
in the comment of its constant.

Where a run checks several modules, its MC module holds all of them and a
variable `scope` says which one a behaviour is about; the others' variables
stay where they are, most of them at `None`. The parts share no state, so this is several models in one run,
and nothing is claimed about their interplay.

| MC module | parts |
|---|---|
| `MCPaperLedger` | `PaperLedger` |
| `MCDecisionWorker` | `DecisionWorker` with its contract `DecisionLog`, `DecisionEngine`, `RuntimeLauncher` |
| `MCMarketSubscription` | `MarketSubscription`, `MarketCycle`, `LiveReducer` |
| `MCMarketDiscovery` | `MarketDiscovery`, `MarketBook`, `MarketQuotes` |
| `MCViewerLeases` | `ViewerLeases`, `ChatStream`, `ProviderCache`, `PlayerRankings`, `LedgerPages` |
| `MCRealtimeWorker`, `MCRuntimeDaemon`, `MCSportsCatalog`, `MCLiveReducer` | the module of that name |

## The modules

### Paper ledger

`PaperLifecycle` is the contract: the one-shot state machine of
`paper/state_machine.py` over the transition table of `paper/models.py`.
`PaperLedger` is the service (`paper/service.py`) over its repository; it
implements the contract through `lifecycle`, `held` and `evaluated`.

| model | code |
|---|---|
| `intent`, `fill`, `position`, `tracks`, `resolution` | the tables |
| `marker`, `marketMarker` | the hot Redis keys |
| `call[w]` | the call the coroutine of worker `w` awaits, with its arguments |
| `BeginEntry`, `BeginExit`, `ExecuteDueIntent`, `SettleMarket` | the reads at the start of an entry point |
| `CreateIntent`, `RecordFill`, `UpdatePositionStatus`, `RecordResolution`, `UpsertResolution`, `LoadUnsettled`, `RecordTrackResult` | the repository's transactions |
| `PublishMarker`, `PublishBlocked` | the Redis publishes |
| `Interrupt`, `Restart` | a coroutine is cut off before its next call; work is taken up again |

`record_resolution` is one step when a row is stored, because the row is
locked; when there is none nothing is locked, so the upsert is a second step.
Left out: prices, depth and fees (the outcome of a requote, `filled` or
`no_fill`); the market of a match (a link is frozen by its first intent);
decisions that return early; PENDING, PROPOSED and DISPUTED are one status.

### Decisions

`DecisionWorker` is `decision/worker.py` with its bridges, on one match. The
tick is one coroutine, so one decision at a time is under way, and `step` says
before which of its calls it stands.

| model | code |
|---|---|
| `queue`, `latestBook`, `predicted`, `cursor` | `_queues`, `_latest_book`, `_latest_prediction`, `_versions` |
| `passedOn`, `hot` | `MarketBridge._last_hash`; the newest book in Redis |
| `evidence`, `ledger`, `published` | decision rows; calls of `on_decision`; the hot decision |
| `PassOn`, `Pump`, `LookUp`, `Sports`, `Predict` | `on_state`, `pump_once`, `handle_book`, `handle_sports` |
| `Read`, `Version`, `Save`, `Apply`, `Publish` | the calls of `_decide` |
| `CallFails`, `RecoverCursors`, `Restart` | a call raises with or without its effect; a new process |

`DecisionLog` is the contract of the worker, the order in the comment of
`_decide`: decisions go on record under growing versions, only the newest one
on record is acted on or shown, one that calls for an action is shown after the
action, and what is shown goes forward. `DecisionWorker` implements it
(`Log == INSTANCE DecisionLog`; the contract's variables are those of the
worker with the same names); queue, links, gaps, reads, calls that fail without
an effect and restarts are stutters of the log.

`DecisionEngine` is one `evaluate` (`decision/engine.py`): `Gates` in the order
of the code, `Quote` a level of the book at a time (`quotes.py`), `Action`, and
for a BUY the fill on the same book and a second decision about the position.
Numbers are whole and compared by cross-multiplying; the code rounds to six
decimals. The cap of a BUY (`CapOf`) is the highest price at which the edge
still pays the fee on that price, on the grid of prices; the walk charges every
level for itself and rounds the last one.

### Markets

`MarketSubscription` is one subscription of `markets/worker.py` with the health
overlay. The reader is a task of its own; the rest is the daemon's tick, and
`job` says where between two awaits it stands.

| model | code |
|---|---|
| `sub`, `reader`, `queue`, `needs` | `_MarketSubscription.state`, `.reader`, `.queue`, `.needs_reconcile` |
| `retry`, `retired` | `_retry` with `reconciliation_failures`, `_retired` |
| `sourceGap`, `recoveryGap`, `closedMark` | the health sources `polymarket` and `polymarket_recovery`, `_closed_markets` |
| `missed`, `opening` | ghosts: the book lacks an event; the stream has yet to send the full book |
| `Receive`, `FeedCloses`, `FeedBreaks` | `_read` |
| `BeginCycle`, `Start`, `Repair`, `Probe`, `Rest`, `Publish`, `Restart` | `reconcile_demand_once`, `_start`, `_reconcile_subscription`, `_rest_reconcile` |
| `PumpBook`, `PumpPublish`, `PumpResolution`, `PumpDone` | `_pump`, `_apply` |
| `CallFails`, `RestClosed`, `RestClosedFails`, `PumpResolutionFails` | failures of `_recover_market`, `_retire` |
| `Announce` | the end of a failed recovery: `publish_gap`, then the overlay hears of it; the former may raise |
| `DemandUnknown`, `CycleRaises` | the cycle ends with an exception: the demand, another market, the flush |
| `daemon`, `Recover`, `AbortRecovery` | `recover_once`, whose cycle ends well or raises |
| `UpdateRecovery`, `EndTick` | `tick_once` after its cycle: `mark_gap` if it raised, `_update_market_recovery`; `run()` |

Decisions are made in the pump (`job = "decide"`) and at the sports changes
before the next cycle (`job = "idle"`). `GatedWhileFailing` says that a market
whose recovery failed is gated at both, with one exception, the sports changes
in the tick after a `recover_once` that raised: it returns before
`_update_market_recovery` and marks no gap, and another market may have cleared
the shared one. The run `feeds_revoked` shows it.

`MarketCycle` is `reconcile_demand_once` over all markets in demand: first a
turn for each that is not subscribed, while there is capacity, then one for
each subscription, both in the order of the ids from after a cursor
(`_rotated`), both until the deadline. What a turn does to its market is the
business of `MarketSubscription`; here it succeeds, fails (and the market waits
for its retry) or finds the market closed, and the cycle may fail with it.

| model | code |
|---|---|
| `wanted`, `open`, `parked`, `resolved`, `backoff` | the demand; `_subs` that are not closed, and that are; `_retired`; `_retry` that is not due |
| `phase`, `left`, `origin` | the loop, its markets still to come, the cursor it began after |
| `active`, `late`, `startCursor`, `repairCursor` | `active`, the deadline, `_start_cursor`, `_repair_cursor` |
| `startedSince`, `repairedSince` | history: who had a turn while a market waits |
| `BeginCycle`, `PassStart`, `StartTurn`, `StopStarts` | the loop over the demand, `continue`, `_start`, `break` |
| `PassRepair`, `RepairTurn`, `EndCycle` | the loop over the subscriptions, `continue`, `_reconcile_subscription`, `break` |
| `StartEnds`, `RepairEnds` | the outcomes of `_recover_market` |
| `FeedCloses`, `RetryFallsDue`, `TimeIsUp` | streams and clocks, between any two steps |

`TurnsAreTaken`: while a market waits to be started or repaired, no other has
two turns. It says nothing of a market that finds the capacity used up: that
one waits for as long as the others are in demand, which the code reports as
`capacity_limited`. Stopping the worker is left out; a new process begins again
with `Init`.

`MarketBook` is `MarketBookReducer` with the baselines `markets/polymarket.py`
reads one token after the other: `ReadToken`, `Baseline`, `Subscribe`,
`ApplyEvent` (whole books and changes, with hash and stamp) against a venue
that goes on (`Move`), repeats and garbles messages. `doubted` is a ghost: the
tokens of which a whole book was refused as stale or a malformed message
ignored.

`MarketDiscovery` is the discovery job with the scan of the provider's pages
(`listed`, `text`, `pages`, `seen`), the rows (`row`, `rules`, `linkedTo`,
`active`), `MarketRulesIndex` (`index`) and the decision that reads them
(`deciding`, `chosen`). Every step ends at an await; the job may be cut off,
fail, or meet a malformed page.

`MarketQuotes` is the row of the quote projection with the three lanes that
write it: coverage rounds (two on one job, sharing `offset` and `until`), the
feed's frames (`Frame`, `Flush`, `Disconnect`) and the mirror of hot books
(`MirrorHotBook`). A quote is the instant it is labelled with (`asOf`) and the
one at which its oldest part was read (`read`). Of a hot book the second is
unknown: `received_at` is the instant at which the pump built it
(`markets/reducer.py:130`, from `markets/worker.py:442`), of events that waited
in the queue and of an outcome that may not have changed for long. So the
mirror writes any instant up to now with `read = None`, and `ShownIsFresh` says
nothing of what is shown of a hot or a mirrored book; `RowGoesForward` is about
the labels and covers them.

### Matches

`RealtimeWorker` is `reconcile_demand_once`: close what is not demanded,
subscribe, recover, apply what the readers queued, one step for each awaited
call (`at`), with the API process that upgrades the same snapshot (`apiAt`),
losses, missing rankings, failures and restarts.

`LiveReducer` is `reduce_live_snapshot` with the rows of
`SnapshotRepository`: `Reduced` and `Rebuilt` number the points, `SavedRows`
upserts them by sequence, `LoadSnapshot` reads them back. `ghosts` is a history
variable: a load has found rows behind the last point of the snapshot, which
are never deleted.

`SportsCatalog` is the table of matches: the two syncs and the lookups of the
daemon, and the snapshots of both processes, as transactions that take row
locks in the order of the code and read at each statement (`tx`).

### Processes

`RuntimeDaemon` is the loop of `runtime/daemon.py` from start to stop, one step
for each await (`pc`): recovery, probe, recheck with its budget and rotation
(`Order`, `offset`), reconcile, pump of the active and of the held markets,
hints. Within a reconcile of the matches, that of `recover_once` too, each
snapshot ends the gap of their source and is decided on at once (`Snapshot`,
`SportsBridge.on_snapshot`), and each lost connection makes the gap again
(`ConnectionLost`). So an order may be placed in the reconcile of a tick before
that reconcile has come to its end, even after one that failed; what holds, and
what `OrdersNeedReconcile` says, is that nothing is bought while `recover_once`
runs, where the startup gap of the markets still stands, and that the pump
places and fills orders only in a tick whose reconcile came to its end. `RuntimeLauncher` is `init`, `up` and `down` of `launcher.py` with the
children and their PIDs, the containers, `state.json`, the advisory lock and
the schema marker; two invocations may overlap and one may be killed anywhere.

### API

| module | what it models |
|---|---|
| `ViewerLeases` | `realtime/leases.py`, the stream of `api/routes.py` with its renewal task, and the scan of the worker, one step per Redis command; times are what is left of them |
| `ChatStream` | one request of `ChatOrchestrator.stream`: turns of the model (any sequence of calls), batches with cache and duplicates (`unique`, `cache`), the frozen match, planned topics, budgets, replans |
| `ProviderCache` | `AsyncTTLCache` with the lifetimes of its users: hits, loads that are joined, outlive a request, fail, are evicted or served stale |
| `PlayerRankings` | the sync of the rankings, pruning, and a page of three reads |
| `LedgerPages` | the pages of `P3QueryService`, one read a step, while orders are decided and settled |

## Runs

| run | properties | instance and bounds |
|---|---|---|
| `paper_sole` | `EvTrackNeverInvents`, `MarkerBehindLedger`, `ImplementsLifecycle`, `OpenPositionsSettle` | one match, one worker interrupted anywhere, delay 1, grace 1, clock to 4: instants before an order is due, when it is due, at its expiry and after it, and an exit after an entry. Rows and markers of different matches never meet |
| `decision` | `ActionIsTraceable`, `ImplementsDecisionLog`; `CapIsSafe`, `NoRoundTrip`; `ForeignIsSpared`, `UpMeansReady` | worker: queue 2 and three books, so that one is dropped; version 3, so that a failed one is followed by a restart and another. Engine: two levels a side, crossed or not, several probabilities, positions, and every way a gate fails. Launcher: two invocations, three roles, one service, one container, one fault |
| `feeds` | `LossIsFlagged`, `GatedWhileFailing`, `LossIsReconciled`, `HotBookReturns`; `PointsAreNumbered`, `RowsHoldTheSnapshot`, `CorrectionIsARevision`; `TurnsAreTaken` | queue 2, the smallest that holds a full book and a change behind it. Reducer: three points, each absent or with one of two contents, three semantic changes with reloads between: an insertion, a correction, a drop. The recovery of the daemon and its ticks, any number of each. Cycle: three markets and two subscriptions, so that one waits for capacity and two others can overtake it on either side of the cursor; any number of cycles |
| `discovery` | `RulesAreCurrent`, `ActsOnlyOnFirstRules`; `HotIsTheVenues`; `ShownIsFresh`, `RowGoesForward` | two markets that fit one match, two rules texts, three edits, one fault. Book: two levels a token, two moves, one fault. Quotes: two markets, one of which feed and mirror write, room for one per round, windows of 0 and 1, clock to 2, one fault |
| `realtime` | `HotIsCommitted`, `ReadersRun`, `OnlyTheApiGoesBack` | two matches for one subscription, one that goes on and is paged, one that is over and demanded by the runtime; one envelope queued, one upgrade, one restart |
| `catalog` | `SyncGoesForward`, `StaleLiveIsCalibrated`, `FinishedLeavesTheList` | two matches of the same two players on swapped sides (so that locks cross), one the lookup never answers for, a window of one lookup |
| `daemon` | `OrdersNeedReconcile`, `PositionsSettle`, `OrdersAreDecided` | two markets, one linked, a budget of one, one fault: a failure, a lost connection, a crash or a stop; any number of snapshots |
| `api` | `SeenViewerStays`, `AbandonedMatchIsDropped`; `FactsOfOneSnapshot`, `ContextIsCovered`; `AnswersAreRecent`; `MovementIsDayOverDay`; `StatusIsExplained`, `RowsAreComplete` | leases: two streams on one match, times of 2 so that a lease expires or is renewed between any two commands. Chat: two topics, two calls a turn, four in all. Cache: two requests, two keys, room for one entry, clock to 5. Rankings: three days, two kept. Pages: one match, four decisions or links |

`CHECK_DEADLOCK FALSE` stands where the system may stop: a match that is over,
clients that have left, a subscription that is retired.

Each run has, for each of its properties, a mutant in `PROJECT.json`: a
plausible bug of the code under which the property fails.

### Findings

Four runs expect a violation; `PROJECT.json` quotes the text each contradicts.

- `paper_stranded` (`EveryPositionSettles`, `paper/service.py:273`): an exit's
  fill and the position's status are two transactions; a crash or a failing
  publish between them leaves the position EXIT_PENDING for ever.
- `discovery_frozen` (`LinkFollowsIntent`,
  `persistence/market_repositories.py:506`): a decision reads the link, the
  discovery job replaces it, and the entry is stored on the first market; the
  link is then frozen on the other.
- `reducer_conflict` (`EverySaveCommits`, `persistence/repositories.py:531`):
  a point that a rebuild moved has an id no row has; its next correction
  violates a foreign key, and so does every save after it.
- `feeds_revoked` (`RevokedUntilReconciled`, `runtime/daemon.py:612`): a
  `recover_once` whose reconcile of the markets raises leaves no gap, although
  its comment says so, when another market's book has cleared the startup gap
  they share; the next sports change is decided on with a failed market
  ungated. `polymarket_recovery` is only set by ticks, and `recovery` is not
  among the sources `freshness_for` looks at.

Known and without a run of their own: an order placed on a snapshot within a
reconcile of the matches that has not ended, after one that failed
(`runtime/daemon.py:180`); the label of a hot or mirrored book, younger than
its parts (`markets/reducer.py:130`); the EV track of a position settled while
its exit waits keeps the held outcome (`paper/service.py:382`); two first
writers may take back FINAL (`persistence/paper_repositories.py:351`; the
ownership lock excludes them); a recovery that fails after the stream closed
restarts it (`markets/worker.py:259`); a book that a failing call took off the
queue is not decided again (`decision/worker.py:226`); a viewer that registers
while the scan drops its match loses its demand (`realtime/leases.py:115`), and
a stream cut off before its `try` leaves a renewal behind
(`api/routes.py:150`); an identical payload advances the version when the clock
moved (`realtime/reducer.py:537`); the cap shown with a WAIT is loose for fee
exponents above one (`decision/quotes.py:173`); a request whose cache entry is
evicted before it resumes fails (`cache.py:88`); an order filled between two
reads is on no list of that page (`service.py:2519`); the two tokens of a
baseline get one stamp (`markets/polymarket.py:623`), so a whole book may be
refused as stale (`markets/reducer.py:158`).

## Fairness

Liveness is stated under what the scheduling of the code does again and again.

- `PaperLedger!FairSpec`: the clock goes on, an awaited call returns, a process
  that died is started again; the tick executes each due order and the recheck
  settles each market infinitely often if they can (strong fairness, since a
  worker may be busy in between); interruptions end some time.
- `MarketSubscription!FairSpec` (`MCFairness`): the tick and its timeouts go
  on, a demand read succeeds again and again, a retry falls due, and REST and
  the publication of a book do not fail for ever. Nothing is assumed of the
  stream.
- `RuntimeDaemon!Fairness`: the loop, the start after a crash, the end of a
  stop, the intervals and the delays of orders. Faults are bounded, which is
  the usual assumption without which nothing ends.
- `SportsCatalog!Fairness`: both processes go on; a deadlock of their
  transactions is broken by the database.
- `ViewerLeases!FairSpec` (`MCProgress`): a command that was sent returns, a
  renewal task wakes up, time goes on, and again and again a scan is completed.

## Proofs

A theorem is about `Spec` of its module for every value of the constants that
satisfies the named assumption; the bounds of the runs (clocks, faults, edits,
versions) are arbitrary. Where the module is one part of a run, a theorem says
it twice: of the part's own specification and of the run's `MCSpec`, whose
other parts it leaves alone. TLC evaluates the assumptions in each run
(`ASSUME`, and `ConstantsAreSound` for instances, which no `ASSUME` reaches).

| module of proofs | assumptions | theorems and inductive invariants |
|---|---|---|
| `PaperLedgerProofs` | `ConstantsAssumption`: delays and the clock bound are naturals, the grace is positive | any number of workers: `TypeCorrect`, `SettlementHasTracks`, `OrdersFillInTheirWindow`, `WriteOnce`, `Forward` from `SharedInv`, which adds what the calls under way carry: a fill inside the window of its order, a settlement with the tracks before the one it records. One worker (false for two): `SolePositions`, `SoleExitStatus`, `SoleEvTrack`, `SoleSettlement`, `SoleFinalIsTerminal`, `SoleMarkers` from `SoleInv`, which adds `CallInv`: what the one call under way read is still so. `ServiceImplementsLifecycle`: each transaction is a step of `PaperLifecycle` or leaves it alone |
| `DecisionWorkerProofs` | `DecisionAssumption`: a positive queue. Engine: `EngineLimits`, `RoundingIsSmall` (a lot's rounding is small against the edges), `NoneIsNoValue`. Launcher: `LauncherLimits` | `ActionsAreTraceable`, `HotDecisionIsOnRecord`, `HotDecisionGoesForward` from `DecisionInv`, which adds that the cursor covers every row and that what is applied or published is on record; `NewestBooksWin` from `NewestInv`. `WorkerImplementsLog`: each step of the worker is one of `DecisionLog` or a stutter, from `LogInv`, which adds to `DecisionInv` that the decision under way is the newest on record; `DecisionsAreConsistent` is what the contract gives its reader. `CapsAreSafeAtTheirFee` from `CapInv` (what an entry holds has cost something, so the cap is a price): an order within the cap that is charged no more than the fee of the cap passes the gate, for every rate and exponent. `NoSaleOfWhatWasBought` from `EngineInv`: the walk has paid at least the fee-free price of what it holds, so a profitable sale needs a bid above an ask. `ObservationsAreAccepted` from `AcceptInv`. `OnlyChildrenAreSignalled` without an invariant (each signal checks), `UpWaitsForItsRuntime` from `UpInv` (the token an invocation waits for is its own), `ChildrenRunOnInitialized` |
| `MarketSubscriptionProofs` | `QueueAssumption`: a positive queue. Reducer: `PayloadsAreSupplied` (a payload names a point once, and 0, which marks the supplier's ids, is no identity). Cycle: `CycleAssumption` (finitely many markets, numbered from 1) | `LossesAreFlagged`, `LiveHasItsReader`, `FailingIsGated`: each inductive next to the types, with `QueueStep` for what a step does to the queue. `PointsStayNumbered`, `RowsHoldThePoints`, `CorrectionsAreRevisions` from `ReducerInv`: while no load found rows behind the last point, the points are numbered 1..n with ids and identities apart, the rows, their ids apart, hold each under its sequence, and there are as many momentum rows as points. `NewAreCounted` and `UniqueIsFree` carry it: the numbers a reduction hands out are the ranks of the new points, and an id that `_unique_point_id` makes is free. `MarketsTakeTurns` from `CycleInv`: going around from a market that waits, everything it has seen a turn of comes before the cursor (`SeenInOrder`), and in a loop that is under way what was passed comes before what is to come, with the cursor between (`LoopInOrder`). `OpenStreamsFit` from `RoomInv`: `active` is no less than the open streams while markets are started, and a repair opens no stream but one that was open when its turn came |
| `MarketDiscoveryProofs` | `DiscoveryAssumption`: `None` is no market, match or text. Book: `NoneIsNoHash` | `IndexIsCurrent` from `RulesInv` (what the job authorises is what it stored, and the index is quiet while it stores); `OnlyFirstRulesAct` from `ChosenIsThere`; `OnlyDelistedAreClosed`. `HotBookIsTheVenues` from `BookInv`: the messages on the wire, applied in order, lead from the reducer's book to the venue's |
| `MarketQuotesProofs` | `NoneIsNoQuote` | `QuotesAreFresh`, `QuotesGoForward` from `QuotesInv`: no instant lies in the future and the label of a row of a round or of the feed is that of its oldest part |
| `RuntimeProofs` | `RealtimeAssumption` | `HotSnapshotsAreCommitted` from `CommitInv`, `SubscriptionsAreRead` from `ReadersInv`, `OnlyPagesGoBack` from `ForwardInv` (what a cycle holds is no older than what is shown). `OrdersFollowReconcile` of `RuntimeDaemon` from `GateInv`: the markets' gap stands while `recover_once` reconciles the matches, and the matches' gap in a pump whose reconcile failed |
| `SportsCatalogProofs` | `NoneIsNoKind` | `SyncsGoForward` from `CatalogInv`: from the read of a status to the commit the locks keep other writers out |
| `PageProofs` | `LeasesAssumption`, `NoneIsNoStatus`, `LoadsAreKnown`, `RankingsAreFinite`, `ChatLimits` | `SeenViewersStay` from `LeaseInv` (the scan under way counts no viewer that holds its lease as dead). `PageExplainsItsStatus`, `PositionsAreComplete`, `ActionsHaveTheirModel` from `PagesInv`: the ledger never takes back what stands behind a status. `CacheAnswersAreRecent`, `CacheLoadsOnce` from `CacheInv`. `RankingsMoveDayOverDay` from `RankingsInv`: every kept snapshot compares with the one before it. `ChatShowsOneSnapshot`, `ChatShowsFactsOnce`, `ChatReadsHistoryIfAsked`, `ChatCoversItsTopics`, `ChatKeepsCoreFacts` from `ChatInv`. `PartsKeepTheirInvariants`: the four together |

`OrdersNeedReconcile` is checked in `MCRuntimeDaemon` and proved of an instance
of `RuntimeDaemon` in `RuntimeProofs`, which extends another module.

Only model-checked:

- liveness (`OpenPositionsSettle`, `LossIsReconciled`, `HotBookReturns`,
  `PositionsSettle`, `OrdersAreDecided`, `StaleLiveIsCalibrated`,
  `FinishedLeavesTheList`, `AbandonedMatchIsDropped`): temporal reasoning under
  fairness is out of this prover's reach.

- `CapIsSafe`, for the linear fee and the grid of the instance. The code
  guarantees neither: rate and exponent come from the venue, with one as the
  default of the exponent (`markets/polymarket.py:704`). With an exponent above
  one, levels charged one by one may cost more than the same shares at their
  average price, and the cap is loose; and the rounding of the shares at the
  last level may cost the fee on half a tick, more than a coarse grid of prices
  leaves. What holds whatever the fees are is `CapsAreSafeAtTheirFee`.

## Plan

All the modules planned are written: the paper ledger with its contract, the
decision worker with its contract and the engine, one market subscription, its
book and the cycle of all of them, discovery and quotes, the realtime worker
and the live reducer, the daemon's loop, the launcher, the sports catalog, and
the API's leases, chat, cache, rankings and pages. Every safety property that a
run finds to hold is also a theorem, but for `CapIsSafe`. Left: the frontend's hooks that ignore
lower sequences.

## Not modelled

Prediction and momentum are floating-point numerics. The parsing of provider
payloads, the resolution of player names and the texts of chat are conversions
of what the models take as inputs. The replay of recorded messages, the
retention and history jobs, the intervals at which jobs run, configuration and
the wiring of the graph keep no state that the properties are about. The
frontend renders what the API serves. `PROJECT.json` gives the status of each
component.
