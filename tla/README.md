# Trading-Lab in TLA+

Models, model-checking runs and machine-checked proofs for the parts of Trading-Lab in which
several actors share state or one actor goes through many steps: the paper and the live order
path, the capital gate, strategies, the halt, the market-data feed, and the way of a strategy from
a captured source through backtest and optimisation to a paper account that may be halted. `S`
stands for `src/src/trading_lab`, `Q` for `src/scripts`; documents are quoted by their path in the
repository.

    tlc -workers 2 -config PaperFill_pm.cfg MCPaperFill      # one run
    tlapm PaperFillProofs.tla                                # one module of proofs

## 1. The system

| Component | State it keeps | Operations | Talks to | Modelled in |
|---|---|---|---|---|
| Paper fill engine (`S/venues/*/paper_fill.py`) | pending orders, a touch and an update counter per instrument, subscriptions | `register_pending`, `cancel_pending`, book and trade callbacks, `_sweep`, start, stop | called by the execution client; publishes order events | `PaperFill` |
| Execution client (`S/venues/polymarket/execution.py`) | client id -> venue id | `_submit_order`, `_cancel_order`, user-channel messages | Nautilus' command queue, the gate, fill engine or REST API | `PaperFill`, `LiveExec` |
| Capital gate (`S/agent/portfolio.py`) | cap | `check_order` | reads Nautilus' `Portfolio` and the equity provider | `CapGate` |
| Market data (`S/venues/polymarket/client.py`, `data.py`) | the socket, subscriptions | connect, subscribe, parse, publish | fill engine and strategies | `Feed` |
| Arbitrage (`S/strategies/arb_complement.py`) | open legs, best asks | callbacks on books and order events | submits and cancels | `BinaryArb` |
| Position-taking strategies (`S/strategies`) | remembered side, holding time, cooldown, inventory | `on_bar`, `on_trade_tick`, `on_order_book_deltas`, fills, stop | submits | `Strategies` |
| Kill switch, heartbeat, runners (`S/risk`, `S/runner`) | a flag on disk and in memory; misses in a row | trigger, clear, build, run, stop | venue, scripts | `HaltPath` |
| Lifecycle store, budget (`S/agent/lifecycle.py`, `budget.py`) | `hypotheses.state`, counters per UTC day | `add_hypothesis`, `transition`, `check`, `consume` | every script | `Lifecycle` |
| Evaluation and optimisation (`Q/eval_strategy.py`, `optimize_strategy.py`, `hl_optimize.py`, `rolling_eval.py`) | results of the runs so far | grid, windows, folds, verdict | store, budget, backtests | `Lifecycle`, `Optimize` |
| Backtest runners (`S/runner/backtest.py`, `hl_backtest.py`) | fills, balances, funding | one market or coin after the other, pricing | the engine (external) | `Backtest`, `HlBacktest` |
| Historical data (`S/data/ingestion.py`, `S/venues/hyperliquid/historical.py`, `S/data/hl_catalog.py`) | rows stored, cursors | paging, retries, merge | the servers | `Ingest`, `HlHistory` |
| Research intake (`S/agent/ingestion.py`, `discovery.py`, `source_capture.py` and their scripts) | files, inbox, `ingestion_items`, `hypotheses` | capture, build, distill, name, specify, register, migrate | one another, through files and SQLite | `Intake` |
| Paper book-keeping (`S/runner/generic_paper.py`, `Q/paper_summary.py`, `paper_watcher.py`) | one log a day, summary rows, the slug's state | emit, pair, add up, halt, retire | store | `PaperBook` |
| Scheduled jobs (`Q/hermes_remaining_crons.py`, `hermes_cron_auditor.py`) | latest outputs, marks | summary, watcher, audit, start a runner | processes, store, kill flag | `PaperOps` |
| Autocommit of the jobs (`Q/hermes_remaining_crons.py`, `commit_repo_changes.py`) | git's index and head | snapshot, add, diff, commit, push | git | `CronCommit` |

What makes them hard:

* The trading side is one event loop. Paper handlers never await, so each is one step, but
  commands wait in Nautilus' queue while market data is delivered and the node stops. Live
  handlers await the venue, so they interleave with each other, with the venue, and with a
  second report of the same facts over a WebSocket that loses messages.
* The research side is separate processes over SQLite, files and git. Each transaction and each
  file operation is atomic; nothing covers what lies between two of them. Scripts die, are started
  twice, and are run out of order.
* Numbers are put together from parts that arrive in an order nobody chose: pages that shift while
  they are read, fills of two tokens, hourly sums of a day.
* The gate in front of the orders reads a number that only fills change; the halt is a file that
  processes read only when they start.

What would make each part correct: the engine holds exactly the open orders and closes each one
once, at a price of the book it saw; the two order paths look the same to a strategy; an order the
client calls dead is dead at the venue; what is deployed stays under the cap; a halt outlives the
process that called it and a halted strategy stays halted; a download has all it asked for; a
verdict rests on runs that ran; a profit is what the fills cost and brought; a source that is ready
is registered, a file that a job calls committed is committed; a slug without a runner gets one,
and one only. Section 4 gives each as a property.

## 2. The modules

Components have a module each; a module of proofs extends the components of one group. `OrderLife` is the abstract
specification of an order's life, seen through its events: submitted, then rejected or accepted,
then filled or cancelled once. `PaperFill` implements it (checked and proved), `LiveExec` does not
(a violated run), and the legs of `BinaryArb` live by it.

Four modules put components beside each other so that one run checks several. A variable `part`
chooses one of them in the initial state, the others rest in theirs, and no component reads
another's variables: the state spaces add up instead of multiplying, and every component keeps the
bounds and the fairness it would have alone (fairness is stated of the component's steps while it is
the one that runs). `Trading`: `BinaryArb`, `LiveExec`, `Strategies`, `HaltPath`, `Feed`.
`Research`: `Backtest`, `HlBacktest`, `Ingest`, `HlHistory`, `Optimize`, `CronCommit`, `Intake`,
`PaperBook`. `MCLimits`: `CapGate`, `Lifecycle`. `MCOperations`: `PaperOps`, `Lifecycle`. The first
two are proved about (section 5); `MCTrading` and `MCResearch` give them TLC's constants.
`MCPaperFill`, `MCCapGate`, `MCLifecycle` have one component each; `LiveExec` also runs alone, in
its shipped wiring. `Sums` has the total of a sequence, for both backtests.

### The order path

**PaperFill.** `spec[o]` is the order a strategy built, `cmds` Nautilus' command queue, `events[o]`
what was published on `events.order.<strategy>`. `pending`, `touch`, `subscribed` are the engine's
`_pending`, `_touches`, `_subscribed`. The engine numbers book updates and compares an order's
registration number with the current one; only the difference matters, so `age[o]` keeps it, up to
the IOC limit. `HandleSubmit` and `HandleCancel` are the client's handlers, allocator verdict
included; `OnOrderBookDeltas` and `OnTradeTick` are the engine's callbacks, each a touch update
followed by the whole sweep (`Deliver`); `Start` and `Stop` are the actor's. `Emit` is `_emit_fill`
and `_emit_cancel`, which catch every error after the order has left `_pending`: such an order is in
`lost`, and no event says that it is closed. A book message begins with `CLEAR` on Polymarket and
not on Hyperliquid: constant `FeedClears`. Nautilus publishes events synchronously and drives order
status from them; that, its FIFO queue, and the fact that a cancel of a closed order is not sent are
assumptions about code outside this repository.

**CapGate.** `ChecksOut` is `check_order`: no price, accept; SELL on a long position, accept;
otherwise the exposure plus the order must not exceed the cap. `exposure` is the sum of the absolute
net exposures `Portfolio` reports, which a fill alone changes. What one call sees of it may be less (`Readings`: no
portfolio, an error, other money than USDC count as zero), and a `check_order` that raises lets the order through
(`CheckOrder`). `outrun` remembers in which ways an accepted order may go past the gate. Prices stand still, so
notional and quantity are one number. The cap is one value per process: `check_order` asks the provider every time, but
`current_usdc` answers from the snapshot of the one refresh with which the runner primes it at its start
(`runner/paper_v2.py`, `live_v2.py`), and nothing in a running node refreshes it again.

**LiveExec.** `_submit_order` is three actions (`SubmitLive` up to the await, then `CreateReply` or
`CreateRaises`), `_cancel_order` likewise. `post[o]` and `delete[o]` are the requests in flight,
`known` the ids in `_order_id_map`, `clob[o]` the truth at the venue, `ws` the user channel. A
request that raised may have been taken or may still be taken. `UserChannel = FALSE` is the wiring
of `factory.py`, which builds the channel and never starts it; `TRUE` is what
`handle_user_ws_message` was written for. `StatusNamesOrder` is a fact about the venue's messages
that the code leaves open. `Deliver` is a message whose handler returns: the event is published, or
the order has no name yet, or a fill has no readable size and price. `DeliverRaises` is one whose
handler raises (a fill's event is built with the symbol in place of a currency; whether that fails
is the library's to say, so both are possible): nothing catches it before the socket's reader, which
drops the connection and what is behind the message. `losses[o]` records how the client lost track.
The venue takes, refuses, matches in full, drops; an order rests there until one of these happens:
the payload carries no time in force, whatever the strategy asked.

**Feed.** `books` and `scope` are the venue's: what it shows, and which tokens the connection gets. It
takes each subscription message for a new one, so the client sends all `wanted` tokens every time
(`SubscribeMarket`, `Connect`). `Handle` is `_on_message` down to the publish: each message goes out under the
instrument `_instrument_for_token` makes of it, and `held` is the cache of books by instrument.

### Strategies

**BinaryArb.** `asks` is `_best_asks`; `attempts` lists the `ArbOpportunity` objects in the order they were
sent, `active[p]` is the number of the one `_active_arbs` holds for pair `p`, `marked[k]` its
`yes_filled` and `no_filled`. `OnOrderBookDeltas` is the callback with the scan and, when the scan finds
a profit, the paired submit (`Execute`). A leg is queued until the execution client answers, then
open or rejected, then filled or cancelled, in any order with its sibling. `is_open` is false of a
queued order, so an abort passes it over: `missed` remembers those legs, `asked` those whose cancel
was sent.

**Strategies.** Eight bar strategies of Hyperliquid, the tick mean reversion and the wide-spread
fade. One runs (`kind`), on one instrument. Of an indicator only its comparison with the price or a
threshold is kept, free on every bar: the decisions read nothing else. `Policy` is the table several
strategies share; each `on_bar` is an action of its own that decides, sends and remembers. Each
order, a close included, is as large as the bar or print at hand makes it: `MinSize` to `MaxSize`
units, or none, free each time. `pos` is what was bought less what was sold, orders in flight
included; `slips` counts exits and flips, `unfilled` the orders that ended unfilled and the closes
that were never sent because their price rounds to nothing.

**HaltPath.** `flag` is `data/.kill_switch`. A process goes from its constructor (`Arm...`: the
gates of each kind of runner) over `BuildSwitch` (`KillSwitch.__init__`, which raises when it reads
that the flag stands) to `Run...`; `ReadFlag` fails open on a file that cannot be read, and
`blind[r]` remembers that it did for `r`. A process ends by timer, interrupt, failure or crash.
`trigger` is memory, then file (which may fail and be swallowed), then the cancel-all, whose form
depends on the event loop the main thread finds: `asyncio.run`, with which equity is primed, leaves
none. `HaltScript` and `ResetScript` are the operator's. The heartbeat belongs to the superseded
`live.py`, the only runner that uses it.

### From data to verdict

**Ingest.** A trade is its place in the server's order of arrival. `TradePage` is one turn of the
loop in `fetch_historical_trades`: take a page of the trades before the cursor, newest first
(`Matching`), store what lies in the window, move the offset, stop when a page is short or older
than the window; `TradePageRefused` switches to the cursor on timestamps, and so does, once, a page
that is empty (`TradePageEmpty`) or no list at all (`TradePageNoList`, an error object with status
200). New trades shift the pages.

**HlHistory.** A walk moves a cursor through its window in slices, each retried, and merges what it
read only at its end. Rows are published while it walks, the newest of them still forming; a second
walk overlaps the first and must replace what was not final.

**Backtest.** `BeginMarket` to `EndMarket` or `CrashMarket`: one market in a process of its own. `fills` is all its
price is made of: matched pairs where both tokens were traded (`ArbSeries`), closed lots where one was
(`TwoSidedSeries`), or, where nothing was closed, what the fills cost and pay (`TerminalPnl`).

**HlBacktest.** `account` is the engine's report of balances, put on a grid of bars; `rates` are funding
events, applied to the position held; `Extract` splits a coin's end value into price and funding,
`PortfolioEnd` sums the coins.

**Optimize.** `ran` has the results of runs that did not fail. Polymarket: `BeginGrid`, `PickCandidates`, windows,
`DecideWinner`. Hyperliquid: `BeginCells` makes the walk-forward folds, `DecideConfig` the verdict.

### The life of a strategy

**Intake.** Sources become rows of `ingestion_items`, folders of `research/hypotheses`, rows of
`hypotheses`. Each read of the row or of its files, each write of a file and each transaction of a
script is a step of its own: `ScaffoldSpec` reads, `SpecWrite` writes, `SpecStage` sets the stage by
what was read, and likewise for memo, dossier and the two finalizers. `script[p]` is one of the
scripts under way, which may overlap and may die between two steps; a new one takes the first free
slot. `flat` has the files `research/hypotheses/n.md` of the old layout, which `register_candidate`
still writes and the migration turns into dossiers (`MigrateMove`, `MigrateFlat`), or, where they
are spec-grade, into specs whose rows become DISCOVERED at once (`MigrateDiscovers`). `Propose` is
`propose_hypothesis.py`: url and references are what the file has, or none. `spoilt`, `again` and
`taken` are histories of a source whose files another script moved or reset, of one that may be
registered twice, and of one whose hypothesis another source of the same slug replaced. `Queue` is
the set of places of `order` that hold a SPEC_READY row, `Batch` its oldest. Texts are none, todo or
filled.

**Lifecycle.** Slugs are numbers in the order of `created_at`. `state[s]` is the column, `job[j]` a
running script with the slug it picked, the state it read and the backtests it has yet to bill,
`spent` the day's ledger, `listed` the slugs the watcher still holds in its loop. A slug is
registered in any of `InitialStates` (`--initial-state`). `Transition` is `lifecycle.transition`:
one transaction that refuses the two human-gated moves to an agent and nothing else. `Pick` chooses
as the queues do (SMOKE_PASS before BACKTEST, the oldest of each) or, for code generation and the
rolling evaluation, any slug in the state; `PickByName` is a script somebody runs on a slug,
whatever its state. `Read`, `Consume`, `Conclude`, `GiveUp` are the stages of a script;
`hl_optimize.py` neither looks at the budget nor bills it. `AgentMove` is `transition_lifecycle.py`
in the hands of an agent, out of HALTED also. `review[s]` is a history: whether a user's review of
`s` is due.

**PaperBook.** A runner appends signals to the log named after the day it was built; `Summarise`
pairs today's log and adds a row, `WatchKilled` halts every slug while the global kill flag is read
(`flagged`), in place of the two loss rules `WatchHalts` and `WatchRetires`; `category` says which
of them it was. A log is kept as what pairing makes of it: open signals, pairs, profit.

**PaperOps.** Runners are counted per slug by who started them; a runner ends as often as it will.
`RunnerActive` matches processes as `pgrep` does, so a slug also finds the runner of one whose name
it begins (`SlugPrefixes`). The summary and the watcher job each leave one output that may name a
slug whose runner is missing; `Audit` reads the latest of each and starts what is missing, and saves
its marks only at its end, so `AuditDies` may lose them. A mark is the set of outputs it was made
from, and a new output voids the marks of the one it replaces.

**CronCommit.** `Cron(c)` is a job with its autocommit: snapshot, work, compare, `git add`, `diff` (whose
failure is taken for nothing to commit, `GitDiffFails`), `commit`, `push`. The
index is shared, `git commit` takes all of it, and `git add` fails on an ignored path after staging
the rest.

## 3. The runs

| Run | Instance | What it asks | Result |
|---|---|---|---|
| `PaperFill_pm` | 2 orders of 3 kinds, 2 prices, 1 instrument subscribed late, IOC after 2 updates, 1 event that cannot be made; fair | is an order lost, held after its close, skipped by a sweep, kept beyond its IOC limit or never closed; does the path implement `OrderLife` | holds |
| `Limits` | `CapGate`: 3 orders of 1 or 2 units, 2 open at once, 2 instruments, cap 0 or 2, readings that may fail. `Lifecycle`: 1 slug, 2 scripts, 2 backtests a day, jobs of 1 or 2, agents that move halted slugs | what gets past the gate and how far; does a halted slug trade again unreviewed; how far is the budget overrun | holds |
| `Trading` | 2 pairs and 2 attempts; 2 live orders on a connected channel; all strategies, 2 orders in flight; 2 processes and 2 halts; 2 tokens | how a leg is left alone; when client and venue disagree; what strategies believe; who is up under a halt; what is subscribed | holds |
| `Research` | the instances written in `Research.cfg`; fair | are downloads complete, do profits add up, did a ready configuration run everywhere, do sources reach a hypothesis and files the repository, does a loss halt | holds |
| `Operations` | `PaperOps`: 2 slugs, one's name a prefix of the other's, runners that end at will, 2 faults, the flag set once. `Lifecycle`: 2 slugs (one of Hyperliquid) registered as PROPOSED or BACKTEST, 1 script, the newer slug may fail; fair | do runners come back, one of each; do queues drain | holds |
| `PaperFill_hl_market` | market orders with IOC | does the IOC limit hold for what Hyperliquid strategies send | violated |
| `CapGate_readme` | two arbitrage legs | README's claim about the cap | violated |
| `LiveExec_events` | 1 order, shipped wiring | the claim that live events look like paper events | violated |
| `Lifecycle_watcher` | 1 slug, 1 script | the claim that only the watcher moves PAPER slugs | violated |
| `HaltPath_readme` | 1 process, 1 halt; fair | the claim that a halt reaches runners that are up | violated |
| `PaperBook_retire` | 3 signals, 2 days; fair | the rolling-loss rule | violated |
| `Feed_ids` | 2 tokens | the claim that what is published matches what was subscribed | violated |

Why the bounds are enough. An engine step touches one instrument and looks at each of its orders
alone, so two orders show every pair of outcomes of one sweep; two prices put a limit above, at and
below the touch. Races at the gate need two open orders and flips a position made before: three
orders, two of them open, give a race, a race after a fill, and two closing SELLs that flip
together. An attempt is replaced only by one of its own pair, so two attempts show that, and two
pairs show that handlers touch the right entry. A slug's fate depends on others only through queue
order and budget: one slug with two scripts shows the races, two slugs with one script the order.
Two sources collide on one name, one odd event (a crash, a `--force`, a rename, a second script at
work, a rerun of `propose_hypothesis.py`, a step of the migration) at every step of a script shows
each recovery alone; of the two flat files one is a spec under another source's name. A page of two,
a wall at three and five trades reach both phases of the paging and a page shifted by an arrival.
Two folds and two points of which any run may fail show a verdict on missing runs. One file under
each path a job commits (none for the summary, which shares nothing) shows two jobs staging and
committing each other's files, and one that always fails. Four signals over two days open, close and
cross midnight. Two faults of the scheduled jobs fall between any two of their steps, and one after
the other; the runners' deaths are not bounded.

Bounds written into the models, beyond the sizes of the constant sets: one queued cancel per order
(`CancelOrder`), one cancel per order (`AskCancel`), `MaxOpen`, `MaxArbs`, `MaxCost`, `MaxHalts`,
`MaxSends`, `MaxTurns`, `MaxInFlight`, `MaxLost` (events that cannot be made), `MaxSlips`,
`MaxUnfilled`, `MinSize`, `MaxSize`, `HoldCap`, `Cooldown`, `Window`, `MaxFills`, `MaxMoves`,
`MaxTrades`, `MaxTime`, `Horizon`, `MaxWalks`, `MaxSpan`, `MaxOdd`, `MaxSignals`, `MaxDay`,
`RowLimit` (rows the watcher is given), `MaxFaults`, `MaxFlags`. `CHECK_DEADLOCK FALSE` because
orders, fills and days run out and nodes and scripts stop.

### Disagreements with the documents

* `PaperFill_hl_market`: `venues/hyperliquid/paper_fill.py:21` "IOC orders fill at the first opportunity,
  otherwise `OrderCanceled` on the next book update". `_sweep` leaves an order whose price it cannot read
  before it looks at the IOC limit.
* `CapGate_readme`: `README.md:146` "rejects any order that would push the strategy past its allocation".
  Orders accepted and not yet filled count nowhere. `OvershootBounded` says how far this goes.
* `LiveExec_events`: `execution.py:171` "so the strategy can't tell paper from live just by event
  flow". A cancel handled while the create is in flight is reported before the acceptance: the trace
  is submitted, canceled, which no paper order can be. The theorem `ShippedLivesOnly` says what else
  can happen: nothing but the four histories of such a cancel, and no fill at all.
* `Lifecycle_watcher`: `docs/scheduling.md:112` "the only piece that auto-transitions PAPER strategies".
  `rolling_eval.py` runs the evaluation without the flag its own comment says it passes.
* `HaltPath_readme`: `README.md:137` "tripping from any process halts all paper/live runners on next watcher
  tick". Runners read the flag when they are built and never again; the watcher changes rows only.
* `PaperBook_retire`: `README.md:143` "→ RETIRED on 7d -15%". The watcher adds up every hourly row, each of which
  has the whole day's profit so far.
* `Feed_ids`: `data.py:190` "so the publish matches what subscribers asked for". Price changes and the trade made of
  a book's last price go out under an instrument without its market.

## 4. Properties

| Property | In words |
|---|---|
| `PendingIsAccepted` | the engine holds exactly the orders whose last event is OrderAccepted, but for those whose closing event could not be made |
| `NoMarketablePending` | what a sweep leaves does not cross the touch it used |
| `IocResolved`, `IocEventuallyClosed` | an IOC order does not outlive its book updates; and they come, so each is closed unless its event cannot be made |
| `FillsAtTheBook` | a fill made by a book message is at that message's price, not an older quote |
| `ImplementsOrderLife` | submitted, then rejected or accepted, then closed once |
| `CapHoldsUnlessOutrun`, `OvershootBounded` | four ways past the gate (a race, a flip, no price, a portfolio that could not be read), no fifth; racing orders reach at most `MaxOpen` times the cap |
| `WorkingIsKnown`, `EndedIsGone` | an order at the venue the client cannot name is one whose reply was lost; one reported dead is dead, unless its reply was lost or a cancel overtook its create |
| `FillsMatch` | every match is reported, as often as the channel names it, unless its trade was lost with the channel, was told before the client had a name for the order, could not be read, or named an event that could not be built |
| `ScopeIsComplete` | after any subscriptions and reconnects the venue sends every token the node asked for |
| `SurvivorExplained` | a leg that works beside a cancelled one is being cancelled, or its attempt was replaced, or the abort came before it was open |
| `StuckIsNaked` | an attempt that is over and still remembered has one leg filled and not the other, or both rejected |
| `OneAttemptAtATime` | without `allow_concurrent`, all that may still work of an earlier attempt is a leg its abort cancelled or passed over |
| `BeliefIsClose` | the position is one order's size of the side remembered, but for a drift of one spread of sizes per exit or flip and two orders per order that ended unfilled |
| `FadeOvershoot` | orders in flight overrun the fade's inventory cap by no more than their number |
| `OldRunnersOnly` | a runner up under a standing flag was built before it, or could not read it: none slips in between gate and run |
| `HaltOutlivesCrash` | once a cancel-all began the flag stands until a reset, whatever dies in between |
| `TradesComplete` | a download that ends has every trade the server had of its window, but for three named gaps: a reply that is no list, a page newer than the window, the seconds at the cursor |
| `WalkComplete` | a walk that ends has every row of its window, final where it was final |
| `SeriesIsTerminal` | the two ways of pricing a run of buys agree on what was matched |
| `CoinsAddUp` | a flat coin's price part is its balance, whenever funding was paid; the portfolio is the sum |
| `ReadyRanEverywhere` | PAPER_READY on Hyperliquid only after enough trades in every fold planned, and folds that do not overlap |
| `SpecReadyHasSpec` | what the queue offers for registration has a filled spec, unless another script spoilt it |
| `DiscoveredIsRegistered` | a source is DISCOVERED only after its hypothesis was written, unless another took its slug or it had a spec-grade file of the old layout |
| `RefsKept` | references of generated code are lost only to another source, a second registration, or a `propose_hypothesis.py` run on a file without them |
| `ReadyIsDiscovered` | a ready source is registered, or an older one is ahead of it, or its files are spoilt |
| `SuccessIsCommitted` | a job that reports success, and whose diff did not fail unnoticed, has all files it found in the repository |
| `NoResumeUnreviewed` | a slug the watcher took down does not trade again before a user moved it, whatever scripts and agents do, unless an agent makes a move to PAPER that is not gated |
| `BudgetBounded` | scripts that run together overrun the budget by no more than what they run |
| `QueueDrains` | a slug leaves its queue, or another is ahead of it (an older one, or one in the state looked at first), unless its own backtests fail |
| `ReportedIsCash` | with one size and nothing open, a reported profit is what the signals cost and brought |
| `HaltIsEarned`, `LossIsHalted` | a slug is halted only for the kill flag or for a loss a day's log had made, and for one that today's log shows and keeps, though the flag come and go |
| `AuditorStartsOne`, `MissingComesBack` | the oldest slug found without a runner gets one, and one only, through dying runners and auditors |

Besides these a run has one type invariant (`TypeOK`, `TradingTypeOK`, `ResearchTypeOK`). Several
properties name exceptions (`lost`, `outrun`, `losses`, `slips`, `unfilled`, `blind`, `excused`,
`review`, `Superseded`, `spoilt`, `again`, `taken`, `category`, `PassedOver`). The exceptions are
recorded by the actions where the code lets them happen; the property says that there are no others,
and the violated runs and the comments at the properties show that they are real. Two matter in
practice: `QueueDrains` and `ReadyIsDiscovered` let an older entry that never leaves its queue stop
the younger ones for good, and `MissingComesBack` is about the oldest missing slug only, and about a
slug that is found missing: the runner of a longer namesake hides one from `pgrep` altogether.

Fairness, and why the code justifies it:

* `PaperFill`: the event loop drains the command queue, and a subscribed market sends book messages as long as the node
  runs; without the second no IOC order would ever be looked at.
* `Lifecycle`: scripts end (they have timeouts), cron fires each queue again and again (strong: it may find every slot
  busy), and there are days that begin while no script runs, because the queues run at fixed hours of the ledger's
  UTC day.
* `Intake`: while scripts are under way one of them goes on (weak), and registration is scheduled
  again and again (strong: between its firings the row may be held by another script). Nobody is
  obliged to fill in texts, capture or rename.
* `PaperBook`: both jobs run every hour, so more than once between two midnights.
* `PaperOps`: the summary, the watcher and the auditor are scheduled for ever. The summary that is
  fair is one in which no script fails; faults are bounded. Each job's run leaves exactly one
  output, which the auditor's reading of "the latest output of the job" relies on.
* `HaltPath`: a process that is up makes its own next step; the operator, a failing node and a crash owe nothing.

No fairness is assumed of users, strategies, the venue or the watcher of `Lifecycle`.

## 5. Proofs

All constants are arbitrary, within the assumptions named in the modules. Every invariant and every
action property that a passing run checks is stated by a theorem, two of `PaperFill` under a
condition that its run meets; liveness is not.

* `PaperFillProofs`. `TypeCorrect` (every history is one of the five lives), `HeldUnlessLost` (`PendingIsAccepted`),
  `SweepComplete`, `IocOnTime` (if every IOC order has a price; `PaperFill_hl_market` shows that it is
  needed), `FillsAtTheBookIfCleared` (if every book message begins with CLEAR), and `Refines`: the initial state of
  `PaperFill` is one of `OrderLife` and every step maps to a step of it or to a stutter. The invariants are inductive
  together with the type invariant; the one fact about the sweep they need is that the sets of orders it
  fills and expires are disjoint subsets of `pending`, whichever of their events cannot be made (`EmitEach`).
* `CapGateProofs`. `CapGateTypeCorrect`; `NoFifthWay` (`CapHoldsUnlessOutrun`), which is not
  inductive as it stands, since an accepted order fills later: the strengthening says that while
  `outrun` is empty at most one order is accepted and that its fill would keep the cap. An order
  that `check_order` let through by raising, or on a reading that was too small, is either one that
  passes on what is held (`Verdict`) or makes `outrun` hold "unread". `RacesBounded`
  (`OvershootBounded`): exposure is the number of units deployed (`Counts`, which also shows that it
  is never negative), an open order owes one unit for each it may still add, and an order is
  `Covered` if it can only shrink a long position no other SELL shrinks first. While orders only
  race, each order that is not covered is within the cap (`Small`), and units deployed and owed are
  together within `MaxOpen` times the cap (`Reach`): a check adds at most what is left of the cap
  beside `MaxOpen - 1` others, a fill turns owed units into deployed ones.
* `BinaryArbProofs`. `NoThirdWay` (`SurvivorExplained`), `OnlyNakedStuck` (`StuckIsNaked`) and `SerialAttempts`
  (`OneAttemptAtATime`), from one invariant. None is inductive alone: `SurvivorInv` begins with the submit of the
  surviving leg, `LeaveInv` says how an attempt leaves `_active_arbs`, `FlagInv` that the flags of a remembered attempt
  are its fills, `HeldInv` that a remembered attempt has no cancelled leg beside one that is not filled.
* `LiveExecProofs`. `LiveTypes`; `WorkingKnown` (`WorkingIsKnown`) and `EndedGone` (`EndedIsGone`)
  from one invariant, since neither is inductive: `Requests` says what the requests in flight, the
  id map and the venue say of each other, `Silent` that no end is published before the venue ended
  the order or the client lost it, `Told` that a message naming an end is about an order that has
  ended. `FillsMatched` (`FillsMatch`) counts: the fills published about an order and the messages
  under way that will publish one are together at most as many as the channel names its match
  (`Counted`), and a match is published, under way or missed in one of the four ways its excuses
  name (`Reported`). The lemmas count the places of a sequence that hold an element of a set, as it
  grows and shrinks. `ShippedLivesOnly` is of the shipped wiring, which the Trading run does not
  have: without the user channel no fill is ever published, and an order has a paper order's life or
  one of four histories of a cancel handled before its id was known; in the one that ends with the
  acceptance the venue took an order whose cancel was never sent. Each of the nine histories
  determines how far the create and the cancel of its order are (`Course`), and every action takes
  an order from one to the next; without a channel nothing else publishes.
* `OperationsProofs`. `LifeTyped`; `NobodyResumesUnreviewed` (`NoResumeUnreviewed`): whatever state
  a job leaves its slug in, it is none in which a strategy trades or is about to (`JobStepIsMild`,
  from the verdicts each kind of job can reach), an agent's own move into one is either refused by
  the gate or recorded, and the slugs the watcher listed have rows. `BudgetOverrunBounded`
  (`BudgetBounded`): what running scripts owe counts as spent. `NeverTwoStarted`
  (`AuditorStartsOne`): the slug the auditor is about to start has no runner of its own making
  (`FoundIdle`), and from the look at the processes to the start of a runner nobody else adds one
  that counts; so neither lost marks nor dying auditors matter, only that the look and the start are
  of one pass.
* `TradingProofs`. Strategies: `BeliefTyped`, `BeliefStaysClose` (`BeliefIsClose`) and
  `FadeOverrunBounded` (`FadeOvershoot`), which are inductive with the types. What carries the first
  is that a decision `Fits` the side it is made on (an entry is made from flat, a flip from the
  other side), shown for each strategy's table; an order then moves the position by the change of
  the side but for one spread of sizes (`EntryIsNear`, `FlipIsNear`, `ExitIsNear`), by which the
  drift grows (`DriftGrows`). Feed: `FeedTypeCorrect`, `EveryTokenInScope` (`ScopeIsComplete`): the
  last subscription on its way names all tokens wanted, and a closed socket has nothing on its way.
  Halt: `HaltTypeCorrect`, `NoneSlipsIn` (`OldRunnersOnly`): a switch was built before the last halt
  if the flag stands, or its `read_flag` failed. `FlagSurvives` (`HaltOutlivesCrash`): between its
  file and its cancel-all a trigger has its flag or an excuse. `TradingTyped` (`TradingTypeOK`) and
  `TradingIsSafe` are of the whole: a run of `Trading` is a run of each component, whose steps are
  its own or stutter (`RunsOfEach`), so it has all their types and keeps all eleven safety
  properties of theirs.
* `DataProofs`. `WalksAreComplete` (`WalkComplete`): `CursorCovers` says that behind the cursor
  every row that was there when the walk began is read or lies just past the edge of a page,
  `ReadFinal` that what was closed was read closed; a page is the first rows of its slice, so a full
  page moves the cursor no further than it has read. `TradesAreComplete` (`TradesComplete`):
  `StillAhead` says that what a run has yet to find is further back in the server's list than its
  offset, although arrivals push the pages apart; that a run ends as "done" only after a page that
  was short, empty, or older than its window, never by a reply that is no list; and that, before the
  cursor is used, what it has yet to find is no newer than the oldest trade seen: that is why the
  change from offsets to a cursor loses nothing but what remains of the second it starts from and of
  the one before. The lemmas count the trades before a cursor. `HistoryTyped`, `IngestTyped` are the
  types.
  * Backtest: `BacktestTyped`, `SeriesAgree` (`SeriesIsTerminal`). What is conserved is the `Stake`:
    twice the profit of the pairs and the worth of the lots left. A fill that is matched with lots
    of the other token moves worth into profit, lot by lot (`MatchLegBalances`), and what it leaves
    joins the lots of its own; so the stake grows with every fill by the worth of that fill,
    whatever the order and the sizes, and at the end it is what the fills cost and pay
    (`ArbBalances`).
  * HlBacktest: `HlBacktestTyped`, `CoinsAreAdded` (`CoinsAddUp`). The account has a row for each
    fill, in the order of time (`RowsFollowFills`), the position is what was filled
    (`PositionIsFills`), funding is paid in slots that have begun (`RatesInWindow`), and a coin's
    result ends at its total (`ResultsEnd`). A flat position earns nothing after the account's last
    row, although funding events go on (`NoFundingAfter`); a curve held at its last value counts as
    the coin's total in the sum.
  * Both compute with folds, for which the prover has no induction. A fold is read through a running
    account, a function from the places of the sequence to what was computed up to there; that one
    exists (`RunExists`), and that the iterator by which the community modules define a fold follows
    it (`IterExists`, `IterIs`), is proved once, from the least place where it would fail: the
    library's theorem that a well-founded relation has minimal elements needs no operator parameter.
    Every invariant of a fold is then proved by such a least counterexample.
* `ResearchProofs`, in five parts.
  * CronCommit: `CcTypeCorrect`, `SuccessMeansCommitted` (`SuccessIsCommitted`, an action property):
    the files a job found are written, then staged, then committed, step by step, whichever job's
    commit took them.
  * Optimize: `OptTyped`, `ReadyRan` (`ReadyRanEverywhere`): folds are planned once and from the
    days there are (`Planned`), they follow one another by the arithmetic of `FoldsOf`, and a
    verdict is the last thing that happens (`VerdictIsLast`).
  * PaperBook: `BookTyped`, `SummaryIsCash` (`ReportedIsCash`), `HaltsAreEarned` (`HaltIsEarned`).
    The open signals of a log are all of one side (`OneSided`), and there is a running account `c`
    that begins with the profit of the pairs and ends with the cash (`Adds`): an opening signal
    makes it longer, a closing one takes its first entry. That replaces an induction over the log.
    For the halt: a row of the summary never shows less than the lowest profit its day has had, and
    a slug that is HALTED for another reason than the kill flag was so by such a row.
  * Intake, for any number of scripts, flat files and urls: `IntakeTyped` (`TypeInv`: with the
    types, what is in the queue and what a script is past its intake with has a row);
    `ReadySourcesHaveSpecs` (`SpecReadyHasSpec`) from `FileInv`: of a source nobody spoilt, a script
    that is about to give the row its folder gives it the one it has (`KnowsFolder`), and one that
    is about to make it ready has seen a filled spec that is still the row's (`KnowsSpec`), although
    both read before they write; `DiscoveredAreRegistered` (`DiscoveredIsRegistered`) and
    `ReferencesAreKept` (`RefsKept`), two action properties, from `RegInv`: `AddedFirst` (a script
    between its two commits has its hypothesis in the table) and `Once` (of a source that is not in
    `again` at most one script registers, none that has not added its hypothesis once there is one,
    and that source is DISCOVERED or about to be). `FileFrame` and `RegFrame` say what a step may do
    and keep both: most steps of scripts are `Quiet`, and one lemma (`QuietCarry`, `QuietBegin`) has
    them all; the eight that are not have a lemma each.

  * Research, of the whole: `ResearchTyped` (`ResearchTypeOK`), `ResearchIsSafe` (the eight safety
    invariants of its components) and `ResearchStepsAreSafe` (the three action properties), from the
    components' theorems as in `TradingProofs`.

What the proofs changed in the models. For several scripts at once the histories of `Intake` were
incomplete: two scripts that both read a source as not yet registered lose references that `again`
did not excuse, and a source may lose its hypothesis to another one of the same slug between its two
commits. `again` and `taken` now record both, where the code lets them happen. A script that renamed
a source no longer clears `spoilt` while another script renames it. The run has since had two slots
for scripts, so that TLC sees such overlaps too.

Only model-checked, and why:

* Liveness (`IocEventuallyClosed`, `QueueDrains`, `ReadyIsDiscovered`, `LossIsHalted`,
  `MissingComesBack`): beyond the prover used, like ENABLED.
* The type of `PaperOps` (`OpsTypeOK`) as a whole: which slug an output names is the first of a
  `SelectSeq`, of which the provers know nothing. What `AuditorStartsOne` needs of it is proved
  (`AuditorTyped`).

## 6. What is not modelled

* Quantities, commissions, identifiers, timestamps where no property depends on them; fills are all or nothing in the
  paper engine. Partial fills of the live path and of arbitrage legs; `_cancel_all_orders` of the live client.
* `register_pending` raising (the client logs a warning and keeps the accepted order). A submit that is still queued
  when the node stops is accepted and then held for ever: the model can do it; no property forbids it, because the
  process ends next.
* Caps as they are parsed and resolved (`parse_cap`, `for_slug`), the venue's equity (a chain of
  fallbacks over HTTP), and the shares of several processes, each of which resolves its own at
  another time.
* Position limits: two comparisons of one order with configured numbers, called by no current runner.
* The live half of the Hyperliquid client, the parsing and reconnects of its socket; gap detection, tick sizes and REST
  snapshots of the Polymarket one.
* The statistics: indicators, drawdown, Sharpe, PBO and deflated Sharpe, report layout; the engine of the backtests,
  which is NautilusTrader's. Cross-venue observers: one process that observes and sends nothing.
* Catalogs and Parquet, `fetch_historical_books`, market metadata: one process at a time, I/O.
* Agent tooling (checks of generated text, event logs, environment reports) and `source_capture`'s
  crawling: text and I/O. What a text says is one of none, todo and filled in `Intake`.
* `catalyst_trader`, `market_maker` (no order is placed), `hl_smoke` (one order, to test the wiring).
* `Intake`: inbox files without a `source_url` (the code makes a `local:` url of the name, which no
  other file shares); the sweep of the frontmatter after a rename, which is one step with it; the
  migration's first reading of all the files, so that each is migrated as it is when its turn comes;
  text, paper reports and captures that the migration moves along.
* `Lifecycle`: database errors of a transition in the watcher, which end its run. `WALK_FORWARD` is
  a name in the type: no code of the repository sets or reads that state. The budget says nothing of
  `hl_optimize.py`, which neither looks at it nor bills it.
* `Ingest`: trades without an asset and rows that do not parse, which the code drops one by one.
* `LiveExec`: what a fill's currency is when its event can be built.

Seen while modelling and left out of the properties:

* The live `_submit_order` sends the instrument's symbol as the token id (`execution.py:185`), and
  live orders have no time in force (`:186`): whether that is wrong is for the venue to say.
  `LiveExec` lets every live order rest.
* `.gitignore` hides `manual_inbox` and the captures, so the autocommit of the jobs that name these
  paths always fails and leaves the rest staged for another job's commit. `CronCommit` has it
  (`Ignored`); success is never reported, so no property breaks.
* The Hyperliquid runner builds no kill switch (`HaltPath`, kind `hl`), which `OldRunnersOnly`
  therefore does not speak of.
* Every process resolves its fair share of the venue's equity alone (`portfolio.py:380`), at another
  time and with another number of promoted slugs, so the shares can add up to more than the whole.
  That needs allocators of several processes over one equity; `CapGate` has the gate of one process,
  under any cap and under none.
* A price change in `generic_paper.py` clears the book before it sets its one level; fields of the
  backtest's configuration named `execution_*` are dropped on the way to the engine; a NaN in
  `hl_optimize.py` leaves the order of its sort open.

## 7. Plan

1. `BinaryArb` with `CapGate` in front of each leg: the two legs of an attempt race by construction.
2. Several processes over one equity: the shares of `for_slug` resolved at different times.
3. The Hyperliquid live client, once its fill handlers are written; partial fills of `LiveExec`.
