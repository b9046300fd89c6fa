# RegimeFox in TLA+

A verification project for RegimeFox: a bot that trades Solana tokens on its own, a web
dashboard that steers it, and an optimizer that proposes new parameter sets. The modules
here are translated from the Python source; TLC checks them on small instances and TLAPS
proves the central results for every instance. `PROJECT.json` maps each definition to the
lines it models.

## 1. The system

One host runs two long-lived processes on one SQLite database, in autocommit mode except
for a few explicit transactions:

| process | code | role |
|---|---|---|
| worker | `run_worker.py`, `solbot/engine.py` | one trading thread, `Engine.run`, plus threads for pulls, backtests and optimizer batches |
| dashboard | `wsgi.py`, `solbot/web/*` | gunicorn; reads the database, writes a few kv rows, queues commands |

They share the database (`kv`, `positions`, `trades`, `fills`, `commands`, `param_bundles`,
`events`) and one configuration file. The worker alone talks to the chain. An exclusive file
lock makes it a single process; systemd restarts it when it dies.

### Inventory

| component | state it keeps | operations | what makes it correct |
|---|---|---|---|
| Trading engine `solbot/engine.py` | in memory: instances, cycle, scan due times | `startup`, `tick` (`drain_commands`, `manage_positions`, `look_for_entries`, `housekeeping`), `_open`, `_close`, `_manual_close` | gates hold when an order is sent, one position per token and instance, cooldown, commands answered in order |
| Book `solbot/portfolio.py` | `positions`, `trades`, the balance per instance | `open_position`, `close_position`, `update_position`, queries | money is conserved, each position is settled once |
| Risk controls `solbot/risk.py` | kv: run state, kill switch, breaker, day anchor | engage/release, `record_trade_result`, `check_daily_drawdown`, `can_open_position`, `size_position` | the breaker counts the primary's own streak, switches are lifted by operators only |
| Recovery `solbot/recovery.py` | kv: reconciliation halt | `recover`, `_compare_wallet`, `_recompute_stops`, `clear_reconcile_halt` | a worker never comes up trading on a book the wallet does not back |
| Execution `solbot/execution.py`, `clients/` | none | `buy`, `sell`, `_swap`, `confirm` | a reported fill is a fill |
| Command queue `solbot/db.py` | `commands` | `enqueue_command`, `pending_commands`, `finish_command` | at least once, in order, answered |
| Dashboard control `solbot/web/routes.py` | none | `control`, `close_position` | the operator's last word wins |
| Shadow run and promotion `solbot/paramsync.py`, `daily_review.py` | `param_bundles`, kv: shadow overrides | `accept_bundle`, `install_shadow`, `evaluate_promotion`, `promote` | only a set that served its shadow run goes live |
| Configuration `solbot/config.py` | one JSON file, a copy per process | `update`, `load`, `maybe_reload` | no process runs with settings nobody was allowed to make |
| Exit rules `solbot/strategy.py` | the stop, high-water mark and counters of a position | `evaluate_exit`, `update_trailing_stop` | a stop never loosens, an exit condition met is acted on |
| Scanner, universe, safety `scanner.py`, `universe.py`, `safety.py` | hot list, pins, due times, last prices; the persisted universe; cached verdicts | `scan_broad`, `scan_hot`, `mark_interesting`, `refresh`, `check` | what is held is polled, what is bought was vetted |
| Rate limiter `ratelimit.py`, `clients/base.py` | a bucket per provider | `acquire`, `penalise`, `configure` | the provider's budget is kept, quotes do not wait for scans |
| Market data `datastore.py`, `candlestore.py`, `clients/binance.py` | a file per coin and month, a stop flag | full pull, daily pull, tick roll-up | candles once stored stay stored |
| RunPod batches `runpod.py`, `wfmc.py` | volumes and pods elsewhere, a counter of run ids | `launch_batch`, `wait_for_completion`, `verify_teardown` | "clean" means that nothing is billed on |
| Daily walk-forward run `wfmc.py`, `solopt/dataset.py` | the bundle directory, `optimizer_runs` | `run_daily`, `materialize_bundle`, `load_panel` | the run tests what the store has |
| Optimizer run `solopt/cli.py`, `walkforward.py`, `store.py`, `report.py`, `web/optimizer.py` | runs, windows and trades in the optimizer's database; what the dashboard was told | `cmd_run`, `record_window`, `push_*`, `ingest_*` | a run can be resumed, reports are true and made once |
| Optimizer engine `solopt/engine.py`, `frames.py`, `solbot/backtest.py` | arrays | `VectorEngine`, `Backtester`, `Frames.window` | engine and backtest agree; a search does not see its test |
| Regimes `solopt/regime_*.py`, `paramsync.py` | models and the library of parameter sets | regime pass, library upsert and pruning, the choice at an entry | a coin is traded on sets it has earned |

`PROJECT.json` lists every component, also those that are left out, with the reason.

### What is hard here

* two processes write the same kv rows, and a command repeats what the dashboard already did;
* the worker reads its switches once per tick and once per scan, and acts on them later;
* a swap and its record are two steps that a crash, a lock or a full disk can part;
* a command's effect and its answer are two steps as well: a restart handles it again;
* swaps end in more ways than their result tells: landed but refused, reported but never landed;
* instances are rebuilt by commands and promotions while the drain or the tick goes on;
* limits (daily cap, budget, cooldown, breaker) are counted from rows other steps write;
* threads of the worker (pulls, daily and monthly runs) share files, counters and flags without
  locks, and die with it at any statement;
* requests to providers, to RunPod and to the dashboard may be carried out and their answer lost;
* two engines compute the same trades in two orders, on arrays whose columns are not dates.

The full list is under `"hazards"`, each at the line where it bites with the properties that
cover it or the reason nothing does yet.

## 2. Modules

| module | what it is | from |
|---|---|---|
| `Portfolio` | positions, trades and cash as data, `OpenPosition` and `ClosePosition` as transactions | `portfolio.py` |
| `RiskControls` | run state, kill switch, breaker, halt, and the pre-trade gate | `risk.py`, `recovery.py` |
| `CommandQueue` | the queue's three operations | `db.py` |
| `Worker` | composes the three with the engine, the dashboard, the wallet, crashes and faults | `engine.py`, `recovery.py`, `execution.py`, `web/routes.py` |
| `Account` | the abstract specification: what a book promises its owner | - |
| `FoldProofs` | induction without an induction theorem: least sets, ranges, functions that recur over a range, sums, least and greatest members, rows of a table | - |
| `WorkerProofs` | the inductive invariant, types, order of commands, one position, cooldown, gates, late entries; then money, journal, caps, breaker, chain; the worker implements `Account` | - |
| `Promotion` | the life of a parameter set: accepted, in shadow, superseded or live; acceptors, the review, the operator and the worker | `paramsync.py`, `daily_review.py`, `engine.py` |
| `Trials` | the abstract specification of `Promotion`: the stages of a set | - |
| `PromotionProofs` | types, one set in shadow, what the shadow instance runs, what goes live, the rows implement `Trials` | - |
| `PositionExit` | one position's stop, trail, target, counter and the prices it is judged by | `strategy.py`, `engine.py`, `recovery.py`, `scanner.py` |
| `PositionExitProofs` | types, trails cover costs and leave room, nothing loosens, exits for a faded signal are earned | - |
| `Swap` | how one swap is sent, by bundle or `/execute`, confirmed, repeated and cut short | `execution.py`, `clients/jupiter.py`, `jito.py`, `solana_rpc.py` |
| `ConfigFile` | the settings file, the temporary beside it and the copy of each process | `config.py` |
| `RateLimiter` | one provider's bucket and the requests drawing on it | `ratelimit.py`, `clients/base.py` |
| `History` | candle files and the threads that merge into them | `datastore.py`, `candlestore.py`, `clients/binance.py` |
| `Scanning` | universe, hot list, cadences and cached safety verdicts | `universe.py`, `scanner.py`, `safety.py`, `engine.py` |
| `Batches` | retests and benchmarks on RunPod and their teardown | `runpod.py`, `wfmc.py` |
| `DailyRun` | the daily walk-forward run: its bundle directory, run id and row | `wfmc.py`, `solopt/dataset.py`, `engine.py` |
| `OptimizerRun` | an optimizer run from start over resumption to its reports, and their ingest | `solopt/cli.py`, `walkforward.py`, `store.py`, `report.py`, `web/optimizer.py` |
| `Simulation` | backtest and vectorised engine over the same bars | `backtest.py`, `solopt/engine.py` |
| `WalkForward` | windows over packed bars: what a search sees of its test | `solopt/frames.py`, `walkforward.py` |
| `Regimes` | regime models, the library, and the sets an entry is traded on | `solopt/store.py`, `cli.py`, `pipeline.py`, `paramsync.py`, `engine.py` |
| `SimulationProofs` | the engine makes the trades of the backtest; types | - |
| `ServiceProofs` | settings that cohere, teardowns that are true, verdicts from recorded windows, true reports; the bucket's budget, quotes before scans, the outcomes of a swap, what is watched and bought; their types | - |
| `DataProofs` | windows blind to their tests, sets earned, daily runs and pulls that mean what they report; their types | - |
| `ServicesTogether` | the components around the trading loop side by side keep their types, since each does | - |
| `MC_*` | instances for TLC | - |

### How `Worker` corresponds to the code

`pc` is the point of the tick, an action is what happens between two points where another
process can act or the worker can die:

| `pc` | next in the code | actions |
|---|---|---|
| `Down` | `Engine.startup`, `recovery.recover` | `Startup` |
| `Drain` | the query of `drain_commands` | `Drain` |
| `Command` | one iteration of its loop, or the rest of `tick` | `HandleControl`, `HandleSetShadow`, `HandleManualClose`, `BeginTick`; `CommandFails` |
| `Finish` | `finish_command` | `Finish`; `FinishError` |
| `Manage` | `_manage_instance` over its snapshot | `Exit`, `ManageNext` |
| `CloseDb`, `RiskDb` | `close_position`, then `record_trade_result` | `CloseDb`, `RiskDb`; `DbError` |
| `Gate` | the gate and the throttle of one instance's scan | `GatePass`, `GateRefuse`, `GateDone` |
| `Scan`, `OpenDb` | the loop over prices, `open_position` | `Enter`, `EndScan`, `OpenDb`; `DbError` |
| `Broad` | the broad tier's turn | `ServeBroad` |
| `Housekeeping` | `housekeeping`, `_check_promotion` | `Housekeeping` |

`Crash` is possible at every point, `Abort` (an exception that `Engine.run` survives) wherever
the engine reads or scans. The dashboard is `WebEnqueue` for requests that only queue,
`WebWriteKill` then `WebQueueKill` for the kill switch, which it writes itself first. `wallet`
is the chain. The variables `asked`, `late`, `resetAt`, `raisedAt`, `torn` are history: no
action reads them.

Abstractions: prices, candles, signals, safety and review verdicts only decide which allowed
step is taken, so that choice is free. Money is whole units, one token costs one unit, a sale
returns its cost plus a member of `Moves`; fees are part of that. `size_position` is any
member of `Sizes` inside the two hard caps (its other caps only narrow it). `SellAmount` keeps
the one thing about token scales the code gets wrong or right: the power of ten.

### How `Promotion` corresponds to the code

`Worker` treats `set_shadow` as a command that rebuilds instances and leaves open what a
promotion does. `Promotion` is the other half: it drops the trading and keeps every statement
of `install_shadow` and `promote`, because neither is a transaction and both run in more than
one place. `install[a].at` is the statement an acceptor (the worker's daily run or the ingest
request) has reached: `SetOverrides`, `Supersede`, `Mark`, `Queue`. `pc` is the worker's:
`Startup`, `Drain`, `HandleSetShadow` and `Finish` are the drain loop restricted to this
command, `Evaluate` is the part of `evaluate_promotion` that reads rows, and `Update`,
`MarkPromoted`, `Clear`, `QueueClear`, `Rebuild` are `promote` and the caller's rebuild.
`Review` and `SaveShadow` only queue. A set is a number; `shadow` and `live` are the copies the
worker's memory holds, `overrides` and `liveFile` the stored ones. Whether trades, drift and
the bootstrap favour a set is free.

`clash` is history. It names what has met so far: two installs, an install and a promotion, a
proposal without a bundle (`Review`, `SaveShadow`), a fault. Several properties hold only
without one of these, and say so; the hazards list names the line where each one bites.

`NextDay` assumes that an install, a promotion or a queued command does not outlast a day while
the worker runs (they take seconds; `shadow_min_days` is 15). Across a stop they may.

### How `PositionExit` corresponds to the code

`Worker` lets any open position be sold on any pass. `PositionExit` follows one position and
asks when it is. A tick is `Tick` (reload, switches), `Scan` or `ScanFails` (`scan_hot` writes
`last_prices`), one pass of `_manage_instance` (`Exit`, `Hold`, `NothingToManage`) and `Rest`
(an entry, the broad scan). A halted tick goes from `Tick` to the pass without a scan. `Exit` is
`evaluate_exit` and the sale, which may fail; `Hold` is the counter and `update_trailing_stop`,
written by `update_position` at once, so nothing is lost between them. `Startup` is
`_recompute_stops`, for the primary instance only. `candles` is the entry of `_candle_cache`:
what the first look in a bar found. `fading` and `fadedBars` are history: how many evaluations in
a row, and which bars, found the signal faded. Prices and distances are integers; indicators decide freely
whether a signal holds, has faded or cannot be judged.

### How the services correspond

The other eleven modules share no state with each other here. What joins them in the code is
small and stays inside one of them: the bundle directory is in `DailyRun`, the candle files in
`History`, the counter of run ids is in both modules that draw from it.

* `Swap` derives what `Worker` assumes of an order. A request is one action when it arrives and
  another when its answer is lost (`BundleUnanswered`, `ExecuteUnanswered`, `Unanswered`), and
  `HttpClient` repeats it up to `Sends` times. `ledger` is the chain: a signed
  transaction is flying until `Settle` lets it land, revert or expire. `doubts` remembers why an
  answer may be wrong; `SwapsAsAssumed` says that only then it is. `Interrupted` is the worker's
  death.
* `ConfigFile` has one action per system call of `_write` (open and truncate, write, rename, stat)
  because all processes use one temporary name: files are inodes, and a process writes to the
  one it opened, whatever it is called by then. Three settings stand for all: the mode, and a pair with a rule
  across it. `Loaded` falls back to the defaults as `load` does when a text cannot be parsed.
* `RateLimiter` counts in half tokens. Credit accrues when somebody asks (`Refilled`), as in the
  code; `Tick` lets no time pass while a waiting thread could be served, because the condition
  variable wakes it. The pause between attempts is left out: it only makes a thread ask later.
* `History` makes one action of each step of `_merge_month` (read, write the temporary, rename), and pages
  backward one request at a time. Candles are real, of a minute still forming, or rolled up
  from ticks. `StartPull` clears the stop flag of all pulls.
* `Scanning` is `Engine.tick` seen from the lists: refresh, hot scan, managing, broad scan,
  triage and entries in their order, with `time.monotonic` counted from the host's boot
  (`Uptime`), verdicts cached in the database and RugCheck answering, failing or being out.
* `Batches` follows a thread statement by statement over the calls to RunPod. Each may fail, or
  fail with its effect done (`Fault`). `NextBatch` is the loop of `run_monthly` and
  `run_regime_pass`, or of `benchmark_tiers`. `BatchSpec` has the run ids too, drawn in two steps.
* `DailyRun` writes the bundle file by file, in place, as `materialize_bundle` does; `LoadPanel`
  leaves out what cannot be read. A version number stands for a coin's history.
  `alone`, `missed` and `shares` are history: whether another run met this one in
  the directory, which routed coins it did not test, and whether its id was drawn twice.
* `OptimizerRun` has a process per `cmd_run` (nothing keeps two from using one store), a window
  at a time, then bundle, `finish_run` and status in the code's order, and a web thread per
  request with the statements of `ingest_run` apart. Outcomes of windows are free. The verdict
  is a function of the windows' results (`Accepts`, `Unfit`). In the code the crash replay also sizes
  its positions with an execution profile that each process fetches anew (`pipeline.py:123`,
  `cli.py:291`), which matters with `sizing_mode` "portfolio" only and is left out. A refused token
  ends a request at once (`TokenRejected`), a bundle of another schema is an error to its
  sender (`MalformedBundle`).
* `Simulation` gives both simulators the same bars, bar by bar (`PrintBars`), and computes their
  trades: `ManageAll` and `EnterAll` are the backtest's two passes over the bars of one time,
  `Backtest` what it returns if the data ends there; `Sweep` takes the engine's candidates time
  by time (`SweepAt`, `TakeAt`, `Take`), each `Followed` to its exit in rounds beforehand, whether
  or not it is taken. All recur as functions over times, tokens or bars. Prices, fees and sizes are integers, indicators come with the bar.
* `WalkForward` prints one bar a day, or none, per coin and keeps each coin's bars packed to
  the left, as `compact` does; windows, slices, eligibility and the bars a trade is followed
  through are operators over that.
* `Regimes` keeps models and library rows as the droplet and the optimizer store have them. A
  pass handles coin after coin (`DiscoverRegimes`, `PushModel`, `SearchRegime`, `PushEntry`); the daily run upserts its own sets;
  pruning reads and deletes apart. `Classify` and `Decide` are the two reads of an entry
  decision; `earned` is history: which coin, cluster and model a set was accepted for.

## 3. Runs

| run | instance | what it shows |
|---|---|---|
| `book` | live and paper, two tokens, three positions, one crash, one fault, no commands | `LedgerBalances`, `JournalMatchesBook`, `DeployedCapHolds`: the book through every order of entries, exits, failures and restarts; `BreakerSeesStreak`: the breaker counts the journal's streak; `BookFollowsChain` and `BackedAfterRecovery`: book and chain part only through a fault, and a restart notices; `EntriesPermitted`; `ImplementsAccount` |
| `commands` | four scenarios, fair, see below | `CommandsInOrder` and `CommandsAnswered`; `LateEntriesBounded` and `KillEventuallyHolds`, what the kill switch does promise; `SameMintCooldown`, and how far one scan can exceed the daily cap (`DailyCapOvershoot`) |
| `kill_resumes` | paper, kill and release | finding 1 |
| `sell_scale` | one token of eight decimals | finding 2 |
| `halt_cleared` | live, two crashes, one fault | finding 3 |
| `promotion` | two bundles, one review, two acceptors, two queued commands at most, two days, one crash, one fault | `OneInShadow`, `ShadowFollowsOverrides`, `ShadowIsNotLive`, `TrialIsRun`, `PromotedServed`, `ImplementsTrials` |
| `kill_late` | paper, two tokens, one engage | finding 6 |
| `review_live` | one bundle, one review, no faults | finding 4 |
| `exits` | four prices, two settings that may be swapped at any tick, a position with or without its own distance, two bars, one crash, one fault, fair | `StopNeverLoosens`, `TrailCoversCosts`, `TrailLeavesRoom`, `FadedEvaluationsCounted`, `ExitActedOn` |
| `halted_exits` | two prices, no faults | finding 5 |
| `faded_bar` | two prices, two bars, `invalidation_bars` 2, no faults | finding 7 |
| `services` | the eleven service modules, each on its own small instance | see below |

The `commands` run keeps to four scenarios, so that their state spaces add up (`InScenario` in
`MC_WorkerCommands`, the `CONSTRAINT` of its cfg: every state fits one of them): `commands`, all
eight commands, two at a time, one live position, one crash or fault; `kill`, three requests to
engage or release, scans of two tokens by the paper book, one crash or fault; `pace`, the paper
book with up to three positions in two tokens, the clock to 4 with days of 4 and a cooldown of 2;
`trial`, the same for a shadow run that begins, is dropped, promoted or started anew. The
constraint cuts off what the outside does, orders, faults and promotions, never the only step
the worker has nor `WebQueueKill`, so the fairness of `FairSpec` is not weakened by it.

The `services` run takes its modules one at a time: `focus` is chosen in the initial state, the
steps are those of that module, and everything else keeps its initial value. The components
share no state, so a product would show nothing more, and the state spaces add up instead of
multiplying. `ServicesTypeOK` holds the type invariants of the eleven.

| module | instance | what it shows, and under which condition |
|---|---|---|
| `Swap` | two swaps, each request sent twice at most, three lost answers or restarts | `SwapsAsAssumed`: the four outcomes `Worker` takes as given are all there are. One swap moves tokens once, over both routes and all repeats; it is wrongly "filled" only after a confirmation that timed out or an answer without a signature, wrongly "refused" only after a lost answer |
| `ConfigFile` | worker, one web process, the command line and an editor; two saves | `SettingsCohere`: no process runs with a pair of settings that breaks their rule, unless somebody edited the file so, nor with a value nobody was allowed to set |
| `RateLimiter` | one scan, one quote, two limits, one retry, penalties of 3, time to 6 | `BudgetHonoured`: the rate since the bucket was last emptied, halved during a penalty; `QuoteNotBehindScans`: a quote waits for the rate only, given a reserve of at least one call |
| `History` | one coin with a gap, two pulls, the daily catch-up and the roll-up, two starts, one death | `DoneMeansStored`: what a pull reported as done is stored for good, unless a page was given up, its stop was taken back, or two threads merged one month at once |
| `Scanning` | two coins, two books, a hot list of one, time to 3, two troubles | `PositionsWatched`: held tokens are polled before their positions are judged; `EntriesVetted`: nothing is bought that has been bad for as long as a pass is good for |
| `Batches` | a retest of two batches and a benchmark, two attempts per pod, one failing call | `CleanMeansGone`: a teardown reported clean left nothing, unless a question of that check went unanswered |
| `DailyRun` | two tokens, two candles, two days, two runs, one upset | `DailyRunsTestTheStore`: a run that had the directory to itself tests every recorded token with all its history; each day has its own run; a row shows its own run unless the id was drawn twice |
| `OptimizerRun` | two processes, two windows (few trades or none in the first only), one run, two starts, one retry, three mishaps | `VerdictFromRows`: a finished run has the verdict of its rows; `ReportsTrue`: the dashboard is told the truth, once. Both except where two processes were at one run, the last also except where a failed window was repeated after its bundle had gone out |
| `Simulation` | two tokens, five kinds of bar, four bars | `EnginesAgree`: same trades, same balance, unless the sweep refused a candidate for its correlation or used the capital of a position whose data had ended |
| `WalkForward` | two coins, six days, windows of two and one days | `SearchConfined`: no entry of a test is a bar its search saw, for the coin with the most bars; tests do not overlap; every entry has its warm-up |
| `Regimes` | two coins, one set, two models of two clusters, two accepted sets | `RegimeSetsEarned`: a coin is traded on sets accepted for it, for the cluster they stand for, and for the very model unless the coin was discovered twice |

Each condition names a way in which the code does not keep the plain statement; the hazards
list has the line.

`CHECK_DEADLOCK FALSE` everywhere: the bounds stop the environment, and a worker that has died
as often as `MaxCrashes` allows and waits at the end of the clock still ticks, so this only
silences bounded exploration.

Bounds. Two tokens make one scan take two candidates (one is enough to break a budget that is
not re-read, two to overrun a cap). Three positions are a re-entry next to another holding.
One crash and one fault reach each pair of writes; the findings about repeated commands need a
second crash. Three commands are a stale release, an engage and one more. The clock
reaches the next day, whose count starts again while a cooldown lasts.
In `promotion` two bundles make one trial replace another, two acceptors let installs and
promotions interleave, `MinDays` 1 and two days let a set serve and a second one follow it.

In `exits` the four prices lie below the stop, at the entry, above the arming price and well
above it; the settings differ in distance, cost and arming, so that a swap can pull the trail
either way; two bars reach the holding time and a recomputed candle cache.

In `services` each module has the smallest instance in which its interesting cases meet: two
writers of one file, two runs of one store, a full hot list, a month boundary between two
candles, a window whose columns hold another day, a second clustering of a coin. One mishap
stands for any single fault, three where a reply, a process and a second start must fail
together. Larger instances were explored while the modules were written; the ones kept
make the run a few minutes.

Fairness (`FairSpec`). `WF_vars(WorkerStep)`: `Engine.run` loops for ever and survives
exceptions, systemd restarts the process (`Restart=on-failure`; five failures in five minutes
stop it, so the assumption is for workers that die less often, and `MaxCrashes` is finite).
`WF_vars(WebQueueKill)`: a request the dashboard has begun ends. `WebDies` is the exception, a
fault after which the operator has no answer and the property claims nothing. `PositionExit` assumes only `WF_vars(WorkerStep)`,
and that the price API does not fail for ever (`MaxFaults` is finite). Nothing is assumed
of operators, crashes, faults or exceptions (`Abort` may recur for ever).

### Findings

1. `kill_resumes`. `README.md:178-179` promises of the kill switch that it "never
   auto-resumes". A release that waits in the queue while the operator engages the switch again
   is handled afterwards and lifts it. `KillEventuallyHolds` shows what is left of the promise:
   the engage the dashboard also queued restores it.
2. `sell_scale`. `_close` gives `sell` no decimals; `LiveExecutor.sell` assumes six. A token of
   eight decimals is recorded as closed with a hundredth of it sold. The next restart does halt
   (`BackedAfterRecovery` and its untracked balances).
3. `halt_cleared`. `README.md:455-456` promises that a restart never bypasses a triggered
   halt. A `clear_reconcile_halt` that was handled but not yet marked done when the worker died
   is handled again by the first tick of the restart that has just raised a new halt.
4. `review_live`. `README.md:364-365` says that nothing a review proposes is ever applied to
   live. A review's `set_shadow` replaces the overrides while a bundle's row stays in shadow;
   `evaluate_promotion` counts that row's days, and `promote` writes whatever the overrides
   hold, here the review's set. `TrialIsRun` and `PromotedServed` show that rows and overrides
   do agree as long as bundles are the only source and nothing meets.
5. `halted_exits`. The engine's comment at the halted branch of `tick` (`engine.py:249-250`)
   says positions are still managed and not abandoned. They are judged by `last_prices`, which
   only scans refresh and no halted tick scans: the market falls to the hard stop, the pass sees
   the price from before the halt. After a restart under a halt it sees none. `ExitActedOn`
   shows that exits are acted on while trading is on.
6. `kill_late`. `README.md:178-179` says that the kill switch "halts all new entries
   immediately", and what `engage_kill_switch` logs (`risk.py:65`) that "No new entries will be
   taken". The gate is asked once, before a scan's candidates (`engine.py:335`): an engage that
   comes while they are being bought stops none of those left. `LateEntriesBounded` states what
   is left of the promise, one scan's candidates at most.
7. `faded_bar`. `config.py:166` says "bars of failed signal before exit", `engine.py:806-807`
   "'signal has been failing for N bars'", and `test_strategy.py:214-215` "One bad bar is noise;
   the configured number in a row is a real exit." `evaluate_exit` counts one up whenever it is
   asked, and a tick asks every few seconds about the same candles: one faded bar looked at
   twice closes a position of two bars' patience. The backtest asks once per bar
   (`backtest.py:300`), so the two differ. `FadedEvaluationsCounted` states what is counted.

Further differences show in the models and have no run of their own:

* `README.md:136-137` and `config.py:272-275` call the daily cap a hard brake. It is asked once
  per scan as well, and a scan may open several positions: `DailyCapOvershoot` states by how much
  a day may exceed it;
* a restart recomputes the trail with the configured distance where the review gate gave the
  position its own (`TrailLeavesRoom` holds for the latter only until a restart);
* `solopt/walkforward.py:3-4` and `docs/OPTIMIZER.md:137` say that a test is blind to its search.
  `Frames.window` takes columns over all coins, and a coin with fewer bars gets bars of the test's
  days, and later ones, into its in-sample slice (`frames.py:104`). `SearchConfined` claims
  blindness for the coin with the most bars only;
* `test_vector_parity.py` has the engine reproduce the backtester trade for trade; where a hold may
  outlast 2048 bars (`max_hold_minutes` goes up to a week, so on candles below five minutes) the
  engine ends it at its horizon (`solopt/engine.py:79`), the backtester does not. `EnginesAgree`
  assumes a shorter hold;
* `next_run_id` calls its ids unique across every daily run and RunPod batch; its read
  and its write are two steps, and two threads can draw one id;
* `run_daily` passes `resume=True`, but starts a new run each time (`wfmc.py:258`), so nothing
  is ever resumed; a resumed `cmd_run` may flip a verdict whose bundle was already delivered.

## 4. Proofs

Every safety invariant and action property of the passing runs has a theorem, for all values of
the constants. The assumptions are those the modules name
(`StartBalanceAssumption`, `MintsAssumption`, `CircuitLossesAssumption`, `WorkerAssumption`,
`PromotionAssumption`, `ExitAssumption`, and one per service module, `ConfigAssumption` to
`SwapAssumption`), all about the constants; TLC evaluates them in each run. One theorem has a
hypothesis of its own: `ChainFollowed` assumes `SixDecimals`, that every token has the six
decimals `LiveExecutor.sell` takes for granted. The other case is finding 2.

### The worker

The inductive invariant `IInv == TypeOK /\ TurnInv /\ SnapshotInv /\ SwapInv` says what each
point of the tick relies on although nothing at that point checks it: the instance being served
exists in a list that commands rebuild (`TurnInv`); the rows left in the snapshot are still open
and the one being sold has left it (`SnapshotInv`); a fill that waits to be recorded closes an
open row of its own instance, or opens one in a token the instance is flat in and not cooling off
from (`SwapInv`). `TypeOK` alone is not inductive: `CloseDb` indexes `positions` with an id that
only `SwapInv` knows to be a row. `WorkerProofs` proves one lemma per action that `IInv` is
kept, and with it `TypeCorrect`, and then

* `InOrder` (`CommandsInOrder`), with `QueueInv`: the drained snapshot is the oldest pending
  commands, so nothing younger is answered first, also when the worker queues commands itself;
* `OnePosition` (`OneOpenPerMint`) and `Cooldown` (`SameMintCooldown`), from `SwapInv`: what the
  scan checked before the swap still holds when the fill is recorded;
* `Permitted` (`EntriesPermitted`), with `PermitInv`: where the tick may lead to an order,
  trading is enabled and the breaker closed - only the kill switch can change behind its back;
* `LateBound` (`LateEntriesBounded`): by cardinality of the candidates left.

Then the properties of the book, each with the strengthening of `IInv` it needs:

* `Conservation` (`LedgerBalances`). Stakes and results are sums over rows; `FoldProofs` says how
  such a sum changes when one row is added, leaves the set or changes. A close takes a stake out of
  one sum and puts the result into the other in one transaction, which only works because
  `SwapInv` knows that the row was open and its instance's.
* `JournalOnce` (`JournalMatchesBook`), with `JournalInv`: no trade is journalled for a position
  that is still to be opened. Ids grow with the table, so a stray row would be counted later.
* `CapHolds` (`DeployedCapHolds`), with `CapInv`: an order that waits to be recorded is within the
  caps it was sized by, because nothing else can open a position in between.
* `DayCap` (`DailyCapOvershoot`), with `DayInv`: entries of the day and what the scan in progress
  may still enter (`StillToEnter`) stay below the cap and one scan's tokens together.
* `StreakSeen` (`BreakerSeesStreak`), with `BreakerInv`: any run of losses up to the latest trade
  the breaker was told of is at most its counter. The property counts back from the newest trade;
  the invariant quantifies over all such runs, so that one more trade lengthens or ends each of them.
* `ChainFollowed` (`BookFollowsChain`), with `ChainInv`: at every point of the tick, not only
  between ticks, the wallet is what the book says but for the one fill that waits.
* `Backed` (`BackedAfterRecovery`, an action property), with `StakeInv`: no row holds nothing, so
  that a token which backs no row cannot be taken for one that backs an empty row.
* `Implementation` (`ImplementsAccount`): each step places one stake, settles one stake or changes
  neither stakes nor cash.

### Parameter sets and exits

`PromotionProofs` proves, for any number of sets and both acceptors, `TypeCorrect`, `OneTrial`
(`OneInShadow`) and `Implementation` (`ImplementsTrials`). The strengthening is ownership: an
install that has not marked its row has a pending row of its own (`InstallInv`: nobody else
supersedes, promotes or prunes a pending row), and where a row is about to be marked no other
is in shadow (`MarkInv`). `RowWriters` says which steps can disturb either. On top of these

* `ShadowFollowed` (`ShadowFollowsOverrides`), with `SettledInv`: what is quiet at the end of
  the queue is not inductive; inductive is that once the *last* command has had its effect,
  overrides and instance are what it says, unless somebody has written and not queued yet.
* `TrialRuns` (`TrialIsRun`), with `TrialInv`: the last command names the row in shadow, but for
  the install or promotion that is about to queue the next one.
* `ServedFirst` (`PromotedServed`), with `LatestInv`, `TodayInv` and `ServedInv`: a set that
  was queued after the snapshot was taken was marked today, so it cannot have served; what
  `Evaluate` saw in shadow is the last bundle queued, which is what `promote` then writes.
* `ShadowDiffers` (`ShadowIsNotLive`), with `LiveInv`: a live bundle is promoted, for good, and the
  last command does not name it.

The proof of the last one corrected the property. As it was, it allowed two installs at once, and
with one more command than the run has it is false: of two installs that met, the superseded set
can go live, be pruned, arrive once more, and be tried while it is live. The property now
excludes every encounter but a proposal, and says why.

`PositionExitProofs` proves `TypeCorrect`, `CostsCovered` (`TrailCoversCosts`) and
`NeverLoosens` (`StopNeverLoosens`) for all prices, settings, ranges and restarts. `EInv` adds
that nothing is charged before the trail is armed; `TrailLemma` says what `update_trailing_stop`
does to any row, `LevelLemma` what that means for a position that is kept, and `NeverLoosens` is
an action property proved from the same invariant. `RoomLeft` (`TrailLeavesRoom`) says where a
trail can come from when it is not the floor that costs demand. `Earned` (`FadedEvaluationsCounted`)
rests on `HeldInv`: the counter in the row never exceeds the evaluations in a row that found the
signal faded; a failed write loses counts and never adds any.

### Clients, services, data

`ServiceProofs` is about what the clients of other services promise:

* `RateTypeCorrect`, `Budget` (`BudgetHonoured`) and `QuotesFirst` (`QuoteNotBehindScans`).
  The limit is on what was granted; inductive is that what was granted *and* what is still in the
  bucket stay within the rate up to the last refill (`CreditInv`), since a refill adds what time
  earned and a grant only moves it. `QuoteInv` says what waits for a quote has earned half the
  rate, whatever scans drew, because scans leave the reserve.
* `SwapOutcomes` (`SwapsAsAssumed`). A swap signs one transaction, at the end of the ledger
  (`OneSigned`); until a request was lost or answered it is not on its way (`SwapNotSent`);
  `Returned` is the one lemma in which an answer meets the fate of the transaction.
* `Watched` (`PositionsWatched`) and `Vetted` (`EntriesVetted`, an action property).
  `VettedInv` bounds each cached pass by the time the token was last clean, not by the time the
  verdict was asked for: that is what survives the token going bad.

and about the worker's own services and the optimizer:

* `Coherent` (`SettingsCohere`). That processes hold legal settings is not inductive, since they
  read whatever is in the file; `CoherentInv` asks the same of every text of every file, the
  temporary and the renamed-away included, and of the defaults a torn text is replaced by.
* `CleanIsGone` (`CleanMeansGone`). `InSequence` keeps batches in launch order on volumes that
  exist, `Unjudged` says that nothing is created any more for a batch that has a verdict, and
  `Teardown` what each of the two loops of `verify_teardown` has established of the jobs behind it.
* `Verdict` (`VerdictFromRows`). A run not shared has one process (`OneProcess`), whose memory
  agrees with the store on every window it has not still to test (`MemoryMatches`); both are
  needed, because the verdict is taken from memory and the property speaks of the rows.
* `Reported` (`ReportsTrue`), with `ReportInv`: what a request, queued, on its way, half handled or
  answered late, says of a run is what the store said when it was sent and still says. Requests
  of processes that have gone are the hard part: they go on without a client (`Freed`).

`DataProofs` is about the data parameters are searched on and stored in:

* `Unseen` (`SearchConfined`), with `PackedInv`: each coin's bars are packed to the left in the
  order they were printed. Columns are then counts of bars, and of the coin with the most bars
  the columns of a window are days of that window (`SeenIsPast`); `StepsApart` keeps tests apart.
* `SetsEarned` (`RegimeSetsEarned`), with `RegimeInv`: every library row and every model on
  record, whoever upserted, pruned or duplicated it, is one that was accepted for its coin
  (`EarnedInv`, `ModelInv`), and what a pass has in hand will be when it is pushed (`PassInv`).
* `StoreIsTested` (`DailyRunsTestTheStore`), with `DaysInv` (each scheduled run has its day),
  `DirectoryInv` (what a run that is alone has written stays whole, and what it has still to
  write is still listed, `Kept`) and `IdsInv` (a run that has a row has written the counter past it).
* `DoneIsStored` (`DoneMeansStored`). Nothing in the code keeps two threads from merging one
  month; `MergeInv` says what a thread relies on as long as none does: it merges alone, its
  copy has all that is in the file, and its temporary has all of its copy. So the store only
  grows. `PullInv` says what a pull still owes: coins done with are covered, the coin being
  merged is covered by store and memory together, and while it pages it holds all from the
  cursor on (`PagedBack`). That it pages until there is no more rests on the assumption that
  trade never stopped for as long as a page of candles.

`ServicesTypeCorrect` (`ServicesTypeOK`) is the type correctness of all eleven components at once, for
the composition that `MC_Services` runs. Whatever component moves, the others stand still
(`StepsOfOne`), so that the composition behaves as each component's specification
(`ComponentsRun`) and the eleven theorems apply. Most of them follow from the inductive invariants
above or go the same way; four needed more than the types:

* `ConfigTypeCorrect`: a process runs with legal values whatever text is in the file, because a text
  is judged before it is taken.
* `ScanningTypeCorrect` needs `VettedInv`, for what is held and then pinned, and follows the prices of
  a scan through the two levels of flattening by which `Each` lists books and tokens (`FlattenTyped`).
* `DailyTypeCorrect`, with `CounterInv`: the counter is at most the number of runs that have
  written it. By the runs that have begun alone it is not inductive: an id drawn and not yet written
  may be one past the counter, and two runs may have drawn the same.
* `SimulationTypeCorrect`: that no trade leaves before it entered takes `Timely`, of each open
  position, through both passes of the backtest over the tokens, recursion over a range again.

### The two simulators

`SimulationProofs` proves `EnginesTradeAlike` (`EnginesAgree`): for any tokens, bars, exit rules,
costs, caps and length of the data, the engine's sweep makes the trades of the backtest and
ends with its balance, but for the two exceptions the property names. The property compares two
values computed from the panel, and the hard part is that they are computed in different orders:
the engine knows each candidate's exit before it decides whether to enter, credits it lazily, when
a later candidate looks at its capital, and has already booked trades that have yet to happen.

The state of the backtest alone is not inductive: nothing in it says how it came about, while the
sweep starts from the first bar again at every length of the data. `SimulationIInv` says that there is
a past, a sequence of books from the first to the present one, each obtained from the one before by
the two passes over the rows the panel has for that time (`Past`). Along that past `Agree` relates
each book to the sweep after the same time: its live positions are the held ones, one to a token;
its balance, plus what positions that have ended but have not been looked at brought, is the cash;
its trades are the backtest's and those its live positions will yet make (`Pending`). The lemmas
follow the backtest's order:

* `RoundMatches` and what it rests on: `Match` relates a held position to a candidate that has been
  followed as far, field by field (stop, trail, high, count). One bar takes both out at the same price
  or neither, and keeps the match; `TrackedStays`, `TrackMoves` and `TrackWaits` lift that to a
  token that stays in, leaves or has no bar at this time, `TrackOpens` to an entry.
* `ManageAgrees`: pass one of the backtest is, for the sweep, only the passing of time. The cash that
  comes in at once on one side is the sum over the positions that cease to be live on the other
  (`SumReindex`, by the bijection of tokens and positions).
* `ReleasedStillAgrees` and `EnterAgrees`: one token's turn in pass two is one candidate of the sweep.
  Released capital makes both wallets equal, so caps and sizes are; `early` and `refused` are the
  cases in which they are not.
* `EndAgrees`: at the end of the data both sell what is left at the last price.

The assumptions are `SimulationAssumption`: positive prices with the low no higher than the close,
a positive liquidity, and holds that end within the engine's horizon.

### What the proofs changed

Proof attempts that failed found models that were wrong or bounds that hid something:

* `ShadowIsNotLive`, as told above; `MinDays` is at least 1, as in `config.py` (with 0 nothing is
  claimed of what goes live).
* `DailyRun`: a run that dies before it has written the counter has no id. The model kept the one it
  had read, and with four runs `DailyRunsTestTheStore` failed for a reason the code does not have.
* `History`: a pull keeps the minute it began at when the worker dies, so that `DoneMeansStored` still
  speaks of it afterwards; time has at least one minute, and there is a coin to pull (without one
  nothing is ever stored).
* `Regimes`: a pass has at least one coin, and `OptimizerRun`'s "nobody" is no process.
* `DailyRun`, `Scanning`: the assumptions give the bounds their types and keep the uptime within the
  time modelled; `ConfigFile` dates a write after every other by the greatest stamp there is.
* `Simulation`: what was folded over sequences is a function that recurs over a range, and the
  assumption gives every constant its type.

### Sums, least and greatest

Theorems of the library that state induction take the property as a parameter and cannot be cited
here. The induction that sums, ranges and recursive functions need, and the least and greatest
member of a finite set, is done in `FoldProofs` as a well-founded argument instead: the
family of counterexamples among the subsets of a finite set has a least member (`WFMin` on the
strict-subset ordering), which one step refutes. `RangeInduction` gives that the form in which it
is used most: a set that holds the first number of a range, and the successor of each it holds,
holds them all. A sum (`SumFunction`) is what it was before one member was added, plus that member
(`SumAdd`), and does not change under a bijection (`SumReindex`).

### Model-checked only

* Liveness, which the provers do not do: `KillEventuallyHolds`, `CommandsAnswered`, `ExitActedOn`.
* The counterexamples to what the code's comments say, each found by a run of its own.

Every safety invariant and every safety action property of the passing runs is a theorem.
`OneOpenPerMint` and the types of `Worker`, `Promotion` and `PositionExit` are proved too; no run
repeats them.

## 5. Not modelled, and the plan

Left out, with the reason:

* Entry signal, indicators, entry review, drift, Monte Carlo, clustering and array backends:
  floating point arithmetic without state of its own. Where control depends on it (is there a signal,
  is a window profitable, what does a review say), the outcome is a free choice.
* Login, sessions, secrets, the read-only API, exports, pages: outside what this project asks.
* The process lock: one `flock`, assumed (one worker).
* Fees and the SOL balance in `Worker` (`portfolio.py:205` subtracts a fee that USDC received
  already lacks; `engine.py:387` passes no SOL balance), the anchor of the day's drawdown
  (`risk.py:151`), and whether a shadow instance's positions should survive it (`engine.py:1126`).
* `settings.trading_mode` reloaded under instances built for another mode (`engine.py:241`).
* `daily_review.py` beyond what it queues, `bulk_backfill` and `run_initial_pull` (the full pull
  has replaced them), the search over timeframes of `cmd_run`.

Next, in this order: the day's anchor over restarts and instances; the daily review's
`evaluate` with its overrides; the engine's horizon and its two exceptions as runs of their own.
