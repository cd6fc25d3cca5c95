# Verification of FUTURES_V2

TLA+ models of FUTURES_V2, a Python trading runtime for futures: what a tick of the daemon does
with decisions, orders, fills, expiries, contract rolls and errors, over a simulated and over a live
broker; how the live feed's threads start, race and end; what the strategies ask for and which of
their decisions reach the executor; the files that daemon sessions, an operator and a sandbox
share across crashes and restarts; and a whole plan run, from the plan file it loads to the manifest
it leaves, with the money of the portfolio and the risk limits weighed against it.
TLC checks the models on small instances; TLAPS proves every safety property they check for every
configuration, three of them under a condition the code needs, the margin limit for feeds whose price
stands still within a tick, and one under a condition of exact arithmetic (section 6).

## 1. Inventory

One Python thread runs `run_loop` (`app/orchestration/daemon_runner.py`), which calls
`UniverseRuntime.run_tick` (`app/universe_runtime.py`) until `max_ticks`. A tick has five parts,
always in this order:

1. `Runtime.poll_order_lifecycle`: expire old pending orders (and cancel them at the broker),
   poll the broker, record each update and apply complete fills to the portfolio;
2. quotes, strategies, Top-N selection, `route`: at most one decision per symbol;
3. `Runtime.run(decision)` per symbol: trading hours, roll policy, contract resolution, guards,
   broker submission, recording;
4. stop-loss/take-profit exits per position;
5. the market adapter's and the universe's tick advance.

| Component | State it keeps | Operations | Interacts with | Hard because | Correct when |
|---|---|---|---|---|---|
| Simulated broker (`adapters/broker/simulated_broker.py`, `order/`, `fill/`) | order ledger (`OrderTracker.records`), book of waiting orders (`_pending`), partial steps, tick, one-shot rejection | `submit_order`, `poll_order_updates`, `cancel_order` | called by the runtime | partial steps, expiry, completion and cancel compete for an order; ledger and book are updated in different branches | book = working part of the ledger; quantities conserved; an ended order never moves |
| Order runtime (`app/runtime.py`) | `_pending_order_contexts`, order keys of the tick, rejection window and halt, last order tick, roll cooldown, `_tick` (one per snapshot) | `run`, `record_broker_result`, `poll_order_lifecycle` | broker, state engine, resolver, datastore | contexts and the broker's book are two views of one set of orders; two clocks; exceptions leave a tick half done | no order without a context, one final event per order, guards hold over any history |
| Universe tick (`app/universe_runtime.py`) | `_tick`, quote history, active set | `run_tick` | executor, router, strategies, market data | the active set may be stale; exits bypass the guards | one decision per symbol and tick |
| Run loop (`daemon_runner.py`) | loop tick | `run_loop` | universe tick, artifact writers | an exception is swallowed and the same universe tick runs again | nothing is done twice |
| Portfolio state (`core/state`) | positions, cash | `StateEngine.apply` | runtime | raises after the broker has filled | positions are the fills |
| Instruments (`core/instruments`) | active contract per symbol | `resolve`, `roll_intent`, `activate_roll` | runtime | a roll takes several decisions, fills arrive between them | no position is left in an old contract |
| Risk limits (`core/risk`) | none | `reject_reason` | runtime | reads positions, not pending orders | a symbol stays within its maximum |
| Exit service (`core/services/trade`) | none | `create_exit_order` | universe tick | submits the whole position every tick | an exit never exceeds the position |
| Trigger, portfolio and execution engines, metrics, cost model | accrued costs | decision to candidate to order; equity, margin, unrealized profit | runtime | the figures are refreshed on every snapshot, the order is filled at another price | only executable decisions become orders; the figures account for every fill |
| Router, strategy set, strategies | indicator windows, a flat/long/short belief per symbol | `generate`, `route` | universe tick | a refused order is not fed back to the strategy | one winner per symbol, independent of input order |
| Live broker (`tqkq_live_broker.py`) | order ledger mirrored from a native API; an API borrowed from the feed | submit, poll, cancel, close | market API, feed | cancellation is asynchronous; fills arrive late; the API says little | as the order book; nothing works unseen |
| Market data (`adapters/marketdata`) | latest quotes, raw volumes | background thread, warmup, close | market API, broker | two threads poll the same cache | a volume delta is published once, but for volumes that went missing |
| Datastore (`adapters/storage`) | event files, snapshot files, index | append, save, load | runtime, tools | crash between snapshot and index, restart at tick 0 | the index names complete snapshots |
| Session builder, config loader | none | validate, derive the runtime mode, construct | everything | loader, builder and broker each check a part; modes are derived from each other | no unconfirmed plan sends real orders |
| Plan orchestrator, promotion gate | event logs, snapshots, summary, decision, approved and manifest files | clean, live, sandbox, gate, write | files | runs are killed and started again on append-only stores and files named by the second | a run is judged by its own events and its manifest names its own files |
| Strategy switch | proposal and approval files | propose, approve, start | files | sessions and an operator share files | a session runs with what was approved |
| Research, tools, web | none | read stored events | datastore | - | read-only |

## 2. Plan

Order of work, most important behaviour first:

1. `SimulatedBroker`, with `BrokerCaller` (any caller) and `OrderBook` (what a broker promises). *Done.*
2. `StateEngine` and `Runtime`: whole ticks over the simulated broker; `RuntimeProperties`. *Done.*
3. Proofs about the broker and the runtime: `RuntimeProofs`, with `Sums`. *Done for the theorems of section 6.*
4. `LiveBroker` and `LiveOrderPath`: the live broker over an API that moves at any time. *Done.*
5. `MarketFeed`: the feed's threads, warmup and close, and the API the live broker borrows. *Done.*
6. `Strategies`: the volume strategies' windows, warm-up and beliefs. *Done.*
7. `Universe`: ranking, filtering, routing and trading hours of a tick. *Done.*
8. `Artifacts`, `ArtifactsProofs`: proposal, approval, sessions, snapshots, crash and restart. *Done.*
9. `RunPlan`, `Account`, `Orchestration`, `OrchestrationProofs`: what `load_plan` accepts, the money of
   the portfolio, a plan run over a plan file and killed at any step. *Done.*
10. Liveness of the order path: a roll eventually activates, an order eventually ends. With `fill_delay_ticks >= 2`
   the code cancels and resubmits the roll close on every decision (`runtime.py:237`), so this
   needs relative time and a fairness assumption on the loop only.
11. Proofs about the other components: `LiveOrderProofs`, `FeedProofs`, `StrategiesProofs`,
   `UniverseProofs`, more of `ArtifactsProofs` and `OrchestrationProofs`. *Done; liveness stays with TLC.*
12. Trading calendar arithmetic (sessions over midnight), the file feed, the console's projections.

Abstract specifications worth stating: `OrderBook` (done); the portfolio as a fold of fills; a
feed that delivers each volume unit once, as long as no volume goes missing.

## 3. Modules

| Module | Models | Correspondence |
|---|---|---|
| `OrderBook` | what a broker promises | abstract: phase, size and executed quantity per order id |
| `SimulatedBroker` | `simulated_broker.py`, `order_tracker.py`, `rejection_policy.py`, `fill_quantity_model.py` | `orders`, `status`, `filled` are the tracker's records; `book`, `submitTick`, `steps` are `_pending`; `brokerTick` is `_tick`. `SubmitOrder`, `PollOrderUpdates`, `CancelOrders` are the three calls |
| `BrokerCaller` | any caller of the broker | submits any order, cancels any issued id, polls a tick again or the next one: the environment of the broker's proofs, and the home of the properties the runtime's runs check too |
| `StateEngine` | `core/state` | which key a fill changes, by how much, and when it raises |
| `Runtime` | `runtime.py`, `universe_runtime.py`, `run_loop`, `roll_policy.py`, `symbol_position_limit.py`, exits | `pc` is the part of the tick that runs; each variable is the attribute its comment names |
| `RuntimeProperties` | - | type invariant and safety properties |
| `LiveBroker` | `tqkq_live_broker.py`, and the API behind it as the broker sees it | `tracked`, `status`, `lastFilled` are `_orders` and the tracker's records; `apiOpen`, `traded` are the native order; `SubmitLive`, `ReadOrder`, `AskCancel` are submit, the poll of one order and the cancel |
| `LiveOrderPath` | what `runtime.py` and `run_loop` do around the live broker | each action is a step of the tick; the API may act between any two |
| `MarketFeed` | `tqkq_market_data.py`, the end of a session in `session_builder.py` and `daemon_runner.py`, the API that the live broker takes over | `at` is the statement each thread is about to run; `lastRaw` and `latest` are `_last_raw_volume` and `_latest`; `mdApi`, `mdThread`, `brokerApi` tell which references are set |
| `Strategies` | `strategies/volume`, `parametrized_strategy.py`, `strategy_set.py`, the contract check of `execution_engine.py` | `series` and `position` are `_state` and `_position`; `Generate` is one symbol's turn in `StrategySet.generate` and the execution of the enabled strategy's answer |
| `Universe` | `universe_runtime.py` (ranking, filtering), `router.py`, the trading-hours check of `Runtime.run` | `active`, `scores`, `excluded` are `_active_symbols`, `_last_scores`, `_last_excluded_symbols`; `RunTick` is a tick up to what the executor takes |
| `Artifacts` | `strategy_switch.py`, `daemon_artifacts.py`, `run_cleanup.py`, `approve_switch.py`, `datastore_fs.py`, the start of `run_daemon.py` and `session_builder.py`, `runtime_factory.py` | one variable per file; `pc` is the step of the daemon, `approving` that of the operator, `reader` that of the sandbox |
| `RunPlan` | `config/loader.py`, `config/defaults.py`, the refusals of `session_builder.py` and of the two brokers' constructors | a plan file is a function from the keys it has; `ValidX` and `XSection` are the two things `load_plan` does with a section, `Accepted` is "no section raises", `Loaded` is the `RunPlan` |
| `Account` | `position_lifecycle.py`, `capital_model.py`, `cost_model.py`, `portfolio_metrics.py`, `portfolio_risk_limits.py`, `symbol_position_limit.py`, the trigger and execution checks | `acc.qty`, `avg`, `pnl` per position key, `cash` and `cost` of the portfolio |
| `Orchestration` | `run_plan_orchestrator.py`, `run_plan.py`, `run_local.py`, `run_cleanup.py`, `runtime_factory.py`, `datastore_replay.py`, `optimize/promoter`, and `Runtime.run` for one symbol with its money | `pc` is the step of the process, `desk` the memory of the session that runs; `log`, `snap`, `files` are the directories that outlive it |
| `MCRuntime`, `MCStrategies`, `MCUniverse`, `MCArtifacts`, `MCOrchestration` | - | values TLC needs |
| `Sums` | - | lemmas on sums over finite sets (one value changed, none grown, a common factor, zeros left out), greatest and least values, maxima of indices and induction over them |
| `RuntimeProofs` | - | theorems of the simulated broker, of the runtime, of its guards and of its books (section 6) |
| `LiveOrderProofs`, `FeedProofs`, `StrategiesProofs`, `UniverseProofs`, `ArtifactsProofs`, `OrchestrationProofs` | - | theorems of the module each is named for (section 6) |

Abstractions of `Runtime`, all of them named in its comments:

- Prices, PnL, costs and exact cash are left out. What they decide is nondeterministic: whether an
  exit triggers, whether a portfolio risk limit refuses (`RiskLimited`), whether a buy raises
  `insufficient_cash` (`CashLimited`).
- Strategies, selection and routing are nondeterministic: any symbol may get any decision, or none,
  once per tick. The code serves symbols and poll updates in sorted order; the model in any order,
  which contains the code's.
- `ClosesForced` are the symbols for which a strategy of the plan has `force_decision: "CLOSE"`. Such a CLOSE
  keeps the BUY/LONG or SELL/SHORT of the opinion, so it passes the execution engine and the broker opens a
  position for it; the roll cooldown, which asks for OPEN_LONG and OPEN_SHORT, lets it pass
  (`CooldownBlocks`). Any other CLOSE has the side FLAT and places no order (`NoOrderPlaced`).
- The bar number given to the roll policy is the universe's tick, as the simulated adapter makes it.
- A quantity is a number of units. The cap `0.999999` on a cumulative partial fill is "at most one
  unit short of the whole".
- Of the events only what the properties read is kept: per order the quantity its last event
  reports, the number of its final events, and the tick it is dated.
- A pending context's `submitted_tick` is the date of the order; its remaining quantity is derived.
- `SubmitOrder` issues ids up to `MaxOrders`; the decision that would need one more does not happen.
- An exception is modelled where the order path raises it (`StateEngine.apply`), not where a market
  adapter or a strategy would.
- `FillRatio = RatioDen` is assumed of the runtime: the session builder never sets `fill_ratio`.
- `plan.runtime.stop_loss`, `take_profit` and `default_quantity` are validated by `config/loader.py`
  but the session builder gives the executor `RuntimeConfig()`, which has no such fields; exits
  therefore never trigger in sessions built from a plan. `ExitsConfigured` is TRUE in the run that
  covers exits (an executor given its own config).

Abstractions of the live path:

- The broker reads one order in one step (`_read_native_state`); between the orders of a poll, and
  between any two steps of the tick, the API moves on.
- `detailed` is chosen at the start and says which vocabulary the API uses: one that tells a partial
  fill and a cancel apart, or the bare ALIVE and FINISHED of TqSdk. Both are covered by the broker's
  status table.
- The guards that do not concern pending orders are one disjunct, "no order is placed". The duplicate
  check of the same tick never acts, as one tick serves a symbol once.
- The quantity a context has seen filled is left out: no branch of the live path reads it.

Abstractions of the feed: a poll handles one quote at a time, and reading the quote, computing its
delta, storing the raw volume and publishing are four steps, so the two threads interleave wherever
they share data. Prices, times and the wording of errors are left out. An API whose volume falls has
begun a new trading day. A volume may go missing and return (`blank`): it is stored as 0, so the poll after
the gap counts the whole volume again, and `hidden` adds up what that can be. What a strategy is told between
two polls is left out: `get_last_quote` answers with the last difference at every read.

Abstractions of `Strategies`: one bar timeframe for all; prices and volumes are small naturals and
the comparisons with means and deviations are exact, cross-multiplied, where the code uses floats;
confidence and strength are left out. `turns`, `quoted` and `held` are there for the properties:
`held` is what an immediate broker without guards would hold.

Abstractions of `Universe`: what the strategies say, and which symbols are in trading hours, is any
member of a set; a score is a number (signal strength and confidence), and exits are in `Runtime`.

Abstractions of `Artifacts`: at most one daemon runs at a time (nothing in the code enforces it); a tick
runs the executor at most once; of a score only its order matters; the score log stands for every log
a refresh reads, and snapshots are followed in the live store. `granted`, `seen`, `indexed`, `since` and
`said` only record what happened, for the properties. `--clean` removes in the order the
code does, but the score log and all snapshots in one step, where the code removes
file by file (the index and the switch files follow in steps of their own).

Abstractions of `RunPlan`, `Account` and `Orchestration`:

- `Malformed` stands for every value of the wrong type or form; the texts of a plan matter only where
  the loader compares them. The path of the plan file and the search for it are left out.
- One symbol of the universe is followed. Prices and averages are whole numbers (the run's prices are
  multiples of 24, so no average of up to four units needs a fraction); ratios of the plan are in
  percent. `OrchestrationConfig` asks that the margin of one unit is whole at every price: money is
  counted in units small enough for that.
- Every quote of a call of `run` is read on its own (`Quotes`): for the order and for what is held when the
  limits weigh it, for the fill, and for what is held when the snapshot is saved; a roll reads the last two
  for each position it closes. They agree where the feed stands still within a tick (`Steady`: `simulated_v2`,
  and fake quotes, which are polled once). With `live_file`, which reads its file every time, with `tqkq`,
  whose thread writes meanwhile, and with `simulated`, which steps at every quote, they are unrelated. The
  file may be unreadable (`None`): an order or a fill then raises, a held position is left out of the figures.
- Costs are a fixed part per trade and slippage in ticks; slippage in basis points, commission per
  quantity and instruments without a margin rate (whose margin is 0) are left out.
- A signal takes the values of the enums of `domain/enums.py` and no other.
- A fill that cannot be paid, or closes more than is held, raises after its event is logged and its cost
  is added (`Filled`).
- A broker of a plan run fills at once, keeps every order (`no_fill`) or passes it on. Guards with a memory
  (halt, interval, expiry) are `Runtime`'s, answers of the exchange `LiveOrderPath`'s and torn files
  `Artifacts`'; `OrchestrationConfig` excludes plans that configure them, and the others keep their defaults.
- The figures of a live account (`portfolio_snapshot`) are any balance and any verdict of the limits.
- Warmup of a live feed may succeed or not (`warmed`).
- `sent`, `mine`, `liveEnd`, `done` and `acc.flow` only record what happened, for the properties.

The mutants (definitions whose comment starts with "Mutant") are plausible bugs used to show that
each property can fail; no specification uses them.

## 4. Runs

| Run | Question | Bounds, and why they are enough |
|---|---|---|
| `runtime_immediate` | exits, limit, halt, aborted ticks, immediate fills | 2 symbols, 3 orders, 4 ticks, limit of 2, exceptions swallowed, `insufficient_cash` possible at every buy, a risk limit that may refuse |
| `runtime_roll` | roll and expiry against late and partial fills | `fill_delay 2`, two partial steps of a quarter, contract changes at bar 4, 9 ticks: open, fill in parts, roll while an order waits, close canceled by the roll, activation, a cooldown that a forced CLOSE opens in |
| `runtime_expiry` | expiry by runtime, by broker, roll back, its cooldown, openings spaced; broker's book and ledger, refinement of the order book | 2 symbols, 3 orders, broker expiry at age 3, runtime expiry at 4, interval 2, one symbol with forced CLOSEs and one without, contract changes and changes back, 5 ticks: an order in each state while another is placed, expired or canceled |
| `live_lifecycle` | live broker, API moving at any time | 3 orders of 1 or 2 units over one symbol, 4 ticks, both vocabularies, expiry, refusals below 2 units: late fill after a cancel request, cancel after a partial fill, an opening beside a pending one |
| `feed` | warmup races the loop; volume, close, borrowed API | 2 symbols, volumes reset at any time, 1 unit traded per symbol, the volume of one goes missing with at most 1 unit shown: each thread can be overtaken between any two of its statements |
| `strategies` | what follows from a sequence of quotes? | 2 symbols, 4 quotes over 3 prices and 2 volumes, or without volume, or no bar; windows of 1 to 3: every window fills, overflows, and is short again after missing volumes |
| `universe` | which decisions are executed? | 2 symbols, 3 strategies (equal priorities, unequal weights), 5 enabled maps, 3 router modes, top 1 or no ranking, refresh every 2nd tick, 3 ticks: ties, disabled strategies of higher priority, symbols that close between refreshes |
| `artifacts` | crashes, restarts, approvals, cleaning, a reader | 2 sessions of 2 ticks in either environment, 2 approvals, 2 score maps (one a tie): a session restarts over files in every state the first can leave |
| `plan_run` | two runs of any plan file on the same directories | 15 accepted command lines (every broker and feed mode, confirmed and dry live submission, rolls, limits, strict and silent promotion, with and without `--clean`) and 20 files of which each is refused for another reason; 2 starts, each killed at any step, so that the second meets whatever the first can leave; a clock of 2 seconds, so that names collide or not; up to 3 ticks live and 2 sandbox, 2 prices, slippage of one tick: open, average, close, roll; a `live_file` plan whose price moves, and whose file cannot be read, between the quotes of one tick; 1.2 million states |
| `partial_expiry` | (violated) are partial executions booked? | one order of 2 units, half filled, expires |
| `live_partial_lost` | (violated) does a pending opening block the next one? | two orders, an API that says ALIVE and FINISHED |
| `strategy_close` | (violated) does an exit close what is held? | one symbol, 5 quotes: open, exit, and what is held then |

Deadlock is checked in every run of the runtime, the brokers and the feed: the loop always goes on until
it stops by `max_ticks` or by an exception, and the feed until the process is gone. In `strategies`,
`strategy_close`, `universe`, `artifacts` and `plan_run` the bound on quotes, ticks, sessions or starts ends the behaviour,
so deadlock is not checked. The properties are stated with their meaning in `BrokerCaller`,
`RuntimeProperties` and the modules themselves. `TypeOK` is checked where a theorem states it
(`runtime_immediate`); the type invariants of the other modules are not run but those of the simulated
broker, the live path, the universe and the strategies are proved.

Disagreements found:

- `partial_expiry`: `poll_order_lifecycle` puts a partial fill into the context only; if the order
  then expires or is canceled, no position holds the executed units. `docs/architecture/structure.md:1695`
  says the position uses the quantity actually filled. `PositionsMatchFills`, which counts completed
  orders only, is what the code does guarantee.
- `live_partial_lost`: with an API that only says ALIVE and FINISHED an order that is partly traded is
  reported as SUBMITTED. `poll_order_lifecycle` pops the context at every update that is not
  PARTIALLY_FILLED (`runtime.py:624`), so the next decision sends a second identical opening beside the
  working one. `test_pending_blocks_new_orders_across_ticks_contracts.py:78` expects one submission.
  With a vocabulary that tells partial fills apart, `OneWorkingOpeningDetailed` holds.
- `strategy_close`: `signal()` (`strategies/volume/_common.py:92`) gives every CLOSE the position side FLAT,
  and `ExecutionEngine.execute` (`execution_engine.py:43`) refuses such a CLOSE, so `VolumeMAReversion`
  never closes anything while it believes it is flat, and opens again. `docs/domain/domain_contract.md:32`
  says that CLOSE closes the position.

Weaknesses met while modelling that no run shows:

- `SymbolPositionLimit` does not count orders that wait: with a delayed broker a long and a short opening
  of one symbol can both be accepted and end above `max_position_qty_by_symbol`. With an immediate
  broker (`runtime_immediate`) the limit holds.
- `portfolio_snapshot` and `_api_instance` of the live broker take over the feed's API, and
  `UniverseSession.close` closes the broker first: the API is closed under the feed's loop and then once
  more by the feed. `OwnApiClosedOnce` holds as long as no broker borrowed the API.
- A restarted session numbers its snapshots from 0 and overwrites those of the session before it. The
  worst a reader gets is the clone of the live state (`BaselineNotOlder`), but the store is not append-only.
- A plan run's sandbox is built with the plan's own broker (`run_plan_orchestrator.py:178`), with confirmed
  live submission too: the sandbox then sends real orders, which `structure.md:1804` does not intend.
- The realized profit of a position is never added to `PortfolioState.realized_pnl`, so equity and the risk
  ratio do not know it (`domain_contract.md:747` defines it); it ignores the multiplier, which unrealized
  profit uses; and the slippage is both in the fill price and in the costs.
- The risk limits weigh closing orders like opening ones, so a full account may refuse to close. A position
  whose quote cannot be read is left out of the margin.
- The limits weigh an order at one quote (`runtime.py:820`, held positions at 973), the broker fills it at another
  (`simulated_broker.py:246`), and the figures are refreshed at a third. With `live_file`, `tqkq` and `simulated`
  feeds the price can rise in between and the margin pass `max_margin_used`: without `Steady` TLC finds
  an order weighed at 48 and refreshed at 72. `OpeningWithinMargin` is about the other feeds.
- A strategy forced to CLOSE (`config/loader.py:100`, `parametrized_strategy.py:37`) opens positions when its
  opinion is an opening, in the cooldown after a roll too, which asks for OPEN_LONG and OPEN_SHORT
  (`runtime.py:223`, 266). `CooldownIsQuiet` is about the other symbols.
- A volume that is missing once is stored as 0 (`tqkq_market_data.py:184`), and the next poll counts the whole
  cumulative volume as new. `SessionVolumeTraded` bounds the excess by what the quotes showed when they lost
  their volume. And `get_last_quote` repeats the last difference at every tick between two polls.
- `insufficient_cash` is raised after the broker has filled and the event is logged.
- The gate judges events sorted by `ts`, the summary files describe them in file order: over logs of several
  runs (no `--clean`) their failure streaks may differ.
- A rejected run leaves the approved file of an earlier one. Decisions and manifests are named by the second
  and overwrite each other within one.
- The loader checks neither ticks nor the promotion bounds; it accepts plans the builder then refuses (exchange
  specs without the exchange feed, an exchange feed without symbols), and a live broker on another feed,
  which raises at the first real submission. `run_local` replaces the first strategy after the validation.
- A `runtime.mode` of `tqkq_live` without a broker section is checked against the simulated broker's parameters,
  so a live run configured that way cannot ask for live submission: it is always dry.
- `roll_policy.cooldown_ticks = 1` blocks no later tick.
- After an approval a symbol without any score gets no entry in the map, and then no strategy.
- With `fill_delay_ticks >= 2` a roll may cancel and resubmit its close at every decision and never finish; a
  log line cut by a crash ends every later session before its first tick, until `--clean`; a restarted live
  session does not load the last portfolio. These are the three hazards of PROJECT.json without a property,
  with the reasons.
- A proposal made from sandbox scores can be approved for the live session of the same `runtime_id`.

## 5. Fairness

Only `feed` checks liveness, under `FairSpec` of `MarketFeed`: weak fairness of each of the two threads
(the operating system schedules both), and strong fairness of a `wait_update` that returns (the loop
retries after every exception, and the API is assumed not to fail for ever). Nothing is assumed of
quotes, of warmup succeeding, or of a session ever ending. The other runs check safety only.

## 6. Proofs

All for every value of the constants that satisfies the assumptions of its modules (`BrokerConfig`,
`CallerConfig`, `RuntimeConfig`, `LiveConfig`, `LivePathConfig`, `FeedConfig`, `StrategyConfig`, `UniverseConfig`,
`ArtifactsConfig`, `PlanConfig`, `AccountConfig`, `OrchestrationConfig`); with an immediate broker this
includes fill ratios below one, which the runs do not. Besides ranges they say that the sets a
session configures are finite (contracts, symbols, strategies) and that markers such as "no file" are
not values of the data they stand beside.

The simulated broker, with any caller (`RuntimeProofs`, part 1):

- `BrokerSafety`: types, `BookMatchesLedger`, and that no fill exceeds its order
  (`FillsWithinOrder`). The last is not inductive alone: whether a partial fill stays below the order
  needs that the steps counted so far match the status, and that an id not issued has nothing
  recorded; the invariant adds both.
- `BrokerImplementsOrderBook`: the initial state maps to the abstract one, and under the same
  invariant every submit, poll and cancel moves each id by one abstract step or not at all.

The runtime (`RuntimeProofs`, parts 2 to 4), each part adding to the invariant of the one before:

- `RuntimeTypeCorrect`, `RuntimeNoOrphanOrder`, `RuntimeNoStrandedPosition` from `IInv`:
  - `Core`: every id that waits anywhere is issued (`Known`); with a delayed broker no order key of
    the *current* snapshot is ever remembered (`NothingDropped`), because the snapshot that follows an
    order advances the clock before the next order is placed. So the duplicate check that comes after
    the submission never drops an order the broker holds: this is the argument for `NoOrphanOrder`.
  - `Place`: updates wait only between poll and decisions, and a final one is about an order that left
    the book; close loops visit positions that exist.
  - `Hold`: with policy B any working or just-reported opening is in the active contract
    (`OrdersFollowActive`), so a late fill cannot strand a position, and activation happens only when
    neither a position nor a context of the symbol is left.
- `RuntimeOpeningsSpaced`, `RuntimeHaltIsQuiet`, `RuntimeCooldownIsQuiet`, `RuntimeOneOpeningPerTick`,
  `RuntimeOneWorkingOpening` from `GInv`, which adds `History`: each guard reads one remembered
  number or set, and `History` says what it stands for in the orders placed: nothing is dated after
  the clock, nor at it unless something was raised (`Dated`), the duplicate guard knows the keys of
  this tick (`KeysOfTick`), the rate limit the last order of each symbol even when that was dropped as
  a duplicate (`LastOrders`). The properties themselves complete the invariant. `RuntimeCooldownIsQuiet` is about
  the symbols outside `ClosesForced`, any set of symbols.
- `RuntimeLedgerSafe`, `RuntimeImplementsOrderBook`: the runtime's steps are broker steps of some
  caller, so what part 1 shows of any caller holds of this one.
- `RuntimeContextsAreLive`, `RuntimeEventsMatchLedger`, `RuntimePositionsMatchFills` from `LInv`, which
  adds what a poll may report (`UpdatesNew`), that without partial fills an order has all or nothing
  (`WholeFills`), that what a context knows lags only by the update about to be applied
  (`ContextsFilled`), and that the duplicate guard drops nothing accepted (`KeysBehind`).
  `PositionsMatchFills` is about sums of signed quantities: one more filled order changes one sum by
  its quantity, which is what `Sums` provides.
- Three theorems hold under a condition, and the code needs it:
  - `RuntimeReportsMatchLedger`, where nothing can cut a partly filled order short
    (`NothingCutShort`): an order that expires after a part is reported with quantity 0 (`partial_expiry`).
  - `RuntimeClosesCovered`, without exits or without delay: with a delayed broker the exit service
    submits the whole position again in every tick.
  - `RuntimePositionWithinLimit`, without delay: the limit does not count openings that wait.

The live path (`LiveOrderProofs`): `LiveTypeCorrect`, `LiveFillsBookedOnce`,
`LiveOutcomeReportedOnce`, `LiveWorkingOrdersKnown`, `LiveOneWorkingOpening`,
`LiveImplementsOrderBook`. The API moves between any two steps, so the invariant cannot say that the
broker knows the order; `Tracking` says that what it remembers is an *earlier* state of it: no more
filled than was traded, and final only if it had ended. `Polling` says that a poll reads an order once
and an update is applied once. `OneContextPerKey` carries the guard on pending orders. `WorkingOrdersKnown`
and `OneWorkingOpeningDetailed` are about APIs that tell a partial fill apart; without that
`live_partial_lost` refutes them. The proof showed that the table of `_read_native_state`
(`tqkq_live_broker.py:298`) had been modelled with two arms that can both apply, so that the
specification left the result open; the arms now exclude each other as the code's order does.

The feed (`FeedProofs`): `FeedSessionVolumeTraded` from `Counting` (the quote shows no more uncounted
units beyond a volume read, stored or held by a thread, than were traded, or went missing, and not counted)
and `Pending` (what that becomes between the four statements of a poll that counts). A volume that goes
missing may be stored as 0 at once, so `hidden` takes all it stood at. The theorem is about what
the polls publish and claims nothing of how often a strategy reads it. Two threads store
during warmup in any order, so an old volume may replace a newer one; units are then shown again
until the loop's own poll, and the argument is that no poll of that time counts (`Phases`).
`FeedSessionHasQuotes` follows from the same invariant. `FeedApiClosedOnce` holds in every
interleaving; `FeedOwnApiClosedOnce` says more, that the loop has ended before its API is closed, and
needs that `join(timeout=2.0)` does not expire (`JoinExpires` is FALSE, as the run has it).

The strategies (`StrategiesProofs`): `StrategiesSignalsFollowQuotes` is about all quotes a symbol
ever had, the code only keeps windows. `Window` says what these are: the prices are the end of the
prices quoted, of the length the maxlen allows, and the volumes *an* end of the volumes known.
Its length cannot be given, as a quote without volume shortens that window without filling it
(`append` drops the oldest either way), but after m quotes in a row with a volume it is at least m,
which is what makes a strategy answer at every breakout once its window is complete.
`StrategiesForcedNeverFlips` is about every forced decision.

The universe (`UniverseProofs`): `UniverseEnabledNotShadowed`, `UniverseRankingIsTradable`,
`UniverseConflictsAreSafe`. These are about the last tick, so little is carried along (`TickInv`:
the types and the reasons of the symbols left out); the work is in lemmas about the router (the kept
decision is one of those given and the greatest in the router's order, which is total) and the
ranking (Top N takes the N best).

The files (`ArtifactsProofs`):

- `SessionRunsApproved`: `SessionKeepsItsApproval` needs to know what the approved file
  holds when it is read: it is torn exactly while the operator fills it, and otherwise the last map
  granted since it was removed (`ApprovedIsLast`).
- `SandboxBaselineNotOlder`: the file a reader is about to open is torn, gone, or at least as new as what
  was indexed when it looked (`NamedNotOlder`); in the first session the number being written is above
  every number named (`FirstSession`).
- `ArtifactsProposalWeighsDisabled`: the score logs hold what the last whole tick scored
  (`LogsFollowTicks`), and between the refresh that fills a proposal and the next tick nothing scores.

A plan run (`OrchestrationProofs`), for any plan files:

- `OrdersConfirmed`: the loader checks the broker's parameters for the
  mode the file names, while the mode in force may be derived from `runtime.mode`. `LiveSubmitChosen` shows
  that whenever live orders are asked for the two agree. The invariant adds that the running plan is one the
  loader accepted (`PlanIsLoaded`) and that with real orders the session trades the fixed, dotted contract of the
  plan and nothing else (`ContractIsFixed`), because such plans exclude rolls.
- `ManifestOfItsRun`: the manifest is the last of several files. The invariant says what was written so far
  (`MadeSoFar`), that it is on disk as the process remembers it (`WrittenByRun`), and that a completed run is
  forgotten when the next one starts; `MadeAsAsked` says that what was made is what the plan asked for and the
  verdict allowed, which gives both directions of "names an approval".
- `CleanRunJudged`: a session writes its events in the order of time (`MineInOrder`), also those of a roll, which
  closes one position after the other; a clean run finds nothing but its own (`NothingYet`,
  `CleanRunOwnsLog`), so the gate's sort by time changes nothing.
- `SandboxFromLive`: after each call of the runtime the last snapshot is the portfolio (`LiveIsSaved`),
  whatever was refused, rolled or raised in it.
- `ProfitsBalance` and `OpeningKeepsMargin` from `LedgerInv`: the portfolio in memory and the latest snapshot
  are books of this universe, with quantities that are never negative (`DeskShape`, `Books`). TLC
  checked it on `plan_run` first. `TicksKept` is the lemma both rest on: a tick either adds to no position
  and keeps balanced books balanced, in the portfolio, in the snapshot and in what is left when it raises
  (`Kept`), or it fills one opening that the risk limits had let pass (`Opens`). The closes of a roll are one
  call that books position after position and may raise after any of them; `IndexInduction` carries `Kept`
  through them.
- `ProfitsBalance` (`ProfitConserved`) is about the runs in which no average price is rounded
  (`[][ExactAverages]_vars`): an average of whole numbers is not always whole, and the model drops the rest
  where the code keeps a fraction. The condition asks for a whole average at whatever quote an opening
  may be filled at, and says nothing of profits or of what was paid; every step of `plan_run` meets it (TLC
  checked that it does), and any
  finite run can be counted in units small enough. Under it the argument is the algebra of one fill: closing q of n units
  at average v moves exactly q*v from cost to profit, opening moves the average but not the total.
- `OpeningKeepsMargin` (`OpeningWithinMargin`), for feeds that stand still within a tick (`Steady`), so that
  the quotes of a call agree: the limit is checked on the sum of two rounded margins, before the
  fill, while the promise is about the portfolio after it, after the refresh and at the tick's price. Where the
  margin of one unit is whole both are that margin times what is held (`MarginOfTotal`), and an opening adds
  `Quantity` to that total, by whatever key it is booked (`OpenedHolds`).

The provers know no induction, and a sum over a set, a fold over a sequence or a ranking is a recursive
function. The lemmas about them (`SumNat`, `ArgMax`, `MaxIn` and the like in `Sums`, `KnownAppend` of the
strategies, the closes of a roll) consider a smallest set for which they fail instead, and show
there is none. For the same end some definitions (`Closed`, `RankByTime`, `KnownVolumes`) are folds over
operators with a name.

Only model-checked: `ClosingEnds` and `PricesReachCache` of the feed, as liveness is out of the prover's
reach. The three violated properties have their
counterexample from TLC.

## 7. Not modelled

See PROJECT.json, "components", for every part and its status.

- The web console, its projections and the tools other than the approval read stored events and change
  nothing.
- `research/market_replay.py`, `performance.py`, the batch and manifest replay and the candidate registry: statistics
  over files, called by no session.
- The file feed and the simulated feed (they read a file or count up) beyond the quotes they may give
  (`Orchestration`, `Quotes`), the single-symbol entry
  `run_market_once`, the risk engine's optional limits and the trigger's optional
  confirmation (no session configures them).
- The arithmetic of trading hours over midnight: whether a symbol trades is nondeterministic.
- The daemon's summaries and manifests (those of a plan run are modelled).
