----------------------------- MODULE Orchestration -----------------------------
(***************************************************************************)
(* run_plan and run_local: a process loads a plan file, may remove what    *)
(* earlier runs of the same runtime_id left, runs a live session and then  *)
(* a sandbox session that starts from the live portfolio, judges the       *)
(* sandbox against live and writes its artifacts.  The process may be      *)
(* killed at any step and started again, with another plan file, on the    *)
(* same directories.  One symbol of the universe is followed, with market  *)
(* orders that the broker fills at once, keeps or passes on: guards with a *)
(* memory, delays and expiry are Runtime's, answers of the exchange        *)
(* LiveOrderPath's, torn files Artifacts'.                                 *)
(***************************************************************************)
EXTENDS Account, SequencesExt

CONSTANTS
  CommandLines,   \* of a run: its command, its plan file, whether it has --clean
  LocalTicks,     \* --ticks-live and --ticks-sandbox of run_local
  Signals,        \* what the router may pass on for the symbol in a tick
  MarketPrices,   \* what the feed may quote
  Balances,       \* what an exchange account may report as cash
  MaxStarts,      \* bound of the number of runs
  MaxClock        \* bound of the wall clock, in seconds

Envs == {"live", "sandbox"}

ASSUME OrchestrationConfig ==
  /\ \A line \in CommandLines : line.command \in {"run_plan", "run_local"}
  /\ LocalTicks \in Nat /\ MaxStarts \in Nat /\ MaxClock \in Nat \ {0}
  /\ MarketPrices \subseteq Nat \ {0} /\ Balances \subseteq Nat
  /\ \A price \in MarketPrices : (price * Multiplier) % MarginDivisor = 0
  /\ Signals \subseteq [decision : {"open_long", "open_short", "close", "hold"},
                      side     : {"buy", "sell", "none"},
                      pside    : {"long", "short", "flat"}]
  /\ \A line \in CommandLines : Accepted(line.raw) =>
       /\ Symbol \in Universe(line.raw)
       /\ \A k \in ExecutionKeys : ExecutionSection(line.raw)[k] = None
       /\ DOMAIN BrokerParams(line.raw) \cap
            {"fill_delay_ticks", "partial_fill_ratio", "max_ticks_to_fill"} = {}

VARIABLES
  pc,         \* the step the process is about to take; "idle" when none runs
  run,        \* what the process was started with; None when none runs
  desk,       \* the Runtime, its market clock and its RollPolicy
  verdict,    \* the decision and the metrics of promote_from_datastore
  made,       \* paths of the artifacts the process wrote
  log,        \* env -> execution events in fills.jsonl
  snap,       \* the latest portfolio snapshot of live, or None
  files,      \* the artifacts on disk, by the number of the run that wrote them
  starts,     \* number of runs started
  clock,
  sent,       \* history: real orders
  mine,       \* history: env -> events of this run
  liveEnd,    \* history: the portfolio of live at its end, None when it saved none
  done        \* history: the run that ended last, until the next one starts

history == <<sent, mine, liveEnd, done>>
vars    == <<pc, run, desk, verdict, made, log, snap, files, starts, clock, history>>

\* run_local replaces ticks, thresholds and the first strategy of the plan it loaded.
PlanOf(line) ==
  IF line.command = "run_plan" THEN Loaded(line.raw)
  ELSE [Loaded(line.raw) EXCEPT !.runtime.ticks_live = LocalTicks,
                                !.runtime.ticks_sandbox = LocalTicks,
                                !.promotion = DefaultPromotion,
                                !.strategies[1] = DefaultStrategies[1].name]

Plan == run.plan

Promotion == run.plan.promotion

Ticks(e) == IF e = "live" THEN Plan.runtime.ticks_live ELSE Plan.runtime.ticks_sandbox

NewDesk(a) == [acc |-> a, active |-> None, until |-> 0, pending |-> {}, runs |-> 0, tick |-> 0,
               price |-> None]

(***************************************************************************)
(* One call of Runtime.run, as operators from the desk to an outcome: the  *)
(* desk after it, the events appended, the portfolio saved last, if any.   *)
(***************************************************************************)

Outcome(d) == [desk |-> d, events |-> <<>>, saved |-> <<>>, raised |-> FALSE]

Raised(out) == [out EXCEPT !.raised = TRUE]

\* Within a tick the price stands still: the random walk advances after it, fake
\* quotes are polled once.  The other feeds move whenever they like: live_file reads
\* its file at each quote, the thread of tqkq writes meanwhile, and the simulated
\* feed steps at each quote.
Steady ==
  \/ Plan.md.mode = "simulated_v2"
  \/ Plan.md.mode = "tqkq" /\ FakeQuotes(Plan) /= None

\* One quote; only the file can be unreadable once the session is built.
Quoted == MarketPrices \cup (IF Plan.md.mode = "live_file" THEN {None} ELSE {})

\* The quotes of a call of run, by what they are read for.
Quotes(reads) ==
  {quotes \in [reads -> Quoted] : Steady => \A r, s \in reads : quotes[r] = quotes[s]}

\* Mutant: the snapshot is taken before the figures are refreshed.
SavedUnrefreshed(out, price, report) ==
  LET a == Refreshed(out.desk.acc, price)
  IN  [out EXCEPT !.desk.acc = a, !.desk.price = price, !.desk.runs = @ + 1,
                  !.saved = <<out.desk.acc>>]

\* _maybe_save_snapshot; the account of a live broker replaces the cash.
Saved(out, price, report) ==
  LET a == IF report = None THEN Refreshed(out.desk.acc, price)
           ELSE [out.desk.acc EXCEPT !.cash = report.cash]
  IN  [out EXCEPT !.desk.acc = a, !.desk.price = price, !.desk.runs = @ + 1, !.saved = <<a>>]

Event(out, ok) == [out EXCEPT !.events = Append(@, [ts |-> out.desk.runs, ok |-> ok])]

\* record_broker_result of a fill: the event is logged before the books may refuse it.
\* The broker fills at one quote, the figures are refreshed at a later one.
Filled(out, o, q, price, later) ==
  LET p    == FillPrice(price, o.side)
      paid == [Event(out, TRUE) EXCEPT !.desk.acc.cost = @ + TradeCost(price, o.side, q)]
  IN  IF CannotPay(out.desk.acc, o, q, p) \/ CannotClose(out.desk.acc.qty, o, q)
      THEN Raised(paid)
      ELSE Saved([paid EXCEPT !.desk.acc = Booked(@, o, q, p)], later, None)

Live == Plan.broker.mode = "tqkq_live"

\* _submit_native_order finds an interface that takes orders.
Connected == Plan.md.mode = "tqkq" /\ FakeQuotes(Plan) = None

\* Real orders: neither a dry run nor a submission that raises.
Sends == Live /\ ~DryRun(Plan) /\ Connected

Works == Live \/ Get(Plan.broker.params, "no_fill", FALSE)

\* Only a fill asks for a quote; what is left unread raises.
Submitted(out, o, q, price, later, report) ==
  IF (Live /\ ~DryRun(Plan) /\ ~Connected) \/ (~Works /\ price = None) THEN Raised(out)
  ELSE IF Works THEN Saved([out EXCEPT !.desk.pending = @ \cup {o}], later, report)
  ELSE Filled(out, o, q, price, later)

\* BLOCKED_BY_PENDING_ORDER, symbol_position_limit
Blocked(d, o) == o \in d.pending \/ TooMany(Plan.risk, d.acc, Quantity)

\* _portfolio_risk_reject_reason
Risky(d, quotes, report) ==
  IF report = None THEN TooRisky(Plan.risk, d.acc, quotes.order, quotes.held, Quantity)
  ELSE report.risky

(***************************************************************************)
(* The contract of the symbol.  A tick of the market is a step of its      *)
(* clock, the ts that RollPolicy looks up its schedule with.               *)
(***************************************************************************)

Configured(ts) ==
  LET schedule == Get(Plan.roll.main_contract_schedule, Symbol, <<>>)
  IN  IF Plan.roll.mode = "fixed_main" /\ schedule /= <<>>
      THEN schedule[IF ts < Len(schedule) THEN ts + 1 ELSE Len(schedule)]
      ELSE Plan.roll.contracts[Symbol]

\* RollPolicy.resolve and roll_intent: the contract traded in this tick.
Trading ==
  IF desk.active = None \/ (Plan.roll.mode = "fixed_main" /\ ~Plan.roll.close_on_roll)
  THEN Configured(desk.tick) ELSE desk.active

Rolling == Plan.roll.close_on_roll /\ Trading /= Configured(desk.tick)

Cooling == Plan.roll.close_on_roll /\ desk.runs < desk.until

OldPositions == {k \in Held(desk.acc) : k[2] = Trading}

(***************************************************************************)
(* A process starts.                                                       *)
(***************************************************************************)

\* candidate_id: cand_<id>, with the second of the start for run_local.
Start(line) ==
  /\ pc = "idle" /\ starts < MaxStarts /\ starts' = starts + 1
  /\ Accepted(line.raw)
  /\ run' = [plan |-> PlanOf(line), clean |-> line.clean,
             cand |-> IF line.command = "run_local" THEN clock ELSE 0]
  /\ pc' = IF line.clean THEN "cleanLive" ELSE "build"
  /\ done' = None
  /\ UNCHANGED <<desk, verdict, made, log, snap, files, clock, sent, mine, liveEnd>>

\* load_plan raises.
Refuse(line) ==
  /\ pc = "idle" /\ starts < MaxStarts /\ starts' = starts + 1
  /\ ~Accepted(line.raw) /\ done' = None
  /\ UNCHANGED <<pc, run, desk, verdict, made, log, snap, files, clock, sent, mine, liveEnd>>

CleanLive ==
  /\ pc = "cleanLive" /\ pc' = "cleanSandbox"
  /\ log' = [log EXCEPT !["live"] = <<>>] /\ snap' = None
  /\ UNCHANGED <<run, desk, verdict, made, files, starts, clock, history>>

\* Mutant: the sandbox store of earlier runs stays.
CleanSandboxForgotten ==
  /\ pc = "cleanSandbox" /\ pc' = "cleanFiles"
  /\ UNCHANGED <<run, desk, verdict, made, log, snap, files, starts, clock, history>>

CleanSandbox ==
  /\ pc = "cleanSandbox" /\ pc' = "cleanFiles"
  /\ log' = [log EXCEPT !["sandbox"] = <<>>]
  /\ UNCHANGED <<run, desk, verdict, made, snap, files, starts, clock, history>>

\* Summaries by role, decisions and manifests by the second in their name,
\* approved configurations by candidate.
NoFiles ==
  [summaries |-> [r \in {"current", "candidate"} |-> None],
   decisions |-> [t \in 1..MaxClock |-> None],
   approved  |-> [c \in 0..MaxClock |-> None],
   manifests |-> [t \in 1..MaxClock |-> None]]

CleanFiles ==
  /\ pc = "cleanFiles" /\ pc' = "build"
  /\ files' = NoFiles
  /\ UNCHANGED <<run, desk, verdict, made, log, snap, starts, clock, history>>

\* The process ends, by itself, by an exception or killed: what was in memory is gone.
Gone == pc' = "idle" /\ run' = None /\ desk' = None /\ verdict' = None /\ made' = None
          /\ liveEnd' = None /\ mine' = [e \in Envs |-> <<>>]

Builds(warmed) ==
  MarketDataBuilds(Plan, warmed) /\ SpecsBuild(Plan) /\ BrokerBuilds(Plan)

\* build_live_runtime; the portfolio of earlier runs is not loaded.
BuildLive ==
  /\ pc = "build" /\ pc' = "live"
  /\ StrategiesBuild(Plan) /\ \E warmed \in BOOLEAN : Builds(warmed)
  /\ desk' = NewDesk(EmptyAccount)
  /\ UNCHANGED <<run, verdict, made, log, snap, files, starts, clock, history>>

Baseline == [(IF snap = None THEN desk.acc ELSE snap) EXCEPT !.cost = 0]

\* build_sandbox_runtime_from_live, with market data and broker of its own.
BuildSandbox ==
  /\ pc = "live" /\ desk.tick >= Ticks("live") /\ pc' = "sandbox"
  /\ \E warmed \in BOOLEAN : Builds(warmed)
  /\ desk' = NewDesk(Baseline)
  /\ liveEnd' = IF desk.runs > 0 THEN desk.acc ELSE None
  /\ UNCHANGED <<run, verdict, made, log, snap, files, starts, clock, sent, mine, done>>

BuildFails ==
  /\ \/ pc = "build"
     \/ pc = "live" /\ desk.tick >= Ticks("live")
  /\ ~StrategiesBuild(Plan) \/ \E warmed \in BOOLEAN : ~Builds(warmed)
  /\ Gone
  /\ UNCHANGED <<log, snap, files, starts, clock, sent, done>>

(***************************************************************************)
(* One tick of a session: UniverseRuntime.run_tick for the symbol.  The    *)
(* snapshots of the sandbox are saved too, and never read.                 *)
(***************************************************************************)

Running(e) == pc = e /\ desk.tick < Ticks(e)

Written(e, out) ==
  /\ log' = [log EXCEPT ![e] = @ \o out.events]
  /\ snap' = IF e = "live" /\ out.saved /= <<>> THEN out.saved[1] ELSE snap
  /\ UNCHANGED <<files, starts, clock, done>>

Concluded(e, out, orders) ==
  /\ ~out.raised /\ Written(e, out)
  /\ desk' = [out.desk EXCEPT !.tick = @ + 1]
  /\ mine' = [mine EXCEPT ![e] = @ \o out.events]
  /\ sent' = sent \cup {[params |-> Plan.broker.params, contract |-> o.contract] :
                         o \in IF Sends THEN orders ELSE {}}
  /\ UNCHANGED <<pc, run, verdict, made, liveEnd>>

\* The exception ends the run; the broker has filled the order, its event is written.
Aborted(e, out) == out.raised /\ Written(e, out) /\ Gone /\ UNCHANGED sent

\* No strategy speaks, the router passes nothing on, or the symbol is not tradable.
NoDecision(e) == Running(e) /\ Concluded(e, Outcome(desk), {})

\* The desk a call of run goes on with.
Resolved == [desk EXCEPT !.active = Trading]

RollCancel(e) ==
  /\ Running(e) /\ Rolling /\ desk.pending /= {}
  /\ \E price \in Quoted :
       Concluded(e, Saved(Outcome([Resolved EXCEPT !.pending = {}]), price, None), {})

\* _close_roll_positions: one market order for each position of the old contract.
ClosingOrder(k) == OrderFor(k[2], ClosingSide(k[3]), k[3])

Closing(out, k, quotes) ==
  IF out.raised THEN out
  ELSE Submitted(out, ClosingOrder(k), desk.acc.qty[k], quotes[<<"fill", k>>],
                 quotes[<<"saved", k>>], None)

Closed(positions, quotes) ==
  FoldLeft(LAMBDA out, k : Closing(out, k, quotes), Outcome(Resolved), positions)

RollClose(e) ==
  /\ Running(e) /\ Rolling /\ desk.pending = {} /\ OldPositions /= {}
  /\ \E positions \in SetToSeqs(OldPositions), quotes \in Quotes({"fill", "saved"} \X OldPositions) :
       \/ Concluded(e, Closed(positions, quotes), {ClosingOrder(k) : k \in OldPositions})
       \/ Aborted(e, Closed(positions, quotes))

RollActivate(e) ==
  /\ Running(e) /\ Rolling /\ desk.pending = {} /\ OldPositions = {}
  /\ \E price \in Quoted :
       Concluded(e,
         Saved(Outcome([desk EXCEPT !.active = Configured(desk.tick),
                                    !.until = desk.runs + Plan.roll.cooldown_ticks]), price, None),
         {})

\* ROLL_COOLDOWN_BLOCK
CooldownReject(e, d) ==
  /\ Running(e) /\ ~Rolling /\ Cooling /\ Opening(d)
  /\ \E price \in Quoted : Concluded(e, Saved(Outcome(Resolved), price, None), {})

\* What TqKqLiveBroker.portfolio_snapshot may report, and the limits with those figures.
Reports == {None} \cup (IF Live /\ Connected THEN [cash : Balances, risky : BOOLEAN] ELSE {})

\* The quotes of the order and of what is held, to weigh them, of the fill, and of what
\* is held when the snapshot is saved.
Decide(e, d) ==
  /\ Running(e) /\ ~Rolling /\ ~(Cooling /\ Opening(d))
  /\ \E report \in Reports, quotes \in Quotes({"order", "held", "fill", "saved"}) :
       LET o         == OrderFor(Trading, d.side, d.pside)
           out       == Outcome(Resolved)
           unread    == ~Blocked(desk, o) /\ quotes.order = None
           refused   == Blocked(desk, o) \/ (~unread /\ Risky(desk, quotes, report))
           passed    == ~unread /\ ~refused
           failed    == Saved(Event(out, FALSE), quotes.saved, report)
           submitted == Submitted(out, o, Quantity, quotes.fill, quotes.saved, report)
       IN  \/ ~Allowed(d) /\ Concluded(e, failed, {})
           \/ Allowed(d) /\ unread /\ Aborted(e, Raised(out))
           \/ Allowed(d) /\ refused /\ Concluded(e, Saved(out, quotes.saved, report), {})
           \/ Allowed(d) /\ passed /\ ~Executable(d) /\ Concluded(e, failed, {})
           \/ /\ Allowed(d) /\ passed /\ Executable(d)
              /\ Concluded(e, submitted, {o}) \/ Aborted(e, submitted)

(***************************************************************************)
(* promote_from_datastore and PromotionGate.evaluate.  The gate judges the *)
(* events sorted by ts, the artifacts describe them in the order of the    *)
(* file.                                                                   *)
(***************************************************************************)

\* How many events come no later than the i-th, in a sort that keeps the order of equals.
RankByTime(events, i) ==
  Cardinality({j \in DOMAIN events :
                 \/ events[j].ts < events[i].ts
                 \/ events[j].ts = events[i].ts /\ j <= i})

ByTime(events) ==
  [n \in DOMAIN events |-> events[CHOOSE i \in DOMAIN events : RankByTime(events, i) = n]]

FailureStreak(events) ==
  LET Step(s, event) == IF event.ok THEN [s EXCEPT !.now = 0]
                        ELSE [now |-> s.now + 1, max |-> Max({s.max, s.now + 1})]
  IN  FoldLeft(Step, [now |-> 0, max |-> 0], events).max

\* summarize_execution_events; the rate is success out of size.
Summary(events) ==
  [total   |-> Len(events),
   size    |-> Max({1, Len(events)}),
   success |-> Len(SelectSeq(events, LAMBDA event : event.ok)),
   streak  |-> FailureStreak(events)]

Evaluate(current, candidate) ==
  /\ candidate.total >= Promotion.min_events
  /\ 100 * candidate.success * current.size >=
       (100 * current.success + Promotion.min_success_rate_improvement * current.size)
         * candidate.size
  /\ candidate.streak <= Promotion.max_consecutive_failures

Judged(logs) ==
  LET judged == [e \in Envs |-> Summary(ByTime(logs[e]))]
  IN  [approved |-> Evaluate(judged["live"], judged["sandbox"]),
       judged   |-> judged,
       metrics  |-> [e \in Envs |-> Summary(logs[e])]]

Promote ==
  /\ pc = "sandbox" /\ desk.tick >= Ticks("sandbox") /\ pc' = "summaries"
  /\ verdict' = Judged(log)
  /\ made' = [summaries |-> FALSE, decision |-> None, approved |-> None]
  /\ UNCHANGED <<run, desk, log, snap, files, starts, clock, history>>

(***************************************************************************)
(* The artifacts of the run, one file operation after the other.           *)
(***************************************************************************)

WriteSummaries ==
  /\ pc = "summaries" /\ pc' = "decision"
  /\ IF Promotion.write_summary
     THEN /\ files' = [files EXCEPT !.summaries = [r \in DOMAIN @ |-> starts]]
          /\ made' = [made EXCEPT !.summaries = TRUE]
     ELSE UNCHANGED <<files, made>>
  /\ UNCHANGED <<run, desk, verdict, log, snap, starts, clock, history>>

\* A file named by the second it is written in replaces one of the same second.
WriteDecision ==
  /\ pc = "decision" /\ pc' = "approved"
  /\ clock' \in {clock, clock + 1} /\ clock' <= MaxClock
  /\ IF Promotion.write_decision
     THEN /\ files' = [files EXCEPT !.decisions[clock'] =
                        [run |-> starts, approved |-> verdict.approved]]
          /\ made' = [made EXCEPT !.decision = clock']
     ELSE UNCHANGED <<files, made>>
  /\ UNCHANGED <<run, desk, verdict, log, snap, starts, history>>

\* Mutant: the path is returned whenever the file exists.
WriteApprovedIfExists ==
  /\ pc = "approved" /\ pc' = "manifest"
  /\ files' = IF Promotion.write_approved /\ verdict.approved
              THEN [files EXCEPT !.approved[run.cand] = starts] ELSE files
  /\ made' = IF Promotion.write_approved /\ files'.approved[run.cand] /= None
             THEN [made EXCEPT !.approved = run.cand] ELSE made
  /\ UNCHANGED <<run, desk, verdict, log, snap, starts, clock, history>>

\* write_approved_config: what an earlier run approved for the candidate stays.
WriteApproved ==
  /\ pc = "approved" /\ pc' = "manifest"
  /\ IF Promotion.write_approved /\ verdict.approved
     THEN /\ files' = [files EXCEPT !.approved[run.cand] = starts]
          /\ made' = [made EXCEPT !.approved = run.cand]
     ELSE UNCHANGED <<files, made>>
  /\ UNCHANGED <<run, desk, verdict, log, snap, starts, clock, history>>

\* The run ends with its manifest.
WriteManifest ==
  /\ pc = "manifest"
  /\ clock' \in {clock, clock + 1} /\ clock' <= MaxClock
  /\ IF Promotion.write_manifest
     THEN /\ files' = [files EXCEPT !.manifests[clock'] =
                        [run |-> starts, summaries |-> made.summaries,
                         decision |-> made.decision, approved |-> made.approved]]
          /\ done' = [manifest |-> clock', run |-> starts, approved |-> verdict.approved,
                      promotion |-> Promotion]
     ELSE UNCHANGED files /\ done' = None
  /\ Gone
  /\ UNCHANGED <<log, snap, starts, sent>>

Kill ==
  /\ pc /= "idle" /\ Gone
  /\ UNCHANGED <<log, snap, files, starts, clock, sent, done>>

Init ==
  /\ pc = "idle" /\ run = None /\ desk = None /\ verdict = None /\ made = None
  /\ log = [e \in Envs |-> <<>>] /\ snap = None /\ files = NoFiles /\ starts = 0 /\ clock = 1
  /\ sent = {} /\ mine = [e \in Envs |-> <<>>] /\ liveEnd = None /\ done = None

Next ==
  \/ \E line \in CommandLines : Start(line) \/ Refuse(line)
  \/ CleanLive \/ CleanSandbox \/ CleanFiles
  \/ BuildLive \/ BuildSandbox \/ BuildFails
  \/ \E e \in Envs :
       \/ NoDecision(e) \/ RollCancel(e) \/ RollClose(e) \/ RollActivate(e)
       \/ \E d \in Signals : CooldownReject(e, d) \/ Decide(e, d)
  \/ Promote \/ WriteSummaries \/ WriteDecision \/ WriteApproved \/ WriteManifest
  \/ Kill

Spec == Init /\ [][Next]_vars

(***************************************************************************)
(* Properties.                                                             *)
(***************************************************************************)

\* An order goes to the exchange only under broker parameters that ask for
\* live submission, confirm it and repeat the runtime id, and only for the
\* dotted name of a contract: the loader, the builder and the broker each
\* look at a part of it, and no derivation of modes may lead around them.
RealOrdersConfirmed ==
  \A o \in sent :
    /\ Confirmed(o.params) /\ Get(o.params, "submit_mode", "dry_run") = "live"
    /\ o.contract \in Dotted \ MainAlias

\* The manifest of a completed run names the summaries and the decision its
\* plan asked for, and an approved configuration exactly when its own decision
\* approved and the plan asked to write it (write_* functions); each of them is
\* on disk as this run wrote it, not what an earlier run left under the name.
ManifestTellsItsRun ==
  done /= None =>
    LET m == files.manifests[done.manifest]
    IN  /\ m.run = done.run
        /\ m.summaries <=> done.promotion.write_summary
        /\ m.summaries => \A r \in DOMAIN files.summaries : files.summaries[r] = done.run
        /\ (m.decision /= None) <=> done.promotion.write_decision
        /\ m.decision /= None =>
             files.decisions[m.decision] = [run |-> done.run, approved |-> done.approved]
        /\ (m.approved /= None) <=> (done.approved /\ done.promotion.write_approved)
        /\ m.approved /= None => files.approved[m.approved] = done.run

\* A run started with --clean is judged by its own events alone, and the
\* metrics of its artifacts are those it was judged by, although both stores
\* are append-only files shared with every earlier and every killed run.
CleanRunJudgesItself ==
  verdict /= None /\ run.clean => verdict = Judged(mine) /\ verdict.metrics = verdict.judged

\* The sandbox starts with the positions, the cash and the profits the live
\* session of the same run ended with, read back from the store: the last
\* snapshot lags behind no part of the live portfolio.
SandboxStartsFromLive ==
  pc = "sandbox" /\ desk.tick = 0 /\ liveEnd /= None =>
    desk.acc = [liveEnd EXCEPT !.cost = 0]

\* What the fills of a position brought in is its realized profit less what
\* the units still held cost (PositionLifecycle): average and realized
\* profit account for every fill, over rolls and from live to sandbox.
ProfitConserved ==
  desk /= None =>
    \A k \in Keys :
      desk.acc.flow[k] =
        desk.acc.pnl[k] + desk.acc.qty[k] * (IF k[3] = "long" THEN -desk.acc.avg[k]
                                             ELSE desk.acc.avg[k])

HeldTotal(a) == MapThenSumSet(LAMBDA k : a.qty[k], Keys)

\* On a feed whose price stands still within a tick, a tick that adds to what
\* is held leaves the margin of everything held, of both sides and of every
\* contract, within max_margin_used: the order is weighed before it is sent,
\* with positions booked at other prices, and rolls and closes come between.
\* The other feeds may rise between the quote the order is weighed at and the
\* one the margin is refreshed at, and then the limit is passed.
OpeningWithinMargin ==
  [][desk /= None /\ desk' /= None /\ pc' = pc /\ Steady =>
       (HeldTotal(desk'.acc) > HeldTotal(desk.acc) =>
          ~Exceeds(MarginUsed(desk'.acc, desk'.price), Plan.risk.max_margin_used))]_vars
=============================================================================
