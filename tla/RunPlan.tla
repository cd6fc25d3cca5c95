-------------------------------- MODULE RunPlan --------------------------------
(***************************************************************************)
(* From a plan file to the components of a run: load_plan (config/loader)  *)
(* checks the file and completes it, the session builder turns the plan    *)
(* into market data, instrument specifications, broker and strategies.     *)
(* A JSON object is a function on the keys it has; a file is an object of  *)
(* sections, those nested in "adapters" and "instruments" beside the rest. *)
(***************************************************************************)
EXTENDS Integers, Sequences, TLC

CONSTANTS
  RuntimeId,        \* --runtime-id
  MainAlias,        \* names that end in "_main"
  Dotted,           \* names with a "."
  KnownStrategies,  \* names create_strategy accepts
  KnownSpecs,       \* base symbols with an instrument specification
  Credentials,      \* TQKQ_USER and TQKQ_PASS are set
  None,             \* null
  Malformed         \* a value of a type, or with a content, the loader refuses

ASSUME PlanConfig ==
  /\ MainAlias \subseteq STRING /\ Dotted \subseteq STRING /\ RuntimeId \in STRING
  /\ Credentials \in BOOLEAN
  /\ None \notin Int \cup STRING /\ Malformed \notin Int \cup STRING /\ None /= Malformed

Get(obj, key, default) == IF key \in DOMAIN obj THEN obj[key] ELSE default

Section(raw, name) == Get(raw, name, <<>>)

\* _assert_keys and the type checks; the keys of free are converted whatever they hold.
Object(obj, typed, free) ==
  /\ DOMAIN obj \subseteq typed \cup free
  /\ \A k \in DOMAIN obj \cap typed : obj[k] /= Malformed

(***************************************************************************)
(* default_plan.  RuntimeConfig is built without the plan's                *)
(* default_quantity, stop_loss and take_profit: nothing reads them.        *)
(***************************************************************************)

DefaultRuntime ==
  [mode |-> "simulated_v2", warmup_seconds |-> None, ticks_live |-> 3, ticks_sandbox |-> 3,
   active_top_n |-> 0, rank_window |-> 20, rank_metric |-> "signal_strength",
   rank_refresh_every |-> 1, rank_emit_events |-> 1]

\* The improvement of the success rate in percent.
DefaultPromotion ==
  [min_events |-> 1, min_success_rate_improvement |-> -100, max_consecutive_failures |-> 99,
   write_summary |-> TRUE, write_decision |-> TRUE, write_manifest |-> TRUE,
   write_approved |-> TRUE]

ExecutionKeys ==
  {"max_pending_ticks", "max_rejects_in_window", "reject_window_ticks", "halt_ticks",
   "min_order_interval_ticks"}

DefaultRisk ==
  [max_position_qty_by_symbol |-> <<>>, max_risk_ratio |-> None, max_margin_used |-> None,
   max_notional_by_symbol |-> <<>>]

DefaultRouter == [mode |-> "priority", tie_breaker |-> "priority"]

DefaultRoll ==
  [mode |-> "fixed_contract", contracts |-> "au" :> "au_main" @@ "ag" :> "ag_main",
   close_on_roll |-> FALSE, cooldown_ticks |-> 0, main_contract_schedule |-> <<>>]

DefaultStrategies == <<"name" :> "simple_strategy" @@ "symbols" :> {"au"}>>

(***************************************************************************)
(* load_plan, section by section: what is refused, and the value a key     *)
(* that is left out takes.                                                 *)
(***************************************************************************)

SectionNames ==
  {"universe", "strategies", "runtime", "datastore", "promotion", "router", "market_data",
   "broker", "calendar", "roll_policy", "spec_source", "specs", "execution", "risk"}

Universe(raw) == Get(Section(raw, "universe"), "symbols", {"au"})

ValidUniverse(raw) ==
  /\ Object(Section(raw, "universe"), {"symbols"}, {})
  /\ Universe(raw) \cap MainAlias = {}

StrategyList(raw) ==
  IF Section(raw, "strategies") = <<>> THEN DefaultStrategies ELSE raw["strategies"]

ValidStrategies(raw) ==
  \A i \in DOMAIN StrategyList(raw) :
    LET s == StrategyList(raw)[i]
    IN  /\ Object(s, {"name", "params", "symbols", "priority", "weight"}, {})
        /\ Get(s, "name", "") /= ""
        /\ Get(s, "symbols", {}) \cap MainAlias = {}

RuntimeModes == {"simulated_v2", "live_file", "tqkq_sim", "tqkq_live"}

RuntimeSection(raw) == Section(raw, "runtime") @@ DefaultRuntime

ValidRuntime(raw) ==
  LET r == RuntimeSection(raw)
  IN  /\ Object(Section(raw, "runtime"),
                DOMAIN DefaultRuntime \cup {"default_quantity", "stop_loss", "take_profit"}, {})
      /\ r.mode \in RuntimeModes
      /\ r.active_top_n >= 0 /\ r.rank_window >= 1 /\ r.rank_refresh_every >= 1
      /\ r.rank_metric \in {"signal_strength", "quote_momentum_volume"}
      /\ r.rank_emit_events \in {0, 1}

ValidDatastore(raw) ==
  Object(Section(raw, "datastore"),
         {"store_root", "artifacts_root", "approved_dir", "decisions_dir", "summaries_dir",
          "manifests_dir"}, {})

PromotionSection(raw) == Section(raw, "promotion") @@ DefaultPromotion

ValidPromotion(raw) ==
  Object(Section(raw, "promotion"),
         {"min_events", "min_success_rate_improvement", "max_consecutive_failures"},
         {"write_summary", "write_decision", "write_manifest", "write_approved"})

ExecutionSection(raw) == Section(raw, "execution") @@ [k \in ExecutionKeys |-> None]

ValidExecution(raw) ==
  /\ Object(Section(raw, "execution"), ExecutionKeys, {})
  /\ \A k \in ExecutionKeys : ExecutionSection(raw)[k] /= None => ExecutionSection(raw)[k] >= 1

\* An object keyed by base symbols, none of its values malformed.
BySymbol(obj) == DOMAIN obj \cap MainAlias = {} /\ \A s \in DOMAIN obj : obj[s] /= Malformed

RiskSection(raw) == Section(raw, "risk") @@ DefaultRisk

ValidRisk(raw) ==
  LET r == RiskSection(raw)
  IN  /\ Object(Section(raw, "risk"), DOMAIN DefaultRisk, {})
      /\ \A limits \in {r.max_position_qty_by_symbol, r.max_notional_by_symbol} :
           BySymbol(limits) /\ \A s \in DOMAIN limits : limits[s] >= 0
      /\ \A limit \in {r.max_risk_ratio, r.max_margin_used} : limit /= None => limit >= 0

RouterSection(raw) == Section(raw, "router") @@ DefaultRouter

ValidRouter(raw) ==
  /\ Object(Section(raw, "router"), {"mode", "tie_breaker"}, {})
  /\ RouterSection(raw).mode \in {"priority", "weighted_vote", "netting"}
  /\ RouterSection(raw).tie_breaker \in {"priority", "lex"}

\* trading_sessions: symbol -> the sessions of a day, each with a start and an end.
ValidCalendar(raw) ==
  LET c == Section(raw, "calendar")
  IN  /\ BySymbol(c)
      /\ \A s \in DOMAIN c : \A i \in DOMAIN c[s] :
           Object(c[s][i], {"start", "end"}, {}) /\ {"start", "end"} \subseteq DOMAIN c[s][i]

Roll(raw) == Section(raw, "roll_policy") @@ DefaultRoll

ValidRoll(raw) ==
  LET r == Roll(raw)
  IN  /\ Object(Section(raw, "roll_policy"), DOMAIN DefaultRoll, {})
      /\ r.mode \in {"fixed_contract", "fixed_main"}
      /\ BySymbol(r.contracts) /\ "" \notin {r.contracts[s] : s \in DOMAIN r.contracts}
      /\ Universe(raw) \subseteq DOMAIN r.contracts
      /\ r.cooldown_ticks >= 0
      /\ r.close_on_roll => r.mode = "fixed_main" /\ r.cooldown_ticks > 0
      /\ BySymbol(r.main_contract_schedule)
      /\ \A s \in DOMAIN r.main_contract_schedule :
           LET schedule == r.main_contract_schedule[s]
           IN  schedule /= <<>> /\ \A i \in DOMAIN schedule : schedule[i] \notin {"", Malformed}

SpecSource(raw) == Get(raw, "spec_source", "static")

ValidSpecs(raw) == SpecSource(raw) \in {"static", "tqkq"} /\ BySymbol(Section(raw, "specs"))

MdMode(raw) == Get(Section(raw, "market_data"), "mode", "simulated")

MdParams(raw) == Get(Section(raw, "market_data"), "params", <<>>)

\* A path, or None: the empty path counts as none where one is required.
PricesGiven(raw) == Get(Section(raw, "market_data"), "prices_path", None)

ValidMarketData(raw) ==
  /\ Object(Section(raw, "market_data"), {"mode", "prices_path", "params"}, {})
  /\ MdMode(raw) \in {"tqkq", "simulated", "simulated_v2", "live_file"}
  /\ MdMode(raw) = "live_file" => PricesGiven(raw) \notin {None, ""}

BrokerMode(raw) == Get(Section(raw, "broker"), "mode", "simulated")

BrokerParams(raw) == Get(Section(raw, "broker"), "params", <<>>)

BrokerKeys(mode) ==
  CASE mode = "tqkq_live" -> {"submit_mode", "confirm_live", "confirm_live_token"}
    [] mode = "tqkq_sim"  -> {"no_fill"}
    [] mode = "simulated" -> {"fill_delay_ticks", "partial_fill_ratio", "max_partial_steps",
                              "max_ticks_to_fill", "no_fill"}

Confirmed(params) ==
  /\ Get(params, "confirm_live", FALSE) = TRUE
  /\ Get(params, "confirm_live_token", "") = RuntimeId

\* _validate_broker_params, on the mode the file gives the broker.
ValidBroker(raw) ==
  LET mode == BrokerMode(raw)  params == BrokerParams(raw)
      submit == Get(params, "submit_mode", "dry_run")
  IN  /\ Object(Section(raw, "broker"), {"mode", "params"}, {})
      /\ mode \in {"simulated", "tqkq_sim", "tqkq_live"}
      /\ DOMAIN params \subseteq BrokerKeys(mode)
      /\ mode = "tqkq_live" => /\ submit \in {"dry_run", "live"}
                               /\ submit = "live" => Confirmed(params)

(***************************************************************************)
(* _normalize_runtime_mode: runtime.mode, when the file gives it, decides  *)
(* the adapters; else it is derived from them.                             *)
(***************************************************************************)

TqModes == {"tqkq_sim", "tqkq_live"}

ExpectedMd(mode) == IF mode \in TqModes THEN "tqkq" ELSE mode

ExpectedBroker(mode) == IF mode \in TqModes THEN mode ELSE "simulated"

ExpectedSpec(mode) == IF mode \in TqModes THEN "tqkq" ELSE "static"

ModeGiven(raw) == "mode" \in DOMAIN Section(raw, "runtime")

Mode(raw) ==
  IF ModeGiven(raw) THEN RuntimeSection(raw).mode
  ELSE IF BrokerMode(raw) \in TqModes THEN BrokerMode(raw)
  ELSE IF MdMode(raw) = "live_file" THEN "live_file" ELSE "simulated_v2"

\* _reject_conflict: only what the file says explicitly can conflict.
NoConflict(raw) ==
  LET mode == RuntimeSection(raw).mode
  IN  /\ Get(Section(raw, "market_data"), "mode", ExpectedMd(mode)) = ExpectedMd(mode)
      /\ Get(Section(raw, "broker"), "mode", ExpectedBroker(mode)) = ExpectedBroker(mode)
      /\ Get(raw, "spec_source", ExpectedSpec(mode)) = ExpectedSpec(mode)

Warmup(raw) ==
  LET w == RuntimeSection(raw).warmup_seconds
  IN  IF ModeGiven(raw) /\ Mode(raw) \in TqModes /\ w = None THEN 8 ELSE w

ModeAccepted(raw) ==
  IF ModeGiven(raw)
  THEN /\ NoConflict(raw)
       /\ Mode(raw) \in TqModes =>
            Get(MdParams(raw), "warmup_seconds", None) \in {None, Warmup(raw)}
  ELSE BrokerMode(raw) = "tqkq_sim" => MdMode(raw) = "tqkq"

EffectiveMd(raw) == IF ModeGiven(raw) THEN ExpectedMd(Mode(raw)) ELSE MdMode(raw)

EffectiveBroker(raw) == IF ModeGiven(raw) THEN ExpectedBroker(Mode(raw)) ELSE BrokerMode(raw)

Prices(raw) ==
  IF ModeGiven(raw) /\ Mode(raw) = "live_file" /\ PricesGiven(raw) = None
  THEN "prices.json" ELSE PricesGiven(raw)

EffectiveMdParams(raw) ==
  IF ModeGiven(raw) /\ Mode(raw) \in TqModes
  THEN LET mapping == Get(MdParams(raw), "tq_symbols", None)
       IN  "warmup_seconds" :> Warmup(raw)
             @@ "tq_symbols" :> (IF mapping = None THEN Roll(raw).contracts ELSE mapping)
             @@ MdParams(raw)
  ELSE MdParams(raw)

\* _validate_tqkq_contracts, and again build_broker_with_specs.
RealContracts(roll) ==
  /\ roll.mode = "fixed_contract"
  /\ \A s \in DOMAIN roll.contracts : roll.contracts[s] \in Dotted \ MainAlias

Accepted(raw) ==
  /\ DOMAIN raw \subseteq SectionNames
  /\ ValidUniverse(raw) /\ ValidStrategies(raw) /\ ValidRuntime(raw) /\ ValidDatastore(raw)
  /\ ValidPromotion(raw) /\ ValidExecution(raw) /\ ValidRisk(raw) /\ ValidRouter(raw)
  /\ ValidCalendar(raw) /\ ValidRoll(raw) /\ ValidSpecs(raw)
  /\ ValidMarketData(raw) /\ ValidBroker(raw)
  /\ ModeAccepted(raw)
  /\ EffectiveMd(raw) = "live_file" => Prices(raw) \notin {None, ""}
  /\ EffectiveBroker(raw) \in TqModes => RealContracts(Roll(raw))

\* The RunPlan that load_plan returns.
Loaded(raw) ==
  [universe     |-> Universe(raw),
   strategies   |-> [i \in DOMAIN StrategyList(raw) |-> StrategyList(raw)[i]["name"]],
   runtime      |-> "mode" :> Mode(raw) @@ "warmup_seconds" :> Warmup(raw) @@ RuntimeSection(raw),
   promotion    |-> PromotionSection(raw),
   execution    |-> ExecutionSection(raw),
   risk         |-> RiskSection(raw),
   router       |-> RouterSection(raw),
   calendar     |-> Section(raw, "calendar"),
   roll         |-> Roll(raw),
   spec_source  |-> IF ModeGiven(raw) THEN ExpectedSpec(Mode(raw)) ELSE SpecSource(raw),
   specs        |-> Section(raw, "specs"),
   md           |-> [mode |-> EffectiveMd(raw), prices |-> Prices(raw),
                     params |-> EffectiveMdParams(raw)],
   broker       |-> [mode |-> EffectiveBroker(raw), params |-> BrokerParams(raw)]]

(***************************************************************************)
(* The session builder.  What each part refuses raises and ends the run.   *)
(***************************************************************************)

\* build_strategy_set
StrategiesBuild(plan) ==
  \A i \in DOMAIN plan.strategies : plan.strategies[i] \in KnownStrategies

FakeQuotes(plan) == Get(plan.md.params, "fake_quotes", None)

\* build_market_data; warmed: every symbol of the universe had a quote in time.
MarketDataBuilds(plan, warmed) ==
  CASE plan.md.mode = "tqkq" ->
         LET mapping == Get(plan.md.params, "tq_symbols", None)
         IN  /\ mapping \notin {None, Malformed, <<>>} /\ FakeQuotes(plan) /= Malformed
             /\ FakeQuotes(plan) = None => Credentials
             /\ plan.universe \subseteq DOMAIN mapping
             /\ warmed
    [] plan.md.mode = "live_file" -> plan.md.prices /= None
    [] OTHER -> TRUE

\* build_instrument_specs_registry and specs_for.
SpecsBuild(plan) ==
  /\ plan.spec_source = "tqkq" => plan.md.mode = "tqkq"
  /\ DOMAIN plan.specs \cup plan.universe \subseteq KnownSpecs

\* Mutant: whoever confirms live orders gets them.
DryRunUnlessConfirmed(plan) == Get(plan.broker.params, "confirm_live", FALSE) = FALSE

DryRun(plan) == Get(plan.broker.params, "submit_mode", "dry_run") = "dry_run"

\* build_broker_with_specs checks again what the loader checked.
BrokerBuilds(plan) ==
  /\ plan.broker.mode \in TqModes => RealContracts(plan.roll)
  /\ plan.broker.mode = "tqkq_live" => DryRun(plan) \/ Confirmed(plan.broker.params)
  /\ plan.broker.mode = "tqkq_sim" => plan.md.mode = "tqkq"
=============================================================================
