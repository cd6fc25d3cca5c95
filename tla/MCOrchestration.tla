---------------------------- MODULE MCOrchestration ----------------------------
(***************************************************************************)
(* Plan files for Orchestration: the modes a run may have, and for every   *)
(* section of the file one that load_plan refuses.  Prices are multiples   *)
(* of 24, so that the average of up to four fills is a whole number.       *)
(***************************************************************************)
EXTENDS Orchestration

Real == "au" :> "SHFE.au2508"

Fixed == "roll_policy" :> ("contracts" :> Real)

Ticked(live, sandbox) == "ticks_live" :> live @@ "ticks_sandbox" :> sandbox

RunIn(mode, live, sandbox) == "runtime" :> ("mode" :> mode @@ Ticked(live, sandbox))

Confirmation == "confirm_live" :> TRUE @@ "confirm_live_token" :> "r1"

LiveParams == "submit_mode" :> "live" @@ Confirmation

TqSim ==
  "broker" :> ("mode" :> "tqkq_sim") @@ "market_data" :> ("mode" :> "tqkq") @@ Fixed

TqLive(params) ==
  RunIn("tqkq_live", 1, 1) @@ Fixed @@ "broker" :> ("mode" :> "tqkq_live" @@ "params" :> params)

Fake == "market_data" :> ("params" :> ("fake_quotes" :> "quotes"))

Limited ==
  RunIn("simulated_v2", 2, 1) @@
  "risk" :> ("max_margin_used" :> 14 @@ "max_notional_by_symbol" :> ("au" :> 200))

Schedule == "main_contract_schedule" :> ("au" :> <<"au_main", "au_next">>)

Rolls ==
  RunIn("simulated_v2", 3, 0) @@
  "roll_policy" :> (Schedule @@ "mode" :> "fixed_main" @@ "close_on_roll" :> TRUE @@
                    "cooldown_ticks" :> 2)

Follows == RunIn("simulated_v2", 2, 0) @@ "roll_policy" :> (Schedule @@ "mode" :> "fixed_main")

NoFill(plan) == "broker" :> ("params" :> ("no_fill" :> TRUE)) @@ plan

Strict ==
  RunIn("simulated_v2", 1, 2) @@
  "promotion" :> ("min_success_rate_improvement" :> 0 @@ "max_consecutive_failures" :> 1) @@
  "risk" :> ("max_position_qty_by_symbol" :> ("au" :> 1) @@ "max_risk_ratio" :> 10)

Silent ==
  RunIn("simulated_v2", 1, 1) @@
  "promotion" :> ("write_summary" :> FALSE @@ "write_decision" :> FALSE @@
                  "write_approved" :> FALSE @@ "write_manifest" :> FALSE)

LiveFile == RunIn("live_file", 2, 0) @@ "risk" :> ("max_margin_used" :> 10)

Unwritten == "strategies" :> <<"name" :> "unwritten">>

Line(command, raw, clean) == [command |-> command, raw |-> raw, clean |-> clean]

AcceptedLines ==
  {Line("run_plan", raw, TRUE) : raw \in {Limited, Strict, LiveFile, TqLive(Confirmation)}} \cup
  {Line("run_plan", raw, FALSE) :
     raw \in {Strict, Rolls, NoFill(Rolls), Follows, Silent, Unwritten, TqSim,
              TqLive(LiveParams), Fake @@ TqLive(LiveParams)}} \cup
  {Line("run_local", raw, TRUE) : raw \in {<<>>, Unwritten}}

\* One file for each reason to refuse; the last three look like a confirmation.
RefusedFiles ==
  {"univers" :> <<>>,
   "universe" :> ("symbols" :> {"au_main"}),
   "universe" :> ("symbols" :> {"cu"}),
   "strategies" :> <<"name" :> "">>,
   "runtime" :> ("rank_window" :> 0),
   "datastore" :> ("root" :> "data"),
   "promotion" :> ("min_events" :> Malformed),
   "execution" :> ("halt_ticks" :> 0),
   "risk" :> ("max_risk_ratio" :> -1),
   "router" :> ("mode" :> "first"),
   "calendar" :> ("au" :> <<"start" :> "09:00">>),
   "roll_policy" :> ("close_on_roll" :> TRUE),
   "spec_source" :> "file",
   "market_data" :> ("mode" :> "live_file" @@ "prices_path" :> ""),
   "broker" :> ("mode" :> "tqkq_sim"),
   RunIn("simulated_v2", 1, 1) @@ "broker" :> ("mode" :> "tqkq_live" @@ "params" :> LiveParams),
   "roll_policy" :> ("contracts" :> ("au" :> "au_main")) @@ TqLive(LiveParams),
   TqLive("confirm_live_token" :> "r2" @@ LiveParams),
   TqLive("submit_mode" :> "live" @@ "confirm_live" :> TRUE),
   TqLive("confirm_live" :> Malformed @@ LiveParams)}

MCCommandLines == AcceptedLines \cup {Line("run_plan", raw, FALSE) : raw \in RefusedFiles}

MCSignals ==
  {[decision |-> "open_long",  side |-> "buy",  pside |-> "long"],
   [decision |-> "open_short", side |-> "sell", pside |-> "short"],
   [decision |-> "close",      side |-> "sell", pside |-> "flat"],
   [decision |-> "hold",       side |-> "none", pside |-> "flat"]}
=============================================================================
