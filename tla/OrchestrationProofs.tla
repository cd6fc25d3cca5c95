-------------------------- MODULE OrchestrationProofs --------------------------
(***************************************************************************)
(* Theorems of Orchestration for any plan files, symbols and bounds: under *)
(* which plans an order reaches the exchange, what the manifest of a       *)
(* completed run names, by which events a clean run is judged, what the    *)
(* sandbox of the replay starts from, that the profit of a portfolio is    *)
(* what its fills paid and took, and that, on a feed that stands still     *)
(* within a tick, no order opens beyond the margin its plan allows.        *)
(***************************************************************************)
EXTENDS Orchestration, Sums, TLAPS

-------------------------------------------------------------------------------
(***************************************************************************)
(* What the loader lets through.  The broker parameters are checked for    *)
(* the mode the file names, the effective mode may be another one that     *)
(* runtime.mode decides; the two agree whenever live orders are asked for. *)
(***************************************************************************)

LEMMA LiveSubmitChosen ==
  ASSUME NEW raw, Accepted(raw), EffectiveBroker(raw) = "tqkq_live",
         Get(BrokerParams(raw), "submit_mode", "dry_run") /= "dry_run"
  PROVE  /\ Get(BrokerParams(raw), "submit_mode", "dry_run") = "live"
         /\ Confirmed(BrokerParams(raw))
<1>1. BrokerMode(raw) \in {"simulated", "tqkq_sim", "tqkq_live"}
  BY DEF Accepted, ValidBroker
<1>2. "submit_mode" \in BrokerKeys(BrokerMode(raw))
  BY DEF Accepted, ValidBroker, Get
<1>3. BrokerMode(raw) = "tqkq_live"
  BY <1>1, <1>2 DEF BrokerKeys
<1> QED
  BY <1>3 DEF Accepted, ValidBroker

LEMMA LiveContractsReal ==
  ASSUME NEW raw, Accepted(raw), EffectiveBroker(raw) = "tqkq_live"
  PROVE  /\ Roll(raw).mode = "fixed_contract"
         /\ ~Roll(raw).close_on_roll
         /\ \A s \in Universe(raw) : Roll(raw).contracts[s] \in Dotted \ MainAlias
<1>1. RealContracts(Roll(raw))
  BY DEF Accepted, TqModes
<1> QED
  BY <1>1 DEF RealContracts, Accepted, ValidRoll

LEMMA PlanOfKeeps ==
  ASSUME NEW line \in CommandLines
  PROVE  /\ PlanOf(line).broker.mode = EffectiveBroker(line.raw)
         /\ PlanOf(line).broker.params = BrokerParams(line.raw)
         /\ PlanOf(line).roll = Roll(line.raw)
BY DEF PlanOf, Loaded

-------------------------------------------------------------------------------
(***************************************************************************)
(* The contract traded.  Nothing that happens in a call of run changes the *)
(* active contract, and the configured one is fixed with real orders.      *)
(***************************************************************************)

\* out is an outcome whose desk trades contract c.
Trades(out, c) ==
  /\ {"desk", "events", "saved", "raised"} \subseteq DOMAIN out
  /\ "active" \in DOMAIN out.desk /\ out.desk.active = c

LEMMA OutcomeTrades ==
  ASSUME NEW d, NEW c, "active" \in DOMAIN d, d.active = c
  PROVE  Trades(Outcome(d), c)
BY DEF Trades, Outcome

LEMMA SavedTrades ==
  ASSUME NEW out, NEW c, NEW price, NEW report, Trades(out, c)
  PROVE  Trades(Saved(out, price, report), c)
BY DEF Trades, Saved

LEMMA EventTrades ==
  ASSUME NEW out, NEW c, NEW ok, Trades(out, c)
  PROVE  Trades(Event(out, ok), c)
BY DEF Trades, Event

LEMMA FilledTrades ==
  ASSUME NEW out, NEW c, NEW o, NEW q, NEW price, NEW later, Trades(out, c)
  PROVE  Trades(Filled(out, o, q, price, later), c)
<1> DEFINE p    == FillPrice(price, o.side)
           ev   == Event(out, TRUE)
           paid == [ev EXCEPT !.desk.acc.cost = @ + TradeCost(price, o.side, q)]
           bkd  == [paid EXCEPT !.desk.acc = Booked(@, o, q, p)]
<1>1. Trades(ev, c)
  BY EventTrades
<1> HIDE DEF ev
<1>2. Trades(paid, c)
  BY <1>1 DEF Trades
<1>3. Trades(Raised(paid), c)
  BY <1>2 DEF Trades, Raised
<1>4. Trades(bkd, c)
  BY <1>2 DEF Trades
<1>5. Trades(Saved(bkd, later, None), c)
  BY <1>4, SavedTrades
<1> QED
  BY <1>3, <1>5 DEF Filled, ev

LEMMA SubmittedTrades ==
  ASSUME NEW out, NEW c, NEW o, NEW q, NEW price, NEW later, NEW report, Trades(out, c)
  PROVE  Trades(Submitted(out, o, q, price, later, report), c)
<1> DEFINE kept == [out EXCEPT !.desk.pending = @ \cup {o}]
<1>1. Trades(Raised(out), c) /\ Trades(kept, c)
  BY DEF Trades, Raised
<1>2. Trades(Saved(kept, later, report), c)
  BY <1>1, SavedTrades
<1>3. Trades(Filled(out, o, q, price, later), c)
  BY FilledTrades
<1> QED
  BY <1>1, <1>2, <1>3 DEF Submitted

-------------------------------------------------------------------------------
(***************************************************************************)
(* Real orders.  A running process has the plan of an accepted file, and a *)
(* session whose broker is the live one trades the configured contract.    *)
(***************************************************************************)

PlanIsLoaded ==
  pc /= "idle" => \E line \in CommandLines : Accepted(line.raw) /\ run.plan = PlanOf(line)

ContractIsFixed ==
  pc \in Envs /\ Live =>
    "active" \in DOMAIN desk /\ desk.active \in {None, Plan.roll.contracts[Symbol]}

ConfirmInv == PlanIsLoaded /\ ContractIsFixed /\ RealOrdersConfirmed

LEMMA LivePlan ==
  ASSUME PlanIsLoaded, pc /= "idle", Live
  PROVE  /\ Plan.roll.mode = "fixed_contract" /\ ~Plan.roll.close_on_roll
         /\ Plan.roll.contracts[Symbol] \in Dotted \ MainAlias
         /\ ~DryRun(Plan) => /\ Get(Plan.broker.params, "submit_mode", "dry_run") = "live"
                             /\ Confirmed(Plan.broker.params)
<1>1. PICK line \in CommandLines : Accepted(line.raw) /\ run.plan = PlanOf(line)
  BY DEF PlanIsLoaded
<1>2. EffectiveBroker(line.raw) = "tqkq_live"
  BY <1>1, PlanOfKeeps DEF Live, Plan
<1>3. Symbol \in Universe(line.raw)
  BY <1>1, OrchestrationConfig
<1>4. /\ Plan.roll.mode = "fixed_contract" /\ ~Plan.roll.close_on_roll
      /\ Plan.roll.contracts[Symbol] \in Dotted \ MainAlias
  BY <1>1, <1>2, <1>3, LiveContractsReal, PlanOfKeeps DEF Plan
<1>5. Plan.broker.params = BrokerParams(line.raw)
  BY <1>1, PlanOfKeeps DEF Plan
<1> QED
  BY <1>1, <1>2, <1>4, <1>5, LiveSubmitChosen DEF DryRun

LEMMA LiveTrades ==
  ASSUME PlanIsLoaded, ContractIsFixed, pc \in Envs, Live
  PROVE  Trading = Plan.roll.contracts[Symbol] /\ ~Rolling
BY LivePlan DEF ContractIsFixed, Envs, Trading, Configured, Rolling

\* A tick keeps the invariant when its outcome, under a live broker, trades the
\* configured contract and so do its orders.
LEMMA TickConfirmed ==
  ASSUME ConfirmInv, NEW e \in Envs, pc = e, NEW out, NEW orders,
         Concluded(e, out, orders),
         Live => /\ \E c \in {None, Plan.roll.contracts[Symbol]} : Trades(out, c)
                 /\ \A o \in orders : o.contract = Plan.roll.contracts[Symbol]
  PROVE  ConfirmInv'
<1>1. PlanIsLoaded'
  BY DEF ConfirmInv, PlanIsLoaded, Concluded
<1>2. ContractIsFixed'
  BY DEF ConfirmInv, ContractIsFixed, Concluded, Trades, Live, Plan
<1>3. RealOrdersConfirmed'
  <2>1. CASE ~Sends
    BY <2>1 DEF ConfirmInv, RealOrdersConfirmed, Concluded
  <2>2. CASE Sends
    <3>1. Live /\ ~DryRun(Plan) /\ pc /= "idle"
      BY <2>2 DEF Sends, Envs
    <3>2. /\ Plan.roll.contracts[Symbol] \in Dotted \ MainAlias
          /\ Get(Plan.broker.params, "submit_mode", "dry_run") = "live"
          /\ Confirmed(Plan.broker.params)
      BY <3>1, LivePlan DEF ConfirmInv
    <3>3. SUFFICES ASSUME NEW s \in sent' PROVE
            /\ Confirmed(s.params) /\ Get(s.params, "submit_mode", "dry_run") = "live"
            /\ s.contract \in Dotted \ MainAlias
      BY DEF RealOrdersConfirmed
    <3>4. CASE s \in sent
      BY <3>4 DEF ConfirmInv, RealOrdersConfirmed
    <3>5. CASE \E o \in orders : s = [params |-> Plan.broker.params, contract |-> o.contract]
      BY <3>1, <3>2, <3>5
    <3> QED
      BY <2>2, <3>4, <3>5 DEF Concluded
  <2> QED
    BY <2>1, <2>2
<1> QED
  BY <1>1, <1>2, <1>3 DEF ConfirmInv

LEMMA AbortConfirmed ==
  ASSUME ConfirmInv, NEW e \in Envs, NEW out, Aborted(e, out)
  PROVE  ConfirmInv'
BY DEF ConfirmInv, PlanIsLoaded, ContractIsFixed, RealOrdersConfirmed, Aborted, Gone, Envs

\* Steps outside the ticks send nothing; a session starts without a contract.
LEMMA ElsewhereConfirmed ==
  ASSUME ConfirmInv, UNCHANGED sent,
         \/ pc' = "idle"
         \/ pc /= "idle" /\ UNCHANGED run /\ pc' \notin Envs
         \/ pc /= "idle" /\ UNCHANGED run /\ \E a : desk' = NewDesk(a)
  PROVE  ConfirmInv'
BY DEF ConfirmInv, PlanIsLoaded, ContractIsFixed, RealOrdersConfirmed, NewDesk, Plan, Live, Envs

LEMMA ConfirmInit == Init => ConfirmInv
BY DEF Init, ConfirmInv, PlanIsLoaded, ContractIsFixed, RealOrdersConfirmed, Envs

LEMMA ConfirmStep == ConfirmInv /\ [Next]_vars => ConfirmInv'
<1> SUFFICES ASSUME ConfirmInv, [Next]_vars PROVE ConfirmInv'
  OBVIOUS
<1> USE DEF history
<1>1. CASE UNCHANGED vars
  BY <1>1 DEF vars, ConfirmInv, PlanIsLoaded, ContractIsFixed, RealOrdersConfirmed, Plan, Live
<1>2. ASSUME NEW line \in CommandLines, Start(line) PROVE ConfirmInv'
  BY <1>2 DEF Start, ConfirmInv, PlanIsLoaded, ContractIsFixed, RealOrdersConfirmed, Envs
<1>3. ASSUME NEW line \in CommandLines, Refuse(line) PROVE ConfirmInv'
  BY <1>3, ElsewhereConfirmed DEF Refuse
<1>4. CASE CleanLive \/ CleanSandbox \/ CleanFiles
  BY <1>4, ElsewhereConfirmed DEF CleanLive, CleanSandbox, CleanFiles, Envs
<1>5. CASE BuildLive \/ BuildSandbox
  BY <1>5, ElsewhereConfirmed DEF BuildLive, BuildSandbox
<1>6. CASE BuildFails \/ Kill
  BY <1>6, ElsewhereConfirmed DEF BuildFails, Kill, Gone
<1>7. ASSUME NEW e \in Envs, NoDecision(e) PROVE ConfirmInv'
  <2>1. pc = e /\ Concluded(e, Outcome(desk), {})
    BY <1>7 DEF NoDecision, Running
  <2>2. Live => \E c \in {None, Plan.roll.contracts[Symbol]} : Trades(Outcome(desk), c)
    BY <2>1, OutcomeTrades DEF ConfirmInv, ContractIsFixed
  <2> QED
    BY <2>1, <2>2, TickConfirmed
<1>8. ASSUME NEW e \in Envs, RollCancel(e) \/ RollClose(e) \/ RollActivate(e)
      PROVE  ConfirmInv'
  <2>1. pc = e /\ ~Live
    BY <1>8, LiveTrades DEF RollCancel, RollClose, RollActivate, Running, ConfirmInv
  <2>2. \/ \E out, orders : Concluded(e, out, orders)
        \/ \E out : Aborted(e, out)
    BY <1>8 DEF RollCancel, RollClose, RollActivate
  <2> QED
    BY <2>1, <2>2, TickConfirmed, AbortConfirmed
<1>9. ASSUME NEW e \in Envs, NEW d \in Signals, CooldownReject(e, d) PROVE ConfirmInv'
  <2>1. PICK price \in Quoted : pc = e /\ Concluded(e, Saved(Outcome(Resolved), price, None), {})
    BY <1>9 DEF CooldownReject, Running
  <2>2. Live => Trades(Saved(Outcome(Resolved), price, None), Plan.roll.contracts[Symbol])
    BY <2>1, LiveTrades, OutcomeTrades, SavedTrades DEF Resolved, ConfirmInv, ContractIsFixed
  <2> QED
    BY <2>1, <2>2, TickConfirmed
<1>10. ASSUME NEW e \in Envs, NEW d \in Signals, Decide(e, d)
       PROVE  ConfirmInv'
  <2> DEFINE o == OrderFor(Trading, d.side, d.pside)
  <2>1. pc = e
    BY <1>10 DEF Decide, Running
  <2>2. PICK report \in Reports, quotes \in Quotes({"order", "held", "fill", "saved"}) :
          LET out       == Outcome(Resolved)
              failed    == Saved(Event(out, FALSE), quotes.saved, report)
              submitted == Submitted(out, o, Quantity, quotes.fill, quotes.saved, report)
          IN  \/ Concluded(e, Saved(out, quotes.saved, report), {})
              \/ Concluded(e, failed, {})
              \/ Concluded(e, submitted, {o})
              \/ \E stop : Aborted(e, stop)
    BY <1>10 DEF Decide
  <2> DEFINE out       == Outcome(Resolved)
             failed    == Saved(Event(out, FALSE), quotes.saved, report)
             submitted == Submitted(out, o, Quantity, quotes.fill, quotes.saved, report)
             c         == Plan.roll.contracts[Symbol]
  <2>3. Live => o.contract = c /\ Trades(out, c)
    BY <2>1, LiveTrades, OutcomeTrades DEF Resolved, OrderFor, ConfirmInv, ContractIsFixed
  <2> HIDE DEF out, c, o
  <2>4. Live => /\ Trades(Saved(out, quotes.saved, report), c)
                /\ Trades(failed, c) /\ Trades(submitted, c)
    BY <2>3, SavedTrades, EventTrades, SubmittedTrades
  <2> HIDE DEF failed, submitted
  <2>5. CASE Concluded(e, Saved(out, quotes.saved, report), {})
    BY <2>1, <2>4, <2>5, TickConfirmed DEF c
  <2>6. CASE Concluded(e, failed, {})
    BY <2>1, <2>4, <2>6, TickConfirmed DEF c
  <2>7. CASE Concluded(e, submitted, {o})
    BY <2>1, <2>3, <2>4, <2>7, TickConfirmed DEF c
  <2>8. CASE \E stop : Aborted(e, stop)
    BY <2>8, AbortConfirmed
  <2> QED
    BY <2>2, <2>5, <2>6, <2>7, <2>8 DEF out, failed, submitted, o
<1>11. CASE Promote \/ WriteSummaries \/ WriteDecision \/ WriteApproved
  BY <1>11, ElsewhereConfirmed
     DEF Promote, WriteSummaries, WriteDecision, WriteApproved, Envs
<1>12. CASE WriteManifest
  BY <1>12, ElsewhereConfirmed DEF WriteManifest, Gone
<1> QED
  BY <1>1, <1>2, <1>3, <1>4, <1>5, <1>6, <1>7, <1>8, <1>9, <1>10, <1>11, <1>12 DEF Next

\* An order reaches the exchange only under parameters that ask for live
\* submission and repeat the runtime id, for a real contract: whatever plan
\* files the runs are given, and whichever adapters runtime.mode derives.
THEOREM OrdersConfirmed == Spec => []RealOrdersConfirmed
<1>1. ConfirmInv => RealOrdersConfirmed
  BY DEF ConfirmInv
<1> QED
  BY <1>1, ConfirmInit, ConfirmStep, PTL DEF Spec

-------------------------------------------------------------------------------
(***************************************************************************)
(* The manifest.  What the process remembers to have written is on disk as *)
(* it wrote it, until it ends: nothing else writes meanwhile.              *)
(***************************************************************************)

FileTypes ==
  /\ clock \in 1..MaxClock
  /\ {"summaries", "decisions", "approved", "manifests"} \subseteq DOMAIN files
  /\ DOMAIN files.decisions = 1..MaxClock /\ DOMAIN files.manifests = 1..MaxClock
  /\ DOMAIN files.approved = 0..MaxClock
  /\ pc /= "idle" => run.cand \in 0..MaxClock

Writing == pc \in {"summaries", "decision", "approved", "manifest"}

WrittenByRun ==
  Writing =>
    /\ made.summaries => \A r \in DOMAIN files.summaries : files.summaries[r] = starts
    /\ made.decision /= None =>
         files.decisions[made.decision] = [run |-> starts, approved |-> verdict.approved]
    /\ made.approved /= None => files.approved[made.approved] = starts

MadeSoFar ==
  /\ Writing => DOMAIN made = {"summaries", "decision", "approved"}
  /\ pc = "summaries" => ~made.summaries
  /\ pc \in {"summaries", "decision"} => made.decision = None
  /\ pc \in {"summaries", "decision", "approved"} => made.approved = None

\* What is made once its step is taken is what the plan asks for.
MadeAsAsked ==
  /\ pc \in {"decision", "approved", "manifest"} => (made.summaries <=> Promotion.write_summary)
  /\ pc \in {"approved", "manifest"} => ((made.decision /= None) <=> Promotion.write_decision)
  /\ pc = "manifest" =>
       ((made.approved /= None) <=> (verdict.approved /\ Promotion.write_approved))

ManifestInv ==
  /\ FileTypes /\ WrittenByRun /\ MadeSoFar /\ MadeAsAsked
  /\ pc /= "idle" => done = None
  /\ ManifestTellsItsRun

manifestState == <<starts, clock, files, run, made, verdict, done>>

\* A step before the artifacts are written keeps the invariant.
LEMMA ManifestUntouched ==
  ASSUME ManifestInv, UNCHANGED manifestState, ~Writing', pc /= "idle"
  PROVE  ManifestInv'
BY DEF ManifestInv, FileTypes, WrittenByRun, MadeSoFar, MadeAsAsked, ManifestTellsItsRun,
       manifestState, Writing

\* So does the end of a process that wrote no manifest.
LEMMA ManifestGone ==
  ASSUME ManifestInv, Gone, UNCHANGED <<starts, clock, files, done>>, pc /= "idle"
  PROVE  ManifestInv'
BY DEF ManifestInv, FileTypes, WrittenByRun, MadeSoFar, MadeAsAsked, ManifestTellsItsRun, Gone, Writing

LEMMA ManifestTick ==
  ASSUME ManifestInv, NEW e \in Envs, pc = e, NEW out, NEW orders,
         Concluded(e, out, orders) \/ Aborted(e, out)
  PROVE  ManifestInv'
<1>1. CASE Concluded(e, out, orders)
  BY <1>1, ManifestUntouched DEF Concluded, Written, manifestState, Writing, Envs
<1>2. CASE Aborted(e, out)
  BY <1>2, ManifestGone DEF Aborted, Written, Envs
<1> QED
  BY <1>1, <1>2

LEMMA ManifestInit == Init => ManifestInv
BY OrchestrationConfig
   DEF Init, NoFiles, ManifestInv, FileTypes, WrittenByRun, MadeSoFar, MadeAsAsked,
       ManifestTellsItsRun, Writing

LEMMA ManifestStep == ManifestInv /\ [Next]_vars => ManifestInv'
<1> SUFFICES ASSUME ManifestInv, [Next]_vars PROVE ManifestInv'
  OBVIOUS
<1> USE DEF history
<1>1. CASE UNCHANGED vars
  BY <1>1
     DEF vars, ManifestInv, FileTypes, WrittenByRun, MadeSoFar, MadeAsAsked, ManifestTellsItsRun,
         Writing, Promotion
<1>2. ASSUME NEW line \in CommandLines, Start(line) PROVE ManifestInv'
  BY <1>2, OrchestrationConfig
     DEF Start, ManifestInv, FileTypes, WrittenByRun, MadeSoFar, MadeAsAsked,
         ManifestTellsItsRun, Writing
<1>3. ASSUME NEW line \in CommandLines, Refuse(line) PROVE ManifestInv'
  BY <1>3
     DEF Refuse, ManifestInv, FileTypes, WrittenByRun, MadeSoFar, MadeAsAsked,
         ManifestTellsItsRun, Writing
<1>4. CASE CleanLive \/ CleanSandbox
  BY <1>4, ManifestUntouched DEF CleanLive, CleanSandbox, manifestState, Writing
<1>5. CASE CleanFiles
  BY <1>5
     DEF CleanFiles, NoFiles, ManifestInv, FileTypes, WrittenByRun, MadeSoFar, MadeAsAsked,
         ManifestTellsItsRun, Writing
<1>6. CASE BuildLive \/ BuildSandbox
  BY <1>6, ManifestUntouched DEF BuildLive, BuildSandbox, manifestState, Writing
<1>7. CASE BuildFails \/ Kill
  BY <1>7, ManifestGone DEF BuildFails, Kill
<1>8. ASSUME NEW e \in Envs,
             \/ NoDecision(e) \/ RollCancel(e) \/ RollClose(e) \/ RollActivate(e)
             \/ \E d \in Signals : CooldownReject(e, d) \/ Decide(e, d)
      PROVE  ManifestInv'
  <2> DEFINE Goes == \E out, orders : Concluded(e, out, orders) \/ Aborted(e, out)
  <2>1. pc = e
    BY <1>8 DEF NoDecision, RollCancel, RollClose, RollActivate, CooldownReject, Decide, Running
  <2>2. NoDecision(e) => Goes
    BY DEF NoDecision
  <2>3. ASSUME RollCancel(e) PROVE Goes
    BY <2>3 DEF RollCancel
  <2>4. ASSUME RollClose(e) PROVE Goes
    BY <2>4 DEF RollClose
  <2>5. ASSUME RollActivate(e) PROVE Goes
    BY <2>5 DEF RollActivate
  <2>6. ASSUME NEW d \in Signals, CooldownReject(e, d)
        PROVE  Goes
    BY <2>6 DEF CooldownReject
  <2>7. ASSUME NEW d \in Signals, Decide(e, d) PROVE Goes
    BY <2>7 DEF Decide
  <2>8. Goes
    <3> HIDE DEF Goes
    <3> QED
      BY <1>8, <2>2, <2>3, <2>4, <2>5, <2>6, <2>7
  <2>9. PICK out, orders : Concluded(e, out, orders) \/ Aborted(e, out)
    BY <2>8
  <2> QED
    BY <2>1, <2>9, ManifestTick
<1>9. CASE Promote
  BY <1>9
     DEF Promote, ManifestInv, FileTypes, WrittenByRun, MadeSoFar, MadeAsAsked,
         ManifestTellsItsRun, Writing
<1>10. CASE WriteSummaries
  <2> USE <1>10 DEF WriteSummaries, ManifestInv
  <2>1. FileTypes' /\ MadeSoFar' /\ WrittenByRun'
    BY DEF FileTypes, MadeSoFar, WrittenByRun, Writing
  <2>2. MadeAsAsked'
    BY DEF MadeSoFar, MadeAsAsked, Writing, Promotion
  <2> QED
    BY <2>1, <2>2 DEF ManifestTellsItsRun
<1>11. CASE WriteDecision
  <2> USE <1>11 DEF WriteDecision, ManifestInv
  <2>1. clock' \in 1..MaxClock
    BY OrchestrationConfig DEF FileTypes
  <2>2. /\ DOMAIN files' = DOMAIN files /\ files'.summaries = files.summaries
        /\ files'.approved = files.approved /\ files'.manifests = files.manifests
        /\ files'.decisions = files.decisions \/
             files'.decisions = [files.decisions EXCEPT ![clock'] =
                                   [run |-> starts, approved |-> verdict.approved]]
    BY DEF FileTypes
  <2>3. FileTypes'
    BY <2>1, <2>2 DEF FileTypes
  <2>4. WrittenByRun'
    <3>1. CASE Promotion.write_decision
      <4>1. files'.decisions = [files.decisions EXCEPT ![clock'] =
                                  [run |-> starts, approved |-> verdict.approved]]
        BY <3>1 DEF FileTypes
      <4>2. files'.decisions[clock'] = [run |-> starts, approved |-> verdict.approved]
        BY <2>1, <4>1 DEF FileTypes
      <4>3. made'.decision = clock' /\ made'.approved = None /\ made'.summaries = made.summaries
        BY <3>1 DEF MadeSoFar, Writing
      <4> QED
        BY <2>2, <4>2, <4>3 DEF WrittenByRun, Writing
    <3>2. CASE ~Promotion.write_decision
      BY <3>2 DEF WrittenByRun, MadeSoFar, MadeAsAsked, Writing
    <3> QED
      BY <3>1, <3>2
  <2>5. MadeSoFar'
    BY DEF MadeSoFar, Writing
  <2>6. MadeAsAsked'
    <3>1. clock' /= None
      BY <2>1, PlanConfig
    <3>2. /\ made'.summaries = made.summaries
          /\ made'.decision = IF Promotion.write_decision THEN clock' ELSE None
      BY DEF MadeSoFar, Writing
    <3>3. Promotion' = Promotion /\ pc = "decision" /\ pc' = "approved"
      BY DEF Promotion
    <3>4. made.summaries <=> Promotion.write_summary
      BY <3>3 DEF MadeAsAsked
    <3> QED
      BY ONLY <3>1, <3>2, <3>3, <3>4 DEF MadeAsAsked
  <2> QED
    BY <2>3, <2>4, <2>5, <2>6 DEF ManifestTellsItsRun
<1>12. CASE WriteApproved
  <2> USE <1>12 DEF WriteApproved, ManifestInv
  <2>0. /\ pc = "approved" /\ pc' = "manifest"
        /\ UNCHANGED <<run, verdict, starts, clock, done>>
    OBVIOUS
  <2>1. FileTypes' /\ MadeSoFar'
    BY DEF FileTypes, MadeSoFar, Writing
  <2>3. WrittenByRun'
    <3>1. CASE Promotion.write_approved /\ verdict.approved
      <4>1. /\ files' = [files EXCEPT !.approved[run.cand] = starts]
            /\ made' = [made EXCEPT !.approved = run.cand]
        BY <3>1
      <4>2. files'.approved[run.cand] = starts /\ made'.approved = run.cand
        BY <4>1, <2>0 DEF FileTypes, MadeSoFar, Writing
      <4>3. /\ files'.summaries = files.summaries /\ files'.decisions = files.decisions
            /\ made'.summaries = made.summaries /\ made'.decision = made.decision
        BY <4>1, <2>0 DEF FileTypes, MadeSoFar, Writing
      <4> QED
        BY <2>0, <4>2, <4>3 DEF WrittenByRun, Writing
    <3>2. CASE ~(Promotion.write_approved /\ verdict.approved)
      BY <2>0, <3>2 DEF WrittenByRun, Writing
    <3> QED
      BY <3>1, <3>2
  <2>2. MadeAsAsked'
    <3>1. run.cand /= None
      BY PlanConfig DEF FileTypes
    <3>2. /\ made'.summaries = made.summaries /\ made'.decision = made.decision
          /\ made.approved = None
          /\ made'.approved = IF Promotion.write_approved /\ verdict.approved THEN run.cand
                              ELSE made.approved
      BY DEF MadeSoFar, Writing
    <3> QED
      BY <3>1, <3>2 DEF MadeAsAsked, Promotion
  <2> QED
    BY <2>1, <2>2, <2>3 DEF ManifestTellsItsRun
<1>13. CASE WriteManifest
  <2> USE <1>13 DEF WriteManifest, Gone, ManifestInv
  <2>1. clock' \in 1..MaxClock
    BY OrchestrationConfig DEF FileTypes
  <2>2. /\ DOMAIN files' = DOMAIN files /\ files'.summaries = files.summaries
        /\ files'.approved = files.approved /\ files'.decisions = files.decisions
        /\ DOMAIN files'.manifests = DOMAIN files.manifests
    BY DEF FileTypes
  <2>3. FileTypes'
    BY <2>1, <2>2 DEF FileTypes
  <2>4. WrittenByRun' /\ MadeSoFar' /\ MadeAsAsked'
    BY DEF WrittenByRun, MadeSoFar, MadeAsAsked, Writing
  <2>5. ManifestTellsItsRun'
    <3>1. CASE Promotion.write_manifest
      <4>1. files'.manifests[clock'] =
              [run |-> starts, summaries |-> made.summaries, decision |-> made.decision,
               approved |-> made.approved]
        BY <2>1, <3>1 DEF FileTypes
      <4>2. /\ done'.manifest = clock' /\ done'.run = starts
            /\ done'.approved = verdict.approved /\ done'.promotion = Promotion
        BY <3>1
      <4>3. /\ made.summaries <=> Promotion.write_summary
            /\ (made.decision /= None) <=> Promotion.write_decision
            /\ (made.approved /= None) <=> (verdict.approved /\ Promotion.write_approved)
        BY DEF MadeAsAsked
      <4> QED
        BY <2>2, <4>1, <4>2, <4>3 DEF WrittenByRun, Writing, ManifestTellsItsRun
    <3>2. CASE ~Promotion.write_manifest
      BY <3>2 DEF ManifestTellsItsRun
    <3> QED
      BY <3>1, <3>2
  <2> QED
    BY <2>3, <2>4, <2>5
<1> QED
  BY <1>1, <1>2, <1>3, <1>4, <1>5, <1>6, <1>7, <1>8, <1>9, <1>10, <1>11, <1>12, <1>13 DEF Next

\* The manifest of a completed run names the summaries and the decision when
\* its plan asked for them, and an approved configuration exactly when its own
\* decision approved and the plan asked to write it, all of them on disk as
\* this run wrote them: with any number of runs, killed ones among them, on the
\* same directories, and seconds in which several of them write.
THEOREM ManifestOfItsRun == Spec => []ManifestTellsItsRun
<1>1. ManifestInv => ManifestTellsItsRun
  BY DEF ManifestInv
<1> QED
  BY <1>1, ManifestInit, ManifestStep, PTL DEF Spec

-------------------------------------------------------------------------------
(***************************************************************************)
(* Events in the order of time.  Sorting a log that is in order already    *)
(* does not change it.                                                     *)
(***************************************************************************)

Events == [ts : Nat, ok : BOOLEAN]

\* The events come in the order of their ts, all of them from lo to hi.
InOrder(events, lo, hi) ==
  /\ events \in Seq(Events)
  /\ \A i \in 1..Len(events) : lo <= events[i].ts /\ events[i].ts <= hi
  /\ \A i, j \in 1..Len(events) : i <= j => events[i].ts <= events[j].ts

LEMMA EventsTimed ==
  ASSUME NEW events \in Seq(Events), NEW i \in 1..Len(events)
  PROVE  events[i].ts \in Nat
<1>1. events[i] \in Events
  OBVIOUS
<1> QED
  BY <1>1 DEF Events

LEMMA InOrderEmpty == ASSUME NEW lo \in Nat, NEW hi \in Nat PROVE InOrder(<<>>, lo, hi)
BY DEF InOrder

LEMMA InOrderWider ==
  ASSUME NEW events, NEW lo \in Nat, NEW hi \in Nat, NEW more \in Nat, hi <= more,
         InOrder(events, lo, hi)
  PROVE  InOrder(events, lo, more)
<1>1. \A i \in 1..Len(events) : events[i].ts \in Nat
  BY EventsTimed DEF InOrder
<1> QED
  BY <1>1 DEF InOrder

LEMMA InOrderAppend ==
  ASSUME NEW events, NEW lo \in Nat, NEW hi \in Nat, lo <= hi, NEW ok \in BOOLEAN,
         InOrder(events, lo, hi)
  PROVE  InOrder(Append(events, [ts |-> hi, ok |-> ok]), lo, hi)
<1> DEFINE event == [ts |-> hi, ok |-> ok]
           longer == Append(events, event)
<1>1. events \in Seq(Events) /\ event \in Events /\ event.ts = hi
  BY DEF InOrder, Events
<1> HIDE DEF event
<1>2. /\ longer \in Seq(Events) /\ Len(longer) = Len(events) + 1 /\ Len(events) \in Nat
      /\ \A i \in 1..Len(events) : longer[i] = events[i]
      /\ longer[Len(events) + 1] = event
  BY <1>1
<1> HIDE DEF longer
<1>3. \A i \in 1..Len(events) : lo <= events[i].ts /\ events[i].ts <= hi
  BY DEF InOrder
<1>4. \A i \in 1..Len(longer) : lo <= longer[i].ts /\ longer[i].ts <= hi
  BY <1>1, <1>2, <1>3
<1>5. ASSUME NEW i \in 1..Len(longer), NEW j \in 1..Len(longer), i <= j
      PROVE  longer[i].ts <= longer[j].ts
  <2>1. CASE j = Len(events) + 1
    BY <1>1, <1>2, <1>4, <2>1
  <2>2. CASE j \in 1..Len(events)
    BY <1>2, <1>5, <2>2 DEF InOrder
  <2> QED
    BY <1>2, <2>1, <2>2
<1>6. InOrder(longer, lo, hi)
  BY <1>2, <1>4, <1>5 DEF InOrder
<1> QED
  BY <1>6 DEF longer, event

LEMMA InOrderConcat ==
  ASSUME NEW s, NEW t, NEW lo \in Nat, NEW mid \in Nat, NEW hi \in Nat, lo <= mid, mid <= hi,
         InOrder(s, lo, mid), InOrder(t, mid, hi)
  PROVE  InOrder(s \o t, lo, hi)
<1> DEFINE both == s \o t
<1>1. s \in Seq(Events) /\ t \in Seq(Events)
  BY DEF InOrder
<1>2. /\ both \in Seq(Events) /\ Len(both) = Len(s) + Len(t) /\ Len(s) \in Nat /\ Len(t) \in Nat
      /\ \A i \in 1..Len(s) : both[i] = s[i]
      /\ \A i \in 1..Len(both) : i > Len(s) => both[i] = t[i - Len(s)] /\ i - Len(s) \in 1..Len(t)
  BY <1>1
<1> HIDE DEF both
<1>3. /\ \A i \in 1..Len(s) : s[i].ts \in Nat /\ lo <= s[i].ts /\ s[i].ts <= mid
      /\ \A i \in 1..Len(t) : t[i].ts \in Nat /\ mid <= t[i].ts /\ t[i].ts <= hi
  BY <1>1, EventsTimed DEF InOrder
<1>4. \A i \in 1..Len(both) : lo <= both[i].ts /\ both[i].ts <= hi
  <2> TAKE i \in 1..Len(both)
  <2>1. CASE i \in 1..Len(s)
    BY <1>2, <1>3, <2>1
  <2>2. CASE i > Len(s)
    BY <1>2, <1>3, <2>2
  <2> QED
    BY <1>2, <2>1, <2>2
<1>5. ASSUME NEW i \in 1..Len(both), NEW j \in 1..Len(both), i <= j
      PROVE  both[i].ts <= both[j].ts
  <2>1. CASE j \in 1..Len(s)
    <3>1. i \in 1..Len(s) /\ both[i] = s[i] /\ both[j] = s[j]
      BY <1>2, <1>5, <2>1
    <3> QED
      BY <1>5, <2>1, <3>1 DEF InOrder
  <2>2. CASE i \in 1..Len(s) /\ j > Len(s)
    BY <1>2, <1>3, <2>2
  <2>3. CASE i > Len(s)
    <3>1. /\ both[i] = t[i - Len(s)] /\ i - Len(s) \in 1..Len(t)
          /\ both[j] = t[j - Len(s)] /\ j - Len(s) \in 1..Len(t)
      BY <1>2, <1>5, <2>3
    <3>2. i - Len(s) <= j - Len(s)
      BY <1>2, <1>5
    <3> QED
      BY <3>1, <3>2 DEF InOrder
  <2> QED
    BY <1>2, <1>5, <2>1, <2>2, <2>3
<1>6. InOrder(both, lo, hi)
  BY <1>2, <1>4, <1>5 DEF InOrder
<1> QED
  BY <1>6 DEF both

LEMMA RankInOrder ==
  ASSUME NEW events, NEW hi \in Nat, InOrder(events, 0, hi), NEW i \in DOMAIN events
  PROVE  RankByTime(events, i) = i
<1>1. DOMAIN events = 1..Len(events) /\ Len(events) \in Nat
  BY DEF InOrder
<1>2. \A j \in 1..Len(events) : events[j].ts \in Nat
  BY EventsTimed DEF InOrder
<1>3. {j \in DOMAIN events : events[j].ts < events[i].ts
                               \/ (events[j].ts = events[i].ts /\ j <= i)} = 1..i
  <2>1. ASSUME NEW j \in 1..i
        PROVE  events[j].ts < events[i].ts \/ (events[j].ts = events[i].ts /\ j <= i)
    <3>1. j \in 1..Len(events) /\ i \in 1..Len(events) /\ j <= i
      BY <1>1
    <3>2. events[j].ts <= events[i].ts
      BY <3>1 DEF InOrder
    <3> QED
      BY <1>2, <3>1, <3>2
  <2>2. ASSUME NEW j \in 1..Len(events), j > i
        PROVE  ~ (events[j].ts < events[i].ts)
    <3>1. i \in 1..Len(events) /\ i <= j
      BY <1>1, <2>2
    <3>2. events[i].ts <= events[j].ts
      BY <3>1 DEF InOrder
    <3> QED
      BY <1>2, <3>1, <3>2
  <2> QED
    BY <1>1, <2>1, <2>2
<1>4. Cardinality(1..i) = i
  BY <1>1, FS_Interval
<1> QED
  BY <1>3, <1>4 DEF RankByTime

LEMMA ByTimeInOrder ==
  ASSUME NEW events, NEW hi \in Nat, InOrder(events, 0, hi)
  PROVE  ByTime(events) = events
<1>1. \A i \in DOMAIN events : RankByTime(events, i) = i
  BY RankInOrder
<1>2. \A n \in DOMAIN events : (CHOOSE i \in DOMAIN events : RankByTime(events, i) = n) = n
  BY <1>1
<1>3. events = [n \in DOMAIN events |-> events[n]]
  BY DEF InOrder
<1> QED
  BY <1>2, <1>3 DEF ByTime

-------------------------------------------------------------------------------
(***************************************************************************)
(* One call of run, as far as the judge and the sandbox depend on it: the  *)
(* events it appends carry the number of the run they belong to, and the   *)
(* portfolio is saved after everything that changes it.                    *)
(***************************************************************************)

\* out came from desk d by a part of a call.
Going(out, d) ==
  /\ {"desk", "events", "saved", "raised"} \subseteq DOMAIN out
  /\ {"acc", "runs", "tick"} \subseteq DOMAIN out.desk
  /\ out.desk.runs \in Nat /\ d.runs \in Nat /\ d.runs <= out.desk.runs
  /\ out.desk.tick = d.tick
  /\ InOrder(out.events, d.runs, out.desk.runs)

\* Nothing happened to the portfolio, or what happened is saved.
Settled(out, d) ==
  \/ out.raised
  \/ out.saved = <<out.desk.acc>>
  \/ out.saved = <<>> /\ out.desk.acc = d.acc /\ out.desk.runs = d.runs

LEMMA OutcomeGoing ==
  ASSUME NEW d, NEW desk0, {"acc", "runs", "tick"} \subseteq DOMAIN desk0, desk0.runs \in Nat,
         desk0.runs = d.runs, desk0.tick = d.tick
  PROVE  Going(Outcome(desk0), d)
BY InOrderEmpty DEF Going, Outcome

LEMMA SavedGoing ==
  ASSUME NEW out, NEW d, NEW price, NEW report, Going(out, d)
  PROVE  Going(Saved(out, price, report), d) /\ Settled(Saved(out, price, report), d)
<1> DEFINE a   == IF report = None THEN Refreshed(out.desk.acc, price)
                  ELSE [out.desk.acc EXCEPT !.cash = report.cash]
           end == [out EXCEPT !.desk.acc = a, !.desk.price = price, !.desk.runs = @ + 1,
                              !.saved = <<a>>]
<1>1. Saved(out, price, report) = end
  BY DEF Saved
<1> HIDE DEF a
<1>2. /\ DOMAIN end = DOMAIN out /\ DOMAIN end.desk = DOMAIN out.desk
      /\ end.events = out.events /\ end.desk.runs = out.desk.runs + 1
      /\ end.desk.tick = out.desk.tick /\ end.saved = <<a>> /\ end.desk.acc = a
  BY DEF Going
<1> HIDE DEF end
<1>3. InOrder(end.events, d.runs, end.desk.runs)
  BY <1>2, InOrderWider DEF Going
<1>4. Going(end, d)
  BY <1>2, <1>3 DEF Going
<1> QED
  BY <1>1, <1>2, <1>4 DEF Settled

LEMMA EventGoing ==
  ASSUME NEW out, NEW d, NEW ok \in BOOLEAN, Going(out, d)
  PROVE  Going(Event(out, ok), d)
<1> DEFINE event == [ts |-> out.desk.runs, ok |-> ok]
           end   == [out EXCEPT !.events = Append(@, event)]
<1>1. Event(out, ok) = end
  BY DEF Event
<1>2. /\ DOMAIN end = DOMAIN out /\ end.desk = out.desk
      /\ end.events = Append(out.events, [ts |-> out.desk.runs, ok |-> ok])
  BY DEF Going
<1> HIDE DEF end
<1>3. InOrder(end.events, d.runs, end.desk.runs)
  BY <1>2, InOrderAppend DEF Going
<1> QED
  BY <1>1, <1>2, <1>3 DEF Going

\* What is booked changes the portfolio alone.
LEMMA FilledGoing ==
  ASSUME NEW out, NEW d, NEW o, NEW q, NEW price, NEW later, Going(out, d)
  PROVE  Going(Filled(out, o, q, price, later), d) /\ Settled(Filled(out, o, q, price, later), d)
<1> DEFINE p    == FillPrice(price, o.side)
           ev   == Event(out, TRUE)
           paid == [ev EXCEPT !.desk.acc.cost = @ + TradeCost(price, o.side, q)]
           stop == Raised(paid)
           bkd  == [paid EXCEPT !.desk.acc = Booked(@, o, q, p)]
<1>1. Going(ev, d)
  BY EventGoing
<1> HIDE DEF ev
<1>2. Going(paid, d)
  BY <1>1 DEF Going
<1> HIDE DEF paid
<1>3. Going(stop, d) /\ stop.raised
  BY <1>2 DEF Going, Raised
<1>4. Going(bkd, d)
  BY <1>2 DEF Going
<1>5. Going(Saved(bkd, later, None), d) /\ Settled(Saved(bkd, later, None), d)
  BY <1>4, SavedGoing
<1> HIDE DEF stop, bkd, p
<1>6. Filled(out, o, q, price, later) \in {stop, Saved(bkd, later, None)}
  BY DEF Filled, ev, paid, stop, bkd, p
<1> QED
  BY <1>3, <1>5, <1>6 DEF Settled

LEMMA SubmittedGoing ==
  ASSUME NEW out, NEW d, NEW o, NEW q, NEW price, NEW later, NEW report, Going(out, d)
  PROVE  /\ Going(Submitted(out, o, q, price, later, report), d)
         /\ Settled(Submitted(out, o, q, price, later, report), d)
<1> DEFINE kept == [out EXCEPT !.desk.pending = @ \cup {o}]
           stop == Raised(out)
<1>1. Going(kept, d) /\ Going(stop, d) /\ stop.raised
  BY DEF Going, Raised
<1> HIDE DEF kept, stop
<1>2. Going(Saved(kept, later, report), d) /\ Settled(Saved(kept, later, report), d)
  BY <1>1, SavedGoing
<1>3. Going(Filled(out, o, q, price, later), d) /\ Settled(Filled(out, o, q, price, later), d)
  BY FilledGoing
<1>4. Submitted(out, o, q, price, later, report)
        \in {stop, Saved(kept, later, report), Filled(out, o, q, price, later)}
  BY DEF Submitted, kept, stop
<1> QED
  BY <1>1, <1>2, <1>3, <1>4 DEF Settled

LEMMA ClosingGoing ==
  ASSUME NEW out, NEW d, NEW k, NEW quotes, Going(out, d), Settled(out, d)
  PROVE  Going(Closing(out, k, quotes), d) /\ Settled(Closing(out, k, quotes), d)
BY SubmittedGoing DEF Closing

-------------------------------------------------------------------------------
(***************************************************************************)
(* The orders of a roll, one after the other.  FoldLeft is a recursive     *)
(* function on sets of indices; that there is one, and what it returns,    *)
(* is shown on a minimal counterexample, as in Sums.                       *)
(***************************************************************************)

\* g[s] is the outcome of closing the positions with the indices in s.
Closes(g, positions, quotes, S) ==
  g = [s \in SUBSET S |->
         IF s = {} THEN Outcome(Resolved)
         ELSE Closing(g[s \ {Max(s)}], positions[Max(s)], quotes)]

ClosesOf(positions, quotes, S) == CHOOSE g : Closes(g, positions, quotes, S)

LEMMA ClosesAgree ==
  ASSUME NEW positions, NEW quotes, NEW S, Indices(S),
         NEW T, T \subseteq S, NEW g, NEW h, Closes(g, positions, quotes, S), Closes(h, positions, quotes, T)
  PROVE  \A s \in SUBSET T : g[s] = h[s]
<1> DEFINE B == {s \in SUBSET T : g[s] # h[s]}
<1> SUFFICES ASSUME B # {} PROVE FALSE
  OBVIOUS
<1>1. PICK s \in B : \A u \in B : u \subseteq s => u = s
  <2>1. B \in SUBSET (SUBSET S) /\ B # {} /\ IsFiniteSet(S)
    BY DEF Indices
  <2> HIDE DEF B
  <2> QED
    BY ONLY <2>1, MinimalSubset
<1>2. s # {}
  BY DEF Closes
<1>3. Max(s) \in s
  BY <1>1, <1>2, MaxIn, SubIndices
<1> DEFINE u == s \ {Max(s)}
<1>4. u \in SUBSET T /\ u \subseteq s /\ u # s
  BY <1>3
<1>5. g[u] = h[u]
  BY <1>1, <1>4
<1>6. /\ g[s] = Closing(g[u], positions[Max(s)], quotes)
      /\ h[s] = Closing(h[u], positions[Max(s)], quotes)
  BY <1>2 DEF Closes
<1> QED
  BY <1>1, <1>5, <1>6

LEMMA ClosesExist ==
  ASSUME NEW positions, NEW quotes, NEW S, Indices(S)
  PROVE  \E g : Closes(g, positions, quotes, S)
<1> DEFINE B == {T \in SUBSET S : ~ \E g : Closes(g, positions, quotes, T)}
<1>1. S \in B => B # {}
  OBVIOUS
<1> SUFFICES ASSUME B # {} PROVE FALSE
  BY <1>1
<1>2. PICK T \in B : \A U \in B : U \subseteq T => U = T
  <2>1. B \in SUBSET (SUBSET S) /\ B # {} /\ IsFiniteSet(S)
    BY DEF Indices
  <2> HIDE DEF B
  <2> QED
    BY ONLY <2>1, MinimalSubset
<1>3. \A U \in SUBSET T : Indices(U)
  BY SubIndices
<1>4. ASSUME NEW U \in SUBSET T, U # T
      PROVE  Closes(ClosesOf(positions, quotes, U), positions, quotes, U)
  <2>1. \E g : Closes(g, positions, quotes, U)
    BY <1>2, <1>4
  <2> QED
    BY <2>1, Zenon DEF ClosesOf
<1> DEFINE rest(s) == s \ {Max(s)}
           part(s) == ClosesOf(positions, quotes, s)[s]
           g == [s \in SUBSET T |->
                   IF s = {} THEN Outcome(Resolved)
                   ELSE Closing(part(rest(s)), positions[Max(s)], quotes)]
<1>5. ASSUME NEW s \in SUBSET T, s # {}
      PROVE  g[rest(s)] = part(rest(s))
  <2> DEFINE u == rest(s)
  <2>0. Max(s) \in s
    BY <1>3, <1>5, MaxIn
  <2>1. u \in SUBSET T /\ u # T
    BY <2>0
  <2>2. Closes(ClosesOf(positions, quotes, u), positions, quotes, u)
    BY <1>4, <2>1
  <2>3. CASE u = {}
    BY <2>2, <2>3 DEF Closes
  <2>4. CASE u # {}
    <3> DEFINE v == rest(u)
    <3>1. v \in SUBSET T /\ v # T /\ v \subseteq u
      BY <2>1
    <3>2. Closes(ClosesOf(positions, quotes, v), positions, quotes, v)
      BY <1>4, <3>1
    <3>3. ClosesOf(positions, quotes, u)[v] = part(v)
      <4>1. Indices(u) /\ v \subseteq u /\ v \in SUBSET v
        BY <1>3, <2>1, <3>1
      <4> HIDE DEF u, v, part
      <4> DEFINE gu == ClosesOf(positions, quotes, u)
                 gv == ClosesOf(positions, quotes, v)
      <4>2. Closes(gu, positions, quotes, u) /\ Closes(gv, positions, quotes, v)
        BY <2>2, <3>2
      <4> HIDE DEF gu, gv
      <4>3. \A x \in SUBSET v : gu[x] = gv[x]
        BY ONLY <4>1, <4>2, ClosesAgree
      <4> QED
        BY <4>1, <4>3 DEF part, gu, gv
    <3>4. part(u) = Closing(ClosesOf(positions, quotes, u)[v], positions[Max(u)], quotes)
      <4> HIDE DEF u
      <4> QED
        BY <2>2, <2>4 DEF Closes
    <3>5. g[u] = Closing(part(v), positions[Max(u)], quotes)
      BY <2>1, <2>4
    <3> QED
      BY <3>3, <3>4, <3>5
  <2> QED
    BY <2>3, <2>4
<1>6. Closes(g, positions, quotes, T)
  <2>1. \A s \in SUBSET T :
          g[s] = IF s = {} THEN Outcome(Resolved)
                 ELSE Closing(g[rest(s)], positions[Max(s)], quotes)
    BY <1>5
  <2> QED
    BY <2>1 DEF Closes
<1> QED
  BY <1>2, <1>6

LEMMA ClosedDef ==
  ASSUME NEW positions, NEW quotes
  PROVE  Closed(positions, quotes) = ClosesOf(positions, quotes, DOMAIN positions)[DOMAIN positions]
BY DEF Closed, FoldLeft, MapThenFoldSet, ClosesOf, Closes

\* However many positions of the old contract are closed, and wherever an order fails.
LEMMA ClosedGoing ==
  ASSUME NEW positions, NEW quotes, Indices(DOMAIN positions),
         {"acc", "runs", "tick"} \subseteq DOMAIN desk, desk.runs \in Nat
  PROVE  Going(Closed(positions, quotes), desk) /\ Settled(Closed(positions, quotes), desk)
<1> DEFINE S == DOMAIN positions
           g == ClosesOf(positions, quotes, S)
           G == {s \in SUBSET S : Going(g[s], desk) /\ Settled(g[s], desk)}
<1>1. Closes(g, positions, quotes, S)
  BY ClosesExist, Zenon DEF ClosesOf
<1>2. Indices(S)
  OBVIOUS
<1> HIDE DEF S, g
<1>3. {} \in G
  <2>1. /\ {"acc", "runs", "tick"} \subseteq DOMAIN Resolved /\ Resolved.runs = desk.runs
        /\ Resolved.tick = desk.tick /\ Resolved.acc = desk.acc
    BY DEF Resolved
  <2>2. Going(Outcome(Resolved), desk) /\ Settled(Outcome(Resolved), desk)
    BY <2>1, OutcomeGoing DEF Outcome, Settled
  <2> QED
    BY <1>1, <2>2 DEF Closes
<1>4. ASSUME NEW s \in SUBSET S, s # {}, s \ {Max(s)} \in G
      PROVE  s \in G
  <2>1. g[s] = Closing(g[s \ {Max(s)}], positions[Max(s)], quotes)
    BY <1>1, <1>4 DEF Closes
  <2> QED
    BY <1>4, <2>1, ClosingGoing
<1>5. S \in G
  <2> HIDE DEF G
  <2> QED
    BY <1>2, <1>3, <1>4, IndexInduction
<1> QED
  BY <1>5, ClosedDef DEF S, g

-------------------------------------------------------------------------------
(***************************************************************************)
(* The judge and the sandbox.  A clean run finds in the stores what it     *)
(* wrote itself, in the order of time; the last snapshot of live is the    *)
(* portfolio of live after every call of run.                              *)
(***************************************************************************)

DeskTypes ==
  pc \in Envs =>
    /\ {"acc", "runs", "tick"} \subseteq DOMAIN desk
    /\ desk.runs \in Nat /\ desk.tick \in Nat

MineInOrder ==
  /\ mine = [e \in Envs |-> mine[e]] /\ log = [e \in Envs |-> log[e]]
  /\ \A e \in Envs : \E n \in Nat : InOrder(mine[e], 0, n)
  /\ pc \in Envs => InOrder(mine[pc], 0, desk.runs)

\* The stores a run has not come to yet have nothing of it.
Cleaning == pc \in {"cleanLive", "cleanSandbox", "cleanFiles"}

NothingYet ==
  /\ pc \in {"idle", "build"} \/ Cleaning => mine["live"] = <<>>
  /\ pc \in {"idle", "build", "live"} \/ Cleaning => mine["sandbox"] = <<>>

CleanRunOwnsLog ==
  /\ pc = "cleanSandbox" => log["live"] = <<>>
  /\ pc \notin {"idle", "cleanLive", "cleanSandbox"} /\ run.clean => log = mine

VerdictOfLog == verdict /= None => Writing /\ verdict = Judged(log)

LiveIsSaved == pc = "live" /\ desk.runs > 0 => snap = desk.acc

JudgeInv ==
  /\ DeskTypes /\ MineInOrder /\ NothingYet /\ CleanRunOwnsLog /\ VerdictOfLog
  /\ LiveIsSaved /\ SandboxStartsFromLive

LEMMA IndicesOfPositions ==
  ASSUME NEW positions \in SetToSeqs(OldPositions)
  PROVE  Indices(DOMAIN positions)
<1>1. \A k \in OldPositions : k \in {<<Symbol, Trading, "long">>} \cup {<<Symbol, Trading, "short">>}
  BY DEF OldPositions, Held, Keys
<1>2. IsFiniteSet(OldPositions)
  <2>1. IsFiniteSet({<<Symbol, Trading, "long">>}) /\ IsFiniteSet({<<Symbol, Trading, "short">>})
    BY FS_Singleton
  <2>2. IsFiniteSet({<<Symbol, Trading, "long">>} \cup {<<Symbol, Trading, "short">>})
    BY <2>1, FS_Union
  <2>3. OldPositions \subseteq {<<Symbol, Trading, "long">>} \cup {<<Symbol, Trading, "short">>}
    BY <1>1
  <2> HIDE DEF OldPositions
  <2> QED
    BY <2>2, <2>3, FS_Subset
<1>3. Cardinality(OldPositions) \in Nat
  BY <1>2, FS_CardinalityType
<1>4. DOMAIN positions = 1..Cardinality(OldPositions)
  BY DEF SetToSeqs
<1> QED
  BY <1>3, <1>4, FS_Interval DEF Indices

LEMMA TickJudged ==
  ASSUME JudgeInv, NEW e \in Envs, pc = e, NEW out, NEW orders,
         Going(out, desk), Settled(out, desk), Concluded(e, out, orders)
  PROVE  JudgeInv'
<1>1. /\ pc' = e /\ run' = run /\ verdict' = verdict /\ liveEnd' = liveEnd
      /\ desk' = [out.desk EXCEPT !.tick = @ + 1]
      /\ log' = [log EXCEPT ![e] = @ \o out.events]
      /\ mine' = [mine EXCEPT ![e] = @ \o out.events]
      /\ snap' = IF e = "live" /\ out.saved /= <<>> THEN out.saved[1] ELSE snap
      /\ ~out.raised
  BY DEF Concluded, Written
<1>2. /\ desk.tick \in Nat /\ desk.runs \in Nat
      /\ desk'.acc = out.desk.acc /\ desk'.runs = out.desk.runs /\ desk'.tick = desk.tick + 1
      /\ out.desk.runs \in Nat /\ desk.runs <= out.desk.runs
  BY <1>1 DEF JudgeInv, DeskTypes, Going
<1>3. DeskTypes'
  <2>1. {"acc", "runs", "tick"} \subseteq DOMAIN desk'
    BY <1>1 DEF Going
  <2> QED
    BY <1>2, <2>1 DEF DeskTypes
<1>4. MineInOrder'
  <2>1. /\ mine' = [x \in Envs |-> mine'[x]] /\ log' = [x \in Envs |-> log'[x]]
        /\ mine'[e] = mine[e] \o out.events
        /\ \A x \in Envs : x /= e => mine'[x] = mine[x]
    BY <1>1 DEF JudgeInv, MineInOrder
  <2>2. InOrder(mine[e], 0, desk.runs) /\ InOrder(out.events, desk.runs, out.desk.runs)
    BY DEF JudgeInv, MineInOrder, Going
  <2>3. InOrder(mine'[e], 0, desk'.runs)
    BY <1>2, <2>1, <2>2, InOrderConcat
  <2>4. \A x \in Envs : \E n \in Nat : InOrder(mine'[x], 0, n)
    BY <1>2, <2>1, <2>3 DEF JudgeInv, MineInOrder
  <2> QED
    BY <1>1, <2>1, <2>3, <2>4 DEF MineInOrder
<1>5. NothingYet'
  BY <1>1 DEF JudgeInv, NothingYet, MineInOrder, Cleaning, Envs
<1>6. CleanRunOwnsLog'
  BY <1>1 DEF JudgeInv, CleanRunOwnsLog, Envs
<1>7. VerdictOfLog'
  BY <1>1 DEF JudgeInv, VerdictOfLog, Writing, Envs
<1>8. LiveIsSaved'
  <2> SUFFICES ASSUME e = "live", desk'.runs > 0 PROVE snap' = desk'.acc
    BY <1>1 DEF LiveIsSaved
  <2>1. CASE out.saved = <<out.desk.acc>>
    <3>1. out.saved /= <<>> /\ out.saved[1] = out.desk.acc
      BY <2>1
    <3> QED
      BY <1>1, <1>2, <3>1
  <2>2. CASE out.saved = <<>> /\ out.desk.acc = desk.acc /\ out.desk.runs = desk.runs
    <3>1. snap = desk.acc
      BY <1>2, <2>2 DEF JudgeInv, LiveIsSaved
    <3> QED
      BY <1>1, <1>2, <2>2, <3>1
  <2> QED
    BY <1>1, <2>1, <2>2 DEF Settled
<1>9. SandboxStartsFromLive'
  BY <1>1, <1>2 DEF SandboxStartsFromLive
<1> QED
  BY <1>3, <1>4, <1>5, <1>6, <1>7, <1>8, <1>9 DEF JudgeInv

\* A process that has gone leaves nothing in memory, and what it logged in the files.
LEMMA GoneJudged ==
  ASSUME JudgeInv, Gone, log' = [e \in Envs |-> log'[e]]
  PROVE  JudgeInv'
<1>1. \A e \in Envs : mine'[e] = <<>> /\ InOrder(mine'[e], 0, 0)
  BY InOrderEmpty DEF Gone
<1>2. MineInOrder'
  BY <1>1 DEF Gone, MineInOrder, Envs
<1> QED
  BY <1>1, <1>2
     DEF Gone, JudgeInv, DeskTypes, NothingYet, CleanRunOwnsLog, VerdictOfLog, LiveIsSaved,
         SandboxStartsFromLive, Cleaning, Envs

LEMMA AbortJudged ==
  ASSUME JudgeInv, NEW e \in Envs, NEW out, Aborted(e, out)
  PROVE  JudgeInv'
BY GoneJudged DEF Aborted, Written, JudgeInv, MineInOrder

\* A step outside the sessions that writes to no log.
LEMMA ElsewhereJudged ==
  ASSUME JudgeInv, UNCHANGED <<log, mine, verdict, run>>, pc' \notin Envs,
         Writing => Writing',
         pc \notin {"cleanLive", "cleanSandbox", "idle"}, pc' \notin {"cleanLive", "cleanSandbox"},
         pc' \in {"idle", "build", "cleanFiles"} => pc \in {"idle", "build", "cleanFiles"}
  PROVE  JudgeInv'
<1>1. VerdictOfLog'
  BY DEF JudgeInv, VerdictOfLog, Judged, Evaluate, Promotion, Plan, Writing
<1> QED
  BY <1>1
     DEF JudgeInv, DeskTypes, MineInOrder, NothingYet, CleanRunOwnsLog, LiveIsSaved,
         SandboxStartsFromLive, Cleaning, Envs

LEMMA JudgeInit == Init => JudgeInv
<1> SUFFICES ASSUME Init PROVE JudgeInv
  OBVIOUS
<1>1. \A e \in Envs : mine[e] = <<>> /\ InOrder(mine[e], 0, 0)
  BY InOrderEmpty DEF Init
<1>2. MineInOrder
  BY <1>1 DEF Init, MineInOrder, Envs
<1> QED
  BY <1>2
     DEF Init, JudgeInv, DeskTypes, NothingYet, CleanRunOwnsLog, VerdictOfLog, LiveIsSaved,
         SandboxStartsFromLive, Cleaning, Envs

\* What a tick of a session does is the outcome of a call of run.
LEMMA TicksGoing ==
  ASSUME DeskTypes, NEW e \in Envs,
         \/ NoDecision(e) \/ RollCancel(e) \/ RollClose(e) \/ RollActivate(e)
         \/ \E d \in Signals : CooldownReject(e, d) \/ Decide(e, d)
  PROVE  /\ pc = e
         /\ \/ \E out, orders :
                 Going(out, desk) /\ Settled(out, desk) /\ Concluded(e, out, orders)
            \/ \E out : Aborted(e, out)
<1> DEFINE Goes == \/ \E out, orders :
                        Going(out, desk) /\ Settled(out, desk) /\ Concluded(e, out, orders)
                   \/ \E out : Aborted(e, out)
<1>1. pc = e
  BY DEF NoDecision, RollCancel, RollClose, RollActivate, CooldownReject, Decide, Running
<1>2. {"acc", "runs", "tick"} \subseteq DOMAIN desk /\ desk.runs \in Nat
  BY <1>1 DEF DeskTypes
<1>3. Going(Outcome(desk), desk) /\ Settled(Outcome(desk), desk)
  BY <1>2, OutcomeGoing DEF Outcome, Settled
<1>4. ASSUME NEW change, {"acc", "runs", "tick"} \subseteq DOMAIN change,
             change.runs = desk.runs, change.tick = desk.tick, NEW price, NEW report
      PROVE  /\ Going(Outcome(change), desk)
             /\ Going(Saved(Outcome(change), price, report), desk)
             /\ Settled(Saved(Outcome(change), price, report), desk)
  BY <1>2, <1>4, OutcomeGoing, SavedGoing
<1>5. /\ {"acc", "runs", "tick"} \subseteq DOMAIN Resolved
      /\ Resolved.runs = desk.runs /\ Resolved.tick = desk.tick
  BY <1>2 DEF Resolved
<1>6. NoDecision(e) => Goes
  BY <1>3 DEF NoDecision
<1>7. ASSUME RollCancel(e) PROVE Goes
  <2> DEFINE change == [Resolved EXCEPT !.pending = {}]
  <2>1. /\ {"acc", "runs", "tick"} \subseteq DOMAIN change
        /\ change.runs = desk.runs /\ change.tick = desk.tick
    BY <1>5
  <2>2. PICK price \in Quoted : Concluded(e, Saved(Outcome(change), price, None), {})
    BY <1>7 DEF RollCancel
  <2> HIDE DEF change
  <2> QED
    BY <1>4, <2>1, <2>2
<1>8. ASSUME RollClose(e) PROVE Goes
  <2>1. PICK positions \in SetToSeqs(OldPositions),
             quotes \in Quotes({"fill", "saved"} \X OldPositions) :
          \/ Concluded(e, Closed(positions, quotes), {ClosingOrder(k) : k \in OldPositions})
          \/ Aborted(e, Closed(positions, quotes))
    BY <1>8 DEF RollClose
  <2>2. Going(Closed(positions, quotes), desk) /\ Settled(Closed(positions, quotes), desk)
    BY <1>2, IndicesOfPositions, ClosedGoing
  <2> QED
    BY <2>1, <2>2
<1>9. ASSUME RollActivate(e) PROVE Goes
  <2> DEFINE change == [desk EXCEPT !.active = Configured(desk.tick),
                                    !.until = desk.runs + Plan.roll.cooldown_ticks]
  <2>1. /\ {"acc", "runs", "tick"} \subseteq DOMAIN change
        /\ change.runs = desk.runs /\ change.tick = desk.tick
    BY <1>2
  <2>2. PICK price \in Quoted : Concluded(e, Saved(Outcome(change), price, None), {})
    BY <1>9 DEF RollActivate
  <2> HIDE DEF change
  <2> QED
    BY <1>4, <2>1, <2>2
<1>10. ASSUME NEW d \in Signals, CooldownReject(e, d) PROVE Goes
  <2>1. PICK price \in Quoted : Concluded(e, Saved(Outcome(Resolved), price, None), {})
    BY <1>10 DEF CooldownReject
  <2> QED
    BY <1>4, <1>5, <2>1
<1>11. ASSUME NEW d \in Signals, Decide(e, d) PROVE Goes
  <2> DEFINE o   == OrderFor(Trading, d.side, d.pside)
             out == Outcome(Resolved)
  <2>1. PICK report \in Reports, quotes \in Quotes({"order", "held", "fill", "saved"}) :
          \/ Concluded(e, Saved(out, quotes.saved, report), {})
          \/ Concluded(e, Saved(Event(out, FALSE), quotes.saved, report), {})
          \/ Concluded(e, Submitted(out, o, Quantity, quotes.fill, quotes.saved, report), {o})
          \/ \E stop : Aborted(e, stop)
    BY <1>11 DEF Decide
  <2> DEFINE kept == Saved(out, quotes.saved, report)
             fail == Saved(Event(out, FALSE), quotes.saved, report)
             end  == Submitted(out, o, Quantity, quotes.fill, quotes.saved, report)
  <2>2. Going(out, desk)
    BY <1>4, <1>5
  <2> HIDE DEF out, o
  <2>3. Going(kept, desk) /\ Settled(kept, desk) /\ Going(end, desk) /\ Settled(end, desk)
    BY <2>2, SavedGoing, SubmittedGoing
  <2>4. Going(fail, desk) /\ Settled(fail, desk)
    BY <2>2, EventGoing, SavedGoing
  <2> QED
    BY <2>1, <2>3, <2>4
<1>12. Goes
  <2> HIDE DEF Goes
  <2> QED
    BY <1>6, <1>7, <1>8, <1>9, <1>10, <1>11
<1> QED
  BY <1>1, <1>12

LEMMA JudgeStep == JudgeInv /\ [Next]_vars => JudgeInv'
<1> SUFFICES ASSUME JudgeInv, [Next]_vars PROVE JudgeInv'
  OBVIOUS
<1> USE DEF history
<1>e. "live" \in Envs /\ "sandbox" \in Envs /\ \A e \in Envs : e = "live" \/ e = "sandbox"
  BY DEF Envs
<1>1. CASE UNCHANGED vars
  <2>1. VerdictOfLog'
    BY <1>1 DEF vars, JudgeInv, VerdictOfLog, Judged, Evaluate, Promotion, Plan, Writing
  <2> QED
    BY <1>1, <2>1
       DEF vars, JudgeInv, DeskTypes, MineInOrder, NothingYet, CleanRunOwnsLog, LiveIsSaved,
           SandboxStartsFromLive, Cleaning
<1>2. ASSUME NEW line \in CommandLines, Start(line) \/ Refuse(line) PROVE JudgeInv'
  <2>1. VerdictOfLog'
    BY <1>2 DEF Start, Refuse, JudgeInv, VerdictOfLog, Writing
  <2> QED
    BY <1>2, <2>1
       DEF Start, Refuse, JudgeInv, DeskTypes, MineInOrder, NothingYet, CleanRunOwnsLog,
           LiveIsSaved, SandboxStartsFromLive, Cleaning, Envs
<1>3. CASE CleanLive
  <2>1. VerdictOfLog'
    BY <1>3 DEF CleanLive, JudgeInv, VerdictOfLog, Writing
  <2> QED
    BY <1>3, <2>1
       DEF CleanLive, JudgeInv, DeskTypes, MineInOrder, NothingYet, CleanRunOwnsLog,
           LiveIsSaved, SandboxStartsFromLive, Cleaning, Envs
<1>4. CASE CleanSandbox
  <2>1. VerdictOfLog'
    BY <1>4 DEF CleanSandbox, JudgeInv, VerdictOfLog, Writing
  <2>2. log' = mine'
    <3>1. log["live"] = <<>> /\ mine["live"] = <<>> /\ mine["sandbox"] = <<>>
      BY <1>4 DEF CleanSandbox, JudgeInv, NothingYet, CleanRunOwnsLog, Cleaning
    <3>2. /\ log = [e \in Envs |-> log[e]] /\ mine' = [e \in Envs |-> mine[e]]
          /\ log' = [log EXCEPT !["sandbox"] = <<>>]
      BY <1>4 DEF CleanSandbox, JudgeInv, MineInOrder
    <3>3. log' = [e \in Envs |-> <<>>] /\ mine' = [e \in Envs |-> <<>>]
      BY <1>e, <3>1, <3>2
    <3> QED
      BY <3>3
  <2> QED
    BY <1>4, <2>1, <2>2
       DEF CleanSandbox, JudgeInv, DeskTypes, MineInOrder, NothingYet, CleanRunOwnsLog,
           LiveIsSaved, SandboxStartsFromLive, Cleaning, Envs
<1>5. CASE CleanFiles
  BY <1>5, ElsewhereJudged DEF CleanFiles, Writing, Envs
<1>6. CASE BuildLive
  <2>1. /\ pc = "build" /\ pc' = "live" /\ UNCHANGED <<run, verdict, log, mine, liveEnd>>
        /\ desk' = NewDesk(EmptyAccount)
    BY <1>6 DEF BuildLive
  <2>2. DeskTypes' /\ LiveIsSaved' /\ desk'.runs = 0
    BY <2>1 DEF NewDesk, DeskTypes, LiveIsSaved
  <2>3. mine["live"] = <<>> /\ mine["sandbox"] = <<>>
    BY <2>1 DEF JudgeInv, NothingYet
  <2>4. InOrder(mine'["live"], 0, desk'.runs)
    BY <2>1, <2>2, <2>3, InOrderEmpty
  <2>5. MineInOrder'
    BY <2>1, <2>4 DEF JudgeInv, MineInOrder
  <2>6. VerdictOfLog'
    BY <2>1 DEF JudgeInv, VerdictOfLog, Writing
  <2>7. NothingYet' /\ CleanRunOwnsLog' /\ SandboxStartsFromLive'
    BY <2>1, <2>3
       DEF JudgeInv, NothingYet, CleanRunOwnsLog, SandboxStartsFromLive, Cleaning
  <2> QED
    BY <2>2, <2>5, <2>6, <2>7 DEF JudgeInv
<1>7. CASE BuildSandbox
  <2>1. /\ pc = "live" /\ pc' = "sandbox" /\ UNCHANGED <<run, verdict, log, mine, snap>>
        /\ desk' = NewDesk(Baseline)
        /\ liveEnd' = IF desk.runs > 0 THEN desk.acc ELSE None
    BY <1>7 DEF BuildSandbox
  <2>2. DeskTypes' /\ LiveIsSaved' /\ desk'.runs = 0 /\ desk'.acc = Baseline
    BY <2>1 DEF NewDesk, DeskTypes, LiveIsSaved
  <2>3. mine["sandbox"] = <<>>
    BY <2>1 DEF JudgeInv, NothingYet
  <2>4. InOrder(mine'["sandbox"], 0, desk'.runs)
    <3>1. mine'["sandbox"] = <<>> /\ InOrder(<<>>, 0, 0)
      BY <2>1, <2>3, InOrderEmpty
    <3> QED
      BY <2>2, <3>1
  <2>5. MineInOrder'
    BY <2>1, <2>4 DEF JudgeInv, MineInOrder
  <2>6. VerdictOfLog'
    BY <2>1 DEF JudgeInv, VerdictOfLog, Writing
  <2>7. NothingYet' /\ CleanRunOwnsLog'
    BY <2>1 DEF JudgeInv, NothingYet, CleanRunOwnsLog, Cleaning
  <2>8. SandboxStartsFromLive'
    <3> SUFFICES ASSUME liveEnd' /= None PROVE desk'.acc = [liveEnd' EXCEPT !.cost = 0]
      BY DEF SandboxStartsFromLive
    <3>1. desk.runs > 0 /\ liveEnd' = desk.acc
      BY <2>1
    <3>2. snap = desk.acc
      BY <2>1, <3>1 DEF JudgeInv, LiveIsSaved
    <3> QED
      BY <2>2, <3>1, <3>2 DEF Baseline
  <2> QED
    BY <2>2, <2>5, <2>6, <2>7, <2>8 DEF JudgeInv
<1>8. CASE BuildFails \/ Kill \/ WriteManifest
  BY <1>8, GoneJudged DEF BuildFails, Kill, WriteManifest, JudgeInv, MineInOrder
<1>9. ASSUME NEW e \in Envs,
             \/ NoDecision(e) \/ RollCancel(e) \/ RollClose(e) \/ RollActivate(e)
             \/ \E d \in Signals : CooldownReject(e, d) \/ Decide(e, d)
      PROVE  JudgeInv'
  <2>1. /\ pc = e
        /\ \/ \E out, orders :
                Going(out, desk) /\ Settled(out, desk) /\ Concluded(e, out, orders)
           \/ \E out : Aborted(e, out)
    BY <1>9, TicksGoing DEF JudgeInv
  <2> QED
    BY <2>1, TickJudged, AbortJudged
<1>10. CASE Promote
  <2>1. VerdictOfLog'
    BY <1>10 DEF Promote, VerdictOfLog, Judged, Evaluate, Promotion, Plan, Writing
  <2> QED
    BY <1>10, <2>1
       DEF Promote, JudgeInv, DeskTypes, MineInOrder, NothingYet, CleanRunOwnsLog, LiveIsSaved,
           SandboxStartsFromLive, Cleaning, Envs
<1>11. CASE WriteSummaries \/ WriteDecision \/ WriteApproved
  BY <1>11, ElsewhereJudged DEF WriteSummaries, WriteDecision, WriteApproved, Writing, Envs
<1> QED
  BY <1>1, <1>2, <1>3, <1>4, <1>5, <1>6, <1>7, <1>8, <1>9, <1>10, <1>11 DEF Next

\* A run started with --clean is judged by its own events alone, and the metrics of its
\* artifacts are those it was judged by: whatever earlier and killed runs left in the two
\* append-only stores, and in whatever way its own sessions go.
THEOREM CleanRunJudged == Spec => []CleanRunJudgesItself
<1>1. ASSUME JudgeInv PROVE CleanRunJudgesItself
  <2> SUFFICES ASSUME verdict /= None, run.clean
               PROVE  verdict = Judged(mine) /\ verdict.metrics = verdict.judged
    BY DEF CleanRunJudgesItself
  <2>1. log = mine /\ verdict = Judged(log)
    BY <1>1 DEF JudgeInv, VerdictOfLog, CleanRunOwnsLog, Writing
  <2>2. \A e \in Envs : ByTime(mine[e]) = mine[e]
    BY <1>1, ByTimeInOrder DEF JudgeInv, MineInOrder
  <2>3. [e \in Envs |-> Summary(ByTime(mine[e]))] = [e \in Envs |-> Summary(mine[e])]
    BY <2>2
  <2> QED
    BY <2>1, <2>3 DEF Judged
<1> QED
  BY <1>1, JudgeInit, JudgeStep, PTL DEF Spec

\* The sandbox starts with the portfolio that the live session of the same run ended with,
\* read back from the store: no fill, roll, refresh or order of live comes after the last
\* snapshot.
THEOREM SandboxFromLive == Spec => []SandboxStartsFromLive
<1>1. JudgeInv => SandboxStartsFromLive
  BY DEF JudgeInv
<1> QED
  BY <1>1, JudgeInit, JudgeStep, PTL DEF Spec

-------------------------------------------------------------------------------
(***************************************************************************)
(* The books of an account.  A fill changes the quantity, the average, the *)
(* profit and the history of one key, and nothing changes them otherwise.  *)
(***************************************************************************)

\* Quantities, averages, profits and flows of every key of this universe.
Books(a) ==
  /\ {"qty", "avg", "pnl", "flow"} \subseteq DOMAIN a
  /\ a.qty \in [Keys -> Nat] /\ a.avg \in [Keys -> Int]
  /\ a.pnl \in [Keys -> Int] /\ a.flow \in [Keys -> Int]

\* ProfitConserved of one account.
Conserved(a) ==
  \A k \in Keys :
    a.flow[k] = a.pnl[k] + a.qty[k] * (IF k[3] = "long" THEN -a.avg[k] ELSE a.avg[k])

\* What is the same when only cash, cost and the figures derived from a price differ.
SameBooks(a, b) ==
  /\ {"qty", "avg", "pnl", "flow"} \subseteq DOMAIN b
  /\ b.qty = a.qty /\ b.avg = a.avg /\ b.pnl = a.pnl /\ b.flow = a.flow

LEMMA SameBooksKeep ==
  ASSUME NEW a, NEW b, SameBooks(a, b), Books(a)
  PROVE  Books(b) /\ (Conserved(a) => Conserved(b))
BY DEF SameBooks, Books, Conserved

\* Closing q of n units held at average v turns what they cost into profit.
LEMMA LongClosed ==
  ASSUME NEW n \in Int, NEW v \in Int, NEW q \in Int, NEW p \in Int, NEW r \in Int
  PROVE  (r + n * (-v)) + q * p = (r + q * (p - v)) + (n - q) * (-v)
OBVIOUS

LEMMA ShortClosed ==
  ASSUME NEW n \in Int, NEW v \in Int, NEW q \in Int, NEW p \in Int, NEW r \in Int
  PROVE  (r + n * v) + (-(q * p)) = (r + q * (v - p)) + (n - q) * v
OBVIOUS

LEMMA ExactAverage ==
  ASSUME NEW x \in Int, NEW n \in Nat \ {0}, x % n = 0
  PROVE  n * (x \div n) = x
OBVIOUS

LEMMA ElsewhereBooked ==
  ASSUME NEW a, Books(a), NEW o, NEW q, NEW p, KeyOf(o) \notin Keys
  PROVE  SameBooks(a, Booked(a, o, q, p))
<1> DEFINE k == KeyOf(o)
           b == Booked(a, o, q, p)
<1>1. /\ {"qty", "avg", "pnl", "flow"} \subseteq DOMAIN b
      /\ b.qty = [a.qty EXCEPT ![k] = IF IsOpen(o) THEN @ + q ELSE @ - q]
      /\ b.avg = [a.avg EXCEPT ![k] = IF ~IsOpen(o) THEN @
                                      ELSE IF a.qty[k] = 0 /\ a.avg[k] = 0 THEN p
                                      ELSE Average(a, o, q, p)]
      /\ b.pnl = [a.pnl EXCEPT ![k] = IF IsOpen(o) THEN @ ELSE @ + RealizedDelta(a, o, q, p)]
      /\ b.flow = [a.flow EXCEPT ![k] = @ + Signed(o, q * p)]
  BY DEF Booked, Books, Applied
<1>2. k \notin Keys
  OBVIOUS
<1> HIDE DEF k, b
<1>3. b.qty = a.qty /\ b.avg = a.avg /\ b.pnl = a.pnl /\ b.flow = a.flow
  BY <1>1, <1>2 DEF Books
<1> QED
  BY <1>1, <1>3 DEF SameBooks, b

\* A fill that closes, of no more units than there are.
LEMMA ClosedBooked ==
  ASSUME NEW a, Books(a), NEW o, NEW q \in Nat, NEW p \in Int,
         o.pside \in {"long", "short"}, o.side = ClosingSide(o.pside), ~CannotClose(a.qty, o, q)
  PROVE  LET b == Booked(a, o, q, p)
         IN  /\ Books(b) /\ (Conserved(a) => Conserved(b))
             /\ \A k \in Keys : b.qty[k] <= a.qty[k]
<1> DEFINE k == KeyOf(o)
           b == Booked(a, o, q, p)
           r == RealizedDelta(a, o, q, p)
           s == Signed(o, q * p)
<1>1. ~IsOpen(o)
  BY DEF IsOpen, ClosingSide
<1>2. CASE k \notin Keys
  <2>1. SameBooks(a, b)
    BY <1>2, ElsewhereBooked
  <2> HIDE DEF b
  <2>2. \A x \in Keys : b.qty[x] <= a.qty[x]
    BY <2>1 DEF SameBooks, Books
  <2> QED
    BY <2>1, <2>2, SameBooksKeep DEF b
<1>3. CASE k \in Keys
  <2>1. /\ {"qty", "avg", "pnl", "flow"} \subseteq DOMAIN b
        /\ b.qty = [a.qty EXCEPT ![k] = @ - q] /\ b.avg = [a.avg EXCEPT ![k] = @]
        /\ b.pnl = [a.pnl EXCEPT ![k] = @ + r] /\ b.flow = [a.flow EXCEPT ![k] = @ + s]
    BY <1>1 DEF Booked, Books, Applied
  <2>2. a.qty[k] \in Nat /\ q <= a.qty[k]
    BY <1>1, <1>3 DEF CannotClose, Books
  <2>3. k[3] = o.pside /\ a.avg[k] \in Int /\ a.pnl[k] \in Int /\ a.flow[k] \in Int
    BY <1>3 DEF KeyOf, Books
  <2>4. q * p \in Int /\ q * (p - a.avg[k]) \in Int /\ q * (a.avg[k] - p) \in Int
    BY <2>3
  <2>5. /\ r = IF k[3] = "long" THEN q * (p - a.avg[k]) ELSE q * (a.avg[k] - p)
        /\ s = IF k[3] = "long" THEN q * p ELSE -(q * p)
    BY <2>3 DEF RealizedDelta, Signed, ClosingSide
  <2>6. r \in Int /\ s \in Int
    BY <2>4, <2>5
  <2> HIDE DEF k, b, r, s
  <2>7. /\ b.qty[k] = a.qty[k] - q /\ b.avg[k] = a.avg[k]
        /\ b.pnl[k] = a.pnl[k] + r /\ b.flow[k] = a.flow[k] + s
        /\ \A x \in Keys \ {k} : /\ b.qty[x] = a.qty[x] /\ b.avg[x] = a.avg[x]
                                 /\ b.pnl[x] = a.pnl[x] /\ b.flow[x] = a.flow[x]
    BY <1>3, <2>1 DEF Books
  <2>8. Books(b)
    BY <1>3, <2>1, <2>2, <2>3, <2>6 DEF Books
  <2>9. \A x \in Keys : b.qty[x] <= a.qty[x]
    BY <2>2, <2>7 DEF Books
  <2>10. ASSUME Conserved(a) PROVE Conserved(b)
    <3>1. a.flow[k] = a.pnl[k] + a.qty[k] * (IF k[3] = "long" THEN -a.avg[k] ELSE a.avg[k])
      BY <1>3, <2>10 DEF Conserved
    <3>2. b.flow[k] = b.pnl[k] + b.qty[k] * (IF k[3] = "long" THEN -b.avg[k] ELSE b.avg[k])
      <4>1. CASE k[3] = "long"
        <5> DEFINE n == a.qty[k]
                   u == a.avg[k]
                   m == a.pnl[k]
        <5>1. n \in Int /\ u \in Int /\ m \in Int
          BY <2>2, <2>3
        <5>2. (m + n * (-u)) + q * p = (m + q * (p - u)) + (n - q) * (-u)
          <6> HIDE DEF n, u, m
          <6> QED
            BY ONLY <5>1, q \in Int, p \in Int, LongClosed
        <5> QED
          BY <2>5, <2>7, <3>1, <4>1, <5>2
      <4>2. CASE k[3] # "long"
        <5> DEFINE n == a.qty[k]
                   u == a.avg[k]
                   m == a.pnl[k]
        <5>1. n \in Int /\ u \in Int /\ m \in Int
          BY <2>2, <2>3
        <5>2. (m + n * u) + (-(q * p)) = (m + q * (u - p)) + (n - q) * u
          <6> HIDE DEF n, u, m
          <6> QED
            BY ONLY <5>1, q \in Int, p \in Int, ShortClosed
        <5> QED
          BY <2>5, <2>7, <3>1, <4>2, <5>2
      <4> QED
        BY <4>1, <4>2
    <3> QED
      BY <2>7, <2>10, <3>2 DEF Conserved
  <2> QED
    BY <2>8, <2>9, <2>10 DEF b
<1> QED
  BY <1>2, <1>3

\* A fill that opens: the books balance again unless the average had to be rounded.
LEMMA OpenedBooked ==
  ASSUME NEW a, Books(a), NEW o, NEW q \in Nat \ {0}, NEW p \in Int, IsOpen(o)
  PROVE  LET k == KeyOf(o)
             b == Booked(a, o, q, p)
         IN  /\ Books(b)
             /\ \A x \in Keys : b.qty[x] = a.qty[x] + (IF x = k THEN q ELSE 0)
             /\ Conserved(a) /\ (k \in Keys => (a.qty[k] * a.avg[k] + q * p) % (a.qty[k] + q) = 0)
                  => Conserved(b)
<1> DEFINE k == KeyOf(o)
           b == Booked(a, o, q, p)
           v == Average(a, o, q, p)
           s == Signed(o, q * p)
<1>2. CASE k \notin Keys
  <2>1. SameBooks(a, b)
    BY <1>2, ElsewhereBooked
  <2> HIDE DEF b, k
  <2>2. \A x \in Keys : b.qty[x] = a.qty[x] + (IF x = k THEN q ELSE 0)
    BY <1>2, <2>1 DEF SameBooks, Books
  <2> QED
    BY <2>1, <2>2, SameBooksKeep DEF b, k
<1>3. CASE k \in Keys
  <2> DEFINE w == IF a.qty[k] = 0 /\ a.avg[k] = 0 THEN p ELSE v
  <2>1. /\ {"qty", "avg", "pnl", "flow"} \subseteq DOMAIN b
        /\ b.qty = [a.qty EXCEPT ![k] = @ + q] /\ b.avg = [a.avg EXCEPT ![k] = w]
        /\ b.pnl = [a.pnl EXCEPT ![k] = @] /\ b.flow = [a.flow EXCEPT ![k] = @ + s]
    BY DEF Booked, Books, Applied
  <2>2. a.qty[k] \in Nat /\ a.avg[k] \in Int /\ a.pnl[k] \in Int /\ a.flow[k] \in Int
    BY <1>3 DEF Books
  <2>3. k[3] = o.pside /\ (k[3] = "long" <=> o.side = "buy")
    BY DEF KeyOf, IsOpen
  <2>4. v = (a.qty[k] * a.avg[k] + q * p) \div (a.qty[k] + q)
    BY DEF Average
  <2>5. q * p \in Int /\ a.qty[k] * a.avg[k] \in Int /\ a.qty[k] + q \in Nat \ {0}
    BY <2>2
  <2>6. s = IF k[3] = "long" THEN -(q * p) ELSE q * p
    BY <2>3 DEF Signed
  <2> HIDE DEF k, b, v, s
  <2>7. v \in Int /\ s \in Int
    BY <2>4, <2>5, <2>6
  <2>8. w \in Int
    BY <2>7
  <2>9. ASSUME (a.qty[k] * a.avg[k] + q * p) % (a.qty[k] + q) = 0
        PROVE  (a.qty[k] + q) * w = a.qty[k] * a.avg[k] + q * p
    <3>1. CASE a.qty[k] = 0 /\ a.avg[k] = 0
      BY <3>1
    <3>2. CASE ~(a.qty[k] = 0 /\ a.avg[k] = 0)
      <4> DEFINE x == a.qty[k] * a.avg[k] + q * p
                 n == a.qty[k] + q
      <4>1. x \in Int /\ n \in Nat \ {0} /\ x % n = 0
        BY <2>5, <2>9
      <4>2. n * (x \div n) = x
        <5> HIDE DEF x, n
        <5> QED
          BY ONLY <4>1, ExactAverage
      <4> QED
        BY <2>4, <3>2, <4>2
    <3> QED
      BY <3>1, <3>2
  <2> HIDE DEF w
  <2>10. /\ b.qty[k] = a.qty[k] + q /\ b.avg[k] = w
         /\ b.pnl[k] = a.pnl[k] /\ b.flow[k] = a.flow[k] + s
         /\ \A x \in Keys \ {k} : /\ b.qty[x] = a.qty[x] /\ b.avg[x] = a.avg[x]
                                  /\ b.pnl[x] = a.pnl[x] /\ b.flow[x] = a.flow[x]
    BY <1>3, <2>1 DEF Books
  <2>11. Books(b)
    BY <1>3, <2>1, <2>2, <2>7, <2>8 DEF Books
  <2>12. \A x \in Keys : b.qty[x] = a.qty[x] + (IF x = k THEN q ELSE 0)
    BY <2>10 DEF Books
  <2>13. ASSUME Conserved(a), (a.qty[k] * a.avg[k] + q * p) % (a.qty[k] + q) = 0
         PROVE  Conserved(b)
    <3>1. a.flow[k] = a.pnl[k] + a.qty[k] * (IF k[3] = "long" THEN -a.avg[k] ELSE a.avg[k])
      BY <1>3, <2>13 DEF Conserved
    <3>2. (a.qty[k] + q) * w = a.qty[k] * a.avg[k] + q * p
      BY <2>9, <2>13
    <3>3. b.flow[k] = b.pnl[k] + b.qty[k] * (IF k[3] = "long" THEN -b.avg[k] ELSE b.avg[k])
      <4>1. CASE k[3] = "long"
        <5>1. (a.qty[k] + q) * (-w) = -((a.qty[k] + q) * w)
          BY <2>2, <2>8
        <5>2. a.qty[k] * (-a.avg[k]) = -(a.qty[k] * a.avg[k])
          BY <2>2
        <5> QED
          BY <2>2, <2>5, <2>6, <2>10, <3>1, <3>2, <4>1, <5>1, <5>2
      <4>2. CASE k[3] # "long"
        BY <2>2, <2>5, <2>6, <2>10, <3>1, <3>2, <4>2
      <4> QED
        BY <4>1, <4>2
    <3> QED
      BY <2>10, <2>13, <3>3 DEF Conserved
  <2> QED
    BY <1>3, <2>11, <2>12, <2>13 DEF b, k
<1> QED
  BY <1>2, <1>3

-------------------------------------------------------------------------------
(***************************************************************************)
(* The books in a call of run.  What closes, saves or rejects adds nothing *)
(* to what is held and keeps the books balanced, in the portfolio and in   *)
(* the one saved last; an order that opens is booked last of all.          *)
(***************************************************************************)

\* The part of a session's state that holds books.
DeskShape(d) == {"acc", "price"} \subseteq DOMAIN d /\ Books(d.acc)

\* The outcome holds no more than account a, and its books balance if those of a do.
Kept(out, a) ==
  /\ {"desk", "events", "saved", "raised"} \subseteq DOMAIN out /\ DeskShape(out.desk)
  /\ \A k \in Keys : out.desk.acc.qty[k] <= a.qty[k]
  /\ Conserved(a) => Conserved(out.desk.acc)
  /\ out.saved /= <<>> =>
       Books(out.saved[1]) /\ (Conserved(a) => Conserved(out.saved[1]))

LEMMA OutcomeKept ==
  ASSUME NEW d, DeskShape(d)
  PROVE  Kept(Outcome(d), d.acc)
BY DEF Kept, Outcome, DeskShape, Books

\* The figures derived from the price, and the cash an exchange reports, are no books.
LEMMA SavedBooks ==
  ASSUME NEW out, {"desk", "events", "saved", "raised"} \subseteq DOMAIN out, DeskShape(out.desk),
         NEW price, NEW report
  PROVE  LET end == Saved(out, price, report)
         IN  /\ {"desk", "events", "saved", "raised"} \subseteq DOMAIN end
             /\ {"acc", "price"} \subseteq DOMAIN end.desk
             /\ SameBooks(out.desk.acc, end.desk.acc)
             /\ end.saved = <<end.desk.acc>> /\ end.raised = out.raised
             /\ end.desk.price = price
<1> DEFINE a   == IF report = None THEN Refreshed(out.desk.acc, price)
                  ELSE [out.desk.acc EXCEPT !.cash = report.cash]
           end == [out EXCEPT !.desk.acc = a, !.desk.price = price, !.desk.runs = @ + 1,
                              !.saved = <<a>>]
<1>1. Saved(out, price, report) = end
  BY DEF Saved
<1>2. SameBooks(out.desk.acc, a)
  BY DEF SameBooks, Refreshed, DeskShape, Books
<1> HIDE DEF a
<1>3. /\ DOMAIN end = DOMAIN out /\ DOMAIN end.desk = DOMAIN out.desk
      /\ end.saved = <<a>> /\ end.desk.acc = a /\ end.raised = out.raised
      /\ end.desk.price = price
  BY DEF DeskShape
<1> HIDE DEF end
<1> QED
  BY <1>1, <1>2, <1>3 DEF DeskShape

LEMMA SavedKept ==
  ASSUME NEW out, NEW a, Kept(out, a), NEW price, NEW report
  PROVE  Kept(Saved(out, price, report), a)
<1> DEFINE end == Saved(out, price, report)
           b   == end.desk.acc
<1>1. /\ {"desk", "events", "saved", "raised"} \subseteq DOMAIN end
      /\ {"acc", "price"} \subseteq DOMAIN end.desk
      /\ SameBooks(out.desk.acc, b) /\ end.saved = <<b>>
  BY SavedBooks DEF Kept
<1> HIDE DEF end
<1>2. Books(b) /\ (Conserved(out.desk.acc) => Conserved(b))
  BY <1>1, SameBooksKeep DEF Kept, DeskShape
<1>3. end.saved[1] = b
  BY <1>1
<1>4. \A k \in Keys : b.qty[k] <= a.qty[k]
  BY <1>1 DEF Kept, SameBooks
<1>5. Conserved(a) => Conserved(b)
  BY <1>2 DEF Kept
<1> QED
  BY <1>1, <1>2, <1>3, <1>4, <1>5 DEF Kept, DeskShape, end

LEMMA EventKept ==
  ASSUME NEW out, NEW a, Kept(out, a), NEW ok
  PROVE  Kept(Event(out, ok), a)
BY DEF Kept, Event

\* The portfolio a fill is booked in has its cost raised: nothing of its books.
LEMMA FilledIs ==
  ASSUME NEW out, {"desk", "events", "saved", "raised"} \subseteq DOMAIN out, DeskShape(out.desk),
         NEW o, NEW q, NEW price, NEW later, NEW a, a = out.desk.acc
  PROVE  \/ /\ Filled(out, o, q, price, later).raised
            /\ SameBooks(a, Filled(out, o, q, price, later).desk.acc)
            /\ {"desk", "events", "saved", "raised"} \subseteq DOMAIN Filled(out, o, q, price, later)
            /\ {"acc", "price"} \subseteq DOMAIN Filled(out, o, q, price, later).desk
            /\ Filled(out, o, q, price, later).saved = out.saved
         \/ /\ ~CannotClose(a.qty, o, q)
            /\ \E c : /\ SameBooks(a, c)
                      /\ \E bkd : /\ Filled(out, o, q, price, later) = Saved(bkd, later, None)
                                  /\ {"desk", "events", "saved", "raised"} \subseteq DOMAIN bkd
                                  /\ {"acc", "price"} \subseteq DOMAIN bkd.desk
                                  /\ bkd.desk.acc = Booked(c, o, q, FillPrice(price, o.side))
                                  /\ bkd.raised = out.raised
<1> DEFINE p    == FillPrice(price, o.side)
           ev   == Event(out, TRUE)
           paid == [ev EXCEPT !.desk.acc.cost = @ + TradeCost(price, o.side, q)]
           stop == Raised(paid)
           c    == paid.desk.acc
           bkd  == [paid EXCEPT !.desk.acc = Booked(@, o, q, p)]
<1>1. DOMAIN ev = DOMAIN out /\ ev.desk = out.desk /\ ev.saved = out.saved /\ ev.raised = out.raised
  BY DEF Event
<1>2. Filled(out, o, q, price, later) = IF CannotPay(a, o, q, p) \/ CannotClose(a.qty, o, q) THEN stop
                                 ELSE Saved(bkd, later, None)
  BY DEF Filled
<1> HIDE DEF ev, p
<1>3. /\ DOMAIN paid = DOMAIN out /\ DOMAIN paid.desk = DOMAIN out.desk
      /\ paid.saved = out.saved /\ paid.raised = out.raised
      /\ c = [a EXCEPT !.cost = @ + TradeCost(price, o.side, q)]
  BY <1>1 DEF DeskShape
<1>4. SameBooks(a, c)
  BY <1>3 DEF SameBooks, DeskShape, Books
<1> HIDE DEF paid
<1>5. /\ DOMAIN stop = DOMAIN out /\ stop.desk = paid.desk /\ stop.saved = out.saved /\ stop.raised
  BY <1>3 DEF Raised
<1>6. /\ DOMAIN bkd = DOMAIN out /\ DOMAIN bkd.desk = DOMAIN out.desk
      /\ bkd.desk.acc = Booked(c, o, q, p) /\ bkd.raised = out.raised
  BY <1>3 DEF DeskShape
<1> HIDE DEF stop, bkd
<1>7. CASE CannotPay(a, o, q, p) \/ CannotClose(a.qty, o, q)
  BY <1>2, <1>3, <1>4, <1>5, <1>7 DEF DeskShape
<1>8. CASE ~(CannotPay(a, o, q, p) \/ CannotClose(a.qty, o, q))
  <2>1. Filled(out, o, q, price, later) = Saved(bkd, later, None) /\ ~CannotClose(a.qty, o, q)
    BY <1>2, <1>8
  <2> HIDE DEF c
  <2> QED
    BY <1>4, <1>6, <2>1 DEF p, DeskShape
<1> QED
  BY <1>7, <1>8

LEMMA FillPriceInt ==
  ASSUME NEW price \in MarketPrices, NEW side
  PROVE  FillPrice(price, side) \in Int
<1>1. price \in Int /\ TickSize \in Nat \ {0} /\ SlippageTicks \in Nat
  BY AccountConfig, OrchestrationConfig
<1> DEFINE paid == IF side = "buy" THEN price + SlippageTicks * TickSize
                   ELSE price - SlippageTicks * TickSize
<1>2. paid \in Int
  <2>1. SlippageTicks * TickSize \in Int
    BY <1>1
  <2> QED
    BY <1>1, <2>1
<1> HIDE DEF paid
<1>3. paid \div TickSize \in Int /\ (-paid) \div TickSize \in Int
  BY <1>1, <1>2
<1>4. AlignedPrice(paid, side) \in Int
  BY <1>1, <1>3 DEF AlignedPrice
<1> QED
  BY <1>4 DEF FillPrice, paid

LEMMA RaisedKept ==
  ASSUME NEW out, NEW a, Kept(out, a)
  PROVE  Kept(Raised(out), a)
BY DEF Kept, DeskShape, Raised

\* A quote that can be read is a price of the market.
LEMMA QuoteRead ==
  ASSUME NEW reads, NEW quotes \in Quotes(reads), NEW r \in reads
  PROVE  quotes[r] \in MarketPrices \cup {None}
BY DEF Quotes, Quoted

\* What a call of run does with an order that closes: it is refused, kept at the broker or booked.
LEMMA SubmittedKept ==
  ASSUME NEW out, NEW a, Books(a), Kept(out, a), NEW o, o.pside \in {"long", "short"},
         o.side = ClosingSide(o.pside), NEW q \in Nat, NEW price \in MarketPrices \cup {None},
         NEW later, NEW report
  PROVE  Kept(Submitted(out, o, q, price, later, report), a)
<1> DEFINE kept == [out EXCEPT !.desk.pending = @ \cup {o}]
           stop == Raised(out)
           end  == Filled(out, o, q, price, later)
           p    == FillPrice(price, o.side)
           b    == out.desk.acc
<1>1. Kept(kept, a) /\ Kept(stop, a)
  BY RaisedKept DEF Kept, DeskShape
<1> HIDE DEF kept, stop
<1>2. Kept(Saved(kept, later, report), a)
  BY <1>1, SavedKept
<1>n. CASE price = None
  <2>1. Submitted(out, o, q, price, later, report) \in {stop, Saved(kept, later, report)}
    BY <1>n DEF Submitted, kept, stop
  <2> QED
    BY <1>1, <1>2, <2>1
<1>p. SUFFICES ASSUME price \in MarketPrices
               PROVE  Kept(Submitted(out, o, q, price, later, report), a)
  BY <1>n
<1>3. /\ {"desk", "events", "saved", "raised"} \subseteq DOMAIN out /\ DeskShape(out.desk)
      /\ Books(b) /\ p \in Int
  BY <1>p, FillPriceInt DEF Kept, DeskShape
<1>4. ASSUME /\ SameBooks(b, end.desk.acc)
             /\ {"desk", "events", "saved", "raised"} \subseteq DOMAIN end
             /\ {"acc", "price"} \subseteq DOMAIN end.desk
             /\ end.saved = out.saved
      PROVE  Kept(end, a)
  <2> HIDE DEF end
  <2>1. Books(end.desk.acc) /\ (Conserved(b) => Conserved(end.desk.acc))
    BY <1>3, <1>4, SameBooksKeep
  <2> QED
    BY <1>4, <2>1 DEF Kept, DeskShape, SameBooks
<1>5. ASSUME /\ ~CannotClose(b.qty, o, q)
             /\ \E c : /\ SameBooks(b, c)
                       /\ \E bkd : /\ end = Saved(bkd, later, None)
                                   /\ {"desk", "events", "saved", "raised"} \subseteq DOMAIN bkd
                                   /\ {"acc", "price"} \subseteq DOMAIN bkd.desk
                                   /\ bkd.desk.acc = Booked(c, o, q, p)
                                   /\ bkd.raised = out.raised
      PROVE  Kept(end, a)
  <2>1. PICK c, bkd : /\ SameBooks(b, c) /\ end = Saved(bkd, later, None)
                      /\ {"desk", "events", "saved", "raised"} \subseteq DOMAIN bkd
                      /\ {"acc", "price"} \subseteq DOMAIN bkd.desk
                      /\ bkd.desk.acc = Booked(c, o, q, p)
    BY <1>5
  <2> HIDE DEF end, p
  <2>2. Books(c) /\ (Conserved(b) => Conserved(c)) /\ c.qty = b.qty
    BY <1>3, <2>1, SameBooksKeep DEF SameBooks
  <2>3. ~CannotClose(c.qty, o, q)
    BY <1>5, <2>2
  <2>4. LET x == bkd.desk.acc
        IN  /\ Books(x) /\ (Conserved(c) => Conserved(x))
            /\ \A k \in Keys : x.qty[k] <= c.qty[k]
    BY <1>3, <2>1, <2>2, <2>3, ClosedBooked
  <2> DEFINE x == bkd.desk.acc
             y == end.desk.acc
  <2>5. /\ {"desk", "events", "saved", "raised"} \subseteq DOMAIN end
        /\ {"acc", "price"} \subseteq DOMAIN end.desk
        /\ SameBooks(x, y) /\ end.saved = <<y>>
    BY <2>1, <2>4, SavedBooks DEF DeskShape
  <2>6. Books(y) /\ (Conserved(x) => Conserved(y)) /\ y.qty = x.qty
    BY <2>4, <2>5, SameBooksKeep DEF SameBooks
  <2>7. Conserved(a) => Conserved(y)
    BY <2>2, <2>4, <2>6 DEF Kept
  <2>8. \A k \in Keys : y.qty[k] <= a.qty[k]
    <3> SUFFICES ASSUME NEW k \in Keys PROVE y.qty[k] <= a.qty[k]
      OBVIOUS
    <3>1. y.qty[k] <= b.qty[k] /\ b.qty[k] <= a.qty[k]
      BY <2>2, <2>4, <2>6 DEF Kept
    <3>2. y.qty[k] \in Nat /\ b.qty[k] \in Nat /\ a.qty[k] \in Nat
      BY <1>3, <2>6 DEF Books
    <3> QED
      BY <3>1, <3>2
  <2>9. end.saved[1] = y
    BY <2>5
  <2>10. Books(y) /\ end.desk.acc = y
    BY <2>6
  <2> HIDE DEF x, y
  <2> QED
    BY <2>5, <2>7, <2>8, <2>9, <2>10 DEF Kept, DeskShape
<1>6. Kept(end, a)
  <2>1. \/ /\ end.raised
           /\ SameBooks(b, end.desk.acc)
           /\ {"desk", "events", "saved", "raised"} \subseteq DOMAIN end
           /\ {"acc", "price"} \subseteq DOMAIN end.desk
           /\ end.saved = out.saved
        \/ /\ ~CannotClose(b.qty, o, q)
           /\ \E c : /\ SameBooks(b, c)
                     /\ \E bkd : /\ end = Saved(bkd, later, None)
                                 /\ {"desk", "events", "saved", "raised"} \subseteq DOMAIN bkd
                                 /\ {"acc", "price"} \subseteq DOMAIN bkd.desk
                                 /\ bkd.desk.acc = Booked(c, o, q, p)
                                 /\ bkd.raised = out.raised
    BY <1>3, FilledIs
  <2> QED
    BY <1>4, <1>5, <2>1
<1> HIDE DEF end
<1>7. Submitted(out, o, q, price, later, report) \in {stop, Saved(kept, later, report), end}
  BY DEF Submitted, kept, stop, end
<1> QED
  BY <1>1, <1>2, <1>6, <1>7

\* However many positions of the old contract are closed, and wherever an order fails.
LEMMA ClosedKept ==
  ASSUME DeskShape(desk), NEW positions \in SetToSeqs(OldPositions),
         NEW quotes \in Quotes({"fill", "saved"} \X OldPositions)
  PROVE  Kept(Closed(positions, quotes), desk.acc)
<1> DEFINE S == DOMAIN positions
           g == ClosesOf(positions, quotes, S)
           G == {s \in SUBSET S : Kept(g[s], desk.acc)}
<1>1. Indices(S) /\ \A i \in S : positions[i] \in OldPositions
  BY IndicesOfPositions DEF SetToSeqs
<1>2. Closes(g, positions, quotes, S)
  BY <1>1, ClosesExist, Zenon DEF ClosesOf
<1> HIDE DEF S, g
<1>3. {} \in G
  <2>1. DeskShape(Resolved) /\ Resolved.acc = desk.acc
    BY DEF Resolved, DeskShape
  <2>2. g[{}] = Outcome(Resolved)
    BY <1>2 DEF Closes
  <2> QED
    BY <2>1, <2>2, OutcomeKept
<1>4. ASSUME NEW s \in SUBSET S, s # {}, s \ {Max(s)} \in G
      PROVE  s \in G
  <2> DEFINE k == positions[Max(s)]
             before == g[s \ {Max(s)}]
  <2>1. g[s] = Closing(before, k, quotes) /\ Kept(before, desk.acc)
    BY <1>2, <1>4 DEF Closes
  <2>2. k \in OldPositions
    BY <1>1, <1>4, MaxIn, SubIndices
  <2>3. k[3] \in {"long", "short"} /\ desk.acc.qty[k] \in Nat
    BY <2>2 DEF OldPositions, Held, Keys, DeskShape, Books
  <2> HIDE DEF before, k
  <2>4. ClosingOrder(k).pside = k[3] /\ ClosingOrder(k).side = ClosingSide(k[3])
    BY DEF ClosingOrder, OrderFor
  <2> DEFINE fill  == quotes[<<"fill", k>>]
             later == quotes[<<"saved", k>>]
  <2>f. fill \in MarketPrices \cup {None}
    BY <2>2, QuoteRead
  <2> HIDE DEF fill, later
  <2>5. Kept(Submitted(before, ClosingOrder(k), desk.acc.qty[k], fill, later, None), desk.acc)
    BY <2>1, <2>3, <2>4, <2>f, SubmittedKept DEF DeskShape
  <2>6. Kept(g[s], desk.acc)
    BY <2>1, <2>5 DEF Closing, fill, later
  <2> QED
    BY <2>6
<1>5. S \in G
  <2> HIDE DEF G
  <2> QED
    BY <1>1, <1>3, <1>4, IndexInduction
<1> QED
  BY <1>5, ClosedDef DEF S, g

\* The average of a key with an opening of q at p needs no rounding.
WholeAverage(a, k, q, p) == (a.qty[k] * a.avg[k] + q * p) % (a.qty[k] + q) = 0

\* The outcome of an order that opens Quantity of key k at price p, from account a,
\* with the figures refreshed at a later quote.
Opened(out, a, k, p, later) ==
  /\ {"desk", "events", "saved", "raised"} \subseteq DOMAIN out /\ DeskShape(out.desk)
  /\ \A x \in Keys : out.desk.acc.qty[x] = a.qty[x] + (IF x = k THEN Quantity ELSE 0)
  /\ Conserved(a) /\ (k \in Keys => WholeAverage(a, k, Quantity, p)) => Conserved(out.desk.acc)
  /\ out.saved = <<out.desk.acc>> /\ ~out.raised
  /\ out.desk.price = later

LEMMA FilledOpened ==
  ASSUME NEW d, DeskShape(d), NEW o, IsOpen(o), NEW price \in MarketPrices, NEW later
  PROVE  LET end == Filled(Outcome(d), o, Quantity, price, later)
         IN  \/ end.raised /\ Kept(end, d.acc)
             \/ Opened(end, d.acc, KeyOf(o), FillPrice(price, o.side), later)
<1> DEFINE out == Outcome(d)
           q   == Quantity
           end == Filled(out, o, q, price, later)
           p   == FillPrice(price, o.side)
           b   == out.desk.acc
           k   == KeyOf(o)
<1>1. /\ {"desk", "events", "saved", "raised"} \subseteq DOMAIN out /\ DeskShape(out.desk)
      /\ b = d.acc /\ Books(b) /\ p \in Int /\ q \in Nat \ {0}
      /\ out.saved = <<>> /\ ~out.raised
  BY FillPriceInt, AccountConfig DEF Outcome, DeskShape
<1> HIDE DEF out, q
<1>2. \/ /\ end.raised
         /\ SameBooks(b, end.desk.acc)
         /\ {"desk", "events", "saved", "raised"} \subseteq DOMAIN end
         /\ {"acc", "price"} \subseteq DOMAIN end.desk
         /\ end.saved = out.saved
      \/ /\ ~CannotClose(b.qty, o, q)
         /\ \E c : /\ SameBooks(b, c)
                   /\ \E bkd : /\ end = Saved(bkd, later, None)
                               /\ {"desk", "events", "saved", "raised"} \subseteq DOMAIN bkd
                               /\ {"acc", "price"} \subseteq DOMAIN bkd.desk
                               /\ bkd.desk.acc = Booked(c, o, q, p)
                               /\ bkd.raised = out.raised
  BY <1>1, FilledIs
<1> HIDE DEF end, p, k
<1>3. ASSUME /\ SameBooks(b, end.desk.acc)
             /\ {"desk", "events", "saved", "raised"} \subseteq DOMAIN end
             /\ {"acc", "price"} \subseteq DOMAIN end.desk
             /\ end.saved = out.saved
      PROVE  Kept(end, b)
  <2>1. Books(end.desk.acc) /\ (Conserved(b) => Conserved(end.desk.acc))
    BY <1>1, <1>3, SameBooksKeep
  <2>2. \A x \in Keys : end.desk.acc.qty[x] <= b.qty[x]
    BY <1>1, <1>3 DEF SameBooks, Books
  <2>3. end.saved = <<>>
    BY <1>1, <1>3
  <2> QED
    BY <1>3, <2>1, <2>2, <2>3 DEF Kept, DeskShape
<1>4. ASSUME NEW c, SameBooks(b, c), NEW bkd, end = Saved(bkd, later, None),
             {"desk", "events", "saved", "raised"} \subseteq DOMAIN bkd,
             {"acc", "price"} \subseteq DOMAIN bkd.desk, bkd.desk.acc = Booked(c, o, q, p),
             bkd.raised = out.raised
      PROVE  Opened(end, b, k, p, later)
  <2> DEFINE x == bkd.desk.acc
             y == end.desk.acc
  <2>1. Books(c) /\ (Conserved(b) => Conserved(c)) /\ c.qty = b.qty /\ c.avg = b.avg
    BY <1>1, <1>4, SameBooksKeep DEF SameBooks
  <2>2. /\ Books(x)
        /\ \A z \in Keys : x.qty[z] = c.qty[z] + (IF z = k THEN q ELSE 0)
        /\ Conserved(c) /\ (k \in Keys => (c.qty[k] * c.avg[k] + q * p) % (c.qty[k] + q) = 0)
             => Conserved(x)
    <3>1. LET j == KeyOf(o)
              z == Booked(c, o, q, p)
          IN  /\ Books(z)
              /\ \A w \in Keys : z.qty[w] = c.qty[w] + (IF w = j THEN q ELSE 0)
              /\ Conserved(c) /\ (j \in Keys => (c.qty[j] * c.avg[j] + q * p) % (c.qty[j] + q) = 0)
                   => Conserved(z)
      BY <1>1, <2>1, OpenedBooked
    <3> QED
      BY <1>4, <3>1 DEF k
  <2>3. /\ {"desk", "events", "saved", "raised"} \subseteq DOMAIN end
        /\ {"acc", "price"} \subseteq DOMAIN end.desk
        /\ SameBooks(x, y) /\ end.saved = <<y>> /\ ~end.raised /\ end.desk.price = later
    BY <1>1, <1>4, <2>2, SavedBooks DEF DeskShape
  <2>4. Books(y) /\ (Conserved(x) => Conserved(y)) /\ y.qty = x.qty
    BY <2>2, <2>3, SameBooksKeep DEF SameBooks
  <2>5. Conserved(b) /\ (k \in Keys => WholeAverage(b, k, q, p)) => Conserved(y)
    BY <2>1, <2>2, <2>4 DEF WholeAverage
  <2>6. \A z \in Keys : y.qty[z] = b.qty[z] + (IF z = k THEN q ELSE 0)
    BY <2>1, <2>2, <2>4
  <2>7. Books(y) /\ end.desk.acc = y
    BY <2>4
  <2> HIDE DEF x, y
  <2> QED
    BY <2>3, <2>5, <2>6, <2>7 DEF Opened, DeskShape, q
<1>5. \/ end.raised /\ Kept(end, b)
      \/ Opened(end, b, k, p, later)
  BY <1>2, <1>3, <1>4
<1> QED
  BY <1>1, <1>5 DEF end, p, k, out, q

LEMMA SubmittedOpened ==
  ASSUME NEW d, DeskShape(d), NEW o, IsOpen(o), NEW price \in MarketPrices \cup {None},
         NEW later, NEW report
  PROVE  LET end == Submitted(Outcome(d), o, Quantity, price, later, report)
         IN  \/ Kept(end, d.acc)
             \/ /\ ~Works /\ price \in MarketPrices
                /\ Opened(end, d.acc, KeyOf(o), FillPrice(price, o.side), later)
<1> DEFINE out  == Outcome(d)
           kept == [out EXCEPT !.desk.pending = @ \cup {o}]
           stop == Raised(out)
           end  == Filled(out, o, Quantity, price, later)
<1>1. Kept(out, d.acc)
  BY OutcomeKept
<1>2. price \in MarketPrices => \/ end.raised /\ Kept(end, d.acc)
                               \/ Opened(end, d.acc, KeyOf(o), FillPrice(price, o.side), later)
  BY FilledOpened
<1> HIDE DEF out, end
<1>3. Kept(kept, d.acc) /\ Kept(stop, d.acc)
  BY <1>1, RaisedKept DEF Kept, DeskShape
<1> HIDE DEF kept, stop
<1>4. Kept(Saved(kept, later, report), d.acc)
  BY <1>3, SavedKept
<1>5. \/ Submitted(out, o, Quantity, price, later, report) \in {stop, Saved(kept, later, report)}
      \/ /\ ~Works /\ price \in MarketPrices
         /\ Submitted(out, o, Quantity, price, later, report) = end
  BY DEF Submitted, kept, stop, end
<1> QED
  BY <1>2, <1>3, <1>4, <1>5 DEF out

-------------------------------------------------------------------------------
(***************************************************************************)
(* The ticks of a session, as far as the books depend on them.             *)
(***************************************************************************)

\* The portfolio in memory and the latest snapshot are books of this universe.
LedgerInv ==
  /\ pc \in Envs \/ desk /= None => DeskShape(desk)
  /\ snap /= None => Books(snap)

\* The order that opens in a tick, weighed against the limits before, filled and
\* followed by a snapshot, each at a quote of its own.
Opens(e, out, o, quotes, orders) ==
  /\ IsOpen(o) /\ quotes \in Quotes({"order", "held", "fill", "saved"})
  /\ quotes.order \in MarketPrices /\ quotes.fill \in MarketPrices
  /\ ~TooRisky(Plan.risk, desk.acc, quotes.order, quotes.held, Quantity)
  /\ Opened(out, desk.acc, KeyOf(o), FillPrice(quotes.fill, o.side), quotes.saved)
  /\ Concluded(e, out, orders)

\* One tick of the session of environment e.
TickOf(e) ==
  \/ NoDecision(e) \/ RollCancel(e) \/ RollClose(e) \/ RollActivate(e)
  \/ \E d \in Signals : CooldownReject(e, d) \/ Decide(e, d)

LEMMA TicksKept ==
  ASSUME LedgerInv, NEW e \in Envs, TickOf(e)
  PROVE  /\ pc = e
         /\ \/ \E out, orders : Kept(out, desk.acc) /\ Concluded(e, out, orders)
            \/ \E out : Kept(out, desk.acc) /\ Aborted(e, out)
            \/ \E out, o, quotes, orders : Opens(e, out, o, quotes, orders)
<1> DEFINE Goes == \/ \E out, orders : Kept(out, desk.acc) /\ Concluded(e, out, orders)
                   \/ \E out : Kept(out, desk.acc) /\ Aborted(e, out)
                   \/ \E out, o, quotes, orders : Opens(e, out, o, quotes, orders)
<1>1. pc = e
  BY DEF TickOf, NoDecision, RollCancel, RollClose, RollActivate, CooldownReject, Decide, Running
<1>2. DeskShape(desk) /\ Books(desk.acc)
  BY <1>1 DEF LedgerInv, DeskShape
<1>3. ASSUME NEW change, {"acc", "price"} \subseteq DOMAIN change, change.acc = desk.acc,
             NEW price, NEW report
      PROVE  /\ Kept(Outcome(change), desk.acc)
             /\ Kept(Saved(Outcome(change), price, report), desk.acc)
  <2>1. DeskShape(change)
    BY <1>2, <1>3 DEF DeskShape
  <2>2. Kept(Outcome(change), desk.acc)
    BY <1>3, <2>1, OutcomeKept
  <2> QED
    BY <2>2, SavedKept
<1>4. {"acc", "price"} \subseteq DOMAIN Resolved /\ Resolved.acc = desk.acc
  BY <1>2 DEF Resolved, DeskShape
<1>5. NoDecision(e) => Goes
  BY <1>2, OutcomeKept DEF NoDecision
<1>6. ASSUME RollCancel(e) PROVE Goes
  <2> DEFINE change == [Resolved EXCEPT !.pending = {}]
  <2>1. {"acc", "price"} \subseteq DOMAIN change /\ change.acc = desk.acc
    BY <1>4
  <2>2. PICK price \in Quoted : Concluded(e, Saved(Outcome(change), price, None), {})
    BY <1>6 DEF RollCancel
  <2> HIDE DEF change
  <2> QED
    BY <1>3, <2>1, <2>2
<1>7. ASSUME RollClose(e) PROVE Goes
  <2>1. PICK positions \in SetToSeqs(OldPositions),
             quotes \in Quotes({"fill", "saved"} \X OldPositions) :
          \/ Concluded(e, Closed(positions, quotes), {ClosingOrder(k) : k \in OldPositions})
          \/ Aborted(e, Closed(positions, quotes))
    BY <1>7 DEF RollClose
  <2>2. Kept(Closed(positions, quotes), desk.acc)
    BY <1>2, ClosedKept
  <2> QED
    BY <2>1, <2>2
<1>8. ASSUME RollActivate(e) PROVE Goes
  <2> DEFINE change == [desk EXCEPT !.active = Configured(desk.tick),
                                    !.until = desk.runs + Plan.roll.cooldown_ticks]
  <2>1. {"acc", "price"} \subseteq DOMAIN change /\ change.acc = desk.acc
    BY <1>2 DEF DeskShape
  <2>2. PICK price \in Quoted : Concluded(e, Saved(Outcome(change), price, None), {})
    BY <1>8 DEF RollActivate
  <2> HIDE DEF change
  <2> QED
    BY <1>3, <2>1, <2>2
<1>9. ASSUME NEW d \in Signals, CooldownReject(e, d) PROVE Goes
  <2>1. PICK price \in Quoted : Concluded(e, Saved(Outcome(Resolved), price, None), {})
    BY <1>9 DEF CooldownReject
  <2> QED
    BY <1>3, <1>4, <2>1
<1>10. ASSUME NEW d \in Signals, Decide(e, d) PROVE Goes
  <2> DEFINE o   == OrderFor(Trading, d.side, d.pside)
             out == Outcome(Resolved)
  <2>1. PICK report \in Reports, quotes \in Quotes({"order", "held", "fill", "saved"}) :
          \/ Concluded(e, Saved(out, quotes.saved, report), {})
          \/ Concluded(e, Saved(Event(out, FALSE), quotes.saved, report), {})
          \/ Aborted(e, Raised(out))
          \/ /\ Allowed(d) /\ ~Blocked(desk, o) /\ quotes.order /= None
             /\ ~Risky(desk, quotes, report) /\ Executable(d)
             /\ LET end == Submitted(out, o, Quantity, quotes.fill, quotes.saved, report)
                IN  Concluded(e, end, {o}) \/ Aborted(e, end)
    BY <1>10 DEF Decide
  <2> DEFINE end == Submitted(out, o, Quantity, quotes.fill, quotes.saved, report)
  <2>2. Kept(out, desk.acc) /\ Kept(Saved(out, quotes.saved, report), desk.acc)
    BY <1>3, <1>4
  <2>3. DeskShape(Resolved)
    BY <1>2, <1>4 DEF DeskShape
  <2>4. o.side = d.side /\ o.pside = d.pside
    BY DEF OrderFor
  <2>5. CASE Concluded(e, Saved(out, quotes.saved, report), {})
    BY <2>2, <2>5
  <2>6. CASE Concluded(e, Saved(Event(out, FALSE), quotes.saved, report), {})
    <3> HIDE DEF out
    <3>1. Kept(Saved(Event(out, FALSE), quotes.saved, report), desk.acc)
      BY <2>2, EventKept, SavedKept
    <3> QED
      BY <2>6, <3>1
  <2>7. CASE Aborted(e, Raised(out))
    <3> HIDE DEF out
    <3> QED
      BY <2>2, <2>7, RaisedKept
  <2>8. CASE /\ Allowed(d) /\ ~Blocked(desk, o) /\ quotes.order /= None
             /\ ~Risky(desk, quotes, report) /\ Executable(d)
             /\ Concluded(e, end, {o}) \/ Aborted(e, end)
    <3>0. /\ quotes.order \in MarketPrices /\ quotes.fill \in MarketPrices \cup {None}
      <4>1. "order" \in {"order", "held", "fill", "saved"} /\ "fill" \in {"order", "held", "fill", "saved"}
        OBVIOUS
      <4> QED
        BY <2>8, <4>1, QuoteRead
    <3>1. d.side \in {"buy", "sell"} /\ d.pside \in {"long", "short"}
      <4>1. /\ d.decision \in {"open_long", "open_short", "close", "hold"}
            /\ d.side \in {"buy", "sell", "none"} /\ d.pside \in {"long", "short", "flat"}
        BY OrchestrationConfig
      <4> QED
        BY <2>8, <4>1 DEF Allowed, Executable
    <3>2. CASE IsOpen(o)
      <4> DEFINE p == FillPrice(quotes.fill, o.side)
      <4>1. \/ Kept(end, desk.acc)
            \/ /\ ~Works /\ quotes.fill \in MarketPrices
               /\ Opened(end, desk.acc, KeyOf(o), p, quotes.saved)
        <5> HIDE DEF o
        <5> QED
          BY <1>4, <2>3, <3>0, <3>2, SubmittedOpened
      <4>2. ~Works => ~TooRisky(Plan.risk, desk.acc, quotes.order, quotes.held, Quantity)
        BY <2>8 DEF Reports, Works, Risky
      <4>3. ~Kept(end, desk.acc) => ~Aborted(e, end)
        <5> HIDE DEF end
        <5> QED
          BY <4>1 DEF Aborted, Opened
      <4> HIDE DEF end
      <4>4. ~Kept(end, desk.acc) => Opens(e, end, o, quotes, {o})
        BY <2>8, <3>0, <3>2, <4>1, <4>2, <4>3 DEF Opens
      <4> HIDE DEF o
      <4> QED
        BY <2>8, <4>4
    <3>3. CASE ~IsOpen(o)
      <4>1. o.pside \in {"long", "short"} /\ o.side = ClosingSide(o.pside)
        BY <2>4, <3>1, <3>3 DEF IsOpen, ClosingSide
      <4>2. Quantity \in Nat
        BY AccountConfig
      <4> DEFINE a    == desk.acc
                 fill == quotes.fill
      <4> HIDE DEF o, out, a, fill
      <4>3. /\ Books(a) /\ Kept(out, a) /\ fill \in MarketPrices \cup {None}
            /\ o.pside \in {"long", "short"} /\ o.side = ClosingSide(o.pside)
            /\ Quantity \in Nat
        BY <1>2, <2>2, <3>0, <4>1, <4>2 DEF a, fill
      <4>4. Kept(Submitted(out, o, Quantity, fill, quotes.saved, report), a)
        BY ONLY <4>3, SubmittedKept
      <4>5. Kept(end, desk.acc)
        BY <4>4 DEF a, fill
      <4> HIDE DEF end
      <4> QED
        BY <2>8, <4>5
    <3> QED
      BY <3>2, <3>3
  <2> QED
    BY <2>1, <2>5, <2>6, <2>7, <2>8
<1>11. Goes
  <2> HIDE DEF Goes
  <2> QED
    BY <1>5, <1>6, <1>7, <1>8, <1>9, <1>10 DEF TickOf
<1> QED
  BY <1>1, <1>11

-------------------------------------------------------------------------------
(***************************************************************************)
(* The books of every session: LedgerInv is inductive.                     *)
(***************************************************************************)

LEMMA LedgerInit == Init => LedgerInv
BY DEF Init, LedgerInv, Envs

LEMMA BuiltBooks ==
  ASSUME LedgerInv, pc = "live"
  PROVE  /\ SameBooks(IF snap = None THEN desk.acc ELSE snap, Baseline)
         /\ Books(IF snap = None THEN desk.acc ELSE snap)
BY DEF LedgerInv, Baseline, SameBooks, Books, DeskShape, Envs

LEMMA EmptyBooks == Books(EmptyAccount) /\ Conserved(EmptyAccount)
BY DEF Books, EmptyAccount, Conserved

\* What becomes of the books in a tick that concludes.
LEMMA ConcludedBooks ==
  ASSUME NEW e \in Envs, NEW out, NEW orders, Concluded(e, out, orders),
         {"desk", "saved"} \subseteq DOMAIN out, DeskShape(out.desk)
  PROVE  /\ pc' = pc /\ run' = run
         /\ DeskShape(desk') /\ desk'.acc = out.desk.acc /\ desk'.price = out.desk.price
         /\ snap' \in {snap} \cup (IF out.saved /= <<>> THEN {out.saved[1]} ELSE {})
BY DEF Concluded, Written, DeskShape

LEMMA LedgerStep == LedgerInv /\ [Next]_vars => LedgerInv'
<1> SUFFICES ASSUME LedgerInv, [Next]_vars PROVE LedgerInv'
  OBVIOUS
<1> USE DEF history
<1>1. CASE UNCHANGED vars
  BY <1>1 DEF vars, LedgerInv
<1>2. ASSUME NEW line \in CommandLines, Start(line) \/ Refuse(line) PROVE LedgerInv'
  BY <1>2 DEF Start, Refuse, LedgerInv, Envs
<1>3. CASE CleanLive \/ CleanSandbox \/ CleanFiles
  BY <1>3 DEF CleanLive, CleanSandbox, CleanFiles, LedgerInv, Envs
<1>4. CASE BuildLive
  <2>1. DeskShape(desk') /\ snap' = snap
    BY <1>4, EmptyBooks DEF BuildLive, NewDesk, DeskShape
  <2> QED
    BY <2>1 DEF LedgerInv
<1>5. CASE BuildSandbox
  <2>1. Books(Baseline)
    BY <1>5, BuiltBooks, SameBooksKeep DEF BuildSandbox
  <2>2. DeskShape(desk') /\ snap' = snap
    BY <1>5, <2>1 DEF BuildSandbox, NewDesk, DeskShape
  <2> QED
    BY <2>2 DEF LedgerInv
<1>6. CASE BuildFails \/ Kill \/ WriteManifest
  BY <1>6 DEF BuildFails, Kill, WriteManifest, Gone, LedgerInv, Envs
<1>7. ASSUME NEW e \in Envs, TickOf(e) PROVE LedgerInv'
  <2>1. /\ pc = e
        /\ \/ \E out, orders : Kept(out, desk.acc) /\ Concluded(e, out, orders)
           \/ \E out : Kept(out, desk.acc) /\ Aborted(e, out)
           \/ \E out, o, quotes, orders : Opens(e, out, o, quotes, orders)
    BY <1>7, TicksKept
  <2>2. ASSUME NEW out, NEW orders, Kept(out, desk.acc), Concluded(e, out, orders)
        PROVE  LedgerInv'
    BY <2>2, ConcludedBooks DEF Kept, LedgerInv
  <2>3. ASSUME NEW out, Kept(out, desk.acc), Aborted(e, out)
        PROVE  LedgerInv'
    BY <2>3 DEF Kept, Aborted, Written, Gone, LedgerInv, Envs
  <2>4. ASSUME NEW out, NEW o, NEW quotes, NEW orders, Opens(e, out, o, quotes, orders)
        PROVE  LedgerInv'
    <3>1. out.saved[1] = out.desk.acc /\ Books(out.desk.acc)
      BY <2>4 DEF Opens, Opened, DeskShape
    <3> QED
      BY <2>4, <3>1, ConcludedBooks DEF Opens, Opened, LedgerInv
  <2> QED
    BY <2>1, <2>2, <2>3, <2>4
<1>8. CASE Promote \/ WriteSummaries \/ WriteDecision \/ WriteApproved
  BY <1>8 DEF Promote, WriteSummaries, WriteDecision, WriteApproved, LedgerInv, Envs
<1> QED
  BY <1>1, <1>2, <1>3, <1>4, <1>5, <1>6, <1>7, <1>8 DEF Next, TickOf

-------------------------------------------------------------------------------
(***************************************************************************)
(* Realized profit.  In the model a price is a whole number, in the code   *)
(* it is not: the average of two prices is exact there.  The theorem is    *)
(* about the runs in units in which no average has to be rounded.          *)
(***************************************************************************)

\* Where a tick opens more of a key, the average price is a whole number, whatever the
\* feed quotes.
ExactAverages ==
  pc \in Envs /\ pc' = pc =>
    \A k \in Keys :
      LET q == desk'.acc.qty[k] - desk.acc.qty[k]
      IN  q > 0 => \A price \in MarketPrices :
                     WholeAverage(desk.acc, k, q, FillPrice(price, OpeningSide(k[3])))

ProfitInv ==
  /\ LedgerInv
  /\ pc \in Envs \/ desk /= None => Conserved(desk.acc)
  /\ snap /= None => Conserved(snap)

LEMMA ProfitStep == ProfitInv /\ [Next]_vars /\ [ExactAverages]_vars => ProfitInv'
<1> SUFFICES ASSUME ProfitInv, [Next]_vars, [ExactAverages]_vars PROVE ProfitInv'
  OBVIOUS
<1> USE DEF history
<1>0. LedgerInv /\ LedgerInv'
  BY LedgerStep DEF ProfitInv
<1>1. CASE UNCHANGED vars
  BY <1>0, <1>1 DEF vars, ProfitInv
<1>2. ASSUME NEW line \in CommandLines, Start(line) \/ Refuse(line) PROVE ProfitInv'
  BY <1>0, <1>2 DEF Start, Refuse, ProfitInv, Envs
<1>3. CASE CleanLive \/ CleanSandbox \/ CleanFiles
  BY <1>0, <1>3 DEF CleanLive, CleanSandbox, CleanFiles, ProfitInv, Envs
<1>4. CASE BuildLive
  <2>1. Conserved(desk'.acc) /\ snap' = snap
    BY <1>4, EmptyBooks DEF BuildLive, NewDesk
  <2> QED
    BY <1>0, <2>1 DEF ProfitInv
<1>5. CASE BuildSandbox
  <2>1. Conserved(Baseline)
    <3>1. pc = "live" /\ Conserved(IF snap = None THEN desk.acc ELSE snap)
      BY <1>5 DEF BuildSandbox, ProfitInv, Envs
    <3> QED
      BY <1>0, <3>1, BuiltBooks, SameBooksKeep
  <2>2. Conserved(desk'.acc) /\ snap' = snap
    BY <1>5, <2>1 DEF BuildSandbox, NewDesk
  <2> QED
    BY <1>0, <2>2 DEF ProfitInv
<1>6. CASE BuildFails \/ Kill \/ WriteManifest
  BY <1>0, <1>6 DEF BuildFails, Kill, WriteManifest, Gone, ProfitInv, Envs
<1>7. ASSUME NEW e \in Envs, TickOf(e) PROVE ProfitInv'
  <2>1. /\ pc = e
        /\ \/ \E out, orders : Kept(out, desk.acc) /\ Concluded(e, out, orders)
           \/ \E out : Kept(out, desk.acc) /\ Aborted(e, out)
           \/ \E out, o, quotes, orders : Opens(e, out, o, quotes, orders)
    BY <1>0, <1>7, TicksKept
  <2>2. Conserved(desk.acc) /\ (snap /= None => Conserved(snap)) /\ Books(desk.acc)
    BY <2>1 DEF ProfitInv, LedgerInv, DeskShape
  <2>3. ASSUME NEW out, NEW orders, Kept(out, desk.acc), Concluded(e, out, orders)
        PROVE  ProfitInv'
    BY <1>0, <2>2, <2>3, ConcludedBooks DEF Kept, ProfitInv
  <2>4. ASSUME NEW out, Kept(out, desk.acc), Aborted(e, out)
        PROVE  ProfitInv'
    BY <1>0, <2>2, <2>4 DEF Kept, Aborted, Written, Gone, ProfitInv, Envs
  <2>5. ASSUME NEW out, NEW o, NEW quotes, NEW orders, Opens(e, out, o, quotes, orders)
        PROVE  ProfitInv'
    <3> DEFINE k == KeyOf(o)
               p == FillPrice(quotes.fill, o.side)
               a == desk.acc
    <3>1. /\ Opened(out, a, k, p, quotes.saved) /\ IsOpen(o) /\ DeskShape(out.desk)
          /\ Concluded(e, out, orders) /\ {"desk", "saved"} \subseteq DOMAIN out
          /\ quotes.fill \in MarketPrices
      BY <2>5 DEF Opens, Opened
    <3>2. /\ pc' = pc /\ desk'.acc = out.desk.acc
          /\ snap' \in {snap} \cup (IF out.saved /= <<>> THEN {out.saved[1]} ELSE {})
      BY <3>1, ConcludedBooks
    <3>3. k[3] = o.pside /\ o.side = OpeningSide(k[3])
      BY <3>1 DEF KeyOf, IsOpen, OpeningSide
    <3>4. ExactAverages
      <4>1. CASE ExactAverages
        BY <4>1
      <4>2. CASE UNCHANGED vars
        <5>1. desk' = desk
          BY <4>2 DEF vars
        <5>2. \A x \in Keys : desk'.acc.qty[x] - desk.acc.qty[x] = 0
          BY <2>2, <5>1 DEF Books
        <5> QED
          BY <5>2 DEF ExactAverages
      <4> QED
        BY <4>1, <4>2
    <3>5. k \in Keys => WholeAverage(a, k, Quantity, p)
      <4> SUFFICES ASSUME k \in Keys PROVE WholeAverage(a, k, Quantity, p)
        OBVIOUS
      <4>1. a.qty[k] \in Nat /\ Quantity \in Nat \ {0}
        BY <2>2, AccountConfig DEF Books
      <4>2. desk'.acc.qty[k] = a.qty[k] + Quantity
        BY <3>1, <3>2 DEF Opened
      <4>3. desk'.acc.qty[k] - desk.acc.qty[k] = Quantity
        BY <4>1, <4>2
      <4>4. FillPrice(quotes.fill, OpeningSide(k[3])) = p
        BY <3>3
      <4> HIDE DEF k, p
      <4>5. Quantity > 0 =>
              WholeAverage(desk.acc, k, Quantity, FillPrice(quotes.fill, OpeningSide(k[3])))
        BY <2>1, <3>1, <3>2, <3>4, <4>3 DEF ExactAverages
      <4> QED
        BY <4>1, <4>4, <4>5
    <3>6. Conserved(out.desk.acc) /\ out.saved = <<out.desk.acc>>
      BY <2>2, <3>1, <3>5 DEF Opened
    <3>7. out.saved[1] = out.desk.acc
      BY <3>6
    <3> QED
      BY <1>0, <2>2, <3>2, <3>6, <3>7 DEF ProfitInv
  <2> QED
    BY <2>1, <2>3, <2>4, <2>5
<1>8. CASE Promote \/ WriteSummaries \/ WriteDecision \/ WriteApproved
  BY <1>0, <1>8 DEF Promote, WriteSummaries, WriteDecision, WriteApproved, ProfitInv, Envs
<1> QED
  BY <1>1, <1>2, <1>3, <1>4, <1>5, <1>6, <1>7, <1>8 DEF Next, TickOf

\* What was paid and taken for a contract and side is its realized profit and the cost of
\* what is still held, in the portfolio of every session and in the last one saved: through
\* closes of a part at an older average, a roll that fails half-way, and the sandbox that
\* starts from a portfolio with positions in it.
THEOREM ProfitsBalance == Spec /\ [][ExactAverages]_vars => []ProfitConserved
<1>1. Init => ProfitInv
  BY LedgerInit DEF ProfitInv, Init, Envs
<1>2. ProfitInv => ProfitConserved
  BY DEF ProfitInv, Conserved, ProfitConserved
<1> QED
  BY <1>1, <1>2, ProfitStep, PTL DEF Spec

-------------------------------------------------------------------------------
(***************************************************************************)
(* The margin of what is held, on a feed that stands still within a tick.  *)
(* Every position is weighed at the price of the tick, so the margin is    *)
(* that of one unit times what is held in all, and what an order adds to   *)
(* it is known before it is sent.                                          *)
(***************************************************************************)

LEMMA KeysFinite == IsFiniteSet(Keys)
<1>1. IsFiniteSet({Symbol}) /\ IsFiniteSet({"long", "short"}) /\ IsFiniteSet(Contracts)
  <2>1. IsFiniteSet({"long"}) /\ IsFiniteSet({"short"}) /\ IsFiniteSet({Symbol})
    BY FS_Singleton
  <2>2. IsFiniteSet({"long"} \cup {"short"})
    BY <2>1, FS_Union
  <2>3. {"long"} \cup {"short"} = {"long", "short"}
    OBVIOUS
  <2> QED
    BY <2>1, <2>2, <2>3, AccountConfig
<1> DEFINE P == Contracts \X {"long", "short"}
           Q == {Symbol} \X P
<1>2. IsFiniteSet(P)
  BY <1>1, FS_Product
<1>3. IsFiniteSet(Q)
  <2> HIDE DEF P
  <2> QED
    BY <1>1, <1>2, FS_Product
<1> DEFINE f == [k \in Keys |-> <<k[1], <<k[2], k[3]>>>>]
<1>4. f \in Injection(Keys, Q)
  <2>1. ASSUME NEW k \in Keys
        PROVE  k = <<k[1], k[2], k[3]>> /\ <<k[1], <<k[2], k[3]>>>> \in Q
    BY DEF Keys
  <2>2. f \in [Keys -> Q]
    BY <2>1
  <2>3. ASSUME NEW j \in Keys, NEW k \in Keys, f[j] = f[k] PROVE j = k
    <3>1. <<j[1], <<j[2], j[3]>>>> = <<k[1], <<k[2], k[3]>>>>
      BY <2>3
    <3>2. j[1] = k[1] /\ j[2] = k[2] /\ j[3] = k[3]
      BY <3>1
    <3> QED
      BY <2>1, <3>2
  <2> HIDE DEF f, Q
  <2> QED
    BY <2>2, <2>3 DEF Injection, IsInjective
<1> HIDE DEF Q, f
<1> QED
  BY <1>3, <1>4, FS_Injection

\* NotionalHeld sums an expression over the positions held; it is the sum of a function.
LEMMA NotionalIs ==
  ASSUME NEW a, NEW price, price /= None, IsFiniteSet(Held(a)), NEW f,
         \A k \in Held(a) : f[k] = Notional(price, a.qty[k])
  PROVE  NotionalHeld(a, price) = SumOver(f, Held(a))
<1> DEFINE S == Held(a)
           Is(g) == g = [s \in SUBSET S |->
                           IF s = {} THEN 0
                           ELSE Notional(price, a.qty[Pick(s)]) + g[s \ {Pick(s)}]]
           h == CHOOSE g : Is(g)
<1>1. NotionalHeld(a, price) = h[S]
  BY DEF NotionalHeld, Priced, MapThenSumSet, MapThenFoldSet, Pick
<1> HIDE DEF S
<1>2. \A g : Is(g) <=> Sums(g, f, S)
  <2> SUFFICES ASSUME NEW g PROVE Is(g) <=> Sums(g, f, S)
    OBVIOUS
  <2>1. \A s \in SUBSET S : s # {} => f[Pick(s)] = Notional(price, a.qty[Pick(s)])
    BY PickIn DEF S
  <2>2. [s \in SUBSET S |-> IF s = {} THEN 0
                            ELSE Notional(price, a.qty[Pick(s)]) + g[s \ {Pick(s)}]]
          = [s \in SUBSET S |-> IF s = {} THEN 0 ELSE f[Pick(s)] + g[s \ {Pick(s)}]]
    BY <2>1
  <2> QED
    BY <2>2 DEF Sums
<1> HIDE DEF Is
<1>3. IsFiniteSet(S)
  BY DEF S
<1>4. \E g : Is(g)
  BY <1>2, <1>3, SumsExist
<1>5. Is(h)
  BY <1>4, Zenon
<1> HIDE DEF h
<1>6. Sums(h, f, S) /\ Sums(SumsOf(f, S), f, S)
  BY <1>2, <1>3, <1>5, SumsOfSums
<1>7. h[S] = SumsOf(f, S)[S]
  BY <1>3, <1>6, SumsAgree
<1> QED
  BY <1>1, <1>7, SumOverDef DEF S

LEMMA HeldTotalIs == ASSUME NEW a PROVE HeldTotal(a) = SumOver(a.qty, Keys)
BY DEF HeldTotal, SumOver

LEMMA HeldTotalNat == ASSUME NEW a, Books(a) PROVE HeldTotal(a) \in Nat
BY HeldTotalIs, SumNat, KeysFinite DEF Books

LEMMA NotionalOfTotal ==
  ASSUME NEW a, Books(a), NEW price \in MarketPrices
  PROVE  NotionalHeld(a, price) = (price * Multiplier) * HeldTotal(a)
<1> DEFINE f == [k \in Keys |-> Notional(price, a.qty[k])]
           c == price * Multiplier
<1>1. price \in Int /\ Multiplier \in Int /\ c \in Int /\ price /= None
  BY AccountConfig, OrchestrationConfig, PlanConfig
<1>2. \A k \in Keys : a.qty[k] \in Nat
  BY DEF Books
<1>3. \A k \in Keys : f[k] = c * a.qty[k] /\ f[k] \in Int
  <2> SUFFICES ASSUME NEW k \in Keys PROVE f[k] = c * a.qty[k] /\ f[k] \in Int
    OBVIOUS
  <2> DEFINE n == a.qty[k]
  <2>1. n \in Int /\ f[k] = price * n * Multiplier
    BY <1>2 DEF Notional
  <2>2. price * n * Multiplier = (price * Multiplier) * n
    <3> HIDE DEF n, f, c
    <3> QED
      BY <1>1, <2>1
  <2>3. f[k] = c * n
    BY <2>1, <2>2
  <2> HIDE DEF f, c, n
  <2>4. f[k] \in Int
    BY <1>1, <2>1, <2>3
  <2> QED
    BY <2>3, <2>4 DEF n
<1>4. \A k \in Keys \ Held(a) : f[k] = 0
  <2> SUFFICES ASSUME NEW k \in Keys \ Held(a) PROVE f[k] = 0
    OBVIOUS
  <2>1. a.qty[k] = 0
    BY <1>2 DEF Held
  <2>2. c * 0 = 0
    BY <1>1
  <2> QED
    BY <1>3, <2>1, <2>2
<1>5. Held(a) \in SUBSET Keys /\ IsFiniteSet(Held(a))
  BY KeysFinite, FS_Subset DEF Held
<1>6. NotionalHeld(a, price) = SumOver(f, Held(a))
  <2>1. \A k \in Held(a) : f[k] = Notional(price, a.qty[k])
    BY <1>5
  <2> HIDE DEF f
  <2> QED
    BY <1>1, <1>5, <2>1, NotionalIs
<1> HIDE DEF f, c
<1>7. SumOver(f, Keys) = SumOver(f, Held(a))
  BY <1>3, <1>4, <1>5, KeysFinite, SumSupport
<1>8. SumOver(f, Keys) = c * SumOver(a.qty, Keys)
  BY <1>1, <1>2, <1>3, KeysFinite, SumScale
<1> QED
  BY <1>6, <1>7, <1>8, HeldTotalIs DEF c

\* A margin of whole units is the margin of one unit, as often as there are units.
LEMMA MarginOf ==
  ASSUME NEW price \in MarketPrices, NEW n \in Nat
  PROVE  Margin((price * Multiplier) * n) = Margin(price * Multiplier) * n
<1> DEFINE u == price * Multiplier
           c == u \div MarginDivisor
<1>1. u \in Nat /\ MarginDivisor \in Nat \ {0} /\ u % MarginDivisor = 0
  BY AccountConfig, OrchestrationConfig
<1> HIDE DEF u
<1>2. c \in Int /\ u = MarginDivisor * c
  BY <1>1
<1> HIDE DEF c
<1>3. u * n = MarginDivisor * (c * n) /\ c * n \in Int
  BY <1>1, <1>2
<1> DEFINE m == c * n
<1>4. (MarginDivisor * m) \div MarginDivisor = m
  <2>1. m \in Int
    BY <1>3
  <2> HIDE DEF m
  <2> QED
    BY <1>1, <2>1
<1> QED
  BY <1>3, <1>4 DEF Margin, u, c

LEMMA MarginOfTotal ==
  ASSUME NEW a, Books(a), NEW price \in MarketPrices
  PROVE  MarginUsed(a, price) = Margin(price * Multiplier) * HeldTotal(a)
BY NotionalOfTotal, HeldTotalNat, MarginOf DEF MarginUsed

\* A call of run that opens nothing leaves no more in total than there was.
LEMMA KeptHolds ==
  ASSUME NEW out, NEW a, Books(a), Kept(out, a)
  PROVE  HeldTotal(out.desk.acc) <= HeldTotal(a)
<1> DEFINE f == a.qty
           g == out.desk.acc.qty
<1>1. \A k \in Keys : f[k] \in Int /\ g[k] \in Int /\ g[k] <= f[k]
  BY DEF Kept, DeskShape, Books
<1> HIDE DEF f, g
<1>2. SumOver(g, Keys) <= SumOver(f, Keys)
  BY <1>1, KeysFinite, SumLess
<1> QED
  BY <1>2, HeldTotalIs DEF f, g

LEMMA OpenedHolds ==
  ASSUME NEW out, NEW a, Books(a), NEW k, NEW p, NEW later, Opened(out, a, k, p, later)
  PROVE  HeldTotal(out.desk.acc) \in {HeldTotal(a), HeldTotal(a) + Quantity}
<1> DEFINE f == a.qty
           g == out.desk.acc.qty
<1>1. Quantity \in Nat /\ \A x \in Keys : f[x] \in Int /\ g[x] \in Int
  BY AccountConfig DEF Opened, DeskShape, Books
<1>2. \A x \in Keys : g[x] = f[x] + (IF x = k THEN Quantity ELSE 0)
  BY DEF Opened
<1> HIDE DEF f, g
<1>3. CASE k \in Keys
  <2>1. \A x \in Keys : x # k => g[x] = f[x]
    BY <1>1, <1>2
  <2>2. SumOver(g, Keys) = SumOver(f, Keys) + (g[k] - f[k])
    BY <1>1, <1>3, <2>1, KeysFinite, SumChange
  <2>3. g[k] - f[k] = Quantity
    BY <1>1, <1>2, <1>3
  <2> QED
    BY <2>2, <2>3, HeldTotalIs DEF f, g
<1>4. CASE k \notin Keys
  <2>1. \A x \in Keys : f[x] = g[x]
    BY <1>1, <1>2, <1>4
  <2>2. SumOver(f, Keys) = SumOver(g, Keys)
    BY <2>1, KeysFinite, SumSame
  <2> QED
    BY <2>2, HeldTotalIs DEF f, g
<1> QED
  BY <1>3, <1>4

\* An order that the limits let pass is within the margin once it is filled.
LEMMA OpenedWithin ==
  ASSUME NEW out, NEW a, Books(a), NEW k, NEW p, NEW price \in MarketPrices,
         Opened(out, a, k, p, price), HeldTotal(out.desk.acc) > HeldTotal(a), NEW risk,
         ~TooRisky(risk, a, price, price, Quantity)
  PROVE  ~Exceeds(MarginUsed(out.desk.acc, price), risk.max_margin_used)
<1> DEFINE b == out.desk.acc
           c == Margin(price * Multiplier)
           n == HeldTotal(a)
<1>1. Books(b) /\ n \in Nat /\ Quantity \in Nat /\ HeldTotal(b) \in {n, n + Quantity}
  BY OpenedHolds, HeldTotalNat, AccountConfig DEF Opened, DeskShape
<1>2. HeldTotal(b) = n + Quantity
  BY <1>1
<1>3. c \in Int
  <2>1. price * Multiplier \in Nat /\ MarginDivisor \in Nat \ {0}
    BY AccountConfig, OrchestrationConfig
  <2> QED
    BY <2>1 DEF Margin
<1>4. MarginUsed(a, price) = c * n /\ MarginUsed(b, price) = c * (n + Quantity)
  BY <1>1, <1>2, MarginOfTotal
<1>5. Margin(Notional(price, Quantity)) = c * Quantity
  <2>1. Notional(price, Quantity) = (price * Multiplier) * Quantity
    <3>1. price \in Int /\ Multiplier \in Int /\ Quantity \in Int
      BY AccountConfig, OrchestrationConfig
    <3> QED
      BY <3>1 DEF Notional
  <2> QED
    BY <1>1, <2>1, MarginOf
<1> HIDE DEF b, c, n
<1>6. c * (n + Quantity) = c * n + c * Quantity
  BY <1>1, <1>3
<1>7. ~Exceeds(MarginUsed(a, price) + Margin(Notional(price, Quantity)), risk.max_margin_used)
  BY DEF TooRisky
<1> QED
  BY <1>4, <1>5, <1>6, <1>7 DEF b

LEMMA MarginStep ==
  ASSUME LedgerInv, [Next]_vars, desk /= None, desk' /= None, pc' = pc, Steady,
         HeldTotal(desk'.acc) > HeldTotal(desk.acc)
  PROVE  ~Exceeds(MarginUsed(desk'.acc, desk'.price), Plan.risk.max_margin_used)
<1> USE DEF history
<1>0. Books(desk.acc) /\ HeldTotal(desk.acc) \in Nat
  BY HeldTotalNat DEF LedgerInv, DeskShape
<1>1. ASSUME desk' = desk PROVE FALSE
  BY <1>0, <1>1
<1>2. ASSUME NEW e \in Envs, TickOf(e)
      PROVE  ~Exceeds(MarginUsed(desk'.acc, desk'.price), Plan.risk.max_margin_used)
  <2>1. /\ pc = e
        /\ \/ \E out, orders : Kept(out, desk.acc) /\ Concluded(e, out, orders)
           \/ \E out : Kept(out, desk.acc) /\ Aborted(e, out)
           \/ \E out, o, quotes, orders : Opens(e, out, o, quotes, orders)
    BY <1>2, TicksKept
  <2>2. ASSUME NEW out, NEW orders, Kept(out, desk.acc), Concluded(e, out, orders)
        PROVE  FALSE
    <3>1. desk'.acc = out.desk.acc
      BY <2>2, ConcludedBooks DEF Kept
    <3>2. HeldTotal(out.desk.acc) <= HeldTotal(desk.acc)
      BY <1>0, <2>2, KeptHolds
    <3>3. HeldTotal(out.desk.acc) \in Nat
      BY <2>2, HeldTotalNat DEF Kept, DeskShape
    <3> QED
      BY <1>0, <3>1, <3>2, <3>3
  <2>3. ASSUME NEW out, Aborted(e, out) PROVE FALSE
    BY <2>3 DEF Aborted, Gone
  <2>4. ASSUME NEW out, NEW o, NEW quotes, NEW orders, Opens(e, out, o, quotes, orders)
        PROVE  ~Exceeds(MarginUsed(desk'.acc, desk'.price), Plan.risk.max_margin_used)
    <3> DEFINE k == KeyOf(o)
               price == quotes.order
               p == FillPrice(quotes.fill, o.side)
               risk == Plan.risk
    <3>0. quotes.held = price /\ quotes.saved = price /\ price \in MarketPrices
      BY <2>4 DEF Opens, Quotes
    <3>1. /\ Opened(out, desk.acc, k, p, price) /\ DeskShape(out.desk)
          /\ Concluded(e, out, orders) /\ {"desk", "saved"} \subseteq DOMAIN out
          /\ ~TooRisky(risk, desk.acc, price, price, Quantity)
      BY <2>4, <3>0 DEF Opens, Opened
    <3>2. desk'.acc = out.desk.acc /\ desk'.price = price
      BY <3>1, ConcludedBooks DEF Opened
    <3>3. HeldTotal(out.desk.acc) > HeldTotal(desk.acc)
      BY <3>2
    <3> HIDE DEF k, p, price, risk
    <3>4. ~Exceeds(MarginUsed(out.desk.acc, price), risk.max_margin_used)
      BY <1>0, <3>0, <3>1, <3>3, OpenedWithin
    <3> QED
      BY <3>2, <3>4 DEF risk
  <2> QED
    BY <2>1, <2>2, <2>3, <2>4
<1>3. CASE UNCHANGED vars
  BY <1>1, <1>3 DEF vars
<1>4. ASSUME NEW line \in CommandLines, Start(line) \/ Refuse(line) PROVE FALSE
  BY <1>1, <1>4 DEF Start, Refuse
<1>5. CASE CleanLive \/ CleanSandbox \/ CleanFiles
  BY <1>1, <1>5 DEF CleanLive, CleanSandbox, CleanFiles
<1>6. CASE BuildLive \/ BuildSandbox
  BY <1>6 DEF BuildLive, BuildSandbox
<1>7. CASE BuildFails \/ Kill \/ WriteManifest
  BY <1>7 DEF BuildFails, Kill, WriteManifest, Gone
<1>8. CASE Promote \/ WriteSummaries \/ WriteDecision \/ WriteApproved
  BY <1>1, <1>8 DEF Promote, WriteSummaries, WriteDecision, WriteApproved
<1> QED
  BY <1>2, <1>3, <1>4, <1>5, <1>6, <1>7, <1>8 DEF Next, TickOf

\* On a feed that stands still within a tick, a tick that leaves more held than before
\* leaves a margin within the plan's: the limit is checked on the portfolio of the decision,
\* before the fill, the roll and the refresh that make the one it is a promise about.  On
\* the other feeds it is not so.
THEOREM OpeningKeepsMargin == Spec => OpeningWithinMargin
<1>1. LedgerInv /\ [Next]_vars =>
        [desk /= None /\ desk' /= None /\ pc' = pc /\ Steady =>
           (HeldTotal(desk'.acc) > HeldTotal(desk.acc) =>
              ~Exceeds(MarginUsed(desk'.acc, desk'.price), Plan.risk.max_margin_used))]_vars
  BY MarginStep
<1> QED
  BY <1>1, LedgerInit, LedgerStep, PTL DEF Spec, OpeningWithinMargin
=============================================================================
