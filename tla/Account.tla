-------------------------------- MODULE Account --------------------------------
(***************************************************************************)
(* The money of a portfolio: average price and realized profit of each     *)
(* position (PositionLifecycle), cash (CapitalModel), the cost of a fill   *)
(* (cost_model), the figures derived from the last price (calculate_       *)
(* portfolio_metrics) and the limits checked against them.  One symbol, in *)
(* units where prices, averages and margins are whole numbers; quantities  *)
(* are those of StateEngine.                                               *)
(***************************************************************************)
EXTENDS StateEngine, RunPlan, FiniteSetsExt

CONSTANTS
  Symbol,
  Contracts,
  Quantity,        \* RuntimeConfig.default_quantity
  TickSize, Multiplier, SlippageTicks, Commission,
  MarginDivisor,   \* 1 / margin_rate
  InitialEquity

ASSUME AccountConfig ==
  /\ {Quantity, TickSize, Multiplier, MarginDivisor, InitialEquity} \subseteq Nat \ {0}
  /\ {SlippageTicks, Commission} \subseteq Nat
  /\ IsFiniteSet(Contracts)

Keys == {Symbol} \X Contracts \X {"long", "short"}

Exceeds(amount, limit) == limit /= None /\ amount > limit

\* flow is a history: what the fills of a key brought in less what they took.
EmptyAccount ==
  [qty  |-> [k \in Keys |-> 0], avg |-> [k \in Keys |-> 0], pnl |-> [k \in Keys |-> 0],
   flow |-> [k \in Keys |-> 0], cash |-> None, cost |-> 0]

OrderFor(contract, side, pside) ==
  [sym |-> Symbol, contract |-> contract, side |-> side, pside |-> pside]

(***************************************************************************)
(* cost_model: a market order slips by some ticks against its side and is  *)
(* aligned to the tick grid, again against its side.                       *)
(***************************************************************************)

AlignedPrice(price, side) ==
  TickSize * (IF side = "buy" THEN -((-price) \div TickSize) ELSE price \div TickSize)

FillPrice(price, side) ==
  AlignedPrice(IF side = "buy" THEN price + SlippageTicks * TickSize
                               ELSE price - SlippageTicks * TickSize, side)

\* The commission is fixed_per_order, the slippage the distance from the market price.
TradeCost(price, side, q) ==
  LET fill == FillPrice(price, side)
      slip == IF side = "buy" THEN fill - price ELSE price - fill
  IN  Commission + slip * q * Multiplier

(***************************************************************************)
(* PositionLifecycle and CapitalModel, for q units filled at price p.      *)
(***************************************************************************)

Signed(o, amount) == IF o.side = "buy" THEN -amount ELSE amount

\* Mutant: the average of the prices, whatever quantity each stands for.
AveragePlain(a, o, q, p) == (a.avg[KeyOf(o)] + p) \div 2

Average(a, o, q, p) ==
  LET k == KeyOf(o) IN (a.qty[k] * a.avg[k] + q * p) \div (a.qty[k] + q)

RealizedDelta(a, o, q, p) ==
  LET k == KeyOf(o)
  IN  q * (IF o.pside = "long" THEN p - a.avg[k] ELSE a.avg[k] - p)

\* A fill that would take the cash below zero makes StateEngine.apply raise.
CannotPay(a, o, q, p) == a.cash /= None /\ a.cash + Signed(o, q * p) < 0

\* StateEngine.apply: a closed position keeps its average price.
Booked(a, o, q, p) ==
  LET k == KeyOf(o)
  IN  [a EXCEPT !.qty = Applied(a.qty, o, q),
                !.avg[k] = IF ~IsOpen(o) THEN @ ELSE IF a.qty[k] = 0 /\ a.avg[k] = 0 THEN p
                           ELSE Average(a, o, q, p),
                !.pnl[k] = IF IsOpen(o) THEN @ ELSE @ + RealizedDelta(a, o, q, p),
                !.flow[k] = @ + Signed(o, q * p),
                !.cash = IF @ = None THEN None ELSE @ + Signed(o, q * p)]

(***************************************************************************)
(* calculate_portfolio_metrics at a market price.  When the quote cannot   *)
(* be read the price is None and what is held is left out of every figure. *)
(* portfolio.realized_pnl is carried over by StateEngine.apply and by the  *)
(* refresh, and nothing ever adds the realized profit of a position to it: *)
(* it stays 0.                                                             *)
(***************************************************************************)

Held(a) == {k \in Keys : a.qty[k] > 0}

Notional(price, q) == price * q * Multiplier

Priced(a, price) == IF price = None THEN {} ELSE Held(a)

NotionalHeld(a, price) ==
  MapThenSumSet(LAMBDA k : Notional(price, a.qty[k]), Priced(a, price))

Margin(notional) == notional \div MarginDivisor

Unrealized(a, price) ==
  MapThenSumSet(LAMBDA k : (IF k[3] = "long" THEN price - a.avg[k] ELSE a.avg[k] - price)
                             * a.qty[k] * Multiplier, Priced(a, price))

PortfolioRealized == 0

Equity(a, price) == InitialEquity + PortfolioRealized + Unrealized(a, price) - a.cost

MarginUsed(a, price) == Margin(NotionalHeld(a, price))

\* _refresh_portfolio_metrics writes the derived cash over the booked one.
Refreshed(a, price) == [a EXCEPT !.cash = Equity(a, price) - MarginUsed(a, price)]

(***************************************************************************)
(* SymbolPositionLimit and PortfolioRiskLimits.reject_reason: closing      *)
(* orders are weighed like opening ones.  The order is weighed at one      *)
(* quote, what is held at another one.                                     *)
(***************************************************************************)

RatioExceeded(risk, margin, equity) ==
  risk.max_risk_ratio /= None /\ (equity <= 0 \/ 100 * margin > risk.max_risk_ratio * equity)

TooMany(risk, a, q) ==
  Exceeds(MapThenSumSet(LAMBDA k : a.qty[k], Held(a)) + q,
          Get(risk.max_position_qty_by_symbol, Symbol, None))

\* Mutant: the order alone is weighed, not what is held already.
TooRiskyAlone(risk, a, price, held, q) ==
  LET order == Notional(price, q)
  IN  \/ Exceeds(order, Get(risk.max_notional_by_symbol, Symbol, None))
      \/ Exceeds(Margin(order), risk.max_margin_used)
      \/ RatioExceeded(risk, Margin(order), Equity(a, held))

\* The ratio of the plan in percent.
TooRisky(risk, a, price, held, q) ==
  LET order  == Notional(price, q)
      margin == MarginUsed(a, held) + Margin(order)
  IN  \/ Exceeds(NotionalHeld(a, held) + order, Get(risk.max_notional_by_symbol, Symbol, None))
      \/ Exceeds(margin, risk.max_margin_used)
      \/ RatioExceeded(risk, margin, Equity(a, held))

(***************************************************************************)
(* From a decision to an order: TriggerEngine, PortfolioEngine, RiskEngine *)
(* (which has no limits of its own in a Runtime) and ExecutionEngine.      *)
(***************************************************************************)

Opening(d) == d.decision \in {"open_long", "open_short"}

\* The trigger blocks a HOLD with a side; the portfolio engine passes the quantity on.
Triggered(d) == d.decision = "hold" => d.side = "none"

Allowed(d) == Triggered(d) /\ d.decision /= "hold" /\ d.side /= "none" /\ Quantity > 0

\* The contract checks of ExecutionEngine.execute.
Executable(d) ==
  /\ d.decision = "open_long" => d.side = "buy" /\ d.pside = "long"
  /\ d.decision = "open_short" => d.side = "sell" /\ d.pside = "short"
  /\ d.decision = "close" => d.pside /= "flat"
=============================================================================
