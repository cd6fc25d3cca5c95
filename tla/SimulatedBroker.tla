--------------------------- MODULE SimulatedBroker ---------------------------
(***************************************************************************)
(* adapters/broker/simulated_broker.py with the OrderTracker it keeps: the *)
(* broker's private order ledger (status and filled quantity of every      *)
(* order it ever accepted) and its book of orders still waiting for a      *)
(* fill.  A quantity is a number of units; a ratio is a number of units    *)
(* out of RatioDen.                                                        *)
(***************************************************************************)
EXTENDS Integers

CONSTANTS
  Symbols,          \* base symbols of the universe, e.g. au
  Contracts,        \* trade_instrument_id values, e.g. au2506
  NoOrder,          \* the ledger slot of an order id not issued yet
  MaxOrders,        \* bound: how many order ids the model issues
  RatioDen,         \* denominator of the two ratios
  FillRatio,        \* fill_ratio of an immediate fill, over RatioDen
  PartialRatio,     \* partial_fill_ratio, over RatioDen
  MaxPartialSteps,  \* max_partial_steps
  FillDelay,        \* fill_delay_ticks
  MaxTicksToFill,   \* max_ticks_to_fill, 0 for None
  NoFill,           \* no_fill
  RejectNext,       \* reject_next_order
  RejectedSymbols,  \* rejected_symbols, restricted to base symbols
  RejectAbove,      \* reject_above_quantity, 0 for None
  MinQty            \* min_qty of the instrument specs, 0 for None

ASSUME BrokerConfig ==
  /\ NoOrder \notin [sym : Symbols, contract : Contracts, side : {"buy", "sell"},
                     pside : {"long", "short"}, qty : Nat \ {0}]
  /\ MaxOrders \in Nat
  /\ RatioDen \in Nat \ {0}
  /\ FillRatio \in 1..RatioDen
  /\ PartialRatio \in 1..RatioDen
  /\ MaxPartialSteps \in Nat \ {0}
  /\ FillDelay \in Nat
  /\ MaxTicksToFill \in Nat
  /\ NoFill \in BOOLEAN
  /\ RejectNext \in BOOLEAN
  /\ RejectedSymbols \subseteq Symbols
  /\ RejectAbove \in Nat
  /\ MinQty \in Nat

VARIABLES
  nextId,      \* the id next_id() returns next
  orders,      \* order id -> the ExecutionOrder submitted under it
  status,      \* order id -> OrderRecord.status
  filled,      \* order id -> OrderRecord.filled_quantity
  book,        \* keys of _pending
  submitTick,  \* order id -> _PendingOrder.submit_tick
  steps,       \* order id -> _PendingOrder.partial_steps
  brokerTick,  \* _tick, the tick of the last poll
  rejectNext   \* RejectionPolicy.reject_next_order, cleared when used

brokerVars == <<nextId, orders, status, filled, book, submitTick, steps,
                brokerTick, rejectNext>>

OrderIds == 1..MaxOrders

PositionSides == {"long", "short"}

Order == [sym : Symbols, contract : Contracts, side : {"buy", "sell"},
          pside : PositionSides, qty : Nat \ {0}]

Terminal == {"filled", "canceled", "rejected"}

OrderStatus == {"none", "submitted", "partially_filled"} \cup Terminal

(***************************************************************************)
(* Quantities.                                                             *)
(***************************************************************************)

AtMost(a, b) == IF a <= b THEN a ELSE b

\* FillQuantityModel with fill_ratio: the quantity of an immediate fill.
ImmediateQuantity(q) == AtMost(q, (q * FillRatio) \div RatioDen)

\* Mutant: the cap below the whole order is forgotten.
PartialQuantityUncapped(q, n) == (q * PartialRatio * n) \div RatioDen

\* The n-th partial fill is cumulative and capped just below the whole order
\* (min(0.999999, ratio * n)): at most one unit short of it.
PartialQuantity(q, n) == AtMost(q - 1, (q * PartialRatio * n) \div RatioDen)

Delayed ==
  FillDelay > 0 \/ PartialRatio < RatioDen \/ MaxTicksToFill > 0 \/ NoFill

(***************************************************************************)
(* submit_order: the id is issued and the ledger entry written whatever    *)
(* the outcome.                                                            *)
(***************************************************************************)

Rejects(o) ==
  \/ rejectNext
  \/ o.sym \in RejectedSymbols
  \/ RejectAbove > 0 /\ o.qty > RejectAbove
  \/ o.qty < MinQty

SubmitStatus(o) ==
  IF Rejects(o) THEN "rejected"
  ELSE IF Delayed THEN "submitted"
  ELSE IF ImmediateQuantity(o.qty) = o.qty THEN "filled"
  ELSE "partially_filled"

SubmitFilled(o) ==
  IF Rejects(o) \/ Delayed THEN 0 ELSE ImmediateQuantity(o.qty)

SubmitOrder(o) ==
  /\ nextId \in OrderIds
  /\ nextId' = nextId + 1
  /\ orders' = [orders EXCEPT ![nextId] = o]
  /\ status' = [status EXCEPT ![nextId] = SubmitStatus(o)]
  /\ filled' = [filled EXCEPT ![nextId] = SubmitFilled(o)]
  /\ book' = IF SubmitStatus(o) = "submitted" THEN book \cup {nextId} ELSE book
  /\ submitTick' = [submitTick EXCEPT ![nextId] = brokerTick]
  /\ rejectNext' = FALSE
  /\ UNCHANGED <<steps, brokerTick>>

(***************************************************************************)
(* poll_order_updates(t): what becomes of each order of the book.          *)
(***************************************************************************)

Age(id, t) == t - submitTick[id]

Expiring(t) == {id \in book : MaxTicksToFill > 0 /\ Age(id, t) >= MaxTicksToFill}

Due(t) == {id \in book \ Expiring(t) : Age(id, t) >= FillDelay /\ ~NoFill}

Stepping(t) ==
  {id \in Due(t) : PartialRatio < RatioDen /\ steps[id] < MaxPartialSteps}

Completing(t) ==
  {id \in Due(t) \ Stepping(t) : ~(steps[id] > 0 /\ Age(id, t) <= FillDelay)}

\* Mutant: the fill that follows partial ones is not reported to the caller.
PollUpdatesPartialOnly(t) ==
  Expiring(t) \cup Stepping(t) \cup {id \in Completing(t) : steps[id] = 0}

\* The orders the poll returns an update for.
PollUpdates(t) == Expiring(t) \cup Stepping(t) \cup Completing(t)

PollOrderUpdates(t) ==
  /\ brokerTick' = t
  /\ status' = [id \in OrderIds |->
        IF id \in Expiring(t) THEN "canceled"
        ELSE IF id \in Stepping(t) THEN "partially_filled"
        ELSE IF id \in Completing(t) THEN "filled"
        ELSE status[id]]
  /\ steps' = [id \in OrderIds |->
        IF id \in Stepping(t) THEN steps[id] + 1 ELSE steps[id]]
  /\ filled' = [id \in OrderIds |->
        IF id \in Stepping(t) THEN PartialQuantity(orders[id].qty, steps[id] + 1)
        ELSE IF id \in Completing(t) THEN orders[id].qty
        ELSE filled[id]]
  /\ book' = book \ (Expiring(t) \cup Completing(t))
  /\ UNCHANGED <<nextId, orders, submitTick, rejectNext>>

(***************************************************************************)
(* cancel_order, for every id of a set: an id that is not in the book is   *)
(* left alone.                                                             *)
(***************************************************************************)

\* Mutant: the ledger is updated, the book is not.
CancelOrdersKeptInBook(ids) ==
  /\ status' = [id \in OrderIds |->
        IF id \in ids \cap book THEN "canceled" ELSE status[id]]
  /\ UNCHANGED <<nextId, orders, filled, book, submitTick, steps, brokerTick,
                  rejectNext>>

CancelOrders(ids) ==
  /\ book' = book \ ids
  /\ status' = [id \in OrderIds |->
        IF id \in ids \cap book THEN "canceled" ELSE status[id]]
  /\ UNCHANGED <<nextId, orders, filled, submitTick, steps, brokerTick, rejectNext>>

(***************************************************************************)
(* __init__: nothing issued, nothing waiting.                              *)
(***************************************************************************)

BrokerInit ==
  /\ nextId = 1
  /\ orders = [id \in OrderIds |-> NoOrder]
  /\ status = [id \in OrderIds |-> "none"]
  /\ filled = [id \in OrderIds |-> 0]
  /\ book = {}
  /\ submitTick = [id \in OrderIds |-> 0]
  /\ steps = [id \in OrderIds |-> 0]
  /\ brokerTick = 0
  /\ rejectNext = RejectNext

\* Every field of the broker has its type: a status of the OrderStatus enum, a
\* filled quantity and ticks that never go below zero.
BrokerTypeOK ==
  /\ nextId \in 1..(MaxOrders + 1)
  /\ orders \in [OrderIds -> Order \cup {NoOrder}]
  /\ status \in [OrderIds -> OrderStatus]
  /\ filled \in [OrderIds -> Nat]
  /\ book \subseteq OrderIds
  /\ submitTick \in [OrderIds -> Nat]
  /\ steps \in [OrderIds -> Nat]
  /\ brokerTick \in Nat
  /\ rejectNext \in BOOLEAN
=============================================================================
