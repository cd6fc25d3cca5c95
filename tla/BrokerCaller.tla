----------------------------- MODULE BrokerCaller -----------------------------
(***************************************************************************)
(* The simulated broker on its own, driven by any caller that submits,     *)
(* cancels issued ids in any order, and never polls backwards.             *)
(***************************************************************************)
EXTENDS SimulatedBroker

CONSTANTS
  Quantities,   \* order quantities the caller submits
  MaxPollTick   \* bound: the last tick the caller polls

\* Units are chosen so that the first partial fill is at least one unit.
ASSUME CallerConfig ==
  /\ Quantities \subseteq Nat \ {0}
  /\ \A q \in Quantities : q * PartialRatio >= RatioDen
  /\ MaxPollTick \in Nat

CallerSubmits ==
  \E s \in Symbols, c \in Contracts, d \in {"buy", "sell"}, p \in PositionSides,
     q \in Quantities :
    SubmitOrder([sym |-> s, contract |-> c, side |-> d, pside |-> p, qty |-> q])

\* A tick aborted by an error is polled again under the same number.
CallerPolls ==
  \E t \in {brokerTick, brokerTick + 1} : t <= MaxPollTick /\ PollOrderUpdates(t)

CallerCancels == \E id \in OrderIds : id < nextId /\ CancelOrders({id})

BrokerNext == CallerSubmits \/ CallerPolls \/ CallerCancels

BrokerSpec == BrokerInit /\ [][BrokerNext]_brokerVars

(***************************************************************************)
(* Properties.                                                             *)
(***************************************************************************)

\* The book and the ledger agree: an order waits in the book exactly while the
\* ledger shows it submitted or partially filled (simulated_broker.py keeps the
\* two structures side by side and updates them in different branches).  With
\* an immediate broker the book stays empty.
BookMatchesLedger ==
  IF Delayed
  THEN book = {id \in OrderIds : status[id] \in {"submitted", "partially_filled"}}
  ELSE book = {}

\* What the ledger shows of an order's quantity: nothing before a fill, part of
\* it while partially filled, all of it once filled, never more than was asked
\* for, whatever partial steps preceded a cancellation.
FillsWithinOrder ==
  \A id \in OrderIds :
    /\ status[id] # "none" =>
         /\ filled[id] <= orders[id].qty
         /\ (status[id] = "filled") <=> (filled[id] = orders[id].qty)
    /\ status[id] \in {"none", "submitted", "rejected"} => filled[id] = 0

(***************************************************************************)
(* The broker implements the order book: a partially filled order of the   *)
(* ledger is one that still works.                                         *)
(***************************************************************************)

PhaseOf(s) ==
  CASE s = "filled" -> "done"
    [] s \in {"submitted", "partially_filled"} -> "working"
    [] OTHER -> s

OrderBookOf == INSTANCE OrderBook WITH
  Ids <- OrderIds,
  phase <- [id \in OrderIds |-> PhaseOf(status[id])],
  size <- [id \in OrderIds |-> IF status[id] = "none" THEN 0 ELSE orders[id].qty],
  executed <- filled

\* Every behaviour of the broker is one of the order book: ids are used once,
\* executed quantity never shrinks, a canceled, rejected or filled order never
\* comes back (a cancel racing a poll, an expiry after partial fills).
ImplementsOrderBook == OrderBookOf!Spec
=============================================================================
