------------------------------ MODULE LiveBroker ------------------------------
(***************************************************************************)
(* adapters/broker/tqkq_live_broker.py: orders are handed to a market API  *)
(* that executes them when it likes; the broker only compares what it read *)
(* last with what the API shows now.  The API is external: it reports an   *)
(* order in one of the two vocabularies the broker's mapping understands,  *)
(* and its order objects change at any time, because the market data       *)
(* thread drives the same API.                                             *)
(***************************************************************************)
EXTENDS Integers

CONSTANTS
  Symbols,        \* base symbols, each with its one fixed contract
  NoOrder,        \* the slot of an order id not issued yet
  MaxOrders,      \* bound: how many order ids the model issues
  Quantities,     \* quantities of the orders submitted
  MinQty,         \* min_qty of the instrument specs, 0 for None
  DryRun          \* dry_run: nothing is handed to the API

PositionSides == {"long", "short"}

\* fixed_contract leaves nothing that closes a position: every order opens.
Order == [sym : Symbols, pside : PositionSides, qty : Quantities]

ASSUME LiveConfig ==
  /\ MaxOrders \in Nat
  /\ Quantities \subseteq Nat \ {0}
  /\ NoOrder \notin [sym : Symbols, pside : PositionSides, qty : Quantities]
  /\ MinQty \in Nat
  /\ DryRun \in BOOLEAN

VARIABLES
  nextId,       \* the id next_id() returns next
  orders,       \* order id -> the ExecutionOrder submitted under it
  tracked,      \* keys of _tracked
  lastStatus,   \* order id -> _TrackedOrder.last_status, none before
  lastFilled,   \* order id -> _TrackedOrder.last_filled_quantity
  terminal,     \* the ids whose _TrackedOrder is terminal
  apiStatus,    \* order id -> status of the API's order object
  traded,       \* order id -> its traded volume
  cancelAsked,  \* the ids the API was asked to cancel
  detailed      \* whether the API says PARTIAL, FILLED, CANCELED and REJECTED; else
                \* it only says ALIVE and FINISHED beside the traded volume

liveVars == <<nextId, orders, tracked, lastStatus, lastFilled, terminal,
              apiStatus, traded, cancelAsked, detailed>>

OrderIds == 1..MaxOrders

ApiOpen == {"SUBMITTED", "ALIVE", "PARTIAL"}

ApiEnded == {"FILLED", "CANCELED", "REJECTED", "FINISHED"}

LastStatus == {"none", "SUBMITTED", "PARTIAL", "FILLED", "CANCELED", "REJECTED"}

LiveInit ==
  /\ nextId = 1
  /\ orders = [id \in OrderIds |-> NoOrder]
  /\ tracked = {} /\ terminal = {} /\ cancelAsked = {}
  /\ lastStatus = [id \in OrderIds |-> "none"]
  /\ lastFilled = [id \in OrderIds |-> 0]
  /\ apiStatus = [id \in OrderIds |-> "none"]
  /\ traded = [id \in OrderIds |-> 0]
  /\ detailed \in BOOLEAN

(***************************************************************************)
(* The market API.                                                         *)
(***************************************************************************)

ApiWorks(id) == apiStatus[id] \in ApiOpen

apiOthers == <<nextId, orders, tracked, lastStatus, lastFilled, terminal, cancelAsked,
               detailed>>

ApiTrades(id) ==
  /\ ApiWorks(id)
  /\ \E q \in (traded[id] + 1)..orders[id].qty :
       /\ traded' = [traded EXCEPT ![id] = q]
       /\ apiStatus' = [apiStatus EXCEPT ![id] =
            IF q = orders[id].qty THEN IF detailed THEN "FILLED" ELSE "FINISHED"
            ELSE IF detailed THEN "PARTIAL" ELSE "ALIVE"]
  /\ UNCHANGED apiOthers

\* Asked by the broker, or on its own at the end of the trading day.
ApiCancels(id) ==
  /\ ApiWorks(id)
  /\ apiStatus' = [apiStatus EXCEPT ![id] = IF detailed THEN "CANCELED" ELSE "FINISHED"]
  /\ UNCHANGED <<apiOthers, traded>>

ApiRefuses(id) ==
  /\ ApiWorks(id) /\ detailed /\ traded[id] = 0
  /\ apiStatus' = [apiStatus EXCEPT ![id] = "REJECTED"]
  /\ UNCHANGED <<apiOthers, traded>>

Api == \E id \in OrderIds : ApiTrades(id) \/ ApiCancels(id) \/ ApiRefuses(id)

(***************************************************************************)
(* submit_order.                                                           *)
(***************************************************************************)

\* _validate_order; a fixed contract always has a real trade_instrument_id.
Invalid(o) == o.qty < MinQty

SubmitLive(o) ==
  /\ nextId \in OrderIds
  /\ nextId' = nextId + 1
  /\ orders' = [orders EXCEPT ![nextId] = o]
  /\ tracked' = IF Invalid(o) THEN tracked ELSE tracked \cup {nextId}
  /\ lastStatus' =
       [lastStatus EXCEPT ![nextId] = IF Invalid(o) THEN "none" ELSE "SUBMITTED"]
  /\ apiStatus' = [apiStatus EXCEPT ![nextId] =
       IF Invalid(o) \/ DryRun THEN "none"
       ELSE IF detailed THEN "SUBMITTED" ELSE "ALIVE"]
  /\ UNCHANGED <<lastFilled, terminal, traded, cancelAsked, detailed>>

(***************************************************************************)
(* poll_order_updates: one tracked order at a time.                        *)
(***************************************************************************)

\* _read_native_state: ALIVE reads as SUBMITTED whatever was traded, FINISHED as
\* FILLED or CANCELED by what is left.
ReadStatus(id) ==
  CASE apiStatus[id] = "PARTIAL" -> "PARTIAL"
    [] apiStatus[id] \in {"FILLED", "FINISHED"} /\ traded[id] = orders[id].qty -> "FILLED"
    [] \/ apiStatus[id] = "CANCELED"
       \/ apiStatus[id] = "FINISHED" /\ traded[id] # orders[id].qty -> "CANCELED"
    [] apiStatus[id] = "REJECTED" -> "REJECTED"
    [] OTHER -> "SUBMITTED"

\* Nothing is reported when neither field moved.
Changed(id) == ReadStatus(id) # lastStatus[id] \/ traded[id] # lastFilled[id]

\* The orders a poll looks at.
Pollable == IF DryRun THEN {} ELSE tracked \ terminal

\* Mutant: a cancellation does not end the tracking, nor its filled quantity.
ReadOrderForgetting(id) ==
  /\ lastStatus' = [lastStatus EXCEPT ![id] = ReadStatus(id)]
  /\ lastFilled' = [lastFilled EXCEPT ![id] =
                      IF ReadStatus(id) = "CANCELED" THEN 0 ELSE traded[id]]
  /\ terminal' = IF ReadStatus(id) \in {"FILLED", "CANCELED", "REJECTED"}
                 THEN terminal \cup {id} ELSE terminal
  /\ UNCHANGED <<nextId, orders, tracked, apiStatus, traded, cancelAsked, detailed>>

ReadOrder(id) ==
  /\ lastStatus' = [lastStatus EXCEPT ![id] = ReadStatus(id)]
  /\ lastFilled' = [lastFilled EXCEPT ![id] = traded[id]]
  /\ terminal' = IF ReadStatus(id) \in {"FILLED", "CANCELED", "REJECTED"}
                 THEN terminal \cup {id} ELSE terminal
  /\ UNCHANGED <<nextId, orders, tracked, apiStatus, traded, cancelAsked, detailed>>

(***************************************************************************)
(* cancel_order, for every id of a set: the API is asked, nothing of the   *)
(* broker's own changes.                                                   *)
(***************************************************************************)

AskCancel(ids) ==
  /\ cancelAsked' = cancelAsked \cup IF DryRun THEN {} ELSE ids \cap tracked
  /\ UNCHANGED <<nextId, orders, tracked, lastStatus, lastFilled, terminal,
                  apiStatus, traded, detailed>>

LiveTypeOK ==
  /\ nextId \in 1..(MaxOrders + 1)
  /\ orders \in [OrderIds -> Order \cup {NoOrder}]
  /\ tracked \subseteq OrderIds /\ terminal \subseteq tracked
  /\ lastStatus \in [OrderIds -> LastStatus]
  /\ lastFilled \in [OrderIds -> Nat]
  /\ apiStatus \in [OrderIds -> {"none"} \cup ApiOpen \cup ApiEnded]
  /\ traded \in [OrderIds -> Nat]
  /\ cancelAsked \subseteq tracked
  /\ detailed \in BOOLEAN
=============================================================================
