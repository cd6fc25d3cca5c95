---------------------------- MODULE RuntimeProofs ----------------------------
(***************************************************************************)
(* Theorems for every value of the constants, in four parts.               *)
(*                                                                         *)
(* 1. The simulated broker with any caller (BrokerCaller): it keeps its    *)
(*    book and its ledger in step and implements the abstract OrderBook.   *)
(* 2. Runtime: type correctness, NoOrphanOrder and NoStrandedPosition,     *)
(*    from one inductive invariant.                                        *)
(* 3. Its execution guards: an opening order respects the halt, the roll   *)
(*    cooldown, the order interval, the duplicate key and the pending      *)
(*    orders.  The guards read one number each (_halt_until_tick,          *)
(*    _last_order_tick_by_symbol, ...); the invariant says what these      *)
(*    numbers stand for in the history of orders.                          *)
(* 4. Its books: contexts, lifecycle events and positions say what the     *)
(*    broker's ledger says, closes are covered by what they close, and the *)
(*    position limit is kept.                                              *)
(***************************************************************************)
EXTENDS RuntimeProperties, BrokerCaller, Sums

(***************************************************************************)
(* Lemmas on the operators of SimulatedBroker.                             *)
(***************************************************************************)

\* A partial fill is some quantity.
LEMMA PartialQuantityType ==
  ASSUME NEW q \in Nat \ {0}, NEW n \in Nat
  PROVE  PartialQuantity(q, n) \in Nat /\ PartialQuantity(q, n) < q
<1>1. RatioDen \in Nat \ {0} /\ PartialRatio \in Nat
  BY BrokerConfig
<1>2. q * PartialRatio \in Nat
  BY <1>1
<1>3. q * PartialRatio * n \in Nat
  BY <1>2
<1>4. (q * PartialRatio * n) \div RatioDen \in Nat
  BY <1>1, <1>3
<1> QED
  BY <1>4 DEF PartialQuantity, AtMost

\* An immediate fill is at most the quantity asked for.
LEMMA ImmediateQuantityType ==
  ASSUME NEW q \in Nat \ {0}
  PROVE  ImmediateQuantity(q) \in Nat /\ ImmediateQuantity(q) <= q
<1>1. RatioDen \in Nat \ {0} /\ FillRatio \in Nat
  BY BrokerConfig
<1>2. q * FillRatio \in Nat
  BY <1>1
<1>3. (q * FillRatio) \div RatioDen \in Nat
  BY <1>1, <1>2
<1> QED
  BY <1>3 DEF ImmediateQuantity, AtMost

\* The outcome of a submission has its type.
LEMMA SubmitOutcome ==
  ASSUME NEW o \in Order
  PROVE  /\ SubmitStatus(o) \in {"rejected", "submitted", "filled", "partially_filled"}
         /\ SubmitFilled(o) \in Nat
         /\ SubmitFilled(o) <= o.qty
         /\ SubmitStatus(o) = "submitted" => Delayed
<1>1. o.qty \in Nat \ {0}
  BY DEF Order
<1> QED
  BY <1>1, ImmediateQuantityType DEF SubmitStatus, SubmitFilled

\* submit_order keeps the types, and touches no id issued before.
LEMMA SubmitOrderType ==
  ASSUME BrokerTypeOK, NEW o \in Order, SubmitOrder(o)
  PROVE  /\ BrokerTypeOK'
         /\ orders'[nextId] = o
         /\ \A id \in OrderIds : id # nextId =>
              orders'[id] = orders[id] /\ status'[id] = status[id]
<1>1. MaxOrders \in Nat /\ nextId \in OrderIds
  BY BrokerConfig DEF SubmitOrder
<1>2. nextId' \in 1..(MaxOrders + 1)
  BY <1>1 DEF SubmitOrder, OrderIds
<1>3. SubmitStatus(o) \in OrderStatus /\ SubmitFilled(o) \in Nat
  BY SubmitOutcome DEF OrderStatus, Terminal
<1> QED
  BY <1>1, <1>2, <1>3 DEF SubmitOrder, BrokerTypeOK

\* poll_order_updates keeps the types; what it reports was in the book, and a
\* final report is about an order that left it.
LEMMA PollType ==
  ASSUME BrokerTypeOK, \A id \in book : orders[id] \in Order,
         NEW t \in Nat, PollOrderUpdates(t)
  PROVE  /\ BrokerTypeOK'
         /\ book' \subseteq book
         /\ PollUpdates(t) \subseteq book
         /\ \A id \in PollUpdates(t) :
              status'[id] \in {"filled", "canceled"} => id \notin book'
<1>1. PollUpdates(t) \subseteq book /\ book' \subseteq book
  BY DEF PollOrderUpdates, PollUpdates, Completing, Stepping, Due, Expiring
<1>2. book \subseteq OrderIds
  BY DEF BrokerTypeOK
<1>3. status' \in [OrderIds -> OrderStatus]
  BY DEF PollOrderUpdates, BrokerTypeOK, OrderStatus, Terminal
<1>4. steps' \in [OrderIds -> Nat]
  BY DEF PollOrderUpdates, BrokerTypeOK
<1>5. \A id \in book : orders[id].qty \in Nat \ {0}
  BY DEF Order
<1>6. filled' \in [OrderIds -> Nat]
  <2> SUFFICES ASSUME NEW id \in OrderIds
               PROVE  filled'[id] \in Nat
    BY DEF PollOrderUpdates
  <2>1. id \in Stepping(t) \cup Completing(t) => id \in book
    BY DEF Stepping, Completing, Due
  <2>2. CASE id \in Stepping(t)
    <3>1. orders[id].qty \in Nat \ {0} /\ steps[id] + 1 \in Nat
      BY <1>5, <2>1, <2>2 DEF BrokerTypeOK
    <3>2. PartialQuantity(orders[id].qty, steps[id] + 1) \in Nat
      BY <3>1, PartialQuantityType
    <3> QED
      BY <2>2, <3>2 DEF PollOrderUpdates
  <2>3. CASE id \notin Stepping(t) /\ id \in Completing(t)
    BY <1>5, <2>1, <2>3 DEF PollOrderUpdates
  <2>4. CASE id \notin Stepping(t) \cup Completing(t)
    BY <2>4 DEF PollOrderUpdates, BrokerTypeOK
  <2> QED
    BY <2>2, <2>3, <2>4
<1>7. BrokerTypeOK'
  BY <1>1, <1>2, <1>3, <1>4, <1>6 DEF PollOrderUpdates, BrokerTypeOK
<1>8. ASSUME NEW id \in PollUpdates(t), status'[id] \in {"filled", "canceled"}
      PROVE  id \notin book'
  <2>1. id \in OrderIds
    BY <1>1, <1>2
  <2>2. id \in Expiring(t) \cup Completing(t)
    BY <1>8, <2>1 DEF PollOrderUpdates, PollUpdates
  <2> QED
    BY <2>2 DEF PollOrderUpdates
<1> QED
  BY <1>1, <1>7, <1>8

\* cancel_order keeps the types.
LEMMA CancelType ==
  ASSUME BrokerTypeOK, NEW ids, CancelOrders(ids)
  PROVE  BrokerTypeOK'
BY DEF CancelOrders, BrokerTypeOK, OrderStatus, Terminal

(***************************************************************************)
(* Part 1: the broker with any caller.  The inductive invariant.           *)
(***************************************************************************)

\* An id has an order and a status exactly when it has been issued.
IssuedOnce ==
  \A id \in OrderIds :
    IF id < nextId THEN orders[id] \in Order /\ status[id] # "none"
    ELSE status[id] = "none" /\ filled[id] = 0

\* Executed quantity follows the number of partial fills, so the next one is
\* never smaller.
PartialsCounted ==
  Delayed => \A id \in OrderIds :
    /\ status[id] = "submitted" => filled[id] = 0
    /\ status[id] = "partially_filled" =>
         filled[id] = PartialQuantity(orders[id].qty, steps[id])

BrokerIInv ==
  /\ BrokerTypeOK
  /\ IssuedOnce
  /\ BookMatchesLedger
  /\ FillsWithinOrder
  /\ PartialsCounted

(***************************************************************************)
(* Arithmetic of partial fills.                                            *)
(***************************************************************************)

LEMMA DivMonotone ==
  ASSUME NEW a \in Nat, NEW b \in Nat, NEW d \in Nat \ {0}, a <= b
  PROVE  a \div d <= b \div d
<1>1. a \div d \in Nat /\ b \div d \in Nat
  OBVIOUS
<1>2. d * (a \div d) <= a /\ b < d * ((b \div d) + 1)
  OBVIOUS
<1>3. ASSUME (b \div d) + 1 <= a \div d
      PROVE  FALSE
  <2>1. d * ((b \div d) + 1) <= d * (a \div d)
    BY <1>1, <1>3
  <2> QED
    BY <1>1, <1>2, <2>1
<1> QED
  BY <1>1, <1>3

LEMMA PartialQuantityGrows ==
  ASSUME NEW q \in Nat \ {0}, NEW n \in Nat
  PROVE  PartialQuantity(q, n) <= PartialQuantity(q, n + 1)
<1>1. RatioDen \in Nat \ {0} /\ PartialRatio \in Nat
  BY BrokerConfig
<1>2. q * PartialRatio \in Nat
  BY <1>1
<1>3. q * PartialRatio * n \in Nat /\ q * PartialRatio * (n + 1) \in Nat
  BY <1>2
<1>4. q * PartialRatio * n <= q * PartialRatio * (n + 1)
  BY <1>2
<1>5. (q * PartialRatio * n) \div RatioDen <= (q * PartialRatio * (n + 1)) \div RatioDen
  BY <1>1, <1>3, <1>4, DivMonotone
<1>6. /\ (q * PartialRatio * n) \div RatioDen \in Nat
      /\ (q * PartialRatio * (n + 1)) \div RatioDen \in Nat
  BY <1>1, <1>3
<1> QED
  BY <1>5, <1>6 DEF PartialQuantity, AtMost

(***************************************************************************)
(* The invariant is inductive.                                             *)
(***************************************************************************)

LEMMA BrokerInitInv == BrokerInit => BrokerIInv
<1> SUFFICES ASSUME BrokerInit PROVE BrokerIInv
  OBVIOUS
<1> USE DEF BrokerInit
<1>1. BrokerTypeOK
  BY BrokerConfig DEF BrokerTypeOK, OrderStatus, OrderIds
<1>2. IssuedOnce /\ PartialsCounted
  BY DEF IssuedOnce, PartialsCounted, OrderIds
<1>3. BookMatchesLedger /\ FillsWithinOrder
  BY DEF BookMatchesLedger, FillsWithinOrder
<1> QED
  BY <1>1, <1>2, <1>3 DEF BrokerIInv

LEMMA SubmitInv ==
  ASSUME BrokerIInv, NEW o \in Order, SubmitOrder(o)
  PROVE  BrokerIInv'
<1> USE DEF BrokerIInv
<1>1. BrokerTypeOK'
  BY SubmitOrderType
<1>2. /\ SubmitStatus(o) \in {"rejected", "submitted", "filled", "partially_filled"}
      /\ SubmitFilled(o) \in Nat /\ SubmitFilled(o) <= o.qty
      /\ o.qty \in Nat \ {0}
  BY SubmitOutcome DEF Order
<1>3. /\ nextId \in OrderIds /\ nextId' = nextId + 1
      /\ orders'[nextId] = o
      /\ status'[nextId] = SubmitStatus(o)
      /\ filled'[nextId] = SubmitFilled(o)
      /\ steps' = steps
      /\ book' = IF SubmitStatus(o) = "submitted" THEN book \cup {nextId} ELSE book
  BY DEF SubmitOrder, BrokerTypeOK
<1>4. \A id \in OrderIds : id # nextId =>
        /\ orders'[id] = orders[id] /\ status'[id] = status[id]
        /\ filled'[id] = filled[id]
  BY DEF SubmitOrder, BrokerTypeOK
<1>5. \A id \in OrderIds : id \in Nat /\ nextId \in Nat
  BY BrokerConfig, <1>3 DEF OrderIds
<1>6. IssuedOnce'
  <2> SUFFICES ASSUME NEW id \in OrderIds
               PROVE  IF id < nextId' THEN orders'[id] \in Order /\ status'[id] # "none"
                      ELSE status'[id] = "none" /\ filled'[id] = 0
    BY DEF IssuedOnce
  <2>1. CASE id = nextId
    BY <1>2, <1>3, <1>5, <2>1
  <2>2. CASE id # nextId
    BY <1>3, <1>4, <1>5, <2>2 DEF IssuedOnce
  <2> QED
    BY <2>1, <2>2
<1>7. BookMatchesLedger'
  <2>1. SubmitStatus(o) = "submitted" => Delayed
    BY SubmitOutcome
  <2>2. Delayed => SubmitStatus(o) \in {"rejected", "submitted"}
    BY DEF SubmitStatus
  <2>3. CASE Delayed
    <3>1. book = {id \in OrderIds : status[id] \in {"submitted", "partially_filled"}}
      BY <2>3 DEF BookMatchesLedger
    <3>2. status[nextId] = "none"
      BY <1>3, <1>5 DEF IssuedOnce
    <3>3. \A id \in OrderIds :
            id \in book' <=> status'[id] \in {"submitted", "partially_filled"}
      BY <1>3, <1>4, <2>2, <2>3, <3>1, <3>2
    <3> QED
      BY <1>1, <2>3, <3>3 DEF BookMatchesLedger, BrokerTypeOK
  <2>4. CASE ~Delayed
    BY <1>3, <2>1, <2>4 DEF BookMatchesLedger
  <2> QED
    BY <2>3, <2>4
<1>8. FillsWithinOrder'
  <2>1. /\ (SubmitStatus(o) = "filled") <=> (SubmitFilled(o) = o.qty)
        /\ SubmitStatus(o) \in {"submitted", "rejected"} => SubmitFilled(o) = 0
    BY <1>2 DEF SubmitStatus, SubmitFilled
  <2> SUFFICES ASSUME NEW id \in OrderIds
               PROVE  /\ status'[id] # "none" =>
                           /\ filled'[id] <= orders'[id].qty
                           /\ (status'[id] = "filled") <=> (filled'[id] = orders'[id].qty)
                      /\ status'[id] \in {"none", "submitted", "rejected"} => filled'[id] = 0
    BY DEF FillsWithinOrder
  <2>2. CASE id = nextId
    BY <1>2, <1>3, <2>1, <2>2
  <2>3. CASE id # nextId
    BY <1>4, <2>3 DEF FillsWithinOrder
  <2> QED
    BY <2>2, <2>3
<1>9. PartialsCounted'
  <2>1. Delayed => /\ SubmitStatus(o) \in {"rejected", "submitted"}
                   /\ SubmitFilled(o) = 0
    BY DEF SubmitStatus, SubmitFilled
  <2> QED
    BY <1>3, <1>4, <2>1 DEF PartialsCounted
<1> QED
  BY <1>1, <1>6, <1>7, <1>8, <1>9

LEMMA PollInv ==
  ASSUME BrokerIInv, NEW t \in Nat, PollOrderUpdates(t)
  PROVE  BrokerIInv'
<1> USE DEF BrokerIInv
<1>1. book \subseteq OrderIds
  BY DEF BrokerTypeOK
<1>2. \A id \in OrderIds : status[id] # "none" => orders[id] \in Order
  BY DEF IssuedOnce
<1>3. \A id \in book : /\ Delayed
                       /\ status[id] \in {"submitted", "partially_filled"}
                       /\ orders[id] \in Order
                       /\ orders[id].qty \in Nat \ {0}
  BY <1>1, <1>2 DEF BookMatchesLedger, Order
<1>4. BrokerTypeOK'
  BY <1>3, PollType
<1>5. /\ Expiring(t) \subseteq book
      /\ Stepping(t) \subseteq book \ Expiring(t)
      /\ Completing(t) \subseteq book \ (Expiring(t) \cup Stepping(t))
  BY DEF Completing, Stepping, Due, Expiring
<1>6. orders' = orders /\ nextId' = nextId
  BY DEF PollOrderUpdates
<1>7. \A id \in Expiring(t) :
        status'[id] = "canceled" /\ filled'[id] = filled[id] /\ id \notin book'
  BY <1>1, <1>5 DEF PollOrderUpdates
<1>8. \A id \in Stepping(t) :
        /\ status'[id] = "partially_filled" /\ steps'[id] = steps[id] + 1
        /\ filled'[id] = PartialQuantity(orders[id].qty, steps[id] + 1)
        /\ id \in book'
  BY <1>1, <1>5 DEF PollOrderUpdates
<1>9. \A id \in Completing(t) :
        status'[id] = "filled" /\ filled'[id] = orders[id].qty /\ id \notin book'
  BY <1>1, <1>5 DEF PollOrderUpdates
<1>10. \A id \in OrderIds \ PollUpdates(t) :
        /\ status'[id] = status[id] /\ filled'[id] = filled[id]
        /\ steps'[id] = steps[id]
        /\ id \in book' <=> id \in book
  BY DEF PollOrderUpdates, PollUpdates
<1>11. \A id \in Stepping(t) :
         filled'[id] \in Nat /\ filled'[id] < orders[id].qty
  BY <1>1, <1>3, <1>5, <1>8, PartialQuantityType DEF BrokerTypeOK
<1>12. IssuedOnce'
  <2> SUFFICES ASSUME NEW id \in OrderIds
               PROVE  IF id < nextId THEN orders[id] \in Order /\ status'[id] # "none"
                      ELSE status'[id] = "none" /\ filled'[id] = 0
    BY <1>6 DEF IssuedOnce
  <2>1. CASE id \in PollUpdates(t)
    BY <1>3, <1>5, <1>7, <1>8, <1>9, <2>1 DEF PollUpdates, IssuedOnce
  <2>2. CASE id \notin PollUpdates(t)
    BY <1>10, <2>2 DEF IssuedOnce
  <2> QED
    BY <2>1, <2>2
<1>13. BookMatchesLedger'
  <2>1. CASE Delayed
    <3> SUFFICES ASSUME NEW id \in OrderIds
                 PROVE  id \in book' <=> status'[id] \in {"submitted", "partially_filled"}
      BY <1>4, <2>1 DEF BookMatchesLedger, BrokerTypeOK
    <3>1. CASE id \in PollUpdates(t)
      BY <1>7, <1>8, <1>9, <3>1 DEF PollUpdates
    <3>2. CASE id \notin PollUpdates(t)
      BY <1>10, <2>1, <3>2 DEF BookMatchesLedger
    <3> QED
      BY <3>1, <3>2
  <2>2. CASE ~Delayed
    BY <2>2 DEF BookMatchesLedger, PollOrderUpdates
  <2> QED
    BY <2>1, <2>2
<1>14. FillsWithinOrder'
  <2> SUFFICES ASSUME NEW id \in OrderIds
               PROVE  /\ status'[id] # "none" =>
                           /\ filled'[id] <= orders[id].qty
                           /\ (status'[id] = "filled") <=> (filled'[id] = orders[id].qty)
                      /\ status'[id] \in {"none", "submitted", "rejected"} => filled'[id] = 0
    BY <1>6 DEF FillsWithinOrder
  <2>1. CASE id \in Expiring(t)
    BY <1>3, <1>5, <1>7, <2>1 DEF FillsWithinOrder
  <2>2. CASE id \in Stepping(t)
    BY <1>3, <1>5, <1>8, <1>11, <2>2
  <2>3. CASE id \in Completing(t)
    BY <1>3, <1>5, <1>9, <2>3
  <2>4. CASE id \notin PollUpdates(t)
    BY <1>10, <2>4 DEF FillsWithinOrder
  <2> QED
    BY <2>1, <2>2, <2>3, <2>4 DEF PollUpdates
<1>15. PartialsCounted'
  <2> SUFFICES ASSUME Delayed, NEW id \in OrderIds
               PROVE  /\ status'[id] = "submitted" => filled'[id] = 0
                      /\ status'[id] = "partially_filled" =>
                           filled'[id] = PartialQuantity(orders[id].qty, steps'[id])
    BY <1>6 DEF PartialsCounted
  <2>1. CASE id \in PollUpdates(t)
    BY <1>7, <1>8, <1>9, <2>1 DEF PollUpdates
  <2>2. CASE id \notin PollUpdates(t)
    BY <1>10, <2>2 DEF PartialsCounted
  <2> QED
    BY <2>1, <2>2
<1> QED
  BY <1>4, <1>12, <1>13, <1>14, <1>15

LEMMA CancelInv ==
  ASSUME BrokerIInv, NEW ids, CancelOrders(ids)
  PROVE  BrokerIInv'
<1> USE DEF BrokerIInv
<1>1. BrokerTypeOK'
  BY CancelType
<1>2. /\ orders' = orders /\ nextId' = nextId /\ filled' = filled /\ steps' = steps
      /\ book' = book \ ids
      /\ \A id \in OrderIds :
           status'[id] = IF id \in ids \cap book THEN "canceled" ELSE status[id]
  BY DEF CancelOrders
<1>3. \A id \in book : id \in OrderIds /\ status[id] \in {"submitted", "partially_filled"}
  BY DEF BookMatchesLedger
<1>4. IssuedOnce' /\ PartialsCounted'
  BY <1>2, <1>3 DEF IssuedOnce, PartialsCounted
<1>5. BookMatchesLedger'
  BY <1>1, <1>2 DEF BookMatchesLedger, BrokerTypeOK
<1>6. FillsWithinOrder'
  BY <1>2, <1>3 DEF FillsWithinOrder
<1> QED
  BY <1>1, <1>4, <1>5, <1>6

LEMMA BrokerStepInv == BrokerIInv /\ [BrokerNext]_brokerVars => BrokerIInv'
<1> SUFFICES ASSUME BrokerIInv, [BrokerNext]_brokerVars PROVE BrokerIInv'
  OBVIOUS
<1>1. CASE CallerSubmits
  <2>1. PICK s \in Symbols, c \in Contracts, d \in {"buy", "sell"},
             p \in PositionSides, q \in Quantities :
          SubmitOrder([sym |-> s, contract |-> c, side |-> d, pside |-> p, qty |-> q])
    BY <1>1 DEF CallerSubmits
  <2>2. [sym |-> s, contract |-> c, side |-> d, pside |-> p, qty |-> q] \in Order
    BY CallerConfig DEF Order
  <2> QED
    BY <2>1, <2>2, SubmitInv
<1>2. CASE CallerPolls
  <2>1. PICK t \in {brokerTick, brokerTick + 1} : PollOrderUpdates(t)
    BY <1>2 DEF CallerPolls
  <2>2. t \in Nat
    BY DEF BrokerIInv, BrokerTypeOK
  <2> QED
    BY <2>1, <2>2, PollInv
<1>3. CASE CallerCancels
  BY <1>3, CancelInv DEF CallerCancels
<1>4. CASE UNCHANGED brokerVars
  BY <1>4 DEF brokerVars, BrokerIInv, BrokerTypeOK, IssuedOnce, BookMatchesLedger,
              FillsWithinOrder, PartialsCounted
<1> QED
  BY <1>1, <1>2, <1>3, <1>4 DEF BrokerNext

\* For every configuration the book holds exactly the orders the ledger shows
\* working, and no ledger entry shows more filled than was ordered
\* (simulated_broker.py:150-218).
THEOREM BrokerSafety ==
  BrokerSpec => [](BrokerTypeOK /\ BookMatchesLedger /\ FillsWithinOrder)
<1>1. BrokerIInv => BrokerTypeOK /\ BookMatchesLedger /\ FillsWithinOrder
  BY DEF BrokerIInv
<1> QED
  BY BrokerInitInv, BrokerStepInv, <1>1, PTL DEF BrokerSpec

(***************************************************************************)
(* Refinement: every step of the broker is a step of the order book.       *)
(***************************************************************************)

\* What one id may go through in a step of the order book.
Move(id) ==
  \/ OrderBookOf!Idle(id) \/ OrderBookOf!Place(id) \/ OrderBookOf!Execute(id)
  \/ OrderBookOf!Finish(id) \/ OrderBookOf!Withdraw(id)

\* What works is not complete.
LEMMA WorkingIncomplete ==
  ASSUME BrokerIInv, NEW id \in OrderIds, status[id] \in {"submitted", "partially_filled"}
  PROVE  filled[id] \in Nat /\ orders[id].qty \in Nat /\ filled[id] < orders[id].qty
<1>1. filled[id] \in Nat /\ orders[id] \in Order
  BY DEF BrokerIInv, BrokerTypeOK, IssuedOnce
<1>2. filled[id] <= orders[id].qty /\ filled[id] # orders[id].qty
  BY DEF BrokerIInv, FillsWithinOrder
<1> QED
  BY <1>1, <1>2 DEF Order

LEMMA SubmitMoves ==
  ASSUME BrokerIInv, NEW o \in Order, SubmitOrder(o), NEW id \in OrderIds
  PROVE  Move(id)
<1> USE DEF BrokerIInv
<1>1. /\ nextId \in OrderIds
      /\ orders'[nextId] = o /\ o.qty \in Nat \ {0}
      /\ status'[nextId] = SubmitStatus(o) /\ filled'[nextId] = SubmitFilled(o)
      /\ status[nextId] = "none"
  BY BrokerConfig DEF SubmitOrder, BrokerTypeOK, IssuedOnce, Order, OrderIds
<1>2. CASE id = nextId
  <2>1. /\ SubmitStatus(o) \in {"rejected", "submitted", "filled", "partially_filled"}
        /\ SubmitFilled(o) \in Nat /\ SubmitFilled(o) <= o.qty
        /\ SubmitStatus(o) \in {"rejected", "submitted"} => SubmitFilled(o) = 0
        /\ SubmitStatus(o) = "filled" <=> SubmitFilled(o) = o.qty
    BY <1>1, SubmitOutcome DEF SubmitStatus, SubmitFilled
  <2>2. OrderBookOf!Place(id)
    BY <1>1, <1>2, <2>1 DEF OrderBookOf!Place, PhaseOf
  <2> QED
    BY <2>2 DEF Move
<1>3. CASE id # nextId
  <2>1. orders'[id] = orders[id] /\ status'[id] = status[id] /\ filled'[id] = filled[id]
    BY <1>3 DEF SubmitOrder, BrokerTypeOK
  <2> QED
    BY <2>1 DEF Move, OrderBookOf!Idle
<1> QED
  BY <1>2, <1>3

LEMMA PollMoves ==
  ASSUME BrokerIInv, NEW t \in Nat, PollOrderUpdates(t), NEW id \in OrderIds
  PROVE  Move(id)
<1> USE DEF BrokerIInv
<1>1. orders' = orders
  BY DEF PollOrderUpdates
<1>2. PollUpdates(t) \subseteq book
  BY DEF PollUpdates, Completing, Stepping, Due, Expiring
<1>3. ASSUME id \in book
      PROVE  /\ status[id] \in {"submitted", "partially_filled"} /\ Delayed
             /\ orders[id].qty \in Nat \ {0} /\ steps[id] \in Nat
             /\ PhaseOf(status[id]) = "working"
  BY <1>3 DEF BookMatchesLedger, IssuedOnce, Order, BrokerTypeOK, PhaseOf
<1>4. CASE id \in Expiring(t)
  <2>1. status'[id] = "canceled" /\ filled'[id] = filled[id]
    BY <1>4 DEF PollOrderUpdates, Completing, Stepping, Due
  <2>2. id \in book
    BY <1>2, <1>4 DEF PollUpdates
  <2>3. filled[id] \in Nat /\ filled[id] < orders[id].qty
    BY <1>3, <2>2, WorkingIncomplete
  <2>4. OrderBookOf!Withdraw(id)
    BY <1>1, <1>3, <2>1, <2>2, <2>3 DEF OrderBookOf!Withdraw, PhaseOf
  <2> QED
    BY <2>4 DEF Move
<1>5. CASE id \in Stepping(t)
  <2>1. /\ status'[id] = "partially_filled"
        /\ filled'[id] = PartialQuantity(orders[id].qty, steps[id] + 1)
    BY <1>5 DEF PollOrderUpdates, Stepping, Due
  <2>2. id \in book
    BY <1>2, <1>5 DEF PollUpdates
  <2>3. filled'[id] \in Nat /\ filled'[id] < orders[id].qty
    <3>1. orders[id].qty \in Nat \ {0} /\ steps[id] + 1 \in Nat
      BY <1>3, <2>2
    <3>2. /\ PartialQuantity(orders[id].qty, steps[id] + 1) \in Nat
          /\ PartialQuantity(orders[id].qty, steps[id] + 1) < orders[id].qty
      BY ONLY <3>1, PartialQuantityType
    <3> QED
      BY ONLY <2>1, <3>2
  <2>4. filled[id] <= filled'[id]
    BY <1>3, <2>1, <2>2, <2>3, PartialQuantityGrows DEF PartialsCounted
  <2>5. OrderBookOf!Execute(id)
    BY <1>1, <1>3, <2>1, <2>2, <2>3, <2>4 DEF OrderBookOf!Execute, PhaseOf
  <2> QED
    BY <2>5 DEF Move
<1>6. CASE id \in Completing(t)
  <2>1. status'[id] = "filled" /\ filled'[id] = orders[id].qty
    BY <1>6 DEF PollOrderUpdates, Completing, Due
  <2>2. id \in book
    BY <1>2, <1>6 DEF PollUpdates
  <2>3. OrderBookOf!Finish(id)
    BY <1>1, <1>3, <2>1, <2>2 DEF OrderBookOf!Finish, PhaseOf
  <2> QED
    BY <2>3 DEF Move
<1>7. CASE id \notin PollUpdates(t)
  <2>1. status'[id] = status[id] /\ filled'[id] = filled[id]
    BY <1>7 DEF PollOrderUpdates, PollUpdates
  <2> QED
    BY <1>1, <2>1 DEF Move, OrderBookOf!Idle
<1> QED
  BY <1>4, <1>5, <1>6, <1>7 DEF PollUpdates

LEMMA CancelMoves ==
  ASSUME BrokerIInv, NEW ids, CancelOrders(ids), NEW id \in OrderIds
  PROVE  Move(id)
<1> USE DEF BrokerIInv
<1>1. /\ orders' = orders /\ filled' = filled
      /\ status'[id] = IF id \in ids \cap book THEN "canceled" ELSE status[id]
  BY DEF CancelOrders
<1>2. CASE id \in ids \cap book
  <2>1. status[id] \in {"submitted", "partially_filled"}
    BY <1>2 DEF BookMatchesLedger
  <2>2. filled[id] \in Nat /\ filled[id] < orders[id].qty
    BY <2>1, WorkingIncomplete
  <2>3. OrderBookOf!Withdraw(id)
    BY <1>1, <1>2, <2>1, <2>2 DEF OrderBookOf!Withdraw, PhaseOf
  <2> QED
    BY <2>3 DEF Move
<1>3. CASE id \notin ids \cap book
  BY <1>1, <1>3 DEF Move, OrderBookOf!Idle
<1> QED
  BY <1>2, <1>3

LEMMA BrokerStepMoves ==
  BrokerIInv /\ [BrokerNext]_brokerVars =>
    [OrderBookOf!Next]_(OrderBookOf!orderVars)
<1> SUFFICES ASSUME BrokerIInv, BrokerNext
             PROVE  \A id \in OrderIds : Move(id)
  BY DEF Move, OrderBookOf!Next, OrderBookOf!orderVars, brokerVars
<1>1. CASE CallerSubmits
  <2>1. PICK s \in Symbols, c \in Contracts, d \in {"buy", "sell"},
             p \in PositionSides, q \in Quantities :
          SubmitOrder([sym |-> s, contract |-> c, side |-> d, pside |-> p, qty |-> q])
    BY <1>1 DEF CallerSubmits
  <2>2. [sym |-> s, contract |-> c, side |-> d, pside |-> p, qty |-> q] \in Order
    BY CallerConfig DEF Order
  <2> QED
    BY <2>1, <2>2, SubmitMoves
<1>2. CASE CallerPolls
  <2>1. PICK t \in {brokerTick, brokerTick + 1} : PollOrderUpdates(t)
    BY <1>2 DEF CallerPolls
  <2>2. t \in Nat
    BY DEF BrokerIInv, BrokerTypeOK
  <2> QED
    BY <2>1, <2>2, PollMoves
<1>3. CASE CallerCancels
  BY <1>3, CancelMoves DEF CallerCancels
<1> QED
  BY <1>1, <1>2, <1>3 DEF BrokerNext

LEMMA BrokerInitMapped == BrokerInit => OrderBookOf!Init
BY DEF BrokerInit, OrderBookOf!Init, PhaseOf

\* The simulated broker implements the order book whatever its delays, ratios,
\* expiry and rejection rules are, and whoever calls it.
THEOREM BrokerImplementsOrderBook == BrokerSpec => ImplementsOrderBook
BY BrokerInitInv, BrokerStepInv, BrokerInitMapped, BrokerStepMoves, PTL
   DEF BrokerSpec, ImplementsOrderBook, OrderBookOf!Spec

(***************************************************************************)
(* ----------------------------------------------------------------------- *)
(* The runtime.                                                            *)
(* ----------------------------------------------------------------------- *)
(***************************************************************************)


(***************************************************************************)
(* Part 2: the runtime.  The inductive invariant says what the broker and  *)
(* the order path hold, where the tick is, and which contracts are in      *)
(* play.                                                                   *)
(***************************************************************************)

\* Whatever waits somewhere has been issued, and an issued id has its order.
Known ==
  /\ \A id \in OrderIds : id < nextId => orders[id] \in Order
  /\ \A id \in book \cup ctx \cup updates : id < nextId

\* With a broker that holds orders back no key of the current tick is known, so
\* no order is dropped as a duplicate after the broker took it; one that fills
\* at once has nothing waiting.
NothingDropped ==
  IF Delayed THEN keys = {} \/ keyTick < tick ELSE book = {}

Core == BrokerTypeOK /\ PathTypeOK /\ Known /\ NothingDropped /\ NoOrphanOrder

\* Updates wait only between a poll and the decisions; a final one is about an
\* order the broker has already let go.
UpdatesFresh ==
  /\ pc # "apply" => updates = {}
  /\ \A id \in updates : status[id] \in {"filled", "canceled"} => id \notin book

\* A close loop visits positions that exist, and there is none outside of it.
TodoHeld ==
  /\ pc \notin {"rollclose", "exit"} => todo = {}
  /\ \A k \in todo : positions[k] > 0

Place == LoopTypeOK /\ UpdatesFresh /\ TodoHeld

\* What may still open a position does it in the active contract.
OrdersFollowActive ==
  CloseOnRoll => \A id \in book \cup updates :
    IsOpen(orders[id]) => orders[id].contract = active[orders[id].sym]

Hold == HoldTypeOK /\ OrdersFollowActive /\ NoStrandedPosition

IInv == Core /\ Place /\ Hold

(***************************************************************************)
(* Lemmas on the operators.                                                *)
(***************************************************************************)

\* A configured schedule names a contract at every bar.
LEMMA DesiredType ==
  ASSUME NEW s \in Symbols, universeTick \in Nat
  PROVE  Desired(s) \in Contracts
<1>1. Schedule[s] \in Seq(Contracts) /\ Schedule[s] # <<>>
  BY RuntimeConfig
<1>2. Len(Schedule[s]) \in Nat \ {0}
  BY <1>1
<1>3. AtMost(universeTick + 1, Len(Schedule[s])) \in 1..Len(Schedule[s])
  BY <1>2 DEF AtMost
<1> QED
  BY <1>1, <1>3 DEF Desired

LEMMA ResolvedType ==
  ASSUME NEW s \in Symbols, universeTick \in Nat, HoldTypeOK
  PROVE  Resolved(s) \in Contracts
BY DesiredType DEF Resolved, HoldTypeOK

LEMMA OpenOrderType ==
  ASSUME NEW s \in Symbols, NEW p \in PositionSides, universeTick \in Nat, HoldTypeOK
  PROVE  /\ OpenOrder(s, p) \in Order
         /\ OpenOrder(s, p).sym = s /\ OpenOrder(s, p).contract = Resolved(s)
<1>1. OrderQty \in Nat \ {0} /\ Resolved(s) \in Contracts
  BY RuntimeConfig, ResolvedType
<1> QED
  BY <1>1 DEF OpenOrder, Order, OpeningSide, PositionSides

\* A close order is a proper order, of the position it closes, and opens nothing.
LEMMA CloseOrderType ==
  ASSUME NEW k \in Keys, PathTypeOK, positions[k] > 0
  PROVE  /\ CloseOrder(k) \in Order
         /\ KeyOf(CloseOrder(k)) = k
         /\ ~IsOpen(CloseOrder(k))
<1>1. positions[k] \in Nat \ {0}
  BY DEF PathTypeOK
<1>2. k[1] \in Symbols /\ k[2] \in Contracts /\ k[3] \in {"long", "short"}
  BY DEF Keys, PositionSides
<1>3. k = <<k[1], k[2], k[3]>>
  BY DEF Keys
<1> QED
  BY <1>1, <1>2, <1>3 DEF CloseOrder, Order, KeyOf, IsOpen, ClosingSide, PositionSides

LEMMA KeyOfType ==
  ASSUME NEW o \in Order
  PROVE  KeyOf(o) \in Keys /\ KeyOf(o)[1] = o.sym /\ KeyOf(o)[2] = o.contract
BY DEF KeyOf, Keys, Order

\* Applying a fill that does not raise keeps every quantity a natural number
\* and changes only the order's own key: an opening raises it, a close lowers it.
LEMMA AppliedType ==
  ASSUME PathTypeOK, NEW o \in Order, NEW q \in Nat, ApplySucceeds(o, q)
  PROVE  /\ Applied(positions, o, q) \in [Keys -> Nat]
         /\ \A k \in Keys : k # KeyOf(o) => Applied(positions, o, q)[k] = positions[k]
         /\ ~IsOpen(o) => Applied(positions, o, q)[KeyOf(o)] <= positions[KeyOf(o)]
<1>1. KeyOf(o) \in Keys /\ positions[KeyOf(o)] \in Nat
  BY KeyOfType DEF PathTypeOK
<1>2. CASE IsOpen(o)
  BY <1>1, <1>2 DEF Applied, PathTypeOK
<1>3. CASE ~IsOpen(o)
  <2>1. q <= positions[KeyOf(o)]
    BY <1>1, <1>3 DEF ApplySucceeds, CannotClose
  <2>2. positions[KeyOf(o)] - q \in Nat /\ positions[KeyOf(o)] - q <= positions[KeyOf(o)]
    BY <1>1, <2>1
  <2> QED
    BY <1>1, <1>3, <2>2 DEF Applied, PathTypeOK
<1> QED
  BY <1>2, <1>3

(***************************************************************************)
(* Steps that leave the order path alone, apart from its clock.            *)
(***************************************************************************)

QuietStep ==
  /\ UNCHANGED <<brokerVars, pendingVars, keyTick, keys, orderTick, positions,
                  journalVars>>
  /\ tick' \in {tick, tick + 1}

LEMMA QuietCore ==
  ASSUME Core, QuietStep, updates' \subseteq updates
  PROVE  Core'
<1> USE DEF Core, QuietStep, brokerVars, pendingVars, journalVars
<1>1. BrokerTypeOK' /\ PathTypeOK'
  BY DEF BrokerTypeOK, PathTypeOK
<1>2. Known' /\ NoOrphanOrder'
  BY DEF Known, NoOrphanOrder
<1>3. NothingDropped'
  <2>1. tick \in Nat /\ keyTick \in Nat
    BY DEF PathTypeOK
  <2> QED
    BY <2>1 DEF NothingDropped
<1> QED
  BY <1>1, <1>2, <1>3

\* Where no position, order or contract changes, the contracts in play do not.
LEMMA QuietHold ==
  ASSUME Hold, QuietStep, updates' \subseteq updates, UNCHANGED active, HoldTypeOK'
  PROVE  Hold'
BY DEF Hold, QuietStep, brokerVars, OrdersFollowActive, NoStrandedPosition

(***************************************************************************)
(* Orders submitted and recorded.                                          *)
(***************************************************************************)

\* What SubmitAndRecord does to the broker and the order path, whichever way it
\* goes on.
SubmitStep(o) ==
  /\ SubmitOrder(o)
  /\ orderedAt' = [orderedAt EXCEPT ![nextId] = tick]
  /\ \/ RecordRefused(o)
     \/ RecordPending(o)
     \/ RecordFill(o) /\ ApplyFillNow(o)
     \/ RecordFill(o) /\ UNCHANGED <<tick, positions>>

LEMMA OrderKeyType ==
  ASSUME NEW o \in Order
  PROVE  OrderKey(o) \in Symbols \X {"buy", "sell"} \X PositionSides \X Contracts
BY DEF OrderKey, Order

LEMMA ReportType ==
  ASSUME PathTypeOK, NEW id \in OrderIds, NEW q \in Nat, NEW final,
         Report(id, q, final)
  PROVE  reported' \in [OrderIds -> Nat] /\ endings' \in [OrderIds -> Nat]
<1>1. reported' \in [OrderIds -> Nat]
  BY DEF Report, PathTypeOK
<1>2. endings[id] \in Nat /\ endings[id] + 1 \in Nat
  BY DEF PathTypeOK
<1>3. endings' = [endings EXCEPT ![id] = endings[id] + 1] \/ endings' = endings
  BY DEF Report, PathTypeOK
<1> QED
  BY <1>1, <1>2, <1>3 DEF PathTypeOK

LEMMA SubmitCore ==
  ASSUME Core, NEW o \in Order, SubmitStep(o), updates' = {}
  PROVE  Core'
<1> USE DEF Core, SubmitStep
<1>1. nextId \in OrderIds /\ nextId' = nextId + 1 /\ nextId \in Nat
  BY BrokerConfig DEF SubmitOrder, OrderIds
<1>2. /\ BrokerTypeOK'
      /\ orders'[nextId] = o
      /\ \A id \in OrderIds : id # nextId => orders'[id] = orders[id]
  BY SubmitOrderType
<1>3. /\ SubmitStatus(o) \in {"rejected", "submitted", "filled", "partially_filled"}
      /\ SubmitFilled(o) \in Nat
      /\ SubmitStatus(o) = "submitted" => Delayed
      /\ Delayed => SubmitStatus(o) \in {"rejected", "submitted"}
      /\ book' = IF SubmitStatus(o) = "submitted" THEN book \cup {nextId} ELSE book
  BY SubmitOutcome DEF SubmitStatus, SubmitOrder
<1>4. Delayed => ~IsDuplicate(o)
  BY DEF NothingDropped, IsDuplicate, PathTypeOK
<1>5. PathTypeOK'
  <2>1. /\ orderedAt' \in [OrderIds -> Nat]
        /\ [orderTick EXCEPT ![o.sym] = tick] \in [Symbols -> Nat \cup {-1}]
        /\ [ctxFilled EXCEPT ![nextId] = 0] \in [OrderIds -> Nat]
    BY <1>1 DEF PathTypeOK, Order
  <2>2. ASSUME RememberKey(o)
        PROVE  /\ keyTick' \in Nat
               /\ keys' \subseteq Symbols \X {"buy", "sell"} \X PositionSides \X Contracts
    <3>1. OrderKey(o) \in Symbols \X {"buy", "sell"} \X PositionSides \X Contracts
      BY OrderKeyType
    <3> QED
      BY <2>2, <3>1 DEF RememberKey, PathTypeOK
  <2>4. CASE RecordRefused(o)
    <3>1. reported' \in [OrderIds -> Nat] /\ endings' \in [OrderIds -> Nat]
      BY <1>1, <2>4, ReportType DEF RecordRefused
    <3>2. tick' \in Nat
      BY <2>4 DEF RecordRefused, Snapshot, PathTypeOK
    <3> QED
      BY <2>1, <2>4, <3>1, <3>2 DEF RecordRefused, PathTypeOK, pendingVars
  <2>5. CASE RecordPending(o)
    <3>1. reported' \in [OrderIds -> Nat] /\ endings' \in [OrderIds -> Nat]
      BY <1>1, <2>5, ReportType DEF RecordPending
    <3>2. tick' \in Nat /\ ctx' \subseteq OrderIds
      BY <1>1, <2>5 DEF RecordPending, Snapshot, PathTypeOK
    <3>3. /\ keyTick' \in Nat
          /\ keys' \subseteq Symbols \X {"buy", "sell"} \X PositionSides \X Contracts
      BY <2>2, <2>5 DEF RecordPending
    <3> QED
      BY <2>1, <2>5, <3>1, <3>2, <3>3 DEF RecordPending, PathTypeOK
  <2>6. ASSUME RecordFill(o), positions' \in [Keys -> Nat], tick' \in Nat
        PROVE  PathTypeOK'
    <3>1. reported' \in [OrderIds -> Nat] /\ endings' \in [OrderIds -> Nat]
      BY <1>1, <1>3, <2>6, ReportType DEF RecordFill
    <3>2. /\ keyTick' \in Nat
          /\ keys' \subseteq Symbols \X {"buy", "sell"} \X PositionSides \X Contracts
      BY <2>2, <2>6 DEF RecordFill
    <3> QED
      BY <2>1, <2>6, <3>1, <3>2 DEF RecordFill, PathTypeOK, pendingVars
  <2>7. CASE RecordFill(o) /\ ApplyFillNow(o)
    <3>1. positions' \in [Keys -> Nat] /\ tick' \in Nat
      BY <1>3, <2>7, AppliedType DEF ApplyFillNow, Snapshot, PathTypeOK
    <3> QED
      BY <2>6, <2>7, <3>1
  <2>8. CASE RecordFill(o) /\ UNCHANGED <<tick, positions>>
    BY <2>6, <2>8 DEF PathTypeOK
  <2> QED
    BY <2>4, <2>5, <2>7, <2>8
<1>6. ctx' = ctx \/ ctx' = ctx \cup {nextId}
  BY DEF RecordRefused, RecordPending, RecordFill, pendingVars
<1>7. Known'
  <2>1. \A id \in OrderIds : id < nextId' => orders'[id] \in Order
    BY <1>1, <1>2 DEF Known, OrderIds
  <2>2. \A id \in book' \cup ctx' : id < nextId'
    BY <1>1, <1>3, <1>6 DEF Known, BrokerTypeOK, PathTypeOK, OrderIds
  <2> QED
    BY <2>1, <2>2 DEF Known
<1>8. NothingDropped'
  <2>1. CASE Delayed
    <3>1. tick \in Nat /\ keyTick \in Nat
      BY DEF PathTypeOK
    <3>2. CASE RecordRefused(o)
      BY <2>1, <3>1, <3>2 DEF RecordRefused, Snapshot, NothingDropped
    <3>3. CASE RecordPending(o)
      BY <2>1, <3>1, <3>3 DEF RecordPending, RememberKey, Snapshot, NothingDropped
    <3> QED
      BY <1>3, <2>1, <3>2, <3>3 DEF RecordFill
  <2>2. CASE ~Delayed
    BY <1>3, <2>2 DEF NothingDropped
  <2> QED
    BY <2>1, <2>2
<1>9. NoOrphanOrder'
  <2>1. CASE Delayed
    BY <1>3, <1>4, <2>1
       DEF RecordRefused, RecordPending, RecordFill, NoOrphanOrder, pendingVars
  <2>2. CASE ~Delayed
    BY <1>3, <2>2 DEF NothingDropped, NoOrphanOrder
  <2> QED
    BY <2>1, <2>2
<1> QED
  BY <1>2, <1>5, <1>7, <1>8, <1>9

\* Of the positions only the order's own can change, and a close cannot raise it.
LEMMA SubmitPositions ==
  ASSUME Core, NEW o \in Order, SubmitStep(o)
  PROVE  /\ \A k \in Keys : k # KeyOf(o) => positions'[k] = positions[k]
         /\ ~IsOpen(o) => positions'[KeyOf(o)] <= positions[KeyOf(o)]
<1>1. SubmitFilled(o) \in Nat
  BY SubmitOutcome
<1>2. CASE UNCHANGED positions
  <2>1. positions[KeyOf(o)] \in Nat
    BY KeyOfType DEF Core, PathTypeOK
  <2> QED
    BY <1>2, <2>1
<1>3. CASE ApplyFillNow(o)
  BY <1>1, <1>3, AppliedType DEF ApplyFillNow, Core
<1> QED
  BY <1>2, <1>3 DEF SubmitStep, RecordRefused, RecordPending

\* The roll state moves only from no contract at all to the first one.
ActiveKept ==
  CloseOnRoll => \A s \in Symbols : active[s] # NoContract => active'[s] = active[s]

\* After an order the contracts in play are the same, if an opening was in the
\* active contract.
LEMMA SubmitHold ==
  ASSUME Core, Hold, HoldTypeOK', NEW o \in Order, SubmitStep(o),
         updates = {}, updates' = {}, ActiveKept,
         IsOpen(o) => active'[o.sym] = o.contract
  PROVE  Hold'
<1> USE DEF Hold
<1>1. /\ nextId \in OrderIds /\ orders'[nextId] = o
      /\ \A id \in OrderIds : id # nextId => orders'[id] = orders[id]
      /\ book' \subseteq book \cup {nextId}
      /\ book \subseteq OrderIds
      /\ \A id \in book : id < nextId /\ orders[id] \in Order
  BY SubmitOrderType DEF SubmitStep, SubmitOrder, Core, BrokerTypeOK, Known
<1>2. OrdersFollowActive'
  <2> SUFFICES ASSUME CloseOnRoll, NEW id \in book', IsOpen(orders'[id])
               PROVE  orders'[id].contract = active'[orders'[id].sym]
    BY DEF OrdersFollowActive
  <2>1. CASE id = nextId
    BY <1>1, <2>1
  <2>2. CASE id # nextId
    <3>1. /\ id \in book /\ orders'[id] = orders[id] /\ orders[id] \in Order
      BY <1>1, <2>2
    <3>2. orders[id].contract = active[orders[id].sym]
      BY <3>1 DEF OrdersFollowActive
    <3>3. orders[id].sym \in Symbols /\ active[orders[id].sym] # NoContract
      BY <3>1, <3>2, RuntimeConfig DEF Order
    <3> QED
      BY <3>1, <3>2, <3>3 DEF ActiveKept
  <2> QED
    BY <2>1, <2>2
<1>3. NoStrandedPosition'
  <2> SUFFICES ASSUME CloseOnRoll, NEW k \in Keys, positions'[k] > 0
               PROVE  k[2] = active'[k[1]]
    BY DEF NoStrandedPosition
  <2>1. CASE positions[k] > 0
    <3>1. k[2] = active[k[1]] /\ k[2] \in Contracts /\ k[1] \in Symbols
      BY <2>1 DEF NoStrandedPosition, Keys
    <3> QED
      BY <3>1, RuntimeConfig DEF ActiveKept
  <2>2. CASE ~(positions[k] > 0)
    <3>1. positions[k] \in Nat /\ positions'[k] \in Nat
      BY SubmitCore DEF Core, PathTypeOK
    <3>2. k = KeyOf(o) /\ IsOpen(o)
      BY <2>2, <3>1, SubmitPositions
    <3> QED
      BY <3>2, KeyOfType
  <2> QED
    BY <2>1, <2>2
<1> QED
  BY <1>2, <1>3

(***************************************************************************)
(* The actions of the lifecycle poll.                                      *)
(***************************************************************************)

\* Orders leave the book and the contexts together.
LEMMA CancelCore ==
  ASSUME Core, NEW ids, CancelOrders(ids), ctx' = ctx \ ids,
         reported' \in [OrderIds -> Nat], endings' \in [OrderIds -> Nat],
         tick' \in {tick, tick + 1}, updates' \subseteq updates,
         UNCHANGED <<ctxFilled, keyTick, keys, orderTick, positions, orderedAt>>
  PROVE  /\ Core'
         /\ book' \subseteq book /\ orders' = orders
<1> USE DEF Core
<1>1. book' = book \ ids /\ orders' = orders /\ nextId' = nextId
  BY DEF CancelOrders
<1>2. BrokerTypeOK'
  BY CancelType
<1>3. tick \in Nat /\ tick' \in Nat /\ keyTick \in Nat
  BY DEF PathTypeOK
<1>4. PathTypeOK'
  BY <1>3 DEF PathTypeOK
<1>5. Known' /\ NoOrphanOrder'
  BY <1>1 DEF Known, NoOrphanOrder
<1>6. NothingDropped'
  BY <1>1, <1>3 DEF NothingDropped
<1> QED
  BY <1>1, <1>2, <1>4, <1>5, <1>6

\* Orders that only leave the book, with all else of Hold unchanged.
LEMMA FewerOrdersHold ==
  ASSUME Hold, book' \cup updates' \subseteq book \cup updates,
         UNCHANGED <<orders, active, cooldownUntil, rejectTicks, haltUntil, positions>>
  PROVE  Hold'
BY DEF Hold, HoldTypeOK, OrdersFollowActive, NoStrandedPosition

LEMMA ExpireStep ==
  ASSUME IInv, ExpirePendingOrders
  PROVE  IInv'
<1> USE DEF IInv, ExpirePendingOrders
<1>1. /\ reported' \in [OrderIds -> Nat]
      /\ endings' \in [OrderIds -> Nat]
  BY DEF Core, PathTypeOK
<1>2. Core' /\ book' \subseteq book /\ orders' = orders
  BY <1>1, CancelCore DEF guardVars
<1>3. Place'
  BY DEF Place, LoopTypeOK, UpdatesFresh, TodoHeld
<1>4. Hold'
  BY <1>2, FewerOrdersHold DEF guardVars, rollVars
<1> QED
  BY <1>2, <1>3, <1>4

LEMMA PollStep ==
  ASSUME IInv, PollBroker
  PROVE  IInv'
<1> USE DEF IInv, PollBroker, Core
<1>1. universeTick \in Nat
  BY DEF Place, LoopTypeOK
<1>2. /\ BrokerTypeOK'
      /\ book' \subseteq book
      /\ updates' \subseteq book
      /\ \A id \in updates' : status'[id] \in {"filled", "canceled"} => id \notin book'
  BY <1>1, PollType DEF Known, BrokerTypeOK
<1>3. /\ orders' = orders /\ nextId' = nextId
      /\ UNCHANGED <<tick, ctx, ctxFilled, keyTick, keys, orderTick, positions,
                     reported, endings, orderedAt>>
  BY DEF PollOrderUpdates, pendingVars, guardVars, journalVars
<1>4. PathTypeOK'
  BY <1>3 DEF PathTypeOK
<1>5. Known' /\ NothingDropped' /\ NoOrphanOrder'
  BY <1>2, <1>3 DEF Known, NothingDropped, NoOrphanOrder
<1>6. updates' \subseteq OrderIds
  BY <1>2 DEF BrokerTypeOK
<1>7. Place'
  BY <1>2, <1>3, <1>6 DEF Place, LoopTypeOK, UpdatesFresh, TodoHeld
<1>8. Hold'
  BY <1>2, <1>3, FewerOrdersHold DEF guardVars, rollVars
<1> QED
  BY <1>2, <1>4, <1>5, <1>7, <1>8

\* One update applied that concerns no position.
LEMMA ApplyCore ==
  ASSUME Core, NEW id \in OrderIds, NEW q \in Nat, NEW final, Report(id, q, final),
         ctx' \in {ctx, ctx \ {id}}, ctx' = ctx \/ id \notin book,
         ctxFilled' \in [OrderIds -> Nat], positions' \in [Keys -> Nat],
         tick' \in {tick, tick + 1}, updates' \subseteq updates,
         UNCHANGED <<brokerVars, keyTick, keys, orderTick, orderedAt>>
  PROVE  Core'
<1> USE DEF Core, brokerVars
<1>1. BrokerTypeOK'
  BY DEF BrokerTypeOK
<1>2. tick \in Nat /\ tick' \in Nat /\ keyTick \in Nat
  BY DEF PathTypeOK
<1>3. PathTypeOK'
  BY <1>2, ReportType DEF PathTypeOK
<1>4. Known' /\ NoOrphanOrder'
  BY DEF Known, NoOrphanOrder
<1>5. NothingDropped'
  BY <1>2 DEF NothingDropped
<1> QED
  BY <1>1, <1>3, <1>4, <1>5

\* An update is about an order that is known, and a final one about an order
\* that left the book.
LEMMA UpdateKnown ==
  ASSUME IInv, NEW id \in updates
  PROVE  /\ id \in OrderIds /\ orders[id] \in Order /\ filled[id] \in Nat
         /\ status[id] \in {"filled", "canceled"} => id \notin book
BY DEF IInv, Core, Known, Place, LoopTypeOK, UpdatesFresh, BrokerTypeOK

LEMMA ApplyPartialStep ==
  ASSUME IInv, NEW id \in OrderIds, ApplyPartial(id)
  PROVE  IInv'
<1> USE DEF IInv, ApplyPartial, guardVars, rollVars, brokerVars
<1>1. filled[id] \in Nat
  BY UpdateKnown
<1>2. ctxFilled' \in [OrderIds -> Nat]
  BY <1>1 DEF Core, PathTypeOK
<1>3. positions' \in [Keys -> Nat]
  BY DEF Core, PathTypeOK
<1>4. Core'
  BY <1>1, <1>2, <1>3, ApplyCore
<1>5. Place'
  BY DEF Place, LoopTypeOK, UpdatesFresh, TodoHeld
<1>6. Hold'
  BY FewerOrdersHold
<1> QED
  BY <1>4, <1>5, <1>6

LEMMA ApplyExpiryStep ==
  ASSUME IInv, NEW id \in OrderIds, ApplyExpiry(id)
  PROVE  IInv'
<1> USE DEF IInv, ApplyExpiry, guardVars, rollVars, brokerVars
<1>1. id \notin book
  BY UpdateKnown
<1>2. ctxFilled' \in [OrderIds -> Nat] /\ positions' \in [Keys -> Nat]
  BY DEF Core, PathTypeOK
<1>3. Core'
  BY <1>1, <1>2, ApplyCore
<1>4. Place'
  BY DEF Place, LoopTypeOK, UpdatesFresh, TodoHeld
<1>5. Hold'
  BY FewerOrdersHold
<1> QED
  BY <1>3, <1>4, <1>5

\* Where an exception leaves the tick, nothing of the tick is left.
LEMMA AbortPlace ==
  ASSUME LoopTypeOK, Abort
  PROVE  Place'
BY DEF Abort, NextLoop, Place, LoopTypeOK, UpdatesFresh, TodoHeld

LEMMA ApplyFillStep ==
  ASSUME IInv, NEW id \in OrderIds, ApplyFill(id)
  PROVE  IInv'
<1> USE DEF IInv, ApplyFill, guardVars, rollVars, brokerVars
<1>1. /\ orders[id] \in Order /\ filled[id] \in Nat /\ id \notin book
      /\ id \in updates
  BY UpdateKnown
<1>2. CASE Abort /\ UNCHANGED ctx
  <2>1. /\ ctxFilled' \in [OrderIds -> Nat] /\ positions' \in [Keys -> Nat]
        /\ UNCHANGED <<tick, positions>> /\ updates' = {}
    BY <1>2 DEF Core, PathTypeOK, Abort
  <2>2. Core'
    BY <1>1, <1>2, <2>1, ApplyCore
  <2>3. Place'
    BY <1>2, AbortPlace DEF Place
  <2>4. Hold'
    BY <2>1, FewerOrdersHold
  <2> QED
    BY <2>2, <2>3, <2>4
<1>3. CASE /\ ApplySucceeds(orders[id], filled[id])
           /\ positions' = Applied(positions, orders[id], filled[id])
           /\ ctx' = ctx \ {id}
           /\ updates' = updates \ {id}
           /\ Snapshot
           /\ UNCHANGED <<pc, loopTick, universeTick, unserved, todo>>
  <2> DEFINE o == orders[id]
  <2>1. PathTypeOK
    BY DEF Core
  <2>2. /\ positions' \in [Keys -> Nat]
        /\ \A k \in Keys : k # KeyOf(o) => positions'[k] = positions[k]
        /\ ~IsOpen(o) => positions'[KeyOf(o)] <= positions[KeyOf(o)]
    BY <1>1, <1>3, <2>1, AppliedType
  <2>3. ctxFilled' \in [OrderIds -> Nat]
    BY <2>1 DEF PathTypeOK
  <2>4. Core'
    BY <1>1, <1>3, <2>2, <2>3, ApplyCore DEF Snapshot
  <2>5. Place'
    BY <1>3 DEF Place, LoopTypeOK, UpdatesFresh, TodoHeld
  <2>6. OrdersFollowActive' /\ HoldTypeOK'
    BY <1>3 DEF Hold, HoldTypeOK, OrdersFollowActive
  <2>7. NoStrandedPosition'
    <3> SUFFICES ASSUME CloseOnRoll, NEW k \in Keys, positions'[k] > 0
                 PROVE  k[2] = active[k[1]]
      BY DEF NoStrandedPosition
    <3>1. CASE positions[k] > 0
      BY <3>1 DEF Hold, NoStrandedPosition
    <3>2. CASE ~(positions[k] > 0)
      <4>1. positions[k] \in Nat /\ positions'[k] \in Nat
        BY <2>1, <2>2 DEF PathTypeOK
      <4>2. k = KeyOf(o) /\ IsOpen(o)
        BY <3>2, <4>1, <2>2
      <4>3. o.contract = active[o.sym]
        BY <1>1, <4>2 DEF Hold, OrdersFollowActive
      <4> QED
        BY <1>1, <4>2, <4>3, KeyOfType
    <3> QED
      BY <3>1, <3>2
  <2> QED
    BY <2>4, <2>5, <2>6, <2>7 DEF Hold
<1> QED
  BY <1>2, <1>3

(***************************************************************************)
(* The actions of the decisions that place no order.                       *)
(***************************************************************************)

\* Resolving an instrument changes the active contract only where there is none.
LEMMA ResolveKept ==
  ASSUME Hold, universeTick \in Nat, NEW s \in Symbols, Resolve(s)
  PROVE  /\ active' \in [Symbols -> Contracts \cup {NoContract}]
         /\ active'[s] = Resolved(s)
         /\ ActiveKept
<1>1. Resolved(s) \in Contracts /\ active \in [Symbols -> Contracts \cup {NoContract}]
  BY ResolvedType DEF Hold, HoldTypeOK
<1>2. CloseOnRoll /\ active[s] # NoContract => Resolved(s) = active[s]
  BY DEF Resolved
<1> QED
  BY <1>1, <1>2 DEF Resolve, ActiveKept

\* Where no position and no order changes, a first contract may become active.
LEMMA SameHold ==
  ASSUME Core, Hold, HoldTypeOK', ActiveKept, updates = {}, updates' = {},
         UNCHANGED <<orders, book, positions>>
  PROVE  Hold'
<1>1. OrdersFollowActive'
  <2> SUFFICES ASSUME CloseOnRoll, NEW id \in book, IsOpen(orders[id])
               PROVE  orders[id].contract = active'[orders[id].sym]
    BY DEF OrdersFollowActive
  <2>1. orders[id].contract = active[orders[id].sym]
    BY DEF Hold, OrdersFollowActive
  <2>2. orders[id] \in Order
    BY DEF Core, Known, PathTypeOK, BrokerTypeOK
  <2> QED
    BY <2>1, <2>2, RuntimeConfig DEF Order, ActiveKept
<1>2. NoStrandedPosition'
  BY RuntimeConfig DEF Hold, NoStrandedPosition, ActiveKept, Keys
<1> QED
  BY <1>1, <1>2 DEF Hold

LEMMA CountType ==
  ASSUME HoldTypeOK, PathTypeOK, CountRejection
  PROVE  rejectTicks' \subseteq Nat /\ haltUntil' \in Nat
<1>1. tick \in Nat /\ rejectTicks \subseteq Nat /\ haltUntil \in Nat
  BY DEF HoldTypeOK, PathTypeOK
<1>2. tick + HaltTicks + 1 \in Nat
  BY <1>1, RuntimeConfig
<1> DEFINE window == IF RejectWindow > 0 THEN RejectWindow ELSE MaxRejects
           recent == {t \in rejectTicks \cup {tick} : tick - t < window}
<1>3. recent \subseteq Nat
  BY <1>1
<1>4. \/ UNCHANGED <<rejectTicks, haltUntil>>
      \/ rejectTicks' = {} /\ haltUntil' = tick + HaltTicks + 1
      \/ rejectTicks' = recent /\ UNCHANGED haltUntil
  BY DEF CountRejection
<1> QED
  BY <1>1, <1>2, <1>3, <1>4

LEMMA ServedPlace ==
  ASSUME Place, NEW s \in Symbols, Serve(s), Served(s), UNCHANGED positions
  PROVE  Place' /\ updates = {} /\ updates' = {} /\ todo = {} /\ todo' = {}
BY DEF Place, Serve, Served, LoopTypeOK, UpdatesFresh, TodoHeld

LEMMA ClosedMarketStep ==
  ASSUME IInv, NEW s \in Symbols, ClosedMarket(s)
  PROVE  IInv'
<1> USE DEF IInv, ClosedMarket
<1>1. QuietStep /\ Served(s) /\ updates' = updates
  BY DEF Skip, Served, QuietStep, Snapshot
<1>2. Place'
  BY <1>1, ServedPlace DEF QuietStep
<1>3. Hold'
  <2>1. UNCHANGED <<active, cooldownUntil, rejectTicks, haltUntil>>
    BY DEF Skip
  <2> QED
    BY <1>1, <2>1, FewerOrdersHold DEF QuietStep, brokerVars
<1> QED
  BY <1>1, <1>2, <1>3, QuietCore

\* A decision that only resolves its instrument, whatever the guards count.
LEMMA SkipStep ==
  ASSUME IInv, NEW s \in Symbols, Serve(s), Skip(s), Resolve(s),
         rejectTicks' \subseteq Nat, haltUntil' \in Nat
  PROVE  IInv'
<1> USE DEF IInv
<1>1. QuietStep /\ Served(s) /\ updates' = updates
  BY DEF Skip, Served, QuietStep, Snapshot
<1>2. Place' /\ updates = {} /\ updates' = {}
  BY <1>1, ServedPlace DEF QuietStep
<1>3. universeTick \in Nat
  BY DEF Place, LoopTypeOK
<1>4. cooldownUntil' = cooldownUntil
  BY DEF Skip
<1>5. ActiveKept /\ HoldTypeOK'
  BY <1>3, <1>4, ResolveKept DEF Hold, HoldTypeOK
<1>6. Hold'
  BY <1>1, <1>2, <1>5, SameHold DEF QuietStep, brokerVars
<1> QED
  BY <1>1, <1>2, <1>6, QuietCore

LEMMA NoOrderPlacedStep ==
  ASSUME IInv, NEW s \in Symbols, NoOrderPlaced(s)
  PROVE  IInv'
BY SkipStep DEF NoOrderPlaced, IInv, Hold, HoldTypeOK

LEMMA GuardRejectStep ==
  ASSUME IInv, NEW s \in Symbols, GuardReject(s)
  PROVE  IInv'
<1>1. rejectTicks' \subseteq Nat /\ haltUntil' \in Nat
  BY CountType DEF GuardReject, IInv, Hold, Core
<1> QED
  BY <1>1, SkipStep DEF GuardReject

(***************************************************************************)
(* The actions of a roll.                                                  *)
(***************************************************************************)

LEMMA RollCancelPendingStep ==
  ASSUME IInv, NEW s \in Symbols, RollCancelPending(s)
  PROVE  IInv'
<1> USE DEF IInv, RollCancelPending
<1>1. /\ reported' \in [OrderIds -> Nat]
      /\ endings' \in [OrderIds -> Nat]
  BY DEF Core, PathTypeOK
<1>2. updates' = updates
  BY DEF Served
<1>3. Core' /\ book' \subseteq book /\ orders' = orders
  BY <1>1, <1>2, CancelCore DEF guardVars, Snapshot
<1>4. Place'
  BY ServedPlace
<1>5. Hold'
  BY <1>2, <1>3, FewerOrdersHold DEF guardVars, rollVars
<1> QED
  BY <1>3, <1>4, <1>5

LEMMA RollBeginStep ==
  ASSUME IInv, NEW s \in Symbols, RollBegin(s)
  PROVE  IInv'
<1> USE DEF IInv, RollBegin, guardVars, rollVars
<1>1. QuietStep
  BY DEF QuietStep
<1>2. Core'
  BY <1>1, QuietCore
<1>3. Place'
  BY DEF Place, Serve, LoopTypeOK, UpdatesFresh, TodoHeld, OldPositions, brokerVars
<1>4. Hold'
  BY FewerOrdersHold DEF brokerVars
<1> QED
  BY <1>2, <1>3, <1>4

\* The roll changes the contract only when nothing of the symbol is in play.
LEMMA RollActivateStep ==
  ASSUME IInv, NEW s \in Symbols, RollActivate(s)
  PROVE  IInv'
<1> USE DEF IInv, RollActivate, guardVars
<1>1. QuietStep /\ updates' = updates
  BY DEF QuietStep, Snapshot, Served
<1>2. Core'
  BY <1>1, QuietCore
<1>3. Place' /\ updates = {}
  BY ServedPlace
<1>4. universeTick \in Nat /\ tick \in Nat
  BY DEF Place, LoopTypeOK, Core, PathTypeOK
<1>5. HoldTypeOK'
  <2>1. Desired(s) \in Contracts /\ tick + Cooldown \in Nat
    BY <1>4, DesiredType, RuntimeConfig
  <2> QED
    BY <2>1 DEF Hold, HoldTypeOK
<1>6. OrdersFollowActive'
  <2> SUFFICES ASSUME CloseOnRoll, NEW id \in book, IsOpen(orders[id])
               PROVE  orders[id].contract = active'[orders[id].sym]
    BY <1>3 DEF OrdersFollowActive, brokerVars, Served
  <2>1. orders[id].contract = active[orders[id].sym]
    BY DEF Hold, OrdersFollowActive
  <2>2. orders[id].sym # s
    BY DEF Core, NoOrphanOrder, Pending
  <2> QED
    BY <2>1, <2>2 DEF Hold, HoldTypeOK
<1>7. NoStrandedPosition'
  <2> SUFFICES ASSUME CloseOnRoll, NEW k \in Keys, positions[k] > 0
               PROVE  k[2] = active'[k[1]]
    BY DEF NoStrandedPosition
  <2>1. k[2] = active[k[1]]
    BY DEF Hold, NoStrandedPosition
  <2>2. k[1] # s
    BY <2>1 DEF OldPositions
  <2> QED
    BY <2>1, <2>2 DEF Hold, HoldTypeOK
<1> QED
  BY <1>2, <1>3, <1>5, <1>6, <1>7 DEF Hold

(***************************************************************************)
(* The actions that place orders.                                          *)
(***************************************************************************)

LEMMA OpenDecisionStep ==
  ASSUME IInv, NEW s \in Symbols, NEW p \in PositionSides, OpenDecision(s, p)
  PROVE  IInv'
<1> DEFINE o == OpenOrder(s, p)
<1>1. /\ Serve(s) /\ Resolve(s)
      /\ SubmitStep(o)
      /\ Served(s) \/ Abort
      /\ UNCHANGED <<rejectTicks, haltUntil, cooldownUntil>>
  BY DEF OpenDecision, SubmitAndRecord, SubmitStep, Abort
<1>2. universeTick \in Nat
  BY DEF IInv, Place, LoopTypeOK
<1>3. o \in Order /\ o.sym = s /\ o.contract = Resolved(s)
  BY <1>2, OpenOrderType DEF IInv, Hold
<1>4. ActiveKept /\ HoldTypeOK' /\ active'[s] = Resolved(s)
  BY <1>1, <1>2, ResolveKept DEF IInv, Hold, HoldTypeOK
<1>5. updates = {} /\ updates' = {} /\ todo = {}
  BY <1>1 DEF IInv, Place, UpdatesFresh, TodoHeld, Serve, Served, Abort
<1>6. Core'
  BY <1>1, <1>3, <1>5, SubmitCore DEF IInv
<1>7. Hold'
  BY <1>1, <1>3, <1>4, <1>5, SubmitHold DEF IInv
<1>8. Place'
  <2>1. CASE Served(s)
    BY <1>1, <1>5, <2>1 DEF IInv, Place, Serve, Served, LoopTypeOK, UpdatesFresh, TodoHeld
  <2>2. CASE Abort
    BY <2>2, AbortPlace DEF IInv, Place
  <2> QED
    BY <1>1, <2>1, <2>2
<1> QED
  BY <1>6, <1>7, <1>8 DEF IInv

\* One close of a loop over positions: the others the loop has still to visit
\* are as they were.
LEMMA CloseStep ==
  ASSUME IInv, NEW k \in todo, pc \in {"rollclose", "exit"},
         SubmitStep(CloseOrder(k)),
         UNCHANGED <<rejectTicks, haltUntil, cooldownUntil, active>>,
         \/ Abort
         \/ /\ todo' = todo \ {k}
            /\ pc' = pc \/ (pc' = "route" /\ todo = {k})
            /\ UNCHANGED <<loopTick, universeTick, unserved, updates>>
  PROVE  IInv'
<1> DEFINE o == CloseOrder(k)
<1>1. k \in Keys /\ positions[k] > 0 /\ updates = {}
  BY DEF IInv, Place, LoopTypeOK, UpdatesFresh, TodoHeld
<1>2. o \in Order /\ KeyOf(o) = k /\ ~IsOpen(o)
  BY <1>1, CloseOrderType DEF IInv, Core
<1>3. updates' = {}
  BY <1>1 DEF Abort
<1>4. Core'
  BY <1>2, <1>3, SubmitCore DEF IInv
<1>5. HoldTypeOK' /\ ActiveKept
  BY DEF IInv, Hold, HoldTypeOK, ActiveKept
<1>6. Hold'
  BY <1>1, <1>2, <1>3, <1>5, SubmitHold DEF IInv
<1>7. Place'
  <2>1. CASE Abort
    BY <2>1, AbortPlace DEF IInv, Place
  <2>2. CASE /\ todo' = todo \ {k}
             /\ pc' = pc \/ (pc' = "route" /\ todo = {k})
             /\ UNCHANGED <<loopTick, universeTick, unserved, updates>>
    <3>1. \A j \in Keys : j # k => positions'[j] = positions[j]
      BY <1>2, SubmitPositions DEF IInv
    <3>2. TodoHeld'
      BY <2>2, <3>1 DEF IInv, Place, LoopTypeOK, TodoHeld
    <3>3. LoopTypeOK' /\ UpdatesFresh'
      BY <1>3, <2>2 DEF IInv, Place, LoopTypeOK, UpdatesFresh
    <3> QED
      BY <3>2, <3>3 DEF Place
  <2> QED
    BY <2>1, <2>2
<1> QED
  BY <1>4, <1>6, <1>7 DEF IInv

LEMMA RollCloseOneStep ==
  ASSUME IInv, NEW k \in Keys, RollCloseOne(k)
  PROVE  IInv'
<1>1. k \in todo /\ pc = "rollclose"
  BY DEF RollCloseOne
<1>2. /\ SubmitStep(CloseOrder(k))
      /\ UNCHANGED <<rejectTicks, haltUntil, cooldownUntil, active>>
      /\ \/ Abort
         \/ /\ todo' = todo \ {k}
            /\ pc' = pc \/ (pc' = "route" /\ todo = {k})
            /\ UNCHANGED <<loopTick, universeTick, unserved, updates>>
  BY DEF RollCloseOne, SubmitAndRecord, SubmitStep, Abort
<1> QED
  BY <1>1, <1>2, CloseStep

LEMMA ExitPositionStep ==
  ASSUME IInv, NEW k \in Keys, ExitPosition(k)
  PROVE  IInv'
<1>1. k \in todo /\ pc = "exit"
  BY DEF ExitPosition
<1>2. /\ SubmitStep(CloseOrder(k))
      /\ UNCHANGED <<rejectTicks, haltUntil, cooldownUntil, active>>
      /\ \/ Abort
         \/ /\ todo' = todo \ {k}
            /\ pc' = pc \/ (pc' = "route" /\ todo = {k})
            /\ UNCHANGED <<loopTick, universeTick, unserved, updates>>
  BY DEF ExitPosition, SubmitAndRecord, SubmitStep, Abort
<1> QED
  BY <1>1, <1>2, CloseStep

(***************************************************************************)
(* Steps between the parts of the tick.                                    *)
(***************************************************************************)

LEMMA TurnStep ==
  ASSUME IInv, BeginDecisions \/ FinishDecisions \/ EndTick
  PROVE  IInv'
<1> USE DEF IInv, BeginDecisions, FinishDecisions, EndTick, guardVars, rollVars
<1>1. QuietStep /\ updates' = updates
  BY DEF QuietStep
<1>2. Core'
  BY <1>1, QuietCore
<1>3. Hold'
  BY <1>1, FewerOrdersHold DEF QuietStep, brokerVars
<1>4. Place'
  BY DEF Place, LoopTypeOK, UpdatesFresh, TodoHeld, NextLoop, brokerVars
<1> QED
  BY <1>2, <1>3, <1>4

LEMMA StutterStep ==
  ASSUME IInv, UNCHANGED vars
  PROVE  IInv'
<1> USE DEF IInv, vars, brokerVars, loopVars, pendingVars, guardVars, rollVars, journalVars
<1>1. QuietStep /\ updates' = updates
  BY DEF QuietStep
<1>2. Core'
  BY <1>1, QuietCore
<1>3. Hold'
  BY FewerOrdersHold
<1>4. Place'
  BY DEF Place, LoopTypeOK, UpdatesFresh, TodoHeld
<1> QED
  BY <1>2, <1>3, <1>4

LEMMA InitIInv == Init => IInv
<1> SUFFICES ASSUME Init PROVE IInv
  OBVIOUS
<1> USE DEF Init
<1>1. BrokerTypeOK
  BY BrokerConfig DEF BrokerTypeOK, BrokerInit, OrderStatus
<1>2. PathTypeOK /\ NoOrphanOrder
  BY DEF PathTypeOK, NoOrphanOrder, BrokerInit
<1>3. Known /\ NothingDropped
  BY BrokerConfig DEF Known, NothingDropped, BrokerInit, OrderIds
<1>4. Place
  BY DEF Place, LoopTypeOK, UpdatesFresh, TodoHeld
<1>5. HoldTypeOK /\ OrdersFollowActive /\ NoStrandedPosition
  BY DEF HoldTypeOK, OrdersFollowActive, NoStrandedPosition, BrokerInit
<1> QED
  BY <1>1, <1>2, <1>3, <1>4, <1>5 DEF IInv, Core, Hold

LEMMA NextIInv == IInv /\ [Next]_vars => IInv'
<1> SUFFICES ASSUME IInv, [Next]_vars PROVE IInv'
  OBVIOUS
<1>1. CASE Lifecycle
  BY <1>1, ExpireStep, PollStep, ApplyPartialStep, ApplyFillStep, ApplyExpiryStep,
     TurnStep DEF Lifecycle
<1>2. CASE Decide
  BY <1>2, ClosedMarketStep, NoOrderPlacedStep, GuardRejectStep, OpenDecisionStep,
     RollCancelPendingStep, RollBeginStep, RollActivateStep DEF Decide
<1>3. CASE Closing
  BY <1>3, RollCloseOneStep, ExitPositionStep DEF Closing
<1>4. CASE FinishDecisions \/ EndTick
  BY <1>4, TurnStep
<1>5. CASE Finished \/ UNCHANGED vars
  BY <1>5, StutterStep DEF Finished
<1> QED
  BY <1>1, <1>2, <1>3, <1>4, <1>5 DEF Next

LEMMA SpecIInv == Spec => []IInv
BY InitIInv, NextIInv, PTL DEF Spec

(***************************************************************************)
(* The theorems.                                                           *)
(***************************************************************************)

\* Whatever is configured, every variable keeps its type; in particular no
\* position of PortfolioState ever has a negative quantity.
THEOREM RuntimeTypeCorrect == Spec => []TypeOK
<1>1. IInv => TypeOK
  BY DEF IInv, Core, Place, Hold, TypeOK
<1> QED
  BY <1>1, SpecIInv, PTL

\* The runtime has a pending context for every order the broker works, whatever
\* delays, partial fills, expiries, rolls and raised exceptions intervene.
THEOREM RuntimeNoOrphanOrder == Spec => []NoOrphanOrder
<1>1. IInv => NoOrphanOrder
  BY DEF IInv, Core
<1> QED
  BY <1>1, SpecIInv, PTL

\* Under roll policy B no position is ever held in a contract other than the
\* active one of its symbol.
THEOREM RuntimeNoStrandedPosition == Spec => []NoStrandedPosition
<1>1. IInv => NoStrandedPosition
  BY DEF IInv, Hold
<1> QED
  BY <1>1, SpecIInv, PTL

(***************************************************************************)
(* Part 3: the guards.  The inductive invariant.                           *)
(***************************************************************************)

\* Nothing is dated after the current snapshot; unless an exception was raised,
\* every order was followed by one.
Dated ==
  /\ \A id \in Issued : orderedAt[id] <= tick
  /\ keyTick <= tick
  /\ Settled => \A id \in Issued : orderedAt[id] < tick

\* The duplicate guard knows the key of every accepted order of this tick.
KeysOfTick ==
  \A id \in Accepted :
    orderedAt[id] = tick => keyTick = tick /\ OrderKey(orders[id]) \in keys

\* The rate limit knows the last accepted order of each symbol, also when that
\* one was dropped as a duplicate and not recorded.
LastOrders ==
  /\ \A id \in Accepted : orderedAt[id] <= orderTick[orders[id].sym]
  /\ \A key \in keys : keyTick <= orderTick[key[1]]

History == Dated /\ KeysOfTick /\ LastOrders

Quiet ==
  /\ OpeningsSpaced /\ HaltIsQuiet /\ CooldownIsQuiet
  /\ OneOpeningPerTick /\ OneWorkingOpening

GInv == IInv /\ BrokerIInv /\ History /\ Quiet

(***************************************************************************)
(* Steps that submit nothing.                                              *)
(***************************************************************************)

\* The history of orders and what the guards remember of it stay as they are;
\* orders may only end.
Resting ==
  /\ UNCHANGED <<nextId, orders, orderedAt, keyTick, keys, orderTick>>
  /\ tick' \in {tick, tick + 1}
  /\ book' \subseteq book
  /\ \A id \in OrderIds : status[id] = "rejected" => status'[id] = "rejected"
  /\ Settled' => Settled

\* The ids issued are numbers, and each has its order.
LEMMA IssuedType ==
  ASSUME IInv
  PROVE  /\ tick \in Nat /\ keyTick \in Nat /\ haltUntil \in Nat
         /\ nextId \in Nat
         /\ \A id \in Issued :
              /\ id \in OrderIds /\ id \in Nat /\ id < nextId
              /\ orders[id] \in Order /\ orders[id].sym \in Symbols
              /\ orderedAt[id] \in Nat
         /\ \A s \in Symbols : orderTick[s] \in Int /\ cooldownUntil[s] \in Nat
         /\ MinInterval \in Nat /\ HaltTicks \in Nat /\ Cooldown \in Nat
<1>1. MaxOrders \in Nat /\ \A id \in OrderIds : id \in Nat
  BY BrokerConfig DEF OrderIds
<1>2. nextId \in Nat /\ tick \in Nat /\ keyTick \in Nat /\ haltUntil \in Nat
  BY <1>1 DEF IInv, Core, Hold, PathTypeOK, BrokerTypeOK, HoldTypeOK
<1>3. ASSUME NEW id \in Issued
      PROVE  /\ id \in OrderIds /\ id \in Nat /\ id < nextId
             /\ orders[id] \in Order /\ orderedAt[id] \in Nat
  BY <1>1 DEF IInv, Core, PathTypeOK, Known, Issued
<1>4. \A o \in Order : o.sym \in Symbols
  BY DEF Order
<1>5. ASSUME NEW s \in Symbols
      PROVE  orderTick[s] \in Int /\ cooldownUntil[s] \in Nat
  BY DEF IInv, Core, Hold, PathTypeOK, HoldTypeOK
<1> QED
  BY <1>2, <1>3, <1>4, <1>5, RuntimeConfig

LEMMA RestingHistory ==
  ASSUME IInv, History, Resting
  PROVE  History'
<1> USE DEF Resting
<1>1. Issued' = Issued /\ Accepted' \subseteq Accepted
  BY DEF Issued, Accepted
<1>2. /\ tick \in Nat /\ keyTick \in Nat /\ \A id \in Issued : orderedAt[id] \in Nat
  BY IssuedType
<1>3. Dated'
  BY <1>1, <1>2 DEF History, Dated
<1>4. KeysOfTick'
  <2> SUFFICES ASSUME NEW id \in Accepted', orderedAt[id] = tick'
               PROVE  keyTick = tick' /\ OrderKey(orders[id]) \in keys
    BY DEF KeysOfTick, OrderKey
  <2>1. id \in Accepted /\ id \in Issued
    BY <1>1 DEF Accepted
  <2>2. tick' = tick
    BY <1>2, <2>1 DEF History, Dated
  <2> QED
    BY <2>1, <2>2 DEF History, KeysOfTick
<1>5. LastOrders'
  BY <1>1 DEF History, LastOrders
<1> QED
  BY <1>3, <1>4, <1>5 DEF History

\* A halt that begins covers only snapshots to come, and so does a cooldown once
\* every order is behind the clock.
LEMMA RestingQuiet ==
  ASSUME IInv, History, Quiet, Resting,
         haltUntil' \in {haltUntil, tick + HaltTicks + 1},
         \A s \in Symbols : cooldownUntil'[s] \in {cooldownUntil[s], tick + Cooldown}
  PROVE  Quiet'
<1> USE DEF Resting
<1>1. /\ Accepted' \subseteq Accepted /\ Openings' \subseteq Openings
      /\ Openings \subseteq Accepted /\ Accepted \subseteq Issued
  BY DEF Issued, Accepted, Openings
<1>2. OpeningsSpaced' /\ OneOpeningPerTick' /\ OneWorkingOpening'
  BY <1>1 DEF Quiet, OpeningsSpaced, OneOpeningPerTick, OneWorkingOpening, OrderKey
<1>3. HaltIsQuiet'
  <2> SUFFICES ASSUME NEW id \in Openings
               PROVE  orderedAt[id] \notin (haltUntil' - HaltTicks)..(haltUntil' - 1)
    BY <1>1 DEF HaltIsQuiet
  <2>1. /\ orderedAt[id] \in Nat /\ orderedAt[id] <= tick
        /\ tick \in Nat /\ HaltTicks \in Nat /\ haltUntil \in Nat
    BY <1>1, IssuedType DEF History, Dated
  <2>2. CASE haltUntil' = haltUntil
    BY <2>2 DEF Quiet, HaltIsQuiet
  <2>3. CASE haltUntil' = tick + HaltTicks + 1
    BY <2>1, <2>3
  <2> QED
    BY <2>2, <2>3
<1>4. CooldownIsQuiet'
  <2> SUFFICES ASSUME Settled', NEW id \in Openings,
                      orders[id].sym \notin ClosesForced
               PROVE  orderedAt[id] \notin
                        (cooldownUntil'[orders[id].sym] - Cooldown)..
                        (cooldownUntil'[orders[id].sym] - 1)
    BY <1>1 DEF CooldownIsQuiet
  <2> DEFINE s == orders[id].sym
  <2>1. /\ orderedAt[id] \in Nat /\ orderedAt[id] < tick /\ s \in Symbols
        /\ tick \in Nat /\ Cooldown \in Nat /\ cooldownUntil[s] \in Nat
    BY <1>1, IssuedType DEF History, Dated
  <2>2. CASE cooldownUntil'[s] = cooldownUntil[s]
    BY <2>2 DEF Quiet, CooldownIsQuiet
  <2>3. CASE cooldownUntil'[s] = tick + Cooldown
    BY <2>1, <2>3
  <2> QED
    BY <2>1, <2>2, <2>3
<1> QED
  BY <1>2, <1>3, <1>4 DEF Quiet

(***************************************************************************)
(* Steps that submit an order.                                             *)
(***************************************************************************)

\* What the guards let pass; an order that closes passes none of them.
GuardsPass(o) ==
  /\ ~Halted /\ ~CooldownBlocks(o.sym) /\ ~RateLimited(o.sym)
  /\ ~BlockedByPending(o) /\ ~IsDuplicate(o)

Placing(o) ==
  /\ SubmitStep(o)
  /\ IsOpen(o) => GuardsPass(o)
  /\ UNCHANGED <<haltUntil, cooldownUntil>>
  /\ Settled' => Settled /\ tick' = tick + 1

\* One id is issued and dated now, the others are untouched; the order is
\* either on record, under its key and as the last of its symbol, or it was
\* refused by the broker or as a duplicate, and a snapshot follows.
LEMMA PlacingEffect ==
  ASSUME IInv, NEW o \in Order, Placing(o)
  PROVE  /\ nextId \in OrderIds /\ nextId \notin Issued
         /\ Issued' = Issued \cup {nextId}
         /\ orders'[nextId] = o /\ orderedAt'[nextId] = tick
         /\ \A id \in Issued : /\ orders'[id] = orders[id]
                               /\ orderedAt'[id] = orderedAt[id]
                               /\ status'[id] = status[id]
         /\ book' \subseteq book \cup {nextId}
         /\ tick' \in {tick, tick + 1}
         /\ \/ /\ RememberKey(o)
               /\ orderTick' = [orderTick EXCEPT ![o.sym] = tick]
            \/ /\ IsDuplicate(o) \/ status'[nextId] = "rejected"
               /\ UNCHANGED <<keyTick, keys, orderTick>>
               /\ tick' = tick + 1
<1> USE DEF Placing, SubmitStep
<1>1. /\ nextId \in OrderIds /\ nextId' = nextId + 1 /\ nextId \in Nat
      /\ \A id \in OrderIds : id \in Nat
      /\ status'[nextId] = SubmitStatus(o)
      /\ book' \subseteq book \cup {nextId}
  BY BrokerConfig DEF SubmitOrder, OrderIds, IInv, Core, BrokerTypeOK
<1>2. /\ orders'[nextId] = o
      /\ \A id \in OrderIds : id # nextId =>
           orders'[id] = orders[id] /\ status'[id] = status[id]
  BY SubmitOrderType DEF IInv, Core
<1>3. /\ orderedAt'[nextId] = tick
      /\ \A id \in OrderIds : id # nextId => orderedAt'[id] = orderedAt[id]
  BY <1>1 DEF IInv, Core, PathTypeOK
<1>4. nextId \notin Issued /\ Issued' = Issued \cup {nextId} /\ Issued \subseteq OrderIds
  <2>1. \A id \in OrderIds : id < nextId + 1 <=> (id < nextId \/ id = nextId)
    BY <1>1
  <2>2. Issued' = {id \in OrderIds : id < nextId + 1}
    BY <1>1 DEF Issued
  <2>3. ~(nextId < nextId)
    BY <1>1
  <2> QED
    BY ONLY <1>1, <2>1, <2>2, <2>3 DEF Issued
<1>5. CASE RecordRefused(o)
  BY <1>1, <1>2, <1>3, <1>4, <1>5 DEF RecordRefused, Snapshot
<1>6. CASE RecordPending(o)
  BY <1>1, <1>2, <1>3, <1>4, <1>6 DEF RecordPending, Snapshot
<1>7. CASE RecordFill(o) /\ tick' \in {tick, tick + 1}
  BY <1>1, <1>2, <1>3, <1>4, <1>7 DEF RecordFill
<1> QED
  BY <1>5, <1>6, <1>7 DEF ApplyFillNow, Snapshot

LEMMA PlacingDated ==
  ASSUME IInv, History, NEW o \in Order, Placing(o)
  PROVE  Dated'
<1>1. /\ tick \in Nat /\ keyTick \in Nat /\ tick' \in {tick, tick + 1}
      /\ \A id \in Issued : orderedAt[id] \in Nat
  BY IssuedType, PlacingEffect
<1>2. \A id \in Issued' : orderedAt'[id] <= tick
  BY <1>1, PlacingEffect DEF History, Dated
<1>3. \A id \in Issued' : orderedAt'[id] \in Nat
  BY <1>1, PlacingEffect
<1>4. keyTick' <= tick
  BY <1>1, PlacingEffect DEF History, Dated, RememberKey
<1>5. keyTick' \in Nat
  BY <1>1, PlacingEffect DEF RememberKey
<1>6. Settled' => tick' = tick + 1
  BY DEF Placing
<1> QED
  BY <1>1, <1>2, <1>3, <1>4, <1>5, <1>6 DEF Dated

LEMMA PlacingKeys ==
  ASSUME IInv, History, NEW o \in Order, Placing(o)
  PROVE  KeysOfTick'
<1> SUFFICES ASSUME NEW id \in Accepted', orderedAt'[id] = tick'
             PROVE  keyTick' = tick' /\ OrderKey(orders'[id]) \in keys'
  BY DEF KeysOfTick, OrderKey
<1>1. id \in Issued' /\ tick \in Nat /\ tick' \in {tick, tick + 1}
  BY IssuedType, PlacingEffect DEF Accepted
<1>2. orderedAt'[id] \in Nat /\ orderedAt'[id] <= tick
  BY <1>1, IssuedType, PlacingEffect DEF History, Dated
<1>3. tick' = tick
  BY <1>1, <1>2
<1>4. RememberKey(o)
  BY <1>1, <1>3, PlacingEffect
<1>5. CASE id = nextId
  BY <1>3, <1>4, <1>5, PlacingEffect DEF RememberKey
<1>6. CASE id # nextId
  <2>1. id \in Issued /\ status'[id] = status[id] /\ orderedAt'[id] = orderedAt[id]
        /\ orders'[id] = orders[id]
    BY <1>1, <1>6, PlacingEffect
  <2>2. id \in Accepted
    BY <2>1 DEF Accepted
  <2>3. keyTick = tick /\ OrderKey(orders[id]) \in keys
    BY <1>3, <2>1, <2>2 DEF History, KeysOfTick
  <2> QED
    BY <1>3, <1>4, <2>1, <2>3 DEF RememberKey
<1> QED
  BY <1>5, <1>6

LEMMA PlacingLast ==
  ASSUME IInv, History, NEW o \in Order, Placing(o)
  PROVE  LastOrders'
<1>1. /\ tick \in Nat /\ keyTick \in Nat /\ keyTick <= tick
      /\ o.sym \in Symbols
      /\ \A s \in Symbols : orderTick[s] \in Int
      /\ \A id \in Issued : orderedAt[id] \in Nat /\ orderedAt[id] <= tick
                            /\ orders[id].sym \in Symbols
  BY IssuedType DEF History, Dated, Order
<1>2. orderTick \in [Symbols -> Nat \cup {-1}]
  BY DEF IInv, Core, PathTypeOK
<1>3. \A key \in keys : key[1] \in Symbols
  BY DEF IInv, Core, PathTypeOK
<1>4. OrderKey(o)[1] = o.sym
  BY DEF OrderKey
<1>5. CASE RememberKey(o) /\ orderTick' = [orderTick EXCEPT ![o.sym] = tick]
  <2>1. orderTick'[o.sym] = tick
        /\ \A s \in Symbols : s # o.sym => orderTick'[s] = orderTick[s]
    BY <1>1, <1>2, <1>5
  <2>2. ASSUME NEW id \in Accepted'
        PROVE  orderedAt'[id] <= orderTick'[orders'[id].sym]
    <3>1. id \in Issued'
      BY DEF Accepted
    <3>2. CASE id = nextId
      BY <1>1, <2>1, <3>2, PlacingEffect
    <3>3. CASE id # nextId
      <4>1. id \in Issued /\ status'[id] = status[id] /\ orderedAt'[id] = orderedAt[id]
            /\ orders'[id] = orders[id]
        BY <3>1, <3>3, PlacingEffect
      <4>2. id \in Accepted
        BY <4>1 DEF Accepted
      <4> QED
        BY <1>1, <2>1, <4>1, <4>2 DEF History, LastOrders
    <3> QED
      BY <3>2, <3>3
  <2>3. ASSUME NEW key \in keys'
        PROVE  keyTick' <= orderTick'[key[1]]
    <3>1. keyTick' = tick
      BY <1>5 DEF RememberKey
    <3>2. key = OrderKey(o) \/ (key \in keys /\ keyTick = tick)
      BY <1>5 DEF RememberKey
    <3>3. CASE key = OrderKey(o)
      BY <1>1, <1>4, <2>1, <3>1, <3>3
    <3>4. CASE key \in keys /\ keyTick = tick
      <4>1. keyTick <= orderTick[key[1]] /\ key[1] \in Symbols
        BY <1>3, <3>4 DEF History, LastOrders
      <4> QED
        BY <1>1, <2>1, <3>1, <3>4, <4>1
    <3> QED
      BY <3>2, <3>3, <3>4
  <2> QED
    BY <2>2, <2>3 DEF LastOrders
<1>6. CASE /\ IsDuplicate(o) \/ status'[nextId] = "rejected"
           /\ UNCHANGED <<keyTick, keys, orderTick>>
  <2>1. ASSUME NEW id \in Accepted'
        PROVE  orderedAt'[id] <= orderTick[orders'[id].sym]
    <3>1. id \in Issued' /\ status'[id] # "rejected"
      BY DEF Accepted
    <3>2. CASE id = nextId
      <4>1. keyTick = tick /\ OrderKey(o) \in keys
        BY <1>6, <3>1, <3>2 DEF IsDuplicate
      <4> QED
        BY <1>4, <3>2, <4>1, PlacingEffect DEF History, LastOrders
    <3>3. CASE id # nextId
      <4>1. id \in Issued /\ status'[id] = status[id] /\ orderedAt'[id] = orderedAt[id]
            /\ orders'[id] = orders[id]
        BY <3>1, <3>3, PlacingEffect
      <4>2. id \in Accepted
        BY <4>1 DEF Accepted
      <4> QED
        BY <4>1, <4>2 DEF History, LastOrders
    <3> QED
      BY <3>2, <3>3
  <2> QED
    BY <1>6, <2>1 DEF History, LastOrders
<1> QED
  BY <1>5, <1>6, PlacingEffect

\* The guard reads the last order of the symbol: the new opening is far enough
\* from every accepted one.
LEMMA PlacingSpaced ==
  ASSUME IInv, History, Quiet, NEW o \in Order, Placing(o)
  PROVE  OpeningsSpaced'
<1> SUFFICES ASSUME MinInterval > 0, NEW a \in Accepted', NEW b \in Openings',
                    a < b, orders'[a].sym = orders'[b].sym
             PROVE  orderedAt'[b] - orderedAt'[a] >= MinInterval
  BY DEF OpeningsSpaced
<1>1. a \in Issued' /\ b \in Issued' /\ b \in Accepted' /\ IsOpen(orders'[b])
  BY DEF Openings, Accepted, IsOpen
<1>2. \A id \in Issued : id < nextId /\ id \in Nat
  BY IssuedType
<1>3. nextId \in Nat /\ MinInterval \in Nat /\ tick \in Nat
  BY IssuedType
<1>4. a # nextId
  BY <1>1, <1>2, <1>3, PlacingEffect
<1>5. a \in Issued /\ a \in Accepted
  BY <1>1, <1>4, PlacingEffect DEF Accepted
<1>6. CASE b = nextId
  <2>1. IsOpen(o) /\ ~RateLimited(o.sym)
    BY <1>1, <1>6, PlacingEffect DEF Placing, GuardsPass, IsOpen
  <2>2. /\ orderedAt[a] \in Nat /\ orderTick[o.sym] \in Int
        /\ orderedAt[a] <= orderTick[o.sym]
    BY <1>4, <1>5, <1>6, IssuedType, PlacingEffect DEF History, LastOrders, Order
  <2>3. tick - orderTick[o.sym] >= MinInterval
    BY <1>3, <2>1, <2>2 DEF RateLimited
  <2>4. tick - orderedAt[a] >= MinInterval
    BY <1>3, <2>2, <2>3
  <2> QED
    BY <1>4, <1>5, <1>6, <2>4, PlacingEffect
<1>7. CASE b # nextId
  <2>1. b \in Issued /\ b \in Openings
    BY <1>1, <1>7, PlacingEffect DEF Openings, Accepted, IsOpen
  <2> QED
    BY <1>5, <2>1, PlacingEffect DEF Quiet, OpeningsSpaced
<1> QED
  BY <1>6, <1>7

LEMMA PlacingHalt ==
  ASSUME IInv, History, Quiet, NEW o \in Order, Placing(o)
  PROVE  HaltIsQuiet'
<1> SUFFICES ASSUME NEW id \in Openings'
             PROVE  orderedAt'[id] \notin (haltUntil - HaltTicks)..(haltUntil - 1)
  BY DEF HaltIsQuiet, Placing
<1>1. id \in Issued' /\ IsOpen(orders'[id])
  BY DEF Openings, Accepted, IsOpen
<1>2. tick \in Nat /\ haltUntil \in Nat
  BY IssuedType
<1>3. CASE id = nextId
  <2>1. ~Halted
    BY <1>1, <1>3, PlacingEffect DEF Placing, GuardsPass, IsOpen
  <2> QED
    BY <1>2, <1>3, <2>1, PlacingEffect DEF Halted
<1>4. CASE id # nextId
  <2>1. id \in Openings /\ id \in Issued
    BY <1>1, <1>4, PlacingEffect DEF Openings, Accepted, IsOpen
  <2> QED
    BY <2>1, PlacingEffect DEF Quiet, HaltIsQuiet
<1> QED
  BY <1>3, <1>4

LEMMA PlacingCooldown ==
  ASSUME IInv, History, Quiet, NEW o \in Order, Placing(o)
  PROVE  CooldownIsQuiet'
<1> SUFFICES ASSUME Settled, NEW id \in Openings',
                    orders'[id].sym \notin ClosesForced
             PROVE  orderedAt'[id] \notin
                      (cooldownUntil[orders'[id].sym] - Cooldown)..
                      (cooldownUntil[orders'[id].sym] - 1)
  BY DEF CooldownIsQuiet, Placing
<1>1. id \in Issued' /\ IsOpen(orders'[id])
  BY DEF Openings, Accepted, IsOpen
<1>2. tick \in Nat /\ cooldownUntil[o.sym] \in Nat
  BY IssuedType DEF Order
<1>3. CASE id = nextId
  <2>1. ~CooldownActive(o.sym)
    BY <1>1, <1>3, PlacingEffect DEF Placing, GuardsPass, IsOpen, CooldownBlocks
  <2> QED
    BY <1>2, <1>3, <2>1, PlacingEffect DEF CooldownActive
<1>4. CASE id # nextId
  <2>1. id \in Openings /\ id \in Issued
    BY <1>1, <1>4, PlacingEffect DEF Openings, Accepted, IsOpen
  <2> QED
    BY <2>1, PlacingEffect DEF Quiet, CooldownIsQuiet
<1> QED
  BY <1>3, <1>4

\* The keys of this tick hold every opening dated now, and the contexts every
\* opening that works: the new one has a key and a context of its own.
LEMMA PlacingOnce ==
  ASSUME IInv, History, Quiet, NEW o \in Order, Placing(o)
  PROVE  OneOpeningPerTick' /\ OneWorkingOpening'
<1>1. \A id \in Issued : id \in Openings' => id \in Openings
  BY PlacingEffect DEF Openings, Accepted, IsOpen
<1>2. ASSUME NEW a \in Openings', a # nextId,
             nextId \in Openings', OrderKey(orders'[a]) = OrderKey(orders'[nextId])
      PROVE  orderedAt'[a] # orderedAt'[nextId]
  <2>1. a \in Issued /\ a \in Openings /\ a \in Accepted
    BY <1>1, <1>2, PlacingEffect DEF Openings, Accepted
  <2>2. ~IsDuplicate(o)
    BY <1>2, PlacingEffect DEF Openings, Placing, GuardsPass, IsOpen
  <2>3. ASSUME orderedAt[a] = tick
        PROVE  keyTick = tick /\ OrderKey(orders[a]) \in keys
    BY <2>1, <2>3 DEF History, KeysOfTick
  <2> QED
    BY <1>2, <2>1, <2>2, <2>3, PlacingEffect DEF IsDuplicate, OrderKey
<1>3. OneOpeningPerTick'
  <2> SUFFICES ASSUME NEW a \in Openings', NEW b \in Openings',
                      OrderKey(orders'[a]) = OrderKey(orders'[b]),
                      orderedAt'[a] = orderedAt'[b]
               PROVE  a = b
    BY DEF OneOpeningPerTick, OrderKey
  <2>1. a \in Issued' /\ b \in Issued'
    BY DEF Openings, Accepted
  <2>2. CASE a = nextId \/ b = nextId
    BY <1>2, <2>2
  <2>3. CASE a # nextId /\ b # nextId
    <3>1. a \in Issued /\ b \in Issued /\ a \in Openings /\ b \in Openings
      BY <1>1, <2>1, <2>3, PlacingEffect
    <3> QED
      BY <3>1, PlacingEffect DEF Quiet, OneOpeningPerTick, OrderKey
  <2> QED
    BY <2>2, <2>3
<1>4. book \subseteq Issued /\ book \subseteq ctx
  BY DEF IInv, Core, Known, NoOrphanOrder, BrokerTypeOK, Issued
<1>5. ASSUME NEW a \in book, IsOpen(o)
      PROVE  OrderKey(orders[a]) # OrderKey(o)
  BY <1>4, <1>5 DEF Placing, GuardsPass, BlockedByPending
<1>6. OneWorkingOpening'
  <2> SUFFICES ASSUME NEW a \in book', NEW b \in book', IsOpen(orders'[a]),
                      OrderKey(orders'[a]) = OrderKey(orders'[b])
               PROVE  a = b
    BY DEF OneWorkingOpening, OrderKey, IsOpen
  <2>1. a \in book \cup {nextId} /\ b \in book \cup {nextId}
    BY PlacingEffect
  <2>2. IsOpen(orders'[b])
    BY DEF OrderKey, IsOpen
  <2>3. CASE a = nextId \/ b = nextId
    BY <1>4, <1>5, <2>1, <2>2, <2>3, PlacingEffect
  <2>4. CASE a # nextId /\ b # nextId
    <3>1. /\ a \in book /\ b \in book
          /\ orders'[a] = orders[a] /\ orders'[b] = orders[b]
      BY <1>4, <2>1, <2>4, PlacingEffect
    <3> QED
      BY <3>1 DEF Quiet, OneWorkingOpening
  <2> QED
    BY <2>3, <2>4
<1> QED
  BY <1>3, <1>6

LEMMA PlacingGuarded ==
  ASSUME IInv, History, Quiet, NEW o \in Order, Placing(o)
  PROVE  History' /\ Quiet'
BY PlacingDated, PlacingKeys, PlacingLast, PlacingSpaced, PlacingHalt,
   PlacingCooldown, PlacingOnce DEF History, Quiet

(***************************************************************************)
(* What each step of the runtime does to its broker.                       *)
(***************************************************************************)

BrokerMoves ==
  \/ \E o \in Order : SubmitOrder(o)
  \/ \E t \in Nat : PollOrderUpdates(t)
  \/ \E ids \in SUBSET OrderIds : CancelOrders(ids)
  \/ UNCHANGED brokerVars

LEMMA OpenOrderProper ==
  ASSUME IInv, NEW s \in Symbols, NEW p \in PositionSides
  PROVE  OpenOrder(s, p) \in Order /\ OpenOrder(s, p).sym = s
BY OpenOrderType DEF IInv, Place, LoopTypeOK, Hold

LEMMA CloseOrderProper ==
  ASSUME IInv, NEW k \in todo
  PROVE  k \in Keys /\ CloseOrder(k) \in Order /\ ~IsOpen(CloseOrder(k))
BY CloseOrderType DEF IInv, Place, LoopTypeOK, TodoHeld, Core

LEMMA NextBrokerMoves ==
  ASSUME IInv, [Next]_vars
  PROVE  BrokerMoves
<1>1. ctx \subseteq OrderIds /\ universeTick \in Nat
  BY DEF IInv, Core, PathTypeOK, Place, LoopTypeOK
<1>2. CASE Lifecycle
  <2>1. CASE ExpirePendingOrders
    BY <1>1, <2>1 DEF ExpirePendingOrders, Expired, BrokerMoves
  <2>2. CASE PollBroker
    BY <1>1, <2>2 DEF PollBroker, BrokerMoves
  <2>3. CASE ~ExpirePendingOrders /\ ~PollBroker
    BY <1>2, <2>3 DEF Lifecycle, ApplyPartial, ApplyFill, ApplyExpiry, BeginDecisions,
       BrokerMoves
  <2> QED
    BY <2>1, <2>2, <2>3
<1>3. CASE Decide
  <2>1. PICK s \in Symbols :
          \/ ClosedMarket(s) \/ NoOrderPlaced(s) \/ GuardReject(s)
          \/ \E p \in PositionSides : OpenDecision(s, p)
          \/ RollCancelPending(s) \/ RollBegin(s) \/ RollActivate(s)
    BY <1>3 DEF Decide
  <2>2. ASSUME NEW p \in PositionSides, OpenDecision(s, p)
        PROVE  BrokerMoves
    BY <2>2, OpenOrderProper DEF OpenDecision, SubmitAndRecord, BrokerMoves
  <2>3. CASE RollCancelPending(s)
    BY <1>1, <2>3 DEF RollCancelPending, Pending, BrokerMoves
  <2>4. CASE ClosedMarket(s) \/ NoOrderPlaced(s) \/ GuardReject(s) \/ RollBegin(s)
             \/ RollActivate(s)
    BY <2>4 DEF ClosedMarket, NoOrderPlaced, GuardReject, RollBegin, RollActivate, Skip,
       BrokerMoves
  <2> QED
    BY <2>1, <2>2, <2>3, <2>4
<1>4. CASE Closing
  BY <1>4, CloseOrderProper
     DEF Closing, RollCloseOne, ExitPosition, SubmitAndRecord, BrokerMoves
<1>5. CASE FinishDecisions \/ EndTick \/ Finished \/ UNCHANGED vars
  BY <1>5 DEF FinishDecisions, EndTick, Finished, vars, BrokerMoves
<1> QED
  BY <1>2, <1>3, <1>4, <1>5 DEF Next

LEMMA BrokerMovesInv ==
  ASSUME BrokerIInv, BrokerMoves
  PROVE  BrokerIInv'
<1>1. CASE UNCHANGED brokerVars
  BY <1>1, BrokerStepInv
<1>2. CASE \E o \in Order : SubmitOrder(o)
  BY <1>2, SubmitInv
<1>3. CASE \E t \in Nat : PollOrderUpdates(t)
  BY <1>3, PollInv
<1>4. CASE \E ids \in SUBSET OrderIds : CancelOrders(ids)
  BY <1>4, CancelInv
<1> QED
  BY <1>1, <1>2, <1>3, <1>4 DEF BrokerMoves

LEMMA BrokerMovesMapped ==
  ASSUME BrokerIInv, BrokerMoves
  PROVE  [OrderBookOf!Next]_(OrderBookOf!orderVars)
<1>1. CASE UNCHANGED brokerVars
  BY <1>1, BrokerStepMoves
<1>2. CASE ~UNCHANGED brokerVars
  <2>1. \A id \in OrderIds : Move(id)
    BY <1>2, SubmitMoves, PollMoves, CancelMoves DEF BrokerMoves
  <2> QED
    BY <2>1 DEF Move, OrderBookOf!Next
<1> QED
  BY <1>1, <1>2

\* An order that was refused stays refused; what leaves the book does not return.
LEMMA BrokerRests ==
  ASSUME BrokerIInv, BrokerMoves, UNCHANGED nextId
  PROVE  /\ UNCHANGED orders
         /\ book' \subseteq book
         /\ \A id \in OrderIds : status[id] = "rejected" => status'[id] = "rejected"
<1>1. \A id \in book : status[id] # "rejected"
  BY DEF BrokerIInv, BookMatchesLedger
<1>2. CASE \E o \in Order : SubmitOrder(o)
  BY <1>2, BrokerConfig DEF SubmitOrder, OrderIds
<1>3. CASE \E t \in Nat : PollOrderUpdates(t)
  BY <1>1, <1>3 DEF PollOrderUpdates, Expiring, Stepping, Completing, Due
<1>4. CASE \E ids \in SUBSET OrderIds : CancelOrders(ids)
  BY <1>1, <1>4 DEF CancelOrders
<1>5. CASE UNCHANGED brokerVars
  BY <1>5 DEF brokerVars
<1> QED
  BY <1>2, <1>3, <1>4, <1>5 DEF BrokerMoves

(***************************************************************************)
(* Every step either rests or places one order.                            *)
(***************************************************************************)

RestingStep ==
  /\ Resting
  /\ haltUntil' \in {haltUntil, tick + HaltTicks + 1}
  /\ \A s \in Symbols : cooldownUntil'[s] \in {cooldownUntil[s], tick + Cooldown}

\* Recognising a step that rests.
LEMMA Rests ==
  ASSUME IInv, BrokerIInv, [Next]_vars,
         UNCHANGED <<nextId, orderedAt, keyTick, keys, orderTick>>,
         tick' \in {tick, tick + 1}, Settled' => Settled,
         haltUntil' \in {haltUntil, tick + HaltTicks + 1},
         \/ UNCHANGED cooldownUntil
         \/ \E s \in Symbols : cooldownUntil' = [cooldownUntil EXCEPT ![s] = tick + Cooldown]
  PROVE  RestingStep
<1>1. \A s \in Symbols : cooldownUntil'[s] \in {cooldownUntil[s], tick + Cooldown}
  BY DEF IInv, Hold, HoldTypeOK
<1> QED
  BY <1>1, NextBrokerMoves, BrokerRests DEF RestingStep, Resting

LEMMA LifecycleRests ==
  ASSUME IInv, BrokerIInv, Lifecycle
  PROVE  RestingStep
<1> USE DEF guardVars, rollVars, brokerVars, pendingVars, journalVars, Settled
<1>1. [Next]_vars
  BY DEF Next
<1>2. CASE ExpirePendingOrders
  BY <1>1, <1>2, Rests DEF ExpirePendingOrders, CancelOrders
<1>3. CASE PollBroker
  BY <1>1, <1>3, Rests DEF PollBroker, PollOrderUpdates
<1>4. CASE BeginDecisions
  BY <1>1, <1>4, Rests DEF BeginDecisions
<1>5. ASSUME NEW id \in OrderIds, ApplyPartial(id) \/ ApplyExpiry(id)
      PROVE  RestingStep
  BY <1>1, <1>5, Rests DEF ApplyPartial, ApplyExpiry
<1>6. ASSUME NEW id \in OrderIds, ApplyFill(id)
      PROVE  RestingStep
  BY <1>1, <1>6, Rests DEF ApplyFill, Abort, Snapshot
<1> QED
  BY <1>2, <1>3, <1>4, <1>5, <1>6 DEF Lifecycle

LEMMA TurnRests ==
  ASSUME IInv, BrokerIInv, FinishDecisions \/ EndTick \/ Finished \/ UNCHANGED vars
  PROVE  RestingStep
<1> USE DEF guardVars, rollVars, brokerVars, pendingVars, journalVars, Settled
<1>1. [Next]_vars
  BY DEF Next
<1>2. CASE FinishDecisions \/ EndTick
  BY <1>1, <1>2, Rests DEF FinishDecisions, EndTick
<1>3. CASE UNCHANGED vars
  BY <1>1, <1>3, Rests DEF vars, loopVars
<1> QED
  BY <1>2, <1>3 DEF Finished

\* The decisions that place no order.
LEMMA DecisionRests ==
  ASSUME IInv, BrokerIInv, NEW s \in Symbols,
         \/ ClosedMarket(s) \/ NoOrderPlaced(s) \/ GuardReject(s)
         \/ RollCancelPending(s) \/ RollBegin(s) \/ RollActivate(s)
  PROVE  RestingStep
<1> USE DEF guardVars, rollVars, brokerVars, pendingVars, journalVars, Settled
<1>1. [Next]_vars
  BY DEF Next, Decide
<1>2. CASE ClosedMarket(s) \/ NoOrderPlaced(s)
  BY <1>1, <1>2, Rests DEF ClosedMarket, NoOrderPlaced, Serve, Skip, Snapshot
<1>3. CASE GuardReject(s)
  <2>1. haltUntil' \in {haltUntil, tick + HaltTicks + 1}
    BY <1>3 DEF GuardReject, CountRejection
  <2> QED
    BY <1>1, <1>3, <2>1, Rests DEF GuardReject, Serve, Skip, Snapshot
<1>4. CASE RollCancelPending(s)
  BY <1>1, <1>4, Rests DEF RollCancelPending, CancelOrders, Serve, Snapshot
<1>5. CASE RollBegin(s)
  BY <1>1, <1>5, Rests DEF RollBegin, Serve
<1>6. CASE RollActivate(s)
  BY <1>1, <1>6, Rests DEF RollActivate, Serve, Snapshot
<1> QED
  BY <1>2, <1>3, <1>4, <1>5, <1>6

LEMMA OpenPlaces ==
  ASSUME IInv, NEW s \in Symbols, NEW p \in PositionSides, OpenDecision(s, p)
  PROVE  OpenOrder(s, p) \in Order /\ Placing(OpenOrder(s, p))
<1> DEFINE o == OpenOrder(s, p)
<1>1. o \in Order /\ o.sym = s
  BY OpenOrderProper
<1>2. SubmitStep(o) /\ UNCHANGED <<haltUntil, cooldownUntil>> /\ pc = "route"
  BY DEF OpenDecision, SubmitAndRecord, SubmitStep, Serve, Abort
<1>3. GuardsPass(o)
  BY <1>1 DEF OpenDecision, GuardsPass, OrderRefused
<1>4. Abort \/ tick' = tick + 1
  BY DEF OpenDecision, SubmitAndRecord, RecordRefused, RecordPending, ApplyFillNow, Snapshot
<1>5. Settled' => Settled /\ tick' = tick + 1
  BY <1>2, <1>4 DEF Settled, Abort
<1> QED
  BY <1>1, <1>2, <1>3, <1>5 DEF Placing

LEMMA ClosePlaces ==
  ASSUME IInv, NEW k \in Keys, RollCloseOne(k) \/ ExitPosition(k)
  PROVE  CloseOrder(k) \in Order /\ Placing(CloseOrder(k))
<1> DEFINE o == CloseOrder(k)
<1>1. o \in Order /\ ~IsOpen(o)
  BY CloseOrderProper DEF RollCloseOne, ExitPosition
<1>2. /\ SubmitStep(o) /\ UNCHANGED <<haltUntil, cooldownUntil>>
      /\ pc \in {"rollclose", "exit"}
  BY DEF RollCloseOne, ExitPosition, SubmitAndRecord, SubmitStep, Abort
<1>3. Abort \/ tick' = tick + 1
  BY DEF RollCloseOne, ExitPosition, SubmitAndRecord, RecordRefused, RecordPending,
     ApplyFillNow, Snapshot
<1>4. Settled' => Settled /\ tick' = tick + 1
  BY <1>2, <1>3 DEF Settled, Abort
<1> QED
  BY <1>1, <1>2, <1>4 DEF Placing

LEMMA NextRestsOrPlaces ==
  ASSUME IInv, BrokerIInv, [Next]_vars
  PROVE  RestingStep \/ \E o \in Order : Placing(o)
<1>1. CASE Lifecycle
  BY <1>1, LifecycleRests
<1>2. CASE Decide
  BY <1>2, DecisionRests, OpenPlaces DEF Decide
<1>3. CASE Closing
  BY <1>3, ClosePlaces DEF Closing
<1>4. CASE FinishDecisions \/ EndTick \/ Finished \/ UNCHANGED vars
  BY <1>4, TurnRests
<1> QED
  BY <1>1, <1>2, <1>3, <1>4 DEF Next

LEMMA InitGInv == Init => GInv
<1> SUFFICES ASSUME Init PROVE GInv
  OBVIOUS
<1>1. IInv /\ BrokerIInv
  BY InitIInv, BrokerInitInv DEF Init
<1>2. Issued = {}
  BY BrokerConfig DEF Init, BrokerInit, Issued, OrderIds
<1>3. History
  BY <1>2 DEF Init, History, Dated, KeysOfTick, LastOrders, Accepted
<1>4. Quiet
  BY <1>2 DEF Init, BrokerInit, Quiet, OpeningsSpaced, HaltIsQuiet, CooldownIsQuiet,
     OneOpeningPerTick, OneWorkingOpening, Openings, Accepted
<1> QED
  BY <1>1, <1>3, <1>4 DEF GInv

LEMMA NextGInv == GInv /\ [Next]_vars => GInv'
<1> SUFFICES ASSUME GInv, [Next]_vars PROVE GInv'
  OBVIOUS
<1>1. IInv' /\ BrokerIInv'
  BY NextIInv, NextBrokerMoves, BrokerMovesInv DEF GInv
<1>2. CASE RestingStep
  BY <1>1, <1>2, RestingHistory, RestingQuiet DEF GInv, RestingStep
<1>3. CASE \E o \in Order : Placing(o)
  BY <1>1, <1>3, PlacingGuarded DEF GInv
<1> QED
  BY <1>2, <1>3, NextRestsOrPlaces DEF GInv

LEMMA SpecGInv == Spec => []GInv
BY InitGInv, NextGInv, PTL DEF Spec

(***************************************************************************)
(* The theorems.                                                           *)
(***************************************************************************)

\* Inside the runtime too, whatever it submits, polls and cancels and in which
\* order, the broker's book holds exactly the orders its ledger shows working,
\* and no ledger entry shows more filled than was ordered.
THEOREM RuntimeLedgerSafe == Spec => [](BookMatchesLedger /\ FillsWithinOrder)
<1>1. GInv => BookMatchesLedger /\ FillsWithinOrder
  BY DEF GInv, BrokerIInv
<1> QED
  BY <1>1, SpecGInv, PTL

\* The runtime with its broker implements the order book: no step of the runtime
\* reuses an id, takes back an execution or revives an order that ended.
THEOREM RuntimeImplementsOrderBook == Spec => ImplementsOrderBook
<1>1. Init => OrderBookOf!Init
  BY BrokerInitMapped DEF Init
<1>2. GInv /\ [Next]_vars => [OrderBookOf!Next]_(OrderBookOf!orderVars)
  BY NextBrokerMoves, BrokerMovesMapped DEF GInv
<1> QED
  BY <1>1, <1>2, SpecGInv, PTL DEF Spec, ImplementsOrderBook, OrderBookOf!Spec

\* min_order_interval_ticks: an opening order comes at least that many snapshots
\* after any accepted order of its symbol, roll closes, exits and orders dropped
\* as duplicates included.
THEOREM RuntimeOpeningsSpaced == Spec => []OpeningsSpaced
<1>1. GInv => OpeningsSpaced
  BY DEF GInv, Quiet
<1> QED
  BY <1>1, SpecGInv, PTL

\* No opening order is dated inside the snapshots a halt covers.
THEOREM RuntimeHaltIsQuiet == Spec => []HaltIsQuiet
<1>1. GInv => HaltIsQuiet
  BY DEF GInv, Quiet
<1> QED
  BY <1>1, SpecGInv, PTL

\* While no exception was raised, no opening order of a symbol that no strategy
\* forces to CLOSE is dated inside the cooldown after its roll, whatever other
\* symbols are forced to.
THEOREM RuntimeCooldownIsQuiet == Spec => []CooldownIsQuiet
<1>1. GInv => CooldownIsQuiet
  BY DEF GInv, Quiet
<1> QED
  BY <1>1, SpecGInv, PTL

\* The duplicate guard lets one opening order per key and snapshot through, also
\* when a tick was aborted by an exception and tried again.
THEOREM RuntimeOneOpeningPerTick == Spec => []OneOpeningPerTick
<1>1. GInv => OneOpeningPerTick
  BY DEF GInv, Quiet
<1> QED
  BY <1>1, SpecGInv, PTL

\* Two opening orders of the same key never work at the broker together.
THEOREM RuntimeOneWorkingOpening == Spec => []OneWorkingOpening
<1>1. GInv => OneWorkingOpening
  BY DEF GInv, Quiet
<1> QED
  BY <1>1, SpecGInv, PTL

-------------------------------------------------------------------------------
(***************************************************************************)
(* Part 4: the books.  The inductive invariant.                            *)
(***************************************************************************)

\* What a poll reported: a partial fill of an order that still works, or an end.
UpdatesNew ==
  /\ \A id \in updates :
       /\ status[id] \in {"partially_filled", "filled", "canceled"}
       /\ status[id] = "partially_filled" => id \in book
       /\ status[id] = "canceled" => MaxTicksToFill > 0
  /\ ~Delayed => updates = {}

\* Without partial fills an order has all of its quantity or nothing.
WholeFills ==
  PartialRatio = RatioDen => \A id \in OrderIds :
    status[id] # "partially_filled" /\ (status[id] # "filled" => filled[id] = 0)

\* While no exception was raised the key of an order is older than the clock,
\* so that the duplicate guard drops nothing the broker accepted.
KeysBehind == Settled => keys = {} \/ keyTick < tick

\* A context knows what its order executed, but for the update about to come.
ContextsFilled ==
  Settled => \A id \in ctx \ updates : ctxFilled[id] = filled[id]

Books ==
  KeysBehind /\ ContextsAreLive /\ ContextsFilled /\ EventsMatchLedger /\ PositionsMatchFills

Ledger == UpdatesNew /\ WholeFills /\ Books

LInv == GInv /\ Ledger

\* No quantity is lost on the way to an event: nothing is filled in parts, or
\* no order is given up after a part.
NothingCutShort ==
  PartialRatio = RatioDen \/ (MaxPendingTicks = 0 /\ MaxTicksToFill = 0)

\* What still may close a position.
Closes ==
  {id \in book \cup updates : ~IsOpen(orders[id]) /\ status[id] # "canceled"}

\* Roll closes alone, and one for each position: a close loop visits no
\* position that is being closed.
ClosesOnce ==
  /\ \A a, b \in Closes : KeyOf(orders[a]) = KeyOf(orders[b]) => a = b
  /\ \A a \in Closes : orders[a].qty <= positions[KeyOf(orders[a])]
  /\ \A a \in Closes : pc = "rollclose" => KeyOf(orders[a]) \notin todo
  /\ pc # "rollclose" => todo = {}

RollsAlone == ~ExitsConfigured /\ Delayed

(***************************************************************************)
(* The fills booked on a key, as a sum.                                    *)
(***************************************************************************)

Fills == {id \in Ended : status[id] = "filled"}

BookOf(k, ids, os, fs) ==
  SumOver([id \in ids |-> IF IsOpen(os[id]) THEN fs[id] ELSE -fs[id]],
          {id \in ids : KeyOf(os[id]) = k})

LEMMA BookOfSame ==
  ASSUME NEW k, NEW ids, NEW os, NEW fs, NEW pos, NEW pfs,
         \A id \in ids : pos[id] = os[id] /\ pfs[id] = fs[id]
  PROVE  BookOf(k, ids, pos, pfs) = BookOf(k, ids, os, fs)
<1>1. {id \in ids : KeyOf(pos[id]) = k} = {id \in ids : KeyOf(os[id]) = k}
  OBVIOUS
<1>2. [id \in ids |-> IF IsOpen(pos[id]) THEN pfs[id] ELSE -pfs[id]]
        = [id \in ids |-> IF IsOpen(os[id]) THEN fs[id] ELSE -fs[id]]
  OBVIOUS
<1> QED
  BY <1>1, <1>2 DEF BookOf

\* One more fill counts for the key of its order, and for no other.
LEMMA BookOfAdd ==
  ASSUME NEW k, NEW ids, IsFiniteSet(ids), NEW x, x \notin ids,
         NEW os, NEW fs, NEW pos, NEW pfs,
         \A id \in ids : pos[id] = os[id] /\ pfs[id] = fs[id] /\ fs[id] \in Int,
         pfs[x] \in Int
  PROVE  BookOf(k, ids \cup {x}, pos, pfs)
           = IF KeyOf(pos[x]) # k THEN BookOf(k, ids, os, fs)
             ELSE (IF IsOpen(pos[x]) THEN pfs[x] ELSE -pfs[x]) + BookOf(k, ids, os, fs)
<1> DEFINE f == [id \in ids |-> IF IsOpen(os[id]) THEN fs[id] ELSE -fs[id]]
           g == [id \in ids \cup {x} |-> IF IsOpen(pos[id]) THEN pfs[id] ELSE -pfs[id]]
           S == {id \in ids : KeyOf(os[id]) = k}
           T == {id \in ids \cup {x} : KeyOf(pos[id]) = k}
<1>1. \A id \in S : g[id] = f[id] /\ g[id] \in Int
  OBVIOUS
<1>2. IsFiniteSet(S) /\ x \notin S
  BY FS_Subset
<1>3. g[x] = (IF IsOpen(pos[x]) THEN pfs[x] ELSE -pfs[x]) /\ g[x] \in Int
  OBVIOUS
<1>4. T = IF KeyOf(pos[x]) = k THEN S \cup {x} ELSE S
  OBVIOUS
<1>5. BookOf(k, ids, os, fs) = SumOver(f, S) /\ BookOf(k, ids \cup {x}, pos, pfs) = SumOver(g, T)
  BY DEF BookOf
<1> HIDE DEF f, g, S, T
<1>6. SumOver(g, S) = SumOver(f, S)
  BY <1>1, <1>2, SumSame
<1>7. SumOver(g, S \cup {x}) = g[x] + SumOver(g, S)
  BY <1>1, <1>2, <1>3, SumAdd
<1> QED
  BY <1>3, <1>4, <1>5, <1>6, <1>7

LEMMA PositionsAre ==
  PositionsMatchFills <=>
    (Settled => \A k \in Keys : positions[k] = BookOf(k, Fills, orders, filled))
<1>1. \A k : Booked(k, Fills) = BookOf(k, Fills, orders, filled)
  BY DEF Booked, BookOf, SumOver
<1> QED
  BY <1>1 DEF PositionsMatchFills, Fills

LEMMA PositionsWillBe ==
  (PositionsMatchFills <=>
    (Settled => \A k \in Keys : positions[k] = BookOf(k, Fills, orders, filled)))'
BY PositionsAre, PTL

LEMMA FillsFinite == IsFiniteSet(Fills) /\ Fills \subseteq OrderIds
<1>1. IsFiniteSet(OrderIds)
  BY FS_Interval, BrokerConfig DEF OrderIds
<1> QED
  BY <1>1, FS_Subset DEF Fills, Ended, Issued

(***************************************************************************)
(* Lemmas on the broker.                                                   *)
(***************************************************************************)

LEMMA DivExact ==
  ASSUME NEW q \in Nat, NEW d \in Nat \ {0}
  PROVE  (q * d) \div d = q
OBVIOUS

\* With fill_ratio 1 a submission fills all of the order or none of it.
LEMMA SubmitWhole ==
  ASSUME NEW o \in Order
  PROVE  /\ SubmitStatus(o) \in {"rejected", "submitted", "filled"}
         /\ SubmitStatus(o) # "filled" => SubmitFilled(o) = 0
         /\ SubmitStatus(o) = "submitted" => Delayed
         /\ SubmitStatus(o) = "filled" => ~Delayed
         /\ SubmitFilled(o) \in Nat
<1>1. o.qty \in Nat /\ RatioDen \in Nat \ {0} /\ FillRatio = RatioDen
  BY BrokerConfig, RuntimeConfig DEF Order
<1>2. (o.qty * RatioDen) \div RatioDen = o.qty
  BY <1>1, DivExact
<1>3. ImmediateQuantity(o.qty) = o.qty
  BY <1>1, <1>2 DEF ImmediateQuantity, AtMost
<1> QED
  BY <1>1, <1>3 DEF SubmitStatus, SubmitFilled

LEMMA MovesWhole ==
  ASSUME BrokerIInv, WholeFills, BrokerMoves
  PROVE  WholeFills'
<1> SUFFICES ASSUME PartialRatio = RatioDen, NEW id \in OrderIds
             PROVE  /\ status'[id] # "partially_filled"
                    /\ status'[id] # "filled" => filled'[id] = 0
  BY DEF WholeFills
<1>1. /\ status[id] # "partially_filled" /\ (status[id] # "filled" => filled[id] = 0)
      /\ id \in book => status[id] # "filled"
  BY DEF WholeFills, BrokerIInv, BookMatchesLedger
<1>2. CASE UNCHANGED brokerVars
  BY <1>1, <1>2 DEF brokerVars
<1>3. ASSUME NEW o \in Order, SubmitOrder(o)
      PROVE  /\ status'[id] # "partially_filled"
             /\ status'[id] # "filled" => filled'[id] = 0
  BY <1>1, <1>3, SubmitWhole DEF SubmitOrder, BrokerIInv, BrokerTypeOK
<1>4. ASSUME NEW t \in Nat, PollOrderUpdates(t)
      PROVE  /\ status'[id] # "partially_filled"
             /\ status'[id] # "filled" => filled'[id] = 0
  <2>1. Stepping(t) = {}
    BY BrokerConfig DEF Stepping
  <2>2. id \in Expiring(t) => id \in book /\ id \notin Completing(t)
    BY DEF Expiring, Completing, Due
  <2>3. /\ status'[id] = IF id \in Expiring(t) THEN "canceled"
                         ELSE IF id \in Completing(t) THEN "filled" ELSE status[id]
        /\ id \notin Completing(t) => filled'[id] = filled[id]
    BY <1>4, <2>1 DEF PollOrderUpdates
  <2> QED
    BY <1>1, <2>2, <2>3
<1>5. ASSUME NEW ids \in SUBSET OrderIds, CancelOrders(ids)
      PROVE  /\ status'[id] # "partially_filled"
             /\ status'[id] # "filled" => filled'[id] = 0
  BY <1>1, <1>5 DEF CancelOrders
<1> QED
  BY <1>2, <1>3, <1>4, <1>5 DEF BrokerMoves

(***************************************************************************)
(* Each kind of step keeps the books.                                      *)
(***************************************************************************)

\* The working orders of the ledger are those of the book.
LEMMA WorkingInBook ==
  ASSUME GInv
  PROVE  /\ \A id \in book : status[id] \in {"submitted", "partially_filled"}
         /\ book \subseteq Issued /\ ctx \subseteq Issued /\ updates \subseteq Issued
         /\ Issued \subseteq OrderIds
BY DEF GInv, IInv, Core, Known, BrokerIInv, BookMatchesLedger, BrokerTypeOK, PathTypeOK,
   Place, LoopTypeOK, Issued

\* Where the fills booked, their orders and the positions stay, the positions match.
LEMMA SameFillsMatch ==
  ASSUME PositionsMatchFills, Settled, Fills' = Fills, positions' = positions,
         \A id \in Fills : orders'[id] = orders[id] /\ filled'[id] = filled[id]
  PROVE  PositionsMatchFills'
<1>1. \A k \in Keys : positions[k] = BookOf(k, Fills, orders, filled)
  BY PositionsAre
<1>2. \A k : BookOf(k, Fills, orders', filled') = BookOf(k, Fills, orders, filled)
  BY BookOfSame
<1> QED
  BY <1>1, <1>2, PositionsWillBe

\* One more fill booked and applied.
LEMMA OneFillMatches ==
  ASSUME PathTypeOK, PositionsMatchFills, Settled, NEW x \in OrderIds, x \notin Fills,
         Fills' = Fills \cup {x}, filled \in [OrderIds -> Nat],
         \A id \in Fills : orders'[id] = orders[id] /\ filled'[id] = filled[id],
         orders'[x] \in Order, filled'[x] \in Nat, ApplySucceeds(orders'[x], filled'[x]),
         positions' = Applied(positions, orders'[x], filled'[x])
  PROVE  PositionsMatchFills'
<1> DEFINE o == orders'[x]
           q == filled'[x]
<1>1. \A k \in Keys : positions[k] = BookOf(k, Fills, orders, filled)
  BY PositionsAre
<1>2. ASSUME NEW k \in Keys
      PROVE  BookOf(k, Fills', orders', filled')
               = IF KeyOf(o) # k THEN positions[k]
                 ELSE (IF IsOpen(o) THEN q ELSE -q) + positions[k]
  <2>1. /\ IsFiniteSet(Fills) /\ x \notin Fills /\ filled'[x] \in Int
        /\ \A id \in Fills :
             orders'[id] = orders[id] /\ filled'[id] = filled[id] /\ filled[id] \in Int
    BY FillsFinite
  <2>2. BookOf(k, Fills \cup {x}, orders', filled')
          = IF KeyOf(o) # k THEN BookOf(k, Fills, orders, filled)
            ELSE (IF IsOpen(o) THEN q ELSE -q) + BookOf(k, Fills, orders, filled)
    BY ONLY <2>1, BookOfAdd
  <2> QED
    BY <1>1, <2>2
<1>3. ASSUME NEW k \in Keys
      PROVE  positions'[k] = IF KeyOf(o) # k THEN positions[k]
                             ELSE (IF IsOpen(o) THEN q ELSE -q) + positions[k]
  <2>1. positions[k] \in Nat /\ q \in Nat
    BY DEF PathTypeOK
  <2>2. positions'[k] = IF KeyOf(o) # k THEN positions[k]
                        ELSE IF IsOpen(o) THEN positions[k] + q ELSE positions[k] - q
    BY DEF Applied, PathTypeOK
  <2> HIDE DEF o, q
  <2> QED
    BY <2>1, <2>2
<1> HIDE DEF o, q
<1> QED
  BY <1>2, <1>3, PositionsWillBe

LEMMA KeysStayBehind ==
  ASSUME PathTypeOK, KeysBehind, Settled' => Settled, UNCHANGED <<keyTick, keys>>,
         tick' \in {tick, tick + 1}
  PROVE  KeysBehind'
<1>1. tick \in Nat /\ keyTick \in Nat
  BY DEF PathTypeOK
<1> QED
  BY <1>1 DEF KeysBehind

LEMMA IdleBooks ==
  ASSUME GInv, Ledger, Settled' => Settled, tick' \in {tick, tick + 1},
         UNCHANGED <<brokerVars, updates, pendingVars, positions, endings, keyTick, keys>>
  PROVE  Ledger'
<1> USE DEF brokerVars, pendingVars
<1>1. UpdatesNew' /\ WholeFills'
  BY DEF Ledger, UpdatesNew, WholeFills
<1>2. KeysBehind'
  BY KeysStayBehind DEF Ledger, Books, GInv, IInv, Core
<1>3. Ended' = Ended /\ Fills' = Fills
  BY DEF Ended, Issued, Fills
<1>4. ContextsAreLive' /\ ContextsFilled' /\ EventsMatchLedger'
  BY <1>3 DEF Ledger, Books, ContextsAreLive, ContextsFilled, EventsMatchLedger, Settled
<1>5. PositionsMatchFills'
  <2>1. CASE Settled'
    BY <1>3, <2>1, SameFillsMatch DEF Ledger, Books
  <2>2. CASE ~Settled'
    BY <2>2, PositionsWillBe
  <2> QED
    BY <2>1, <2>2
<1> QED
  BY <1>1, <1>2, <1>4, <1>5 DEF Ledger, Books

\* What an exception leaves behind: nothing is claimed of the books after it.
LEMMA AbortedBooks ==
  ASSUME GInv, Ledger, BrokerMoves, ~Settled', updates' = {}
  PROVE  Ledger'
<1>1. UpdatesNew'
  BY DEF UpdatesNew
<1>2. WholeFills'
  BY MovesWhole DEF GInv, Ledger
<1>3. PositionsMatchFills'
  BY PositionsWillBe
<1>4. KeysBehind' /\ ContextsAreLive' /\ ContextsFilled' /\ EventsMatchLedger'
  BY DEF KeysBehind, ContextsAreLive, ContextsFilled, EventsMatchLedger, Settled
<1> QED
  BY <1>1, <1>2, <1>3, <1>4 DEF Ledger, Books

\* Orders given up by the runtime, each of which works until then.
LEMMA CancelBooks ==
  ASSUME GInv, Ledger, updates = {}, updates' = {}, NEW ids \in SUBSET ctx,
         CancelOrders(ids), ctx' = ctx \ ids,
         endings' = [id \in OrderIds |->
                       IF id \in ids THEN endings[id] + 1 ELSE endings[id]],
         UNCHANGED <<ctxFilled, positions, keyTick, keys>>,
         tick' \in {tick, tick + 1}, Settled' => Settled
  PROVE  Ledger'
<1>1. ids \in SUBSET OrderIds
  BY WorkingInBook
<1>2. BrokerMoves
  BY <1>1 DEF BrokerMoves
<1>3. CASE ~Settled'
  BY <1>2, <1>3, AbortedBooks
<1>4. CASE Settled'
  <2> USE <1>4
  <2>1. ids \subseteq book
    BY DEF Ledger, Books, ContextsAreLive, Settled
  <2>2. /\ book' = book \ ids
        /\ \A id \in OrderIds : /\ id \in ids => status'[id] = "canceled"
                                /\ id \notin ids => status'[id] = status[id]
        /\ UNCHANGED <<nextId, orders, filled>>
    BY <2>1 DEF CancelOrders
  <2>3. \A id \in ids : status[id] \in {"submitted", "partially_filled"} /\ id \in Issued
    BY <2>1, WorkingInBook
  <2>4. Ended' = Ended \cup ids /\ Fills' = Fills /\ \A id \in ids : id \notin Ended
    BY <2>2, <2>3 DEF Ended, Issued, Fills, Terminal
  <2>5. UpdatesNew' /\ WholeFills'
    BY <1>2, MovesWhole DEF UpdatesNew, Ledger, GInv
  <2>6. KeysBehind'
    BY KeysStayBehind DEF Ledger, Books, GInv, IInv, Core
  <2>7. ContextsAreLive' /\ ContextsFilled'
    BY <2>2 DEF Ledger, Books, ContextsAreLive, ContextsFilled, Settled
  <2>8. EventsMatchLedger'
    BY <2>4 DEF Ledger, Books, EventsMatchLedger
  <2>9. PositionsMatchFills'
    BY <2>2, <2>4, SameFillsMatch DEF Ledger, Books
  <2> QED
    BY <2>5, <2>6, <2>7, <2>8, <2>9 DEF Ledger, Books
<1> QED
  BY <1>3, <1>4

\* Of an order that is not in the book a poll says nothing.
LEMMA PollEffect ==
  ASSUME GInv, NEW t \in Nat, PollOrderUpdates(t)
  PROVE  /\ PollUpdates(t) \subseteq book
         /\ \A id \in OrderIds : id \notin PollUpdates(t) =>
              /\ status'[id] = status[id] /\ filled'[id] = filled[id]
              /\ id \in book => id \in book'
         /\ \A id \in PollUpdates(t) :
              /\ status'[id] \in {"partially_filled", "filled", "canceled"}
              /\ status'[id] = "partially_filled" => id \in book'
              /\ status'[id] = "canceled" => MaxTicksToFill > 0
<1>1. PollUpdates(t) \subseteq book
  BY DEF PollUpdates, Completing, Stepping, Due, Expiring
<1>2. book \subseteq OrderIds
  BY WorkingInBook
<1>3. \A id \in Stepping(t) : id \notin Expiring(t) /\ id \notin Completing(t)
  BY DEF Completing, Stepping, Due
<1>4. \A id \in Expiring(t) : MaxTicksToFill > 0
  BY DEF Expiring
<1> QED
  BY <1>1, <1>2, <1>3, <1>4 DEF PollOrderUpdates, PollUpdates

\* What the poll reports is left out of the books until it is applied.
LEMMA PollBooks ==
  ASSUME GInv, Ledger, PollBroker
  PROVE  Ledger'
<1> USE DEF PollBroker, pendingVars, guardVars, journalVars
<1>1. universeTick \in Nat /\ updates = {}
  BY DEF GInv, IInv, Place, LoopTypeOK, UpdatesFresh
<1>2. BrokerMoves
  BY <1>1 DEF BrokerMoves
<1>3. /\ UNCHANGED <<nextId, orders>>
      /\ \A id \in OrderIds : id \notin updates' =>
           /\ status'[id] = status[id] /\ filled'[id] = filled[id]
           /\ id \in book => id \in book'
      /\ updates' \subseteq book
  BY <1>1, PollEffect DEF PollOrderUpdates
<1>4. \A id \in updates' : id \notin Ended /\ id \in OrderIds
  BY <1>3, WorkingInBook DEF Ended, Terminal
<1>5. Ended' = Ended /\ Fills' = Fills
  BY <1>1, <1>3, <1>4 DEF Ended, Issued, Fills
<1>6. UpdatesNew'
  <2>1. ~Delayed => updates' = {}
    BY <1>3 DEF GInv, BrokerIInv, BookMatchesLedger
  <2> QED
    BY <1>1, <2>1, PollEffect DEF UpdatesNew
<1>7. WholeFills'
  BY <1>2, MovesWhole DEF Ledger, GInv
<1>8. Settled' <=> Settled
  BY DEF Settled
<1>9. KeysBehind'
  BY <1>8, KeysStayBehind DEF Ledger, Books, GInv, IInv, Core
<1>10. ContextsAreLive'
  BY <1>1, <1>3, <1>8, WorkingInBook DEF Ledger, Books, ContextsAreLive, Settled
<1>11. ContextsFilled'
  BY <1>1, <1>3, <1>8, WorkingInBook DEF Ledger, Books, ContextsFilled
<1>12. EventsMatchLedger'
  BY <1>5, <1>8 DEF Ledger, Books, EventsMatchLedger
<1>13. PositionsMatchFills'
  <2>1. CASE Settled
    <3>1. \A id \in Fills : orders'[id] = orders[id] /\ filled'[id] = filled[id]
      BY <1>3, <1>4, FillsFinite DEF Fills
    <3> QED
      BY <1>5, <2>1, <3>1, SameFillsMatch DEF Ledger, Books
  <2>2. CASE ~Settled
    BY <1>8, <2>2, PositionsWillBe
  <2> QED
    BY <2>1, <2>2
<1> QED
  BY <1>6, <1>7, <1>9, <1>10, <1>11, <1>12, <1>13 DEF Ledger, Books

\* One update less: its order is in the books from now on.
LEMMA UpdateApplied ==
  ASSUME GInv, Ledger, NEW id \in updates, updates' = updates \ {id}, UNCHANGED brokerVars
  PROVE  /\ UpdatesNew' /\ WholeFills'
         /\ id \in Issued /\ id \in OrderIds /\ id \notin Ended /\ id \notin Fills
         /\ Ended' = IF status[id] \in Terminal THEN Ended \cup {id} ELSE Ended
         /\ Fills' = IF status[id] = "filled" THEN Fills \cup {id} ELSE Fills
<1> USE DEF brokerVars
<1>1. UpdatesNew' /\ WholeFills'
  BY DEF Ledger, UpdatesNew, WholeFills
<1>2. id \in Issued /\ id \in OrderIds
  BY WorkingInBook
<1>3. Issued' = Issued
  BY DEF Issued
<1>4. Ended' = IF status[id] \in Terminal THEN Ended \cup {id} ELSE Ended
  BY <1>2, <1>3 DEF Ended
<1>5. Fills' = IF status[id] = "filled" THEN Fills \cup {id} ELSE Fills
  BY <1>4 DEF Fills, Ended, Terminal
<1> QED
  BY <1>1, <1>2, <1>4, <1>5 DEF Ended, Fills

LEMMA ApplyPartialBooks ==
  ASSUME GInv, Ledger, NEW id \in OrderIds, ApplyPartial(id)
  PROVE  Ledger'
<1> USE DEF ApplyPartial, guardVars
<1>1. /\ id \in updates /\ updates' = updates \ {id} /\ UNCHANGED brokerVars
      /\ status[id] = "partially_filled" /\ UNCHANGED ctx
  OBVIOUS
<1>2. /\ UpdatesNew' /\ WholeFills' /\ Ended' = Ended /\ Fills' = Fills
  BY <1>1, UpdateApplied DEF Terminal
<1>3. Settled' <=> Settled
  BY DEF Settled
<1>4. KeysBehind'
  BY <1>3, KeysStayBehind DEF Ledger, Books, GInv, IInv, Core
<1>5. id \in book
  BY <1>1 DEF Ledger, UpdatesNew
<1>6. ContextsAreLive'
  BY <1>1, <1>3, <1>5 DEF Ledger, Books, ContextsAreLive, Settled, brokerVars
<1>7. ContextsFilled'
  <2>1. \A b \in OrderIds : ctxFilled'[b] = IF b = id /\ id \in ctx THEN filled[id] ELSE ctxFilled[b]
    BY DEF GInv, IInv, Core, PathTypeOK
  <2>2. ctx \subseteq OrderIds
    BY WorkingInBook
  <2> QED
    BY <1>1, <1>3, <2>1, <2>2 DEF Ledger, Books, ContextsFilled, brokerVars
<1>8. EventsMatchLedger'
  <2>1. endings' = endings
    BY DEF Report, GInv, IInv, Core, PathTypeOK
  <2> QED
    BY <1>2, <1>3, <2>1 DEF Ledger, Books, EventsMatchLedger
<1>9. PositionsMatchFills'
  BY <1>1, <1>2, <1>3, SameFillsMatch, PositionsWillBe DEF Ledger, Books, brokerVars
<1> QED
  BY <1>2, <1>4, <1>6, <1>7, <1>8, <1>9 DEF Ledger, Books

\* An order the broker gave up, or filled completely.
LEMMA EndedBooks ==
  ASSUME GInv, Ledger, NEW id \in updates, status[id] \in Terminal,
         updates' = updates \ {id}, ctx' = ctx \ {id},
         endings' = [endings EXCEPT ![id] = @ + 1],
         tick' \in {tick, tick + 1}, Settled' <=> Settled,
         UNCHANGED <<brokerVars, ctxFilled, keyTick, keys>>
  PROVE  /\ UpdatesNew' /\ WholeFills' /\ KeysBehind'
         /\ ContextsAreLive' /\ ContextsFilled' /\ EventsMatchLedger'
<1>1. /\ UpdatesNew' /\ WholeFills' /\ Ended' = Ended \cup {id}
      /\ id \notin Ended /\ id \in OrderIds
  BY UpdateApplied
<1>2. KeysBehind'
  BY KeysStayBehind DEF Ledger, Books, GInv, IInv, Core
<1>3. ContextsAreLive'
  BY DEF Ledger, Books, ContextsAreLive, Settled, brokerVars
<1>4. ContextsFilled'
  BY DEF Ledger, Books, ContextsFilled, brokerVars
<1>5. EventsMatchLedger'
  <2>1. \A b \in OrderIds : endings'[b] = IF b = id THEN endings[id] + 1 ELSE endings[b]
    BY <1>1 DEF GInv, IInv, Core, PathTypeOK
  <2> QED
    BY <1>1, <2>1 DEF Ledger, Books, EventsMatchLedger
<1> QED
  BY <1>1, <1>2, <1>3, <1>4, <1>5

LEMMA ApplyExpiryBooks ==
  ASSUME GInv, Ledger, NEW id \in OrderIds, ApplyExpiry(id)
  PROVE  Ledger'
<1> USE DEF ApplyExpiry, guardVars
<1>1. /\ id \in updates /\ status[id] = "canceled" /\ status[id] \in Terminal
      /\ updates' = updates \ {id} /\ UNCHANGED <<brokerVars, positions>>
  BY DEF Terminal
<1>2. Settled' <=> Settled
  BY DEF Settled
<1>3. endings' = [endings EXCEPT ![id] = @ + 1]
  BY DEF Report
<1>4. /\ UpdatesNew' /\ WholeFills' /\ KeysBehind'
      /\ ContextsAreLive' /\ ContextsFilled' /\ EventsMatchLedger'
  BY <1>1, <1>2, <1>3, EndedBooks
<1>5. Fills' = Fills
  BY <1>1, UpdateApplied
<1>6. PositionsMatchFills'
  BY <1>1, <1>2, <1>5, SameFillsMatch, PositionsWillBe DEF Ledger, Books, brokerVars
<1> QED
  BY <1>4, <1>6 DEF Ledger, Books

LEMMA ApplyFillBooks ==
  ASSUME GInv, Ledger, NEW id \in OrderIds, ApplyFill(id)
  PROVE  Ledger'
<1> USE DEF ApplyFill, guardVars
<1>1. /\ id \in updates /\ status[id] = "filled" /\ status[id] \in Terminal
      /\ UNCHANGED brokerVars /\ pc = "apply"
  BY DEF Terminal
<1>2. endings' = [endings EXCEPT ![id] = @ + 1]
  BY DEF Report
<1>3. CASE /\ ApplySucceeds(orders[id], filled[id])
           /\ positions' = Applied(positions, orders[id], filled[id])
           /\ ctx' = ctx \ {id}
           /\ updates' = updates \ {id}
           /\ Snapshot
           /\ UNCHANGED <<pc, loopTick, universeTick, unserved, todo>>
  <2>1. (Settled' <=> Settled) /\ tick' \in {tick, tick + 1}
    BY <1>3 DEF Settled, Snapshot
  <2>2. /\ UpdatesNew' /\ WholeFills' /\ KeysBehind'
        /\ ContextsAreLive' /\ ContextsFilled' /\ EventsMatchLedger'
    BY <1>1, <1>2, <1>3, <2>1, EndedBooks
  <2>3. Fills' = Fills \cup {id} /\ id \notin Fills
    BY <1>1, <1>3, UpdateApplied
  <2>4. /\ PathTypeOK /\ filled \in [OrderIds -> Nat]
        /\ orders' = orders /\ filled' = filled
        /\ orders[id] \in Order /\ filled[id] \in Nat
    BY <1>1, UpdateKnown DEF GInv, IInv, Core, BrokerTypeOK, brokerVars
  <2>5. PositionsMatchFills'
    <3>1. CASE Settled
      BY <1>3, <2>3, <2>4, <3>1, OneFillMatches DEF Ledger, Books
    <3>2. CASE ~Settled
      BY <2>1, <3>2, PositionsWillBe
    <3> QED
      BY <3>1, <3>2
  <2> QED
    BY <2>2, <2>5 DEF Ledger, Books
<1>4. CASE Abort
  <2>1. ~Settled' /\ updates' = {}
    BY <1>4 DEF Abort, Settled
  <2> QED
    BY <1>1, <2>1, AbortedBooks DEF BrokerMoves
<1> QED
  BY <1>3, <1>4

\* What a submission adds to the broker's ledger.
LEMMA PlacingLedger ==
  ASSUME GInv, NEW o \in Order, Placing(o), updates = {}, updates' = {}
  PROVE  /\ nextId \in OrderIds /\ nextId \notin Issued /\ orders'[nextId] = o
         /\ status'[nextId] = SubmitStatus(o) /\ filled'[nextId] = SubmitFilled(o)
         /\ \A id \in OrderIds : id # nextId =>
              /\ orders'[id] = orders[id] /\ status'[id] = status[id]
              /\ filled'[id] = filled[id]
         /\ book' = IF SubmitStatus(o) = "submitted" THEN book \cup {nextId} ELSE book
         /\ Ended' = IF SubmitStatus(o) \in Terminal THEN Ended \cup {nextId} ELSE Ended
         /\ Fills' = IF SubmitStatus(o) = "filled" THEN Fills \cup {nextId} ELSE Fills
<1>1. /\ nextId \in OrderIds /\ nextId \notin Issued /\ orders'[nextId] = o
      /\ Issued' = Issued \cup {nextId} /\ Issued \subseteq OrderIds
  BY PlacingEffect, WorkingInBook DEF GInv
<1>2. /\ status'[nextId] = SubmitStatus(o) /\ filled'[nextId] = SubmitFilled(o)
      /\ \A id \in OrderIds : id # nextId =>
           /\ orders'[id] = orders[id] /\ status'[id] = status[id]
           /\ filled'[id] = filled[id]
      /\ book' = IF SubmitStatus(o) = "submitted" THEN book \cup {nextId} ELSE book
  BY <1>1 DEF Placing, SubmitStep, SubmitOrder, GInv, IInv, Core, BrokerTypeOK
<1>3. Ended' = IF SubmitStatus(o) \in Terminal THEN Ended \cup {nextId} ELSE Ended
  BY <1>1, <1>2 DEF Ended
<1>4. Fills' = IF SubmitStatus(o) = "filled" THEN Fills \cup {nextId} ELSE Fills
  BY <1>1, <1>2, <1>3 DEF Fills, Ended, Terminal
<1> QED
  BY <1>1, <1>2, <1>3, <1>4

LEMMA PlacingBooks ==
  ASSUME GInv, Ledger, NEW o \in Order, Placing(o), updates = {}, updates' = {}
  PROVE  Ledger'
<1>1. BrokerMoves /\ SubmitStep(o)
  BY DEF Placing, SubmitStep, BrokerMoves
<1>2. CASE ~Settled'
  BY <1>1, <1>2, AbortedBooks
<1>3. CASE Settled'
  <2> USE <1>3
  <2>1. Settled /\ tick' = tick + 1
    BY DEF Placing
  <2>2. tick \in Nat /\ keyTick \in Nat /\ tick' # tick
    BY <2>1 DEF GInv, IInv, Core, PathTypeOK
  <2>3. ~IsDuplicate(o)
    BY <2>1, <2>2 DEF Ledger, Books, KeysBehind, IsDuplicate
  <2>4. \/ RecordRefused(o) /\ SubmitStatus(o) = "rejected"
        \/ RecordPending(o) /\ SubmitStatus(o) = "submitted"
        \/ /\ RecordFill(o) /\ ApplyFillNow(o) /\ SubmitStatus(o) = "filled"
    BY <1>1, <2>2, <2>3, SubmitWhole DEF SubmitStep, RecordRefused, RecordPending, RecordFill
  <2>5. UpdatesNew' /\ WholeFills'
    BY <1>1, MovesWhole DEF UpdatesNew, Ledger, GInv
  <2>6. KeysBehind'
    <3>1. keys = {} \/ keyTick < tick
      BY <2>1 DEF Ledger, Books, KeysBehind
    <3>2. UNCHANGED <<keyTick, keys>> \/ keyTick' = tick
      BY <2>4 DEF RecordRefused, RecordPending, RecordFill, RememberKey
    <3>3. keys' = {} \/ keyTick' < tick'
      BY <2>1, <2>2, <3>1, <3>2
    <3> QED
      BY <3>3 DEF KeysBehind
  <2>7. ctx \subseteq Issued
    BY WorkingInBook
  <2>8. ContextsAreLive'
    BY <2>1, <2>4, PlacingLedger
       DEF RecordRefused, RecordPending, RecordFill, pendingVars, Ledger, Books,
           ContextsAreLive, Settled
  <2>9. ContextsFilled'
    <3>1. ctxFilled \in [OrderIds -> Nat] /\ ctx \subseteq OrderIds
      BY DEF GInv, IInv, Core, PathTypeOK
    <3>2. CASE RecordPending(o) /\ SubmitStatus(o) = "submitted"
      <4>1. /\ ctx' = ctx \cup {nextId} /\ ctxFilled' = [ctxFilled EXCEPT ![nextId] = 0]
            /\ filled'[nextId] = 0
        BY <3>2, PlacingLedger, SubmitWhole DEF RecordPending
      <4>2. \A id \in ctx : /\ id # nextId /\ ctxFilled[id] = filled[id]
                            /\ filled'[id] = filled[id]
        BY <2>1, <2>7, <3>1, PlacingLedger DEF Ledger, Books, ContextsFilled
      <4> QED
        BY <3>1, <4>1, <4>2, PlacingLedger DEF ContextsFilled
    <3>3. CASE UNCHANGED pendingVars
      BY <2>1, <2>7, <3>1, <3>3, PlacingLedger DEF pendingVars, Ledger, Books, ContextsFilled
    <3> QED
      BY <2>4, <3>2, <3>3 DEF RecordRefused, RecordFill
  <2>10. EventsMatchLedger'
    <3>1. endings \in [OrderIds -> Nat] /\ nextId \in OrderIds /\ nextId \notin Ended
      BY PlacingLedger DEF GInv, IInv, Core, PathTypeOK, Ended
    <3>2. \A id \in OrderIds :
            endings'[id] = IF id = nextId /\ SubmitStatus(o) # "submitted" THEN endings[id] + 1
                           ELSE endings[id]
      BY <2>4, <3>1 DEF RecordRefused, RecordPending, RecordFill, Report
    <3>3. Ended' = IF SubmitStatus(o) # "submitted" THEN Ended \cup {nextId} ELSE Ended
      BY <2>4, PlacingLedger DEF Terminal
    <3>4. \A id \in OrderIds : endings[id] = IF id \in Ended THEN 1 ELSE 0
      BY <2>1 DEF Ledger, Books, EventsMatchLedger
    <3> QED
      BY <3>1, <3>2, <3>3, <3>4 DEF EventsMatchLedger
  <2>11. PositionsMatchFills'
    <3>1. /\ nextId \notin Fills
          /\ \A id \in Fills : orders'[id] = orders[id] /\ filled'[id] = filled[id]
      BY PlacingLedger, FillsFinite DEF Fills, Ended
    <3>2. CASE RecordFill(o) /\ ApplyFillNow(o) /\ SubmitStatus(o) = "filled"
      <4>1. PathTypeOK /\ filled \in [OrderIds -> Nat] /\ nextId \in OrderIds
        BY PlacingLedger DEF GInv, IInv, Core, BrokerTypeOK
      <4>2. orders'[nextId] = o /\ filled'[nextId] = SubmitFilled(o)
            /\ Fills' = Fills \cup {nextId} /\ SubmitFilled(o) \in Nat
        BY <3>2, PlacingLedger, SubmitWhole
      <4> QED
        BY <2>1, <3>1, <3>2, <4>1, <4>2, OneFillMatches DEF ApplyFillNow, Ledger, Books
    <3>3. CASE SubmitStatus(o) # "filled" /\ UNCHANGED positions
      BY <2>1, <3>1, <3>3, PlacingLedger, SameFillsMatch DEF Ledger, Books
    <3> QED
      BY <2>4, <3>2, <3>3 DEF RecordRefused, RecordPending
  <2> QED
    BY <2>5, <2>6, <2>8, <2>9, <2>10, <2>11 DEF Ledger, Books
<1> QED
  BY <1>2, <1>3

(***************************************************************************)
(* Every step is of one of these kinds.                                    *)
(***************************************************************************)

\* Orders the runtime gives up: those that waited too long, those of a roll.
GivesUp(ids) ==
  /\ ids \subseteq ctx /\ updates = {} /\ updates' = {}
  /\ CancelOrders(ids) /\ ctx' = ctx \ ids
  /\ endings' = [id \in OrderIds |-> IF id \in ids THEN endings[id] + 1 ELSE endings[id]]
  /\ \/ /\ reported' = [id \in OrderIds |-> IF id \in ids THEN 0 ELSE reported[id]]
        /\ ids # {} => MaxPendingTicks > 0
     \/ reported' = [id \in OrderIds |->
                       IF id \in ids THEN ctxFilled[id] ELSE reported[id]]
  /\ UNCHANGED <<ctxFilled, positions, keyTick, keys>>
  /\ tick' \in {tick, tick + 1}
  /\ Settled' => Settled
  /\ UNCHANGED todo /\ pc # "rollclose" /\ pc' # "rollclose"

\* Nothing happens to any order.
Idle ==
  /\ UNCHANGED <<brokerVars, updates, pendingVars, positions, endings, reported, keyTick, keys>>
  /\ tick' \in {tick, tick + 1}
  /\ Settled' => Settled

Places(o) ==
  /\ Placing(o) /\ updates = {} /\ updates' = {}

LEMMA ExpireGivesUp ==
  ASSUME GInv, ExpirePendingOrders
  PROVE  GivesUp(Expired)
BY DEF ExpirePendingOrders, GivesUp, Expired, GInv, IInv, Place, UpdatesFresh, Settled,
   guardVars

LEMMA RollGivesUp ==
  ASSUME GInv, NEW s \in Symbols, RollCancelPending(s)
  PROVE  GivesUp(Pending(s))
BY DEF RollCancelPending, GivesUp, Pending, GInv, IInv, Place, UpdatesFresh, Settled,
   guardVars, Serve, Served, Snapshot

LEMMA TurnIdles ==
  ASSUME GInv,
         BeginDecisions \/ FinishDecisions \/ EndTick \/ Finished \/ UNCHANGED vars
  PROVE  Idle
<1> USE DEF Idle, guardVars, journalVars, Settled
<1>1. CASE BeginDecisions \/ FinishDecisions \/ EndTick
  BY <1>1 DEF BeginDecisions, FinishDecisions, EndTick
<1>2. CASE UNCHANGED vars
  BY <1>2 DEF vars, loopVars, pendingVars
<1> QED
  BY <1>1, <1>2 DEF Finished

LEMMA DecisionIdles ==
  ASSUME NEW s \in Symbols,
         ClosedMarket(s) \/ NoOrderPlaced(s) \/ GuardReject(s) \/ RollBegin(s) \/ RollActivate(s)
  PROVE  Idle
<1> USE DEF Idle, guardVars, journalVars, Settled, Serve, Served, Snapshot
<1>1. CASE ClosedMarket(s) \/ NoOrderPlaced(s) \/ GuardReject(s)
  BY <1>1 DEF ClosedMarket, NoOrderPlaced, GuardReject, Skip
<1>2. CASE RollBegin(s) \/ RollActivate(s)
  BY <1>2 DEF RollBegin, RollActivate
<1> QED
  BY <1>1, <1>2

LEMMA OpenDecisionPlaces ==
  ASSUME GInv, NEW s \in Symbols, NEW p \in PositionSides, OpenDecision(s, p)
  PROVE  OpenOrder(s, p) \in Order /\ Places(OpenOrder(s, p))
BY OpenPlaces DEF GInv, IInv, Place, UpdatesFresh, OpenDecision, SubmitAndRecord, Serve, Served,
   Abort, Places

LEMMA CloseLoopPlaces ==
  ASSUME GInv, NEW k \in Keys, RollCloseOne(k) \/ ExitPosition(k)
  PROVE  CloseOrder(k) \in Order /\ Places(CloseOrder(k))
BY ClosePlaces DEF GInv, IInv, Place, UpdatesFresh, RollCloseOne, ExitPosition,
   SubmitAndRecord, Abort, Places

LEMMA Kinds ==
  ASSUME GInv, [Next]_vars
  PROVE  \/ Idle \/ PollBroker
         \/ \E ids \in SUBSET ctx : GivesUp(ids)
         \/ \E id \in OrderIds : ApplyPartial(id) \/ ApplyFill(id) \/ ApplyExpiry(id)
         \/ \E o \in Order : Places(o)
<1>1. CASE Lifecycle
  <2>1. Expired \in SUBSET ctx
    BY DEF Expired
  <2> QED
    BY <1>1, <2>1, ExpireGivesUp, TurnIdles DEF Lifecycle
<1>2. CASE Decide
  <2>1. \A s \in Symbols : Pending(s) \in SUBSET ctx
    BY DEF Pending
  <2> QED
    BY <1>2, <2>1, DecisionIdles, RollGivesUp, OpenDecisionPlaces DEF Decide
<1>3. CASE Closing
  BY <1>3, CloseLoopPlaces DEF Closing
<1>4. CASE FinishDecisions \/ EndTick \/ Finished \/ UNCHANGED vars
  BY <1>4, TurnIdles
<1> QED
  BY <1>1, <1>2, <1>3, <1>4 DEF Next

LEMMA NextLedger == GInv /\ Ledger /\ [Next]_vars => Ledger'
<1> SUFFICES ASSUME GInv, Ledger, [Next]_vars PROVE Ledger'
  OBVIOUS
<1>1. CASE Idle
  BY <1>1, IdleBooks DEF Idle
<1>2. CASE PollBroker
  BY <1>2, PollBooks
<1>3. ASSUME NEW ids \in SUBSET ctx, GivesUp(ids)
      PROVE  Ledger'
  BY <1>3, CancelBooks DEF GivesUp
<1>4. ASSUME NEW id \in OrderIds, ApplyPartial(id) \/ ApplyFill(id) \/ ApplyExpiry(id)
      PROVE  Ledger'
  BY <1>4, ApplyPartialBooks, ApplyFillBooks, ApplyExpiryBooks
<1>5. ASSUME NEW o \in Order, Places(o)
      PROVE  Ledger'
  BY <1>5, PlacingBooks DEF Places
<1> QED
  BY <1>1, <1>2, <1>3, <1>4, <1>5, Kinds

LEMMA InitLedger == Init => Ledger
<1> SUFFICES ASSUME Init PROVE Ledger
  OBVIOUS
<1>1. Issued = {} /\ Fills = {}
  BY BrokerConfig DEF Init, BrokerInit, Issued, OrderIds, Fills, Ended
<1>2. PositionsMatchFills
  <2>1. ASSUME NEW k
        PROVE  BookOf(k, {}, orders, filled) = 0
    <3>1. {id \in {} : KeyOf(orders[id]) = k} = {}
      OBVIOUS
    <3> QED
      BY <3>1, SumEmpty DEF BookOf
  <2> QED
    BY <1>1, <2>1, PositionsAre DEF Init
<1>3. UpdatesNew /\ WholeFills
  BY DEF Init, BrokerInit, UpdatesNew, WholeFills
<1>4. KeysBehind /\ ContextsAreLive /\ ContextsFilled
  BY DEF Init, KeysBehind, ContextsAreLive, ContextsFilled
<1>5. EventsMatchLedger
  BY <1>1 DEF Init, EventsMatchLedger, Ended
<1> QED
  BY <1>2, <1>3, <1>4, <1>5 DEF Ledger, Books

LEMMA SpecLInv == Spec => []LInv
<1>1. Init => LInv
  BY InitGInv, InitLedger DEF LInv
<1>2. LInv /\ [Next]_vars => LInv'
  BY NextGInv, NextLedger DEF LInv
<1> QED
  BY <1>1, <1>2, PTL DEF Spec

(***************************************************************************)
(* What the events report.                                                 *)
(***************************************************************************)

\* An order given up has nothing filled, or its context knows what.
LEMMA GivesUpReports ==
  ASSUME LInv, NothingCutShort, ReportsMatchLedger, NEW ids \in SUBSET ctx, GivesUp(ids),
         Settled'
  PROVE  ReportsMatchLedger'
<1> USE DEF GivesUp
<1>1. /\ updates = {} /\ updates' = {} /\ Settled
      /\ UNCHANGED <<nextId, filled>>
  BY DEF CancelOrders
<1>2. \A id \in ids : id \in OrderIds /\ ctxFilled[id] = filled[id]
  BY <1>1, WorkingInBook DEF LInv, Ledger, Books, ContextsFilled
<1>3. ASSUME NEW id \in ids, MaxPendingTicks > 0
      PROVE  filled[id] = 0
  <2>1. PartialRatio = RatioDen
    BY <1>3 DEF NothingCutShort
  <2>2. id \in book /\ id \in OrderIds
    BY <1>1, <1>2 DEF LInv, Ledger, Books, ContextsAreLive, Settled
  <2>3. status[id] # "filled"
    BY <2>2, WorkingInBook DEF LInv
  <2> QED
    BY <2>1, <2>2, <2>3 DEF LInv, Ledger, WholeFills
<1>4. ASSUME NEW id \in Issued
      PROVE  reported'[id] = filled[id]
  <2>1. id \in OrderIds
    BY DEF Issued
  <2>2. reported[id] = filled[id]
    BY <1>1 DEF ReportsMatchLedger
  <2> QED
    BY <1>2, <1>3, <2>1, <2>2
<1> QED
  BY <1>1, <1>4 DEF ReportsMatchLedger, Issued

LEMMA PollReports ==
  ASSUME LInv, ReportsMatchLedger, PollBroker
  PROVE  ReportsMatchLedger'
<1> USE DEF PollBroker, journalVars, Settled
<1>1. universeTick \in Nat /\ updates = {}
  BY DEF LInv, GInv, IInv, Place, LoopTypeOK, UpdatesFresh
<1>2. UNCHANGED nextId /\ \A id \in OrderIds : id \notin updates' => filled'[id] = filled[id]
  BY <1>1, PollEffect DEF PollOrderUpdates, LInv
<1> QED
  BY <1>1, <1>2 DEF ReportsMatchLedger, Issued

LEMMA ApplyReports ==
  ASSUME LInv, NothingCutShort, ReportsMatchLedger, NEW id \in OrderIds,
         ApplyPartial(id) \/ ApplyFill(id) \/ ApplyExpiry(id), Settled'
  PROVE  ReportsMatchLedger'
<1>1. /\ id \in updates /\ UNCHANGED brokerVars /\ Settled
  BY DEF ApplyPartial, ApplyFill, ApplyExpiry, Abort, Settled
<1>2. updates' = updates \ {id}
  BY DEF ApplyPartial, ApplyFill, ApplyExpiry, Abort, Settled
<1>3. ASSUME ApplyExpiry(id)
      PROVE  filled[id] = 0
  <2>1. status[id] = "canceled"
    BY <1>3 DEF ApplyExpiry
  <2>2. MaxTicksToFill > 0
    BY <1>1, <2>1 DEF LInv, Ledger, UpdatesNew
  <2> QED
    BY <2>1, <2>2 DEF NothingCutShort, LInv, Ledger, WholeFills
<1>4. reported' = [reported EXCEPT ![id] = filled[id]]
  BY <1>3 DEF ApplyPartial, ApplyFill, ApplyExpiry, Report
<1>5. reported \in [OrderIds -> Nat]
  BY DEF LInv, GInv, IInv, Core, PathTypeOK
<1> QED
  BY <1>1, <1>2, <1>4, <1>5 DEF ReportsMatchLedger, Issued, brokerVars

LEMMA PlacingReports ==
  ASSUME LInv, ReportsMatchLedger, NEW o \in Order, Places(o), Settled'
  PROVE  ReportsMatchLedger'
<1>1. Settled /\ updates = {} /\ updates' = {} /\ Placing(o)
  BY DEF Places, Placing
<1>2. reported' = [reported EXCEPT ![nextId] = SubmitFilled(o)]
  BY <1>1, SubmitWhole, PlacingLedger
     DEF Placing, SubmitStep, RecordRefused, RecordPending, RecordFill, Report, LInv, GInv, IInv,
         Core, PathTypeOK, Books, Ledger, KeysBehind, IsDuplicate
<1>3. reported \in [OrderIds -> Nat]
  BY DEF LInv, GInv, IInv, Core, PathTypeOK
<1>4. Issued' = Issued \cup {nextId} /\ Issued \subseteq OrderIds
  BY <1>1, PlacingEffect, WorkingInBook DEF LInv, GInv
<1>5. \A id \in Issued : reported[id] = filled[id]
  BY <1>1 DEF ReportsMatchLedger
<1> QED
  BY <1>1, <1>2, <1>3, <1>4, <1>5, PlacingLedger DEF ReportsMatchLedger, LInv

LEMMA NextReports == LInv /\ NothingCutShort /\ ReportsMatchLedger /\ [Next]_vars
                       => ReportsMatchLedger'
<1> SUFFICES ASSUME LInv, NothingCutShort, ReportsMatchLedger, [Next]_vars, Settled'
             PROVE  ReportsMatchLedger'
  BY DEF ReportsMatchLedger
<1>1. CASE Idle
  BY <1>1 DEF Idle, ReportsMatchLedger, brokerVars, Issued
<1>2. CASE PollBroker
  BY <1>2, PollReports
<1>3. ASSUME NEW ids \in SUBSET ctx, GivesUp(ids)
      PROVE  ReportsMatchLedger'
  BY <1>3, GivesUpReports
<1>4. ASSUME NEW id \in OrderIds, ApplyPartial(id) \/ ApplyFill(id) \/ ApplyExpiry(id)
      PROVE  ReportsMatchLedger'
  BY <1>4, ApplyReports
<1>5. ASSUME NEW o \in Order, Places(o)
      PROVE  ReportsMatchLedger'
  BY <1>5, PlacingReports
<1> QED
  BY <1>1, <1>2, <1>3, <1>4, <1>5, Kinds DEF LInv

(***************************************************************************)
(* What works to close a position.                                         *)
(***************************************************************************)

\* Outside of a close loop, closes that only become fewer stay single and
\* covered.
LEMMA FewerCloses ==
  ASSUME ClosesOnce, Closes' \subseteq Closes, todo' = {},
         \A a \in Closes' : /\ orders'[a] = orders[a]
                            /\ orders[a].qty <= positions'[KeyOf(orders[a])]
  PROVE  ClosesOnce'
BY DEF ClosesOnce, KeyOf

LEMMA NoNewCloses ==
  ASSUME GInv, UNCHANGED orders, book' \cup updates' \subseteq book \cup updates,
         \A id \in book' \cup updates' : status'[id] = status[id] \/ id \in book
  PROVE  Closes' \subseteq Closes /\ \A a \in Closes' : orders'[a] = orders[a]
BY WorkingInBook DEF Closes, IsOpen

LEMMA LifecycleCloses ==
  ASSUME GInv, ClosesOnce, ExpirePendingOrders \/ PollBroker \/ BeginDecisions
  PROVE  ClosesOnce'
<1>1. todo' = {} /\ positions' = positions
  BY DEF ExpirePendingOrders, PollBroker, BeginDecisions, GInv, IInv, Place, TodoHeld
<1>2. CASE ExpirePendingOrders
  <2>1. /\ UNCHANGED <<orders, updates>> /\ book' \subseteq book /\ updates = {}
    BY <1>2 DEF ExpirePendingOrders, CancelOrders, GInv, IInv, Place, UpdatesFresh
  <2> QED
    BY <1>1, <2>1, NoNewCloses, FewerCloses DEF ClosesOnce
<1>3. CASE PollBroker
  <2>1. universeTick \in Nat /\ updates = {}
    BY <1>3 DEF PollBroker, GInv, IInv, Place, LoopTypeOK, UpdatesFresh
  <2>2. UNCHANGED orders /\ book' \subseteq book /\ updates' \subseteq book
    BY <1>3, <2>1, PollEffect DEF PollBroker, PollOrderUpdates
  <2> QED
    BY <1>1, <2>1, <2>2, NoNewCloses, FewerCloses DEF ClosesOnce
<1>4. CASE BeginDecisions
  <2>1. UNCHANGED <<orders, book, status, updates>>
    BY <1>4 DEF BeginDecisions, brokerVars
  <2> QED
    BY <1>1, <2>1, NoNewCloses, FewerCloses DEF ClosesOnce
<1> QED
  BY <1>2, <1>3, <1>4

\* The fill of a close lowers the position it alone was to close.
LEMMA ApplyCloses ==
  ASSUME GInv, ClosesOnce, NEW id \in OrderIds,
         ApplyPartial(id) \/ ApplyFill(id) \/ ApplyExpiry(id)
  PROVE  ClosesOnce'
<1>1. /\ id \in updates /\ UNCHANGED brokerVars /\ updates' \subseteq updates
      /\ todo' = {}
  BY DEF ApplyPartial, ApplyFill, ApplyExpiry, Abort, GInv, IInv, Place, TodoHeld
<1>2. Closes' \subseteq Closes /\ \A a \in Closes' : orders'[a] = orders[a]
  BY <1>1, NoNewCloses DEF brokerVars
<1>3. CASE UNCHANGED positions
  BY <1>1, <1>2, <1>3, FewerCloses DEF ClosesOnce
<1>4. CASE /\ ApplyFill(id) /\ updates' = updates \ {id}
           /\ ApplySucceeds(orders[id], filled[id])
           /\ positions' = Applied(positions, orders[id], filled[id])
  <2> DEFINE o == orders[id]
             q == filled[id]
  <2>1. /\ o \in Order /\ q \in Nat /\ KeyOf(o) \in Keys /\ id \notin book
        /\ positions \in [Keys -> Nat] /\ status[id] = "filled"
    BY <1>1, <1>4, UpdateKnown, KeyOfType DEF ApplyFill, GInv, IInv, Core, PathTypeOK
  <2>2. id \notin Closes'
    BY <1>1, <1>4, <2>1 DEF Closes, brokerVars
  <2>3. ASSUME NEW a \in Closes'
        PROVE  orders[a].qty <= positions'[KeyOf(orders[a])]
    <3>1. a \in Closes /\ a # id /\ orders[a].qty <= positions[KeyOf(orders[a])]
      BY <1>2, <2>2 DEF ClosesOnce
    <3>2. CASE KeyOf(orders[a]) # KeyOf(o)
      BY <1>4, <2>1, <3>1, <3>2 DEF Applied
    <3>3. CASE KeyOf(orders[a]) = KeyOf(o)
      <4>1. IsOpen(o)
        BY <1>1, <2>1, <3>1, <3>3 DEF ClosesOnce, Closes
      <4>2. positions'[KeyOf(o)] = positions[KeyOf(o)] + q
        BY <1>4, <2>1, <4>1 DEF Applied
      <4>3. orders[a].qty \in Nat /\ positions[KeyOf(o)] \in Nat
        BY <1>1, <2>1, <3>1 DEF Closes, GInv, IInv, Core, Known, BrokerTypeOK, PathTypeOK,
           Place, LoopTypeOK, Order
      <4> HIDE DEF o, q
      <4> QED
        BY <2>1, <3>1, <3>3, <4>2, <4>3
    <3> QED
      BY <3>2, <3>3
  <2> QED
    BY <1>1, <1>2, <2>3, FewerCloses
<1> QED
  BY <1>3, <1>4 DEF ApplyPartial, ApplyFill, ApplyExpiry, Abort

LEMMA TurnCloses ==
  ASSUME GInv, RollsAlone, ClosesOnce,
         FinishDecisions \/ EndTick \/ Finished \/ UNCHANGED vars
  PROVE  ClosesOnce'
<1>1. UNCHANGED <<orders, book, status, updates, positions>>
  BY DEF FinishDecisions, EndTick, Finished, vars, brokerVars, loopVars
<1>2. CASE FinishDecisions \/ EndTick
  <2>1. todo' = {}
    BY <1>2 DEF FinishDecisions, EndTick, RollsAlone
  <2> QED
    BY <1>1, <2>1, NoNewCloses, FewerCloses DEF ClosesOnce
<1>3. CASE UNCHANGED vars
  BY <1>1, <1>3 DEF vars, loopVars, ClosesOnce, Closes
<1> QED
  BY <1>2, <1>3 DEF Finished

LEMMA DecisionCloses ==
  ASSUME GInv, ClosesOnce, NEW s \in Symbols,
         \/ ClosedMarket(s) \/ NoOrderPlaced(s) \/ GuardReject(s)
         \/ RollCancelPending(s) \/ RollActivate(s)
  PROVE  ClosesOnce'
<1>1. /\ todo' = {} /\ UNCHANGED <<positions, updates>>
  BY DEF ClosedMarket, NoOrderPlaced, GuardReject, RollCancelPending, RollActivate, Skip,
     Serve, Served, GInv, IInv, Place, TodoHeld
<1>2. /\ UNCHANGED orders /\ book' \subseteq book
      /\ updates = {}
  BY DEF ClosedMarket, NoOrderPlaced, GuardReject, RollCancelPending, RollActivate, Skip,
     Serve, brokerVars, CancelOrders, GInv, IInv, Place, UpdatesFresh
<1> QED
  BY <1>1, <1>2, NoNewCloses, FewerCloses DEF ClosesOnce

\* A roll closes only when nothing of the symbol waits.
LEMMA RollBeginCloses ==
  ASSUME GInv, ClosesOnce, NEW s \in Symbols, RollBegin(s)
  PROVE  ClosesOnce'
<1> USE DEF RollBegin
<1>1. UNCHANGED <<orders, book, status, updates, positions>> /\ updates = {}
  BY DEF brokerVars, Serve, GInv, IInv, Place, UpdatesFresh
<1>2. Closes' = Closes
  BY <1>1 DEF Closes, IsOpen
<1>3. ASSUME NEW a \in Closes
      PROVE  KeyOf(orders[a]) \notin todo'
  <2>1. a \in ctx
    BY <1>1 DEF Closes, GInv, IInv, Core, NoOrphanOrder
  <2>2. orders[a].sym # s
    BY <2>1 DEF Pending
  <2>3. KeyOf(orders[a])[1] # s
    BY <2>2 DEF KeyOf
  <2> QED
    BY <2>3 DEF OldPositions
<1> QED
  BY <1>1, <1>2, <1>3 DEF ClosesOnce, KeyOf

\* With a broker that holds orders back a submission fills nothing.
LEMMA PlacingDelayed ==
  ASSUME GInv, Delayed, NEW o \in Order, Places(o)
  PROVE  /\ positions' = positions
         /\ nextId \notin Closes
         /\ Closes' \subseteq Closes \cup {nextId}
         /\ nextId \in Closes' => ~IsOpen(o)
         /\ orders'[nextId] = o
         /\ \A a \in Closes : orders'[a] = orders[a]
<1>1. Placing(o) /\ updates = {} /\ updates' = {} /\ SubmitStep(o)
  BY DEF Places, Placing
<1>2. positions' = positions
  BY <1>1, SubmitWhole DEF SubmitStep, RecordRefused, RecordPending, RecordFill
<1>3. book \subseteq Issued /\ Issued \subseteq OrderIds /\ nextId \notin Issued
  BY <1>1, WorkingInBook, PlacingLedger
<1>4. nextId \notin Closes /\ \A a \in Closes : a \in OrderIds /\ a # nextId
  BY <1>1, <1>3 DEF Closes
<1>5. book' \subseteq book \cup {nextId} /\ orders'[nextId] = o
      /\ \A a \in OrderIds : a # nextId => orders'[a] = orders[a] /\ status'[a] = status[a]
  BY <1>1, PlacingLedger
<1>6. Closes' \subseteq Closes \cup {nextId}
  BY <1>1, <1>3, <1>5 DEF Closes, IsOpen
<1>7. nextId \in Closes' => ~IsOpen(o)
  BY <1>5 DEF Closes, IsOpen
<1> QED
  BY <1>2, <1>4, <1>5, <1>6, <1>7

LEMMA OpenCloses ==
  ASSUME GInv, Delayed, ClosesOnce, NEW s \in Symbols, NEW p \in PositionSides,
         OpenDecision(s, p)
  PROVE  ClosesOnce'
<1> DEFINE o == OpenOrder(s, p)
<1>1. o \in Order /\ Places(o)
  BY OpenDecisionPlaces
<1>2. IsOpen(o)
  BY DEF OpenOrder, IsOpen, OpeningSide, PositionSides
<1>3. todo' = {}
  BY DEF OpenDecision, SubmitAndRecord, Serve, Served, Abort, GInv, IInv, Place, TodoHeld
<1> HIDE DEF o
<1>4. Closes' \subseteq Closes
  BY <1>1, <1>2, PlacingDelayed
<1> QED
  BY <1>1, <1>3, <1>4, FewerCloses, PlacingDelayed DEF ClosesOnce

\* The close loop leaves a position as soon as it has asked for its close.
LEMMA RollCloseCloses ==
  ASSUME GInv, Delayed, ClosesOnce, NEW k \in Keys, RollCloseOne(k)
  PROVE  ClosesOnce'
<1> DEFINE o == CloseOrder(k)
<1>1. o \in Order /\ Places(o) /\ pc = "rollclose" /\ k \in todo
  BY CloseLoopPlaces DEF RollCloseOne
<1>2. KeyOf(o) = k /\ o.qty = positions[k]
  BY <1>1, CloseOrderType DEF CloseOrder, GInv, IInv, Core, Place, TodoHeld
<1>3. /\ todo' \subseteq todo \ {k}
      /\ pc' # "rollclose" => todo' = {}
  BY DEF RollCloseOne, SubmitAndRecord, Abort, NextLoop
<1>4. /\ positions' = positions /\ nextId \notin Closes
      /\ Closes' \subseteq Closes \cup {nextId} /\ orders'[nextId] = o
      /\ \A a \in Closes : orders'[a] = orders[a]
  BY <1>1, PlacingDelayed
<1> HIDE DEF o
<1>5. ASSUME NEW a \in Closes
      PROVE  /\ KeyOf(orders[a]) \notin todo
             /\ orders[a].qty <= positions[KeyOf(orders[a])]
  BY <1>1, <1>5 DEF ClosesOnce
<1>6. \A a \in Closes', b \in Closes' : KeyOf(orders'[a]) = KeyOf(orders'[b]) => a = b
  <2> SUFFICES ASSUME NEW a \in Closes', NEW b \in Closes',
                      KeyOf(orders'[a]) = KeyOf(orders'[b])
               PROVE  a = b
    OBVIOUS
  <2>1. CASE a = nextId /\ b # nextId
    BY <1>1, <1>2, <1>4, <1>5, <2>1
  <2>2. CASE b = nextId /\ a # nextId
    BY <1>1, <1>2, <1>4, <1>5, <2>2
  <2>3. CASE a # nextId /\ b # nextId
    BY <1>4, <2>3 DEF ClosesOnce
  <2> QED
    BY <2>1, <2>2, <2>3
<1>7. positions[k] \in Nat
  BY DEF GInv, IInv, Core, PathTypeOK
<1>8. ASSUME NEW a \in Closes'
      PROVE  /\ orders'[a].qty <= positions'[KeyOf(orders'[a])]
             /\ KeyOf(orders'[a]) \notin todo'
  BY <1>2, <1>3, <1>4, <1>5, <1>7
<1> QED
  BY <1>3, <1>6, <1>8 DEF ClosesOnce, KeyOf

LEMMA NextCloses ==
  GInv /\ RollsAlone /\ ClosesOnce /\ [Next]_vars => ClosesOnce'
<1> SUFFICES ASSUME GInv, RollsAlone, ClosesOnce, [Next]_vars PROVE ClosesOnce'
  OBVIOUS
<1>1. CASE Lifecycle
  BY <1>1, LifecycleCloses, ApplyCloses DEF Lifecycle
<1>2. CASE Decide
  BY <1>2, DecisionCloses, RollBeginCloses, OpenCloses DEF Decide, RollsAlone
<1>3. CASE Closing
  <2>1. \A k \in Keys : ~ExitPosition(k)
    BY DEF ExitPosition, ClosesOnce
  <2> QED
    BY <1>3, <2>1, RollCloseCloses DEF Closing, RollsAlone
<1>4. CASE FinishDecisions \/ EndTick \/ Finished \/ UNCHANGED vars
  BY <1>4, TurnCloses
<1> QED
  BY <1>1, <1>2, <1>3, <1>4 DEF Next

\* A sum of one or no quantity.
LEMMA OnceCovered ==
  ASSUME LInv, RollsAlone => ClosesOnce, RollsAlone \/ ~Delayed
  PROVE  ClosesCovered
<1> SUFFICES ASSUME NEW k \in Keys
             PROVE  LET closing == {id \in book \cup updates :
                                      /\ KeyOf(orders[id]) = k /\ ~IsOpen(orders[id])
                                      /\ status[id] # "canceled"}
                        asked == [id \in closing |-> orders[id].qty]
                    IN  SumOver(asked, closing) <= positions[k]
  BY DEF ClosesCovered, SumOver
<1> DEFINE closing == {id \in book \cup updates :
                         /\ KeyOf(orders[id]) = k /\ ~IsOpen(orders[id])
                         /\ status[id] # "canceled"}
           asked == [id \in closing |-> orders[id].qty]
<1> SUFFICES SumOver(asked, closing) <= positions[k]
  OBVIOUS
<1>1. positions[k] \in Nat
  BY DEF LInv, GInv, IInv, Core, PathTypeOK
<1>2. ~Delayed => closing = {}
  BY DEF LInv, GInv, Ledger, UpdatesNew, BrokerIInv, BookMatchesLedger
<1>3. CASE closing = {}
  <2> HIDE DEF closing
  <2>1. SumOver(asked, closing) = 0
    BY <1>3, SumEmpty
  <2> QED
    BY <1>1, <2>1
<1>4. CASE closing # {}
  <2>1. ClosesOnce
    BY <1>2, <1>4
  <2>2. PICK x \in closing : TRUE
    BY <1>4
  <2>3. x \in Closes /\ KeyOf(orders[x]) = k
    BY DEF Closes
  <2>4. closing = {x}
    BY <2>1, <2>2, <2>3 DEF ClosesOnce, Closes
  <2>5. asked[x] = orders[x].qty /\ orders[x].qty <= positions[k]
    BY <2>1, <2>2, <2>3 DEF ClosesOnce
  <2>6. orders[x].qty \in Nat
    BY <2>3 DEF Closes, LInv, GInv, IInv, Core, Known, BrokerTypeOK, PathTypeOK, Place,
       LoopTypeOK, Order
  <2> HIDE DEF closing, asked
  <2>7. SumOver(asked, {} \cup {x}) = asked[x] + SumOver(asked, {})
    BY <2>5, <2>6, SumAdd, FS_EmptySet
  <2>8. SumOver(asked, {}) = 0 /\ closing = {} \cup {x}
    BY <2>4, SumEmpty
  <2> QED
    BY <2>5, <2>6, <2>7, <2>8
<1> QED
  BY <1>3, <1>4

(***************************************************************************)
(* The position limit, with a broker that fills at once.                   *)
(***************************************************************************)

KeysOf(s) == {k \in Keys : k[1] = s}

LEMMA KeysOfFinite ==
  ASSUME NEW s \in Symbols
  PROVE  IsFiniteSet(KeysOf(s))
<1> DEFINE side(p) == {k \in Keys : k[1] = s /\ k[3] = p}
<1>1. ASSUME NEW p \in PositionSides
      PROVE  IsFiniteSet(side(p))
  <2> DEFINE f == [c \in Contracts |-> <<s, c, p>>]
  <2>1. \A k \in side(p) : k[2] \in Contracts /\ k = f[k[2]]
    BY DEF Keys
  <2>2. \A c \in Contracts : f[c] \in side(p)
    BY DEF Keys
  <2>3. f \in Surjection(Contracts, side(p))
    BY <2>1, <2>2 DEF Surjection
  <2>4. IsFiniteSet(Contracts)
    BY RuntimeConfig
  <2> HIDE DEF f, side
  <2> QED
    BY <2>3, <2>4, FS_Surjection
<1>2. KeysOf(s) = side("long") \cup side("short")
  BY DEF KeysOf, Keys, PositionSides
<1>3. "long" \in PositionSides /\ "short" \in PositionSides
  BY DEF PositionSides
<1> HIDE DEF side
<1> QED
  BY <1>1, <1>2, <1>3, FS_Union

LEMMA ExposureIs == \A s : Exposure(s) = SumOver(positions, KeysOf(s))
BY DEF Exposure, SumOver, KeysOf

LEMMA ExposureWillBe == (\A s : Exposure(s) = SumOver(positions, KeysOf(s)))'
BY ExposureIs, PTL

\* One position that grows by q: the exposure of its symbol grows by as much,
\* that of another symbol not at all.
LEMMA ExposureChange ==
  ASSUME PathTypeOK, PathTypeOK', NEW k \in Keys, NEW s \in Symbols,
         \A j \in Keys : j # k => positions'[j] = positions[j]
  PROVE  /\ Exposure(s) \in Int
         /\ Exposure(s)' = Exposure(s) + (IF k[1] = s THEN positions'[k] - positions[k] ELSE 0)
<1>1. \A j \in Keys : positions[j] \in Int /\ positions'[j] \in Int
  BY DEF PathTypeOK
<1>2. Exposure(s) = SumOver(positions, KeysOf(s))
  BY ExposureIs
<1>3. Exposure(s)' = SumOver(positions', KeysOf(s))
  BY ExposureWillBe
<1>4. IsFiniteSet(KeysOf(s)) /\ KeysOf(s) \subseteq Keys
  BY KeysOfFinite DEF KeysOf
<1>5. SumOver(positions, KeysOf(s)) \in Int
  BY <1>1, <1>4, SumInt
<1>6. CASE k[1] = s
  <2>1. k \in KeysOf(s)
    BY <1>6 DEF KeysOf
  <2>2. SumOver(positions', KeysOf(s))
          = SumOver(positions, KeysOf(s)) + (positions'[k] - positions[k])
    BY <1>1, <1>4, <2>1, SumChange
  <2> QED
    BY <1>2, <1>3, <1>5, <1>6, <2>2
<1>7. CASE k[1] # s
  <2>1. \A j \in KeysOf(s) : positions'[j] = positions[j]
    BY <1>7 DEF KeysOf
  <2>2. SumOver(positions', KeysOf(s)) = SumOver(positions, KeysOf(s))
    BY <1>4, <2>1, SumSame
  <2> QED
    BY <1>2, <1>3, <1>5, <1>7, <2>2
<1> QED
  BY <1>6, <1>7

\* What is bought at once fits the limit the guard asked about; what is sold
\* lowers the exposure.
LEMMA NextLimit ==
  ASSUME LInv, PathTypeOK', ~Delayed, PositionWithinLimit, [Next]_vars
  PROVE  PositionWithinLimit'
<1> SUFFICES ASSUME PositionLimit > 0, NEW s \in Symbols,
                    Exposure(s) <= PositionLimit
             PROVE  Exposure(s)' <= PositionLimit
  BY DEF PositionWithinLimit
<1>1. PathTypeOK /\ updates = {} /\ PositionLimit \in Nat /\ OrderQty \in Nat
  BY RuntimeConfig DEF LInv, GInv, IInv, Core, Ledger, UpdatesNew
<1>2. CASE positions' = positions
  <2>1. Exposure(s)' = Exposure(s)
    BY <1>2, ExposureIs, ExposureWillBe
  <2> QED
    BY <2>1
<1>3. ASSUME NEW o \in Order, Placing(o)
      PROVE  /\ KeyOf(o) \in Keys /\ KeyOf(o)[1] = o.sym
             /\ \A j \in Keys : j # KeyOf(o) => positions'[j] = positions[j]
             /\ positions[KeyOf(o)] \in Nat /\ positions'[KeyOf(o)] \in Nat
             /\ ~IsOpen(o) => positions'[KeyOf(o)] <= positions[KeyOf(o)]
  BY <1>1, <1>3, SubmitPositions, KeyOfType DEF Placing, LInv, GInv, IInv, PathTypeOK
<1>4. CASE Closing
  <2>1. PICK k \in Keys : RollCloseOne(k) \/ ExitPosition(k)
    BY <1>4 DEF Closing
  <2> DEFINE o == CloseOrder(k)
  <2>2. o \in Order /\ Placing(o) /\ ~IsOpen(o)
    BY <2>1, ClosePlaces, CloseOrderProper DEF LInv, GInv, RollCloseOne, ExitPosition
  <2> HIDE DEF o
  <2>3. /\ Exposure(s) \in Int
        /\ Exposure(s)' = Exposure(s)
             + (IF KeyOf(o)[1] = s THEN positions'[KeyOf(o)] - positions[KeyOf(o)] ELSE 0)
    BY <1>1, <1>3, <2>2, ExposureChange
  <2>4. /\ positions[KeyOf(o)] \in Nat /\ positions'[KeyOf(o)] \in Nat
        /\ positions'[KeyOf(o)] <= positions[KeyOf(o)]
    BY <1>3, <2>2
  <2> QED
    BY <1>1, <2>3, <2>4
<1>5. ASSUME NEW z \in Symbols, NEW p \in PositionSides, OpenDecision(z, p)
      PROVE  Exposure(s)' <= PositionLimit
  <2> DEFINE o == OpenOrder(z, p)
  <2>1. o \in Order /\ Placing(o) /\ o.sym = z /\ o.qty = OrderQty
    BY <1>5, OpenPlaces, OpenOrderProper DEF LInv, GInv, OpenOrder
  <2>2. IsOpen(o)
    BY DEF OpenOrder, IsOpen, OpeningSide, PositionSides
  <2>3. z = s => Exposure(s) + OrderQty <= PositionLimit
    <3>1. ~OverPositionLimit(z)
      BY <1>5 DEF OpenDecision
    <3>2. Exposure(z) \in Int
      BY <1>1, <1>3, <2>1, ExposureChange
    <3> QED
      BY <1>1, <3>1, <3>2 DEF OverPositionLimit
  <2> HIDE DEF o
  <2>4. /\ Exposure(s) \in Int
        /\ Exposure(s)' = Exposure(s)
             + (IF z = s THEN positions'[KeyOf(o)] - positions[KeyOf(o)] ELSE 0)
    BY <1>1, <1>3, <2>1, ExposureChange
  <2>5. positions'[KeyOf(o)] <= positions[KeyOf(o)] + OrderQty
    <3>1. SubmitFilled(o) \in Nat /\ SubmitFilled(o) <= OrderQty
      BY <2>1, SubmitOutcome
    <3>2. positions[KeyOf(o)] \in Nat /\ KeyOf(o) \in Keys
      BY <1>3, <2>1
    <3>3. CASE positions' = positions
      BY <1>1, <3>2, <3>3
    <3>4. CASE ApplyFillNow(o)
      <4>1. positions'[KeyOf(o)] = positions[KeyOf(o)] + SubmitFilled(o)
        BY <1>1, <2>2, <3>2, <3>4 DEF ApplyFillNow, Applied, PathTypeOK
      <4> QED
        BY <1>1, <3>1, <3>2, <4>1
    <3> QED
      BY <2>1, <3>3, <3>4 DEF Placing, SubmitStep, RecordRefused, RecordPending
  <2>6. positions[KeyOf(o)] \in Nat /\ positions'[KeyOf(o)] \in Nat
    BY <1>3, <2>1
  <2> QED
    BY <1>1, <2>3, <2>4, <2>5, <2>6
<1>6. CASE Idle \/ PollBroker \/ \E ids \in SUBSET ctx : GivesUp(ids)
  BY <1>2, <1>6 DEF Idle, PollBroker, GivesUp
<1>7. CASE Decide
  <2>1. \A z \in Symbols : Pending(z) \in SUBSET ctx
    BY DEF Pending
  <2> QED
    BY <1>5, <1>6, <1>7, <2>1, DecisionIdles, RollGivesUp DEF Decide, LInv
<1>8. CASE Lifecycle
  <2>1. Expired \in SUBSET ctx
    BY DEF Expired
  <2>2. \A id \in OrderIds : ~(ApplyPartial(id) \/ ApplyFill(id) \/ ApplyExpiry(id))
    BY <1>1 DEF ApplyPartial, ApplyFill, ApplyExpiry
  <2> QED
    BY <1>6, <1>8, <2>1, <2>2, ExpireGivesUp, TurnIdles DEF Lifecycle, LInv
<1>9. CASE FinishDecisions \/ EndTick \/ Finished \/ UNCHANGED vars
  BY <1>6, <1>9, TurnIdles DEF LInv
<1> QED
  BY <1>4, <1>7, <1>8, <1>9 DEF Next

LEMMA InitLimit == Init => PositionWithinLimit
<1> SUFFICES ASSUME Init, PositionLimit > 0, NEW s \in Symbols PROVE Exposure(s) <= PositionLimit
  BY DEF PositionWithinLimit
<1> DEFINE S == KeysOf(s)
<1>1. IsFiniteSet(S) /\ \A k \in S : positions[k] = 0
  BY KeysOfFinite DEF KeysOf, Init
<1> HIDE DEF S
<1>2. SumOver(positions, S) = 0
  BY <1>1, SumZero
<1>3. Exposure(s) = 0 /\ PositionLimit \in Nat
  BY <1>2, ExposureIs, RuntimeConfig DEF S
<1> QED
  BY <1>3

(***************************************************************************)
(* The theorems.                                                           *)
(***************************************************************************)

\* While no exception was raised, every pending context stands for an order that
\* works at the broker or whose end is about to be applied.
THEOREM RuntimeContextsAreLive == Spec => []ContextsAreLive
<1>1. LInv => ContextsAreLive
  BY DEF LInv, Ledger, Books
<1> QED
  BY <1>1, SpecLInv, PTL

\* While no exception was raised, each order has one final lifecycle event from
\* the moment the broker's ledger and the applied updates say it ended.
THEOREM RuntimeEventsMatchLedger == Spec => []EventsMatchLedger
<1>1. LInv => EventsMatchLedger
  BY DEF LInv, Ledger, Books
<1> QED
  BY <1>1, SpecLInv, PTL

\* While no exception was raised, each position is the sum of what the completed
\* orders of its key filled: no fill is lost, applied twice or to another key.
THEOREM RuntimePositionsMatchFills == Spec => []PositionsMatchFills
<1>1. LInv => PositionsMatchFills
  BY DEF LInv, Ledger, Books
<1> QED
  BY <1>1, SpecLInv, PTL

\* Where no order is given up after a part of it filled, the last event of every
\* order reports the quantity the broker executed, roll cancels included.
THEOREM RuntimeReportsMatchLedger ==
  ASSUME NothingCutShort
  PROVE  Spec => []ReportsMatchLedger
<1>1. Init => ReportsMatchLedger
  BY BrokerConfig DEF Init, BrokerInit, ReportsMatchLedger, Issued, OrderIds
<1>2. LInv /\ LInv' /\ ReportsMatchLedger /\ [Next]_vars => ReportsMatchLedger'
  BY NextReports
<1> QED
  BY <1>1, <1>2, SpecLInv, PTL DEF Spec

\* With no exits of the executor beside the roll closes, or a broker that fills at
\* once, what works to close a position never exceeds it.
THEOREM RuntimeClosesCovered ==
  ASSUME ~ExitsConfigured \/ ~Delayed
  PROVE  Spec => []ClosesCovered
<1>1. Init => (RollsAlone => ClosesOnce)
  BY DEF Init, BrokerInit, ClosesOnce, Closes
<1>2. LInv /\ (RollsAlone => ClosesOnce) /\ [Next]_vars => (RollsAlone => ClosesOnce)'
  BY NextCloses DEF LInv, RollsAlone
<1>3. LInv /\ (RollsAlone => ClosesOnce) => ClosesCovered
  BY OnceCovered DEF RollsAlone
<1> QED
  BY <1>1, <1>2, <1>3, SpecLInv, PTL DEF Spec

\* With a broker that fills at once, the quantity of a symbol over its contracts
\* and sides never exceeds its configured maximum.
THEOREM RuntimePositionWithinLimit ==
  ASSUME ~Delayed
  PROVE  Spec => []PositionWithinLimit
<1>1. Init => PositionWithinLimit
  BY InitLimit
<1>2. LInv /\ LInv' /\ PositionWithinLimit /\ [Next]_vars => PositionWithinLimit'
  BY NextLimit DEF LInv, GInv, IInv, Core
<1> QED
  BY <1>1, <1>2, SpecLInv, PTL DEF Spec
=============================================================================
