-------------------------- MODULE RuntimeProperties --------------------------
(***************************************************************************)
(* What the order path of Runtime is expected to guarantee.                *)
(***************************************************************************)
EXTENDS Runtime

LoopTypeOK ==
  /\ pc \in {"expire", "poll", "apply", "route", "rollclose", "exit", "done", "stopped"}
  /\ loopTick \in Nat /\ universeTick \in Nat
  /\ unserved \subseteq Symbols
  /\ todo \subseteq Keys
  /\ updates \subseteq OrderIds

PathTypeOK ==
  /\ tick \in Nat
  /\ ctx \subseteq OrderIds
  /\ ctxFilled \in [OrderIds -> Nat]
  /\ keyTick \in Nat
  /\ keys \subseteq Symbols \X {"buy", "sell"} \X PositionSides \X Contracts
  /\ orderTick \in [Symbols -> Nat \cup {-1}]
  /\ positions \in [Keys -> Nat]
  /\ reported \in [OrderIds -> Nat]
  /\ endings \in [OrderIds -> Nat]
  /\ orderedAt \in [OrderIds -> Nat]

HoldTypeOK ==
  /\ rejectTicks \subseteq Nat
  /\ haltUntil \in Nat
  /\ active \in [Symbols -> Contracts \cup {NoContract}]
  /\ cooldownUntil \in [Symbols -> Nat]

\* Every variable has the type of the code's attribute it stands for; no
\* position ever goes below zero.
TypeOK == BrokerTypeOK /\ LoopTypeOK /\ PathTypeOK /\ HoldTypeOK

Issued == {id \in OrderIds : id < nextId}

\* The orders the broker took.
Accepted == {id \in Issued : status[id] # "rejected"}

Openings == {id \in Accepted : IsOpen(orders[id])}

(***************************************************************************)
(* Runtime and broker agree on which orders are alive.                     *)
(***************************************************************************)

\* The broker never works an order the runtime has no context for: such an
\* order could fill with nobody to cancel it.  It rests on the duplicate guard,
\* asked only after the broker has the order (record_broker_result), never
\* hitting an order the broker holds back.
NoOrphanOrder == book \subseteq ctx

\* While no exception has been raised, every context stands for an order that
\* still works or whose update is about to be applied: a context without one
\* blocks the openings of its key for good.
ContextsAreLive ==
  StopOnException /\ pc # "stopped" => ctx \subseteq book \cup updates

\* Two opening orders of the same symbol, side and contract never work at the
\* broker together, however far apart they were decided (blocked_by_pending).
OneWorkingOpening ==
  \A a, b \in book :
    IsOpen(orders[a]) /\ OrderKey(orders[a]) = OrderKey(orders[b]) => a = b

\* What works to close a position never exceeds it: the assertions of
\* PositionLifecycle (cannot_close_missing_position and
\* close_quantity_exceeds_position) are not hit by a late fill.
ClosesCovered ==
  \A k \in Keys :
    LET closing == {id \in book \cup updates :
                      /\ KeyOf(orders[id]) = k /\ ~IsOpen(orders[id])
                      /\ status[id] # "canceled"}
        asked == [id \in closing |-> orders[id].qty]
    IN  MapThenSumSet(LAMBDA id : asked[id], closing) <= positions[k]

(***************************************************************************)
(* Positions and lifecycle events say what the broker executed.            *)
(***************************************************************************)

\* The quantity of k that the orders of ids opened, less what they closed.
Booked(k, ids) ==
  LET units == [id \in ids |-> IF IsOpen(orders[id]) THEN filled[id] ELSE -filled[id]]
  IN  MapThenSumSet(LAMBDA id : units[id], {id \in ids : KeyOf(orders[id]) = k})

Ended == {id \in Issued \ updates : status[id] \in Terminal}

Settled == StopOnException /\ pc # "stopped"

\* A position is exactly what the completed orders of its key made of it: each
\* fill is applied once, polled or immediate.
PositionsMatchFills ==
  Settled => \A k \in Keys :
    positions[k] = Booked(k, {id \in Ended : status[id] = "filled"})

\* A position counts every unit executed by the orders that ended, those that
\* were cut short included: "PositionState.quantity uses the quantity actually
\* filled" (docs/architecture/structure.md:1695).
PositionsMatchExecutions ==
  Settled => \A k \in Keys : positions[k] = Booked(k, Ended)

\* Each order gets one final lifecycle event, no sooner and no later than the
\* broker's ledger and the applied updates say it ended.
EventsMatchLedger ==
  Settled => \A id \in OrderIds : endings[id] = IF id \in Ended THEN 1 ELSE 0

\* The last event of an order reports the quantity the broker executed, also
\* when a roll cancels an order that is partially filled.
ReportsMatchLedger ==
  Settled => \A id \in Issued \ updates : reported[id] = filled[id]

(***************************************************************************)
(* The execution guards, over any history.                                 *)
(***************************************************************************)

\* The long and short quantity of a symbol over all its contracts never exceeds
\* its configured maximum (max_position_qty_by_symbol).
PositionWithinLimit ==
  PositionLimit > 0 => \A s \in Symbols : Exposure(s) <= PositionLimit

\* An opening order comes at least min_order_interval_ticks snapshots after any
\* accepted order of its symbol, roll closes and exits included.
OpeningsSpaced ==
  MinInterval > 0 => \A a \in Accepted, b \in Openings :
    a < b /\ orders[a].sym = orders[b].sym => orderedAt[b] - orderedAt[a] >= MinInterval

\* The halt covers halt_ticks whole snapshots: no opening order is dated inside.
HaltIsQuiet ==
  \A id \in Openings : orderedAt[id] \notin (haltUntil - HaltTicks)..(haltUntil - 1)

\* No two opening orders with the same key are dated alike, even when the first
\* one raised and the tick was tried again (duplicate_same_tick).
OneOpeningPerTick ==
  \A a, b \in Openings :
    OrderKey(orders[a]) = OrderKey(orders[b]) /\ orderedAt[a] = orderedAt[b] => a = b

(***************************************************************************)
(* Roll policy B.                                                          *)
(***************************************************************************)

\* No position is left behind in a contract that is no longer active: neither a
\* late fill nor a close that was refused lets the roll leave one.
NoStrandedPosition ==
  CloseOnRoll => \A k \in Keys : positions[k] > 0 => k[2] = active[k[1]]

\* After a roll no opening order of the symbol is dated inside its cooldown,
\* unless a strategy forces the symbol to CLOSE: such a CLOSE keeps the side of
\* the opinion it replaces, opens, and is not what the cooldown asks for
\* (_is_open_decision).
CooldownIsQuiet ==
  Settled => \A id \in Openings :
    LET s == orders[id].sym
    IN  s \notin ClosesForced =>
          orderedAt[id] \notin (cooldownUntil[s] - Cooldown)..(cooldownUntil[s] - 1)
=============================================================================
