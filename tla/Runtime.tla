------------------------------- MODULE Runtime -------------------------------
(***************************************************************************)
(* The order path of app/runtime.py inside the tick of                     *)
(* app/universe_runtime.py and the loop of                                 *)
(* app/orchestration/daemon_runner.py, with the simulated broker.          *)
(*                                                                         *)
(* The program is one thread; pc names the part of the tick that runs.     *)
(* Two clocks exist side by side: universeTick counts completed ticks of   *)
(* the universe, tick counts portfolio snapshots (Runtime._tick).          *)
(***************************************************************************)
EXTENDS SimulatedBroker, StateEngine, FiniteSetsExt, Sequences

CONSTANTS
  NoContract,        \* no contract active yet for a symbol
  Schedule,          \* symbol -> main_contract_schedule, a nonempty sequence;
                     \* of length 1 for fixed_contract
  CloseOnRoll,       \* roll_policy.close_on_roll (policy B)
  Cooldown,          \* roll_policy.cooldown_ticks
  ClosesForced,      \* symbols some strategy of the plan forces to CLOSE
  OrderQty,          \* config.default_quantity
  PositionLimit,     \* max_position_qty_by_symbol, 0 for None
  RiskLimited,       \* portfolio_risk_limits configured
  CashLimited,       \* cash small enough for insufficient_cash to be raised
  MaxPendingTicks,   \* max_pending_ticks, 0 for None
  MinInterval,       \* min_order_interval_ticks, 0 for None
  MaxRejects,        \* max_rejects_in_window, 0 for None
  RejectWindow,      \* reject_window_ticks
  HaltTicks,         \* halt_ticks
  ExitsConfigured,   \* the executor's config has a stop_loss or take_profit
  StopOnException,   \* run_loop(stop_on_exception)
  MaxTicks           \* run_loop(max_ticks), which bounds the run

Keys == Symbols \X Contracts \X PositionSides

ASSUME RuntimeConfig ==
  /\ FillRatio = RatioDen   \* the session builder leaves fill_ratio at 1.0
  /\ IsFiniteSet(Contracts)   \* those the instrument configuration names
  /\ NoContract \notin Contracts
  /\ Schedule \in [Symbols -> Seq(Contracts) \ {<<>>}]
  /\ CloseOnRoll \in BOOLEAN
  /\ Cooldown \in Nat
  /\ CloseOnRoll => Cooldown > 0
  /\ ClosesForced \subseteq Symbols
  /\ OrderQty \in Nat \ {0}
  /\ PositionLimit \in Nat
  /\ RiskLimited \in BOOLEAN
  /\ CashLimited \in BOOLEAN
  /\ MaxPendingTicks \in Nat
  /\ MinInterval \in Nat
  /\ MaxRejects \in Nat
  /\ RejectWindow \in Nat
  /\ HaltTicks \in Nat
  /\ ExitsConfigured \in BOOLEAN
  /\ StopOnException \in BOOLEAN
  /\ MaxTicks \in Nat \ {0}

VARIABLES
  pc,             \* expire, poll, apply, route, rollclose, exit, done, stopped
  loopTick,       \* tick of run_loop: run_tick calls, aborted ones included
  universeTick,   \* UniverseRuntime._tick
  tick,           \* Runtime._tick
  unserved,       \* symbols whose routed decision has not run in this tick
  todo,           \* positions the current close loop has still to visit
  updates,        \* order ids of poll updates not applied yet
  ctx,            \* keys of _pending_order_contexts
  ctxFilled,      \* order id -> its context's filled_quantity
  keyTick,        \* the one tick _order_keys_by_tick holds
  keys,           \* its set of order keys
  rejectTicks,    \* _guard_reject_ticks
  haltUntil,      \* _halt_until_tick, 0 for None
  orderTick,      \* _last_order_tick_by_symbol, -1 when absent
  active,         \* RollPolicy._active
  cooldownUntil,  \* _roll_cooldown_until_tick, 0 when absent
  positions,      \* PortfolioState.positions: key -> quantity
  reported,       \* order id -> filled_quantity of its last lifecycle event
  endings,        \* order id -> number of its final lifecycle events
  orderedAt       \* order id -> ts of its first lifecycle event; the
                  \* submitted_tick of its context is the same

loopVars == <<pc, loopTick, universeTick, unserved, todo, updates>>
pendingVars == <<ctx, ctxFilled>>
guardVars == <<keyTick, keys, rejectTicks, haltUntil, orderTick>>
rollVars == <<active, cooldownUntil>>
journalVars == <<reported, endings, orderedAt>>
vars == <<brokerVars, loopVars, tick, pendingVars, guardVars, rollVars,
          positions, journalVars>>

Init ==
  /\ BrokerInit
  /\ pc = "expire" /\ loopTick = 0 /\ universeTick = 0 /\ tick = 0
  /\ unserved = {} /\ todo = {} /\ updates = {}
  /\ ctx = {}
  /\ ctxFilled = [id \in OrderIds |-> 0]
  /\ keyTick = 0 /\ keys = {}
  /\ rejectTicks = {} /\ haltUntil = 0
  /\ orderTick = [s \in Symbols |-> -1]
  /\ active = [s \in Symbols |-> NoContract]
  /\ cooldownUntil = [s \in Symbols |-> 0]
  /\ positions = [k \in Keys |-> 0]
  /\ reported = [id \in OrderIds |-> 0]
  /\ endings = [id \in OrderIds |-> 0]
  /\ orderedAt = [id \in OrderIds |-> 0]

(***************************************************************************)
(* Steps shared by the handlers.                                           *)
(***************************************************************************)

\* _maybe_save_snapshot: every snapshot advances the runtime's clock.
Snapshot == tick' = tick + 1

\* run_loop: the loop ends after max_ticks calls of run_tick.
NextLoop ==
  /\ loopTick' = loopTick + 1
  /\ pc' = IF loopTick + 1 >= MaxTicks THEN "done" ELSE "expire"

\* An exception leaves run_tick: what it had still to do is dropped, the
\* universe's tick is not counted, and the loop goes on or stops.
Abort ==
  /\ IF StopOnException
     THEN pc' = "stopped" /\ UNCHANGED loopTick
     ELSE NextLoop
  /\ unserved' = {} /\ todo' = {} /\ updates' = {}
  /\ UNCHANGED <<universeTick, tick, positions>>

\* One lifecycle event for an order that already exists, with the filled
\* quantity it reports; a final one says FILLED, CANCELED, EXPIRED or REJECTED.
Report(id, q, final) ==
  /\ reported' = [reported EXCEPT ![id] = q]
  /\ endings' = [endings EXCEPT ![id] = IF final THEN @ + 1 ELSE @]

OrderKey(o) == <<o.sym, o.side, o.pside, o.contract>>

\* The order exists at this tick already.
IsDuplicate(o) == keyTick = tick /\ OrderKey(o) \in keys

\* Only the keys of the current tick are kept.
RememberKey(o) ==
  /\ keyTick' = tick
  /\ keys' = IF keyTick = tick THEN keys \cup {OrderKey(o)} ELSE {OrderKey(o)}

\* StateEngine.apply raises: there is nothing (enough) to close, or a buy costs
\* more than the cash of the last snapshot.  No cash is known before the first.
ApplyRaises(o, q) ==
  CannotClose(positions, o, q) \/ (CashLimited /\ tick > 0 /\ o.side = "buy")

ApplySucceeds(o, q) == ~CannotClose(positions, o, q)

\* record_broker_result, by the outcome: a duplicate or a refused order leaves
\* only its event; one that waits gets a context; one that is filled at once is
\* on record before it is applied.
RecordRefused(o) ==
  /\ IsDuplicate(o) \/ SubmitStatus(o) = "rejected"
  /\ Report(nextId, 0, TRUE)
  /\ Snapshot
  /\ UNCHANGED <<pendingVars, keyTick, keys, orderTick, positions>>

RecordPending(o) ==
  /\ ~IsDuplicate(o) /\ SubmitStatus(o) = "submitted"
  /\ Report(nextId, 0, FALSE)
  /\ RememberKey(o)
  /\ orderTick' = [orderTick EXCEPT ![o.sym] = tick]
  /\ ctx' = ctx \cup {nextId}
  /\ ctxFilled' = [ctxFilled EXCEPT ![nextId] = 0]
  /\ Snapshot
  /\ UNCHANGED positions

RecordFill(o) ==
  /\ ~IsDuplicate(o) /\ SubmitStatus(o) \in {"filled", "partially_filled"}
  /\ Report(nextId, SubmitFilled(o), SubmitStatus(o) = "filled")
  /\ RememberKey(o)
  /\ orderTick' = [orderTick EXCEPT ![o.sym] = tick]
  /\ UNCHANGED pendingVars

ApplyFillNow(o) ==
  /\ ApplySucceeds(o, SubmitFilled(o))
  /\ positions' = Applied(positions, o, SubmitFilled(o))
  /\ Snapshot

\* One order submitted to the broker and its result recorded.  Resume is what
\* the caller does next unless the application raises.
SubmitAndRecord(o, Resume) ==
  /\ SubmitOrder(o)
  /\ orderedAt' = [orderedAt EXCEPT ![nextId] = tick]
  /\ \/ RecordRefused(o) /\ Resume
     \/ RecordPending(o) /\ Resume
     \/ RecordFill(o) /\ ApplyFillNow(o) /\ Resume
     \/ RecordFill(o) /\ ApplyRaises(o, SubmitFilled(o)) /\ Abort
  /\ UNCHANGED <<rejectTicks, haltUntil, cooldownUntil>>

CloseOrder(k) ==
  [sym |-> k[1], contract |-> k[2], side |-> ClosingSide(k[3]), pside |-> k[3],
   qty |-> positions[k]]

(***************************************************************************)
(* poll_order_lifecycle, the first part of run_tick.                       *)
(***************************************************************************)

\* _expire_pending_orders(universeTick): the age of a context mixes the two
\* clocks.  What was filled before is reported as 0.
Expired ==
  {id \in ctx : MaxPendingTicks > 0 /\ universeTick - orderedAt[id] >= MaxPendingTicks}

\* Mutant: the context is dropped, the broker is not told.
ExpirePendingOrdersLocally ==
  /\ pc = "expire" /\ pc' = "poll"
  /\ ctx' = ctx \ Expired
  /\ reported' = [id \in OrderIds |-> IF id \in Expired THEN 0 ELSE reported[id]]
  /\ endings' = [id \in OrderIds |->
                    IF id \in Expired THEN endings[id] + 1 ELSE endings[id]]
  /\ UNCHANGED <<brokerVars, loopTick, universeTick, unserved, todo, updates, tick,
                  ctxFilled, orderedAt, guardVars, rollVars, positions>>

ExpirePendingOrders ==
  /\ pc = "expire" /\ pc' = "poll"
  /\ CancelOrders(Expired)
  /\ ctx' = ctx \ Expired
  /\ reported' = [id \in OrderIds |-> IF id \in Expired THEN 0 ELSE reported[id]]
  /\ endings' = [id \in OrderIds |->
                    IF id \in Expired THEN endings[id] + 1 ELSE endings[id]]
  /\ UNCHANGED <<loopTick, universeTick, unserved, todo, updates, tick,
                  ctxFilled, orderedAt, guardVars, rollVars, positions>>

PollBroker ==
  /\ pc = "poll" /\ pc' = "apply"
  /\ PollOrderUpdates(universeTick)
  /\ updates' = PollUpdates(universeTick)
  /\ UNCHANGED <<loopTick, universeTick, unserved, todo, tick, pendingVars,
                  guardVars, rollVars, positions, journalVars>>

\* Mutant: the context does not learn of the partial fill.
ApplyPartialUnseen(id) ==
  /\ pc = "apply" /\ id \in updates /\ status[id] = "partially_filled"
  /\ Report(id, filled[id], FALSE)
  /\ updates' = updates \ {id}
  /\ UNCHANGED <<brokerVars, pc, loopTick, universeTick, unserved, todo, tick,
                  ctx, ctxFilled, orderedAt, guardVars, rollVars, positions>>

\* A partial fill only reaches the context.
ApplyPartial(id) ==
  /\ pc = "apply" /\ id \in updates /\ status[id] = "partially_filled"
  /\ Report(id, filled[id], FALSE)
  /\ ctxFilled' = IF id \in ctx THEN [ctxFilled EXCEPT ![id] = filled[id]]
                  ELSE ctxFilled
  /\ updates' = updates \ {id}
  /\ UNCHANGED <<brokerVars, pc, loopTick, universeTick, unserved, todo, tick,
                  ctx, orderedAt, guardVars, rollVars, positions>>

\* A complete fill is applied to the portfolio; if that raises, the context
\* stays and the updates not read yet are gone.
ApplyFill(id) ==
  /\ pc = "apply" /\ id \in updates /\ status[id] = "filled"
  /\ Report(id, filled[id], TRUE)
  /\ \/ /\ ApplySucceeds(orders[id], filled[id])
        /\ positions' = Applied(positions, orders[id], filled[id])
        /\ ctx' = ctx \ {id}
        /\ updates' = updates \ {id}
        /\ Snapshot
        /\ UNCHANGED <<pc, loopTick, universeTick, unserved, todo>>
     \/ ApplyRaises(orders[id], filled[id]) /\ Abort /\ UNCHANGED ctx
  /\ UNCHANGED <<brokerVars, ctxFilled, orderedAt, guardVars, rollVars>>

\* Mutant: the context outlives the order.
ApplyExpiryKeepingContext(id) ==
  /\ pc = "apply" /\ id \in updates /\ status[id] = "canceled"
  /\ Report(id, 0, TRUE)
  /\ updates' = updates \ {id}
  /\ UNCHANGED <<brokerVars, pc, loopTick, universeTick, unserved, todo, tick, ctx,
                  ctxFilled, orderedAt, guardVars, rollVars, positions>>

\* The broker gave the order up (max_ticks_to_fill); no quantity is reported.
ApplyExpiry(id) ==
  /\ pc = "apply" /\ id \in updates /\ status[id] = "canceled"
  /\ Report(id, 0, TRUE)
  /\ ctx' = ctx \ {id}
  /\ updates' = updates \ {id}
  /\ UNCHANGED <<brokerVars, pc, loopTick, universeTick, unserved, todo, tick,
                  ctxFilled, orderedAt, guardVars, rollVars, positions>>

BeginDecisions ==
  /\ pc = "apply" /\ updates = {}
  /\ pc' = "route" /\ unserved' = Symbols
  /\ UNCHANGED <<brokerVars, loopTick, universeTick, todo, updates, tick,
                  pendingVars, guardVars, rollVars, positions, journalVars>>

(***************************************************************************)
(* Instruments: which contract a symbol trades (core/instruments).         *)
(***************************************************************************)

\* RollPolicy._configured_contract at bar universeTick, clamped to the schedule.
Desired(s) == Schedule[s][AtMost(universeTick + 1, Len(Schedule[s]))]

\* roll_intent, under policy B only.
RollIntended(s) == CloseOnRoll /\ active[s] \notin {NoContract, Desired(s)}

\* resolve: without policy B a changed main contract is simply followed.
Resolved(s) ==
  IF active[s] = NoContract \/ ~CloseOnRoll THEN Desired(s) ELSE active[s]

Resolve(s) == active' = [active EXCEPT ![s] = Resolved(s)]

\* Mutant: only what waits to open is looked for.
PendingOpenings(s) == {id \in ctx : orders[id].sym = s /\ IsOpen(orders[id])}

Pending(s) == {id \in ctx : orders[id].sym = s}

\* Mutant: short positions are forgotten.
OldLongPositions(s) ==
  {k \in Keys : k[1] = s /\ k[2] = active[s] /\ k[3] = "long" /\ positions[k] > 0}

OldPositions(s) ==
  {k \in Keys : k[1] = s /\ k[2] = active[s] /\ positions[k] > 0}

(***************************************************************************)
(* The execution guards, in the order _run_decision asks them.             *)
(***************************************************************************)

\* Mutant: the halt ends one snapshot early.
HaltedShort == tick < haltUntil - 1

Halted == tick < haltUntil

\* Mutant: the cooldown is one snapshot short.
CooldownActiveShort(s) == tick < cooldownUntil[s] - 1

CooldownActive(s) == tick < cooldownUntil[s]

\* The cooldown refuses OPEN_LONG and OPEN_SHORT alone.  force_decision replaces
\* the decision of an opinion and leaves its BUY/LONG or SELL/SHORT: a CLOSE of
\* that kind is let pass, and the broker opens a position for it.
CooldownBlocks(s) == CooldownActive(s) /\ s \notin ClosesForced

\* Mutant: the interval is one snapshot short.
RateLimitedShort(s) ==
  MinInterval > 0 /\ orderTick[s] >= 0 /\ tick - orderTick[s] < MinInterval - 1

RateLimited(s) ==
  MinInterval > 0 /\ orderTick[s] >= 0 /\ tick - orderTick[s] < MinInterval

\* SymbolPositionLimit adds up every contract and side of the symbol.
Exposure(s) == MapThenSumSet(LAMBDA k : positions[k], {k \in Keys : k[1] = s})

\* Mutant: what the order itself would add is left out.
OverPositionLimitBefore(s) ==
  PositionLimit > 0 /\ Exposure(s) > PositionLimit

OverPositionLimit(s) ==
  PositionLimit > 0 /\ Exposure(s) + OrderQty > PositionLimit

OpenOrder(s, p) ==
  [sym |-> s, contract |-> Resolved(s), side |-> OpeningSide(p), pside |-> p,
   qty |-> OrderQty]

\* Mutant: only orders of the same tick block.
BlockedBySameTick(o) ==
  \E id \in ctx : OrderKey(orders[id]) = OrderKey(o) /\ orderedAt[id] = tick

BlockedByPending(o) == \E id \in ctx : OrderKey(orders[id]) = OrderKey(o)

\* The guards that refuse a candidate of the symbol: whatever it asks for, or
\* because of the opening order it would be.  A portfolio risk limit depends on
\* prices: where one is configured it may refuse any candidate.
SymbolRefused(s) == RateLimited(s) \/ OverPositionLimit(s) \/ RiskLimited

\* Mutant: the duplicate guard is asked only after the broker has the order.
OrderRefusedPending(o) == BlockedByPending(o)

OrderRefused(o) == BlockedByPending(o) \/ IsDuplicate(o)

\* _record_guard_rejection: enough refusals inside the window halt the symbol
\* path for HaltTicks snapshots after this one.
CountRejection ==
  LET window == IF RejectWindow > 0 THEN RejectWindow ELSE MaxRejects
      recent == {t \in rejectTicks \cup {tick} : tick - t < window}
  IN IF MaxRejects = 0 \/ HaltTicks = 0
     THEN UNCHANGED <<rejectTicks, haltUntil>>
     ELSE IF Cardinality(recent) >= MaxRejects
     THEN rejectTicks' = {} /\ haltUntil' = tick + HaltTicks + 1
     ELSE rejectTicks' = recent /\ UNCHANGED haltUntil

(***************************************************************************)
(* run(decision), once for each symbol the router leaves a decision for.   *)
(***************************************************************************)

Serve(s) == pc = "route" /\ s \in unserved

\* The decision is dealt with: the next symbol's turn.
Served(s) ==
  /\ pc' = "route" /\ unserved' = unserved \ {s}
  /\ UNCHANGED <<loopTick, universeTick, todo, updates>>

\* Only a snapshot is taken.
Skip(s) ==
  /\ Served(s) /\ Snapshot
  /\ UNCHANGED <<brokerVars, pendingVars, keyTick, keys, orderTick, cooldownUntil,
                  positions, journalVars>>

\* A symbol kept active between two rankings may be out of its trading hours.
ClosedMarket(s) ==
  Serve(s) /\ Skip(s) /\ UNCHANGED <<active, rejectTicks, haltUntil>>

\* HOLD, a CLOSE on the FLAT side (not executable; a forced one that kept an
\* opening side is an OpenDecision), an OPEN_LONG or OPEN_SHORT during the roll
\* cooldown, or any candidate during a halt: nothing is counted.
NoOrderPlaced(s) ==
  /\ Serve(s) /\ ~RollIntended(s)
  /\ Skip(s) /\ Resolve(s)
  /\ UNCHANGED <<rejectTicks, haltUntil>>

\* A candidate refused by a guard.  A CLOSE is a candidate too, one the roll
\* cooldown lets pass.
GuardReject(s) ==
  /\ Serve(s) /\ ~RollIntended(s) /\ ~Halted
  /\ \/ SymbolRefused(s)
     \/ ~CooldownBlocks(s) /\ \E p \in PositionSides : OrderRefused(OpenOrder(s, p))
  /\ Skip(s) /\ Resolve(s)
  /\ CountRejection

\* OPEN_LONG or OPEN_SHORT, or a forced CLOSE that kept the side of one: the
\* guards, the broker and the state engine tell the two apart at the cooldown only.
OpenDecision(s, p) ==
  LET o == OpenOrder(s, p) IN
  /\ Serve(s) /\ ~RollIntended(s) /\ ~CooldownBlocks(s) /\ ~Halted
  /\ ~RateLimited(s) /\ ~OverPositionLimit(s) /\ ~OrderRefused(o)
  /\ SubmitAndRecord(o, Served(s))
  /\ Resolve(s)

(***************************************************************************)
(* Roll policy B: cancel what waits, or else close the old contract, or    *)
(* else activate the new one.  Each takes a decision of its own.           *)
(***************************************************************************)

\* Mutant: the orders end without a lifecycle event.
RollCancelPendingSilently(s) ==
  /\ Serve(s) /\ RollIntended(s) /\ Pending(s) # {}
  /\ CancelOrders(Pending(s))
  /\ ctx' = ctx \ Pending(s)
  /\ Served(s) /\ Snapshot
  /\ UNCHANGED <<ctxFilled, journalVars, guardVars, rollVars, positions>>

RollCancelPending(s) ==
  /\ Serve(s) /\ RollIntended(s) /\ Pending(s) # {}
  /\ CancelOrders(Pending(s))
  /\ ctx' = ctx \ Pending(s)
  /\ reported' = [id \in OrderIds |->
                    IF id \in Pending(s) THEN ctxFilled[id] ELSE reported[id]]
  /\ endings' = [id \in OrderIds |->
                    IF id \in Pending(s) THEN endings[id] + 1 ELSE endings[id]]
  /\ Served(s) /\ Snapshot
  /\ UNCHANGED <<ctxFilled, orderedAt, guardVars, rollVars, positions>>

\* The model issues MaxOrders ids: a close loop starts when enough are left.
RollBegin(s) ==
  /\ Serve(s) /\ RollIntended(s) /\ Pending(s) = {} /\ OldPositions(s) # {}
  /\ nextId + Cardinality(OldPositions(s)) <= MaxOrders + 1
  /\ pc' = "rollclose" /\ todo' = OldPositions(s)
  /\ unserved' = unserved \ {s}
  /\ UNCHANGED <<brokerVars, loopTick, universeTick, updates, tick, pendingVars,
                  guardVars, rollVars, positions, journalVars>>

RollCloseOne(k) ==
  /\ pc = "rollclose" /\ k \in todo
  /\ SubmitAndRecord(CloseOrder(k),
       /\ todo' = todo \ {k}
       /\ pc' = IF todo = {k} THEN "route" ELSE "rollclose"
       /\ UNCHANGED <<loopTick, universeTick, unserved, updates>>)
  /\ UNCHANGED active

RollActivate(s) ==
  /\ Serve(s) /\ RollIntended(s) /\ Pending(s) = {} /\ OldPositions(s) = {}
  /\ active' = [active EXCEPT ![s] = Desired(s)]
  /\ cooldownUntil' = [cooldownUntil EXCEPT ![s] = tick + Cooldown]
  /\ Served(s) /\ Snapshot
  /\ UNCHANGED <<brokerVars, pendingVars, guardVars, positions, journalVars>>

\* Symbols that are not active, or that no strategy tags, get no decision.
FinishDecisions ==
  /\ pc = "route" /\ pc' = "exit"
  /\ unserved' = {}
  /\ todo' = {k \in Keys : ExitsConfigured /\ positions[k] > 0}
  /\ UNCHANGED <<brokerVars, loopTick, universeTick, updates, tick, pendingVars,
                  guardVars, rollVars, positions, journalVars>>

(***************************************************************************)
(* Stop-loss and take-profit exits, and the end of the tick.               *)
(***************************************************************************)

\* The exit goes straight to the broker: no guard of _run_decision is asked.
ExitPosition(k) ==
  /\ pc = "exit" /\ k \in todo
  /\ SubmitAndRecord(CloseOrder(k),
       /\ todo' = todo \ {k}
       /\ UNCHANGED <<pc, loopTick, universeTick, unserved, updates>>)
  /\ UNCHANGED active

EndTick ==
  /\ pc = "exit"
  /\ universeTick' = universeTick + 1
  /\ NextLoop
  /\ todo' = {}
  /\ UNCHANGED <<brokerVars, unserved, updates, tick, pendingVars, guardVars,
                  rollVars, positions, journalVars>>

\* The loop has ended, by max_ticks or by an exception.
Finished == pc \in {"done", "stopped"} /\ UNCHANGED vars

Decide ==
  \E s \in Symbols :
    \/ ClosedMarket(s) \/ NoOrderPlaced(s) \/ GuardReject(s)
    \/ \E p \in PositionSides : OpenDecision(s, p)
    \/ RollCancelPending(s) \/ RollBegin(s) \/ RollActivate(s)

Lifecycle ==
  \/ ExpirePendingOrders \/ PollBroker
  \/ \E id \in OrderIds : ApplyPartial(id) \/ ApplyFill(id) \/ ApplyExpiry(id)
  \/ BeginDecisions

Closing == \E k \in Keys : RollCloseOne(k) \/ ExitPosition(k)

Next == Lifecycle \/ Decide \/ Closing \/ FinishDecisions \/ EndTick \/ Finished

Spec == Init /\ [][Next]_vars
=============================================================================
