---------------------------- MODULE LiveOrderPath ----------------------------
(***************************************************************************)
(* The order path of app/runtime.py with the live broker: the runtime's    *)
(* contexts against orders that move on their own.  A session with this    *)
(* broker has fixed contracts, so there is no roll, and no exits are       *)
(* configured: positions only grow.  pc names the part of the tick.        *)
(***************************************************************************)
EXTENDS LiveBroker, FiniteSetsExt

CONSTANTS
  MaxPendingTicks,  \* max_pending_ticks, 0 for None
  CashLimited,      \* cash small enough for insufficient_cash to be raised
  StopOnException,  \* run_loop(stop_on_exception)
  MaxTicks          \* run_loop(max_ticks), which bounds the run

ASSUME LivePathConfig ==
  /\ MaxPendingTicks \in Nat
  /\ CashLimited \in BOOLEAN
  /\ StopOnException \in BOOLEAN
  /\ MaxTicks \in Nat \ {0}

Keys == Symbols \X PositionSides

KeyOf(o) == <<o.sym, o.pside>>

VARIABLES
  pc,            \* expire, poll, apply, decide, done, stopped
  loopTick,      \* tick of run_loop
  universeTick,  \* UniverseRuntime._tick
  tick,          \* Runtime._tick, advanced by every snapshot
  unserved,      \* symbols whose decision has not run in this tick
  unread,        \* tracked orders this poll has still to look at
  updates,       \* ids whose update has not been applied yet
  ctx,           \* keys of _pending_order_contexts
  orderedAt,     \* order id -> submitted_tick of its context
  positions,     \* PortfolioState.positions: key -> quantity
  expired,       \* ids with an EXPIRED lifecycle event
  concluded      \* order id -> number of FILLED, CANCELED, REJECTED events

pathVars == <<pc, loopTick, universeTick, tick, unserved, unread, updates, ctx,
              orderedAt, positions, expired, concluded>>

vars == <<liveVars, pathVars>>

Init ==
  /\ LiveInit
  /\ pc = "expire" /\ loopTick = 0 /\ universeTick = 0 /\ tick = 0
  /\ unserved = {} /\ unread = {} /\ updates = {}
  /\ ctx = {} /\ expired = {}
  /\ orderedAt = [id \in OrderIds |-> 0]
  /\ positions = [k \in Keys |-> 0]
  /\ concluded = [id \in OrderIds |-> 0]

(***************************************************************************)
(* The loop around a tick.                                                 *)
(***************************************************************************)

NextLoop ==
  /\ loopTick' = loopTick + 1
  /\ pc' = IF loopTick + 1 >= MaxTicks THEN "done" ELSE "expire"

\* An exception leaves run_tick: the updates not applied yet are gone.
Abort ==
  /\ IF StopOnException
     THEN pc' = "stopped" /\ UNCHANGED loopTick
     ELSE NextLoop
  /\ updates' = {}
  /\ UNCHANGED <<universeTick, tick, unserved, positions>>

Conclude(id) == concluded' = [concluded EXCEPT ![id] = @ + 1]

(***************************************************************************)
(* poll_order_lifecycle.                                                   *)
(***************************************************************************)

Overdue ==
  {id \in ctx : MaxPendingTicks > 0 /\ universeTick - orderedAt[id] >= MaxPendingTicks}

\* Mutant: the context is dropped, the API is not asked.
ExpireWithoutAsking ==
  /\ pc = "expire" /\ pc' = "poll"
  /\ ctx' = ctx \ Overdue
  /\ expired' = expired \cup Overdue
  /\ unread' = Pollable
  /\ UNCHANGED <<liveVars, loopTick, universeTick, tick, unserved, updates,
                  orderedAt, positions, concluded>>

\* Mutant: the context stays, and expires again on every tick.
ExpireKeepingContext ==
  /\ pc = "expire" /\ pc' = "poll"
  /\ AskCancel(Overdue)
  /\ expired' = expired \cup Overdue
  /\ unread' = Pollable
  /\ UNCHANGED <<loopTick, universeTick, tick, unserved, updates, ctx, orderedAt,
                  positions, concluded>>

\* _expire_pending_orders; the poll that follows first lists what it will read.
ExpirePendingOrders ==
  /\ pc = "expire" /\ pc' = "poll"
  /\ AskCancel(Overdue)
  /\ ctx' = ctx \ Overdue
  /\ expired' = expired \cup Overdue
  /\ unread' = Pollable
  /\ UNCHANGED <<loopTick, universeTick, tick, unserved, updates, orderedAt,
                  positions, concluded>>

\* Orders keep moving at the API while the poll reads the others.
PollOne(id) ==
  /\ pc = "poll" /\ id \in unread
  /\ IF Changed(id)
     THEN ReadOrder(id) /\ updates' = updates \cup {id}
     ELSE UNCHANGED <<liveVars, updates>>
  /\ unread' = unread \ {id}
  /\ UNCHANGED <<pc, loopTick, universeTick, tick, unserved, ctx, orderedAt,
                  positions, expired, concluded>>

PollEnds ==
  /\ pc = "poll" /\ unread = {} /\ pc' = "apply"
  /\ UNCHANGED <<liveVars, loopTick, universeTick, tick, unserved, unread, updates,
                  ctx, orderedAt, positions, expired, concluded>>

Apply(id) == pc = "apply" /\ id \in updates

applyOthers == <<liveVars, unread, orderedAt, expired>>

\* A partial fill only changes quantities of the context.
ApplyPartial(id) ==
  /\ Apply(id) /\ lastStatus[id] = "PARTIAL"
  /\ updates' = updates \ {id}
  /\ UNCHANGED <<applyOthers, pc, loopTick, universeTick, tick, unserved, ctx,
                  positions, concluded>>

\* Any update that is no fill drops the context, one that says SUBMITTED too.
ApplyOther(id) ==
  /\ Apply(id) /\ lastStatus[id] \in {"SUBMITTED", "CANCELED", "REJECTED"}
  /\ IF lastStatus[id] = "SUBMITTED" THEN UNCHANGED concluded ELSE Conclude(id)
  /\ ctx' = ctx \ {id}
  /\ updates' = updates \ {id}
  /\ UNCHANGED <<applyOthers, pc, loopTick, universeTick, tick, unserved, positions>>

\* Mutant: a late fill is only recorded for an order that has a context.
ApplyFillKnownOnly(id) ==
  /\ Apply(id) /\ lastStatus[id] = "FILLED"
  /\ Conclude(id)
  /\ positions' = [positions EXCEPT ![KeyOf(orders[id])] =
                     IF id \in ctx THEN @ + lastFilled[id] ELSE @]
  /\ ctx' = ctx \ {id}
  /\ updates' = updates \ {id}
  /\ tick' = tick + 1
  /\ UNCHANGED <<pc, loopTick, universeTick, unserved, applyOthers>>

\* A fill is applied with or without a context (strategy "unknown"), and its
\* event is written before the application may raise.
ApplyFill(id) ==
  /\ Apply(id) /\ lastStatus[id] = "FILLED"
  /\ Conclude(id)
  /\ \/ /\ positions' = [positions EXCEPT ![KeyOf(orders[id])] = @ + lastFilled[id]]
        /\ ctx' = ctx \ {id}
        /\ updates' = updates \ {id}
        /\ tick' = tick + 1
        /\ UNCHANGED <<pc, loopTick, universeTick, unserved>>
     \/ CashLimited /\ Abort /\ UNCHANGED ctx
  /\ UNCHANGED applyOthers

BeginDecisions ==
  /\ pc = "apply" /\ updates = {} /\ pc' = "decide"
  /\ unserved' = Symbols
  /\ UNCHANGED <<liveVars, loopTick, universeTick, tick, unread, updates, ctx,
                  orderedAt, positions, expired, concluded>>

(***************************************************************************)
(* run(decision) for each symbol.                                          *)
(***************************************************************************)

Serve(s) ==
  /\ pc = "decide" /\ s \in unserved
  /\ unserved' = unserved \ {s}
  /\ tick' = tick + 1

serveOthers == <<pc, loopTick, universeTick, unread, updates, positions, expired>>

\* HOLD, a CLOSE, a closed market, or a refusal by one of the other guards.
NoOrderPlaced(s) ==
  /\ Serve(s)
  /\ UNCHANGED <<liveVars, serveOthers, ctx, orderedAt, concluded>>

\* Mutant: only orders of the last snapshot block.
BlockedByRecent(o) ==
  \E id \in ctx : KeyOf(orders[id]) = KeyOf(o) /\ orderedAt[id] >= tick - 1

\* blocked_by_pending.  The snapshot after every order makes the duplicate guard
\* of the same tick idle here.
BlockedByPending(o) == \E id \in ctx : KeyOf(orders[id]) = KeyOf(o)

OpenDecision(o) ==
  /\ Serve(o.sym) /\ ~BlockedByPending(o)
  /\ SubmitLive(o)
  /\ orderedAt' = [orderedAt EXCEPT ![nextId] = tick]
  /\ IF Invalid(o)
     THEN Conclude(nextId) /\ UNCHANGED ctx
     ELSE ctx' = ctx \cup {nextId} /\ UNCHANGED concluded
  /\ UNCHANGED serveOthers

EndTick ==
  /\ pc = "decide"
  /\ universeTick' = universeTick + 1
  /\ NextLoop
  /\ unserved' = {}
  /\ UNCHANGED <<liveVars, tick, unread, updates, ctx, orderedAt, positions,
                  expired, concluded>>

Finished == pc \in {"done", "stopped"} /\ UNCHANGED vars

ApiMoves == Api /\ UNCHANGED pathVars

Updating ==
  \E id \in OrderIds : PollOne(id) \/ ApplyPartial(id) \/ ApplyOther(id) \/ ApplyFill(id)

Deciding == (\E s \in Symbols : NoOrderPlaced(s)) \/ (\E o \in Order : OpenDecision(o))

Next ==
  \/ ExpirePendingOrders \/ PollEnds \/ Updating \/ BeginDecisions
  \/ Deciding \/ EndTick \/ Finished \/ ApiMoves

Spec == Init /\ [][Next]_vars

(***************************************************************************)
(* Properties.                                                             *)
(***************************************************************************)

\* Types of the code's attributes; only tracked orders are read or reported.
TypeOK ==
  /\ LiveTypeOK
  /\ pc \in {"expire", "poll", "apply", "decide", "done", "stopped"}
  /\ loopTick \in Nat /\ universeTick \in Nat /\ tick \in Nat
  /\ unserved \subseteq Symbols
  /\ unread \subseteq tracked /\ updates \subseteq tracked /\ ctx \subseteq tracked
  /\ expired \subseteq tracked
  /\ orderedAt \in [OrderIds -> Nat]
  /\ positions \in [Keys -> Nat]
  /\ concluded \in [OrderIds -> Nat]

Raised == CashLimited /\ (pc = "stopped" \/ ~StopOnException)

\* A position is exactly what the filled orders of its key brought, each applied
\* once, a fill that arrives after the runtime expired its order included.
FillsBookedOnce ==
  ~Raised => \A k \in Keys :
    positions[k] = MapThenSumSet(LAMBDA id : lastFilled[id],
                     {id \in tracked \ updates :
                        lastStatus[id] = "FILLED" /\ KeyOf(orders[id]) = k})

\* The broker's outcome of an order is reported once, when it is applied, and
\* nothing is expired that was concluded before: an order has a second final
\* event only if its outcome came after its expiry.
OutcomeReportedOnce ==
  ~Raised =>
    /\ \A id \in tracked : concluded[id] = IF id \in terminal \ updates THEN 1 ELSE 0
    /\ ctx \cap expired = {}

\* Whatever works at the API without having been asked to cancel has a context
\* (pending orders are known to the runtime), if partial fills are named so.
WorkingOrdersKnown ==
  detailed => \A id \in tracked \ cancelAsked : ApiWorks(id) => id \in ctx

\* Two openings of one symbol and side never work at the API together unless the
\* older one was asked to cancel: a pending order blocks the next ones.
OneWorkingOpening ==
  \A a, b \in tracked \ cancelAsked :
    ApiWorks(a) /\ ApiWorks(b) /\ KeyOf(orders[a]) = KeyOf(orders[b]) => a = b

\* The same, of an API that names partial fills.
OneWorkingOpeningDetailed == detailed => OneWorkingOpening

(***************************************************************************)
(* What the broker shows of its orders is an order book: an order that is  *)
(* refused or canceled after it was placed is withdrawn.                   *)
(***************************************************************************)

PhaseOf(id) ==
  IF id >= nextId THEN "none"
  ELSE CASE lastStatus[id] = "none" -> "rejected"
         [] lastStatus[id] \in {"SUBMITTED", "PARTIAL"} -> "working"
         [] lastStatus[id] = "FILLED" -> "done"
         [] OTHER -> "canceled"

OrderBookOf == INSTANCE OrderBook WITH
  Ids <- OrderIds,
  phase <- [id \in OrderIds |-> PhaseOf(id)],
  size <- [id \in OrderIds |-> IF id < nextId THEN orders[id].qty ELSE 0],
  executed <- lastFilled

\* What the broker has reported of every order follows the order book, however
\* many steps of the API it misses between two polls.
ImplementsOrderBook == OrderBookOf!Spec
=============================================================================
