--------------------------- MODULE LiveOrderProofs ---------------------------
(***************************************************************************)
(* Theorems about the order path with the live broker: every fill reaches  *)
(* the positions once, every outcome is reported once, nothing works at    *)
(* the API behind the runtime's back, and what the broker reports follows  *)
(* the order book, for any number of orders, symbols, quantities and       *)
(* ticks, and however the API moves between two reads.                     *)
(***************************************************************************)
EXTENDS LiveOrderPath, Sums, TLAPS

(***************************************************************************)
(* The inductive invariant.  Tracking relates what the broker remembers of *)
(* an order to what the API shows of it; Polling says which orders a poll  *)
(* may still read and which updates may still be applied.                  *)
(***************************************************************************)

FinalStatus == {"FILLED", "CANCELED", "REJECTED"}

\* What the API shows of a tracked order.  An order that ends short of its
\* quantity can be told from one that is filled.
ApiSound(id) ==
  /\ traded[id] <= orders[id].qty
  /\ apiStatus[id] \in ApiOpen \cup {"CANCELED", "REJECTED"} =>
       traded[id] < orders[id].qty
  /\ apiStatus[id] = "FILLED" => traded[id] = orders[id].qty
  /\ detailed => apiStatus[id] \notin {"ALIVE", "FINISHED"}
  /\ apiStatus[id] = "none" <=> DryRun

\* What the broker remembers is an earlier state of the same order: it has seen
\* no more than was traded, and final only what had ended.
ReadSound(id) ==
  /\ lastFilled[id] <= traded[id]
  /\ lastStatus[id] # "none"
  /\ apiStatus[id] = "SUBMITTED" => traded[id] = 0 /\ lastStatus[id] = "SUBMITTED"
  /\ id \in terminal <=> lastStatus[id] \in FinalStatus
  /\ id \in terminal => apiStatus[id] \in ApiEnded

Issued == \A id \in OrderIds : id < nextId => orders[id] \in Order

\* An order refused before it was handed over, or not issued yet.
Untracked ==
  /\ \A id \in tracked : id < nextId
  /\ \A id \in OrderIds \ tracked :
       lastStatus[id] = "none" /\ lastFilled[id] = 0 /\ apiStatus[id] = "none"
         /\ traded[id] = 0

Tracking ==
  /\ Issued /\ Untracked
  /\ \A id \in tracked : ApiSound(id) /\ ReadSound(id)

\* An order is read once in a poll and an update applied once after it; one of
\* a detailed API is never the news that the order was submitted.
Polling ==
  /\ unread \subseteq Pollable /\ unread \cap updates = {}
  /\ pc # "poll" => unread = {}
  /\ pc \notin {"poll", "apply"} => updates = {}
  /\ detailed => \A id \in updates : lastStatus[id] # "SUBMITTED"

\* Nothing has been reported of an order that is not issued.
Unreported == \A id \in OrderIds : id >= nextId => concluded[id] = 0

\* A pending order blocks the next one of its key.
OneContextPerKey ==
  \A a, b \in ctx : KeyOf(orders[a]) = KeyOf(orders[b]) => a = b

Held == TypeOK /\ Tracking /\ Polling /\ Unreported /\ OneContextPerKey

IInv ==
  /\ Held
  /\ FillsBookedOnce /\ OutcomeReportedOnce /\ WorkingOrdersKnown

(***************************************************************************)
(* The broker and its API.                                                 *)
(***************************************************************************)

\* The parts of the invariant that speak of the broker alone.
BrokerHeld == LiveTypeOK /\ Tracking

LEMMA PositiveQuantity == \A q \in Quantities : q \in Nat /\ q > 0
<1>1. Quantities \subseteq Nat \ {0}
  BY LiveConfig
<1>2. \A q \in Nat \ {0} : q > 0
  OBVIOUS
<1> QED
  BY <1>1, <1>2

LEMMA TrackedOrder ==
  ASSUME BrokerHeld, NEW id \in tracked
  PROVE  /\ id \in OrderIds /\ id < nextId
         /\ orders[id] \in Order /\ orders[id].qty \in Nat /\ orders[id].qty > 0
         /\ traded[id] \in Nat /\ lastFilled[id] \in Nat
<1>1. id \in OrderIds /\ id < nextId /\ orders[id] \in Order
  BY DEF BrokerHeld, LiveTypeOK, Tracking, Untracked, Issued
<1>2. orders[id].qty \in Quantities
  BY <1>1 DEF Order
<1>3. orders[id].qty \in Nat /\ orders[id].qty > 0
  BY <1>2, PositiveQuantity
<1> QED
  BY <1>1, <1>3 DEF BrokerHeld, LiveTypeOK

\* Only a tracked order works at the API.
LEMMA WorkingTracked ==
  ASSUME BrokerHeld, NEW id \in OrderIds, ApiWorks(id)
  PROVE  id \in tracked /\ ~DryRun
BY DEF BrokerHeld, Tracking, Untracked, ApiSound, ApiWorks, ApiOpen

LEMMA TradesHeld ==
  ASSUME BrokerHeld, NEW id \in OrderIds, ApiTrades(id)
  PROVE  BrokerHeld'
<1>1. id \in tracked /\ ~DryRun
  BY WorkingTracked DEF ApiTrades
<1>2. PICK q \in (traded[id] + 1)..orders[id].qty :
        /\ traded' = [traded EXCEPT ![id] = q]
        /\ apiStatus' = [apiStatus EXCEPT ![id] =
             IF q = orders[id].qty THEN IF detailed THEN "FILLED" ELSE "FINISHED"
             ELSE IF detailed THEN "PARTIAL" ELSE "ALIVE"]
  BY DEF ApiTrades
<1>3. q \in Nat /\ traded[id] < q /\ q <= orders[id].qty
  BY <1>1, TrackedOrder
<1>4. UNCHANGED apiOthers
  BY DEF ApiTrades
<1>5. LiveTypeOK'
  BY <1>2, <1>3, <1>4 DEF BrokerHeld, LiveTypeOK, apiOthers, ApiOpen, ApiEnded
<1>6. ASSUME NEW a \in tracked
      PROVE  ApiSound(a)' /\ ReadSound(a)'
  <2>1. ApiSound(a) /\ ReadSound(a) /\ a \in OrderIds
    BY TrackedOrder DEF BrokerHeld, Tracking
  <2>2. CASE a # id
    <3>1. traded'[a] = traded[a] /\ apiStatus'[a] = apiStatus[a]
      BY <1>2, <2>2
    <3> QED
      BY <1>4, <2>1, <3>1 DEF apiOthers, ApiSound, ReadSound
  <2>3. CASE a = id
    <3>1. /\ traded'[id] = q
          /\ apiStatus'[id] =
               IF q = orders[id].qty THEN IF detailed THEN "FILLED" ELSE "FINISHED"
               ELSE IF detailed THEN "PARTIAL" ELSE "ALIVE"
      BY <1>2 DEF BrokerHeld, LiveTypeOK
    <3>2. id \notin terminal
      BY <2>1, <2>3 DEF ApiTrades, ApiWorks, ReadSound, ApiOpen, ApiEnded
    <3>3. lastFilled[id] <= q
      BY <1>1, <1>3, <2>1, <2>3, TrackedOrder DEF ReadSound
    <3>4. ApiSound(id)'
      BY <1>1, <1>3, <1>4, <3>1, TrackedOrder DEF apiOthers, ApiSound, ApiOpen
    <3>5. ReadSound(id)'
      BY <1>4, <2>1, <2>3, <3>1, <3>2, <3>3 DEF apiOthers, ReadSound
    <3> QED
      BY <2>3, <3>4, <3>5
  <2> QED
    BY <2>2, <2>3
<1>7. Issued' /\ Untracked'
  BY <1>1, <1>2, <1>4 DEF BrokerHeld, LiveTypeOK, Tracking, Issued, Untracked, apiOthers
<1> QED
  BY <1>4, <1>5, <1>6, <1>7 DEF BrokerHeld, Tracking, apiOthers

LEMMA EndsHeld ==
  ASSUME BrokerHeld, NEW id \in OrderIds, ApiCancels(id) \/ ApiRefuses(id)
  PROVE  BrokerHeld'
<1>1. id \in tracked /\ ~DryRun /\ ApiWorks(id)
  BY WorkingTracked DEF ApiCancels, ApiRefuses
<1>2. PICK s \in {"CANCELED", "REJECTED", "FINISHED"} :
        /\ apiStatus' = [apiStatus EXCEPT ![id] = s]
        /\ detailed => s # "FINISHED"
  BY DEF ApiCancels, ApiRefuses
<1>3. UNCHANGED <<apiOthers, traded>>
  BY DEF ApiCancels, ApiRefuses
<1>4. LiveTypeOK'
  BY <1>2, <1>3 DEF BrokerHeld, LiveTypeOK, apiOthers, ApiEnded
<1>5. ASSUME NEW a \in tracked
      PROVE  ApiSound(a)' /\ ReadSound(a)'
  <2>1. ApiSound(a) /\ ReadSound(a) /\ a \in OrderIds
    BY TrackedOrder DEF BrokerHeld, Tracking
  <2>2. CASE a # id
    <3>1. apiStatus'[a] = apiStatus[a]
      BY <1>2, <2>2
    <3> QED
      BY <1>3, <2>1, <3>1 DEF apiOthers, ApiSound, ReadSound
  <2>3. CASE a = id
    <3>1. apiStatus'[id] = s
      BY <1>2 DEF BrokerHeld, LiveTypeOK
    <3>2. traded[id] < orders[id].qty
      BY <1>1, <2>1, <2>3 DEF ApiSound, ApiWorks, ApiOpen
    <3>3. ApiSound(id)'
      BY <1>1, <1>2, <1>3, <2>1, <2>3, <3>1, <3>2 DEF apiOthers, ApiSound, ApiOpen
    <3>4. ReadSound(id)'
      BY <1>3, <2>1, <2>3, <3>1 DEF apiOthers, ReadSound, ApiEnded
    <3> QED
      BY <2>3, <3>3, <3>4
  <2> QED
    BY <2>2, <2>3
<1>6. Issued' /\ Untracked'
  BY <1>1, <1>2, <1>3 DEF BrokerHeld, LiveTypeOK, Tracking, Issued, Untracked, apiOthers
<1> QED
  BY <1>3, <1>4, <1>5, <1>6 DEF BrokerHeld, Tracking, apiOthers

LEMMA SubmitHeld ==
  ASSUME BrokerHeld, NEW o \in Order, SubmitLive(o)
  PROVE  BrokerHeld'
<1>1. nextId \in OrderIds /\ nextId \in Nat /\ nextId' = nextId + 1 /\ nextId \notin tracked
  BY DEF SubmitLive, BrokerHeld, LiveTypeOK, Tracking, Untracked, OrderIds
<1>2. /\ orders' = [orders EXCEPT ![nextId] = o]
      /\ tracked' = IF Invalid(o) THEN tracked ELSE tracked \cup {nextId}
      /\ lastStatus' =
           [lastStatus EXCEPT ![nextId] = IF Invalid(o) THEN "none" ELSE "SUBMITTED"]
      /\ apiStatus' = [apiStatus EXCEPT ![nextId] =
           IF Invalid(o) \/ DryRun THEN "none"
           ELSE IF detailed THEN "SUBMITTED" ELSE "ALIVE"]
      /\ UNCHANGED <<lastFilled, terminal, traded, cancelAsked, detailed>>
  BY DEF SubmitLive
<1>3. \A id \in tracked : id \in OrderIds /\ id # nextId
  BY <1>1 DEF BrokerHeld, LiveTypeOK
<1>4. LiveTypeOK'
  <2>1. nextId' \in 1..(MaxOrders + 1)
    BY <1>1, LiveConfig DEF OrderIds
  <2>2. tracked' \subseteq OrderIds /\ terminal' \subseteq tracked' /\ cancelAsked' \subseteq tracked'
    BY <1>1, <1>2 DEF BrokerHeld, LiveTypeOK
  <2>3. lastStatus' \in [OrderIds -> LastStatus]
    BY <1>1, <1>2 DEF BrokerHeld, LiveTypeOK, LastStatus
  <2>4. apiStatus' \in [OrderIds -> {"none"} \cup ApiOpen \cup ApiEnded]
    BY <1>1, <1>2 DEF BrokerHeld, LiveTypeOK, ApiOpen, ApiEnded
  <2>5. orders' \in [OrderIds -> Order \cup {NoOrder}]
    BY <1>1, <1>2 DEF BrokerHeld, LiveTypeOK
  <2> QED
    BY <1>2, <2>1, <2>2, <2>3, <2>4, <2>5 DEF BrokerHeld, LiveTypeOK
<1>5. Issued'
  <2> SUFFICES ASSUME NEW id \in OrderIds, id < nextId + 1
               PROVE  orders'[id] \in Order
    BY <1>1 DEF Issued
  <2>1. CASE id = nextId
    BY <1>1, <1>2, <2>1 DEF BrokerHeld, LiveTypeOK
  <2>2. CASE id < nextId
    BY <1>1, <1>2, <2>2 DEF BrokerHeld, Tracking, Issued
  <2> QED
    BY <1>1, <2>1, <2>2 DEF OrderIds
<1>6. Untracked'
  <2>1. \A id \in tracked' : id < nextId'
    BY <1>1, <1>2, <1>3 DEF BrokerHeld, Tracking, Untracked, OrderIds
  <2>2. ASSUME NEW id \in OrderIds, id \notin tracked'
        PROVE  /\ lastStatus'[id] = "none" /\ lastFilled'[id] = 0
               /\ apiStatus'[id] = "none" /\ traded'[id] = 0
    BY <1>1, <1>2, <2>2 DEF BrokerHeld, LiveTypeOK, Tracking, Untracked
  <2> QED
    BY <2>1, <2>2 DEF Untracked
<1>7. ASSUME NEW a \in tracked'
      PROVE  ApiSound(a)' /\ ReadSound(a)'
  <2>1. CASE a \in tracked
    <3>1. ApiSound(a) /\ ReadSound(a)
      BY <2>1 DEF BrokerHeld, Tracking
    <3>2. /\ orders'[a] = orders[a] /\ lastStatus'[a] = lastStatus[a]
          /\ apiStatus'[a] = apiStatus[a]
      BY <1>2, <1>3, <2>1
    <3> QED
      BY <1>2, <3>1, <3>2 DEF ApiSound, ReadSound
  <2>2. CASE a \notin tracked
    <3>1. a = nextId /\ ~Invalid(o)
      BY <1>2, <2>2
    <3>2. /\ orders'[a] = o /\ lastStatus'[a] = "SUBMITTED"
          /\ apiStatus'[a] = IF DryRun THEN "none"
                             ELSE IF detailed THEN "SUBMITTED" ELSE "ALIVE"
      BY <1>1, <1>2, <3>1 DEF BrokerHeld, LiveTypeOK
    <3>3. lastFilled'[a] = 0 /\ traded'[a] = 0 /\ a \notin terminal'
      BY <1>1, <1>2, <2>2, <3>1 DEF BrokerHeld, LiveTypeOK, Tracking, Untracked
    <3>4. o.qty \in Nat /\ o.qty > 0
      BY PositiveQuantity DEF Order
    <3>5. ApiSound(a)'
      BY <1>2, <3>2, <3>3, <3>4, LiveConfig DEF ApiSound
    <3>6. ReadSound(a)'
      BY <3>2, <3>3 DEF ReadSound, FinalStatus
    <3> QED
      BY <3>5, <3>6
  <2> QED
    BY <2>1, <2>2
<1> QED
  BY <1>4, <1>5, <1>6, <1>7 DEF BrokerHeld, Tracking

LEMMA ReadType == ASSUME NEW id PROVE ReadStatus(id) \in LastStatus \ {"none"}
BY DEF ReadStatus, LastStatus

\* A status is read as final only of an order that has ended.
LEMMA ReadFinal ==
  ASSUME BrokerHeld, NEW id \in tracked, ReadStatus(id) \in FinalStatus
  PROVE  apiStatus[id] \in ApiEnded
BY DEF ReadStatus, FinalStatus, ApiEnded

LEMMA ReadHeld ==
  ASSUME BrokerHeld, NEW id \in Pollable, ReadOrder(id)
  PROVE  BrokerHeld'
<1>1. id \in tracked /\ id \notin terminal /\ id \in OrderIds
  BY DEF Pollable, BrokerHeld, LiveTypeOK
<1>2. UNCHANGED <<nextId, orders, tracked, apiStatus, traded, cancelAsked, detailed>>
  BY DEF ReadOrder
<1>3. /\ lastStatus' = [lastStatus EXCEPT ![id] = ReadStatus(id)]
      /\ lastFilled' = [lastFilled EXCEPT ![id] = traded[id]]
      /\ terminal' = IF ReadStatus(id) \in FinalStatus THEN terminal \cup {id} ELSE terminal
  BY DEF ReadOrder, FinalStatus
<1>4. LiveTypeOK'
  BY <1>1, <1>2, <1>3, ReadType, TrackedOrder DEF BrokerHeld, LiveTypeOK
<1>5. ASSUME NEW a \in tracked
      PROVE  ApiSound(a)' /\ ReadSound(a)'
  <2>1. ApiSound(a) /\ ReadSound(a) /\ a \in OrderIds
    BY TrackedOrder DEF BrokerHeld, Tracking
  <2>2. ApiSound(a)'
    BY <1>2, <2>1 DEF ApiSound
  <2>3. CASE a # id
    <3>1. lastStatus'[a] = lastStatus[a] /\ lastFilled'[a] = lastFilled[a]
            /\ (a \in terminal' <=> a \in terminal)
      BY <1>3, <2>3
    <3> QED
      BY <1>2, <2>1, <2>2, <3>1 DEF ReadSound
  <2>4. CASE a = id
    <3>1. lastStatus'[id] = ReadStatus(id) /\ lastFilled'[id] = traded[id]
      BY <1>1, <1>3 DEF BrokerHeld, LiveTypeOK
    <3>2. id \in terminal' <=> ReadStatus(id) \in FinalStatus
      BY <1>1, <1>3
    <3>3. apiStatus[id] = "SUBMITTED" => ReadStatus(id) = "SUBMITTED"
      BY DEF ReadStatus
    <3>4. ReadSound(id)'
      BY <1>1, <1>2, <2>1, <2>4, <3>1, <3>2, <3>3, ReadType, ReadFinal, TrackedOrder
         DEF ReadSound
    <3> QED
      BY <2>2, <2>4, <3>4
  <2> QED
    BY <2>3, <2>4
<1>6. Issued' /\ Untracked'
  BY <1>1, <1>2, <1>3 DEF BrokerHeld, Tracking, Issued, Untracked
<1> QED
  BY <1>2, <1>4, <1>5, <1>6 DEF BrokerHeld, Tracking

LEMMA AskHeld ==
  ASSUME BrokerHeld, NEW ids, AskCancel(ids)
  PROVE  BrokerHeld'
<1>1. LiveTypeOK'
  BY DEF BrokerHeld, LiveTypeOK, AskCancel
<1>2. Tracking'
  BY DEF BrokerHeld, AskCancel, Tracking, Issued, Untracked, ApiSound, ReadSound
<1> QED
  BY <1>1, <1>2 DEF BrokerHeld

LEMMA SameHeld ==
  ASSUME BrokerHeld, UNCHANGED liveVars
  PROVE  BrokerHeld'
BY DEF BrokerHeld, liveVars, LiveTypeOK, Tracking, Issued, Untracked, ApiSound, ReadSound

(***************************************************************************)
(* The order path.                                                         *)
(***************************************************************************)

PathTypeOK ==
  /\ pc \in {"expire", "poll", "apply", "decide", "done", "stopped"}
  /\ loopTick \in Nat /\ universeTick \in Nat /\ tick \in Nat
  /\ unserved \subseteq Symbols
  /\ unread \subseteq tracked /\ updates \subseteq tracked /\ ctx \subseteq tracked
  /\ expired \subseteq tracked
  /\ orderedAt \in [OrderIds -> Nat]
  /\ positions \in [Keys -> Nat]
  /\ concluded \in [OrderIds -> Nat]

LEMMA HeldParts ==
  Held <=> BrokerHeld /\ PathTypeOK /\ Polling /\ Unreported /\ OneContextPerKey
BY DEF Held, BrokerHeld, TypeOK, PathTypeOK

LEMMA HeldWillBe ==
  Held' <=> BrokerHeld' /\ PathTypeOK' /\ Polling' /\ Unreported' /\ OneContextPerKey'
BY DEF Held, BrokerHeld, TypeOK, PathTypeOK

LEMMA OrderKey == ASSUME NEW o \in Order PROVE KeyOf(o) \in Keys
BY DEF Order, KeyOf, Keys

\* The fills of a key that have been applied.
Booked(k) ==
  {id \in tracked \ updates : lastStatus[id] = "FILLED" /\ KeyOf(orders[id]) = k}

Booking == ~Raised => \A k \in Keys : positions[k] = SumOver(lastFilled, Booked(k))

LEMMA FillsAre == FillsBookedOnce <=> Booking
BY DEF FillsBookedOnce, Booking, Booked, SumOver

LEMMA FillsWillBe == FillsBookedOnce' <=> Booking'
<1>1. (FillsBookedOnce <=> Booking)'
  BY FillsAre, PTL
<1> QED
  BY <1>1

LEMMA BookedFinite ==
  ASSUME BrokerHeld, NEW k
  PROVE  IsFiniteSet(Booked(k)) /\ \A id \in Booked(k) : lastFilled[id] \in Int
<1>1. IsFiniteSet(OrderIds)
  BY LiveConfig, FS_Interval DEF OrderIds
<1>2. Booked(k) \subseteq OrderIds
  BY DEF Booked, BrokerHeld, LiveTypeOK
<1> QED
  BY <1>1, <1>2, FS_Subset DEF BrokerHeld, LiveTypeOK

\* A step that books nothing leaves the applied fills as they are.
LEMMA BooksKept ==
  ASSUME IInv, positions' = positions, Raised => Raised',
         \A k \in Keys : Booked(k)' = Booked(k),
         \A id \in tracked \ updates :
           lastStatus[id] = "FILLED" => lastFilled'[id] = lastFilled[id]
  PROVE  FillsBookedOnce'
<1> SUFFICES ASSUME ~Raised, NEW k \in Keys
             PROVE  positions[k] = SumOver(lastFilled', Booked(k))
  BY FillsWillBe DEF Booking
<1>1. positions[k] = SumOver(lastFilled, Booked(k))
  BY FillsAre DEF IInv, Booking
<1>2. \A id \in Booked(k) : lastFilled[id] = lastFilled'[id]
  BY DEF Booked
<1>3. IsFiniteSet(Booked(k))
  BY BookedFinite, HeldParts DEF IInv
<1>4. SumOver(lastFilled, Booked(k)) = SumOver(lastFilled', Booked(k))
  BY <1>2, <1>3, SumSame
<1> QED
  BY <1>1, <1>4

LEMMA BooksSame ==
  ASSUME IInv, Raised => Raised',
         UNCHANGED <<orders, tracked, lastStatus, lastFilled, updates, positions>>
  PROVE  FillsBookedOnce'
<1>1. \A k \in Keys : Booked(k)' = Booked(k)
  BY DEF Booked
<1> QED
  BY <1>1, BooksKept

LEMMA OutcomesSame ==
  ASSUME IInv, Raised => Raised', UNCHANGED <<tracked, terminal, updates, concluded>>,
         ctx' \cap expired' \subseteq ctx \cap expired
  PROVE  OutcomeReportedOnce'
BY DEF IInv, OutcomeReportedOnce

LEMMA KeptUnreported ==
  ASSUME Held, UNCHANGED <<nextId, concluded>>
  PROVE  Unreported'
BY DEF Held, Unreported

LEMMA FewerContexts ==
  ASSUME Held, ctx' \subseteq ctx, UNCHANGED orders
  PROVE  OneContextPerKey'
BY DEF Held, OneContextPerKey

LEMMA ExpireStep ==
  ASSUME IInv, ExpirePendingOrders
  PROVE  IInv'
<1>1. Held /\ BrokerHeld /\ PathTypeOK /\ Polling
  BY HeldParts DEF IInv
<1>2. /\ pc = "expire" /\ pc' = "poll" /\ AskCancel(Overdue)
      /\ ctx' = ctx \ Overdue /\ expired' = expired \cup Overdue /\ unread' = Pollable
      /\ UNCHANGED <<loopTick, universeTick, tick, unserved, updates, orderedAt,
                     positions, concluded>>
  BY DEF ExpirePendingOrders
<1>3. /\ cancelAsked' = cancelAsked \cup IF DryRun THEN {} ELSE Overdue \cap tracked
      /\ UNCHANGED <<nextId, orders, tracked, lastStatus, lastFilled, terminal,
                     apiStatus, traded, detailed>>
  BY <1>2 DEF AskCancel
<1>4. Overdue \subseteq ctx /\ Pollable \subseteq tracked
  BY DEF Overdue, Pollable
<1>5. BrokerHeld'
  BY <1>1, <1>2, AskHeld
<1>6. PathTypeOK'
  BY <1>1, <1>2, <1>3, <1>4 DEF PathTypeOK
<1>7. Polling'
  BY <1>1, <1>2, <1>3 DEF Polling, Pollable
<1>8. Held'
  BY <1>1, <1>2, <1>3, <1>4, <1>5, <1>6, <1>7, HeldWillBe, KeptUnreported, FewerContexts
<1>9. Raised => Raised'
  BY <1>2 DEF Raised
<1>10. FillsBookedOnce' /\ OutcomeReportedOnce'
  BY <1>2, <1>3, <1>9, BooksSame, OutcomesSame
<1>11. WorkingOrdersKnown'
  <2> SUFFICES ASSUME detailed, NEW id \in tracked, id \notin cancelAsked', ApiWorks(id)
               PROVE  id \in ctx'
    BY <1>3 DEF WorkingOrdersKnown, ApiWorks
  <2>1. id \in OrderIds /\ ~DryRun
    BY <1>1, TrackedOrder, WorkingTracked
  <2>2. id \in ctx
    BY <1>3 DEF IInv, WorkingOrdersKnown
  <2> QED
    BY <1>2, <1>3, <2>1, <2>2
<1> QED
  BY <1>8, <1>10, <1>11 DEF IInv

\* A poll that looks at one order takes in what the API shows of it now.
LEMMA PollOneStep ==
  ASSUME IInv, NEW id \in OrderIds, PollOne(id)
  PROVE  IInv'
<1>1. Held /\ BrokerHeld /\ PathTypeOK /\ Polling
  BY HeldParts DEF IInv
<1>2. /\ pc = "poll" /\ id \in unread /\ unread' = unread \ {id}
      /\ UNCHANGED <<pc, loopTick, universeTick, tick, unserved, ctx, orderedAt,
                     positions, expired, concluded>>
  BY DEF PollOne
<1>3. id \in Pollable /\ id \notin updates
  BY <1>1, <1>2 DEF Polling
<1>4. id \in tracked /\ id \notin terminal /\ lastStatus[id] \notin FinalStatus
  BY <1>1, <1>3 DEF Pollable, BrokerHeld, Tracking, ReadSound
<1>5. Raised => Raised'
  BY <1>2 DEF Raised
<1>6. CASE Changed(id)
  <2>1. ReadOrder(id) /\ updates' = updates \cup {id}
    BY <1>6 DEF PollOne
  <2>2. /\ UNCHANGED <<nextId, orders, tracked, apiStatus, traded, cancelAsked, detailed>>
        /\ lastStatus' = [lastStatus EXCEPT ![id] = ReadStatus(id)]
        /\ lastFilled' = [lastFilled EXCEPT ![id] = traded[id]]
        /\ terminal' = IF ReadStatus(id) \in FinalStatus
                       THEN terminal \cup {id} ELSE terminal
    BY <2>1 DEF ReadOrder, FinalStatus
  <2>3. BrokerHeld'
    BY <1>1, <1>3, <2>1, ReadHeld
  <2>4. PathTypeOK'
    BY <1>1, <1>2, <1>4, <2>1, <2>2 DEF PathTypeOK
  <2>5. Polling'
    <3>1. unread' \subseteq Pollable'
      BY <1>1, <1>2, <2>2 DEF Polling, Pollable
    <3>2. ASSUME detailed, NEW a \in updates'
          PROVE  lastStatus'[a] # "SUBMITTED"
      <4>1. CASE a # id
        BY <1>1, <2>1, <2>2, <3>2, <4>1 DEF Polling
      <4>2. CASE a = id
        <5>1. lastStatus'[id] = ReadStatus(id)
          BY <1>1, <2>2 DEF BrokerHeld, LiveTypeOK
        <5>2. ApiSound(id) /\ ReadSound(id)
          BY <1>1, <1>4 DEF BrokerHeld, Tracking
        <5>3. ASSUME ReadStatus(id) = "SUBMITTED"
              PROVE  FALSE
          <6>1. apiStatus[id] = "SUBMITTED"
            BY <1>1, <1>3, <1>4, <3>2, <5>2, <5>3
               DEF ReadStatus, ApiSound, Pollable, BrokerHeld, LiveTypeOK, ApiOpen, ApiEnded
          <6>2. traded[id] = 0 /\ lastStatus[id] = "SUBMITTED" /\ lastFilled[id] = 0
            BY <1>1, <1>4, <5>2, <6>1, TrackedOrder DEF ReadSound
          <6> QED
            BY <1>6, <5>3, <6>2 DEF Changed
        <5> QED
          BY <4>2, <5>1, <5>3
      <4> QED
        BY <4>1, <4>2
    <3> QED
      BY <1>1, <1>2, <2>1, <2>2, <3>1, <3>2 DEF Polling
  <2>6. Held'
    BY <1>1, <1>2, <2>2, <2>3, <2>4, <2>5, HeldWillBe, KeptUnreported, FewerContexts
  <2>7. FillsBookedOnce'
    <3>1. \A k \in Keys : Booked(k)' = Booked(k)
      BY <1>4, <2>1, <2>2 DEF Booked, FinalStatus
    <3>2. \A a \in tracked \ updates :
            lastStatus[a] = "FILLED" => lastFilled'[a] = lastFilled[a]
      BY <1>4, <2>2 DEF FinalStatus
    <3> QED
      BY <1>2, <1>5, <3>1, <3>2, BooksKept
  <2>8. OutcomeReportedOnce'
    <3>1. \A a \in tracked : a \in terminal' \ updates' <=> a \in terminal \ updates
      BY <1>4, <2>1, <2>2
    <3> QED
      BY <1>2, <1>5, <2>2, <3>1 DEF IInv, OutcomeReportedOnce
  <2>9. WorkingOrdersKnown'
    BY <1>2, <2>2 DEF IInv, WorkingOrdersKnown, ApiWorks
  <2> QED
    BY <2>6, <2>7, <2>8, <2>9 DEF IInv
<1>7. CASE ~Changed(id)
  <2>1. UNCHANGED <<liveVars, updates>>
    BY <1>7 DEF PollOne
  <2>2. BrokerHeld'
    BY <1>1, <2>1, SameHeld
  <2>3. PathTypeOK' /\ Polling'
    BY <1>1, <1>2, <2>1 DEF PathTypeOK, Polling, Pollable, liveVars
  <2>4. Held'
    BY <1>1, <1>2, <2>1, <2>2, <2>3, HeldWillBe, KeptUnreported, FewerContexts DEF liveVars
  <2>5. FillsBookedOnce' /\ OutcomeReportedOnce'
    BY <1>2, <1>5, <2>1, BooksSame, OutcomesSame DEF liveVars
  <2>6. WorkingOrdersKnown'
    BY <1>2, <2>1 DEF IInv, WorkingOrdersKnown, ApiWorks, liveVars
  <2> QED
    BY <2>4, <2>5, <2>6 DEF IInv
<1> QED
  BY <1>6, <1>7

\* Steps that touch none of the orders, of the positions or of what was reported.
pathBooks == <<updates, ctx, orderedAt, positions, expired, concluded>>

LEMMA TurnStep ==
  ASSUME IInv, UNCHANGED <<liveVars, pathBooks, unread>>, Raised => Raised',
         loopTick' \in Nat, universeTick' \in Nat, tick' \in Nat,
         unserved' \subseteq Symbols,
         pc' \in {"expire", "poll", "apply", "decide", "done", "stopped"},
         pc' # "poll" => unread = {},
         pc' \notin {"poll", "apply"} => updates = {}
  PROVE  IInv'
<1>1. Held /\ BrokerHeld /\ PathTypeOK /\ Polling
  BY HeldParts DEF IInv
<1>2. BrokerHeld'
  BY <1>1, SameHeld
<1>3. PathTypeOK' /\ Polling'
  BY <1>1 DEF PathTypeOK, Polling, Pollable, liveVars, pathBooks
<1>4. Held'
  BY <1>1, <1>2, <1>3, HeldWillBe, KeptUnreported, FewerContexts DEF liveVars, pathBooks
<1>5. FillsBookedOnce' /\ OutcomeReportedOnce'
  BY BooksSame, OutcomesSame DEF liveVars, pathBooks
<1>6. WorkingOrdersKnown'
  BY DEF IInv, WorkingOrdersKnown, ApiWorks, liveVars, pathBooks
<1> QED
  BY <1>4, <1>5, <1>6 DEF IInv

LEMMA LoopStep ==
  ASSUME NextLoop, loopTick \in Nat
  PROVE  loopTick' \in Nat /\ pc' \in {"expire", "done"}
BY DEF NextLoop

LEMMA TurnsStep ==
  ASSUME IInv, \/ PollEnds \/ BeginDecisions \/ EndTick
               \/ \E s \in Symbols : NoOrderPlaced(s)
               \/ UNCHANGED vars
  PROVE  IInv'
<1>1. PathTypeOK /\ Polling
  BY HeldParts DEF IInv
<1>2. CASE PollEnds
  BY <1>1, <1>2, TurnStep DEF PollEnds, PathTypeOK, pathBooks, Raised
<1>3. CASE BeginDecisions
  BY <1>1, <1>3, TurnStep DEF BeginDecisions, PathTypeOK, Polling, pathBooks, Raised
<1>4. CASE EndTick
  BY <1>1, <1>4, TurnStep, LoopStep DEF EndTick, PathTypeOK, Polling, pathBooks, Raised
<1>5. ASSUME NEW s \in Symbols, NoOrderPlaced(s)
      PROVE  IInv'
  BY <1>1, <1>5, TurnStep
     DEF NoOrderPlaced, Serve, serveOthers, PathTypeOK, Polling, pathBooks, Raised
<1>6. CASE UNCHANGED vars
  BY <1>1, <1>6, TurnStep DEF vars, pathVars, PathTypeOK, Polling, pathBooks, Raised
<1> QED
  BY <1>2, <1>3, <1>4, <1>5, <1>6

\* The API moves orders the broker has not read again yet.
LEMMA ApiStep ==
  ASSUME IInv, ApiMoves
  PROVE  IInv'
<1>1. Held /\ BrokerHeld /\ PathTypeOK /\ Polling
  BY HeldParts DEF IInv
<1>2. PICK id \in OrderIds : ApiTrades(id) \/ ApiCancels(id) \/ ApiRefuses(id)
  BY DEF ApiMoves, Api
<1>3. UNCHANGED pathVars /\ UNCHANGED apiOthers
  BY <1>2 DEF ApiMoves, ApiTrades, ApiCancels, ApiRefuses
<1>4. BrokerHeld'
  BY <1>1, <1>2, TradesHeld, EndsHeld
<1>5. PathTypeOK' /\ Polling'
  BY <1>1, <1>3 DEF PathTypeOK, Polling, Pollable, pathVars, apiOthers
<1>6. Held'
  BY <1>1, <1>3, <1>4, <1>5, HeldWillBe, KeptUnreported, FewerContexts
     DEF pathVars, apiOthers
<1>7. Raised => Raised'
  BY <1>3 DEF Raised, pathVars
<1>8. FillsBookedOnce' /\ OutcomeReportedOnce'
  BY <1>3, <1>7, BooksSame, OutcomesSame DEF pathVars, apiOthers
<1>9. \A a \in OrderIds : ApiWorks(a)' => ApiWorks(a)
  BY <1>1, <1>2 DEF ApiTrades, ApiCancels, ApiRefuses, ApiWorks, BrokerHeld, LiveTypeOK
<1>10. WorkingOrdersKnown'
  BY <1>1, <1>3, <1>9 DEF IInv, WorkingOrdersKnown, pathVars, apiOthers, BrokerHeld, LiveTypeOK
<1> QED
  BY <1>6, <1>8, <1>10 DEF IInv

(***************************************************************************)
(* Updates.                                                                *)
(***************************************************************************)

\* What every application of an update leaves alone, and what it takes away.
Applies(id) ==
  /\ Apply(id) /\ UNCHANGED <<liveVars, unread, orderedAt, expired>>
  /\ loopTick' \in Nat /\ universeTick' \in Nat /\ tick' \in Nat
  /\ unserved' \subseteq Symbols /\ pc' \in {"expire", "apply", "done", "stopped"}
  /\ updates' \subseteq updates \ {id}
  /\ pc' # "apply" => updates' = {}
  /\ ctx' \subseteq ctx
  /\ concluded' = IF lastStatus[id] \in FinalStatus
                  THEN [concluded EXCEPT ![id] = @ + 1] ELSE concluded
  /\ positions' \in [Keys -> Nat]

LEMMA AppliesHeld ==
  ASSUME IInv, NEW id \in OrderIds, Applies(id)
  PROVE  Held' /\ id \in tracked /\ id \in updates
<1>1. Held /\ BrokerHeld /\ PathTypeOK /\ Polling /\ Unreported
  BY HeldParts DEF IInv
<1>2. id \in updates /\ id \in tracked /\ pc = "apply" /\ unread = {}
  BY <1>1 DEF Applies, Apply, PathTypeOK, Polling
<1>3. BrokerHeld'
  BY <1>1, SameHeld DEF Applies
<1>4. concluded' \in [OrderIds -> Nat]
  BY <1>1 DEF Applies, PathTypeOK
<1>5. PathTypeOK'
  BY <1>1, <1>4 DEF Applies, PathTypeOK, liveVars
<1>6. Polling'
  BY <1>1, <1>2 DEF Applies, Polling, liveVars
<1>7. Unreported'
  <2>1. id < nextId /\ nextId' = nextId /\ nextId \in Nat
    BY <1>1, <1>2, TrackedOrder DEF Applies, liveVars, BrokerHeld, LiveTypeOK
  <2> QED
    BY <1>1, <2>1 DEF Applies, Unreported, PathTypeOK, OrderIds
<1>8. OneContextPerKey'
  BY <1>1, FewerContexts DEF Applies, liveVars
<1> QED
  BY <1>2, <1>3, <1>5, <1>6, <1>7, <1>8, HeldWillBe

\* An outcome is counted when its update leaves the waiting ones.
LEMMA AppliesOutcome ==
  ASSUME IInv, NEW id \in OrderIds, Applies(id), updates' = updates \ {id} \/ Raised',
         Raised => Raised'
  PROVE  OutcomeReportedOnce'
<1> SUFFICES ASSUME ~Raised'
             PROVE  OutcomeReportedOnce'
  BY DEF OutcomeReportedOnce
<1>1. BrokerHeld /\ PathTypeOK /\ id \in tracked /\ id \in updates
  BY HeldParts, AppliesHeld DEF IInv
<1>2. UNCHANGED <<tracked, terminal, expired>> /\ updates' = updates \ {id} /\ ctx' \subseteq ctx
  BY DEF Applies, liveVars
<1>3. /\ \A a \in tracked : concluded[a] = IF a \in terminal \ updates THEN 1 ELSE 0
      /\ ctx \cap expired = {}
  BY DEF IInv, OutcomeReportedOnce
<1>4. id \in terminal <=> lastStatus[id] \in FinalStatus
  BY <1>1 DEF BrokerHeld, Tracking, ReadSound
<1>5. ASSUME NEW a \in tracked
      PROVE  concluded'[a] = IF a \in terminal \ updates' THEN 1 ELSE 0
  <2>1. CASE a # id
    <3>1. concluded'[a] = concluded[a]
      BY <2>1 DEF Applies
    <3> QED
      BY <1>2, <1>3, <2>1, <3>1
  <2>2. CASE a = id
    <3>1. concluded[id] = 0
      BY <1>1, <1>3
    <3>2. concluded'[id] = IF lastStatus[id] \in FinalStatus THEN 1 ELSE 0
      BY <1>1, <3>1 DEF Applies, PathTypeOK
    <3> QED
      BY <1>2, <1>4, <2>2, <3>2
  <2> QED
    BY <2>1, <2>2
<1> QED
  BY <1>2, <1>3, <1>5 DEF OutcomeReportedOnce

\* A context is dropped only for an order that does not work any more.
LEMMA AppliesKnown ==
  ASSUME IInv, NEW id \in OrderIds, Applies(id), ctx \ {id} \subseteq ctx',
         id \in ctx' \/ lastStatus[id] \in FinalStatus \/ ~detailed
  PROVE  WorkingOrdersKnown'
<1> SUFFICES ASSUME detailed, NEW a \in tracked, a \notin cancelAsked, ApiWorks(a)
             PROVE  a \in ctx'
  BY DEF WorkingOrdersKnown, ApiWorks, Applies, liveVars
<1>1. BrokerHeld
  BY HeldParts DEF IInv
<1>2. a \in ctx
  BY DEF IInv, WorkingOrdersKnown
<1>3. lastStatus[a] \notin FinalStatus
  BY <1>1 DEF BrokerHeld, Tracking, ReadSound, ApiWorks, ApiOpen, ApiEnded
<1> QED
  BY <1>2, <1>3

LEMMA ApplyReportStep ==
  ASSUME IInv, NEW id \in OrderIds, ApplyPartial(id) \/ ApplyOther(id)
  PROVE  IInv'
<1>1. BrokerHeld /\ PathTypeOK /\ Polling
  BY HeldParts DEF IInv
<1>2. /\ Apply(id) /\ lastStatus[id] \in {"PARTIAL", "SUBMITTED", "CANCELED", "REJECTED"}
      /\ updates' = updates \ {id}
      /\ UNCHANGED <<applyOthers, pc, loopTick, universeTick, tick, unserved, positions>>
      /\ ctx' = IF lastStatus[id] = "PARTIAL" THEN ctx ELSE ctx \ {id}
      /\ concluded' = IF lastStatus[id] \in FinalStatus
                      THEN [concluded EXCEPT ![id] = @ + 1] ELSE concluded
  BY DEF ApplyPartial, ApplyOther, Conclude, FinalStatus
<1>3. Applies(id)
  BY <1>1, <1>2 DEF Applies, Apply, applyOthers, PathTypeOK
<1>4. Raised => Raised'
  BY <1>2 DEF Raised
<1>5. Held' /\ id \in updates
  BY <1>3, AppliesHeld
<1>6. OutcomeReportedOnce'
  BY <1>2, <1>3, <1>4, AppliesOutcome
<1>7. FillsBookedOnce'
  <2>1. \A k \in Keys : Booked(k)' = Booked(k)
    BY <1>2 DEF Booked, applyOthers, liveVars
  <2> QED
    BY <1>2, <1>4, <2>1, BooksKept DEF applyOthers, liveVars
<1>8. WorkingOrdersKnown'
  <2>1. detailed => lastStatus[id] # "SUBMITTED"
    BY <1>1, <1>5 DEF Polling
  <2>2. id \in ctx' \/ lastStatus[id] \in FinalStatus \/ ~detailed \/ id \notin ctx
    BY <1>2, <2>1 DEF FinalStatus
  <2>3. CASE id \notin ctx
    BY <1>2, <2>3 DEF IInv, WorkingOrdersKnown, ApiWorks, applyOthers, liveVars
  <2> QED
    BY <1>2, <1>3, <2>2, <2>3, AppliesKnown
<1> QED
  BY <1>5, <1>6, <1>7, <1>8 DEF IInv

\* The fill joins the applied ones, and the position grows by what it filled.
LEMMA FillBooked ==
  ASSUME IInv, NEW id \in updates, lastStatus[id] = "FILLED",
         positions' = [positions EXCEPT ![KeyOf(orders[id])] = @ + lastFilled[id]],
         updates' = updates \ {id}, UNCHANGED liveVars, Raised => Raised'
  PROVE  FillsBookedOnce'
<1>1. BrokerHeld /\ PathTypeOK
  BY HeldParts DEF IInv
<1>2. id \in tracked /\ orders[id] \in Order /\ lastFilled[id] \in Nat
  BY <1>1, TrackedOrder DEF PathTypeOK
<1> SUFFICES ASSUME ~Raised, NEW k \in Keys
             PROVE  positions'[k] = SumOver(lastFilled, Booked(k)')
  BY FillsWillBe DEF Booking, liveVars
<1>3. positions[k] = SumOver(lastFilled, Booked(k))
  BY FillsAre DEF IInv, Booking
<1>4. CASE k = KeyOf(orders[id])
  <2>1. id \notin Booked(k) /\ Booked(k)' = Booked(k) \cup {id}
    BY <1>2, <1>4 DEF Booked, liveVars
  <2>2. SumOver(lastFilled, Booked(k) \cup {id}) = lastFilled[id] + SumOver(lastFilled, Booked(k))
    BY <1>1, <1>2, <2>1, BookedFinite, SumAdd
  <2>3. positions'[k] = positions[k] + lastFilled[id]
    BY <1>1, <1>4 DEF PathTypeOK
  <2>4. positions[k] \in Int
    BY <1>1 DEF PathTypeOK
  <2> QED
    BY <1>2, <1>3, <2>1, <2>2, <2>3, <2>4
<1>5. CASE k # KeyOf(orders[id])
  <2>1. Booked(k)' = Booked(k)
    BY <1>5 DEF Booked, liveVars
  <2>2. positions'[k] = positions[k]
    BY <1>1, <1>5 DEF PathTypeOK
  <2> QED
    BY <1>3, <2>1, <2>2
<1> QED
  BY <1>4, <1>5

\* A fill is booked, or the run has raised.
LEMMA ApplyFillStep ==
  ASSUME IInv, NEW id \in OrderIds, ApplyFill(id)
  PROVE  IInv'
<1>1. BrokerHeld /\ PathTypeOK /\ Polling
  BY HeldParts DEF IInv
<1>2. /\ pc = "apply" /\ id \in updates /\ lastStatus[id] = "FILLED"
      /\ UNCHANGED <<liveVars, unread, orderedAt, expired>>
      /\ concluded' = [concluded EXCEPT ![id] = @ + 1]
  BY DEF ApplyFill, Apply, Conclude, applyOthers
<1>3. id \in tracked /\ orders[id] \in Order /\ lastFilled[id] \in Nat
        /\ KeyOf(orders[id]) \in Keys
  BY <1>1, <1>2, TrackedOrder, OrderKey DEF PathTypeOK
<1>4. CASE /\ positions' = [positions EXCEPT ![KeyOf(orders[id])] = @ + lastFilled[id]]
           /\ ctx' = ctx \ {id}
           /\ updates' = updates \ {id}
           /\ tick' = tick + 1
           /\ UNCHANGED <<pc, loopTick, universeTick, unserved>>
  <2>1. positions' \in [Keys -> Nat]
    BY <1>1, <1>3, <1>4 DEF PathTypeOK
  <2>2. Applies(id)
    BY <1>1, <1>2, <1>4, <2>1 DEF Applies, Apply, PathTypeOK, FinalStatus
  <2>3. Raised => Raised'
    BY <1>4 DEF Raised
  <2>4. Held'
    BY <2>2, AppliesHeld
  <2>5. OutcomeReportedOnce'
    BY <1>4, <2>2, <2>3, AppliesOutcome
  <2>6. WorkingOrdersKnown'
    BY <1>2, <1>4, <2>2, AppliesKnown DEF FinalStatus
  <2>7. FillsBookedOnce'
    BY <1>2, <1>4, <2>3, FillBooked
  <2> QED
    BY <2>4, <2>5, <2>6, <2>7 DEF IInv
<1>5. CASE CashLimited /\ Abort /\ UNCHANGED ctx
  <2>1. /\ updates' = {} /\ UNCHANGED <<universeTick, tick, unserved, positions, ctx>>
        /\ loopTick' \in Nat /\ pc' \in {"expire", "done", "stopped"}
    BY <1>1, <1>5, LoopStep DEF Abort, PathTypeOK
  <2>2. Raised'
    BY <1>5 DEF Raised, Abort
  <2>3. Applies(id)
    BY <1>1, <1>2, <2>1 DEF Applies, Apply, PathTypeOK, FinalStatus
  <2>4. Held'
    BY <2>3, AppliesHeld
  <2>5. OutcomeReportedOnce' /\ FillsBookedOnce'
    BY <2>2 DEF OutcomeReportedOnce, FillsBookedOnce
  <2>6. WorkingOrdersKnown'
    BY <1>2, <2>1, <2>3, AppliesKnown DEF FinalStatus
  <2> QED
    BY <2>4, <2>5, <2>6 DEF IInv
<1> QED
  BY <1>4, <1>5 DEF ApplyFill

(***************************************************************************)
(* Decisions.                                                              *)
(***************************************************************************)

LEMMA OpenDecisionStep ==
  ASSUME IInv, NEW o \in Order, OpenDecision(o)
  PROVE  IInv'
<1>1. Held /\ BrokerHeld /\ PathTypeOK /\ Polling /\ Unreported /\ OneContextPerKey
  BY HeldParts DEF IInv
<1>2. /\ pc = "decide" /\ unserved' \subseteq unserved /\ tick' = tick + 1
      /\ ~BlockedByPending(o) /\ SubmitLive(o)
      /\ orderedAt' = [orderedAt EXCEPT ![nextId] = tick]
      /\ ctx' = IF Invalid(o) THEN ctx ELSE ctx \cup {nextId}
      /\ concluded' = IF Invalid(o) THEN [concluded EXCEPT ![nextId] = @ + 1] ELSE concluded
      /\ UNCHANGED <<pc, loopTick, universeTick, unread, updates, positions, expired>>
  BY DEF OpenDecision, Serve, serveOthers, Conclude
<1>3. /\ nextId \in OrderIds /\ nextId' = nextId + 1 /\ nextId \notin tracked /\ nextId \in Nat
      /\ nextId \notin terminal
  BY <1>1, <1>2 DEF SubmitLive, BrokerHeld, LiveTypeOK, Tracking, Untracked, OrderIds
<1>4. /\ orders' = [orders EXCEPT ![nextId] = o]
      /\ tracked' = IF Invalid(o) THEN tracked ELSE tracked \cup {nextId}
      /\ lastStatus' =
           [lastStatus EXCEPT ![nextId] = IF Invalid(o) THEN "none" ELSE "SUBMITTED"]
      /\ apiStatus' = [apiStatus EXCEPT ![nextId] =
           IF Invalid(o) \/ DryRun THEN "none"
           ELSE IF detailed THEN "SUBMITTED" ELSE "ALIVE"]
      /\ UNCHANGED <<lastFilled, terminal, traded, cancelAsked, detailed>>
  BY <1>2 DEF SubmitLive
<1>5. BrokerHeld'
  BY <1>1, <1>2, SubmitHeld
<1>6. updates = {} /\ unread = {}
  BY <1>1, <1>2 DEF Polling
<1>7. \A id \in tracked :
        id \in OrderIds /\ id # nextId /\ orders'[id] = orders[id]
          /\ lastStatus'[id] = lastStatus[id] /\ apiStatus'[id] = apiStatus[id]
  BY <1>1, <1>3, <1>4 DEF BrokerHeld, LiveTypeOK
<1>8. PathTypeOK'
  <2>1. orderedAt' \in [OrderIds -> Nat]
    BY <1>1, <1>2, <1>3 DEF PathTypeOK
  <2>2. concluded' \in [OrderIds -> Nat]
    BY <1>1, <1>2, <1>3 DEF PathTypeOK
  <2>3. ctx' \subseteq tracked' /\ expired' \subseteq tracked'
    BY <1>1, <1>2, <1>4 DEF PathTypeOK
  <2> QED
    BY <1>1, <1>2, <1>6, <2>1, <2>2, <2>3 DEF PathTypeOK
<1>9. Polling'
  BY <1>2, <1>6 DEF Polling
<1>10. Unreported'
  <2> SUFFICES ASSUME NEW id \in OrderIds, id >= nextId + 1
               PROVE  concluded'[id] = 0
    BY <1>3 DEF Unreported
  <2>1. id # nextId /\ id >= nextId
    BY <1>3 DEF OrderIds
  <2> QED
    BY <1>1, <1>2, <2>1 DEF Unreported, PathTypeOK
<1>11. OneContextPerKey'
  <2>1. \A a \in ctx : KeyOf(orders'[a]) = KeyOf(orders[a]) /\ KeyOf(orders'[a]) # KeyOf(o)
    BY <1>1, <1>2, <1>7 DEF PathTypeOK, BlockedByPending
  <2>2. orders'[nextId] = o
    BY <1>1, <1>3, <1>4 DEF BrokerHeld, LiveTypeOK
  <2> QED
    BY <1>1, <1>2, <2>1, <2>2 DEF OneContextPerKey
<1>12. Held'
  BY <1>5, <1>8, <1>9, <1>10, <1>11, HeldWillBe
<1>13. Raised => Raised'
  BY <1>2 DEF Raised
<1>14. FillsBookedOnce'
  <2>1. \A k \in Keys : Booked(k)' = Booked(k)
    <3>1. nextId \in tracked' => lastStatus'[nextId] = "SUBMITTED"
      BY <1>1, <1>3, <1>4 DEF BrokerHeld, LiveTypeOK
    <3> QED
      BY <1>2, <1>4, <1>7, <3>1 DEF Booked
  <2> QED
    BY <1>2, <1>4, <1>13, <2>1, BooksKept
<1>15. OutcomeReportedOnce'
  <2> SUFFICES ASSUME ~Raised
               PROVE  /\ \A id \in tracked' : concluded'[id] = IF id \in terminal THEN 1 ELSE 0
                      /\ ctx' \cap expired = {}
    BY <1>2, <1>4, <1>6, <1>13 DEF OutcomeReportedOnce
  <2>1. /\ \A id \in tracked : concluded[id] = IF id \in terminal THEN 1 ELSE 0
        /\ ctx \cap expired = {}
    BY <1>6 DEF IInv, OutcomeReportedOnce
  <2>2. \A id \in tracked : concluded'[id] = concluded[id]
    BY <1>2, <1>7
  <2>3. concluded[nextId] = 0 /\ nextId \notin expired
    BY <1>1, <1>3 DEF Unreported, PathTypeOK
  <2>4. ctx' \cap expired = {}
    BY <1>2, <2>1, <2>3
  <2>5. ASSUME NEW id \in tracked', id \notin tracked
        PROVE  concluded'[id] = 0 /\ id \notin terminal
    BY <1>2, <1>3, <1>4, <2>3, <2>5
  <2> QED
    BY <2>1, <2>2, <2>4, <2>5
<1>16. WorkingOrdersKnown'
  BY <1>2, <1>4, <1>7 DEF IInv, WorkingOrdersKnown, ApiWorks
<1> QED
  BY <1>12, <1>14, <1>15, <1>16 DEF IInv

(***************************************************************************)
(* The theorems.                                                           *)
(***************************************************************************)

LEMMA InitIInv == Init => IInv
<1> SUFFICES ASSUME Init PROVE IInv
  OBVIOUS
<1>1. BrokerHeld
  <2>1. 1 \in 1..(MaxOrders + 1)
    BY LiveConfig
  <2> QED
    BY <2>1 DEF Init, LiveInit, BrokerHeld, LiveTypeOK, LastStatus, Tracking, Issued,
                Untracked, OrderIds
<1>2. PathTypeOK /\ Polling /\ Unreported /\ OneContextPerKey
  BY DEF Init, LiveInit, PathTypeOK, Polling, Pollable, Unreported, OneContextPerKey
<1>3. FillsBookedOnce
  <2>1. \A k \in Keys : Booked(k) = {}
    BY DEF Booked, Init, LiveInit
  <2> QED
    BY <2>1, SumEmpty, FillsAre DEF Init, Booking
<1>4. OutcomeReportedOnce /\ WorkingOrdersKnown
  BY DEF Init, LiveInit, OutcomeReportedOnce, WorkingOrdersKnown
<1> QED
  BY <1>1, <1>2, <1>3, <1>4, HeldParts DEF IInv

LEMMA NextIInv == IInv /\ [Next]_vars => IInv'
<1> SUFFICES ASSUME IInv, [Next]_vars PROVE IInv'
  OBVIOUS
<1>1. CASE Updating
  BY <1>1, PollOneStep, ApplyReportStep, ApplyFillStep DEF Updating
<1>2. CASE Deciding
  BY <1>2, TurnsStep, OpenDecisionStep DEF Deciding
<1> QED
  BY <1>1, <1>2, ExpireStep, TurnsStep, ApiStep DEF Next, Finished

LEMMA SpecIInv == Spec => []IInv
BY InitIInv, NextIInv, PTL DEF Spec

\* Types, and that only orders the broker tracks are read, awaited or expired.
THEOREM LiveTypeCorrect == Spec => []TypeOK
<1>1. IInv => TypeOK
  BY DEF IInv, Held
<1> QED
  BY <1>1, SpecIInv, PTL

\* However late a fill is seen, and whether or not its order was expired before,
\* it is added to the position once.
THEOREM LiveFillsBookedOnce == Spec => []FillsBookedOnce
<1>1. IInv => FillsBookedOnce
  BY DEF IInv
<1> QED
  BY <1>1, SpecIInv, PTL

\* Every order that ends is reported as ended once, and none awaits an outcome
\* after it was reported expired.
THEOREM LiveOutcomeReportedOnce == Spec => []OutcomeReportedOnce
<1>1. IInv => OutcomeReportedOnce
  BY DEF IInv
<1> QED
  BY <1>1, SpecIInv, PTL

\* With an API that names partial fills, the runtime knows of every order that
\* works and that it has not asked to cancel.
THEOREM LiveWorkingOrdersKnown == Spec => []WorkingOrdersKnown
<1>1. IInv => WorkingOrdersKnown
  BY DEF IInv
<1> QED
  BY <1>1, SpecIInv, PTL

\* So there is at most one of a symbol and side: the context blocks the next.
THEOREM LiveOneWorkingOpening == Spec => []OneWorkingOpeningDetailed
<1>1. IInv => OneWorkingOpeningDetailed
  BY DEF IInv, Held, OneContextPerKey, WorkingOrdersKnown, OneWorkingOpeningDetailed,
         OneWorkingOpening
<1> QED
  BY <1>1, SpecIInv, PTL

(***************************************************************************)
(* The refinement: the book is what the broker remembers of its orders.    *)
(***************************************************************************)

Move(id) ==
  \/ OrderBookOf!Idle(id) \/ OrderBookOf!Place(id) \/ OrderBookOf!Execute(id)
  \/ OrderBookOf!Finish(id) \/ OrderBookOf!Withdraw(id)

LEMMA InitMapped == Init => OrderBookOf!Init
<1> SUFFICES ASSUME Init PROVE OrderBookOf!Init
  OBVIOUS
<1>1. \A id \in OrderIds : id >= 1 /\ ~(id < 1)
  BY DEF OrderIds
<1> QED
  BY <1>1 DEF Init, LiveInit, OrderBookOf!Init, PhaseOf

LEMMA SubmitMoves ==
  ASSUME BrokerHeld, NEW o \in Order, SubmitLive(o), NEW id \in OrderIds
  PROVE  Move(id)
<1>1. /\ nextId \in OrderIds /\ nextId \in Nat /\ id \in Nat /\ nextId' = nextId + 1
      /\ nextId \notin tracked
  BY DEF SubmitLive, BrokerHeld, LiveTypeOK, Tracking, Untracked, OrderIds
<1>2. /\ orders' = [orders EXCEPT ![nextId] = o]
      /\ lastStatus' =
           [lastStatus EXCEPT ![nextId] = IF Invalid(o) THEN "none" ELSE "SUBMITTED"]
      /\ lastFilled' = lastFilled
  BY DEF SubmitLive
<1>3. CASE id = nextId
  <2>1. /\ orders'[id] = o /\ id < nextId' /\ lastFilled[id] = 0
        /\ lastStatus'[id] = IF Invalid(o) THEN "none" ELSE "SUBMITTED"
    BY <1>1, <1>2, <1>3 DEF BrokerHeld, LiveTypeOK, Tracking, Untracked
  <2>2. o.qty \in Nat /\ o.qty > 0
    BY PositiveQuantity DEF Order
  <2>3. PhaseOf(id) = "none" /\ PhaseOf(id)' = IF Invalid(o) THEN "rejected" ELSE "working"
    BY <1>1, <1>3, <2>1 DEF PhaseOf
  <2>4. OrderBookOf!Place(id)
    BY <1>2, <2>1, <2>2, <2>3 DEF OrderBookOf!Place
  <2> QED
    BY <2>4 DEF Move
<1>4. CASE id # nextId
  <2>1. /\ orders'[id] = orders[id] /\ lastStatus'[id] = lastStatus[id]
        /\ (id < nextId' <=> id < nextId) /\ (id >= nextId' <=> id >= nextId)
    BY <1>1, <1>2, <1>4
  <2>2. PhaseOf(id)' = PhaseOf(id)
    BY <2>1 DEF PhaseOf
  <2>3. OrderBookOf!Idle(id)
    BY <1>2, <2>1, <2>2 DEF OrderBookOf!Idle
  <2> QED
    BY <2>3 DEF Move
<1> QED
  BY <1>3, <1>4

\* A read skips the steps it has not seen: it shows an order further executed,
\* finished, or withdrawn short of its quantity.
LEMMA ReadMoves ==
  ASSUME BrokerHeld, NEW a \in Pollable, ReadOrder(a), NEW id \in OrderIds
  PROVE  Move(id)
<1>1. /\ UNCHANGED <<nextId, orders>>
      /\ lastStatus' = [lastStatus EXCEPT ![a] = ReadStatus(a)]
      /\ lastFilled' = [lastFilled EXCEPT ![a] = traded[a]]
  BY DEF ReadOrder
<1>2. CASE id # a
  <2>1. lastStatus'[id] = lastStatus[id] /\ lastFilled'[id] = lastFilled[id]
    BY <1>1, <1>2
  <2>2. PhaseOf(id)' = PhaseOf(id)
    BY <1>1, <2>1 DEF PhaseOf
  <2> QED
    BY <1>1, <2>1, <2>2 DEF Move, OrderBookOf!Idle
<1>3. CASE id = a
  <2>1. id \in tracked /\ id \notin terminal
    BY <1>3 DEF Pollable
  <2>2. ApiSound(id) /\ ReadSound(id)
    BY <2>1 DEF BrokerHeld, Tracking
  <2>3. /\ id < nextId /\ nextId \in Nat /\ id \in Nat
        /\ orders[id].qty \in Nat /\ traded[id] \in Nat /\ lastFilled[id] \in Nat
    BY <2>1, TrackedOrder DEF BrokerHeld, LiveTypeOK, OrderIds
  <2>4. lastStatus'[id] = ReadStatus(id) /\ lastFilled'[id] = traded[id]
    BY <1>1, <1>3 DEF BrokerHeld, LiveTypeOK
  <2>5. lastStatus[id] \in {"SUBMITTED", "PARTIAL"}
    BY <2>1, <2>2 DEF ReadSound, FinalStatus, BrokerHeld, LiveTypeOK, LastStatus
  <2>6. PhaseOf(id) = "working"
    BY <2>3, <2>5 DEF PhaseOf
  <2>7. lastFilled[id] <= traded[id] /\ traded[id] <= orders[id].qty
    BY <2>2 DEF ApiSound, ReadSound
  <2>8. CASE ReadStatus(id) = "FILLED"
    <3>1. traded[id] = orders[id].qty
      BY <2>8 DEF ReadStatus
    <3>2. PhaseOf(id)' = "done"
      BY <1>1, <2>3, <2>4, <2>8 DEF PhaseOf
    <3>3. OrderBookOf!Finish(id)
      BY <1>1, <2>3, <2>4, <2>6, <3>1, <3>2 DEF OrderBookOf!Finish
    <3> QED
      BY <3>3 DEF Move
  <2>9. CASE ReadStatus(id) # "FILLED"
    <3>1. ~DryRun
      BY DEF Pollable
    <3>2. traded[id] # orders[id].qty
      <4>1. apiStatus[id] \notin {"FILLED", "none"}
        BY <2>2, <2>9, <3>1 DEF ApiSound, ReadStatus
      <4>2. CASE apiStatus[id] = "FINISHED"
        BY <2>9, <4>2 DEF ReadStatus
      <4>3. CASE apiStatus[id] # "FINISHED"
        <5>1. apiStatus[id] \in ApiOpen \cup {"CANCELED", "REJECTED"}
          BY <4>1, <4>3 DEF BrokerHeld, LiveTypeOK, ApiEnded
        <5> QED
          BY <2>2, <2>3, <5>1 DEF ApiSound
      <4> QED
        BY <4>2, <4>3
    <3>3. traded[id] < orders[id].qty
      BY <2>3, <2>7, <3>2
    <3>4. CASE ReadStatus(id) \in {"SUBMITTED", "PARTIAL"}
      <4>1. PhaseOf(id)' = "working"
        BY <1>1, <2>3, <2>4, <3>4 DEF PhaseOf
      <4>2. OrderBookOf!Execute(id)
        BY <1>1, <2>3, <2>4, <2>6, <2>7, <3>3, <4>1 DEF OrderBookOf!Execute
      <4> QED
        BY <4>2 DEF Move
    <3>5. CASE ReadStatus(id) \in {"CANCELED", "REJECTED"}
      <4>1. PhaseOf(id)' = "canceled"
        BY <1>1, <2>3, <2>4, <3>5 DEF PhaseOf
      <4>2. OrderBookOf!Withdraw(id)
        BY <1>1, <2>3, <2>4, <2>6, <2>7, <3>3, <4>1 DEF OrderBookOf!Withdraw
      <4> QED
        BY <4>2 DEF Move
    <3> QED
      BY <2>9, <3>4, <3>5, ReadType DEF LastStatus
  <2> QED
    BY <2>8, <2>9
<1> QED
  BY <1>2, <1>3

LEMMA BookRests ==
  ASSUME UNCHANGED <<nextId, orders, lastStatus, lastFilled>>
  PROVE  UNCHANGED OrderBookOf!orderVars
BY DEF OrderBookOf!orderVars, PhaseOf

LEMMA NextMapped == IInv /\ [Next]_vars => [OrderBookOf!Next]_(OrderBookOf!orderVars)
<1> SUFFICES ASSUME IInv, [Next]_vars
             PROVE  \/ \A id \in OrderIds : Move(id)
                    \/ UNCHANGED <<nextId, orders, lastStatus, lastFilled>>
  BY BookRests DEF Move, OrderBookOf!Next
<1>1. BrokerHeld /\ Polling
  BY HeldParts DEF IInv
<1>2. ASSUME NEW a \in OrderIds, PollOne(a)
      PROVE  \/ \A id \in OrderIds : Move(id)
             \/ UNCHANGED <<nextId, orders, lastStatus, lastFilled>>
  <2>1. a \in Pollable
    BY <1>1, <1>2 DEF PollOne, Polling
  <2> QED
    BY <1>1, <1>2, <2>1, ReadMoves DEF PollOne, liveVars
<1>3. ASSUME NEW a \in OrderIds, ApplyPartial(a) \/ ApplyOther(a) \/ ApplyFill(a)
      PROVE  UNCHANGED <<nextId, orders, lastStatus, lastFilled>>
  BY <1>3 DEF ApplyPartial, ApplyOther, ApplyFill, applyOthers, liveVars
<1>4. ASSUME NEW o \in Order, OpenDecision(o)
      PROVE  \A id \in OrderIds : Move(id)
  BY <1>1, <1>4, SubmitMoves DEF OpenDecision
<1>5. ASSUME NEW s \in Symbols, NoOrderPlaced(s)
      PROVE  UNCHANGED <<nextId, orders, lastStatus, lastFilled>>
  BY <1>5 DEF NoOrderPlaced, liveVars
<1>6. CASE ExpirePendingOrders
  BY <1>6 DEF ExpirePendingOrders, AskCancel
<1>7. CASE ApiMoves
  BY <1>7 DEF ApiMoves, Api, ApiTrades, ApiCancels, ApiRefuses, apiOthers
<1>8. CASE PollEnds \/ BeginDecisions \/ EndTick \/ UNCHANGED vars
  BY <1>8 DEF PollEnds, BeginDecisions, EndTick, vars, liveVars
<1> QED
  BY <1>2, <1>3, <1>4, <1>5, <1>6, <1>7, <1>8 DEF Next, Updating, Deciding, Finished

\* What the broker reports of its orders follows the order book, although the
\* API's own steps are only seen poll by poll.
THEOREM LiveImplementsOrderBook == Spec => ImplementsOrderBook
BY InitMapped, SpecIInv, NextMapped, PTL DEF Spec, ImplementsOrderBook, OrderBookOf!Spec
=============================================================================
