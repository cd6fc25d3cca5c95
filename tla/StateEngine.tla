----------------------------- MODULE StateEngine -----------------------------
(***************************************************************************)
(* core/state: what a successful ExecutionResult does to the quantities of *)
(* PortfolioState.positions.  A position is identified by its PositionKey; *)
(* the key of a position that was never opened is kept at quantity 0.      *)
(* Prices, PnL and the exact cash amount are left out.                     *)
(***************************************************************************)
EXTENDS Integers

KeyOf(o) == <<o.sym, o.contract, o.pside>>

\* PositionLifecycle: buying long or selling short opens, the rest closes.
IsOpen(o) ==
  \/ o.pside = "long" /\ o.side = "buy"
  \/ o.pside = "short" /\ o.side = "sell"

OpeningSide(p) == IF p = "long" THEN "buy" ELSE "sell"

ClosingSide(p) == IF p = "long" THEN "sell" ELSE "buy"

\* cannot_close_missing_position and close_quantity_exceeds_position.
CannotClose(positions, o, q) ==
  ~IsOpen(o) /\ (positions[KeyOf(o)] = 0 \/ q > positions[KeyOf(o)])

\* Mutant: a sale is booked as a negative quantity whatever side it opens.
AppliedSigned(positions, o, q) ==
  [positions EXCEPT ![KeyOf(o)] = IF o.side = "buy" THEN @ + q ELSE @ - q]

\* StateEngine.apply of q units, when it does not raise.
Applied(positions, o, q) ==
  [positions EXCEPT ![KeyOf(o)] = IF IsOpen(o) THEN @ + q ELSE @ - q]
=============================================================================
