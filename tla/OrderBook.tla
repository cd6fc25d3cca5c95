------------------------------ MODULE OrderBook ------------------------------
(***************************************************************************)
(* What a broker promises about its orders, whatever it does inside: an    *)
(* order is placed once, is executed in growing amounts while it works,    *)
(* ends at most once, and never moves again after it has ended.  Several   *)
(* orders may move in one step (a poll serves the whole book).             *)
(***************************************************************************)
EXTENDS Integers

CONSTANT Ids   \* order ids

VARIABLES
  phase,      \* order id -> none, working, done, canceled or rejected
  size,       \* order id -> the quantity asked for, 0 before it is placed
  executed    \* order id -> the quantity executed so far

orderVars == <<phase, size, executed>>

Init ==
  /\ phase = [id \in Ids |-> "none"]
  /\ size = [id \in Ids |-> 0]
  /\ executed = [id \in Ids |-> 0]

\* A placed order is refused, starts working, or is done at once.
Place(id) ==
  /\ phase[id] = "none"
  /\ size'[id] > 0
  /\ \/ phase'[id] = "rejected" /\ executed'[id] = 0
     \/ phase'[id] = "working" /\ 0 <= executed'[id] /\ executed'[id] < size'[id]
     \/ phase'[id] = "done" /\ executed'[id] = size'[id]

\* Executed quantity only grows, and stays short of the size until done.
Execute(id) ==
  /\ phase[id] = "working" /\ phase'[id] = "working"
  /\ size'[id] = size[id]
  /\ executed[id] <= executed'[id] /\ executed'[id] < size[id]

Finish(id) ==
  /\ phase[id] = "working" /\ phase'[id] = "done"
  /\ size'[id] = size[id]
  /\ executed'[id] = size[id]

\* A withdrawn order keeps what was executed before it, all of which may not
\* have been seen yet.
Withdraw(id) ==
  /\ phase[id] = "working" /\ phase'[id] = "canceled"
  /\ size'[id] = size[id]
  /\ executed[id] <= executed'[id] /\ executed'[id] < size[id]

Idle(id) == UNCHANGED <<phase[id], size[id], executed[id]>>

Next ==
  \A id \in Ids :
    Idle(id) \/ Place(id) \/ Execute(id) \/ Finish(id) \/ Withdraw(id)

Spec == Init /\ [][Next]_orderVars
=============================================================================
