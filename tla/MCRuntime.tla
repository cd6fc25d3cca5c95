------------------------------ MODULE MCRuntime ------------------------------
(* Values of the constants of Runtime that a .cfg cannot write down.  The   *)
(* order book the broker implements is stated in BrokerCaller.              *)
EXTENDS RuntimeProperties, BrokerCaller

CONSTANTS c1, c2

\* Every symbol keeps its contract.
FixedSchedule == [s \in Symbols |-> <<c1>>]

\* The main contract changes, and soon changes back.
RollBackSchedule == [s \in Symbols |-> <<c1, c2, c1>>]

\* The main contract changes after enough bars for a position of two orders.
LateRollSchedule == [s \in Symbols |-> <<c1, c1, c1, c1, c2>>]
=============================================================================
