----------------------------- MODULE MCStrategies -----------------------------
(***************************************************************************)
(* Values of the constants of Strategies for TLC.                          *)
(***************************************************************************)
EXTENDS Strategies

Quote(p, v) == [price |-> p, volume |-> v]

\* Three prices, a low and a high volume, a quote without volume, one without bar.
SomeQuotes ==
  {Quote(p, v) : p \in 1..3, v \in {1, 3}} \cup {Quote(2, NoVolume), Quote(3, NoVolume), NoBar}

TwoSymbols == {"au", "ag"}

\* The reversion trades au as it likes; the trend filter of ag is forced long.
MixedEnabled == [au |-> "reversion", ag |-> "trend"]
LongForce == [au |-> NoForce, ag |-> "OPEN_LONG"]

OneSymbol == {"au"}
ReversionEnabled == [au |-> "reversion"]
Unforced == [au |-> NoForce]
=============================================================================
