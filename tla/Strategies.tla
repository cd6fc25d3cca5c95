------------------------------ MODULE Strategies ------------------------------
(***************************************************************************)
(* strategies/volume: four strategies that read one quote of a symbol per  *)
(* tick, keep a rolling window of prices and volumes per symbol and answer *)
(* with a decision.  ParametrizedStrategy may replace the decision, and    *)
(* the execution engine takes or refuses what the enabled strategy says.   *)
(* The arithmetic is exact where the code's is floating point.             *)
(***************************************************************************)
EXTENDS Integers, SequencesExt

CONSTANTS
  Symbols,
  Quotes,           \* quotes the feed may deliver; see NoBar and NoVolume
  NoBar,            \* a quote without a bar of the strategies' timeframe
  NoVolume,         \* the volume of a quote that has none
  SpikeWindow, BreakoutLookback, SpikeMult, SpikeDirection,
  RevWindow, ZEntry, ZExit, LowVolMult,
  MomentumWindow, TrendVolWindow, TrendVolMult, TrendDirection,
  GuardVolWindow, GuardVolMult,
  Den,              \* the multipliers and z bounds are fractions of Den
  Enabled,          \* symbol -> the strategy enabled for it
  ForceDecision,    \* symbol -> force_decision of its params, or NoForce
  NoForce,
  MaxQuotes         \* bound of the number of quotes delivered

Names == {"spike", "reversion", "trend", "guard"}

Decisions == {"HOLD", "OPEN_LONG", "OPEN_SHORT", "CLOSE"}

Positive == Nat \ {0}

ASSUME StrategyConfig ==
  /\ {SpikeWindow, BreakoutLookback, RevWindow, MomentumWindow, TrendVolWindow,
      GuardVolWindow} \subseteq Positive
  /\ {SpikeMult, ZEntry, ZExit, LowVolMult, TrendVolMult, GuardVolMult, Den} \subseteq Positive
  /\ {SpikeDirection, TrendDirection} \subseteq {"long", "short", "both"}
  /\ Enabled \in [Symbols -> Names]
  /\ NoForce \notin Decisions
  /\ ForceDecision \in [Symbols -> Decisions \cup {NoForce}]
  /\ MaxQuotes \in Nat
  /\ NoVolume \notin Nat
  /\ NoBar \notin [price : Nat, volume : Nat \cup {NoVolume}]
  /\ Quotes \subseteq [price : Nat, volume : Nat \cup {NoVolume}] \cup {NoBar}

VARIABLES
  series,    \* strategy -> symbol -> its RollingSeries in _state
  position,  \* symbol -> _position of the reversion strategy: 1, 0 or -1
  signals,   \* strategy -> symbol -> its last decision and reason
  held,      \* symbol -> side -> quantity its enabled strategy opened
  quoted,    \* symbol -> the quotes with a bar it has been given, in order
  turns      \* symbol -> openings and closings the reversion has asked for

vars == <<series, position, signals, held, quoted, turns>>

(***************************************************************************)
(* _common.py                                                              *)
(***************************************************************************)

Larger(a, b) == IF a >= b THEN a ELSE b

MaxLen == [spike     |-> Larger(SpikeWindow, BreakoutLookback),
           reversion |-> RevWindow,
           trend     |-> Larger(MomentumWindow + 1, TrendVolWindow),
           guard     |-> GuardVolWindow]

Shifted(s, maxlen) == IF Len(s) >= maxlen THEN Tail(s) ELSE s

Appended(ser, q, maxlen) ==
  [prices  |-> Append(Shifted(ser.prices, maxlen), q.price),
   volumes |-> IF q.volume = NoVolume THEN Shifted(ser.volumes, maxlen)
               ELSE Append(Shifted(ser.volumes, maxlen), q.volume)]

EmptySeries == [prices |-> <<>>, volumes |-> <<>>]

Newest(s, n) == SubSeq(s, Len(s) - n + 1, Len(s))

Total(s) == FoldLeft(+, 0, s)

\* volume against mult * mean(volumes), without the division
Above(volume, volumes, mult) == Den * volume * Len(volumes) > mult * Total(volumes)
Below(volume, volumes, mult) == Den * volume * Len(volumes) < mult * Total(volumes)

Hold(reason) == [decision |-> "HOLD", reason |-> reason]

Side(decision) ==
  CASE decision = "OPEN_LONG"               -> "buy"
    [] decision \in {"OPEN_SHORT", "CLOSE"} -> "sell"
    [] OTHER                                -> "none"

PositionSide(decision) ==
  CASE decision = "OPEN_LONG"  -> "long"
    [] decision = "OPEN_SHORT" -> "short"
    [] OTHER                   -> "flat"

(***************************************************************************)
(* generate: what each strategy needs before it decides, and its decision  *)
(* on quote q from the window ser that does not hold q yet.                *)
(***************************************************************************)

Warm(name, ser) ==
  CASE name = "spike" ->
         Len(ser.volumes) >= SpikeWindow /\ Len(ser.prices) >= BreakoutLookback
    [] name = "reversion" ->
         Len(ser.prices) >= RevWindow /\ Len(ser.volumes) >= RevWindow
    [] name = "trend" ->
         Len(ser.prices) >= MomentumWindow + 1 /\ Len(ser.volumes) >= TrendVolWindow
    [] name = "guard" -> Len(ser.volumes) >= GuardVolWindow

Allows(direction, side) == direction \in {side, "both"}

SpikeSignal(ser, q) ==
  LET recent == Range(Newest(ser.prices, BreakoutLookback))
      spike  == Above(q.volume, Newest(ser.volumes, SpikeWindow), SpikeMult)
  IN IF spike /\ (\A p \in recent : q.price > p) /\ Allows(SpikeDirection, "long")
     THEN [decision |-> "OPEN_LONG", reason |-> "volume_spike_high_breakout"]
     ELSE IF spike /\ (\A p \in recent : q.price < p) /\ Allows(SpikeDirection, "short")
     THEN [decision |-> "OPEN_SHORT", reason |-> "volume_spike_low_breakout"]
     ELSE Hold("no_breakout")

\* z = Deviation / sqrt(Spread), and 0 when the spread is
Deviation(prices, p) == Len(prices) * p - Total(prices)

Spread(prices) ==
  Len(prices) * Total([i \in DOMAIN prices |-> prices[i] * prices[i]])
    - Total(prices) * Total(prices)

AtLeast(prices, p, z) ==
  /\ Spread(prices) > 0
  /\ Deviation(prices, p) > 0
  /\ Den * Den * Deviation(prices, p) * Deviation(prices, p) >= z * z * Spread(prices)

AtMost(prices, p, z) ==
  /\ Spread(prices) > 0
  /\ Deviation(prices, p) < 0
  /\ Den * Den * Deviation(prices, p) * Deviation(prices, p) >= z * z * Spread(prices)

Within(prices, p, z) ==
  \/ Spread(prices) = 0
  \/ Den * Den * Deviation(prices, p) * Deviation(prices, p) <= z * z * Spread(prices)

ReversionSignal(ser, q, pos) ==
  LET quiet == Below(q.volume, ser.volumes, LowVolMult)
  IN IF pos /= 0 /\ Within(ser.prices, q.price, ZExit)
     THEN [decision |-> "CLOSE", reason |-> "reversion_exit"]
     ELSE IF pos = 0 /\ quiet /\ AtLeast(ser.prices, q.price, ZEntry)
     THEN [decision |-> "OPEN_SHORT", reason |-> "low_volume_high_z_reversion"]
     ELSE IF pos = 0 /\ quiet /\ AtMost(ser.prices, q.price, ZEntry)
     THEN [decision |-> "OPEN_LONG", reason |-> "low_volume_low_z_reversion"]
     ELSE Hold("no_reversion")

\* Mutant: the past price is one quote too old.
TrendSignalOlder(ser, q) ==
  LET past == ser.prices[Len(ser.prices) - MomentumWindow]
  IN IF Below(q.volume, Newest(ser.volumes, TrendVolWindow), TrendVolMult)
     THEN Hold("volume_filter_blocked")
     ELSE IF q.price = past THEN Hold("flat_momentum")
     ELSE IF q.price > past /\ Allows(TrendDirection, "long")
     THEN [decision |-> "OPEN_LONG", reason |-> "volume_confirmed_uptrend"]
     ELSE IF q.price < past /\ Allows(TrendDirection, "short")
     THEN [decision |-> "OPEN_SHORT", reason |-> "volume_confirmed_downtrend"]
     ELSE Hold("direction_blocked")

TrendSignal(ser, q) ==
  LET past == ser.prices[Len(ser.prices) - MomentumWindow + 1]
  IN IF Below(q.volume, Newest(ser.volumes, TrendVolWindow), TrendVolMult)
     THEN Hold("volume_filter_blocked")
     ELSE IF q.price = past THEN Hold("flat_momentum")
     ELSE IF q.price > past /\ Allows(TrendDirection, "long")
     THEN [decision |-> "OPEN_LONG", reason |-> "volume_confirmed_uptrend"]
     ELSE IF q.price < past /\ Allows(TrendDirection, "short")
     THEN [decision |-> "OPEN_SHORT", reason |-> "volume_confirmed_downtrend"]
     ELSE Hold("direction_blocked")

GuardSignal(ser, q) ==
  Hold(IF Below(q.volume, ser.volumes, GuardVolMult) THEN "low_volume_blocked" ELSE "volume_ok")

Signal(name, ser, q, pos) ==
  IF q = NoBar THEN Hold("missing_timeframe_bar")
  ELSE IF q.volume = NoVolume THEN Hold("missing_volume")
  ELSE IF ~Warm(name, ser) THEN Hold("warming_up")
  ELSE CASE name = "spike"     -> SpikeSignal(ser, q)
         [] name = "reversion" -> ReversionSignal(ser, q, pos)
         [] name = "trend"     -> TrendSignal(ser, q)
         [] name = "guard"     -> GuardSignal(ser, q)

Believed(pos, decision) ==
  CASE decision = "OPEN_LONG"  -> 1
    [] decision = "OPEN_SHORT" -> -1
    [] decision = "CLOSE"      -> 0
    [] OTHER                   -> pos

(***************************************************************************)
(* From a strategy's answer to a position.  force_decision replaces the    *)
(* decision and leaves the sides; ExecutionEngine refuses what its         *)
(* contract does not admit; an immediate broker fills one unit, and no     *)
(* guard or limit refuses.                                                 *)
(***************************************************************************)

Final(s, decision) == IF ForceDecision[s] = NoForce THEN decision ELSE ForceDecision[s]

\* Mutant: the sides of an opening are not compared with its decision.
AcceptsAnySide(decision, own) ==
  CASE decision \in {"OPEN_LONG", "OPEN_SHORT"} -> PositionSide(own) /= "flat"
    [] decision = "CLOSE" -> Side(own) /= "none" /\ PositionSide(own) /= "flat"
    [] OTHER -> FALSE

\* decision is the final one; the sides are those of the strategy's own
Accepts(decision, own) ==
  CASE decision = "OPEN_LONG"  -> Side(own) = "buy" /\ PositionSide(own) = "long"
    [] decision = "OPEN_SHORT" -> Side(own) = "sell" /\ PositionSide(own) = "short"
    [] decision = "CLOSE"      -> Side(own) /= "none" /\ PositionSide(own) /= "flat"
    [] OTHER                   -> FALSE

\* The sides of an answer are buy and long, or sell and short: they open.
Executed(s, own) ==
  IF Accepts(Final(s, own), own)
  THEN [held[s] EXCEPT ![PositionSide(own)] = @ + 1]
  ELSE held[s]

(***************************************************************************)
(* StrategySet.generate for one symbol, and the tick's execution of it.    *)
(***************************************************************************)

Init ==
  /\ series = [n \in Names |-> [s \in Symbols |-> EmptySeries]]
  /\ position = [s \in Symbols |-> 0]
  /\ signals = [n \in Names |-> [s \in Symbols |-> Hold("none")]]
  /\ held = [s \in Symbols |-> [long |-> 0, short |-> 0]]
  /\ quoted = [s \in Symbols |-> <<>>]
  /\ turns = [s \in Symbols |-> [opened |-> 0, closed |-> 0]]

Delivered == FoldFunction(+, 0, [s \in Symbols |-> Len(quoted[s])])

Generate(s, q) ==
  LET answer == [n \in Names |-> Signal(n, series[n][s], q, position[s])]
      turn   == answer["reversion"].decision
  IN /\ q /= NoBar => Delivered < MaxQuotes
     /\ signals' = [n \in Names |-> [signals[n] EXCEPT ![s] = answer[n]]]
     /\ series' = IF q = NoBar THEN series
                  ELSE [n \in Names |->
                         [series[n] EXCEPT ![s] = Appended(@, q, MaxLen[n])]]
     /\ position' = [position EXCEPT ![s] = Believed(@, turn)]
     /\ held' = [held EXCEPT ![s] = Executed(s, answer[Enabled[s]].decision)]
     /\ quoted' = IF q = NoBar THEN quoted ELSE [quoted EXCEPT ![s] = Append(@, q)]
     /\ turns' = [turns EXCEPT ![s] =
                    [opened |-> @.opened + (IF turn \in {"OPEN_LONG", "OPEN_SHORT"} THEN 1 ELSE 0),
                     closed |-> @.closed + (IF turn = "CLOSE" THEN 1 ELSE 0)]]

Next == \E s \in Symbols, q \in Quotes : Generate(s, q)

Spec == Init /\ [][Next]_vars

-------------------------------------------------------------------------------
(***************************************************************************)
(* Type invariant and properties.  They look at the quotes themselves and  *)
(* never at the windows the strategies keep.                               *)
(***************************************************************************)

Reasons ==
  {"none", "missing_timeframe_bar", "missing_volume", "warming_up",
   "volume_spike_high_breakout", "volume_spike_low_breakout", "no_breakout",
   "reversion_exit", "low_volume_high_z_reversion", "low_volume_low_z_reversion",
   "no_reversion", "volume_filter_blocked", "flat_momentum", "volume_confirmed_uptrend",
   "volume_confirmed_downtrend", "direction_blocked", "low_volume_blocked", "volume_ok"}

\* Every variable has its type, and no window is longer than its maxlen.
TypeOK ==
  /\ series \in [Names -> [Symbols -> [prices : Seq(Nat), volumes : Seq(Nat)]]]
  /\ \A n \in Names, s \in Symbols :
       Len(series[n][s].prices) <= MaxLen[n] /\ Len(series[n][s].volumes) <= MaxLen[n]
  /\ position \in [Symbols -> {-1, 0, 1}]
  /\ signals \in [Names -> [Symbols -> [decision : Decisions, reason : Reasons]]]
  /\ held \in [Symbols -> [long : Nat, short : Nat]]
  /\ quoted \in [Symbols -> Seq([price : Nat, volume : Nat \cup {NoVolume}])]
  /\ turns \in [Symbols -> [opened : Nat, closed : Nat]]

HasVolume(q) == q.volume /= NoVolume

Prices(h) == [i \in DOMAIN h |-> h[i].price]

WithVolume(known, q) == IF HasVolume(q) THEN Append(known, q.volume) ELSE known

KnownVolumes(h) == FoldLeft(WithVolume, <<>>, h)

\* The last n quotes of h all came with a volume.
Complete(h, n) == Len(h) >= n /\ \A i \in (Len(h) - n + 1)..Len(h) : HasVolume(h[i])

Answered(name, s) == quoted[s] /= <<>> /\ signals[name][s].reason /= "missing_timeframe_bar"

\* A breakout is a price beyond each of the last breakout_lookback prices quoted
\* before it, on a volume above spike_mult times the mean of the last window volumes
\* known before it.  VolumeSpikeBreakout opens only on one, and on every one once
\* the window is full of quotes with volume.
SpikeFollowsQuotes ==
  \A s \in Symbols : Answered("spike", s) =>
    LET h == Front(quoted[s])
        q == Last(quoted[s])
        breakout ==
          /\ HasVolume(q)
          /\ Len(KnownVolumes(h)) >= SpikeWindow
          /\ Above(q.volume, Newest(KnownVolumes(h), SpikeWindow), SpikeMult)
        up == breakout /\ \A i \in DOMAIN h : i > Len(h) - BreakoutLookback => q.price > h[i].price
        down == breakout /\ \A i \in DOMAIN h : i > Len(h) - BreakoutLookback => q.price < h[i].price
        said == signals["spike"][s].decision
    IN /\ said = "OPEN_LONG" => up
       /\ said = "OPEN_SHORT" => down
       /\ Complete(h, MaxLen["spike"]) =>
            /\ up /\ Allows(SpikeDirection, "long") => said = "OPEN_LONG"
            /\ down /\ Allows(SpikeDirection, "short") => said = "OPEN_SHORT"

\* VolumeTrendFilter compares a quote with the one quoted momentum_window quotes
\* earlier, whatever quotes in between lacked a volume, and opens in that direction
\* only when the volume reaches min_vol_mult times the mean of the last vol_window
\* volumes known before it; with a full window it does so at every such quote.
TrendFollowsQuotes ==
  \A s \in Symbols : Answered("trend", s) =>
    LET h == Front(quoted[s])
        q == Last(quoted[s])
        enough ==
          /\ HasVolume(q)
          /\ Len(h) >= MomentumWindow
          /\ Len(KnownVolumes(h)) >= TrendVolWindow
          /\ ~Below(q.volume, Newest(KnownVolumes(h), TrendVolWindow), TrendVolMult)
        move == q.price - quoted[s][Len(quoted[s]) - MomentumWindow].price
        said == signals["trend"][s].decision
    IN /\ said = "OPEN_LONG" => enough /\ move > 0
       /\ said = "OPEN_SHORT" => enough /\ move < 0
       /\ Complete(h, MaxLen["trend"]) /\ enough =>
            /\ move > 0 /\ Allows(TrendDirection, "long") => said = "OPEN_LONG"
            /\ move < 0 /\ Allows(TrendDirection, "short") => said = "OPEN_SHORT"

\* VolumeMAReversion sells a price high above the last window prices quoted before it
\* and buys one far below, on a volume below low_vol_mult times their mean volume, and
\* it asks for the exit only of what it believes open: openings and exits alternate.
ReversionFollowsQuotes ==
  \A s \in Symbols :
    /\ turns[s].opened - turns[s].closed = (IF position[s] = 0 THEN 0 ELSE 1)
    /\ signals["reversion"][s].decision \in {"OPEN_LONG", "OPEN_SHORT"} =>
         LET h      == Front(quoted[s])
             q      == Last(quoted[s])
             prices == Newest(Prices(h), RevWindow)
         IN /\ Len(h) >= RevWindow
            /\ Below(q.volume, Newest(KnownVolumes(h), RevWindow), LowVolMult)
            /\ CASE position[s] = -1 -> AtLeast(prices, q.price, ZEntry)
                 [] position[s] = 1  -> AtMost(prices, q.price, ZEntry)
                 [] OTHER            -> FALSE

\* What each strategy says follows from the quotes, whatever its windows went through:
\* gaps in the volumes, missing bars, windows filled again.
SignalsFollowQuotes == SpikeFollowsQuotes /\ TrendFollowsQuotes /\ ReversionFollowsQuotes

\* An opening forced by force_decision never trades the other side: what its strategy
\* would open on the other side is refused, whatever the quotes.
ForcedNeverFlips ==
  \A s \in Symbols :
    /\ ForceDecision[s] = "OPEN_LONG" => held[s].short = 0
    /\ ForceDecision[s] = "OPEN_SHORT" => held[s].long = 0
    /\ ForceDecision[s] = "HOLD" => held[s] = [long |-> 0, short |-> 0]

\* What the enabled strategy closes is closed: after its exit nothing that it opened
\* for the symbol is still held.
ExitCloses ==
  \A s \in Symbols :
    Enabled[s] = "reversion" /\ position[s] = 0 => held[s] = [long |-> 0, short |-> 0]

=============================================================================
