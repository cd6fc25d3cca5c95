------------------------------- MODULE Universe -------------------------------
(***************************************************************************)
(* UniverseRuntime.run_tick between the strategies and the executor: which *)
(* symbols are active, which decisions are filtered out, which one the     *)
(* router keeps of a symbol, and what trading hours still stop.            *)
(***************************************************************************)
EXTENDS Integers, FiniteSets, Functions

CONSTANTS
  Symbols,
  Strategies,
  Configured,     \* pairs of a strategy and a symbol it is configured for
  SymbolRank,     \* symbol -> its place among the sorted symbols
  NameRank,       \* strategy -> its place among the sorted names
  Priority,       \* strategy -> its priority; a lower number goes first
  Weight,         \* strategy -> its weight, in some unit
  TieBreaker,     \* "priority" or "lex"
  Modes,          \* router modes of the plans considered
  EnabledMaps,    \* maps symbol -> enabled strategies of the sessions considered
  TopNs,          \* values of active_top_n considered; 0 turns the ranking off
  RefreshEvery,   \* rank_refresh_every
  Opinions,       \* what the strategies may say in a tick; see Decides
  MaxTicks

Decisions == {"CLOSE", "HOLD", "OPEN_LONG", "OPEN_SHORT"}

ASSUME UniverseConfig ==
  /\ IsFiniteSet(Symbols) /\ IsFiniteSet(Strategies)
  /\ Configured \subseteq Strategies \X Symbols
  /\ SymbolRank \in [Symbols -> Nat] /\ IsInjective(SymbolRank)
  /\ NameRank \in [Strategies -> Nat] /\ IsInjective(NameRank)
  /\ Priority \in [Strategies -> Nat] /\ Weight \in [Strategies -> Nat]
  /\ TieBreaker \in {"priority", "lex"}
  /\ Modes \subseteq {"priority", "weighted_vote", "netting"}
  /\ EnabledMaps \subseteq [Symbols -> SUBSET Strategies]
  /\ TopNs \subseteq Nat /\ RefreshEvery \in Nat \ {0} /\ MaxTicks \in Nat
  /\ Opinions \subseteq [Configured -> [decision : Decisions, score : Nat]]
  /\ \A o \in Opinions, p \in Configured : o[p].decision = "HOLD" => o[p].score = 0

VARIABLES
  mode,       \* router_config.mode
  topN,       \* active_top_n
  enabled,    \* enabled_strategies_by_symbol
  tick,       \* _tick
  opinion,    \* tagged: what each configured strategy said in the last tick
  tradable,   \* symbols inside their trading hours in the last tick
  active,     \* _active_symbols
  scores,     \* _last_scores
  excluded,   \* _last_excluded_symbols: symbol -> reason
  executed    \* pairs whose decision the executor took in the last tick

vars == <<mode, topN, enabled, tick, opinion, tradable, active, scores, excluded, executed>>

(***************************************************************************)
(* router.py, for the strategies of one symbol: group is not empty, d is   *)
(* what each of them decided.                                              *)
(***************************************************************************)

Precedes(a, b) ==
  \/ Priority[a] < Priority[b]
  \/ Priority[a] = Priority[b] /\ NameRank[a] < NameRank[b]

FirstOf(group) == CHOOSE a \in group : \A b \in group \ {a} : Precedes(a, b)

FirstByName(group) == CHOOSE a \in group : \A b \in group : NameRank[a] <= NameRank[b]

Saying(group, d, decision) == {a \in group : d[a] = decision}

WeightFor(group, d, decision) ==
  FoldFunctionOnSet(+, 0, Weight, Saying(group, d, decision))

\* Decision names in the order sorted() gives them.
DecisionOrder == <<"CLOSE", "HOLD", "OPEN_LONG", "OPEN_SHORT">>

VoteWinner(group, d) ==
  LET said == {i \in DOMAIN DecisionOrder : Saying(group, d, DecisionOrder[i]) /= {}}
      best == {i \in said : \A j \in said :
                 WeightFor(group, d, DecisionOrder[i]) >= WeightFor(group, d, DecisionOrder[j])}
  IN DecisionOrder[CHOOSE i \in best : \A j \in best : i <= j]

ByVote(group, d) ==
  LET bucket == Saying(group, d, VoteWinner(group, d))
  IN IF TieBreaker = "priority" THEN FirstOf(bucket) ELSE FirstByName(bucket)

\* Mutant: CLOSE counts as a decision among others.
ByNettingCloseLast(group, d) ==
  LET long  == WeightFor(group, d, "OPEN_LONG")
      short == WeightFor(group, d, "OPEN_SHORT")
      wanted ==
        IF long > short THEN Saying(group, d, "OPEN_LONG")
        ELSE IF short > long THEN Saying(group, d, "OPEN_SHORT")
        ELSE IF Saying(group, d, "CLOSE") /= {} THEN Saying(group, d, "CLOSE")
        ELSE Saying(group, d, "HOLD")
  IN FirstOf(IF wanted /= {} THEN wanted ELSE group)

ByNetting(group, d) ==
  LET long  == WeightFor(group, d, "OPEN_LONG")
      short == WeightFor(group, d, "OPEN_SHORT")
      wanted ==
        IF Saying(group, d, "CLOSE") /= {} THEN Saying(group, d, "CLOSE")
        ELSE IF long > short THEN Saying(group, d, "OPEN_LONG")
        ELSE IF short > long THEN Saying(group, d, "OPEN_SHORT")
        ELSE Saying(group, d, "HOLD")
  IN FirstOf(IF wanted /= {} THEN wanted ELSE group)

RouteOneSymbol(group, d) ==
  CASE mode = "priority"      -> FirstOf(group)
    [] mode = "weighted_vote" -> ByVote(group, d)
    [] mode = "netting"       -> ByNetting(group, d)

(***************************************************************************)
(* universe_runtime.py                                                     *)
(***************************************************************************)

\* _score_from_signals: the best of a symbol's signals, 0 without any
ScoreOf(op, s) ==
  LET all == {op[p].score : p \in {c \in Configured : c[2] = s}} \cup {0}
  IN CHOOSE x \in all : \A y \in all : x >= y

RankedBefore(sc, s, t) ==
  \/ sc[s] > sc[t]
  \/ sc[s] = sc[t] /\ SymbolRank[s] < SymbolRank[t]

TopOf(sc, candidates) ==
  {s \in candidates : Cardinality({t \in candidates : RankedBefore(sc, t, s)}) < topN}

Refreshes == tick % RefreshEvery = 0

\* Mutant: the top N of all symbols, of which those in trading hours are kept.
SelectActiveSymbolsLate(op, open) ==
  IF topN = 0
  THEN /\ active' = open
       /\ excluded' = [s \in Symbols \ open |-> "non_trading_time"]
       /\ UNCHANGED scores
  ELSE IF ~Refreshes THEN UNCHANGED <<active, excluded, scores>>
  ELSE /\ scores' = [s \in Symbols |-> ScoreOf(op, s)]
       /\ active' = TopOf(scores', Symbols) \cap open
       /\ excluded' = [s \in Symbols \ active' |->
                        IF s \in open THEN "below_top_n" ELSE "non_trading_time"]

\* _select_active_symbols
SelectActiveSymbols(op, open) ==
  IF topN = 0
  THEN /\ active' = open
       /\ excluded' = [s \in Symbols \ open |-> "non_trading_time"]
       /\ UNCHANGED scores
  ELSE IF ~Refreshes THEN UNCHANGED <<active, excluded, scores>>
  ELSE /\ scores' = [s \in Symbols |-> ScoreOf(op, s)]
       /\ active' = TopOf(scores', open)
       /\ excluded' = [s \in Symbols \ active' |->
                        IF s \in open THEN "below_top_n" ELSE "non_trading_time"]

\* _filter_tagged
Filtered(s) ==
  {n \in Strategies : <<n, s>> \in Configured /\ s \in active' /\ n \in enabled[s]}

\* Mutant: the map is applied to what the router has chosen.
RoutedThenFiltered(op) ==
  {p \in {<<RouteOneSymbol({n \in Strategies : <<n, s>> \in Configured},
                          [n \in {m \in Strategies : <<m, s>> \in Configured} |->
                             op[<<n, s>>].decision]), s>> :
            s \in {t \in active' : \E n \in Strategies : <<n, t>> \in Configured}} :
     p[1] \in enabled[p[2]]}

\* route, for every symbol that has a decision left
Routed(op) ==
  {<<RouteOneSymbol(Filtered(s), [n \in Filtered(s) |-> op[<<n, s>>].decision]), s>> :
     s \in {t \in Symbols : Filtered(t) /= {}}}

\* executor.run goes on only in trading hours.
RunTick(op, open) ==
  /\ tick < MaxTicks
  /\ tick' = tick + 1
  /\ opinion' = op
  /\ tradable' = open
  /\ SelectActiveSymbols(op, open)
  /\ executed' = {p \in Routed(op) : p[2] \in open}
  /\ UNCHANGED <<mode, topN, enabled>>

DefaultEnabled == [s \in Symbols |-> {n \in Strategies : <<n, s>> \in Configured}]

Init ==
  /\ mode \in Modes
  /\ topN \in TopNs
  /\ enabled \in EnabledMaps \cup {DefaultEnabled}
  /\ tick = 0
  /\ opinion = [p \in Configured |-> [decision |-> "HOLD", score |-> 0]]
  /\ tradable = {}
  /\ active = Symbols
  /\ scores = [s \in Symbols |-> 0]
  /\ excluded = <<>>
  /\ executed = {}

Next == \E op \in Opinions, open \in SUBSET Symbols : RunTick(op, open)

Spec == Init /\ [][Next]_vars

-------------------------------------------------------------------------------
(***************************************************************************)
(* Type invariant and properties, stated of the last tick.                 *)
(***************************************************************************)

\* Every variable has its type, and only configured strategies are executed.
TypeOK ==
  /\ mode \in Modes /\ topN \in TopNs /\ enabled \in [Symbols -> SUBSET Strategies] /\ tick \in 0..MaxTicks
  /\ opinion \in [Configured -> [decision : Decisions, score : Nat]]
  /\ tradable \subseteq Symbols /\ active \subseteq Symbols /\ scores \in [Symbols -> Nat]
  /\ DOMAIN excluded \subseteq Symbols
  /\ \A s \in DOMAIN excluded : excluded[s] \in {"below_top_n", "non_trading_time"}
  /\ executed \subseteq Configured

EnabledOn(s) == {n \in enabled[s] : <<n, s>> \in Configured}

Said(s) == [n \in EnabledOn(s) |-> opinion[<<n, s>>].decision]

\* The decision the executor takes for a symbol is one that the map enables, and no
\* disabled strategy of higher priority or weight ever takes its place: an active symbol
\* in trading hours with an enabled strategy has exactly one decision in every tick.
EnabledNotShadowed ==
  /\ \A p \in executed : p[1] \in EnabledOn(p[2]) /\ p[2] \in active
  /\ tick > 0 => \A s \in active \cap tradable :
       EnabledOn(s) /= {} => Cardinality({p \in executed : p[2] = s}) = 1

\* rank_refresh_every leaves the active set stale, so a symbol may close while it is
\* active: nothing is executed for it outside its trading hours.
ExecutedInTradingHours == \A p \in executed : p[2] \in tradable

\* A refresh fills the top N from the symbols in trading hours: none is left out for one
\* that scores less or does not trade, and every other symbol has a reason.  Between
\* refreshes the same symbols stay active, with the reasons of the others.
TopNFilled ==
  topN > 0 /\ tick > 0 =>
    /\ DOMAIN excluded = Symbols \ active
    /\ (tick - 1) % RefreshEvery = 0 =>
         /\ active \subseteq tradable
         /\ Cardinality(active) = IF Cardinality(tradable) < topN
                                  THEN Cardinality(tradable) ELSE topN
         /\ \A s \in active, t \in tradable \ active : scores[s] >= scores[t]
         /\ \A s \in Symbols \ active :
              excluded[s] = (IF s \in tradable THEN "below_top_n" ELSE "non_trading_time")

\* Ranked rarely and traded every tick, the active set is full of symbols in trading
\* hours when it is chosen, and costs no trade outside them when it has become stale.
RankingIsTradable == ExecutedInTradingHours /\ TopNFilled

\* In netting mode an enabled strategy that says CLOSE is never outvoted, and an opening
\* is never executed against a heavier opposite side, nor against an equal one when some
\* strategy says HOLD.
NettingIsSafe ==
  mode = "netting" => \A p \in executed :
    LET s     == p[2]
        took  == opinion[p].decision
        long  == WeightFor(EnabledOn(s), Said(s), "OPEN_LONG")
        short == WeightFor(EnabledOn(s), Said(s), "OPEN_SHORT")
        mayHold == Saying(EnabledOn(s), Said(s), "HOLD") /= {}
    IN /\ Saying(EnabledOn(s), Said(s), "CLOSE") /= {} => took = "CLOSE"
       /\ took = "OPEN_LONG" => long >= short /\ (mayHold => long > short)
       /\ took = "OPEN_SHORT" => short >= long /\ (mayHold => short > long)

\* A weighted vote executes the heaviest decision, and a tie never opens: an opening is
\* strictly heavier than CLOSE and than HOLD, if anyone says them.
VoteTiesNeverOpen ==
  mode = "weighted_vote" => \A p \in executed :
    LET s    == p[2]
        took == opinion[p].decision
        weight(d) == WeightFor(EnabledOn(s), Said(s), d)
    IN \A d \in Decisions : Saying(EnabledOn(s), Said(s), d) /= {} =>
         /\ weight(took) >= weight(d)
         /\ took \in {"OPEN_LONG", "OPEN_SHORT"} /\ d \in {"CLOSE", "HOLD"} =>
              weight(took) > weight(d)

\* Strategies that disagree never open by accident: not against a CLOSE, a heavier
\* opposite side or an equal HOLD, however their weights add up.
ConflictsAreSafe == NettingIsSafe /\ VoteTiesNeverOpen

=============================================================================
