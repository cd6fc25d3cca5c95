---------------------------- MODULE UniverseProofs ----------------------------
(***************************************************************************)
(* Theorems about Universe, for any symbols, strategies, priorities,       *)
(* weights and opinions: what the router keeps of a symbol is one of the   *)
(* decisions it was given, and the right one; the ranking fills the top N. *)
(* Every property is about the last tick, so what has to be carried along  *)
(* is little: the types, and that the reasons are those of the symbols     *)
(* that are not active.  The work is in what one tick computes.            *)
(***************************************************************************)
EXTENDS Universe, Sums

(***************************************************************************)
(* The router.                                                             *)
(***************************************************************************)

LEMMA GroupFinite ==
  ASSUME NEW group, group \subseteq Strategies
  PROVE  IsFiniteSet(group)
BY FS_Subset, UniverseConfig

\* The first by priority, then by name, is one of the group.
LEMMA FirstIn ==
  ASSUME NEW group, group \subseteq Strategies, group # {}
  PROVE  FirstOf(group) \in group
<1> DEFINE ahead == {a \in group : \A b \in group : Priority[a] <= Priority[b]}
<1>1. \A a \in Strategies : Priority[a] \in Nat /\ NameRank[a] \in Nat
  BY UniverseConfig
<1>2. ahead # {} /\ ahead \subseteq group
  <2>1. \E a \in group : \A b \in group : Priority[a] <= Priority[b]
    BY <1>1, GroupFinite, ArgMin
  <2> QED
    BY <2>1
<1>3. IsFiniteSet(ahead)
  BY <1>2, GroupFinite
<1>4. PICK a \in ahead : \A b \in ahead : NameRank[a] <= NameRank[b]
  <2> HIDE DEF ahead
  <2> QED
    BY <1>1, <1>2, <1>3, ArgMin
<1>5. \A b \in group \ {a} : Precedes(a, b)
  <2> SUFFICES ASSUME NEW b \in group \ {a} PROVE Precedes(a, b)
    OBVIOUS
  <2>1. NameRank[a] # NameRank[b]
    BY UniverseConfig DEF IsInjective
  <2>2. CASE Priority[a] = Priority[b]
    <3>1. b \in ahead
      BY <2>2
    <3> QED
      BY <3>1, <2>1, <2>2, <1>1, <1>4 DEF Precedes
  <2>3. CASE Priority[a] # Priority[b]
    BY <2>3, <1>1 DEF Precedes
  <2> QED
    BY <2>2, <2>3
<1> QED
  BY <1>2, <1>5 DEF FirstOf

LEMMA FirstByNameIn ==
  ASSUME NEW group, group \subseteq Strategies, group # {}
  PROVE  FirstByName(group) \in group
<1>1. \A a \in group : NameRank[a] \in Int
  BY UniverseConfig
<1>2. \E a \in group : \A b \in group : NameRank[a] <= NameRank[b]
  BY <1>1, GroupFinite, ArgMin
<1> QED
  BY <1>2 DEF FirstByName

\* A weight is a natural number, and nobody's weight is 0.
LEMMA WeightNat ==
  ASSUME NEW group, group \subseteq Strategies, NEW d, NEW decision
  PROVE  /\ WeightFor(group, d, decision) \in Nat
         /\ Saying(group, d, decision) = {} => WeightFor(group, d, decision) = 0
<1> DEFINE who == Saying(group, d, decision)
<1>1. who \subseteq Strategies
  BY DEF Saying
<1>2. WeightFor(group, d, decision) = SumOver(Weight, who)
  BY DEF WeightFor, FoldFunctionOnSet, SumOver, MapThenSumSet
<1>3. IsFiniteSet(who) /\ \A a \in who : Weight[a] \in Nat
  BY <1>1, GroupFinite, UniverseConfig
<1> HIDE DEF who
<1>4. SumOver(Weight, who) \in Nat
  BY <1>3, SumNat
<1>5. who = {} => SumOver(Weight, who) = 0
  BY SumEmpty
<1> QED
  BY <1>2, <1>4, <1>5 DEF who

\* Netting never outvotes a CLOSE, and an opening is at least as heavy as the other
\* side, and heavier if someone says HOLD.
LEMMA NettingPicks ==
  ASSUME NEW group, group \subseteq Strategies, group # {},
         NEW d \in [group -> Decisions]
  PROVE  LET w     == ByNetting(group, d)
             long  == WeightFor(group, d, "OPEN_LONG")
             short == WeightFor(group, d, "OPEN_SHORT")
             mayHold == Saying(group, d, "HOLD") # {}
         IN /\ w \in group
            /\ Saying(group, d, "CLOSE") # {} => d[w] = "CLOSE"
            /\ d[w] = "OPEN_LONG" => long >= short /\ (mayHold => long > short)
            /\ d[w] = "OPEN_SHORT" => short >= long /\ (mayHold => short > long)
<1> DEFINE w      == ByNetting(group, d)
           long   == WeightFor(group, d, "OPEN_LONG")
           short  == WeightFor(group, d, "OPEN_SHORT")
           close  == Saying(group, d, "CLOSE")
           hold   == Saying(group, d, "HOLD")
           longs  == Saying(group, d, "OPEN_LONG")
           shorts == Saying(group, d, "OPEN_SHORT")
           wanted == IF close # {} THEN close
                     ELSE IF long > short THEN longs
                     ELSE IF short > long THEN shorts
                     ELSE hold
<1>1. /\ close \subseteq group /\ \A a \in close : d[a] = "CLOSE"
      /\ hold \subseteq group /\ \A a \in hold : d[a] = "HOLD"
      /\ longs \subseteq group /\ \A a \in longs : d[a] = "OPEN_LONG"
      /\ shorts \subseteq group /\ \A a \in shorts : d[a] = "OPEN_SHORT"
  BY DEF Saying
<1>2. /\ long \in Nat /\ (longs = {} => long = 0)
      /\ short \in Nat /\ (shorts = {} => short = 0)
  BY WeightNat
<1>3. w = FirstOf(IF wanted # {} THEN wanted ELSE group)
  BY DEF ByNetting
<1> HIDE DEF w, long, short, close, hold, longs, shorts
<1>4. wanted \subseteq Strategies
  BY <1>1
<1> SUFFICES /\ w \in group
             /\ close # {} => d[w] = "CLOSE"
             /\ d[w] = "OPEN_LONG" => (long >= short /\ (hold # {} => long > short))
             /\ d[w] = "OPEN_SHORT" => (short >= long /\ (hold # {} => short > long))
  BY DEF w, long, short, close, hold
<1>5. CASE wanted = {}
  <2>1. close = {} /\ long = short /\ hold = {}
    BY <1>2, <1>5
  <2>2. w \in group
    BY <1>3, <1>5, FirstIn
  <2> QED
    BY <1>2, <2>1, <2>2
<1>6. CASE wanted # {}
  <2>1. w \in wanted
    <3> HIDE DEF wanted
    <3> QED
      BY <1>3, <1>4, <1>6, FirstIn
  <2> QED
    BY <1>1, <1>2, <2>1
<1> QED
  BY <1>5, <1>6

\* A vote is won by the heaviest decision; of equal ones by the first in the order of
\* DecisionOrder, in which CLOSE and HOLD come before the openings.
LEMMA VotePicks ==
  ASSUME NEW group, group \subseteq Strategies, group # {},
         NEW d \in [group -> Decisions]
  PROVE  LET w == ByVote(group, d)
         IN /\ w \in group
            /\ \A x \in Decisions : Saying(group, d, x) # {} =>
                 /\ WeightFor(group, d, d[w]) >= WeightFor(group, d, x)
                 /\ (d[w] \in {"OPEN_LONG", "OPEN_SHORT"} /\ x \in {"CLOSE", "HOLD"}) =>
                      WeightFor(group, d, d[w]) > WeightFor(group, d, x)
<1> DEFINE weight == [i \in 1..4 |-> WeightFor(group, d, DecisionOrder[i])]
           said == {i \in 1..4 : Saying(group, d, DecisionOrder[i]) # {}}
           best == {i \in said : \A j \in said : weight[i] >= weight[j]}
           first == CHOOSE i \in best : \A j \in best : i <= j
           w == ByVote(group, d)
<1>1. /\ DOMAIN DecisionOrder = 1..4
      /\ DecisionOrder[1] = "CLOSE" /\ DecisionOrder[2] = "HOLD"
      /\ DecisionOrder[3] = "OPEN_LONG" /\ DecisionOrder[4] = "OPEN_SHORT"
  BY DEF DecisionOrder
<1>2. \A i \in 1..4 : weight[i] = WeightFor(group, d, DecisionOrder[i]) /\ weight[i] \in Nat
  BY WeightNat
<1>3. VoteWinner(group, d) = DecisionOrder[first]
  BY <1>1 DEF VoteWinner
<1>4. \A x \in Decisions : \E i \in 1..4 : DecisionOrder[i] = x
  BY <1>1 DEF Decisions
<1>5. said # {}
  <2>1. PICK a \in group : TRUE
    OBVIOUS
  <2>2. PICK i \in 1..4 : DecisionOrder[i] = d[a]
    BY <1>4
  <2>3. a \in Saying(group, d, DecisionOrder[i])
    BY <2>2 DEF Saying
  <2> QED
    BY <2>3
<1>6. said \subseteq 1..4 /\ IsFiniteSet(said)
  <2>1. IsFiniteSet(1..4)
    <3>1. 1 \in Int /\ 4 \in Int
      OBVIOUS
    <3> QED
      BY <3>1, FS_Interval
  <2> QED
    BY <2>1, FS_Subset
<1>7. best # {}
  <2> HIDE DEF said, weight
  <2>1. \A i \in said : weight[i] \in Int
    BY <1>2, <1>6
  <2>2. \E i \in said : \A j \in said : weight[j] <= weight[i]
    BY <2>1, <1>5, <1>6, ArgMax
  <2> QED
    BY <2>2, <1>2, <1>6
<1>8. first \in best /\ \A j \in best : first <= j
  <2>1. IsFiniteSet(best) /\ best \subseteq 1..4
    BY <1>6, FS_Subset
  <2> DEFINE id == [i \in 1..4 |-> i]
  <2>2. \A i \in best : id[i] = i /\ id[i] \in Int
    BY <2>1
  <2> HIDE DEF best, id
  <2>3. \E i \in best : \A j \in best : id[i] <= id[j]
    BY <2>1, <2>2, <1>7, ArgMin
  <2>4. \E i \in best : \A j \in best : i <= j
    BY <2>2, <2>3
  <2> QED
    BY <2>4
<1> HIDE DEF first, weight
<1> DEFINE bucket == Saying(group, d, DecisionOrder[first])
<1>9. bucket # {} /\ bucket \subseteq group /\ \A a \in bucket : d[a] = DecisionOrder[first]
  BY <1>8 DEF Saying
<1>10. w \in bucket
  <2> w = IF TieBreaker = "priority" THEN FirstOf(bucket) ELSE FirstByName(bucket)
    BY <1>3 DEF ByVote
  <2> HIDE DEF bucket, w
  <2> QED
    BY <1>9, FirstIn, FirstByNameIn
<1>11. w \in group /\ d[w] = DecisionOrder[first]
  BY <1>9, <1>10
<1> HIDE DEF w, bucket
<1>12. ASSUME NEW x \in Decisions, Saying(group, d, x) # {}
       PROVE  /\ WeightFor(group, d, d[w]) >= WeightFor(group, d, x)
              /\ (d[w] \in {"OPEN_LONG", "OPEN_SHORT"} /\ x \in {"CLOSE", "HOLD"}) =>
                   WeightFor(group, d, d[w]) > WeightFor(group, d, x)
  <2>1. PICK j \in 1..4 : DecisionOrder[j] = x
    BY <1>4
  <2>2. j \in said /\ weight[j] = WeightFor(group, d, x)
    BY <2>1, <1>2, <1>12
  <2>3. first \in 1..4 /\ weight[first] = WeightFor(group, d, d[w]) /\ weight[first] >= weight[j]
    BY <2>2, <1>2, <1>8, <1>11
  <2>4. ASSUME d[w] \in {"OPEN_LONG", "OPEN_SHORT"}, x \in {"CLOSE", "HOLD"},
               weight[first] = weight[j]
        PROVE  FALSE
    <3>1. first \in {3, 4} /\ j \in {1, 2}
      BY <2>1, <2>3, <2>4, <1>1, <1>11
    <3>2. j \in best
      BY <2>2, <2>4, <1>8
    <3> QED
      BY <3>1, <3>2, <1>8
  <2>5. weight[first] \in Nat /\ weight[j] \in Nat
    BY <2>3, <1>2
  <2> HIDE DEF said, best
  <2> QED
    BY <2>2, <2>3, <2>4, <2>5
<1> QED
  BY <1>11, <1>12 DEF w

\* Whatever the mode, the winner is one of those that were asked.
LEMMA RoutedIn ==
  ASSUME mode \in Modes, NEW group, group \subseteq Strategies, group # {},
         NEW d \in [group -> Decisions]
  PROVE  RouteOneSymbol(group, d) \in group
<1>1. FirstOf(group) \in group /\ ByVote(group, d) \in group /\ ByNetting(group, d) \in group
  BY FirstIn, VotePicks, NettingPicks
<1> QED
  BY <1>1, UniverseConfig DEF RouteOneSymbol

(***************************************************************************)
(* The ranking.                                                            *)
(***************************************************************************)

\* The best score of a symbol is a natural number.
LEMMA ScoreNat ==
  ASSUME NEW op \in Opinions, NEW s \in Symbols
  PROVE  ScoreOf(op, s) \in Nat
<1> DEFINE C == {c \in Configured : c[2] = s}
           f == [c \in C |-> op[c].score]
           all == {op[p].score : p \in C} \cup {0}
<1>1. IsFiniteSet(C)
  <2>1. IsFiniteSet(Strategies \X Symbols)
    BY UniverseConfig, FS_Product
  <2>2. C \subseteq Strategies \X Symbols
    BY UniverseConfig
  <2> QED
    BY <2>1, <2>2, FS_Subset
<1>2. \A c \in C : op[c].score \in Nat
  <2>1. op \in [Configured -> [decision : Decisions, score : Nat]]
    BY UniverseConfig
  <2> QED
    BY <2>1
<1>3. \A c \in C : f[c] = op[c].score /\ f[c] \in Int
  BY <1>2
<1>4. all \subseteq Nat
  BY <1>2
<1>5. \E x \in all : \A y \in all : x >= y
  <2>1. CASE C = {}
    <3>1. all = {0}
      BY <2>1
    <3> QED
      BY <3>1
  <2>2. CASE C # {}
    <3> HIDE DEF f
    <3>1. PICK c \in C : \A e \in C : f[e] <= f[c]
      BY <1>1, <1>3, <2>2, ArgMax
    <3>2. op[c].score \in all /\ op[c].score \in Nat
      BY <1>2
    <3>3. \A y \in all : op[c].score >= y
      BY <1>3, <3>1, <3>2
    <3> QED
      BY <3>2, <3>3
  <2> QED
    BY <2>1, <2>2
<1> HIDE DEF C
<1>6. ScoreOf(op, s) = CHOOSE x \in all : \A y \in all : x >= y
  BY DEF ScoreOf, C
<1> HIDE DEF all
<1> QED
  BY <1>4, <1>5, <1>6

LEMMA RankedOrder ==
  ASSUME NEW sc \in [Symbols -> Nat]
  PROVE  /\ \A a, b, c \in Symbols :
              RankedBefore(sc, a, b) /\ RankedBefore(sc, b, c) => RankedBefore(sc, a, c)
         /\ \A a, b \in Symbols : a # b => RankedBefore(sc, a, b) \/ RankedBefore(sc, b, a)
         /\ \A a, b \in Symbols : ~(RankedBefore(sc, a, b) /\ RankedBefore(sc, b, a))
         /\ \A a, b \in Symbols : RankedBefore(sc, a, b) => sc[a] >= sc[b]
         /\ \A a, b \in Symbols : sc[a] > sc[b] => RankedBefore(sc, a, b)
<1>1. \A a \in Symbols : sc[a] \in Nat /\ SymbolRank[a] \in Nat
  BY UniverseConfig
<1>2. \A a, b \in Symbols : a # b => SymbolRank[a] # SymbolRank[b]
  BY UniverseConfig DEF IsInjective
<1> QED
  BY <1>1, <1>2 DEF RankedBefore

\* Some symbol is ranked after all others.
LEMMA SomeLast ==
  ASSUME NEW sc \in [Symbols -> Nat], NEW T, T \subseteq Symbols, T # {}
  PROVE  \E z \in T : \A t \in T \ {z} : RankedBefore(sc, t, z)
<1> DEFINE least == {z \in T : \A t \in T : sc[z] <= sc[t]}
<1>1. \A a \in Symbols : sc[a] \in Nat /\ SymbolRank[a] \in Nat
  BY UniverseConfig
<1>2. \A a, b \in Symbols : a # b => SymbolRank[a] # SymbolRank[b]
  BY UniverseConfig DEF IsInjective
<1>3. IsFiniteSet(T)
  BY UniverseConfig, FS_Subset
<1>4. least # {}
  <2>1. \E z \in T : \A t \in T : sc[z] <= sc[t]
    BY <1>1, <1>3, ArgMin
  <2> QED
    BY <2>1
<1>5. IsFiniteSet(least) /\ least \subseteq T
  BY <1>3, FS_Subset
<1>6. PICK z \in least : \A t \in least : SymbolRank[t] <= SymbolRank[z]
  <2> HIDE DEF least
  <2> QED
    BY <1>1, <1>4, <1>5, ArgMax
<1>7. ASSUME NEW t \in T \ {z} PROVE RankedBefore(sc, t, z)
  <2>1. CASE t \in least
    BY <2>1, <1>1, <1>2, <1>6 DEF RankedBefore
  <2>2. CASE t \notin least
    <3>1. sc[t] # sc[z] /\ sc[z] <= sc[t]
      BY <2>2, <1>1
    <3> QED
      BY <3>1, <1>1 DEF RankedBefore
  <2> QED
    BY <2>1, <2>2
<1> QED
  BY <1>5, <1>7

Before(sc, T, s) == {t \in T : RankedBefore(sc, t, s)}

LEMMA BeforeFinite ==
  ASSUME NEW sc, NEW T, T \subseteq Symbols, NEW s
  PROVE  IsFiniteSet(Before(sc, T, s)) /\ Cardinality(Before(sc, T, s)) \in Nat
<1>1. Before(sc, T, s) \subseteq Symbols
  BY DEF Before
<1> QED
  BY <1>1, UniverseConfig, FS_Subset, FS_CardinalityType

LEMMA TopOfBefore ==
  ASSUME NEW sc, NEW T
  PROVE  TopOf(sc, T) = {s \in T : Cardinality(Before(sc, T, s)) < topN}
BY DEF TopOf, Before

\* The top N are as many as there are places or candidates.
LEMMA TopOfFilled ==
  ASSUME NEW sc \in [Symbols -> Nat], topN \in Nat, NEW S, S \subseteq Symbols
  PROVE  Cardinality(TopOf(sc, S)) = IF Cardinality(S) < topN THEN Cardinality(S) ELSE topN
<1> DEFINE Least(n) == IF n < topN THEN n ELSE topN
           B == {T \in SUBSET S : Cardinality(TopOf(sc, T)) # Least(Cardinality(T))}
<1>1. Cardinality(TopOf(sc, S)) # Least(Cardinality(S)) => B # {}
  OBVIOUS
<1> SUFFICES ASSUME B # {} PROVE FALSE
  BY <1>1
<1>2. PICK T \in B : \A U \in B : U \subseteq T => U = T
  <2>1. B \in SUBSET (SUBSET S)
    OBVIOUS
  <2>2. IsFiniteSet(S)
    BY UniverseConfig, FS_Subset
  <2> HIDE DEF B
  <2> QED
    BY <2>1, <2>2, MinimalSubset
<1>3. T \subseteq Symbols /\ IsFiniteSet(T)
  BY UniverseConfig, FS_Subset
<1>4. T # {}
  <2>1. ASSUME T = {} PROVE FALSE
    <3>1. TopOf(sc, T) = {} /\ Cardinality({}) = 0
      BY <2>1, FS_EmptySet DEF TopOf
    <3> QED
      BY <2>1, <3>1, <1>2
  <2> QED
    BY <2>1
<1>5. PICK z \in T : \A t \in T \ {z} : RankedBefore(sc, t, z)
  BY <1>3, <1>4, SomeLast
<1> DEFINE U == T \ {z}
<1>6. /\ IsFiniteSet(U) /\ Cardinality(U) \in Nat /\ U \subseteq Symbols
      /\ Cardinality(T) = Cardinality(U) + 1
  <2>1. IsFiniteSet(U) /\ Cardinality(U) = Cardinality(T) - 1
    BY <1>3, FS_RemoveElement
  <2>2. Cardinality(T) \in Nat /\ Cardinality(U) \in Nat
    BY <2>1, <1>3, FS_CardinalityType
  <2> QED
    BY <1>3, <2>1, <2>2
<1>7. Cardinality(TopOf(sc, U)) = Least(Cardinality(U))
  <2>1. U \subseteq T /\ U # T /\ U \in SUBSET S
    OBVIOUS
  <2>2. U \notin B
    BY <2>1, <1>2
  <2> QED
    BY <2>1, <2>2
<1>8. \A s \in U : Before(sc, T, s) = Before(sc, U, s)
  <2>1. \A s \in U : ~RankedBefore(sc, z, s)
    BY <1>3, <1>5, RankedOrder
  <2> QED
    BY <2>1 DEF Before
<1>9. Before(sc, T, z) = U
  <2>1. ~RankedBefore(sc, z, z)
    BY <1>3, RankedOrder
  <2> QED
    BY <1>5, <2>1 DEF Before
<1>10. TopOf(sc, U) \subseteq U /\ IsFiniteSet(TopOf(sc, U))
  <2>1. TopOf(sc, U) \subseteq U
    BY DEF TopOf
  <2> QED
    BY <2>1, <1>6, FS_Subset
<1>11. CASE Cardinality(U) < topN
  <2>1. TopOf(sc, T) = TopOf(sc, U) \cup {z}
    <3>1. /\ TopOf(sc, T) = {s \in T : Cardinality(Before(sc, T, s)) < topN}
          /\ TopOf(sc, U) = {s \in U : Cardinality(Before(sc, U, s)) < topN}
      BY TopOfBefore
    <3> QED
      BY <3>1, <1>8, <1>9, <1>11
  <2>2. Cardinality(TopOf(sc, T)) = Cardinality(TopOf(sc, U)) + 1
    BY <2>1, <1>10, FS_AddElement
  <2>3. Cardinality(T) < topN \/ Cardinality(T) = topN
    BY <1>6, <1>11
  <2> QED
    BY <1>2, <1>6, <1>7, <1>11, <2>2, <2>3
<1>12. CASE ~(Cardinality(U) < topN)
  <2>1. TopOf(sc, T) = TopOf(sc, U)
    <3>1. /\ TopOf(sc, T) = {s \in T : Cardinality(Before(sc, T, s)) < topN}
          /\ TopOf(sc, U) = {s \in U : Cardinality(Before(sc, U, s)) < topN}
      BY TopOfBefore
    <3> QED
      BY <3>1, <1>8, <1>9, <1>12
  <2> QED
    BY <1>2, <1>6, <1>7, <1>12, <2>1
<1> QED
  BY <1>11, <1>12

\* No candidate that is left out scores more than one that is in.
LEMMA TopOfBest ==
  ASSUME NEW sc \in [Symbols -> Nat], topN \in Nat, NEW S, S \subseteq Symbols,
         NEW s \in TopOf(sc, S), NEW t \in S \ TopOf(sc, S)
  PROVE  sc[s] >= sc[t]
<1>1. s \in S /\ Cardinality(Before(sc, S, s)) < topN
  BY TopOfBefore
<1>2. s \in Symbols /\ t \in Symbols /\ sc[s] \in Nat /\ sc[t] \in Nat
  BY <1>1
<1> SUFFICES ASSUME sc[t] > sc[s] PROVE FALSE
  BY <1>2
<1>3. RankedBefore(sc, t, s)
  BY <1>2, RankedOrder
<1>4. Before(sc, S, t) \subseteq Before(sc, S, s)
  BY <1>2, <1>3, RankedOrder DEF Before
<1>5. Cardinality(Before(sc, S, t)) <= Cardinality(Before(sc, S, s))
  BY <1>4, BeforeFinite, FS_Subset
<1>6. Cardinality(Before(sc, S, t)) < topN
  BY <1>1, <1>5, BeforeFinite
<1> QED
  BY <1>6, TopOfBefore

(***************************************************************************)
(* A tick.                                                                 *)
(***************************************************************************)

\* What the enabled strategies of s say in opinion op.
Heard(op, s) == [n \in EnabledOn(s) |-> op[<<n, s>>].decision]

LEMMA Hearing ==
  ASSUME TypeOK, NEW op \in Opinions, NEW s \in Symbols
  PROVE  /\ EnabledOn(s) \subseteq Strategies
         /\ \A n \in EnabledOn(s) : <<n, s>> \in Configured
         /\ Heard(op, s) \in [EnabledOn(s) -> Decisions]
         /\ \A n \in EnabledOn(s) : Heard(op, s)[n] = op[<<n, s>>].decision
<1>1. op \in [Configured -> [decision : Decisions, score : Nat]]
  BY UniverseConfig
<1>2. enabled[s] \subseteq Strategies
  BY DEF TypeOK
<1> QED
  BY <1>1, <1>2 DEF EnabledOn, Heard

\* The symbols that stay are active, with the decisions of their enabled strategies.
LEMMA FilteredIs ==
  ASSUME TypeOK, NEW s \in Symbols
  PROVE  /\ s \in active' => Filtered(s) = EnabledOn(s)
         /\ s \notin active' => Filtered(s) = {}
<1>1. enabled[s] \subseteq Strategies
  BY DEF TypeOK
<1> QED
  BY <1>1 DEF Filtered, EnabledOn

\* What is executed for a symbol is the router's choice among its enabled strategies.
LEMMA ExecutedIs ==
  ASSUME TypeOK, NEW op \in Opinions, NEW open \in SUBSET Symbols, RunTick(op, open)
  PROVE  /\ \A p \in executed' :
              /\ p[2] \in open /\ p[2] \in active' /\ EnabledOn(p[2]) # {}
              /\ p = <<RouteOneSymbol(EnabledOn(p[2]), Heard(op, p[2])), p[2]>>
         /\ \A s \in active' \cap open : EnabledOn(s) # {} =>
              <<RouteOneSymbol(EnabledOn(s), Heard(op, s)), s>> \in executed'
<1> DEFINE routed(s) == RouteOneSymbol(Filtered(s), [n \in Filtered(s) |-> op[<<n, s>>].decision])
<1>1. executed' = {p \in Routed(op) : p[2] \in open}
  BY DEF RunTick
<1>2. Routed(op) = {<<routed(s), s>> : s \in {t \in Symbols : Filtered(t) # {}}}
  BY DEF Routed
<1>3. \A s \in Symbols : s \in active' =>
        routed(s) = RouteOneSymbol(EnabledOn(s), Heard(op, s))
  BY FilteredIs DEF Heard
<1>4. \A s \in Symbols : Filtered(s) # {} => s \in active' /\ Filtered(s) = EnabledOn(s)
  BY FilteredIs
<1> HIDE DEF routed
<1>5. ASSUME NEW p \in executed'
      PROVE  /\ p[2] \in open /\ p[2] \in active' /\ EnabledOn(p[2]) # {}
             /\ p = <<RouteOneSymbol(EnabledOn(p[2]), Heard(op, p[2])), p[2]>>
  <2>1. PICK s \in Symbols : Filtered(s) # {} /\ p = <<routed(s), s>> /\ p[2] \in open
    BY <1>1, <1>2
  <2>2. p[2] = s
    BY <2>1
  <2> QED
    BY <2>1, <2>2, <1>3, <1>4
<1>6. ASSUME NEW s \in active' \cap open, EnabledOn(s) # {}
      PROVE  <<RouteOneSymbol(EnabledOn(s), Heard(op, s)), s>> \in executed'
  <2>1. s \in Symbols /\ Filtered(s) # {}
    BY <1>6, FilteredIs
  <2>2. <<routed(s), s>> \in Routed(op) /\ <<routed(s), s>>[2] \in open
    BY <2>1, <1>2
  <2> QED
    BY <2>1, <2>2, <1>1, <1>3
<1> QED
  BY <1>5, <1>6

\* What was said and who is enabled, after the tick.
LEMMA TickTells ==
  ASSUME NEW op \in Opinions, NEW open \in SUBSET Symbols, RunTick(op, open)
  PROVE  /\ mode' = mode /\ topN' = topN /\ enabled' = enabled
         /\ opinion' = op /\ tradable' = open /\ tick' = tick + 1
         /\ \A s : EnabledOn(s)' = EnabledOn(s)
         /\ \A s : Said(s)' = Heard(op, s)
<1>1. /\ mode' = mode /\ topN' = topN /\ enabled' = enabled
      /\ opinion' = op /\ tradable' = open /\ tick' = tick + 1
  BY DEF RunTick
<1>2. \A s : EnabledOn(s)' = EnabledOn(s)
  BY <1>1 DEF EnabledOn
<1>3. \A s : Said(s)' = Heard(op, s)
  BY <1>1 DEF Said, Heard, EnabledOn
<1> QED
  BY <1>1, <1>2, <1>3

\* The winner of each symbol, and what it decided.
LEMMA Winner ==
  ASSUME TypeOK, NEW op \in Opinions, NEW open \in SUBSET Symbols, RunTick(op, open),
         NEW p \in executed'
  PROVE  /\ p[2] \in Symbols /\ p[2] \in open /\ p[2] \in active' /\ EnabledOn(p[2]) # {}
         /\ p[1] = RouteOneSymbol(EnabledOn(p[2]), Heard(op, p[2]))
         /\ p[1] \in EnabledOn(p[2]) /\ p \in Configured
         /\ op[p].decision = Heard(op, p[2])[p[1]]
<1>1. /\ p[2] \in open /\ p[2] \in active' /\ EnabledOn(p[2]) # {}
      /\ p = <<RouteOneSymbol(EnabledOn(p[2]), Heard(op, p[2])), p[2]>>
  BY ExecutedIs
<1> DEFINE s == p[2]
           n == RouteOneSymbol(EnabledOn(s), Heard(op, s))
<1>2. s \in Symbols /\ p = <<n, s>>
  BY <1>1
<1>3. p[1] = n
  BY <1>2
<1>4. n \in EnabledOn(s)
  BY <1>1, <1>2, Hearing, RoutedIn DEF TypeOK
<1> HIDE DEF n, s
<1>5. <<n, s>> \in Configured /\ Heard(op, s)[n] = op[<<n, s>>].decision
  BY <1>2, <1>4, Hearing
<1> QED
  BY <1>1, <1>2, <1>3, <1>4, <1>5 DEF n, s

\* The types, and the reasons of what is left out: all that a tick needs to know of
\* the ones before.
Reasons == topN > 0 /\ tick > 0 => DOMAIN excluded = Symbols \ active

LEMMA ScoresAre ==
  ASSUME NEW op \in Opinions
  PROVE  [s \in Symbols |-> ScoreOf(op, s)] \in [Symbols -> Nat]
BY ScoreNat

LEMMA SelectTypes ==
  ASSUME TypeOK, NEW op \in Opinions, NEW open \in SUBSET Symbols,
         SelectActiveSymbols(op, open)
  PROVE  /\ active' \subseteq Symbols /\ scores' \in [Symbols -> Nat]
         /\ DOMAIN excluded' \subseteq Symbols
         /\ \A s \in DOMAIN excluded' : excluded'[s] \in {"below_top_n", "non_trading_time"}
<1>1. CASE topN = 0
  BY <1>1 DEF SelectActiveSymbols, TypeOK
<1>2. CASE topN # 0 /\ ~Refreshes
  BY <1>2 DEF SelectActiveSymbols, TypeOK
<1>3. CASE topN # 0 /\ Refreshes
  <2>1. /\ scores' = [s \in Symbols |-> ScoreOf(op, s)]
        /\ active' = TopOf(scores', open)
        /\ excluded' = [s \in Symbols \ active' |->
                         IF s \in open THEN "below_top_n" ELSE "non_trading_time"]
    BY <1>3 DEF SelectActiveSymbols
  <2>2. scores' \in [Symbols -> Nat]
    BY <2>1, ScoresAre
  <2>3. active' \subseteq Symbols
    BY <2>1 DEF TopOf
  <2> QED
    BY <2>1, <2>2, <2>3
<1> QED
  BY <1>1, <1>2, <1>3

LEMMA InitTypes == Init => TypeOK
<1> SUFFICES ASSUME Init PROVE TypeOK
  OBVIOUS
<1>1. DefaultEnabled \in [Symbols -> SUBSET Strategies]
  BY DEF DefaultEnabled
<1>2. enabled \in [Symbols -> SUBSET Strategies]
  BY <1>1, UniverseConfig DEF Init
<1>3. opinion \in [Configured -> [decision : Decisions, score : Nat]]
  BY DEF Init, Decisions
<1>4. DOMAIN excluded = {}
  BY DEF Init
<1> QED
  BY <1>2, <1>3, <1>4, UniverseConfig DEF Init, TypeOK

LEMMA TickTypes ==
  ASSUME TypeOK, NEW op \in Opinions, NEW open \in SUBSET Symbols, RunTick(op, open)
  PROVE  TypeOK'
<1>1. SelectActiveSymbols(op, open) /\ tick < MaxTicks
  BY DEF RunTick
<1>2. executed' \subseteq Configured
  BY Winner
<1>3. op \in [Configured -> [decision : Decisions, score : Nat]] /\ MaxTicks \in Nat
  BY UniverseConfig
<1>4. tick' \in 0..MaxTicks
  BY <1>1, <1>3, TickTells DEF TypeOK
<1> QED
  BY <1>1, <1>2, <1>3, <1>4, SelectTypes, TickTells DEF TypeOK

LEMMA TickEnabled ==
  ASSUME TypeOK, NEW op \in Opinions, NEW open \in SUBSET Symbols, RunTick(op, open)
  PROVE  EnabledNotShadowed'
<1>1. \A p \in executed' : p[1] \in EnabledOn(p[2])' /\ p[2] \in active'
  BY Winner, TickTells
<1>2. ASSUME NEW s \in active' \cap tradable', EnabledOn(s)' # {}
      PROVE  Cardinality({p \in executed' : p[2] = s}) = 1
  <2> DEFINE one == <<RouteOneSymbol(EnabledOn(s), Heard(op, s)), s>>
  <2>1. s \in active' \cap open /\ EnabledOn(s) # {}
    BY <1>2, TickTells
  <2>2. one \in executed' /\ one[2] = s
    BY <2>1, ExecutedIs
  <2>3. \A p \in executed' : p[2] = s => p = one
    BY ExecutedIs
  <2> HIDE DEF one
  <2>4. {p \in executed' : p[2] = s} = {one}
    BY <2>2, <2>3
  <2> QED
    BY <2>4, FS_Singleton
<1> QED
  BY <1>1, <1>2 DEF EnabledNotShadowed

LEMMA TickRanking ==
  ASSUME TypeOK, Reasons, NEW op \in Opinions, NEW open \in SUBSET Symbols,
         RunTick(op, open)
  PROVE  Reasons' /\ RankingIsTradable'
<1>1. ExecutedInTradingHours'
  BY Winner, TickTells DEF ExecutedInTradingHours
<1>2. SelectActiveSymbols(op, open) /\ tick \in Nat /\ RefreshEvery \in Nat \ {0} /\ topN \in Nat
  BY UniverseConfig DEF RunTick, TypeOK
<1>3. tick' = tick + 1 /\ tick' - 1 = tick /\ topN' = topN /\ tradable' = open
  BY <1>2, TickTells
<1>4. CASE topN = 0
  BY <1>1, <1>3, <1>4 DEF Reasons, RankingIsTradable, TopNFilled
<1>5. CASE topN # 0 /\ ~Refreshes
  <2>1. tick # 0
    BY <1>2, <1>5 DEF Refreshes
  <2>2. DOMAIN excluded = Symbols \ active
    BY <1>2, <1>5, <2>1 DEF Reasons
  <2>3. active' = active /\ excluded' = excluded
    BY <1>2, <1>5 DEF SelectActiveSymbols
  <2>4. ~((tick' - 1) % RefreshEvery = 0)
    BY <1>3, <1>5 DEF Refreshes
  <2> QED
    BY <1>1, <2>2, <2>3, <2>4 DEF Reasons, RankingIsTradable, TopNFilled
<1>6. CASE topN # 0 /\ Refreshes
  <2>1. /\ scores' = [s \in Symbols |-> ScoreOf(op, s)]
        /\ active' = TopOf(scores', open)
        /\ excluded' = [s \in Symbols \ active' |->
                         IF s \in open THEN "below_top_n" ELSE "non_trading_time"]
    BY <1>2, <1>6 DEF SelectActiveSymbols
  <2>2. scores' \in [Symbols -> Nat]
    BY <2>1, ScoresAre
  <2>3. active' \subseteq open
    BY <2>1 DEF TopOf
  <2>4. Cardinality(active') = IF Cardinality(open) < topN THEN Cardinality(open) ELSE topN
    BY <1>2, <2>1, <2>2, TopOfFilled
  <2>5. \A s \in active', t \in open \ active' : scores'[s] >= scores'[t]
    BY <1>2, <2>1, <2>2, TopOfBest
  <2>6. DOMAIN excluded' = Symbols \ active'
    BY <2>1
  <2>7. \A s \in Symbols \ active' :
          excluded'[s] = (IF s \in open THEN "below_top_n" ELSE "non_trading_time")
    BY <2>1
  <2> QED
    BY <1>1, <1>3, <2>3, <2>4, <2>5, <2>6, <2>7 DEF Reasons, RankingIsTradable, TopNFilled
<1> QED
  BY <1>4, <1>5, <1>6

\* What ConflictsAreSafe says of one decision: group is who was heard, d what they said.
SafeChoice(m, group, d, took) ==
  /\ m = "netting" =>
       /\ Saying(group, d, "CLOSE") # {} => took = "CLOSE"
       /\ took = "OPEN_LONG" =>
            /\ WeightFor(group, d, "OPEN_LONG") >= WeightFor(group, d, "OPEN_SHORT")
            /\ Saying(group, d, "HOLD") # {} =>
                 WeightFor(group, d, "OPEN_LONG") > WeightFor(group, d, "OPEN_SHORT")
       /\ took = "OPEN_SHORT" =>
            /\ WeightFor(group, d, "OPEN_SHORT") >= WeightFor(group, d, "OPEN_LONG")
            /\ Saying(group, d, "HOLD") # {} =>
                 WeightFor(group, d, "OPEN_SHORT") > WeightFor(group, d, "OPEN_LONG")
  /\ m = "weighted_vote" =>
       \A x \in Decisions : Saying(group, d, x) # {} =>
         /\ WeightFor(group, d, took) >= WeightFor(group, d, x)
         /\ (took \in {"OPEN_LONG", "OPEN_SHORT"} /\ x \in {"CLOSE", "HOLD"}) =>
              WeightFor(group, d, took) > WeightFor(group, d, x)

LEMMA ConflictsAre ==
  ConflictsAreSafe <=>
    \A p \in executed : SafeChoice(mode, EnabledOn(p[2]), Said(p[2]), opinion[p].decision)
BY DEF ConflictsAreSafe, NettingIsSafe, VoteTiesNeverOpen, SafeChoice

LEMMA ConflictsThen ==
  ConflictsAreSafe' <=>
    \A p \in executed' :
      SafeChoice(mode', EnabledOn(p[2])', Said(p[2])', opinion'[p].decision)
<1>1. (ConflictsAreSafe <=>
        \A p \in executed :
          SafeChoice(mode, EnabledOn(p[2]), Said(p[2]), opinion[p].decision))'
  BY ConflictsAre, PTL
<1> QED
  BY <1>1

LEMMA TickConflicts ==
  ASSUME TypeOK, NEW op \in Opinions, NEW open \in SUBSET Symbols, RunTick(op, open)
  PROVE  ConflictsAreSafe'
<1> SUFFICES ASSUME NEW p \in executed'
             PROVE  SafeChoice(mode', EnabledOn(p[2])', Said(p[2])', opinion'[p].decision)
  BY ConflictsThen
<1> DEFINE group == EnabledOn(p[2])
           d == Heard(op, p[2])
<1>1. /\ EnabledOn(p[2])' = group /\ Said(p[2])' = d
      /\ mode' = mode /\ opinion'[p].decision = d[p[1]]
  BY Winner, TickTells
<1>2. /\ group \subseteq Strategies /\ group # {} /\ d \in [group -> Decisions]
      /\ p[1] = RouteOneSymbol(group, d)
  BY Winner, Hearing
<1> HIDE DEF group, d
<1> SUFFICES SafeChoice(mode, group, d, d[p[1]])
  BY <1>1
<1>3. CASE mode = "netting"
  <2>1. p[1] = ByNetting(group, d)
    BY <1>2, <1>3 DEF RouteOneSymbol
  <2> QED
    BY <1>2, <1>3, <2>1, NettingPicks DEF SafeChoice
<1>4. CASE mode = "weighted_vote"
  <2>1. p[1] = ByVote(group, d)
    BY <1>2, <1>4 DEF RouteOneSymbol
  <2> QED
    BY <1>2, <1>4, <2>1, VotePicks DEF SafeChoice
<1> QED
  BY <1>3, <1>4 DEF SafeChoice

(***************************************************************************)
(* The theorems.                                                           *)
(***************************************************************************)

TickInv ==
  TypeOK /\ Reasons /\ EnabledNotShadowed /\ RankingIsTradable /\ ConflictsAreSafe

LEMMA SpecTick == Spec => []TickInv
<1>1. Init => TickInv
  <2> SUFFICES ASSUME Init PROVE TickInv
    OBVIOUS
  <2>1. executed = {} /\ tick = 0
    BY DEF Init
  <2> QED
    BY <2>1, InitTypes DEF TickInv, Reasons, EnabledNotShadowed, RankingIsTradable,
       ExecutedInTradingHours, TopNFilled, ConflictsAreSafe, NettingIsSafe, VoteTiesNeverOpen
<1>2. TickInv /\ [Next]_vars => TickInv'
  <2> SUFFICES ASSUME TickInv, [Next]_vars PROVE TickInv'
    OBVIOUS
  <2>1. CASE Next
    <3>1. PICK op \in Opinions, open \in SUBSET Symbols : RunTick(op, open)
      BY <2>1 DEF Next
    <3> QED
      BY <3>1, TickTypes, TickEnabled, TickRanking, TickConflicts DEF TickInv
  <2>2. CASE UNCHANGED vars
    <3>1. TypeOK' /\ Reasons'
      BY <2>2 DEF TickInv, vars, TypeOK, Reasons
    <3>2. EnabledNotShadowed'
      BY <2>2 DEF TickInv, vars, EnabledNotShadowed, EnabledOn
    <3>3. RankingIsTradable'
      BY <2>2 DEF TickInv, vars, RankingIsTradable, ExecutedInTradingHours, TopNFilled
    <3>4. ConflictsAreSafe'
      <4>1. \A s : EnabledOn(s)' = EnabledOn(s) /\ Said(s)' = Said(s)
        BY <2>2 DEF vars, EnabledOn, Said
      <4> QED
        BY <2>2, <4>1, ConflictsAre, ConflictsThen DEF TickInv, vars
    <3> QED
      BY <3>1, <3>2, <3>3, <3>4 DEF TickInv
  <2> QED
    BY <2>1, <2>2
<1> QED
  BY <1>1, <1>2, PTL DEF Spec

\* The decision executed for a symbol is an enabled strategy's, and an active symbol in
\* its trading hours has exactly one in every tick.
THEOREM UniverseEnabledNotShadowed == Spec => []EnabledNotShadowed
<1>1. TickInv => EnabledNotShadowed
  BY DEF TickInv
<1> QED
  BY <1>1, SpecTick, PTL

\* The ranking fills the top N with the best of the symbols that trade, keeps them
\* until the next ranking, and nothing is executed outside trading hours.
THEOREM UniverseRankingIsTradable == Spec => []RankingIsTradable
<1>1. TickInv => RankingIsTradable
  BY DEF TickInv
<1> QED
  BY <1>1, SpecTick, PTL

\* Conflicting decisions never open against a CLOSE, a heavier other side or a tie.
THEOREM UniverseConflictsAreSafe == Spec => []ConflictsAreSafe
<1>1. TickInv => ConflictsAreSafe
  BY DEF TickInv
<1> QED
  BY <1>1, SpecTick, PTL
===============================================================================
