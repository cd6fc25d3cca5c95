--------------------------- MODULE StrategiesProofs ---------------------------
(***************************************************************************)
(* Theorems about Strategies, for any windows, multipliers and quotes.     *)
(***************************************************************************)
EXTENDS Strategies, Sums

(***************************************************************************)
(* The volumes known of a history.  FoldLeft is a recursive function on    *)
(* sets of indices; that there is one, and what one more quote adds, is    *)
(* shown on a minimal counterexample, as in Sums.                          *)
(***************************************************************************)

\* g[s] is what is known of the quotes of h with the indices in s.
Knows(g, h, S) ==
  g = [s \in SUBSET S |->
         IF s = {} THEN <<>> ELSE WithVolume(g[s \ {Max(s)}], h[Max(s)])]

KnowsOf(h, S) == CHOOSE g : Knows(g, h, S)

LEMMA KnowsAgree ==
  ASSUME NEW h, NEW k, NEW S, Indices(S), NEW T, T \subseteq S, \A i \in T : h[i] = k[i],
         NEW f, NEW g, Knows(f, h, S), Knows(g, k, T)
  PROVE  \A s \in SUBSET T : f[s] = g[s]
<1> DEFINE B == {s \in SUBSET T : f[s] # g[s]}
<1> SUFFICES ASSUME B # {} PROVE FALSE
  OBVIOUS
<1>1. PICK s \in B : \A u \in B : u \subseteq s => u = s
  <2>1. B \in SUBSET (SUBSET S) /\ B # {} /\ IsFiniteSet(S)
    BY DEF Indices
  <2> HIDE DEF B
  <2> QED
    BY ONLY <2>1, MinimalSubset
<1>2. s # {}
  BY DEF Knows
<1>3. Max(s) \in s
  BY <1>1, <1>2, MaxIn, SubIndices
<1> DEFINE u == s \ {Max(s)}
<1>4. u \in SUBSET T /\ u \subseteq s /\ u # s
  BY <1>3
<1>5. f[u] = g[u]
  BY <1>1, <1>4
<1>6. /\ f[s] = WithVolume(f[u], h[Max(s)])
      /\ g[s] = WithVolume(g[u], k[Max(s)])
  BY <1>2 DEF Knows
<1> QED
  BY <1>1, <1>3, <1>5, <1>6

LEMMA KnowsSame ==
  ASSUME NEW h, NEW S, Indices(S), NEW T, T \subseteq S,
         NEW f, NEW g, Knows(f, h, S), Knows(g, h, T)
  PROVE  \A s \in SUBSET T : f[s] = g[s]
<1> DEFINE k == h
<1>1. Knows(g, k, T) /\ \A i \in T : h[i] = k[i]
  OBVIOUS
<1> HIDE DEF k
<1> QED
  BY <1>1, KnowsAgree

LEMMA KnowsPart ==
  ASSUME NEW h, NEW S, Indices(S), NEW T, T \subseteq S,
         Knows(KnowsOf(h, S), h, S), Knows(KnowsOf(h, T), h, T)
  PROVE  KnowsOf(h, S)[T] = KnowsOf(h, T)[T]
<1>1. T \in SUBSET T
  OBVIOUS
<1> QED
  BY <1>1, KnowsSame

LEMMA KnowsExist ==
  ASSUME NEW h, NEW S, Indices(S)
  PROVE  \E g : Knows(g, h, S)
<1> DEFINE B == {T \in SUBSET S : ~ \E g : Knows(g, h, T)}
<1>1. S \in B => B # {}
  OBVIOUS
<1> SUFFICES ASSUME B # {} PROVE FALSE
  BY <1>1
<1>2. PICK T \in B : \A U \in B : U \subseteq T => U = T
  <2>1. B \in SUBSET (SUBSET S) /\ B # {} /\ IsFiniteSet(S)
    BY DEF Indices
  <2> HIDE DEF B
  <2> QED
    BY ONLY <2>1, MinimalSubset
<1>3. \A U \in SUBSET T : Indices(U)
  BY SubIndices
<1>4. ASSUME NEW U \in SUBSET T, U # T
      PROVE  Knows(KnowsOf(h, U), h, U)
  <2>1. \E g : Knows(g, h, U)
    BY <1>2, <1>4
  <2> QED
    BY <2>1, Zenon DEF KnowsOf
<1> DEFINE rest(s) == s \ {Max(s)}
           part(s) == KnowsOf(h, s)[s]
           g == [s \in SUBSET T |->
                   IF s = {} THEN <<>> ELSE WithVolume(part(rest(s)), h[Max(s)])]
<1>5. ASSUME NEW s \in SUBSET T, s # {}
      PROVE  g[rest(s)] = part(rest(s))
  <2> DEFINE u == rest(s)
  <2>0. Max(s) \in s
    BY <1>3, <1>5, MaxIn
  <2>1. u \in SUBSET T /\ u # T
    BY <2>0
  <2>2. Knows(KnowsOf(h, u), h, u)
    BY <1>4, <2>1
  <2>3. CASE u = {}
    BY <2>2, <2>3 DEF Knows
  <2>4. CASE u # {}
    <3> DEFINE v == rest(u)
    <3>1. v \in SUBSET T /\ v # T /\ v \subseteq u
      BY <2>1
    <3>2. Knows(KnowsOf(h, v), h, v)
      BY <1>4, <3>1
    <3>3. KnowsOf(h, u)[v] = part(v)
      <4>1. Indices(u) /\ v \subseteq u
        BY <1>3, <2>1, <3>1
      <4> HIDE DEF u, v
      <4> QED
        BY <4>1, <2>2, <3>2, KnowsPart
    <3>4. part(u) = WithVolume(KnowsOf(h, u)[v], h[Max(u)])
      <4> HIDE DEF u
      <4> QED
        BY <2>2, <2>4 DEF Knows
    <3>5. g[u] = WithVolume(part(v), h[Max(u)])
      BY <2>1, <2>4
    <3> QED
      BY <3>3, <3>4, <3>5
  <2> QED
    BY <2>3, <2>4
<1>6. Knows(g, h, T)
  <2>1. \A s \in SUBSET T :
          g[s] = IF s = {} THEN <<>> ELSE WithVolume(g[rest(s)], h[Max(s)])
    BY <1>5
  <2> QED
    BY <2>1 DEF Knows
<1> QED
  BY <1>2, <1>6

LEMMA KnownDef ==
  ASSUME NEW h
  PROVE  KnownVolumes(h) = KnowsOf(h, DOMAIN h)[DOMAIN h]
BY DEF KnownVolumes, FoldLeft, MapThenFoldSet, KnowsOf, Knows

LEMMA KnowsAll ==
  ASSUME NEW h, NEW S, Indices(S)
  PROVE  Knows(KnowsOf(h, S), h, S)
BY KnowsExist, Zenon DEF KnowsOf

LEMMA FirstIndices ==
  ASSUME NEW n \in Nat
  PROVE  Indices(1..n)
<1>1. 1 \in Int /\ n \in Int
  OBVIOUS
<1>2. IsFiniteSet(1..n)
  BY <1>1, FS_Interval
<1> QED
  BY <1>2 DEF Indices

LEMMA KnownEmpty == KnownVolumes(<<>>) = <<>>
<1>1. DOMAIN <<>> = {} /\ Indices({})
  BY FS_EmptySet DEF Indices
<1>2. Knows(KnowsOf(<<>>, {}), <<>>, {})
  BY <1>1, KnowsAll
<1>3. KnowsOf(<<>>, {})[{}] = <<>>
  BY <1>2 DEF Knows
<1> QED
  BY <1>1, <1>3, KnownDef

\* One more quote adds its volume, if it has one.
LEMMA KnownAppend ==
  ASSUME NEW Q, NEW h \in Seq(Q), NEW q \in Q
  PROVE  KnownVolumes(Append(h, q)) = WithVolume(KnownVolumes(h), q)
<1> DEFINE n == Len(h)
           k == Append(h, q)
           S == 1..(n + 1)
           T == 1..n
           f == KnowsOf(k, S)
           g == KnowsOf(h, T)
<1>1. /\ n \in Nat /\ DOMAIN h = T /\ DOMAIN k = S
      /\ k[n + 1] = q /\ \A i \in T : k[i] = h[i]
  OBVIOUS
<1> HIDE DEF n, k, f, g
<1>2. Indices(S) /\ Indices(T) /\ T \subseteq S
  BY <1>1, FirstIndices
<1>3. Knows(f, k, S) /\ Knows(g, h, T)
  BY <1>2, KnowsAll DEF f, g
<1>4. KnownVolumes(k) = f[S] /\ KnownVolumes(h) = g[T]
  BY <1>1, KnownDef DEF f, g
<1>5. Max(S) = n + 1
  <2>1. \A y \in S : n + 1 >= y
    <3>1. n \in Nat
      BY <1>1
    <3> QED
      BY ONLY <3>1 DEF S
  <2>2. n + 1 \in S
    BY <1>1
  <2>3. \A x \in S : (\A y \in S : x >= y) => x = n + 1
    BY <2>1, <2>2
  <2> QED
    BY <2>1, <2>2, <2>3 DEF Max
<1>6. S \ {n + 1} = T /\ S # {}
  <2>1. n \in Nat
    BY <1>1
  <2> QED
    BY ONLY <2>1 DEF S, T
<1> HIDE DEF S, T
<1>7. f[S] = WithVolume(f[T], q)
  <2>1. f[S] = WithVolume(f[S \ {Max(S)}], k[Max(S)])
    BY <1>3, <1>6 DEF Knows
  <2> QED
    BY <2>1, <1>1, <1>5, <1>6
<1>8. \A s \in SUBSET T : f[s] = g[s]
  BY ONLY <1>1, <1>2, <1>3, KnowsAgree
<1>9. f[T] = g[T]
  BY <1>8
<1> QED
  BY <1>4, <1>7, <1>9 DEF k

(***************************************************************************)
(* The windows.  A window of prices is the end of the prices quoted; one   *)
(* of volumes is an end, of whatever length, of the volumes known.         *)
(***************************************************************************)

EndsWith(t, s) ==
  Len(t) <= Len(s) /\ \A i \in 1..Len(t) : t[i] = s[Len(s) - Len(t) + i]

LEMMA EndsAppend ==
  ASSUME NEW t \in Seq(Nat), NEW s \in Seq(Nat), EndsWith(t, s), NEW x \in Nat
  PROVE  EndsWith(Append(t, x), Append(s, x))
<1> DEFINE u == Append(t, x)
           v == Append(s, x)
<1>1. /\ Len(t) \in Nat /\ Len(s) \in Nat
      /\ Len(u) = Len(t) + 1 /\ Len(v) = Len(s) + 1
      /\ u[Len(t) + 1] = x /\ v[Len(s) + 1] = x
      /\ \A i \in 1..Len(t) : u[i] = t[i]
      /\ \A i \in 1..Len(s) : v[i] = s[i]
  OBVIOUS
<1> HIDE DEF u, v
<1>2. Len(t) <= Len(s) /\ \A i \in 1..Len(t) : t[i] = s[Len(s) - Len(t) + i]
  BY DEF EndsWith
<1>3. ASSUME NEW i \in 1..Len(u) PROVE u[i] = v[Len(v) - Len(u) + i]
  <2>1. CASE i = Len(t) + 1
    <3>1. Len(v) - Len(u) + i = Len(s) + 1
      BY <1>1, <2>1
    <3> QED
      BY <1>1, <2>1, <3>1
  <2>2. CASE i \in 1..Len(t)
    <3>1. /\ Len(v) - Len(u) + i = Len(s) - Len(t) + i
          /\ Len(s) - Len(t) + i \in 1..Len(s)
      BY <1>1, <1>2, <2>2
    <3> QED
      BY <1>1, <1>2, <2>2, <3>1
  <2> QED
    BY <1>1, <2>1, <2>2
<1>4. EndsWith(u, v)
  <2>1. Len(u) <= Len(v)
    BY <1>1, <1>2
  <2> QED
    BY <1>3, <2>1 DEF EndsWith
<1> QED
  BY <1>4 DEF u, v

LEMMA EndsShifted ==
  ASSUME NEW t \in Seq(Nat), NEW s \in Seq(Nat), EndsWith(t, s), NEW m \in Nat \ {0}
  PROVE  /\ Shifted(t, m) \in Seq(Nat) /\ EndsWith(Shifted(t, m), s)
         /\ Len(Shifted(t, m)) = IF Len(t) >= m THEN Len(t) - 1 ELSE Len(t)
<1>1. Len(t) \in Nat /\ Len(s) \in Nat
  OBVIOUS
<1>2. CASE Len(t) >= m
  <2>1. t # <<>> /\ Shifted(t, m) = Tail(t)
    BY <1>1, <1>2 DEF Shifted
  <2>2. /\ Tail(t) \in Seq(Nat) /\ Len(Tail(t)) = Len(t) - 1
        /\ \A i \in 1..Len(Tail(t)) : Tail(t)[i] = t[i + 1]
    BY <2>1
  <2>3. ASSUME NEW i \in 1..Len(Tail(t))
        PROVE  Tail(t)[i] = s[Len(s) - Len(Tail(t)) + i]
    <3>1. i + 1 \in 1..Len(t) /\ Len(s) - Len(t) + (i + 1) = Len(s) - Len(Tail(t)) + i
      BY <1>1, <2>2
    <3> QED
      BY <2>2, <3>1 DEF EndsWith
  <2>4. Len(Tail(t)) <= Len(s)
    BY <1>1, <2>2 DEF EndsWith
  <2> QED
    BY <1>2, <2>1, <2>2, <2>3, <2>4 DEF EndsWith
<1>3. CASE ~(Len(t) >= m)
  BY <1>3 DEF Shifted
<1> QED
  BY <1>2, <1>3

\* What is new in a window is what is new.
LEMMA EndsNewest ==
  ASSUME NEW t \in Seq(Nat), NEW s \in Seq(Nat), EndsWith(t, s),
         NEW n \in Nat \ {0}, n <= Len(t)
  PROVE  Newest(t, n) = Newest(s, n)
<1>1. Len(t) \in Nat /\ Len(s) \in Nat /\ n <= Len(s)
  BY DEF EndsWith
<1> DEFINE a == Len(t) - n + 1
           b == Len(s) - n + 1
<1>2. a \in 1..Len(t) /\ b \in 1..Len(s) /\ Len(t) - a + 1 = n /\ Len(s) - b + 1 = n
  BY <1>1
<1>3. SubSeq(t, a, Len(t)) = [i \in 1..n |-> t[i + a - 1]]
  BY <1>1, <1>2
<1>4. SubSeq(s, b, Len(s)) = [i \in 1..n |-> s[i + b - 1]]
  BY <1>1, <1>2
<1>5. ASSUME NEW i \in 1..n PROVE t[i + a - 1] = s[i + b - 1]
  <2>1. i + a - 1 \in 1..Len(t) /\ Len(s) - Len(t) + (i + a - 1) = i + b - 1
    BY <1>1, <1>2
  <2> QED
    BY <2>1 DEF EndsWith
<1> QED
  BY <1>3, <1>4, <1>5 DEF Newest

LEMMA NewestAll ==
  ASSUME NEW t \in Seq(Nat), Len(t) # 0
  PROVE  Newest(t, Len(t)) = t
<1>1. Len(t) \in Nat /\ Len(t) - Len(t) + 1 = 1
  OBVIOUS
<1>2. SubSeq(t, 1, Len(t)) = t
  BY <1>1
<1> QED
  BY <1>1, <1>2 DEF Newest

QuoteT == [price : Nat, volume : Nat \cup {NoVolume}]
SeriesT == [prices : Seq(Nat), volumes : Seq(Nat)]

LEMMA PricesAre ==
  ASSUME NEW h \in Seq(QuoteT)
  PROVE  /\ Prices(h) \in Seq(Nat) /\ Len(Prices(h)) = Len(h)
         /\ \A i \in 1..Len(h) : Prices(h)[i] = h[i].price
<1>1. \A i \in 1..Len(h) : h[i] \in QuoteT
  OBVIOUS
<1>2. \A i \in 1..Len(h) : h[i].price \in Nat
  BY <1>1 DEF QuoteT
<1>3. Prices(h) = [i \in 1..Len(h) |-> h[i].price]
  BY DEF Prices
<1>4. Len(h) \in Nat
  OBVIOUS
<1> QED
  BY <1>2, <1>3, <1>4

LEMMA PricesAppend ==
  ASSUME NEW h \in Seq(QuoteT), NEW q \in QuoteT
  PROVE  Prices(Append(h, q)) = Append(Prices(h), q.price)
<1> DEFINE k == Append(h, q)
           v == Append(Prices(h), q.price)
<1>1. q.price \in Nat
  BY DEF QuoteT
<1>2. /\ k \in Seq(QuoteT) /\ Len(k) = Len(h) + 1 /\ Len(h) \in Nat
      /\ k[Len(h) + 1] = q /\ \A i \in 1..Len(h) : k[i] = h[i]
  OBVIOUS
<1>3. /\ v \in Seq(Nat) /\ Len(v) = Len(h) + 1 /\ v[Len(h) + 1] = q.price
      /\ \A i \in 1..Len(h) : v[i] = h[i].price
  BY <1>1, PricesAre
<1> HIDE DEF k, v
<1>4. /\ Prices(k) \in Seq(Nat) /\ Len(Prices(k)) = Len(h) + 1
      /\ \A i \in 1..(Len(h) + 1) : Prices(k)[i] = k[i].price
  BY <1>2, PricesAre
<1>5. ASSUME NEW i \in 1..(Len(h) + 1) PROVE Prices(k)[i] = v[i]
  <2>1. CASE i = Len(h) + 1
    BY <1>2, <1>3, <1>4, <2>1
  <2>2. CASE i \in 1..Len(h)
    BY <1>2, <1>3, <1>4, <2>2
  <2> QED
    BY <1>2, <2>1, <2>2
<1> QED
  BY <1>3, <1>4, <1>5 DEF k, v

LEMMA Lengths ==
  /\ MaxLen["spike"] \in Nat /\ MaxLen["spike"] >= SpikeWindow
  /\ MaxLen["spike"] >= BreakoutLookback
  /\ MaxLen["reversion"] = RevWindow
  /\ MaxLen["trend"] \in Nat /\ MaxLen["trend"] >= MomentumWindow + 1
  /\ MaxLen["trend"] >= TrendVolWindow
  /\ {SpikeWindow, BreakoutLookback, RevWindow, MomentumWindow, TrendVolWindow,
      GuardVolWindow} \subseteq Nat \ {0}
  /\ \A n \in Names : MaxLen[n] \in Nat \ {0}
<1>1. {SpikeWindow, BreakoutLookback, RevWindow, MomentumWindow, TrendVolWindow,
       GuardVolWindow} \subseteq Nat \ {0}
  BY StrategyConfig DEF Positive
<1>2. /\ MaxLen["spike"] = Larger(SpikeWindow, BreakoutLookback)
      /\ MaxLen["reversion"] = RevWindow
      /\ MaxLen["trend"] = Larger(MomentumWindow + 1, TrendVolWindow)
      /\ MaxLen["guard"] = GuardVolWindow
  BY DEF MaxLen
<1> QED
  BY <1>1, <1>2 DEF Larger, Names

\* The window of strategy n after the quotes h, as far as the strategies rely on it:
\* after m quotes in a row with a volume it holds at least m volumes.
Window(n, ser, h) ==
  /\ ser \in SeriesT /\ h \in Seq(QuoteT) /\ KnownVolumes(h) \in Seq(Nat)
  /\ EndsWith(ser.prices, Prices(h))
  /\ Len(ser.prices) = IF Len(h) < MaxLen[n] THEN Len(h) ELSE MaxLen[n]
  /\ EndsWith(ser.volumes, KnownVolumes(h)) /\ Len(ser.volumes) <= MaxLen[n]
  /\ \A m \in 0..MaxLen[n] : Complete(h, m) => Len(ser.volumes) >= m

LEMMA CompleteBefore ==
  ASSUME NEW h \in Seq(QuoteT), NEW q \in QuoteT, NEW m \in Nat \ {0},
         Complete(Append(h, q), m)
  PROVE  HasVolume(q) /\ Complete(h, m - 1)
<1> DEFINE k == Append(h, q)
<1>1. /\ Len(k) = Len(h) + 1 /\ Len(h) \in Nat
      /\ k[Len(h) + 1] = q /\ \A i \in 1..Len(h) : k[i] = h[i]
  OBVIOUS
<1> HIDE DEF k
<1>2. Len(k) >= m /\ \A i \in (Len(k) - m + 1)..Len(k) : HasVolume(k[i])
  BY DEF Complete, k
<1>3. HasVolume(q)
  <2>1. Len(h) + 1 \in (Len(k) - m + 1)..Len(k)
    BY <1>1
  <2> QED
    BY <1>1, <1>2, <2>1
<1>4. ASSUME NEW i \in (Len(h) - (m - 1) + 1)..Len(h) PROVE HasVolume(h[i])
  <2>1. i \in (Len(k) - m + 1)..Len(k) /\ i \in 1..Len(h)
    BY <1>1, <1>2
  <2> QED
    BY <1>1, <1>2, <2>1
<1>5. Len(h) >= m - 1
  BY <1>1, <1>2
<1> QED
  BY <1>3, <1>4, <1>5 DEF Complete

LEMMA WindowStep ==
  ASSUME NEW n \in Names, NEW ser, NEW h, Window(n, ser, h), NEW q \in QuoteT
  PROVE  Window(n, Appended(ser, q, MaxLen[n]), Append(h, q))
<1> DEFINE max == MaxLen[n]
           new == Appended(ser, q, max)
           k == Append(h, q)
           known == KnownVolumes(h)
           p == Shifted(ser.prices, max)
           v == Shifted(ser.volumes, max)
<1>1. /\ ser.prices \in Seq(Nat) /\ ser.volumes \in Seq(Nat)
      /\ h \in Seq(QuoteT) /\ known \in Seq(Nat) /\ Len(h) \in Nat
      /\ EndsWith(ser.prices, Prices(h)) /\ EndsWith(ser.volumes, known)
      /\ Len(ser.prices) = (IF Len(h) < max THEN Len(h) ELSE max)
      /\ Len(ser.volumes) <= max
      /\ \A m \in 0..max : Complete(h, m) => Len(ser.volumes) >= m
  BY DEF Window, SeriesT
<1>2. max \in Nat \ {0}
  BY Lengths
<1>3. q.price \in Nat /\ (HasVolume(q) => q.volume \in Nat)
  BY DEF QuoteT, HasVolume
<1>4. /\ new.prices = Append(p, q.price)
      /\ new.volumes = IF HasVolume(q) THEN Append(v, q.volume) ELSE v
      /\ new = [prices |-> new.prices, volumes |-> new.volumes]
  BY DEF Appended, HasVolume
<1>5. k \in Seq(QuoteT) /\ Len(k) = Len(h) + 1
  BY <1>1
<1>6. KnownVolumes(k) = IF HasVolume(q) THEN Append(known, q.volume) ELSE known
  BY <1>1, KnownAppend DEF WithVolume
<1> HIDE DEF max, new, k, known, p, v
<1>7. /\ p \in Seq(Nat) /\ EndsWith(p, Prices(h))
      /\ Len(p) = IF Len(ser.prices) >= max THEN Len(ser.prices) - 1 ELSE Len(ser.prices)
  <2>1. Prices(h) \in Seq(Nat)
    BY <1>1, PricesAre
  <2> QED
    BY <1>1, <1>2, <2>1, EndsShifted DEF p
<1>8. /\ v \in Seq(Nat) /\ EndsWith(v, known)
      /\ Len(v) = IF Len(ser.volumes) >= max THEN Len(ser.volumes) - 1 ELSE Len(ser.volumes)
  BY <1>1, <1>2, EndsShifted DEF v
<1>9. /\ new.prices \in Seq(Nat) /\ EndsWith(new.prices, Prices(k))
      /\ Len(new.prices) = IF Len(k) < max THEN Len(k) ELSE max
  <2>1. Prices(h) \in Seq(Nat) /\ Prices(k) = Append(Prices(h), q.price)
    BY <1>1, PricesAre, PricesAppend DEF k
  <2>2. EndsWith(Append(p, q.price), Append(Prices(h), q.price))
    BY <1>3, <1>7, <2>1, EndsAppend
  <2>3. Append(p, q.price) \in Seq(Nat) /\ Len(Append(p, q.price)) = Len(p) + 1
    BY <1>3, <1>7
  <2>4. Len(p) + 1 = IF Len(k) < max THEN Len(k) ELSE max
    BY <1>1, <1>2, <1>5, <1>7
  <2> QED
    BY <1>4, <2>1, <2>2, <2>3, <2>4
<1>10. /\ new.volumes \in Seq(Nat) /\ KnownVolumes(k) \in Seq(Nat)
       /\ EndsWith(new.volumes, KnownVolumes(k)) /\ Len(new.volumes) <= max
       /\ HasVolume(q) => Len(new.volumes) = Len(v) + 1
  <2>0. Len(ser.volumes) \in Nat /\ Len(v) + 1 <= max
    BY <1>1, <1>2, <1>8
  <2>1. CASE HasVolume(q)
    <3>1. /\ Append(v, q.volume) \in Seq(Nat) /\ Len(Append(v, q.volume)) = Len(v) + 1
          /\ Append(known, q.volume) \in Seq(Nat)
      BY <1>1, <1>3, <1>8, <2>1
    <3>2. EndsWith(Append(v, q.volume), Append(known, q.volume))
      BY <1>1, <1>3, <1>8, <2>1, EndsAppend
    <3> QED
      BY <1>4, <1>6, <2>0, <2>1, <3>1, <3>2
  <2>2. CASE ~HasVolume(q)
    <3>1. Len(v) <= max
      BY <1>2, <1>8, <2>0
    <3> QED
      BY <1>1, <1>4, <1>6, <1>8, <2>2, <3>1
  <2> QED
    BY <2>1, <2>2
<1>11. ASSUME NEW m \in 0..max, Complete(k, m) PROVE Len(new.volumes) >= m
  <2>1. CASE m = 0
    BY <1>10, <2>1
  <2>2. CASE m # 0
    <3>1. HasVolume(q) /\ Complete(h, m - 1) /\ m - 1 \in 0..max
      BY <1>1, <1>2, <1>11, <2>2, CompleteBefore DEF k
    <3>2. Len(ser.volumes) >= m - 1 /\ Len(new.volumes) = Len(v) + 1
      BY <1>1, <1>10, <3>1
    <3> QED
      BY <1>1, <1>2, <1>8, <2>2, <3>2
  <2> QED
    BY <2>1, <2>2
<1>12. new \in SeriesT
  BY <1>4, <1>9, <1>10 DEF SeriesT
<1> QED
  BY <1>5, <1>9, <1>10, <1>11, <1>12 DEF Window, max, new, k

(***************************************************************************)
(* What a strategy says of a quote follows from the quotes before it.      *)
(***************************************************************************)

\* The place of the m-th newest of a window of length a of a history of length b.
LEMMA FromTheEnd ==
  ASSUME NEW a \in Nat, NEW b \in Nat, NEW m \in Nat, m >= 1, a <= b, m <= a
  PROVE  a - m + 1 \in 1..a /\ b - a + (a - m + 1) = b - m + 1 /\ b - m + 1 \in 1..b
OBVIOUS

\* What a window with n volumes or prices tells of the quotes.
LEMMA WindowTells ==
  ASSUME NEW n \in Names, NEW ser, NEW h, Window(n, ser, h)
  PROVE  /\ Len(ser.prices) \in Nat /\ Len(ser.volumes) \in Nat /\ Len(h) \in Nat
         /\ h \in Seq(QuoteT)
         /\ Len(ser.prices) <= Len(h) /\ Len(ser.volumes) <= Len(KnownVolumes(h))
         /\ Complete(h, MaxLen[n]) =>
              Len(ser.prices) = MaxLen[n] /\ Len(ser.volumes) = MaxLen[n]
         /\ \A m \in Nat \ {0} : m <= Len(ser.volumes) =>
              Newest(ser.volumes, m) = Newest(KnownVolumes(h), m)
         /\ \A m \in Nat \ {0} : m <= Len(ser.prices) =>
              /\ Newest(ser.prices, m) = Newest(Prices(h), m)
              /\ ser.prices[Len(ser.prices) - m + 1] = h[Len(h) - m + 1].price
<1>1. /\ ser.prices \in Seq(Nat) /\ ser.volumes \in Seq(Nat)
      /\ h \in Seq(QuoteT) /\ KnownVolumes(h) \in Seq(Nat)
      /\ EndsWith(ser.prices, Prices(h)) /\ EndsWith(ser.volumes, KnownVolumes(h))
      /\ Len(ser.prices) = (IF Len(h) < MaxLen[n] THEN Len(h) ELSE MaxLen[n])
      /\ Len(ser.volumes) <= MaxLen[n]
      /\ \A m \in 0..MaxLen[n] : Complete(h, m) => Len(ser.volumes) >= m
  BY DEF Window, SeriesT
<1>2. MaxLen[n] \in Nat \ {0}
  BY Lengths
<1>3. /\ Prices(h) \in Seq(Nat) /\ Len(Prices(h)) = Len(h)
      /\ \A i \in 1..Len(h) : Prices(h)[i] = h[i].price
  BY <1>1, PricesAre
<1>4. /\ Len(ser.prices) \in Nat /\ Len(ser.volumes) \in Nat /\ Len(h) \in Nat
      /\ Len(ser.prices) <= Len(h) /\ Len(ser.volumes) <= Len(KnownVolumes(h))
  BY <1>1, <1>2 DEF EndsWith
<1>5. ASSUME Complete(h, MaxLen[n])
      PROVE  Len(ser.prices) = MaxLen[n] /\ Len(ser.volumes) = MaxLen[n]
  <2>1. MaxLen[n] \in 0..MaxLen[n]
    BY <1>2
  <2>2. Len(ser.volumes) >= MaxLen[n]
    BY <1>1, <1>5, <2>1
  <2>3. Len(h) >= MaxLen[n]
    BY <1>5 DEF Complete
  <2>4. /\ Len(ser.prices) = (IF Len(h) < MaxLen[n] THEN Len(h) ELSE MaxLen[n])
        /\ Len(ser.volumes) <= MaxLen[n]
    BY <1>1
  <2> QED
    BY ONLY <1>2, <1>4, <2>2, <2>3, <2>4
<1>6. ASSUME NEW m \in Nat \ {0}, m <= Len(ser.volumes)
      PROVE  Newest(ser.volumes, m) = Newest(KnownVolumes(h), m)
  BY <1>1, <1>6, EndsNewest
<1>7. ASSUME NEW m \in Nat \ {0}, m <= Len(ser.prices)
      PROVE  /\ Newest(ser.prices, m) = Newest(Prices(h), m)
             /\ ser.prices[Len(ser.prices) - m + 1] = h[Len(h) - m + 1].price
  <2>1. Newest(ser.prices, m) = Newest(Prices(h), m)
    BY <1>1, <1>3, <1>7, EndsNewest
  <2>2. /\ Len(ser.prices) - m + 1 \in 1..Len(ser.prices)
        /\ Len(h) - Len(ser.prices) + (Len(ser.prices) - m + 1) = Len(h) - m + 1
        /\ Len(h) - m + 1 \in 1..Len(h)
    <3>1. /\ Len(ser.prices) \in Nat /\ Len(h) \in Nat /\ m \in Nat /\ m >= 1
          /\ Len(ser.prices) <= Len(h) /\ m <= Len(ser.prices)
      BY <1>4, <1>7
    <3> QED
      BY ONLY <3>1, FromTheEnd
  <2>3. \A i \in 1..Len(ser.prices) :
          ser.prices[i] = Prices(h)[Len(h) - Len(ser.prices) + i]
    BY <1>1, <1>3 DEF EndsWith
  <2>4. ser.prices[Len(ser.prices) - m + 1] = Prices(h)[Len(h) - m + 1]
    <3> DEFINE i == Len(ser.prices) - m + 1
               j == Len(h) - m + 1
    <3>1. i \in 1..Len(ser.prices) /\ Len(h) - Len(ser.prices) + i = j
      BY <2>2
    <3> HIDE DEF i, j
    <3>2. ser.prices[i] = Prices(h)[Len(h) - Len(ser.prices) + i]
      BY ONLY <2>3, <3>1
    <3>3. ser.prices[i] = Prices(h)[j]
      BY <3>1, <3>2
    <3> QED
      BY <3>3 DEF i, j
  <2> QED
    BY ONLY <1>3, <2>1, <2>2, <2>4
<1> QED
  BY <1>1, <1>4, <1>5, <1>6, <1>7

\* The range of the newest prices.
LEMMA NewestRange ==
  ASSUME NEW t \in Seq(Nat), NEW n \in Nat \ {0}, n <= Len(t)
  PROVE  Range(Newest(t, n)) = {t[i] : i \in (Len(t) - n + 1)..Len(t)}
<1> DEFINE a == Len(t) - n + 1
<1>1. Len(t) \in Nat /\ a \in 1..Len(t) /\ Len(t) - a + 1 = n
  OBVIOUS
<1>2. SubSeq(t, a, Len(t)) = [i \in 1..n |-> t[i + a - 1]]
  BY <1>1
<1>3. Newest(t, n) = [i \in 1..n |-> t[i + a - 1]]
  BY <1>2 DEF Newest
<1>4. Range(Newest(t, n)) = {t[i + a - 1] : i \in 1..n}
  BY <1>3 DEF Range
<1>5. \A i \in 1..n : i + a - 1 \in a..Len(t)
  BY <1>1
<1>6. \A j \in a..Len(t) : j - a + 1 \in 1..n /\ (j - a + 1) + a - 1 = j
  BY <1>1
<1> HIDE DEF a
<1>7. {t[i + a - 1] : i \in 1..n} = {t[i] : i \in a..Len(t)}
  <2>1. ASSUME NEW x \in {t[i + a - 1] : i \in 1..n} PROVE x \in {t[i] : i \in a..Len(t)}
    BY <1>5
  <2>2. ASSUME NEW x \in {t[i] : i \in a..Len(t)} PROVE x \in {t[i + a - 1] : i \in 1..n}
    <3>1. PICK j \in a..Len(t) : x = t[j]
      OBVIOUS
    <3>2. j - a + 1 \in 1..n /\ t[(j - a + 1) + a - 1] = x
      BY <1>6, <3>1
    <3> QED
      BY <3>2
  <2> QED
    BY <2>1, <2>2
<1> QED
  BY <1>4, <1>7 DEF a

SpikeSays(h, q, said) ==
  LET breakout ==
        /\ HasVolume(q)
        /\ Len(KnownVolumes(h)) >= SpikeWindow
        /\ Above(q.volume, Newest(KnownVolumes(h), SpikeWindow), SpikeMult)
      up == breakout /\ \A i \in DOMAIN h : i > Len(h) - BreakoutLookback => q.price > h[i].price
      down == breakout /\ \A i \in DOMAIN h : i > Len(h) - BreakoutLookback => q.price < h[i].price
  IN /\ said = "OPEN_LONG" => up
     /\ said = "OPEN_SHORT" => down
     /\ Complete(h, MaxLen["spike"]) =>
          /\ up /\ Allows(SpikeDirection, "long") => said = "OPEN_LONG"
          /\ down /\ Allows(SpikeDirection, "short") => said = "OPEN_SHORT"

LEMMA SpikeFollows ==
  ASSUME NEW ser, NEW h, Window("spike", ser, h), NEW q \in QuoteT, NEW pos
  PROVE  SpikeSays(h, q, Signal("spike", ser, q, pos).decision)
<1> DEFINE breakout == /\ HasVolume(q)
                       /\ Len(KnownVolumes(h)) >= SpikeWindow
                       /\ Above(q.volume, Newest(KnownVolumes(h), SpikeWindow), SpikeMult)
           above == \A i \in DOMAIN h : i > Len(h) - BreakoutLookback => q.price > h[i].price
           below == \A i \in DOMAIN h : i > Len(h) - BreakoutLookback => q.price < h[i].price
           said == Signal("spike", ser, q, pos).decision
           recent == Range(Newest(ser.prices, BreakoutLookback))
           spike == Above(q.volume, Newest(ser.volumes, SpikeWindow), SpikeMult)
           full == Complete(h, MaxLen["spike"])
           warm == Warm("spike", ser)
           mayBuy == Allows(SpikeDirection, "long")
           maySell == Allows(SpikeDirection, "short")
<1> SUFFICES /\ said = "OPEN_LONG" => (breakout /\ above)
             /\ said = "OPEN_SHORT" => (breakout /\ below)
             /\ full =>
                  /\ (breakout /\ above /\ mayBuy) => said = "OPEN_LONG"
                  /\ (breakout /\ below /\ maySell) => said = "OPEN_SHORT"
  BY DEF SpikeSays
<1>0. "spike" \in Names
  BY DEF Names
<1>1. /\ Len(ser.prices) \in Nat /\ Len(ser.volumes) \in Nat /\ Len(h) \in Nat
      /\ h \in Seq(QuoteT)
      /\ Len(ser.prices) <= Len(h) /\ Len(ser.volumes) <= Len(KnownVolumes(h))
      /\ full => Len(ser.prices) = MaxLen["spike"] /\ Len(ser.volumes) = MaxLen["spike"]
      /\ SpikeWindow <= Len(ser.volumes) =>
           Newest(ser.volumes, SpikeWindow) = Newest(KnownVolumes(h), SpikeWindow)
      /\ BreakoutLookback <= Len(ser.prices) =>
           Newest(ser.prices, BreakoutLookback) = Newest(Prices(h), BreakoutLookback)
  BY <1>0, WindowTells, Lengths
<1>2. SpikeWindow \in Nat \ {0} /\ BreakoutLookback \in Nat \ {0}
  BY Lengths
<1>3. warm <=> (Len(ser.volumes) >= SpikeWindow /\ Len(ser.prices) >= BreakoutLookback)
  BY DEF Warm
<1>4. q.price \in Nat /\ q # NoBar
  BY StrategyConfig DEF QuoteT
<1>5. ASSUME warm
      PROVE  /\ (\A p \in recent : q.price > p) <=> above
             /\ (\A p \in recent : q.price < p) <=> below
             /\ ~(above /\ below)
  <2>1. BreakoutLookback <= Len(h) /\ recent = Range(Newest(Prices(h), BreakoutLookback))
    BY <1>1, <1>2, <1>3, <1>5
  <2>2. /\ Prices(h) \in Seq(Nat) /\ Len(Prices(h)) = Len(h)
        /\ \A i \in 1..Len(h) : Prices(h)[i] = h[i].price
    BY <1>1, PricesAre
  <2>3. recent = {Prices(h)[i] : i \in (Len(h) - BreakoutLookback + 1)..Len(h)}
    BY <1>2, <2>1, <2>2, NewestRange
  <2>4. \A i \in DOMAIN h : i > Len(h) - BreakoutLookback <=>
                             i \in (Len(h) - BreakoutLookback + 1)..Len(h)
    BY <1>1, <1>2, <2>1
  <2>5. (Len(h) - BreakoutLookback + 1)..Len(h) \subseteq 1..Len(h) /\ DOMAIN h = 1..Len(h)
    BY <1>1, <1>2, <2>1
  <2>6. \A i \in (Len(h) - BreakoutLookback + 1)..Len(h) : Prices(h)[i] = h[i].price
    BY <2>2, <2>5
  <2> HIDE DEF recent
  <2>7. (\A p \in recent : q.price > p) <=> above
    BY <2>3, <2>4, <2>5, <2>6
  <2>8. (\A p \in recent : q.price < p) <=> below
    BY <2>3, <2>4, <2>5, <2>6
  <2>9. ~(above /\ below)
    <3>1. Len(h) \in DOMAIN h /\ Len(h) > Len(h) - BreakoutLookback
      BY <1>1, <1>2, <2>1
    <3>2. h[Len(h)].price \in Nat
      <4>1. h[Len(h)] \in QuoteT
        BY <1>1, <3>1
      <4> QED
        BY <4>1 DEF QuoteT
    <3> QED
      BY <1>4, <3>1, <3>2
  <2> QED
    BY <2>7, <2>8, <2>9
<1>6. ASSUME warm
      PROVE  spike /\ HasVolume(q) <=> breakout
  BY <1>1, <1>2, <1>3, <1>6
<1>7. full => warm
  BY <1>1, <1>2, <1>3, Lengths
<1>8. CASE ~HasVolume(q)
  <2>1. said = "HOLD"
    BY <1>4, <1>8 DEF Signal, Hold, HasVolume
  <2> QED
    BY <1>8, <2>1
<1>9. CASE ~warm
  <2>1. said = "HOLD"
    BY <1>9 DEF Signal, Hold
  <2> QED
    BY <1>7, <1>9, <2>1
<1>10. CASE HasVolume(q) /\ warm
  <2>1. said = SpikeSignal(ser, q).decision
    BY <1>4, <1>10 DEF Signal, HasVolume
  <2>2. said = (IF spike /\ (\A p \in recent : q.price > p) /\ mayBuy THEN "OPEN_LONG"
                ELSE IF spike /\ (\A p \in recent : q.price < p) /\ maySell THEN "OPEN_SHORT"
                ELSE "HOLD")
    BY <2>1 DEF SpikeSignal, Hold
  <2> HIDE DEF said, warm, spike, recent, breakout, above, below, mayBuy, maySell, full
  <2> QED
    BY <1>5, <1>6, <1>10, <2>2
<1> QED
  BY <1>8, <1>9, <1>10

\* past is the price quoted momentum_window quotes before q.
TrendSays(h, q, past, said) ==
  LET enough ==
        /\ HasVolume(q)
        /\ Len(h) >= MomentumWindow
        /\ Len(KnownVolumes(h)) >= TrendVolWindow
        /\ ~Below(q.volume, Newest(KnownVolumes(h), TrendVolWindow), TrendVolMult)
      move == q.price - past
  IN /\ said = "OPEN_LONG" => enough /\ move > 0
     /\ said = "OPEN_SHORT" => enough /\ move < 0
     /\ Complete(h, MaxLen["trend"]) /\ enough =>
          /\ move > 0 /\ Allows(TrendDirection, "long") => said = "OPEN_LONG"
          /\ move < 0 /\ Allows(TrendDirection, "short") => said = "OPEN_SHORT"

LEMMA TrendFollows ==
  ASSUME NEW ser, NEW h, Window("trend", ser, h), NEW q \in QuoteT, NEW pos
  PROVE  TrendSays(h, q, Append(h, q)[Len(Append(h, q)) - MomentumWindow].price,
                   Signal("trend", ser, q, pos).decision)
<1> DEFINE past == Append(h, q)[Len(Append(h, q)) - MomentumWindow].price
           before == ser.prices[Len(ser.prices) - MomentumWindow + 1]
           enough == /\ HasVolume(q)
                     /\ Len(h) >= MomentumWindow
                     /\ Len(KnownVolumes(h)) >= TrendVolWindow
                     /\ ~Below(q.volume, Newest(KnownVolumes(h), TrendVolWindow), TrendVolMult)
           low == Below(q.volume, Newest(ser.volumes, TrendVolWindow), TrendVolMult)
           said == Signal("trend", ser, q, pos).decision
           full == Complete(h, MaxLen["trend"])
           warm == Warm("trend", ser)
           mayBuy == Allows(TrendDirection, "long")
           maySell == Allows(TrendDirection, "short")
<1> SUFFICES /\ said = "OPEN_LONG" => (enough /\ q.price - past > 0)
             /\ said = "OPEN_SHORT" => (enough /\ q.price - past < 0)
             /\ (full /\ enough) =>
                  /\ (q.price - past > 0 /\ mayBuy) => said = "OPEN_LONG"
                  /\ (q.price - past < 0 /\ maySell) => said = "OPEN_SHORT"
  BY DEF TrendSays
<1>0. "trend" \in Names
  BY DEF Names
<1>1. MomentumWindow \in Nat \ {0} /\ TrendVolWindow \in Nat \ {0}
  BY Lengths
<1>2. /\ Len(ser.prices) \in Nat /\ Len(ser.volumes) \in Nat /\ Len(h) \in Nat
      /\ h \in Seq(QuoteT)
      /\ Len(ser.prices) <= Len(h) /\ Len(ser.volumes) <= Len(KnownVolumes(h))
      /\ full => Len(ser.prices) = MaxLen["trend"] /\ Len(ser.volumes) = MaxLen["trend"]
      /\ TrendVolWindow <= Len(ser.volumes) =>
           Newest(ser.volumes, TrendVolWindow) = Newest(KnownVolumes(h), TrendVolWindow)
      /\ MomentumWindow <= Len(ser.prices) =>
           before = h[Len(h) - MomentumWindow + 1].price
  BY <1>0, <1>1, WindowTells
<1>3. warm <=> (Len(ser.prices) >= MomentumWindow + 1 /\ Len(ser.volumes) >= TrendVolWindow)
  BY DEF Warm
<1>4. q.price \in Nat /\ q # NoBar
  BY StrategyConfig DEF QuoteT
<1>5. full => warm
  BY <1>1, <1>2, <1>3, Lengths
<1>6. ASSUME warm
      PROVE  /\ past = before /\ past \in Nat
             /\ HasVolume(q) => (enough <=> ~low)
  <2> DEFINE i == Len(h) - MomentumWindow + 1
             k == Append(h, q)
  <2>1. MomentumWindow <= Len(ser.prices) /\ TrendVolWindow <= Len(ser.volumes)
    BY <1>1, <1>2, <1>3, <1>6
  <2>2. i \in 1..Len(h) /\ Len(h) >= MomentumWindow
    BY <1>1, <1>2, <2>1
  <2>3. Len(k) - MomentumWindow = i /\ k[i] = h[i] /\ h[i] \in QuoteT
    <3>1. Len(k) = Len(h) + 1 /\ \A j \in 1..Len(h) : k[j] = h[j] /\ h[j] \in QuoteT
      BY <1>2
    <3> QED
      BY <1>1, <1>2, <2>2, <3>1
  <2>4. past = h[i].price /\ h[i].price \in Nat
    BY <2>3 DEF QuoteT
  <2>5. Len(KnownVolumes(h)) >= TrendVolWindow
    <3>1. Len(KnownVolumes(h)) \in Nat
      BY <1>0 DEF Window
    <3> QED
      BY <1>1, <1>2, <2>1, <3>1
  <2>6. Newest(ser.volumes, TrendVolWindow) = Newest(KnownVolumes(h), TrendVolWindow)
    BY <1>2, <2>1
  <2>7. before = h[i].price
    BY <1>2, <2>1
  <2> QED
    BY <2>2, <2>4, <2>5, <2>6, <2>7
<1>7. CASE ~HasVolume(q)
  <2>1. said = "HOLD"
    BY <1>4, <1>7 DEF Signal, Hold, HasVolume
  <2> QED
    BY <1>7, <2>1
<1>8. CASE ~warm
  <2>1. said = "HOLD"
    BY <1>8 DEF Signal, Hold
  <2> QED
    BY <1>5, <1>8, <2>1
<1>9. CASE HasVolume(q) /\ warm
  <2>1. said = TrendSignal(ser, q).decision
    BY <1>4, <1>9 DEF Signal, HasVolume
  <2>2. said = (IF low THEN "HOLD" ELSE IF q.price = before THEN "HOLD"
                ELSE IF q.price > before /\ mayBuy THEN "OPEN_LONG"
                ELSE IF q.price < before /\ maySell THEN "OPEN_SHORT"
                ELSE "HOLD")
    BY <2>1 DEF TrendSignal, Hold
  <2>3. past = before /\ past \in Nat /\ (enough <=> ~low)
    BY <1>6, <1>9
  <2> HIDE DEF said, warm, low, enough, past, before, mayBuy, maySell, full
  <2>4. (q.price - past > 0 <=> q.price > before) /\ (q.price - past < 0 <=> q.price < before)
    BY <1>4, <2>3
  <2> DEFINE up == q.price > before
             down == q.price < before
  <2>5. ~(up /\ down) /\ (up => q.price # before) /\ (down => q.price # before)
    BY <1>4, <2>3
  <2> HIDE DEF up, down
  <2>6. said = (IF low THEN "HOLD" ELSE IF q.price = before THEN "HOLD"
                ELSE IF up /\ mayBuy THEN "OPEN_LONG"
                ELSE IF down /\ maySell THEN "OPEN_SHORT"
                ELSE "HOLD")
    BY <2>2 DEF up, down
  <2>7. /\ said = "OPEN_LONG" => enough /\ up
        /\ said = "OPEN_SHORT" => enough /\ down
        /\ enough =>
             /\ (up /\ mayBuy) => said = "OPEN_LONG"
             /\ (down /\ maySell) => said = "OPEN_SHORT"
    BY <2>3, <2>5, <2>6
  <2> QED
    BY <2>4, <2>7 DEF up, down
<1> QED
  BY <1>7, <1>8, <1>9

\* pos is what the reversion strategy believes once it has said it.
ReversionSays(h, q, pos, said) ==
  said \in {"OPEN_LONG", "OPEN_SHORT"} =>
    LET prices == Newest(Prices(h), RevWindow)
    IN /\ Len(h) >= RevWindow
       /\ Below(q.volume, Newest(KnownVolumes(h), RevWindow), LowVolMult)
       /\ CASE pos = -1 -> AtLeast(prices, q.price, ZEntry)
            [] pos = 1  -> AtMost(prices, q.price, ZEntry)
            [] OTHER    -> FALSE

LEMMA ReversionFollows ==
  ASSUME NEW ser, NEW h, Window("reversion", ser, h), NEW q \in QuoteT,
         NEW pos \in {-1, 0, 1}
  PROVE  ReversionSays(h, q, Believed(pos, Signal("reversion", ser, q, pos).decision),
                       Signal("reversion", ser, q, pos).decision)
<1> DEFINE said == Signal("reversion", ser, q, pos).decision
           warm == Warm("reversion", ser)
<1>0. "reversion" \in Names /\ MaxLen["reversion"] = RevWindow /\ RevWindow \in Nat \ {0}
  BY Lengths DEF Names
<1> SUFFICES ASSUME said \in {"OPEN_LONG", "OPEN_SHORT"}
             PROVE  ReversionSays(h, q, Believed(pos, said), said)
  BY DEF ReversionSays
<1>1. q # NoBar
  BY StrategyConfig DEF QuoteT
<1>2. HasVolume(q) /\ warm
  BY <1>1 DEF Signal, Hold, HasVolume
<1>3. said = ReversionSignal(ser, q, pos).decision
  BY <1>1, <1>2 DEF Signal, HasVolume
<1>4. /\ Len(ser.prices) \in Nat /\ Len(ser.volumes) \in Nat /\ Len(h) \in Nat
      /\ Len(ser.prices) <= Len(h)
      /\ RevWindow <= Len(ser.volumes) =>
           Newest(ser.volumes, RevWindow) = Newest(KnownVolumes(h), RevWindow)
      /\ RevWindow <= Len(ser.prices) =>
           Newest(ser.prices, RevWindow) = Newest(Prices(h), RevWindow)
  BY <1>0, WindowTells
<1>5. /\ ser.prices \in Seq(Nat) /\ ser.volumes \in Seq(Nat)
      /\ Len(ser.prices) = (IF Len(h) < RevWindow THEN Len(h) ELSE RevWindow)
      /\ Len(ser.volumes) <= RevWindow
  BY <1>0 DEF Window, SeriesT
<1>6. Len(ser.prices) >= RevWindow /\ Len(ser.volumes) >= RevWindow
  BY <1>2 DEF Warm
<1>7. Len(ser.prices) = RevWindow /\ Len(ser.volumes) = RevWindow /\ Len(h) >= RevWindow
  BY <1>0, <1>4, <1>5, <1>6
<1>8. ser.prices = Newest(Prices(h), RevWindow) /\ ser.volumes = Newest(KnownVolumes(h), RevWindow)
  BY <1>0, <1>4, <1>5, <1>7, NewestAll
<1> DEFINE near == pos /= 0 /\ Within(ser.prices, q.price, ZExit)
           quiet == Below(q.volume, ser.volumes, LowVolMult)
           high == AtLeast(ser.prices, q.price, ZEntry)
           deep == AtMost(ser.prices, q.price, ZEntry)
<1>9. said = (IF near THEN "CLOSE"
              ELSE IF pos = 0 /\ quiet /\ high THEN "OPEN_SHORT"
              ELSE IF pos = 0 /\ quiet /\ deep THEN "OPEN_LONG" ELSE "HOLD")
  BY <1>3 DEF ReversionSignal, Hold
<1> HIDE DEF near, quiet, high, deep, said, warm
<1>10. /\ quiet
       /\ (said = "OPEN_SHORT" /\ high) \/ (said = "OPEN_LONG" /\ deep)
  BY <1>9
<1>11. Believed(pos, said) = IF said = "OPEN_SHORT" THEN -1 ELSE 1
  BY <1>10 DEF Believed
<1>12. CASE said = "OPEN_SHORT"
  BY <1>7, <1>8, <1>10, <1>11, <1>12 DEF ReversionSays, high, quiet
<1>13. CASE said = "OPEN_LONG"
  BY <1>7, <1>8, <1>10, <1>11, <1>13 DEF ReversionSays, deep, quiet
<1> QED
  BY <1>10, <1>12, <1>13

\* It asks for the exit of what it believes open, and opens when it believes nothing is.
LEMMA ReversionTurns ==
  ASSUME NEW ser, NEW q, NEW pos \in {-1, 0, 1}
  PROVE  LET said == Signal("reversion", ser, q, pos).decision
         IN \/ said = "HOLD"
            \/ said = "CLOSE" /\ pos # 0
            \/ said \in {"OPEN_LONG", "OPEN_SHORT"} /\ pos = 0
<1> DEFINE said == Signal("reversion", ser, q, pos).decision
           near == pos /= 0 /\ Within(ser.prices, q.price, ZExit)
           quiet == Below(q.volume, ser.volumes, LowVolMult)
           high == AtLeast(ser.prices, q.price, ZEntry)
           deep == AtMost(ser.prices, q.price, ZEntry)
<1>1. \/ said = "HOLD"
      \/ said = ReversionSignal(ser, q, pos).decision
  BY DEF Signal, Hold
<1>2. ReversionSignal(ser, q, pos).decision
        = (IF near THEN "CLOSE"
           ELSE IF pos = 0 /\ quiet /\ high THEN "OPEN_SHORT"
           ELSE IF pos = 0 /\ quiet /\ deep THEN "OPEN_LONG" ELSE "HOLD")
  BY DEF ReversionSignal, Hold
<1>3. near => pos # 0
  OBVIOUS
<1> HIDE DEF said, near, quiet, high, deep
<1>4. \/ said = "HOLD"
      \/ said = "CLOSE" /\ pos # 0
      \/ said \in {"OPEN_LONG", "OPEN_SHORT"} /\ pos = 0
  BY <1>1, <1>2, <1>3
<1> QED
  BY <1>4 DEF said

(***************************************************************************)
(* The steps.  The invariant says of every symbol what its windows hold of *)
(* its quotes, and what was last said about it.                            *)
(***************************************************************************)

Answer == [decision : Decisions, reason : Reasons]

LEMMA AnswerTyped ==
  ASSUME NEW n \in Names, NEW ser, NEW q, NEW pos \in {-1, 0, 1}
  PROVE  Signal(n, ser, q, pos) \in Answer
<1>1. \A r \in Reasons : Hold(r) \in Answer
  BY DEF Hold, Answer, Decisions
<1>2. /\ [decision |-> "OPEN_LONG", reason |-> "volume_spike_high_breakout"] \in Answer
      /\ [decision |-> "OPEN_SHORT", reason |-> "volume_spike_low_breakout"] \in Answer
      /\ [decision |-> "CLOSE", reason |-> "reversion_exit"] \in Answer
      /\ [decision |-> "OPEN_SHORT", reason |-> "low_volume_high_z_reversion"] \in Answer
      /\ [decision |-> "OPEN_LONG", reason |-> "low_volume_low_z_reversion"] \in Answer
      /\ [decision |-> "OPEN_LONG", reason |-> "volume_confirmed_uptrend"] \in Answer
      /\ [decision |-> "OPEN_SHORT", reason |-> "volume_confirmed_downtrend"] \in Answer
  BY DEF Answer, Decisions, Reasons
<1>3. \A r \in {"missing_timeframe_bar", "missing_volume", "warming_up", "no_breakout",
                "no_reversion", "volume_filter_blocked", "flat_momentum",
                "direction_blocked", "low_volume_blocked", "volume_ok"} : Hold(r) \in Answer
  BY <1>1 DEF Reasons
<1> HIDE DEF Answer
<1>4. SpikeSignal(ser, q) \in Answer
  BY <1>3, <1>2 DEF SpikeSignal
<1>5. ReversionSignal(ser, q, pos) \in Answer
  BY <1>3, <1>2 DEF ReversionSignal
<1>6. TrendSignal(ser, q) \in Answer
  BY <1>3, <1>2 DEF TrendSignal
<1>7. GuardSignal(ser, q) \in Answer
  BY <1>3 DEF GuardSignal
<1>8. n \in {"spike", "reversion", "trend", "guard"}
  BY DEF Names
<1> QED
  BY <1>3, <1>4, <1>5, <1>6, <1>7, <1>8 DEF Signal

\* What was last said of a symbol, in terms of its quotes k.
AnswersFit(k, spike, trend, reversion, pos, turn) ==
  /\ k /= <<>> /\ spike.reason /= "missing_timeframe_bar" =>
       SpikeSays(Front(k), Last(k), spike.decision)
  /\ k /= <<>> /\ trend.reason /= "missing_timeframe_bar" =>
       TrendSays(Front(k), Last(k), k[Len(k) - MomentumWindow].price, trend.decision)
  /\ turn.opened - turn.closed = (IF pos = 0 THEN 0 ELSE 1)
  /\ ReversionSays(Front(k), Last(k), pos, reversion.decision)

SaidFits ==
  \A s \in Symbols :
    AnswersFit(quoted[s], signals["spike"][s], signals["trend"][s], signals["reversion"][s],
               position[s], turns[s])

LEMMA FitsMeaning == SaidFits => SignalsFollowQuotes
<1> SUFFICES ASSUME SaidFits PROVE SignalsFollowQuotes
  OBVIOUS
<1>0. ASSUME NEW s \in Symbols
      PROVE  /\ Answered("spike", s) =>
                  SpikeSays(Front(quoted[s]), Last(quoted[s]), signals["spike"][s].decision)
             /\ Answered("trend", s) =>
                  TrendSays(Front(quoted[s]), Last(quoted[s]),
                            quoted[s][Len(quoted[s]) - MomentumWindow].price,
                            signals["trend"][s].decision)
             /\ turns[s].opened - turns[s].closed = (IF position[s] = 0 THEN 0 ELSE 1)
             /\ ReversionSays(Front(quoted[s]), Last(quoted[s]), position[s],
                              signals["reversion"][s].decision)
  BY DEF SaidFits, AnswersFit, Answered
<1>1. SpikeFollowsQuotes
  BY <1>0, Zenon DEF SpikeFollowsQuotes, SpikeSays
<1>2. TrendFollowsQuotes
  BY <1>0, Zenon DEF TrendFollowsQuotes, TrendSays
<1>3. ReversionFollowsQuotes
  BY <1>0, Zenon DEF ReversionFollowsQuotes, ReversionSays
<1> QED
  BY <1>1, <1>2, <1>3 DEF SignalsFollowQuotes

\* The windows are windows of the quotes.
Windows == \A n \in Names, s \in Symbols : Window(n, series[n][s], quoted[s])

QuoteInv == TypeOK /\ Windows /\ SaidFits /\ ForcedNeverFlips

LEMMA LastAppend ==
  ASSUME NEW h \in Seq(QuoteT), NEW q \in QuoteT
  PROVE  /\ Append(h, q) \in Seq(QuoteT) /\ Append(h, q) # <<>>
         /\ Front(Append(h, q)) = h /\ Last(Append(h, q)) = q
BY DEF Front, Last

LEMMA QuoteTypes ==
  ASSUME NEW q \in Quotes
  PROVE  q = NoBar \/ q \in QuoteT
BY StrategyConfig DEF QuoteT

\* A symbol that is not asked keeps everything.
LEMMA OtherSymbol ==
  ASSUME TypeOK, NEW s \in Symbols, NEW q \in Quotes, Generate(s, q),
         NEW t \in Symbols, t # s
  PROVE  /\ \A n \in Names : series'[n][t] = series[n][t] /\ signals'[n][t] = signals[n][t]
         /\ position'[t] = position[t] /\ held'[t] = held[t]
         /\ quoted'[t] = quoted[t] /\ turns'[t] = turns[t]
BY DEF TypeOK, Generate

\* The symbol that is asked.
LEMMA AskedSymbol ==
  ASSUME TypeOK, NEW s \in Symbols, NEW q \in Quotes, Generate(s, q)
  PROVE  LET answer(n) == Signal(n, series[n][s], q, position[s])
             turn == answer("reversion").decision
         IN /\ \A n \in Names :
                 /\ signals'[n][s] = answer(n)
                 /\ series'[n][s] = IF q = NoBar THEN series[n][s]
                                    ELSE Appended(series[n][s], q, MaxLen[n])
            /\ position'[s] = Believed(position[s], turn)
            /\ held'[s] = Executed(s, answer(Enabled[s]).decision)
            /\ quoted'[s] = IF q = NoBar THEN quoted[s] ELSE Append(quoted[s], q)
            /\ turns'[s] =
                 [opened |-> turns[s].opened
                               + (IF turn \in {"OPEN_LONG", "OPEN_SHORT"} THEN 1 ELSE 0),
                  closed |-> turns[s].closed + (IF turn = "CLOSE" THEN 1 ELSE 0)]
<1> DEFINE answer == [n \in Names |-> Signal(n, series[n][s], q, position[s])]
<1>1. "reversion" \in Names /\ Enabled[s] \in Names
  BY StrategyConfig DEF Names
<1>2. \A n \in Names : answer[n] = Signal(n, series[n][s], q, position[s])
  OBVIOUS
<1> HIDE DEF answer
<1>3. /\ signals' = [n \in Names |-> [signals[n] EXCEPT ![s] = answer[n]]]
      /\ series' = IF q = NoBar THEN series
                   ELSE [n \in Names |-> [series[n] EXCEPT ![s] = Appended(@, q, MaxLen[n])]]
      /\ position' = [position EXCEPT ![s] = Believed(@, answer["reversion"].decision)]
      /\ held' = [held EXCEPT ![s] = Executed(s, answer[Enabled[s]].decision)]
      /\ quoted' = IF q = NoBar THEN quoted ELSE [quoted EXCEPT ![s] = Append(@, q)]
      /\ turns' = [turns EXCEPT ![s] =
           [opened |-> @.opened
                         + (IF answer["reversion"].decision \in {"OPEN_LONG", "OPEN_SHORT"}
                            THEN 1 ELSE 0),
            closed |-> @.closed + (IF answer["reversion"].decision = "CLOSE" THEN 1 ELSE 0)]]
  BY DEF Generate, answer
<1>4. /\ position \in [Symbols -> {-1, 0, 1}]
      /\ held \in [Symbols -> [long : Nat, short : Nat]]
      /\ turns \in [Symbols -> [opened : Nat, closed : Nat]]
      /\ quoted \in [Symbols -> Seq([price : Nat, volume : Nat \cup {NoVolume}])]
      /\ \A n \in Names : DOMAIN signals[n] = Symbols /\ DOMAIN series[n] = Symbols
  BY DEF TypeOK
<1>5. \A n \in Names : /\ signals'[n][s] = answer[n]
                       /\ series'[n][s] = IF q = NoBar THEN series[n][s]
                                          ELSE Appended(series[n][s], q, MaxLen[n])
  BY <1>3, <1>4
<1>6. /\ position'[s] = Believed(position[s], answer["reversion"].decision)
      /\ held'[s] = Executed(s, answer[Enabled[s]].decision)
      /\ quoted'[s] = IF q = NoBar THEN quoted[s] ELSE Append(quoted[s], q)
  BY <1>3, <1>4
<1>7. turns'[s] =
        [opened |-> turns[s].opened
                      + (IF answer["reversion"].decision \in {"OPEN_LONG", "OPEN_SHORT"}
                         THEN 1 ELSE 0),
         closed |-> turns[s].closed
                      + (IF answer["reversion"].decision = "CLOSE" THEN 1 ELSE 0)]
  BY <1>3, <1>4
<1> QED
  BY <1>1, <1>2, <1>5, <1>6, <1>7

LEMMA ExecutedSafe ==
  ASSUME NEW s \in Symbols, NEW own \in Decisions,
         held[s] \in [long : Nat, short : Nat]
  PROVE  /\ Executed(s, own) \in [long : Nat, short : Nat]
         /\ ForceDecision[s] = "OPEN_LONG" => Executed(s, own).short = held[s].short
         /\ ForceDecision[s] = "OPEN_SHORT" => Executed(s, own).long = held[s].long
         /\ ForceDecision[s] = "HOLD" => Executed(s, own) = held[s]
<1> DEFINE accepted == Accepts(Final(s, own), own)
           new == Executed(s, own)
<1>1. PositionSide(own) \in {"long", "short", "flat"}
  BY DEF PositionSide
<1>2. accepted => PositionSide(own) # "flat"
  BY DEF Accepts, PositionSide
<1>3. CASE ~accepted
  <2>1. new = held[s]
    BY <1>3 DEF Executed
  <2> QED
    BY <2>1
<1>4. CASE accepted /\ PositionSide(own) = "long"
  <2>1. new = [held[s] EXCEPT !["long"] = @ + 1]
    BY <1>4 DEF Executed
  <2>2. new \in [long : Nat, short : Nat] /\ new.short = held[s].short
    BY <2>1
  <2>3. ForceDecision[s] # "OPEN_SHORT" /\ ForceDecision[s] # "HOLD"
    <3>1. ForceDecision[s] = "OPEN_SHORT" => Final(s, own) = "OPEN_SHORT"
      BY StrategyConfig DEF Final, Decisions
    <3>2. ForceDecision[s] = "HOLD" => Final(s, own) = "HOLD"
      BY StrategyConfig DEF Final, Decisions
    <3> QED
      BY <1>4, <3>1, <3>2 DEF Accepts
  <2> QED
    BY <2>2, <2>3
<1>5. CASE accepted /\ PositionSide(own) = "short"
  <2>1. new = [held[s] EXCEPT !["short"] = @ + 1]
    BY <1>5 DEF Executed
  <2>2. new \in [long : Nat, short : Nat] /\ new.long = held[s].long
    BY <2>1
  <2>3. ForceDecision[s] # "OPEN_LONG" /\ ForceDecision[s] # "HOLD"
    <3>1. ForceDecision[s] = "OPEN_LONG" => Final(s, own) = "OPEN_LONG"
      BY StrategyConfig DEF Final, Decisions
    <3>2. ForceDecision[s] = "HOLD" => Final(s, own) = "HOLD"
      BY StrategyConfig DEF Final, Decisions
    <3> QED
      BY <1>5, <3>1, <3>2 DEF Accepts
  <2> QED
    BY <2>2, <2>3
<1> QED
  BY <1>1, <1>2, <1>3, <1>4, <1>5

LEMMA WindowsKept ==
  ASSUME QuoteInv, NEW s \in Symbols, NEW q \in Quotes, Generate(s, q)
  PROVE  Windows'
<1> SUFFICES ASSUME NEW n \in Names, NEW t \in Symbols
             PROVE  Window(n, series'[n][t], quoted'[t])
  BY DEF Windows
<1>1. TypeOK /\ Window(n, series[n][t], quoted[t])
  BY DEF QuoteInv, Windows
<1>2. CASE t # s
  BY <1>1, <1>2, OtherSymbol
<1>3. CASE t = s /\ q = NoBar
  BY <1>1, <1>3, AskedSymbol
<1>4. CASE t = s /\ q \in QuoteT
  <2>1. q # NoBar
    BY <1>4, StrategyConfig DEF QuoteT
  <2>2. /\ series'[n][t] = Appended(series[n][t], q, MaxLen[n])
        /\ quoted'[t] = Append(quoted[t], q)
    BY <1>1, <1>4, <2>1, AskedSymbol
  <2> QED
    BY <1>1, <1>4, <2>2, WindowStep
<1> QED
  BY <1>2, <1>3, <1>4, QuoteTypes

LEMMA FitsKept ==
  ASSUME QuoteInv, NEW s \in Symbols, NEW q \in Quotes, Generate(s, q)
  PROVE  SaidFits'
<1> SUFFICES ASSUME NEW t \in Symbols
             PROVE  AnswersFit(quoted'[t], signals'["spike"][t], signals'["trend"][t],
                               signals'["reversion"][t], position'[t], turns'[t])
  BY DEF SaidFits
<1>0. {"spike", "trend", "reversion"} \subseteq Names
  BY DEF Names
<1>1. /\ TypeOK
      /\ AnswersFit(quoted[t], signals["spike"][t], signals["trend"][t],
                    signals["reversion"][t], position[t], turns[t])
  BY DEF QuoteInv, SaidFits
<1>2. CASE t # s
  BY <1>0, <1>1, <1>2, OtherSymbol
<1>3. CASE t = s
  <2> DEFINE said == [n \in Names |-> Signal(n, series[n][s], q, position[s])]
             rev == said["reversion"].decision
             pos == position[s]
             h == quoted[s]
  <2>1. /\ signals'["spike"][s] = said["spike"] /\ signals'["trend"][s] = said["trend"]
        /\ signals'["reversion"][s] = said["reversion"]
        /\ position'[s] = Believed(pos, rev)
        /\ quoted'[s] = (IF q = NoBar THEN h ELSE Append(h, q))
        /\ turns'[s] = [opened |-> turns[s].opened
                                  + (IF rev \in {"OPEN_LONG", "OPEN_SHORT"} THEN 1 ELSE 0),
                       closed |-> turns[s].closed + (IF rev = "CLOSE" THEN 1 ELSE 0)]
    BY <1>0, <1>1, AskedSymbol
  <2>2. /\ said["spike"] = Signal("spike", series["spike"][s], q, pos)
        /\ said["trend"] = Signal("trend", series["trend"][s], q, pos)
        /\ said["reversion"] = Signal("reversion", series["reversion"][s], q, pos)
    BY <1>0
  <2>3. pos \in {-1, 0, 1} /\ turns[s] \in [opened : Nat, closed : Nat]
    BY <1>1 DEF TypeOK
  <2> HIDE DEF said, pos, h
  <2>4. \/ rev = "HOLD"
        \/ rev = "CLOSE" /\ pos # 0
        \/ rev \in {"OPEN_LONG", "OPEN_SHORT"} /\ pos = 0
    BY <2>2, <2>3, ReversionTurns
  <2>5. turns'[s].opened - turns'[s].closed = (IF position'[s] = 0 THEN 0 ELSE 1)
    <3>1. turns[s].opened - turns[s].closed = (IF pos = 0 THEN 0 ELSE 1)
      BY <1>1, <1>3 DEF AnswersFit, pos
    <3> HIDE DEF rev
    <3>2. CASE rev = "HOLD"
      <4>1. position'[s] = pos
        BY <2>1, <3>2 DEF Believed
      <4> QED
        BY <2>1, <2>3, <3>1, <3>2, <4>1
    <3>3. CASE rev = "CLOSE" /\ pos # 0
      <4>1. position'[s] = 0
        BY <2>1, <3>3 DEF Believed
      <4> QED
        BY <2>1, <2>3, <3>1, <3>3, <4>1
    <3>4. CASE rev \in {"OPEN_LONG", "OPEN_SHORT"} /\ pos = 0
      <4>1. position'[s] \in {-1, 1}
        BY <2>1, <3>4 DEF Believed
      <4> QED
        BY <2>1, <2>3, <3>1, <3>4, <4>1
    <3> QED
      BY <2>4, <3>2, <3>3, <3>4
  <2>6. CASE q = NoBar
    <3>1. \A n \in {"spike", "trend", "reversion"} :
            said[n].reason = "missing_timeframe_bar" /\ said[n].decision = "HOLD"
      BY <2>2, <2>6 DEF Signal, Hold
    <3>2. ReversionSays(Front(h), Last(h), position'[s], rev)
      BY <3>1 DEF ReversionSays
    <3> QED
      BY <1>3, <2>1, <2>5, <2>6, <3>1, <3>2 DEF AnswersFit
  <2>7. CASE q \in QuoteT
    <3>1. \A n \in {"spike", "trend", "reversion"} : Window(n, series[n][s], h)
      BY <1>0 DEF QuoteInv, Windows, h
    <3>2. h \in Seq(QuoteT)
      BY <3>1 DEF Window
    <3>3. quoted'[s] = Append(h, q)
      BY <2>1, <2>7, StrategyConfig DEF QuoteT
    <3>4. Front(Append(h, q)) = h /\ Last(Append(h, q)) = q
      BY <2>7, <3>2, LastAppend
    <3>5. SpikeSays(h, q, said["spike"].decision)
      BY <2>2, <2>7, <3>1, SpikeFollows
    <3>6. TrendSays(h, q, Append(h, q)[Len(Append(h, q)) - MomentumWindow].price,
                    said["trend"].decision)
      BY <2>2, <2>7, <3>1, TrendFollows
    <3>7. ReversionSays(h, q, Believed(pos, rev), rev)
      BY <2>2, <2>3, <2>7, <3>1, ReversionFollows
    <3> QED
      BY <1>3, <2>1, <2>5, <3>3, <3>4, <3>5, <3>6, <3>7 DEF AnswersFit
  <2> QED
    BY <2>6, <2>7, QuoteTypes
<1> QED
  BY <1>2, <1>3

LEMMA ForcedKept ==
  ASSUME QuoteInv, NEW s \in Symbols, NEW q \in Quotes, Generate(s, q)
  PROVE  /\ ForcedNeverFlips'
         /\ \A t \in Symbols : held'[t] \in [long : Nat, short : Nat]
<1> SUFFICES ASSUME NEW t \in Symbols
             PROVE  /\ held'[t] \in [long : Nat, short : Nat]
                    /\ ForceDecision[t] = "OPEN_LONG" => held'[t].short = 0
                    /\ ForceDecision[t] = "OPEN_SHORT" => held'[t].long = 0
                    /\ ForceDecision[t] = "HOLD" => held'[t] = [long |-> 0, short |-> 0]
  BY DEF ForcedNeverFlips
<1>1. /\ TypeOK /\ held[t] \in [long : Nat, short : Nat]
      /\ ForceDecision[t] = "OPEN_LONG" => held[t].short = 0
      /\ ForceDecision[t] = "OPEN_SHORT" => held[t].long = 0
      /\ ForceDecision[t] = "HOLD" => held[t] = [long |-> 0, short |-> 0]
  BY DEF QuoteInv, TypeOK, ForcedNeverFlips
<1>2. CASE t # s
  BY <1>1, <1>2, OtherSymbol
<1>3. CASE t = s
  <2> DEFINE own == Signal(Enabled[s], series[Enabled[s]][s], q, position[s]).decision
  <2>1. held'[s] = Executed(s, own)
    BY <1>1, AskedSymbol
  <2>2. own \in Decisions
    <3>1. Enabled[s] \in Names /\ position[s] \in {-1, 0, 1}
      BY <1>1, StrategyConfig DEF TypeOK
    <3>2. Signal(Enabled[s], series[Enabled[s]][s], q, position[s]) \in Answer
      BY <3>1, AnswerTyped
    <3> QED
      BY <3>2 DEF Answer
  <2> HIDE DEF own
  <2> QED
    BY <1>1, <1>3, <2>1, <2>2, ExecutedSafe
<1> QED
  BY <1>2, <1>3

LEMMA TypesKept ==
  ASSUME QuoteInv, NEW s \in Symbols, NEW q \in Quotes, Generate(s, q)
  PROVE  TypeOK'
<1>1. TypeOK /\ Windows'
  BY WindowsKept DEF QuoteInv
<1>2. \A n \in Names, t \in Symbols :
        /\ series'[n][t] \in SeriesT /\ quoted'[t] \in Seq(QuoteT)
        /\ Len(series'[n][t].prices) <= MaxLen[n] /\ Len(series'[n][t].volumes) <= MaxLen[n]
  <2> SUFFICES ASSUME NEW n \in Names, NEW t \in Symbols
               PROVE  /\ series'[n][t] \in SeriesT /\ quoted'[t] \in Seq(QuoteT)
                      /\ Len(series'[n][t].prices) <= MaxLen[n]
                      /\ Len(series'[n][t].volumes) <= MaxLen[n]
    OBVIOUS
  <2>1. Window(n, series'[n][t], quoted'[t])
    BY <1>1 DEF Windows
  <2>2. /\ series'[n][t] \in SeriesT /\ quoted'[t] \in Seq(QuoteT)
        /\ Len(series'[n][t].prices) = (IF Len(quoted'[t]) < MaxLen[n]
                                        THEN Len(quoted'[t]) ELSE MaxLen[n])
        /\ Len(series'[n][t].volumes) <= MaxLen[n]
    BY <2>1 DEF Window
  <2>3. Len(quoted'[t]) \in Nat /\ MaxLen[n] \in Nat
    BY <2>2, Lengths
  <2> QED
    BY <2>2, <2>3
<1>3. /\ DOMAIN series' = Names /\ series' = [n \in Names |-> series'[n]]
      /\ \A n \in Names : series'[n] = [t \in Symbols |-> series'[n][t]]
  BY <1>1 DEF TypeOK, Generate
<1>4. /\ signals' = [n \in Names |-> signals'[n]]
      /\ \A n \in Names : signals'[n] = [t \in Symbols |-> signals'[n][t]]
  BY <1>1 DEF TypeOK, Generate
<1>5. /\ position' = [t \in Symbols |-> position'[t]]
      /\ held' = [t \in Symbols |-> held'[t]]
      /\ quoted' = [t \in Symbols |-> quoted'[t]]
      /\ turns' = [t \in Symbols |-> turns'[t]]
  <2>1. position' = [t \in Symbols |-> position'[t]]
    <3>1. position = [t \in Symbols |-> position[t]]
      BY <1>1 DEF TypeOK
    <3>2. \E x : position' = [position EXCEPT ![s] = x]
      BY DEF Generate
    <3> QED
      BY <3>1, <3>2
  <2>2. held' = [t \in Symbols |-> held'[t]]
    <3>1. held = [t \in Symbols |-> held[t]]
      BY <1>1 DEF TypeOK
    <3>2. \E x : held' = [held EXCEPT ![s] = x]
      BY DEF Generate
    <3> QED
      BY <3>1, <3>2
  <2>3. turns' = [t \in Symbols |-> turns'[t]]
    <3>1. turns = [t \in Symbols |-> turns[t]]
      BY <1>1 DEF TypeOK
    <3>2. \E x : turns' = [turns EXCEPT ![s] = x]
      BY DEF Generate
    <3> QED
      BY <3>1, <3>2
  <2>4. quoted' = [t \in Symbols |-> quoted'[t]]
    <3>1. quoted = [t \in Symbols |-> quoted[t]]
      BY <1>1 DEF TypeOK
    <3>2. quoted' = quoted \/ quoted' = [quoted EXCEPT ![s] = Append(@, q)]
      BY DEF Generate
    <3> QED
      BY <3>1, <3>2
  <2> QED
    BY <2>1, <2>2, <2>3, <2>4
<1>6. \A t \in Symbols : held'[t] \in [long : Nat, short : Nat]
  BY ForcedKept
<1>7. \A n \in Names, t \in Symbols : signals'[n][t] \in Answer
  <2> SUFFICES ASSUME NEW n \in Names, NEW t \in Symbols PROVE signals'[n][t] \in Answer
    OBVIOUS
  <2>1. signals[n][t] \in Answer /\ position[s] \in {-1, 0, 1}
    BY <1>1 DEF TypeOK, Answer
  <2>2. CASE t # s
    BY <1>1, <2>1, <2>2, OtherSymbol
  <2>3. CASE t = s
    <3>1. signals'[n][s] = Signal(n, series[n][s], q, position[s])
      BY <1>1, AskedSymbol
    <3>2. Signal(n, series[n][s], q, position[s]) \in Answer
      BY <2>1, AnswerTyped
    <3> QED
      BY <2>3, <3>1, <3>2
  <2> QED
    BY <2>2, <2>3
<1>8. \A t \in Symbols : position'[t] \in {-1, 0, 1} /\ turns'[t] \in [opened : Nat, closed : Nat]
  <2> SUFFICES ASSUME NEW t \in Symbols
               PROVE  position'[t] \in {-1, 0, 1} /\ turns'[t] \in [opened : Nat, closed : Nat]
    OBVIOUS
  <2>1. position[t] \in {-1, 0, 1} /\ turns[t] \in [opened : Nat, closed : Nat]
    BY <1>1 DEF TypeOK
  <2>2. CASE t # s
    BY <1>1, <2>1, <2>2, OtherSymbol
  <2>3. CASE t = s
    <3> DEFINE turn == Signal("reversion", series["reversion"][s], q, position[s]).decision
    <3>1. /\ position'[s] = Believed(position[s], turn)
          /\ turns'[s] =
               [opened |-> turns[s].opened
                             + (IF turn \in {"OPEN_LONG", "OPEN_SHORT"} THEN 1 ELSE 0),
                closed |-> turns[s].closed + (IF turn = "CLOSE" THEN 1 ELSE 0)]
      BY <1>1, AskedSymbol
    <3> HIDE DEF turn
    <3>2. position'[s] \in {-1, 0, 1}
      BY <2>1, <2>3, <3>1 DEF Believed
    <3> QED
      BY <2>1, <2>3, <3>1, <3>2
  <2> QED
    BY <2>2, <2>3
<1>9. series' \in [Names -> [Symbols -> SeriesT]]
  BY <1>2, <1>3
<1>10. signals' \in [Names -> [Symbols -> Answer]]
  BY <1>4, <1>7
<1>11. /\ position' \in [Symbols -> {-1, 0, 1}]
       /\ held' \in [Symbols -> [long : Nat, short : Nat]]
       /\ turns' \in [Symbols -> [opened : Nat, closed : Nat]]
  BY <1>5, <1>6, <1>8
<1>12. quoted' \in [Symbols -> Seq(QuoteT)]
  <2>1. "spike" \in Names
    BY DEF Names
  <2> QED
    BY <1>2, <1>5, <2>1
<1> QED
  BY <1>2, <1>9, <1>10, <1>11, <1>12 DEF TypeOK, SeriesT, QuoteT, Answer

LEMMA QuotesInit == Init => QuoteInv
<1> SUFFICES ASSUME Init PROVE QuoteInv
  OBVIOUS
<1>1. EmptySeries \in SeriesT /\ EmptySeries.prices = <<>> /\ EmptySeries.volumes = <<>>
  BY DEF EmptySeries, SeriesT
<1>2. TypeOK
  <2>1. \A n \in Names : MaxLen[n] \in Nat
    BY Lengths
  <2>2. Len(EmptySeries.prices) = 0 /\ Len(EmptySeries.volumes) = 0
    BY <1>1
  <2>3. /\ series \in [Names -> [Symbols -> SeriesT]]
        /\ \A n \in Names, s \in Symbols : series[n][s] = EmptySeries
    BY <1>1 DEF Init
  <2>4. \A n \in Names, s \in Symbols :
          Len(series[n][s].prices) <= MaxLen[n] /\ Len(series[n][s].volumes) <= MaxLen[n]
    BY <2>1, <2>2, <2>3
  <2>5. Hold("none") \in [decision : Decisions, reason : Reasons]
    BY DEF Hold, Decisions, Reasons
  <2>6. signals \in [Names -> [Symbols -> [decision : Decisions, reason : Reasons]]]
    BY <2>5 DEF Init
  <2>7. /\ position \in [Symbols -> {-1, 0, 1}]
        /\ held \in [Symbols -> [long : Nat, short : Nat]]
        /\ turns \in [Symbols -> [opened : Nat, closed : Nat]]
        /\ quoted \in [Symbols -> Seq([price : Nat, volume : Nat \cup {NoVolume}])]
    BY DEF Init
  <2> QED
    BY <2>3, <2>4, <2>6, <2>7 DEF TypeOK, SeriesT
<1>3. Windows
  <2> SUFFICES ASSUME NEW n \in Names, NEW s \in Symbols
               PROVE  Window(n, series[n][s], quoted[s])
    BY DEF Windows
  <2>1. series[n][s] = EmptySeries /\ quoted[s] = <<>>
    BY DEF Init
  <2>2. MaxLen[n] \in Nat \ {0}
    BY Lengths
  <2>3. Window(n, EmptySeries, <<>>)
    <3>1. \A m \in 0..MaxLen[n] : Complete(<<>>, m) => m = 0
      BY <2>2 DEF Complete
    <3>2. Prices(<<>>) \in Seq(Nat) /\ Len(Prices(<<>>)) = 0 /\ <<>> \in Seq(QuoteT)
      <4> DEFINE e == <<>>
      <4>1. e \in Seq(QuoteT) /\ Len(e) = 0
        OBVIOUS
      <4> HIDE DEF e
      <4>2. Prices(e) \in Seq(Nat) /\ Len(Prices(e)) = 0 /\ e \in Seq(QuoteT)
        BY <4>1, PricesAre
      <4> QED
        BY <4>2, Zenon DEF e
    <3>3. EndsWith(<<>>, Prices(<<>>)) /\ EndsWith(<<>>, <<>>)
      BY <3>2 DEF EndsWith
    <3>4. /\ Len(EmptySeries.prices) = (IF Len(<<>>) < MaxLen[n] THEN Len(<<>>) ELSE MaxLen[n])
          /\ Len(EmptySeries.volumes) = 0 /\ Len(EmptySeries.volumes) <= MaxLen[n]
      <4>1. Len(EmptySeries.prices) = 0 /\ Len(EmptySeries.volumes) = 0 /\ Len(<<>>) = 0
        BY <1>1
      <4>2. 0 < MaxLen[n] /\ 0 <= MaxLen[n]
        BY <2>2
      <4> QED
        BY <4>1, <4>2
    <3>5. KnownVolumes(<<>>) = <<>> /\ KnownVolumes(<<>>) \in Seq(Nat)
      <4>1. <<>> \in Seq(Nat)
        OBVIOUS
      <4> QED
        BY <4>1, KnownEmpty, Zenon
    <3>6. \A m \in 0..MaxLen[n] : Complete(<<>>, m) => Len(EmptySeries.volumes) >= m
      BY <2>2, <3>1, <3>4
    <3>7. EndsWith(EmptySeries.prices, Prices(<<>>)) /\ EndsWith(EmptySeries.volumes, KnownVolumes(<<>>))
      BY <1>1, <3>3, <3>5
    <3> QED
      BY <1>1, <3>2, <3>4, <3>5, <3>6, <3>7 DEF Window
  <2> QED
    BY <2>1, <2>3
<1>4. SaidFits
  <2> SUFFICES ASSUME NEW s \in Symbols
               PROVE  AnswersFit(quoted[s], signals["spike"][s], signals["trend"][s],
                                 signals["reversion"][s], position[s], turns[s])
    BY DEF SaidFits
  <2>1. /\ quoted[s] = <<>> /\ position[s] = 0 /\ turns[s] = [opened |-> 0, closed |-> 0]
        /\ signals["reversion"][s].decision = "HOLD"
    BY DEF Init, Names, Hold
  <2>2. ReversionSays(Front(quoted[s]), Last(quoted[s]), position[s],
                      signals["reversion"][s].decision)
    BY <2>1 DEF ReversionSays
  <2> QED
    BY <2>1, <2>2 DEF AnswersFit
<1>5. ForcedNeverFlips
  BY DEF Init, ForcedNeverFlips
<1> QED
  BY <1>2, <1>3, <1>4, <1>5 DEF QuoteInv

LEMMA QuotesNext == QuoteInv /\ [Next]_vars => QuoteInv'
<1> SUFFICES ASSUME QuoteInv, [Next]_vars PROVE QuoteInv'
  OBVIOUS
<1>1. ASSUME NEW s \in Symbols, NEW q \in Quotes, Generate(s, q) PROVE QuoteInv'
  BY <1>1, TypesKept, WindowsKept, FitsKept, ForcedKept DEF QuoteInv
<1>2. CASE UNCHANGED vars
  <2>1. TypeOK' /\ Windows' /\ ForcedNeverFlips'
    BY <1>2 DEF QuoteInv, TypeOK, Windows, ForcedNeverFlips, vars
  <2>2. SaidFits'
    BY <1>2 DEF QuoteInv, SaidFits, vars
  <2> QED
    BY <2>1, <2>2 DEF QuoteInv
<1> QED
  BY <1>1, <1>2 DEF Next

\* strategies/volume: the windows stay within their maxlen, and every state has its type.
THEOREM StrategiesTypeCorrect == Spec => []TypeOK
<1>1. QuoteInv => TypeOK
  BY DEF QuoteInv
<1> QED
  BY <1>1, QuotesInit, QuotesNext, PTL DEF Spec

\* generate of VolumeSpikeBreakout, VolumeTrendFilter and VolumeMAReversion: each says
\* what the quotes themselves call for, whatever they lacked, with any windows.
THEOREM StrategiesSignalsFollowQuotes == Spec => []SignalsFollowQuotes
<1>1. QuoteInv => SignalsFollowQuotes
  BY FitsMeaning DEF QuoteInv
<1> QED
  BY <1>1, QuotesInit, QuotesNext, PTL DEF Spec

\* ParametrizedStrategy and ExecutionEngine: an opening forced on one side is never
\* traded on the other, whatever the strategy it replaces would have opened.
THEOREM StrategiesForcedNeverFlips == Spec => []ForcedNeverFlips
<1>1. QuoteInv => ForcedNeverFlips
  BY DEF QuoteInv
<1> QED
  BY <1>1, QuotesInit, QuotesNext, PTL DEF Spec
===============================================================================
