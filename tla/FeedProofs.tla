------------------------------ MODULE FeedProofs ------------------------------
(***************************************************************************)
(* Theorems about the market feed: no traded unit is published twice       *)
(* whatever the two threads stored during warmup, but for what a missing   *)
(* volume makes the feed count again; a session has its quotes; and an API *)
(* nobody borrowed is closed once.  For any symbols and any volumes.       *)
(***************************************************************************)
EXTENDS MarketFeed, TLAPS

(***************************************************************************)
(* The inductive invariant.                                                *)
(***************************************************************************)

Warming == {"wait", "read", "delta", "store", "publish"}

Working(t) == at[t] \in {"delta", "store", "publish"}

QuoteTypeOK ==
  /\ latest \subseteq Symbols
  /\ raw \in [Symbols -> Nat] /\ traded \in [Symbols -> Nat] /\ counted \in [Symbols -> Nat]
  /\ hidden \in [Symbols -> Nat]
  /\ lastRaw \in [Symbols -> Nat \cup {None}]
  /\ cur \in [Threads -> [sym : Symbols \cup {NextOf(Symbols)}, volume : Nat, delta : Nat]]

PlaceTypeOK ==
  /\ at \in [Threads -> Statements]
  /\ todo \in [Threads -> SUBSET Symbols]
  /\ fresh \in BOOLEAN /\ warmed \in BOOLEAN
  /\ \A t \in Threads : Working(t) => cur[t].sym \in Symbols

\* A poll that counts began after warmup, when the main thread polls no more.
Phases ==
  /\ warmed => at["main"] \notin Warming
  /\ fresh => warmed
  /\ ~warmed => \A s \in Symbols : counted[s] = 0

\* What may be counted of s: the units traded, and the volume its quote stood at
\* each time it went blank, which the poll after the gap counts again.
Supply(s) == traded[s] + hidden[s]

\* The part of it not counted yet.
Left(s) == Supply(s) - counted[s]

\* The quote stands at most the units not counted yet beyond whatever volume of it
\* was ever read: the stored one, and the one a thread holds.  Of a blank quote 0 is
\* read, so all it stands at is still to count.
Counting ==
  \A s \in Symbols :
    /\ counted[s] <= Supply(s)
    /\ s \in blank => raw[s] <= Left(s)
    /\ lastRaw[s] # None => raw[s] - lastRaw[s] <= Left(s)
    /\ \A t \in Threads :
         Working(t) /\ cur[t].sym = s => raw[s] - cur[t].volume <= Left(s)

\* Before a poll that counts has its difference, the volume it read is ahead of
\* the stored one by uncounted units only; after that, the difference is.
Pending(s) ==
  /\ at["loop"] = "delta" /\ lastRaw[s] # None =>
       /\ cur["loop"].volume - lastRaw[s] <= Left(s)
       /\ s \in blank => raw[s] + cur["loop"].volume - lastRaw[s] <= Left(s)
  /\ at["loop"] \in {"store", "publish"} =>
       /\ cur["loop"].delta <= Left(s)
       /\ raw[s] - cur["loop"].volume + cur["loop"].delta <= Left(s)
       /\ s \in blank => raw[s] + cur["loop"].delta <= Left(s)
  /\ at["loop"] = "publish" => lastRaw[s] = cur["loop"].volume

FreshPoll == fresh /\ Working("loop") => Pending(cur["loop"].sym)

CountInv == QuoteTypeOK /\ PlaceTypeOK /\ Phases /\ Counting /\ FreshPoll

\* The API is the feed's, or held by close(), or closed.
ApiOnce ==
  /\ mdApi \in BOOLEAN /\ mdThread \in BOOLEAN /\ apiCloses \in Nat
  /\ brokerApi \in BOOLEAN /\ borrowed \in BOOLEAN /\ (brokerApi => borrowed)
  /\ held \in [api : BOOLEAN, thread : BOOLEAN]
  /\ at["main"] \in Warming \cup {"session", "closeBroker"} => mdApi
  /\ at["main"] \in {"join", "closeApi", "gone"} => ~mdApi
  /\ ~borrowed =>
       apiCloses = IF mdApi \/ (at["main"] \in {"join", "closeApi"} /\ held.api)
                   THEN 0 ELSE 1

\* The thread is let go together with the API, and joined before it is closed.
LoopOver == at["loop"] \in {"off", "ended"}

Joined ==
  /\ ~Background => at["loop"] = "off"
  /\ mdApi => mdThread = Background
  /\ at["main"] \in {"join", "closeApi"} /\ held.api => held.thread = Background
  /\ ~JoinExpires /\ at["main"] = "closeApi" /\ held.api => LoopOver
  /\ ~JoinExpires /\ ~borrowed /\ apiCloses > 0 => LoopOver


(***************************************************************************)
(* Counting.                                                               *)
(***************************************************************************)

LEMMA NextIn == ASSUME NEW S, S # {} PROVE NextOf(S) \in S
BY DEF NextOf

\* The numbers behind the invariant.
LEMMA Numbers ==
  ASSUME QuoteTypeOK, NEW s \in Symbols
  PROVE  /\ raw[s] \in Nat /\ Supply(s) \in Nat /\ counted[s] \in Nat
         /\ lastRaw[s] # None => lastRaw[s] \in Nat
         /\ \A t \in Threads : cur[t].volume \in Nat /\ cur[t].delta \in Nat
BY DEF QuoteTypeOK, Supply

LEMMA InitCount == Init => CountInv
<1> SUFFICES ASSUME Init PROVE CountInv
  OBVIOUS
<1>1. FirstVolumes \subseteq Nat
  BY FeedConfig
<1>2. NoQuote \in [sym : Symbols \cup {NextOf(Symbols)}, volume : Nat, delta : Nat]
  BY DEF NoQuote
<1>3. QuoteTypeOK
  BY <1>1, <1>2 DEF Init, QuoteTypeOK, None
<1>4. at["main"] = "wait" /\ at["loop"] \in {"top", "off"}
  BY DEF Init
<1>5. PlaceTypeOK
  BY <1>4 DEF Init, PlaceTypeOK, Threads, Statements, Working
<1>6. Phases
  BY DEF Init, Phases
<1>7. Counting /\ FreshPoll
  BY <1>4 DEF Init, Counting, FreshPoll, Working, Threads, Supply
<1> QED
  BY <1>3, <1>5, <1>6, <1>7 DEF CountInv

\* A quote that trades is further ahead by what was traded; one that starts again
\* at zero is ahead of nothing; one that goes blank has all it stands at to count.
LEMMA ApiSupply ==
  ASSUME CountInv, Api
  PROVE  /\ raw' \in [Symbols -> Nat] /\ traded' \in [Symbols -> Nat]
         /\ hidden' \in [Symbols -> Nat]
         /\ \A a \in Symbols :
              /\ Supply(a) <= Supply(a)'
              /\ raw'[a] = 0 \/ raw'[a] - raw[a] <= Supply(a)' - Supply(a)
              /\ a \in blank' => a \in blank \/ raw'[a] <= Supply(a)' - Supply(a)
<1>1. PICK s \in Symbols :
        \/ QuoteAppears(s) \/ QuoteTrades(s) \/ QuoteResets(s)
        \/ VolumeGoesBlank(s) \/ VolumeReturns(s)
  BY DEF Api
<1>2. \A a \in Symbols : raw[a] \in Nat /\ traded[a] \in Nat /\ hidden[a] \in Nat
  BY DEF CountInv, QuoteTypeOK
<1>3. CASE QuoteAppears(s) \/ VolumeReturns(s)
  BY <1>2, <1>3 DEF QuoteAppears, VolumeReturns, CountInv, QuoteTypeOK, Supply
<1>4. CASE QuoteTrades(s)
  BY <1>2, <1>4 DEF QuoteTrades, CountInv, QuoteTypeOK, Supply
<1>5. CASE QuoteResets(s)
  BY <1>2, <1>5 DEF QuoteResets, CountInv, QuoteTypeOK, Supply
<1>6. CASE VolumeGoesBlank(s)
  <2>1. /\ UNCHANGED <<raw, traded>> /\ blank' = blank \cup {s}
        /\ hidden' = [hidden EXCEPT ![s] = @ + raw[s]]
    BY <1>6 DEF VolumeGoesBlank
  <2>2. /\ hidden' \in [Symbols -> Nat] /\ hidden'[s] = hidden[s] + raw[s]
        /\ \A a \in Symbols : a # s => hidden'[a] = hidden[a]
    BY <1>2, <2>1 DEF CountInv, QuoteTypeOK
  <2>3. ASSUME NEW a \in Symbols
        PROVE  /\ Supply(a) <= Supply(a)'
               /\ raw'[a] - raw[a] <= Supply(a)' - Supply(a)
               /\ a \in blank' => a \in blank \/ raw'[a] <= Supply(a)' - Supply(a)
    <3>1. CASE a = s
      BY <1>2, <2>1, <2>2, <3>1 DEF Supply
    <3>2. CASE a # s
      BY <1>2, <2>1, <2>2, <3>2 DEF Supply
    <3> QED
      BY <3>1, <3>2
  <2> QED
    BY <2>1, <2>2, <2>3 DEF CountInv, QuoteTypeOK
<1> QED
  BY <1>1, <1>3, <1>4, <1>5, <1>6

LEMMA ApiCount ==
  ASSUME CountInv, Api
  PROVE  CountInv'
<1>1. UNCHANGED <<cacheVars, at, todo, cur, fresh, warmed>>
  BY DEF Api
<1>2. ASSUME NEW a \in Symbols
      PROVE  /\ raw[a] \in Nat /\ raw'[a] \in Nat /\ counted[a] \in Nat
             /\ Supply(a) \in Nat /\ Supply(a)' \in Nat
             /\ lastRaw[a] # None => lastRaw[a] \in Nat
             /\ \A t \in Threads : cur[t].volume \in Nat /\ cur[t].delta \in Nat
  <2>1. raw'[a] \in Nat /\ Supply(a)' \in Nat
    BY ApiSupply DEF Supply
  <2> QED
    BY <2>1, Numbers DEF CountInv
<1>3. QuoteTypeOK' /\ PlaceTypeOK' /\ Phases'
  BY <1>1, ApiSupply DEF CountInv, QuoteTypeOK, PlaceTypeOK, Phases, cacheVars, Working
<1>4. Counting'
  <2> SUFFICES ASSUME NEW a \in Symbols
               PROVE  /\ counted[a] <= Supply(a)'
                      /\ a \in blank' => raw'[a] <= Supply(a)' - counted[a]
                      /\ lastRaw[a] # None => raw'[a] - lastRaw[a] <= Supply(a)' - counted[a]
                      /\ \A t \in Threads :
                           Working(t) /\ cur[t].sym = a =>
                             raw'[a] - cur[t].volume <= Supply(a)' - counted[a]
    BY <1>1 DEF Counting, Left, Working, cacheVars
  <2>1. /\ Supply(a) <= Supply(a)'
        /\ raw'[a] = 0 \/ raw'[a] - raw[a] <= Supply(a)' - Supply(a)
        /\ a \in blank' => a \in blank \/ raw'[a] <= Supply(a)' - Supply(a)
    BY ApiSupply
  <2>2. /\ counted[a] <= Supply(a)
        /\ a \in blank => raw[a] <= Supply(a) - counted[a]
        /\ lastRaw[a] # None => raw[a] - lastRaw[a] <= Supply(a) - counted[a]
        /\ \A t \in Threads :
             Working(t) /\ cur[t].sym = a => raw[a] - cur[t].volume <= Supply(a) - counted[a]
    BY DEF CountInv, Counting, Left
  <2>3. counted[a] <= Supply(a)'
    BY <1>2, <2>1, <2>2
  <2>4. ASSUME a \in blank' PROVE raw'[a] <= Supply(a)' - counted[a]
    BY <1>2, <2>1, <2>2, <2>3, <2>4
  <2>5. ASSUME lastRaw[a] # None
        PROVE  raw'[a] - lastRaw[a] <= Supply(a)' - counted[a]
    BY <1>2, <2>1, <2>2, <2>3, <2>5
  <2>6. ASSUME NEW t \in Threads, Working(t), cur[t].sym = a
        PROVE  raw'[a] - cur[t].volume <= Supply(a)' - counted[a]
    BY <1>2, <2>1, <2>2, <2>3, <2>6
  <2> QED
    BY <2>3, <2>4, <2>5, <2>6
<1>5. FreshPoll'
  <2> SUFFICES ASSUME fresh, Working("loop")
               PROVE  Pending(cur["loop"].sym)'
    BY <1>1 DEF FreshPoll, Working
  <2> DEFINE a == cur["loop"].sym
             v == cur["loop"].volume
             d == cur["loop"].delta
  <2>1. a \in Symbols /\ a' = a /\ v' = v /\ d' = d /\ at' = at
          /\ lastRaw' = lastRaw /\ counted' = counted
    BY <1>1 DEF CountInv, PlaceTypeOK, Threads, cacheVars
  <2>2. /\ raw[a] \in Nat /\ raw'[a] \in Nat /\ counted[a] \in Nat
        /\ Supply(a) \in Nat /\ Supply(a)' \in Nat
        /\ lastRaw[a] # None => lastRaw[a] \in Nat
        /\ v \in Nat /\ d \in Nat
    BY <1>2, <2>1 DEF Threads
  <2>3. Pending(a)
    BY DEF CountInv, FreshPoll
  <2>4. /\ Supply(a) <= Supply(a)'
        /\ raw'[a] = 0 \/ raw'[a] - raw[a] <= Supply(a)' - Supply(a)
        /\ a \in blank' => a \in blank \/ raw'[a] <= Supply(a)' - Supply(a)
    BY <2>1, ApiSupply
  <2> HIDE DEF a, v, d
  <2>5. Left(a)' = Supply(a)' - counted[a] /\ Left(a) = Supply(a) - counted[a]
    BY <2>1 DEF Left
  <2>6. ASSUME at["loop"] = "delta", lastRaw[a] # None
        PROVE  /\ v - lastRaw[a] <= Left(a)'
               /\ a \in blank' => raw'[a] + v - lastRaw[a] <= Left(a)'
    <3>1. /\ v - lastRaw[a] <= Supply(a) - counted[a]
          /\ a \in blank => raw[a] + v - lastRaw[a] <= Supply(a) - counted[a]
      BY <2>3, <2>5, <2>6 DEF Pending, a, v
    <3> QED
      BY <2>2, <2>4, <2>5, <2>6, <3>1
  <2>7. ASSUME at["loop"] \in {"store", "publish"}
        PROVE  /\ d <= Left(a)' /\ raw'[a] - v + d <= Left(a)'
               /\ a \in blank' => raw'[a] + d <= Left(a)'
    <3>1. /\ d <= Supply(a) - counted[a] /\ raw[a] - v + d <= Supply(a) - counted[a]
          /\ a \in blank => raw[a] + d <= Supply(a) - counted[a]
      BY <2>3, <2>5, <2>7 DEF Pending, a, v, d
    <3> QED
      BY <2>2, <2>4, <2>5, <3>1
  <2>8. at["loop"] = "publish" => lastRaw[a] = v
    BY <2>3 DEF Pending, a, v
  <2> QED
    BY <2>1, <2>6, <2>7, <2>8 DEF Pending, a, v, d
<1> QED
  BY <1>3, <1>4, <1>5 DEF CountInv

\* Steps that neither read a volume nor publish one, and begin no poll that counts.
LEMMA QuietCount ==
  ASSUME CountInv, UNCHANGED <<quoteVars, lastRaw, counted, cur>>, PlaceTypeOK', Phases',
         latest' \subseteq Symbols,
         \A t \in Threads : Working(t)' => at'[t] = at[t],
         fresh' /\ Working("loop")' => fresh
  PROVE  CountInv'
<1>1. QuoteTypeOK'
  BY DEF CountInv, QuoteTypeOK, quoteVars
<1>2. \A t \in Threads : Working(t)' => Working(t) /\ at'[t] = at[t]
  BY DEF Working
<1>3. Counting'
  BY <1>2 DEF CountInv, Counting, Left, Supply, quoteVars
<1>4. FreshPoll'
  <2> SUFFICES ASSUME fresh', Working("loop")'
               PROVE  Pending(cur["loop"].sym)'
    BY DEF FreshPoll
  <2>1. fresh /\ Working("loop") /\ at'["loop"] = at["loop"]
    BY <1>2 DEF Threads
  <2> QED
    BY <2>1 DEF CountInv, FreshPoll, Pending, Left, Supply, quoteVars
<1> QED
  BY <1>1, <1>3, <1>4 DEF CountInv

LEMMA GoneTo ==
  ASSUME PlaceTypeOK, NEW t \in Threads, NEW w \in Statements, Goto(t, w)
  PROVE  /\ at' \in [Threads -> Statements] /\ at'[t] = w
         /\ \A u \in Threads : u # t => at'[u] = at[u]
BY DEF PlaceTypeOK, Goto

\* The main thread polls only during warmup, so a poll that counts is the loop's.
LEMMA MainUncounted ==
  ASSUME Phases, Working("main")
  PROVE  ~warmed /\ ~fresh
BY DEF Phases, Working, Warming

LEMMA ReadCount ==
  ASSUME CountInv, NEW t \in Threads, Read(t)
  PROVE  CountInv'
<1> DEFINE s == NextOf(todo[t])
<1>1. /\ at[t] = "read" /\ s \in Symbols
      /\ todo' = [todo EXCEPT ![t] = @ \ {s}]
      /\ UNCHANGED <<quoteVars, cacheVars, fresh, warmed>>
  BY NextIn DEF Read, CountInv, PlaceTypeOK
<1>2. todo' \in [Threads -> SUBSET Symbols]
  BY <1>1 DEF CountInv, PlaceTypeOK
<1>3. CASE s \notin priced
  <2>1. UNCHANGED <<cur, at>>
    BY <1>3 DEF Read
  <2>2. PlaceTypeOK' /\ Phases'
    BY <1>1, <1>2, <2>1 DEF CountInv, PlaceTypeOK, Phases, Working, cacheVars
  <2> QED
    BY <1>1, <2>1, <2>2, QuietCount DEF CountInv, QuoteTypeOK, cacheVars
<1>4. CASE s \in priced
  <2> DEFINE v == VolumeRead(s)
  <2>1. /\ cur' = [cur EXCEPT ![t] = [sym |-> s, volume |-> v, delta |-> 0]]
        /\ Goto(t, "delta")
    BY <1>4 DEF Read
  <2> HIDE DEF s
  <2>2. /\ at' \in [Threads -> Statements] /\ at'[t] = "delta"
        /\ \A u \in Threads : u # t => at'[u] = at[u]
    BY <2>1, GoneTo DEF CountInv, Statements
  <2>3. /\ raw[s] \in Nat /\ Supply(s) \in Nat /\ counted[s] \in Nat
        /\ lastRaw[s] # None => lastRaw[s] \in Nat
    BY <1>1, Numbers DEF CountInv
  <2>11. /\ v \in Nat
         /\ IF s \in blank THEN v = 0 ELSE v = raw[s]
    BY <2>3 DEF VolumeRead
  <2>12. /\ counted[s] <= Supply(s)
         /\ s \in blank => raw[s] <= Supply(s) - counted[s]
         /\ lastRaw[s] # None => raw[s] - lastRaw[s] <= Supply(s) - counted[s]
    BY <1>1 DEF CountInv, Counting, Left
  <2> HIDE DEF v
  <2>4. [sym |-> s, volume |-> v, delta |-> 0]
          \in [sym : Symbols \cup {NextOf(Symbols)}, volume : Nat, delta : Nat]
    BY <1>1, <2>11
  <2>5. QuoteTypeOK'
    BY <1>1, <2>1, <2>4 DEF CountInv, QuoteTypeOK, quoteVars, cacheVars
  <2>6. /\ cur'[t] = [sym |-> s, volume |-> v, delta |-> 0]
        /\ \A u \in Threads : u # t => cur'[u] = cur[u]
    BY <2>1 DEF CountInv, QuoteTypeOK
  <2>7. PlaceTypeOK'
    BY <1>1, <1>2, <2>2, <2>6 DEF CountInv, PlaceTypeOK, Working
  <2>8. Phases'
    BY <1>1, <2>2 DEF CountInv, Phases, Warming, cacheVars, Threads
  <2>9. Counting'
    <3> SUFFICES ASSUME NEW a \in Symbols, NEW u \in Threads, Working(u)', cur'[u].sym = a
                 PROVE  raw[a] - cur'[u].volume <= Supply(a) - counted[a]
      BY <1>1 DEF CountInv, Counting, Left, Supply, quoteVars, cacheVars
    <3>1. CASE u = t
      <4>1. a = s /\ cur'[u].volume = v
        BY <2>6, <3>1
      <4> QED
        BY <2>3, <2>11, <2>12, <4>1
    <3>2. CASE u # t
      BY <2>2, <2>6, <3>2 DEF CountInv, Counting, Left, Supply, Working
    <3> QED
      BY <3>1, <3>2
  <2>10. FreshPoll'
    <3> SUFFICES ASSUME fresh, Working("loop")'
                 PROVE  Pending(cur["loop"].sym)'
      BY <1>1 DEF FreshPoll
    <3>1. CASE t = "loop"
      <4>1. ASSUME lastRaw[s] # None
            PROVE  /\ v - lastRaw[s] <= Supply(s) - counted[s]
                   /\ s \in blank => raw[s] + v - lastRaw[s] <= Supply(s) - counted[s]
        BY <2>3, <2>11, <2>12, <4>1
      <4>2. /\ at'["loop"] = "delta"
            /\ cur'["loop"].sym = s /\ cur'["loop"].volume = v
            /\ UNCHANGED <<lastRaw, raw, blank, traded, hidden, counted>>
        BY <1>1, <2>2, <2>6, <3>1 DEF quoteVars, cacheVars
      <4> QED
        BY <4>1, <4>2 DEF Pending, Left, Supply
    <3>2. CASE t # "loop"
      <4>1. at'["loop"] = at["loop"] /\ cur'["loop"] = cur["loop"]
        BY <2>2, <2>6, <3>2 DEF Threads
      <4> QED
        BY <1>1, <4>1 DEF CountInv, FreshPoll, Working, Pending, Left, Supply, quoteVars, cacheVars
    <3> QED
      BY <3>1, <3>2
  <2> QED
    BY <2>5, <2>7, <2>8, <2>9, <2>10 DEF CountInv
<1> QED
  BY <1>3, <1>4

LEMMA DeltaCount ==
  ASSUME CountInv, NEW t \in Threads, ComputeDelta(t)
  PROVE  CountInv'
<1> DEFINE s == cur[t].sym
           v == cur[t].volume
           d == Delta(v, lastRaw[s])
<1>1. /\ at[t] = "delta" /\ Goto(t, "store")
      /\ cur' = [cur EXCEPT ![t].delta = d]
      /\ UNCHANGED <<quoteVars, cacheVars, todo, fresh, warmed>>
  BY DEF ComputeDelta
<1>2. s \in Symbols
  BY <1>1 DEF CountInv, PlaceTypeOK, Working
<1>3. /\ raw[s] \in Nat /\ Supply(s) \in Nat /\ counted[s] \in Nat
      /\ lastRaw[s] # None => lastRaw[s] \in Nat
      /\ v \in Nat
  BY <1>2, Numbers DEF CountInv
<1>4. d \in Nat
  BY <1>3 DEF Delta
<1>5. /\ at' \in [Threads -> Statements] /\ at'[t] = "store"
      /\ \A u \in Threads : u # t => at'[u] = at[u]
  BY <1>1, GoneTo DEF CountInv, Statements
<1>6. /\ cur' \in [Threads -> [sym : Symbols \cup {NextOf(Symbols)}, volume : Nat, delta : Nat]]
      /\ cur'[t].sym = s /\ cur'[t].volume = v /\ cur'[t].delta = d
      /\ \A u \in Threads : u # t => cur'[u] = cur[u]
  BY <1>1, <1>4 DEF CountInv, QuoteTypeOK
<1>7. QuoteTypeOK'
  BY <1>1, <1>6 DEF CountInv, QuoteTypeOK, quoteVars, cacheVars
<1>8. PlaceTypeOK'
  BY <1>1, <1>2, <1>5, <1>6 DEF CountInv, PlaceTypeOK, Working
<1>9. Phases'
  BY <1>1, <1>5 DEF CountInv, Phases, Warming, cacheVars, Threads
<1>10. Counting'
  <2>1. \A u \in Threads :
          /\ cur'[u].sym = cur[u].sym /\ cur'[u].volume = cur[u].volume
          /\ Working(u)' => Working(u)
    BY <1>1, <1>5, <1>6 DEF Working
  <2> QED
    BY <1>1, <2>1 DEF CountInv, Counting, Left, Supply, quoteVars, cacheVars
<1>11. FreshPoll'
  <2> SUFFICES ASSUME fresh, Working("loop")'
               PROVE  Pending(cur["loop"].sym)'
    BY <1>1 DEF FreshPoll
  <2>1. CASE t = "loop"
    <3>1. /\ counted[s] <= Supply(s)
          /\ raw[s] - v <= Supply(s) - counted[s]
          /\ s \in blank => raw[s] <= Supply(s) - counted[s]
          /\ lastRaw[s] # None => raw[s] - lastRaw[s] <= Supply(s) - counted[s]
      BY <1>1, <1>2 DEF CountInv, Counting, Left, Working
    <3>2. lastRaw[s] # None =>
            /\ v - lastRaw[s] <= Supply(s) - counted[s]
            /\ s \in blank => raw[s] + v - lastRaw[s] <= Supply(s) - counted[s]
      BY <1>1, <2>1 DEF CountInv, FreshPoll, Pending, Left, Working
    <3> HIDE DEF s, v
    <3>3. /\ d <= Supply(s) - counted[s] /\ raw[s] - v + d <= Supply(s) - counted[s]
          /\ s \in blank => raw[s] + d <= Supply(s) - counted[s]
      <4>1. CASE lastRaw[s] = None \/ v < lastRaw[s]
        <5>1. d = 0
          BY <4>1 DEF Delta
        <5> HIDE DEF d
        <5> QED
          BY <1>3, <3>1, <5>1
      <4>2. CASE ~(lastRaw[s] = None \/ v < lastRaw[s])
        <5>1. d = v - lastRaw[s]
          BY <4>2 DEF Delta
        <5> HIDE DEF d
        <5> QED
          BY <1>3, <3>1, <3>2, <4>2, <5>1
      <4> QED
        BY <4>1, <4>2
    <3> HIDE DEF d
    <3> QED
      BY <1>1, <1>5, <1>6, <2>1, <3>3 DEF Pending, Left, Supply, quoteVars, cacheVars
  <2>2. CASE t # "loop"
    <3>1. at'["loop"] = at["loop"] /\ cur'["loop"] = cur["loop"]
      BY <1>5, <1>6, <2>2 DEF Threads
    <3> QED
      BY <1>1, <3>1 DEF CountInv, FreshPoll, Working, Pending, Left, Supply, quoteVars, cacheVars
  <2> QED
    BY <2>1, <2>2
<1> QED
  BY <1>7, <1>8, <1>9, <1>10, <1>11 DEF CountInv

LEMMA StoreCount ==
  ASSUME CountInv, NEW t \in Threads, StoreRaw(t)
  PROVE  CountInv'
<1> DEFINE s == cur[t].sym
           v == cur[t].volume
<1>1. /\ at[t] = "store" /\ Goto(t, "publish")
      /\ lastRaw' = [lastRaw EXCEPT ![s] = v]
      /\ UNCHANGED <<quoteVars, latest, counted, todo, cur, fresh, warmed>>
  BY DEF StoreRaw
<1>2. s \in Symbols /\ Working(t)
  BY <1>1 DEF CountInv, PlaceTypeOK, Working
<1>3. v \in Nat
  BY <1>2, Numbers DEF CountInv
<1>4. /\ at' \in [Threads -> Statements] /\ at'[t] = "publish"
      /\ \A u \in Threads : u # t => at'[u] = at[u]
  BY <1>1, GoneTo DEF CountInv, Statements
<1>5. /\ lastRaw' \in [Symbols -> Nat \cup {None}] /\ lastRaw'[s] = v
      /\ \A a \in Symbols : a # s => lastRaw'[a] = lastRaw[a]
  BY <1>1, <1>2, <1>3 DEF CountInv, QuoteTypeOK
<1>6. QuoteTypeOK'
  BY <1>1, <1>5 DEF CountInv, QuoteTypeOK, quoteVars
<1>7. PlaceTypeOK'
  BY <1>1, <1>2, <1>4 DEF CountInv, PlaceTypeOK, Working
<1>8. Phases'
  BY <1>1, <1>4 DEF CountInv, Phases, Warming, Threads
<1>9. \A u \in Threads : Working(u)' => Working(u)
  BY <1>1, <1>4 DEF Working
<1>10. Counting'
  <2>1. raw[s] - v <= Left(s)
    BY <1>2 DEF CountInv, Counting
  <2> QED
    BY <1>1, <1>5, <1>9, <2>1 DEF CountInv, Counting, Left, Supply, quoteVars
<1>11. FreshPoll'
  <2> SUFFICES ASSUME fresh, Working("loop")'
               PROVE  Pending(cur["loop"].sym)'
    BY <1>1 DEF FreshPoll
  <2>1. t = "loop"
    <3>1. ~Working("main")
      BY MainUncounted DEF CountInv
    <3> QED
      BY <1>2, <3>1 DEF Threads
  <2>2. Pending(s)
    BY <1>2, <2>1 DEF CountInv, FreshPoll
  <2> QED
    BY <1>1, <1>4, <1>5, <2>1, <2>2 DEF Pending, Left, Supply, quoteVars
<1> QED
  BY <1>6, <1>7, <1>8, <1>10, <1>11 DEF CountInv

\* What a poll that counts publishes was left to count.
LEMMA PublishCount ==
  ASSUME CountInv, NEW t \in Threads, Publish(t)
  PROVE  CountInv'
<1> DEFINE s == cur[t].sym
           v == cur[t].volume
           d == cur[t].delta
<1>1. /\ at[t] = "publish" /\ Goto(t, "read")
      /\ latest' = latest \cup {s}
      /\ counted' = IF t = "loop" /\ fresh
                    THEN [counted EXCEPT ![s] = @ + d] ELSE counted
      /\ cur' = [cur EXCEPT ![t] = NoQuote]
      /\ UNCHANGED <<quoteVars, lastRaw, todo, fresh, warmed>>
  BY DEF Publish
<1>2. s \in Symbols /\ Working(t)
  BY <1>1 DEF CountInv, PlaceTypeOK, Working
<1>3. /\ raw[s] \in Nat /\ Supply(s) \in Nat /\ counted[s] \in Nat
      /\ lastRaw[s] # None => lastRaw[s] \in Nat
      /\ v \in Nat /\ d \in Nat
  BY <1>2, Numbers DEF CountInv
<1>4. /\ at' \in [Threads -> Statements] /\ at'[t] = "read"
      /\ \A u \in Threads : u # t => at'[u] = at[u]
  BY <1>1, GoneTo DEF CountInv, Statements
<1>5. /\ cur' \in [Threads -> [sym : Symbols \cup {NextOf(Symbols)}, volume : Nat, delta : Nat]]
      /\ \A u \in Threads : u # t => cur'[u] = cur[u]
  <2>1. NoQuote \in [sym : Symbols \cup {NextOf(Symbols)}, volume : Nat, delta : Nat]
    BY DEF NoQuote
  <2> QED
    BY <1>1, <2>1 DEF CountInv, QuoteTypeOK
<1>6. counted' \in [Symbols -> Nat]
  BY <1>1, <1>2, <1>3 DEF CountInv, QuoteTypeOK
<1>7. QuoteTypeOK'
  BY <1>1, <1>2, <1>5, <1>6 DEF CountInv, QuoteTypeOK, quoteVars
<1>8. \A u \in Threads : Working(u)' => Working(u) /\ u # t /\ at'[u] = at[u] /\ cur'[u] = cur[u]
  BY <1>4, <1>5 DEF Working
<1>9. PlaceTypeOK'
  BY <1>1, <1>4, <1>8 DEF CountInv, PlaceTypeOK
<1>10. Phases'
  <2>1. warmed' => at'["main"] \notin Warming
    BY <1>1, <1>4 DEF CountInv, Phases, Warming, Threads
  <2>2. ~warmed => counted' = counted
    BY <1>1 DEF CountInv, Phases
  <2> QED
    BY <1>1, <2>1, <2>2 DEF CountInv, Phases
<1>11. CASE counted' = counted /\ ~(t = "loop" /\ fresh)
  <2>1. Counting'
    BY <1>1, <1>8, <1>11 DEF CountInv, Counting, Left, Supply, quoteVars
  <2>2. FreshPoll'
    <3> SUFFICES ASSUME fresh, Working("loop")'
                 PROVE  Pending(cur["loop"].sym)'
      BY <1>1 DEF FreshPoll
    <3> QED
      BY <1>1, <1>8, <1>11 DEF CountInv, FreshPoll, Pending, Left, Supply, quoteVars, Threads
  <2> QED
    BY <1>7, <1>9, <1>10, <2>1, <2>2 DEF CountInv
<1>12. CASE t = "loop" /\ fresh
  <2>1. Pending(s)
    BY <1>2, <1>12 DEF CountInv, FreshPoll
  <2>2. ~Working("main")
    BY <1>12, MainUncounted DEF CountInv
  <2>3. \A u \in Threads : ~Working(u)'
    BY <1>8, <1>12, <2>2 DEF Threads
  <2>4. /\ counted'[s] = counted[s] + d
        /\ \A a \in Symbols : a # s => counted'[a] = counted[a]
    BY <1>1, <1>2, <1>12 DEF CountInv, QuoteTypeOK
  <2>5. /\ lastRaw[s] = v /\ d <= Supply(s) - counted[s]
        /\ raw[s] - v + d <= Supply(s) - counted[s]
        /\ s \in blank => raw[s] + d <= Supply(s) - counted[s]
    BY <1>1, <1>12, <2>1 DEF Pending, Left
  <2> HIDE DEF s, v, d
  <2>6. /\ counted'[s] <= Supply(s) /\ raw[s] - lastRaw[s] <= Supply(s) - counted'[s]
        /\ s \in blank => raw[s] <= Supply(s) - counted'[s]
    BY <1>3, <2>4, <2>5
  <2>7. Counting'
    <3> SUFFICES ASSUME NEW a \in Symbols
                 PROVE  /\ counted'[a] <= Supply(a)
                        /\ a \in blank => raw[a] <= Supply(a) - counted'[a]
                        /\ lastRaw[a] # None => raw[a] - lastRaw[a] <= Supply(a) - counted'[a]
      BY <1>1, <2>3 DEF Counting, Left, Supply, quoteVars
    <3> QED
      BY <2>4, <2>6 DEF CountInv, Counting, Left
  <2>8. FreshPoll'
    BY <2>3 DEF FreshPoll, Threads
  <2> QED
    BY <1>7, <1>9, <1>10, <2>7, <2>8 DEF CountInv
<1> QED
  BY <1>1, <1>11, <1>12

LEMMA PollingCount ==
  ASSUME CountInv, NEW t \in Threads, Polling(t)
  PROVE  CountInv'
BY ReadCount, DeltaCount, StoreCount, PublishCount DEF Polling

\* The loop and the main thread between two polls.
LEMMA TurnCount ==
  ASSUME CountInv, NEW t \in Threads, NEW w \in Statements, Goto(t, w),
         w \notin {"delta", "store", "publish"},
         UNCHANGED <<quoteVars, cacheVars, cur>>, todo' \in [Threads -> SUBSET Symbols],
         warmed' \in BOOLEAN, warmed => warmed', fresh' \in BOOLEAN,
         warmed' => at'["main"] \notin Warming,
         fresh' => warmed', fresh' = fresh \/ t = "loop"
  PROVE  CountInv'
<1>1. /\ at' \in [Threads -> Statements] /\ at'[t] = w
      /\ \A u \in Threads : u # t => at'[u] = at[u]
  BY GoneTo DEF CountInv
<1>2. \A u \in Threads : Working(u)' => Working(u) /\ at'[u] = at[u] /\ u # t
  BY <1>1 DEF Working
<1>3. PlaceTypeOK'
  BY <1>1, <1>2 DEF CountInv, PlaceTypeOK
<1>4. Phases'
  BY DEF CountInv, Phases, cacheVars
<1>5. fresh' /\ Working("loop")' => fresh
  BY <1>2 DEF Threads
<1> QED
  BY <1>2, <1>3, <1>4, <1>5, QuietCount DEF CountInv, QuoteTypeOK, cacheVars

LEMMA LoopCount ==
  ASSUME CountInv, Loop
  PROVE  CountInv'
<1>1. /\ "loop" \in Threads /\ "top" \in Statements /\ "wait" \in Statements
      /\ "read" \in Statements /\ "ended" \in Statements
      /\ Symbols \in SUBSET Symbols
  BY DEF Threads, Statements
<1>2. /\ todo \in [Threads -> SUBSET Symbols] /\ fresh \in BOOLEAN /\ warmed \in BOOLEAN
      /\ warmed => at["main"] \notin Warming
      /\ fresh => warmed
  BY DEF CountInv, PlaceTypeOK, Phases
<1>3. \A w : Goto("loop", w) => at'["main"] = at["main"]
  BY DEF Goto, CountInv, PlaceTypeOK, Threads
<1>4. CASE LoopTop
  <2>1. PICK w \in {"ended", "wait"} : Goto("loop", w)
    BY <1>4 DEF LoopTop
  <2> QED
    BY <1>1, <1>2, <1>3, <1>4, <2>1, TurnCount DEF LoopTop
<1>5. CASE LoopWaits
  <2>1. todo' \in [Threads -> SUBSET Symbols]
    BY <1>2, <1>5 DEF LoopWaits
  <2> QED
    BY <1>1, <1>2, <1>3, <1>5, <2>1, TurnCount DEF LoopWaits
<1>6. CASE LoopWaitFails
  BY <1>1, <1>2, <1>3, <1>6, TurnCount DEF LoopWaitFails
<1>7. CASE LoopPolled
  BY <1>1, <1>2, <1>3, <1>7, TurnCount DEF LoopPolled
<1>8. CASE Polling("loop")
  BY <1>1, <1>8, PollingCount
<1> QED
  BY <1>4, <1>5, <1>6, <1>7, <1>8 DEF Loop

LEMMA StillCount ==
  ASSUME CountInv, UNCHANGED <<quoteVars, cacheVars, at, todo, cur, fresh, warmed>>
  PROVE  CountInv'
BY DEF CountInv, QuoteTypeOK, PlaceTypeOK, Phases, Counting, FreshPoll, Pending, Left,
       Supply, Working, quoteVars, cacheVars

LEMMA MainCount ==
  ASSUME CountInv, Main
  PROVE  CountInv'
<1>1. "main" \in Threads /\ "main" # "loop"
  BY DEF Threads
<1>2. /\ todo \in [Threads -> SUBSET Symbols] /\ fresh \in BOOLEAN /\ warmed \in BOOLEAN
      /\ warmed => at["main"] \notin Warming
      /\ fresh => warmed
  BY DEF CountInv, PlaceTypeOK, Phases
<1>3. \A w : Goto("main", w) => at'["main"] = w
  BY DEF Goto, CountInv, PlaceTypeOK, Threads
<1>4. CASE WarmupWaits
  <2>1. todo' \in [Threads -> SUBSET Symbols] /\ ~warmed /\ "read" \in Statements
    BY <1>2, <1>4 DEF WarmupWaits, Warming, Statements
  <2> QED
    BY <1>1, <1>2, <1>3, <1>4, <2>1, TurnCount DEF WarmupWaits
<1>5. CASE WarmupExpires
  <2>1. "exit" \in Statements /\ "exit" \notin Warming
    BY DEF Statements, Warming
  <2> QED
    BY <1>1, <1>2, <1>3, <1>5, <2>1, TurnCount DEF WarmupExpires
<1>6. CASE WarmupChecks
  <2>1. ~warmed /\ warmed' = Ready /\ Ready \in BOOLEAN /\ ~fresh
    BY <1>2, <1>6 DEF WarmupChecks, Warming, Ready
  <2>2. "session" \in Statements /\ "wait" \in Statements /\ "session" \notin Warming
    BY DEF Statements, Warming
  <2>3. CASE Ready
    BY <1>1, <1>2, <1>3, <1>6, <2>1, <2>2, <2>3, TurnCount DEF WarmupChecks
  <2>4. CASE ~Ready
    BY <1>1, <1>2, <1>3, <1>6, <2>1, <2>2, <2>4, TurnCount DEF WarmupChecks
  <2> QED
    BY <2>3, <2>4
<1>7. CASE Polling("main")
  BY <1>1, <1>7, PollingCount
<1>8. CASE BrokerTakesApi
  BY <1>8, StillCount DEF BrokerTakesApi
<1>9. ASSUME NEW w \in {"closeBroker", "exit", "closeFeed", "join", "closeApi", "gone"},
             Goto("main", w), UNCHANGED <<quoteVars, cacheVars, todo, cur, fresh, warmed>>
      PROVE  CountInv'
  <2>1. w \in Statements /\ w \notin Warming /\ w \notin {"delta", "store", "publish"}
    BY DEF Statements, Warming
  <2> QED
    BY <1>1, <1>2, <1>3, <1>9, <2>1, TurnCount
<1>10. CASE SessionEnds
  BY <1>9, <1>10 DEF SessionEnds
<1>11. CASE CloseBroker \/ CloseFeed \/ Join \/ CloseApi \/ Exit
  BY <1>9, <1>11 DEF CloseBroker, CloseFeed, Join, CloseApi, Exit
<1> QED
  BY <1>4, <1>5, <1>6, <1>7, <1>8, <1>10, <1>11 DEF Main

LEMMA NextCount == CountInv /\ [Next]_vars => CountInv'
<1>1. ASSUME CountInv, UNCHANGED vars PROVE CountInv'
  BY <1>1, StillCount DEF vars
<1> QED
  BY <1>1, ApiCount, LoopCount, MainCount DEF Next, Gone

LEMMA SpecCount == Spec => []CountInv
BY InitCount, NextCount, PTL DEF Spec

(***************************************************************************)
(* Quotes of a session, and closing.                                       *)
(***************************************************************************)

Before == Warming \cup {"session"}

\* Steps that close nothing, before main reaches close() or of the other thread.
LEMMA StillClose ==
  ASSUME ApiOnce, Joined, UNCHANGED closeVars,
         \/ at'["main"] = at["main"]
         \/ at["main"] \in Before /\ at'["main"] \in Before \cup {"closeBroker", "exit"},
         LoopOver => LoopOver', at["loop"] = "off" => at'["loop"] = "off"
  PROVE  ApiOnce' /\ Joined'
<1>1. /\ at'["main"] \in Warming \cup {"session", "closeBroker"} => mdApi
      /\ at'["main"] \in {"join", "closeApi", "gone"} => at'["main"] = at["main"]
      /\ at["main"] \in {"join", "closeApi"} => at'["main"] = at["main"]
  BY DEF ApiOnce, Before, Warming
<1>2. ApiOnce'
  BY <1>1 DEF ApiOnce, closeVars
<1>3. Joined'
  BY <1>1 DEF Joined, closeVars
<1> QED
  BY <1>2, <1>3

LEMMA LoopOverKept ==
  ASSUME PlaceTypeOK, Loop
  PROVE  /\ at'["main"] = at["main"] /\ UNCHANGED closeVars
         /\ ~LoopOver
<1>1. \A w : Goto("loop", w) => at'["main"] = at["main"]
  BY DEF Goto, PlaceTypeOK, Threads
<1>2. CASE Read("loop")
  BY <1>1, <1>2 DEF Read, LoopOver
<1>3. CASE ComputeDelta("loop") \/ StoreRaw("loop") \/ Publish("loop")
  BY <1>1, <1>3 DEF ComputeDelta, StoreRaw, Publish, LoopOver
<1>4. CASE LoopTop \/ LoopWaits \/ LoopWaitFails \/ LoopPolled
  BY <1>1, <1>4 DEF LoopTop, LoopWaits, LoopWaitFails, LoopPolled, LoopOver
<1> QED
  BY <1>2, <1>3, <1>4 DEF Loop, Polling

LEMMA MainAlone ==
  ASSUME PlaceTypeOK, NEW w, Goto("main", w)
  PROVE  at'["main"] = w /\ at'["loop"] = at["loop"]
BY DEF Goto, PlaceTypeOK, Threads

LEMMA WarmupClose ==
  ASSUME PlaceTypeOK, ApiOnce, Joined,
         WarmupWaits \/ WarmupExpires \/ WarmupChecks \/ Polling("main") \/ SessionEnds
  PROVE  ApiOnce' /\ Joined'
<1>1. /\ UNCHANGED closeVars
      /\ at["main"] \in Before
      /\ \/ at' = at
         \/ \E w \in Before \cup {"closeBroker", "exit"} : Goto("main", w)
  <2>1. CASE WarmupWaits \/ WarmupExpires \/ WarmupChecks
    BY <2>1 DEF WarmupWaits, WarmupExpires, WarmupChecks, Before, Warming
  <2>2. CASE Polling("main")
    BY <2>2 DEF Polling, Read, ComputeDelta, StoreRaw, Publish, Before, Warming
  <2>3. CASE SessionEnds
    BY <2>3 DEF SessionEnds, Before
  <2> QED
    BY <2>1, <2>2, <2>3
<1>2. at'["loop"] = at["loop"] /\ at'["main"] \in Before \cup {"closeBroker", "exit"}
  BY <1>1, MainAlone
<1> QED
  BY <1>1, <1>2, StillClose DEF LoopOver

LEMMA CloseClose ==
  ASSUME PlaceTypeOK, ApiOnce, Joined,
         BrokerTakesApi \/ CloseBroker \/ CloseFeed \/ Join \/ CloseApi \/ Exit
  PROVE  ApiOnce' /\ Joined'
<1>1. CASE BrokerTakesApi
  <2>1. /\ at["main"] = "session" /\ UNCHANGED <<at, stop, mdApi, mdThread, held, apiCloses>>
        /\ brokerApi' = mdApi /\ borrowed' = mdApi /\ mdApi
    BY <1>1 DEF BrokerTakesApi, ApiOnce, Warming
  <2> QED
    BY <2>1 DEF ApiOnce, Joined, LoopOver
<1>2. CASE CloseBroker
  <2>1. /\ at["main"] = "closeBroker" /\ at'["main"] = "closeFeed" /\ at'["loop"] = at["loop"]
        /\ brokerApi' = FALSE
        /\ apiCloses' = IF brokerApi THEN apiCloses + 1 ELSE apiCloses
        /\ UNCHANGED <<mdApi, mdThread, borrowed, held>>
    BY <1>2, MainAlone DEF CloseBroker
  <2>2. apiCloses' \in Nat /\ (~borrowed => apiCloses' = apiCloses)
    BY <2>1 DEF ApiOnce
  <2>3. ApiOnce'
    BY <2>1, <2>2 DEF ApiOnce, Warming
  <2>4. Joined'
    BY <2>1, <2>2 DEF Joined, LoopOver
  <2> QED
    BY <2>3, <2>4
<1>3. CASE CloseFeed
  <2>1. /\ at["main"] = "closeFeed" /\ at'["main"] = "join" /\ at'["loop"] = at["loop"]
        /\ held' = [api |-> mdApi, thread |-> mdThread]
        /\ mdApi' = FALSE /\ mdThread' = FALSE
        /\ UNCHANGED <<brokerApi, borrowed, apiCloses>>
    BY <1>3, MainAlone DEF CloseFeed
  <2> QED
    BY <2>1 DEF ApiOnce, Joined, LoopOver, Warming
<1>4. CASE Join
  <2>1. /\ at["main"] = "join" /\ at'["main"] = "closeApi" /\ at'["loop"] = at["loop"]
        /\ held.thread => at["loop"] = "ended" \/ JoinExpires
        /\ UNCHANGED <<mdApi, mdThread, brokerApi, borrowed, held, apiCloses>>
    BY <1>4, MainAlone DEF Join, closeVars
  <2>2. ApiOnce'
    BY <2>1 DEF ApiOnce, Warming
  <2>3. Joined'
    BY <2>1, FeedConfig DEF ApiOnce, Joined, LoopOver
  <2> QED
    BY <2>2, <2>3
<1>5. CASE CloseApi
  <2>1. /\ at["main"] = "closeApi" /\ at'["main"] \in {"gone", "exit"}
        /\ at'["loop"] = at["loop"]
        /\ apiCloses' = IF held.api THEN apiCloses + 1 ELSE apiCloses
        /\ UNCHANGED <<mdApi, mdThread, brokerApi, borrowed, held>>
    BY <1>5, MainAlone DEF CloseApi
  <2> QED
    BY <2>1 DEF ApiOnce, Joined, LoopOver, Warming
<1>6. CASE Exit
  <2>1. /\ at["main"] = "exit" /\ at'["main"] = "closeFeed" /\ at'["loop"] = at["loop"]
        /\ UNCHANGED <<mdApi, mdThread, brokerApi, borrowed, held, apiCloses>>
    BY <1>6, MainAlone DEF Exit
  <2> QED
    BY <2>1 DEF ApiOnce, Joined, LoopOver, Warming
<1> QED
  BY <1>1, <1>2, <1>3, <1>4, <1>5, <1>6

CInv == CountInv /\ ApiOnce /\ Joined

LEMMA InitClose == Init => ApiOnce /\ Joined
<1> SUFFICES ASSUME Init PROVE ApiOnce /\ Joined
  OBVIOUS
<1>1. at["main"] = "wait" /\ at["loop"] = IF Background THEN "top" ELSE "off"
  BY DEF Init
<1>2. ApiOnce
  BY <1>1, FeedConfig DEF Init, ApiOnce, Warming
<1>3. Joined
  BY <1>1, FeedConfig DEF Init, Joined
<1> QED
  BY <1>2, <1>3

LEMMA NextClose == CInv /\ [Next]_vars => CInv'
<1> SUFFICES ASSUME CInv, [Next]_vars PROVE CInv'
  OBVIOUS
<1>1. CountInv' /\ PlaceTypeOK
  BY NextCount DEF CInv, CountInv
<1>2. CASE Api
  BY <1>1, <1>2, StillClose DEF CInv, Api, LoopOver
<1>3. CASE Loop
  BY <1>1, <1>3, LoopOverKept, StillClose DEF CInv, LoopOver
<1>4. CASE Main
  BY <1>1, <1>4, WarmupClose, CloseClose DEF CInv, Main
<1>5. CASE UNCHANGED vars
  BY <1>1, <1>5, StillClose DEF CInv, vars, LoopOver
<1> QED
  BY <1>2, <1>3, <1>4, <1>5 DEF Next, Gone

LEMMA SpecClose == Spec => []CInv
BY InitCount, InitClose, NextClose, PTL DEF Spec, CInv

LEMMA InitQuotes == Init => SessionHasQuotes
BY DEF Init, SessionHasQuotes

\* Once there, a quote stays; a session begins when all are there.
LEMMA NextQuotes == SessionHasQuotes /\ CountInv /\ [Next]_vars => SessionHasQuotes'
<1> SUFFICES ASSUME SessionHasQuotes, CountInv, [Next]_vars PROVE SessionHasQuotes'
  OBVIOUS
<1>1. PlaceTypeOK
  BY DEF CountInv
<1>2. ASSUME NEW t \in Threads, Polling(t)
      PROVE  latest \subseteq latest' /\ (at'["main"] = "session" => at["main"] = "session")
  BY <1>1, <1>2 DEF Polling, Read, ComputeDelta, StoreRaw, Publish, cacheVars, Goto,
                    PlaceTypeOK, Threads
<1>3. latest \subseteq latest'
  <2>1. CASE Api
    BY <2>1 DEF Api, cacheVars
  <2>2. CASE Loop
    BY <1>2, <2>2 DEF Loop, LoopTop, LoopWaits, LoopWaitFails, LoopPolled, cacheVars, Threads
  <2>3. CASE Main
    BY <1>2, <2>3 DEF Main, WarmupWaits, WarmupExpires, WarmupChecks, BrokerTakesApi,
       SessionEnds, CloseBroker, CloseFeed, Join, CloseApi, Exit, cacheVars, Threads
  <2>4. CASE UNCHANGED vars
    BY <2>4 DEF vars, cacheVars
  <2> QED
    BY <2>1, <2>2, <2>3, <2>4 DEF Next, Gone
<1>4. ASSUME at'["main"] = "session"
      PROVE  at["main"] = "session" \/ Ready
  <2>1. \A w : Goto("main", w) => w = "session"
    BY <1>1, <1>4, MainAlone
  <2>2. CASE Loop
    BY <1>1, <1>4, <2>2, LoopOverKept
  <2>3. CASE WarmupChecks
    BY <2>1, <2>3 DEF WarmupChecks
  <2>4. CASE WarmupWaits \/ WarmupExpires \/ CloseBroker \/ CloseFeed \/ Join \/ Exit
    BY <2>1, <2>4 DEF WarmupWaits, WarmupExpires, CloseBroker, CloseFeed, Join, Exit
  <2>5. CASE SessionEnds
    BY <2>5 DEF SessionEnds
  <2>6. CASE CloseApi
    BY <2>1, <2>6 DEF CloseApi
  <2>7. CASE Polling("main")
    BY <1>2, <1>4, <2>7 DEF Threads
  <2>8. CASE Api \/ BrokerTakesApi \/ UNCHANGED vars
    BY <1>4, <2>8 DEF Api, BrokerTakesApi, vars
  <2> QED
    BY <2>2, <2>3, <2>4, <2>5, <2>6, <2>7, <2>8 DEF Next, Gone, Main
<1> QED
  BY <1>3, <1>4 DEF SessionHasQuotes, Ready

(***************************************************************************)
(* The theorems.                                                           *)
(***************************************************************************)

\* Whatever the two threads read, overtake and store during warmup, the polls of a
\* session publish no unit twice but for the volumes that went missing, each of which
\* is counted again once at most.
THEOREM FeedSessionVolumeTraded == Spec => []SessionVolumeTraded
<1>1. CountInv => SessionVolumeTraded
  BY DEF CountInv, Counting, Supply, SessionVolumeTraded
<1> QED
  BY <1>1, SpecCount, PTL

\* A session starts with a quote of every required symbol and keeps them.
THEOREM FeedSessionHasQuotes == Spec => []SessionHasQuotes
BY InitQuotes, NextQuotes, SpecCount, PTL DEF Spec

\* The feed's own API is closed at most once, and once at the end, even if the
\* join gave up on the loop.
THEOREM FeedApiClosedOnce ==
  Spec => [](~borrowed => apiCloses <= 1 /\ (at["main"] = "gone" => apiCloses = 1))
<1>1. CInv => (~borrowed => apiCloses <= 1 /\ (at["main"] = "gone" => apiCloses = 1))
  BY DEF CInv, ApiOnce
<1> QED
  BY <1>1, SpecClose, PTL

\* If every join outlasts the loop, the loop has ended before the API is closed.
THEOREM FeedOwnApiClosedOnce ==
  ASSUME ~JoinExpires
  PROVE  Spec => []OwnApiClosedOnce
<1>1. CInv => OwnApiClosedOnce
  BY DEF CInv, ApiOnce, Joined, LoopOver, OwnApiClosedOnce
<1> QED
  BY <1>1, SpecClose, PTL
=============================================================================
