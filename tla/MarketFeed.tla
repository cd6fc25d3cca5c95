------------------------------ MODULE MarketFeed ------------------------------
(***************************************************************************)
(* adapters/marketdata/tqkq_market_data.py and the way a session builds    *)
(* and closes it.  Two threads run _poll_once over the same dictionaries:  *)
(* the background loop and, during warmup, the main thread.  The API's     *)
(* quote objects change under both.  A live broker borrows the API of the  *)
(* feed, and both are closed when the session ends.                        *)
(***************************************************************************)
EXTENDS Integers

CONSTANTS
  Symbols,       \* bases of tq_symbols
  Required,      \* the symbols of the plan, which warmup waits for
  Background,    \* start_background
  LiveBroker,    \* the session's broker is a TqKqLiveBroker
  JoinExpires,   \* the loop may be stuck for longer than join(timeout=2.0)
  Gapped,        \* symbols whose quote may lose its volume for a while
  FirstVolumes,  \* cumulative volumes the API may show at first
  MaxVolume,     \* bound of a cumulative volume
  MaxTraded,     \* bound of the units traded of a symbol
  MaxHidden      \* bound of the volume that goes missing of a symbol

ASSUME FeedConfig ==
  /\ Required \subseteq Symbols /\ Gapped \subseteq Symbols
  /\ Background \in BOOLEAN /\ LiveBroker \in BOOLEAN /\ JoinExpires \in BOOLEAN
  /\ FirstVolumes \subseteq 0..MaxVolume
  /\ MaxVolume \in Nat /\ MaxTraded \in Nat /\ MaxHidden \in Nat

Threads == {"main", "loop"}

None == -1

\* The dictionaries keep one order, the same for both threads.
NextOf(S) == CHOOSE s \in S : TRUE

NoQuote == [sym |-> NextOf(Symbols), volume |-> 0, delta |-> 0]

VARIABLES
  priced,     \* symbols whose quote has a last_price
  raw,        \* symbol -> cumulative volume of its quote
  traded,     \* symbol -> units traded since the API was opened
  blank,      \* symbols whose quote shows no number for its volume
  hidden,     \* symbol -> volume its quote stood at each time it went blank
  lastRaw,    \* _last_raw_volume: symbol -> volume, None before
  latest,     \* symbols of _latest
  counted,    \* symbol -> volume published by polls begun after warmup
  at,         \* thread -> the statement it is about to run
  todo,       \* thread -> quotes its poll has still to read
  cur,        \* thread -> the quote it works on: symbol, volume, delta
  fresh,      \* whether the loop's poll began after warmup
  warmed,     \* _warmed_up
  stop,       \* _stop
  mdApi,      \* whether the feed's _api is set
  mdThread,   \* whether the feed's _thread is set
  brokerApi,  \* whether the broker's _api is set
  borrowed,   \* whether it ever was
  held,       \* the api and thread that close() keeps locally
  exiting,    \* whether atexit runs
  apiCloses   \* number of times the API was closed

quoteVars == <<priced, raw, traded, blank, hidden>>

cacheVars == <<lastRaw, latest, counted>>

closeVars == <<stop, mdApi, mdThread, brokerApi, borrowed, held, exiting, apiCloses>>

vars == <<quoteVars, cacheVars, at, todo, cur, fresh, warmed, closeVars>>

Init ==
  /\ priced = {}
  /\ raw \in [Symbols -> FirstVolumes]
  /\ traded = [s \in Symbols |-> 0]
  /\ blank = {} /\ hidden = [s \in Symbols |-> 0]
  /\ lastRaw = [s \in Symbols |-> None]
  /\ latest = {}
  /\ counted = [s \in Symbols |-> 0]
  /\ at = [main |-> "wait", loop |-> IF Background THEN "top" ELSE "off"]
  /\ todo = [t \in Threads |-> {}]
  /\ cur = [t \in Threads |-> NoQuote]
  /\ fresh = FALSE /\ warmed = FALSE
  /\ stop = FALSE /\ exiting = FALSE
  /\ mdApi = TRUE /\ mdThread = Background
  /\ brokerApi = FALSE /\ borrowed = FALSE
  /\ held = [api |-> FALSE, thread |-> FALSE]
  /\ apiCloses = 0

Goto(t, where) == at' = [at EXCEPT ![t] = where]

(***************************************************************************)
(* The API: prices appear, volume grows, a new trading day starts at zero, *)
(* and a volume may be missing for a while.                                *)
(***************************************************************************)

QuoteAppears(s) ==
  /\ priced' = priced \cup {s}
  /\ UNCHANGED <<raw, traded, blank, hidden>>

QuoteTrades(s) ==
  /\ raw[s] < MaxVolume /\ traded[s] < MaxTraded
  /\ raw' = [raw EXCEPT ![s] = @ + 1]
  /\ traded' = [traded EXCEPT ![s] = @ + 1]
  /\ UNCHANGED <<priced, blank, hidden>>

QuoteResets(s) ==
  /\ raw' = [raw EXCEPT ![s] = 0]
  /\ UNCHANGED <<priced, traded, blank, hidden>>

VolumeGoesBlank(s) ==
  /\ s \in Gapped \ blank /\ hidden[s] + raw[s] <= MaxHidden
  /\ blank' = blank \cup {s}
  /\ hidden' = [hidden EXCEPT ![s] = @ + raw[s]]
  /\ UNCHANGED <<priced, raw, traded>>

VolumeReturns(s) ==
  /\ s \in blank /\ blank' = blank \ {s}
  /\ UNCHANGED <<priced, raw, traded, hidden>>

Api ==
  /\ at["main"] # "gone"
  /\ \E s \in Symbols :
       \/ QuoteAppears(s) \/ QuoteTrades(s) \/ QuoteResets(s)
       \/ VolumeGoesBlank(s) \/ VolumeReturns(s)
  /\ UNCHANGED <<cacheVars, at, todo, cur, fresh, warmed, closeVars>>

(***************************************************************************)
(* _poll_once, by thread t, one quote at a time.                           *)
(***************************************************************************)

\* A volume that is not a number is taken as 0, and stored as such: the poll after
\* the gap counts the whole cumulative volume again.
VolumeRead(s) == IF s \in blank THEN 0 ELSE raw[s]

Read(t) ==
  /\ at[t] = "read" /\ todo[t] # {}
  /\ LET s == NextOf(todo[t])
     IN  /\ todo' = [todo EXCEPT ![t] = @ \ {s}]
         /\ IF s \in priced
            THEN /\ cur' = [cur EXCEPT ![t] = [sym |-> s, volume |-> VolumeRead(s), delta |-> 0]]
                 /\ Goto(t, "delta")
            ELSE UNCHANGED <<cur, at>>
  /\ UNCHANGED <<quoteVars, cacheVars, fresh, warmed, closeVars>>

\* A first volume and a smaller one count nothing.
Delta(volume, prev) == IF prev = None \/ volume < prev THEN 0 ELSE volume - prev

ComputeDelta(t) ==
  /\ at[t] = "delta"
  /\ cur' = [cur EXCEPT ![t].delta = Delta(cur[t].volume, lastRaw[cur[t].sym])]
  /\ Goto(t, "store")
  /\ UNCHANGED <<quoteVars, cacheVars, todo, fresh, warmed, closeVars>>

\* Mutant: only the first volume is kept.
StoreRawFirst(t) ==
  /\ at[t] = "store"
  /\ lastRaw' = [lastRaw EXCEPT ![cur[t].sym] = IF @ = None THEN cur[t].volume ELSE @]
  /\ Goto(t, "publish")
  /\ UNCHANGED <<quoteVars, latest, counted, todo, cur, fresh, warmed, closeVars>>

StoreRaw(t) ==
  /\ at[t] = "store"
  /\ lastRaw' = [lastRaw EXCEPT ![cur[t].sym] = cur[t].volume]
  /\ Goto(t, "publish")
  /\ UNCHANGED <<quoteVars, latest, counted, todo, cur, fresh, warmed, closeVars>>

\* Mutant: a quote without new volume is not published.
PublishTraded(t) ==
  /\ at[t] = "publish"
  /\ latest' = IF cur[t].delta > 0 THEN latest \cup {cur[t].sym} ELSE latest
  /\ counted' = IF t = "loop" /\ fresh
                THEN [counted EXCEPT ![cur[t].sym] = @ + cur[t].delta] ELSE counted
  /\ cur' = [cur EXCEPT ![t] = NoQuote]
  /\ Goto(t, "read")
  /\ UNCHANGED <<quoteVars, lastRaw, todo, fresh, warmed, closeVars>>

\* Under the lock.
Publish(t) ==
  /\ at[t] = "publish"
  /\ latest' = latest \cup {cur[t].sym}
  /\ counted' = IF t = "loop" /\ fresh
                THEN [counted EXCEPT ![cur[t].sym] = @ + cur[t].delta] ELSE counted
  /\ cur' = [cur EXCEPT ![t] = NoQuote]
  /\ Goto(t, "read")
  /\ UNCHANGED <<quoteVars, lastRaw, todo, fresh, warmed, closeVars>>

Polling(t) == Read(t) \/ ComputeDelta(t) \/ StoreRaw(t) \/ Publish(t)

(***************************************************************************)
(* The background loop.                                                    *)
(***************************************************************************)

\* Mutant: the loop does not look at _stop.
LoopTopForever ==
  /\ at["loop"] = "top"
  /\ Goto("loop", "wait")
  /\ UNCHANGED <<quoteVars, cacheVars, todo, cur, fresh, warmed, closeVars>>

LoopTop ==
  /\ at["loop"] = "top"
  /\ Goto("loop", IF stop THEN "ended" ELSE "wait")
  /\ UNCHANGED <<quoteVars, cacheVars, todo, cur, fresh, warmed, closeVars>>

LoopWaits ==
  /\ at["loop"] = "wait"
  /\ Goto("loop", "read")
  /\ todo' = [todo EXCEPT !["loop"] = Symbols]
  /\ fresh' = warmed
  /\ UNCHANGED <<quoteVars, cacheVars, cur, warmed, closeVars>>

\* wait_update raises: nothing is polled.
LoopWaitFails ==
  /\ at["loop"] = "wait"
  /\ Goto("loop", "top")
  /\ UNCHANGED <<quoteVars, cacheVars, todo, cur, fresh, warmed, closeVars>>

LoopPolled ==
  /\ at["loop"] = "read" /\ todo["loop"] = {}
  /\ Goto("loop", "top")
  /\ fresh' = FALSE
  /\ UNCHANGED <<quoteVars, cacheVars, todo, cur, warmed, closeVars>>

Loop ==
  /\ at["main"] # "gone"
  /\ LoopTop \/ LoopWaits \/ LoopWaitFails \/ LoopPolled \/ Polling("loop")

(***************************************************************************)
(* The main thread: warmup, the session, and its end.                      *)
(***************************************************************************)

\* wait_update may raise here too; the poll follows in either case.
WarmupWaits ==
  /\ at["main"] = "wait"
  /\ Goto("main", "read")
  /\ todo' = [todo EXCEPT !["main"] = Symbols]
  /\ UNCHANGED <<quoteVars, cacheVars, cur, fresh, warmed, closeVars>>

\* The deadline has passed: build_market_data raises, and nothing closes the feed
\* but atexit.
WarmupExpires ==
  /\ at["main"] = "wait"
  /\ Goto("main", "exit")
  /\ UNCHANGED <<quoteVars, cacheVars, todo, cur, fresh, warmed, closeVars>>

\* Mutant: one quote is enough.
ReadySome == Required \cap latest # {}

Ready == Required \subseteq latest

WarmupChecks ==
  /\ at["main"] = "read" /\ todo["main"] = {}
  /\ warmed' = Ready
  /\ Goto("main", IF Ready THEN "session" ELSE "wait")
  /\ UNCHANGED <<quoteVars, cacheVars, todo, cur, fresh, closeVars>>

\* submit_order and portfolio_snapshot take over the feed's API.
BrokerTakesApi ==
  /\ at["main"] = "session" /\ LiveBroker /\ ~brokerApi
  /\ brokerApi' = mdApi /\ borrowed' = mdApi
  /\ UNCHANGED <<quoteVars, cacheVars, at, todo, cur, fresh, warmed, stop, mdApi, mdThread,
                  held, exiting, apiCloses>>

\* run_daemon closes the session it ran; run_plan only exits.
SessionEnds ==
  /\ at["main"] = "session"
  /\ \E where \in {"closeBroker", "exit"} : Goto("main", where)
  /\ UNCHANGED <<quoteVars, cacheVars, todo, cur, fresh, warmed, closeVars>>

CloseBroker ==
  /\ at["main"] = "closeBroker"
  /\ brokerApi' = FALSE
  /\ apiCloses' = IF brokerApi THEN apiCloses + 1 ELSE apiCloses
  /\ Goto("main", "closeFeed")
  /\ UNCHANGED <<quoteVars, cacheVars, todo, cur, fresh, warmed, stop, mdApi, mdThread,
                  borrowed, held, exiting>>

CloseFeed ==
  /\ at["main"] = "closeFeed"
  /\ stop' = TRUE
  /\ held' = [api |-> mdApi, thread |-> mdThread]
  /\ mdApi' = FALSE /\ mdThread' = FALSE
  /\ Goto("main", "join")
  /\ UNCHANGED <<quoteVars, cacheVars, todo, cur, fresh, warmed, brokerApi, borrowed,
                  exiting, apiCloses>>

\* Mutant: the thread is not joined.
JoinNothing ==
  /\ at["main"] = "join"
  /\ Goto("main", "closeApi")
  /\ UNCHANGED <<quoteVars, cacheVars, todo, cur, fresh, warmed, closeVars>>

Join ==
  /\ at["main"] = "join"
  /\ held.thread => at["loop"] = "ended" \/ JoinExpires
  /\ Goto("main", "closeApi")
  /\ UNCHANGED <<quoteVars, cacheVars, todo, cur, fresh, warmed, closeVars>>

CloseApi ==
  /\ at["main"] = "closeApi"
  /\ apiCloses' = IF held.api THEN apiCloses + 1 ELSE apiCloses
  /\ Goto("main", IF exiting THEN "gone" ELSE "exit")
  /\ UNCHANGED <<quoteVars, cacheVars, todo, cur, fresh, warmed, stop, mdApi, mdThread,
                  brokerApi, borrowed, held, exiting>>

\* The interpreter exits: atexit calls close.
Exit ==
  /\ at["main"] = "exit"
  /\ exiting' = TRUE
  /\ Goto("main", "closeFeed")
  /\ UNCHANGED <<quoteVars, cacheVars, todo, cur, fresh, warmed, stop, mdApi, mdThread,
                  brokerApi, borrowed, held, apiCloses>>

Main ==
  \/ WarmupWaits \/ WarmupExpires \/ WarmupChecks \/ Polling("main")
  \/ BrokerTakesApi \/ SessionEnds \/ CloseBroker \/ CloseFeed \/ Join \/ CloseApi \/ Exit

Gone == at["main"] = "gone" /\ UNCHANGED vars

Next == Api \/ Loop \/ Main \/ Gone

Spec == Init /\ [][Next]_vars

\* Both threads get the processor, and wait_update does not fail for ever; nothing
\* is assumed of the quotes, of warmup, or of how long a session lasts.
MainProceeds == Main /\ ~SessionEnds /\ ~BrokerTakesApi

FairSpec ==
  /\ Spec
  /\ WF_vars(Loop) /\ WF_vars(MainProceeds)
  /\ SF_vars(LoopWaits)

(***************************************************************************)
(* Properties.                                                             *)
(***************************************************************************)

Statements == {"off", "top", "wait", "read", "delta", "store", "publish", "ended",
               "session", "closeBroker", "closeFeed", "join", "closeApi", "exit", "gone"}

TypeOK ==
  /\ priced \subseteq Symbols /\ latest \subseteq Symbols
  /\ raw \in [Symbols -> Nat] /\ traded \in [Symbols -> Nat] /\ counted \in [Symbols -> Nat]
  /\ blank \subseteq Symbols /\ hidden \in [Symbols -> Nat]
  /\ lastRaw \in [Symbols -> Nat \cup {None}]
  /\ at \in [Threads -> Statements]
  /\ todo \in [Threads -> SUBSET Symbols]
  /\ cur \in [Threads -> [sym : Symbols, volume : Nat, delta : Nat]]
  /\ fresh \in BOOLEAN /\ warmed \in BOOLEAN
  /\ stop \in BOOLEAN /\ mdApi \in BOOLEAN /\ mdThread \in BOOLEAN
  /\ brokerApi \in BOOLEAN /\ borrowed \in BOOLEAN
  /\ held \in [api : BOOLEAN, thread : BOOLEAN]
  /\ exiting \in BOOLEAN /\ apiCloses \in Nat

\* The differences that the polls begun after warmup publish of a symbol add up to
\* at most what was traded, and to at most the volume its quote stood at more for
\* each time that volume went missing: while it never does, no unit is counted
\* twice, whatever the two threads stored during warmup.  It is about what the
\* polls publish; get_last_quote returns the last difference at every read.
SessionVolumeTraded == \A s \in Symbols : counted[s] <= traded[s] + hidden[s]

\* get_last_quotes never finds a quote missing during a session.
SessionHasQuotes == at["main"] = "session" => Required \subseteq latest

\* close() is idempotent and waits for the loop: an API that no broker borrowed is
\* closed once, whether a session ends, warmup fails or nobody closes the session and
\* atexit closes again, and the loop does not touch it afterwards.
OwnApiClosedOnce ==
  ~borrowed =>
    /\ apiCloses <= 1 /\ (at["main"] = "gone" => apiCloses = 1)
    /\ apiCloses > 0 => at["loop"] \in {"off", "ended"}

\* Closing comes to an end, though it waits for a loop that may be polling.
ClosingEnds == at["main"] \in {"closeBroker", "exit"} ~> at["main"] = "gone"

\* A price the API shows reaches the cache while the loop runs.
PricesReachCache ==
  Background => \A s \in Symbols : s \in priced ~> s \in latest \/ stop
=============================================================================
