------------------------------- MODULE Charts -------------------------------
(***************************************************************************)
(* The portal's market data (web/routes/chart.py, the page walk in         *)
(* web/app.py): /api/price and /api/ticker, which share one client behind  *)
(* _price_lock, /api/chart, which calls the exchange through the breaker   *)
(* from a worker thread, and /api/candles, which walks a range page by     *)
(* page past the breaker.                                                  *)
(*                                                                         *)
(* The handlers run on one event loop and are cut where they await: a      *)
(* lock somebody holds, a worker thread, a sleep.  An uncontended lock     *)
(* does not suspend.  One pair, one timeframe and one limit; a payload is  *)
(* known by the time at which the exchange produced it.  429 of the rate   *)
(* limits and of the cost budget may come at any time.                     *)
(***************************************************************************)
EXTENDS Breaker

CONSTANTS
    Ttl,        \* _TICKER_CACHE_TTL and _CHART_CACHE_TTL
    First, End, \* the range asked of /api/candles, in bars: First .. End - 1
    Present,    \* the bar that is still open
    Listed,     \* the bars the exchange has
    PageSize,   \* 200
    MaxPages,   \* max_pages
    Walkers     \* the slots that may serve /api/candles

ASSUME ChartsAssumption ==
    /\ Ttl \in Nat \ {0} /\ PageSize \in Nat \ {0} /\ MaxPages \in Nat
    /\ First \in Nat /\ End \in Nat /\ Present \in Nat
    /\ Listed \subseteq Nat /\ IsFiniteSet(Listed)
    /\ Walkers \subseteq Threads
    \* api_candles cuts the range to _CANDLES_MAX_BARS, which max_pages covers.
    /\ End - First <= MaxPages * PageSize

VARIABLES
    kind,       \* what each slot serves
    began,      \* now, taken when its handler began
    asOf,       \* the time of the payload it has fetched
    lock,       \* who holds _price_lock
    tickerCache, chartCache, candlesCache,  \* [until, asOf] or Null
    walk,       \* the page walk of a walker
    hit,        \* the age of the last payload served from a cache
    shown,      \* the time of the last ticker payload served
    backwards   \* a ticker payload was served after a later one

slots == <<kind, began, asOf>>
caches == <<tickerCache, chartCache, candlesCache>>
seen == <<hit, shown, backwards>>
breaker == <<fields, read, outcome, verdicts>>    \* all but where a slot is
chartsVars == <<clock, breakerVars, slots, lock, caches, walk, seen>>

Idle(r) == kind[r] = "none" /\ pc[r] = "idle"

\* A handler begins, or ends and gives its slot back.
Begins(r, k) ==
    /\ Idle(r)
    /\ kind' = [kind EXCEPT ![r] = k]
    /\ began' = [began EXCEPT ![r] = clock]
    /\ UNCHANGED asOf
Gone(r) ==
    /\ kind' = [kind EXCEPT ![r] = "none"]
    /\ began' = [began EXCEPT ![r] = 0]
    /\ asOf' = [asOf EXCEPT ![r] = 0]
    /\ pc' = [pc EXCEPT ![r] = "idle"]

Fresh(c) == c # Null /\ c.until > clock
Serve(c) == hit' = clock - c.asOf

\* A ticker payload reaches a client.
Show(t) == shown' = t /\ backwards' = (backwards \/ t < shown)

----------------------------------------------------------------------------
\* /api/price and /api/ticker.

\* A hit is answered at once; a stale entry is dropped.
TickerHit(r) ==
    /\ Idle(r) /\ Fresh(tickerCache)
    /\ Serve(tickerCache) /\ Show(tickerCache.asOf)
    /\ UNCHANGED <<clock, breakerVars, slots, lock, caches, walk>>

TickerMiss(r) ==
    /\ ~Fresh(tickerCache)
    /\ Begins(r, "ticker")
    /\ tickerCache' = Null
    /\ To(r, "lock")
    /\ UNCHANGED <<clock, breaker, lock, chartCache, candlesCache, walk, seen>>

PriceAsks(r) ==
    /\ Begins(r, "price")
    /\ To(r, "lock")
    /\ UNCHANGED <<clock, breaker, lock, caches, walk, seen>>

\* Mutated: the shared client is used without its lock.
TakesLock_never(r) ==
    /\ pc[r] = "lock"
    /\ To(r, "fetch")
    /\ UNCHANGED <<clock, breaker, slots, lock, caches, walk, seen>>

TakesLock(r) ==
    /\ pc[r] = "lock" /\ lock = Null
    /\ lock' = r
    /\ To(r, "fetch")
    /\ UNCHANGED <<clock, breaker, slots, caches, walk, seen>>

\* The thread ends; the handler goes on later.
TickerAnswers(r) ==
    /\ pc[r] = "fetch"
    /\ asOf' = [asOf EXCEPT ![r] = clock]
    /\ To(r, "fetched")
    /\ UNCHANGED <<clock, breaker, kind, began, lock, caches, walk, seen>>

Unlocks(r) == lock' = IF lock = r THEN Null ELSE lock

\* The lock is let go and the payload stored without a suspension between:
\* the entry lives from the moment the handler began.
TickerStores(r) ==
    /\ pc[r] = "fetched" /\ kind[r] = "ticker"
    /\ tickerCache' = [until |-> began[r] + Ttl, asOf |-> asOf[r]]
    /\ Show(asOf[r])
    /\ Unlocks(r) /\ Gone(r)
    /\ UNCHANGED <<clock, breaker, chartCache, candlesCache, walk, hit>>

PriceReplies(r) ==
    /\ pc[r] = "fetched" /\ kind[r] = "price"
    /\ Unlocks(r) /\ Gone(r)
    /\ UNCHANGED <<clock, breaker, caches, walk, seen>>

\* 503, 502, 400 or 500; /api/price looks for a bot's price first.
FetchFails(r) ==
    /\ pc[r] = "fetch"
    /\ Unlocks(r) /\ Gone(r)
    /\ UNCHANGED <<clock, breaker, caches, walk, seen>>

----------------------------------------------------------------------------
\* /api/chart.

ChartHit(r) ==
    /\ Idle(r) /\ Fresh(chartCache)
    /\ Serve(chartCache)
    /\ UNCHANGED <<clock, breakerVars, slots, lock, caches, walk, shown, backwards>>

ChartMiss(r) ==
    /\ ~Fresh(chartCache)
    /\ Begins(r, "chart")
    /\ chartCache' = Null
    /\ To(r, "ask")
    /\ UNCHANGED <<clock, breaker, lock, tickerCache, candlesCache, walk, seen>>

\* The worker thread: get_ohlcv.  What the exchange answers is of that moment.
ChartCalls(r) ==
    /\ kind[r] = "chart" /\ BreakerStep(r)
    /\ asOf' = IF pc[r] = "call" THEN [asOf EXCEPT ![r] = clock] ELSE asOf
    /\ UNCHANGED <<clock, kind, began, lock, caches, walk, seen>>

ChartEnds(r) ==
    /\ kind[r] = "chart" /\ pc[r] = "ended"
    /\ chartCache' = IF outcome[r] = "ok"
                     THEN [until |-> began[r] + Ttl, asOf |-> asOf[r]]
                     ELSE chartCache
    /\ outcome' = [outcome EXCEPT ![r] = "none"]
    /\ Gone(r)
    /\ UNCHANGED <<clock, fields, read, verdicts, lock, tickerCache, candlesCache, walk, seen>>

----------------------------------------------------------------------------
\* /api/candles.

NoWalk == [since |-> 0, empty |-> 0, pages |-> 0, bars |-> {}, lost |-> {}]

CandlesHit(r) ==
    /\ r \in Walkers /\ Idle(r) /\ Fresh(candlesCache)
    /\ Serve(candlesCache)
    /\ UNCHANGED <<clock, breakerVars, slots, lock, caches, walk, shown, backwards>>

CandlesMiss(r) ==
    /\ r \in Walkers /\ ~Fresh(candlesCache)
    /\ Begins(r, "candles")
    /\ candlesCache' = Null
    /\ walk' = [walk EXCEPT ![r] = [NoWalk EXCEPT !.since = First]]
    /\ To(r, "walk")
    /\ UNCHANGED <<clock, breaker, lock, tickerCache, chartCache, seen>>

\* The loop of _fetch_ohlcv_range goes on.
More(w) ==
    /\ w.pages < MaxPages /\ w.since < End /\ w.since < Present
    /\ w.empty < 2

\* What the exchange has from a bar on, up to a page of it (external).
Page(since) ==
    LET left == {b \in Listed : b >= since}
    IN {b \in left : Cardinality({c \in left : c < b}) < PageSize}
Newest(page) == CHOOSE b \in page : \A c \in page : c <= b

Walks(r, w) ==
    /\ pc[r] = "walk" /\ More(walk[r])
    /\ walk' = [walk EXCEPT ![r] = [w EXCEPT !.pages = @ + 1]]
    /\ UNCHANGED <<clock, breakerVars, slots, lock, caches, seen>>

\* Mutated: the count of empty pages is that of the whole walk.
PageArrives_keepsCount(r) ==
    LET w == walk[r]
        page == Page(w.since)
    IN /\ page # {}
       /\ Walks(r, [w EXCEPT !.bars = @ \cup (page \cap First .. End),
                             !.since = Newest(page) + 1])

PageArrives(r) ==
    LET w == walk[r]
        page == Page(w.since)
    IN /\ page # {}
       /\ Walks(r, [w EXCEPT !.empty = 0,
                             !.bars = @ \cup (page \cap First .. End),
                             !.since = Newest(page) + 1])

\* An empty page: there is nothing more, or three tries have failed, which
\* _fetch_ohlcv_page_with_retry answers with the same [].
PageEmpty(r) ==
    LET w == walk[r]
    IN Walks(r, [w EXCEPT !.empty = @ + 1,
                          !.lost = IF Page(w.since) = {} THEN @ ELSE @ \cup {w.since},
                          !.since = IF w.empty = 0 THEN @ + PageSize ELSE @])

\* The bars, however few, are stored and returned.
CandlesEnds(r) ==
    /\ pc[r] = "walk" /\ ~More(walk[r])
    /\ candlesCache' = [until |-> began[r] + Ttl, asOf |-> began[r]]
    /\ walk' = [walk EXCEPT ![r] = NoWalk]
    /\ Gone(r)
    /\ UNCHANGED <<clock, breaker, lock, tickerCache, chartCache, seen>>

----------------------------------------------------------------------------
ClockTicks == clock < MaxClock /\ clock' = clock + 1
        /\ UNCHANGED <<breakerVars, slots, lock, caches, walk, seen>>

ChartsInit ==
    /\ BreakerInit
    /\ clock = 0
    /\ kind = [r \in Threads |-> "none"]
    /\ began = [r \in Threads |-> 0]
    /\ asOf = [r \in Threads |-> 0]
    /\ lock = Null
    /\ tickerCache = Null /\ chartCache = Null /\ candlesCache = Null
    /\ walk = [r \in Walkers |-> NoWalk]
    /\ hit = 0 /\ shown = 0 /\ backwards = FALSE

Ticker(r) ==
    \/ TickerHit(r) \/ TickerMiss(r) \/ PriceAsks(r) \/ TakesLock(r)
    \/ TickerAnswers(r) \/ TickerStores(r) \/ PriceReplies(r) \/ FetchFails(r)
Chart(r) == ChartHit(r) \/ ChartMiss(r) \/ ChartCalls(r) \/ ChartEnds(r)
Candles(r) == CandlesHit(r) \/ CandlesMiss(r)
Walk(r) == PageArrives(r) \/ PageEmpty(r) \/ CandlesEnds(r)

ChartsNext ==
    \/ \E r \in Threads : Ticker(r) \/ Chart(r) \/ Candles(r)
    \/ \E r \in Walkers : Walk(r)
    \/ ClockTicks

ChartsSpec == ChartsInit /\ [][ChartsNext]_chartsVars

----------------------------------------------------------------------------
\* Properties.

\* What a cache serves is younger than its TTL, however long the handler
\* that stored it waited for the lock, the exchange or its next turn
\* (api_ticker, api_chart: now is taken before the lock and the fetch); and
\* the prices a client is shown by /api/ticker never go back in time, since
\* with _price_lock around the fetch payloads are stored in the order in
\* which the exchange made them, though handlers overlap.
ServedInOrder == hit < Ttl /\ ~backwards

\* "One bad page doesn't throw the whole fetch away"
\* (_fetch_ohlcv_page_with_retry): as long as no two pages in a row are
\* given up, what a finished walk misses of the closed bars that exist lies
\* within a page's length of one that was.
Wanted == {b \in Listed : First <= b /\ b < End /\ b < Present}
OneBadPage ==
    \A r \in Walkers :
        LET w == walk[r]
        IN /\ pc[r] = "walk" /\ ~More(w)
           /\ \A b \in w.lost : b + PageSize \notin w.lost
           => \A b \in Wanted \ w.bars :
                 \E s \in w.lost : s <= b /\ b < s + PageSize
=============================================================================
