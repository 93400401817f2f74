-------------------------------- MODULE Exits --------------------------------
(***************************************************************************)
(* When an engine leaves a deal: _monitor_open_deals with its take profit, *)
(* stop loss and DCA (core/trading_engine.py), the overrides that the      *)
(* portal's PATCH route sends by a sentinel, and what paper/state_io.py    *)
(* keeps of a deal across a restart: the highest and the lowest price      *)
(* since it was opened and the peak of a trailing stop.                    *)
(*                                                                         *)
(* Prices are small integers.  A target lies a fixed distance above the    *)
(* average price, a stop one below it or below the peak, instead of a      *)
(* percentage.  All orders have one size.  Deals are long; that a deal is  *)
(* in the file but not in the ledger, or the reverse, is DealBooks' matter;*)
(* there is one sentinel at a time.                                        *)
(***************************************************************************)
EXTENDS Integers

CONSTANTS
    Prices,
    TpGap, SlGap,   \* the distances of target and stop
    Step,           \* order spacing
    MaxOrders,      \* dca.max_orders
    MaxDeals        \* bound on the deals ever opened

ASSUME ExitConstantsAssumption ==
    /\ Prices \subseteq Nat \ {0}
    /\ {TpGap, SlGap, Step, MaxOrders, MaxDeals} \subseteq Nat \ {0}

VARIABLES
    rules,      \* use_wick_simulation, and whether TP has gates or groups
    at,         \* "down", "idle", or the part of the tick that is next
    price,      \* of this tick; 0 between ticks
    deal,       \* the open deal in memory
    kept,       \* the same in state.json
    born,       \* deals opened so far
    asked,      \* the sentinel: [deal, action]
    lived,      \* history: the highest and lowest price in the ticks of each
                \* deal that is in memory or in the file
    left        \* history: this tick's exit, at num / den

exitVars == <<rules, at, price, deal, kept, born, asked, lived, left>>

NoDeal == [id |-> 0]
NoAsk == [deal |-> 0, action |-> "none"]
Unseen == [hi |-> 0, lo |-> 0]
NoExit == [id |-> 0, num |-> 0, den |-> 1]
Higher(a, b) == IF a > b THEN a ELSE b
Lower(a, b) == IF a < b THEN a ELSE b

\* A new PaperDeal: the trackers start from the entry price, the peak unset.
Opened(n, p) ==
    [id |-> n, sum |-> p, orders |-> 1, last |-> p, high |-> p, low |-> p,
     peak |-> 0, tp |-> TRUE, sl |-> "fixed", dca |-> TRUE]

\* deal_to_dict.
ToFile(d) == d

\* Mutated: the trackers are taken for new, as those of an old file are.
FromFile_seeded(d) ==
    IF d = NoDeal THEN d
    ELSE [d EXCEPT !.high = d.sum \div d.orders, !.low = d.sum \div d.orders]

\* dict_to_deal.
FromFile(d) == d

\* compute_tp_target_price and compute_sl_target_price, times the orders.
Target(d) == d.sum + TpGap * d.orders
StopLine(d) ==
    IF d.sl = "trailing" THEN (d.peak - SlGap) * d.orders
    ELSE d.sum - SlGap * d.orders

\* _update_deal_wick_trackers.
Tracked(d, p) == [d EXCEPT !.high = Higher(@, p), !.low = Lower(@, p)]

\* The part of _check_sl that moves the peak.
Trailed(d, p) ==
    IF d.sl = "trailing"
    THEN [d EXCEPT !.peak = Higher(IF @ = 0 THEN p ELSE @,
                                   IF rules.wicks THEN d.high ELSE p)]
    ELSE d

Ticked(d, p) == p * d.orders >= Target(d)
Wicked(d, p) == rules.wicks /\ d.high * d.orders >= Target(d)
TpHit(d, p) == d.tp /\ (Ticked(d, p) \/ Wicked(d, p))
SlHit(d, p) == d.sl # "none" /\ p * d.orders <= StopLine(d)
DcaDue(d, p) == d.dca /\ d.orders < MaxOrders /\ p <= d.last - Step

\* The price is fetched, and the open deal has lived through it.
Sees(p) ==
    /\ at = "idle" /\ price' = p
    /\ lived' = IF deal = NoDeal THEN lived
                ELSE [lived EXCEPT ![deal.id] =
                        [hi |-> Higher(@.hi, p), lo |-> Lower(@.lo, p)]]

Leaves(d, num, den) ==
    /\ deal' = NoDeal
    /\ left' = [id |-> d.id, num |-> num, den |-> den]

----------------------------------------------------------------------------
\* _monitor_open_deals.

Idles(p) ==
    /\ deal = NoDeal /\ Sees(p) /\ at' = "sentinels"
    /\ UNCHANGED <<rules, deal, kept, born, asked, left>>

\* _check_tp: a wick alone fills at the target, a tick at its price.
TakesProfit(p) ==
    /\ deal # NoDeal /\ Sees(p) /\ at' = "sentinels"
    /\ LET d == Tracked(deal, p)
       IN  /\ TpHit(d, p)
           /\ IF Ticked(d, p) THEN Leaves(d, p, 1)
              ELSE Leaves(d, Target(d), d.orders)
    /\ UNCHANGED <<rules, kept, born, asked>>

\* A TP indicator group, looked at when the price is not there.
GroupTakes(p) ==
    /\ deal # NoDeal /\ Sees(p) /\ at' = "sentinels"
    /\ LET d == Tracked(deal, p)
       IN  rules.indicators /\ d.tp /\ ~TpHit(d, p) /\ Leaves(d, p, 1)
    /\ UNCHANGED <<rules, kept, born, asked>>

\* Not taken: not hit, or held by the minimum profit or the confirmation.
Holds(d, p) == TpHit(d, p) => rules.indicators

\* _check_sl, by the tick only.
StopsOut(p) ==
    /\ deal # NoDeal /\ Sees(p) /\ at' = "sentinels"
    /\ LET d == Trailed(Tracked(deal, p), p)
       IN  Holds(d, p) /\ SlHit(d, p) /\ Leaves(d, p, 1)
    /\ UNCHANGED <<rules, kept, born, asked>>

\* _check_dca: an order more at this price, if it is due.
Stays(p) ==
    /\ deal # NoDeal /\ Sees(p) /\ at' = "sentinels"
    /\ LET d == Trailed(Tracked(deal, p), p)
       IN  /\ Holds(d, p) /\ ~SlHit(d, p)
           /\ deal' = IF DcaDue(d, p)
                      THEN [d EXCEPT !.sum = @ + p, !.orders = @ + 1, !.last = p]
                      ELSE d
    /\ UNCHANGED <<rules, kept, born, asked, left>>

----------------------------------------------------------------------------
\* The rest of the tick.

\* The PATCH and DELETE routes write a sentinel for any deal id.
Asks(n, action) ==
    /\ asked = NoAsk /\ n \in 1..born
    /\ asked' = [deal |-> n, action |-> action]
    /\ UNCHANGED <<rules, at, price, deal, kept, born, lived, left>>

\* _check_deal_sentinels: the file is gone before its request is carried
\* out; one for a deal that is not open is dropped.
Consumes ==
    /\ at = "sentinels" /\ at' = "entry" /\ asked' = NoAsk
    /\ \/ /\ asked.deal # deal.id \/ asked = NoAsk
          /\ UNCHANGED <<deal, left>>
       \/ /\ asked.deal = deal.id /\ asked.action = "edit"
          /\ \E tp, dca \in BOOLEAN, sl \in {"none", "fixed", "trailing"} :
               deal' = [deal EXCEPT !.tp = tp, !.dca = dca, !.sl = sl]
          /\ UNCHANGED left
       \/ /\ asked.deal = deal.id /\ asked.action = "close"
          /\ Leaves(deal, price, 1)
    /\ UNCHANGED <<rules, price, kept, born, lived>>

\* _open_deal: by the manual trigger, ahead of the sentinels, or by
\* _check_entry.
Enters ==
    /\ deal = NoDeal /\ born < MaxDeals
    /\ \/ at = "sentinels" /\ UNCHANGED at
       \/ at = "entry" /\ at' = "write"
    /\ born' = born + 1
    /\ deal' = Opened(born', price)
    /\ lived' = [lived EXCEPT ![born'] = [hi |-> price, lo |-> price]]
    /\ UNCHANGED <<rules, price, kept, asked, left>>

Waits ==
    /\ at = "entry" /\ at' = "write"
    /\ UNCHANGED <<rules, price, deal, kept, born, asked, lived, left>>

Writes ==
    /\ at = "write" /\ at' = "idle"
    /\ kept' = ToFile(deal) /\ price' = 0 /\ left' = NoExit
    /\ lived' = [n \in 1..MaxDeals |-> IF n = deal.id THEN lived[n] ELSE Unseen]
    /\ UNCHANGED <<rules, deal, born, asked>>

\* The engine dies, in the middle of a tick too.
Falls ==
    /\ at # "down" /\ at' = "down" /\ deal' = NoDeal
    /\ price' = 0 /\ left' = NoExit
    /\ UNCHANGED <<rules, kept, born, asked, lived>>

\* _load_state.
Loads ==
    /\ at = "down" /\ at' = "idle"
    /\ deal' = FromFile(kept)
    /\ UNCHANGED <<rules, price, kept, born, asked, lived, left>>

----------------------------------------------------------------------------
ExitInit ==
    /\ rules \in [wicks : BOOLEAN, indicators : BOOLEAN]
    /\ at = "down" /\ price = 0
    /\ deal = NoDeal /\ kept = NoDeal /\ born = 0 /\ asked = NoAsk
    /\ lived = [n \in 1..MaxDeals |-> Unseen]
    /\ left = NoExit

ExitNext ==
    \/ \E p \in Prices : \/ Idles(p) \/ TakesProfit(p) \/ GroupTakes(p)
                         \/ StopsOut(p) \/ Stays(p)
    \/ \E n \in 1..MaxDeals, action \in {"edit", "close"} : Asks(n, action)
    \/ Consumes \/ Enters \/ Waits \/ Writes \/ Falls \/ Loads

ExitSpec == ExitInit /\ [][ExitNext]_exitVars

----------------------------------------------------------------------------
\* A deal's trackers and its trailing peak are its own: through DCA orders,
\* overrides, ticks cut short and restarts they never take in a price from
\* before the deal was opened, nor fall behind what state.json had of them
\* (PaperDeal, deal_to_dict); and no deal is left at a price that the market
\* did not pass while it was open (_check_tp, _check_sl).
OwnExtremes ==
    /\ deal # NoDeal =>
           /\ lived[deal.id].lo <= deal.low /\ deal.high <= lived[deal.id].hi
           /\ deal.peak <= lived[deal.id].hi
           /\ deal.id = kept.id => /\ kept.high <= deal.high
                                   /\ deal.low <= kept.low
                                   /\ kept.peak <= deal.peak
    /\ left.id # 0 => /\ lived[left.id].lo * left.den <= left.num
                      /\ left.num <= lived[left.id].hi * left.den
=============================================================================
