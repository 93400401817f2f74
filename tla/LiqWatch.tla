------------------------------ MODULE LiqWatch ------------------------------
(***************************************************************************)
(* The liquidation guard (core/liquidation_guard.py): a thread of the bot  *)
(* that looks every check_interval at the positions the last tick left it  *)
(* and warns the user directly, past the notification queue.               *)
(*                                                                         *)
(* Deals are opened and closed one at a time.  The distance between mark   *)
(* and liquidation price is one of Zones; "unknown" is a position without  *)
(* a price, or without leverage.                                           *)
(***************************************************************************)
EXTENDS Notifier, Naturals

CONSTANTS Deals, NoDeal

ASSUME LiqAssumption == NoDeal \notin Deals

VARIABLES
    deal,       \* the open deal
    past,       \* the deals closed
    zone,       \* where the market stands
    positions,  \* the guard's _positions: sets of [deal, zone]
    copy,       \* the guard's copy, under judgement
    warned,     \* _warned: each deal's last level, or "none"
    thread,     \* "sleep", "check", or "ended"
    running,    \* the guard's flag
    ok,         \* the last tick got a price
    late        \* how many warnings each deal had after it was closed

dealVars == <<deal, past, zone, ok>>
guardVars == <<copy, warned, thread, late>>
liqVars == <<dealVars, positions, guardVars, running>>

Zones == {"safe", "warn", "emergency", "unknown"}
Positions == IF deal = NoDeal THEN {} ELSE {[deal |-> deal, zone |-> zone]}

----------------------------------------------------------------------------
\* The market and the tick loop.

Moves(z) ==
    /\ zone' = z
    /\ UNCHANGED <<deal, past, ok, positions, guardVars, running, notifier>>

\* Entry, or trigger, after the positions were handed over.
Opens(d) ==
    /\ running /\ deal = NoDeal /\ d \notin past
    /\ deal' = d
    /\ UNCHANGED <<past, zone, ok, positions, guardVars, running, notifier>>

\* Target or stop-loss before they are, a sentinel after.
Closes ==
    /\ running /\ deal # NoDeal
    /\ deal' = NoDeal /\ past' = past \cup {deal}
    /\ UNCHANGED <<zone, ok, positions, guardVars, running, notifier>>

\* _update_liq_guard.
Updates ==
    /\ running
    /\ positions' = Positions
    /\ ok' = TRUE
    /\ UNCHANGED <<deal, past, zone, guardVars, running, notifier>>

\* The tick gets no price: the guard keeps what it has.
Fails ==
    /\ running /\ ok
    /\ ok' = FALSE
    /\ UNCHANGED <<deal, past, zone, positions, guardVars, running, notifier>>

\* engine.stop().
Stops ==
    /\ running
    /\ running' = FALSE
    /\ UNCHANGED <<dealVars, positions, guardVars, notifier>>

----------------------------------------------------------------------------
\* The guard's thread.

\* It wakes and copies the list under its lock.
Copies ==
    /\ thread = "sleep" /\ running
    /\ copy' = positions /\ thread' = "check"
    /\ UNCHANGED <<dealVars, positions, warned, late, running, notifier>>

Ends ==
    /\ thread = "sleep" /\ ~running
    /\ thread' = "ended"
    /\ UNCHANGED <<dealVars, positions, copy, warned, late, running, notifier>>

\* Mutated: any level keeps the guard silent until the position is safe.
Due_once(p) == p.zone \in {"warn", "emergency"} /\ warned[p.deal] = "none"

\* The levels only rise, until the position was safe again.
Due(p) ==
    \/ p.zone = "emergency" /\ warned[p.deal] # "emergency"
    \/ p.zone = "warn" /\ warned[p.deal] = "none"

\* Mutated: what is not open any more is forgotten.
Noted_open(p) ==
    IF Due(p) /\ p.deal = deal THEN p.zone
    ELSE IF p.zone = "safe" \/ p.deal # deal THEN "none" ELSE warned[p.deal]

Noted(p) ==
    IF Due(p) THEN p.zone ELSE IF p.zone = "safe" THEN "none" ELSE warned[p.deal]

\* _check_position; the call to Telegram is made before the level is noted.
Judges(p) ==
    /\ thread = "check" /\ p \in copy
    /\ warned' = [warned EXCEPT ![p.deal] = Noted(p)]
    /\ late' = IF Due(p) /\ Passes("liquidation") /\ p.deal \in past
               THEN [late EXCEPT ![p.deal] = @ + 1] ELSE late
    /\ copy' = copy \ {p}
    /\ UNCHANGED <<dealVars, positions, thread, running, notifier>>

Rests ==
    /\ thread = "check" /\ copy = {}
    /\ thread' = "sleep"
    /\ UNCHANGED <<dealVars, positions, copy, warned, late, running, notifier>>

----------------------------------------------------------------------------
LiqInit ==
    /\ deal = NoDeal /\ past = {} /\ zone = "safe" /\ ok = TRUE
    /\ positions = {} /\ copy = {}
    /\ warned = [d \in Deals |-> "none"] /\ late = [d \in Deals |-> 0]
    /\ thread = "sleep" /\ running = TRUE

Guard == Copies \/ Ends \/ Rests \/ \E p \in copy : Judges(p)

LiqNext ==
    \/ \E z \in Zones : Moves(z)
    \/ \E d \in Deals : Opens(d)
    \/ Closes \/ Updates \/ Fails \/ Stops \/ Guard

LiqSpec == LiqInit /\ NotifierInit /\ [][LiqNext]_<<liqVars, notifier>>

----------------------------------------------------------------------------
\* Properties.

\* A deal that stays near liquidation while ticks go well is warned about at
\* the emergency level, whatever was sent before: a warning at the lower
\* level does not silence it (_check_position).
DangerTold ==
    \A d \in Deals :
        deal = d /\ zone = "emergency"
            ~> \/ warned[d] = "emergency"
               \/ deal # d \/ zone # "emergency" \/ ~ok \/ ~running

\* The guard may warn about a deal the tick has closed, but not for ever,
\* though no later tick may bring it a new list: a copy in hand, and the
\* list itself, once each.
FewLateWarnings == \A d \in Deals : late[d] <= 2
=============================================================================
