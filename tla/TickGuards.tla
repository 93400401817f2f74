----------------------------- MODULE TickGuards -----------------------------
(***************************************************************************)
(* What stands between a tick and a new deal: the drawdown guard           *)
(* (core/drawdown_guard.py), the pause flag the engine derives from it     *)
(* (core/trading_engine.py) and LiveEngine's clock-skew hooks, which       *)
(* borrow that flag for one tick (live/live_engine.py).  Guard and flag    *)
(* are written to state.json with every tick, loaded again when the bot    *)
(* starts, and cleared there by the portal's reset route                   *)
(* (web/routes/drawdown.py), whether or not the bot runs.                  *)
(*                                                                         *)
(* The metric the guard watches (equity or balance) is a small integer.    *)
(* At most one deal is open at a time, as DealBooks shows.  Only the       *)
(* guard's fields of state.json are here; how a write of the file races    *)
(* with another is StateFile's subject.                                    *)
(***************************************************************************)
EXTENDS Integers

CONSTANTS
    Values,     \* readings of the metric
    NoPeak,     \* the guard has seen no reading yet
    MaxPct      \* max_drawdown_pct

ASSUME ConstantsAssumption ==
    /\ Values \subseteq Int /\ NoPeak \notin Values
    /\ MaxPct \in 1 .. 100

VARIABLES
    bot,        \* the bot's configuration: its engine class and the action
    engine,     \* "down", "idle", or the part of the tick that is next
    guard,      \* the engine's DrawdownGuard
    paused,     \* _paused_by_drawdown
    skewed,     \* _paused_by_clock_skew
    saved,      \* _prev_drawdown_for_skew
    looping,    \* self.running
    reading,    \* the metric in this tick
    open,       \* is a deal open
    file        \* drawdown_guard and paused_by_drawdown in state.json

flags == <<paused, skewed, saved>>
vars == <<bot, engine, guard, flags, looping, reading, open, file>>

Guards == [peak : Values \cup {NoPeak}, triggered : BOOLEAN]
Reset  == [peak |-> NoPeak, triggered |-> FALSE]

\* drawdown_guard.action, and whether the engine is a LiveEngine, whose hooks
\* are not PaperEngine's no-ops.
Bots == [action : {"pause", "stop"}, live : BOOLEAN]

TickParts == {"guard", "entry", "write", "post"}

\* The reading is max_drawdown_pct or more below the peak.
Fires(peak, value) ==
    /\ peak # NoPeak /\ peak > 0
    /\ (peak - value) * 100 >= MaxPct * peak

\* Mutated: the peak follows every reading.
Updated_follows(g, value) ==
    IF g.triggered THEN g
    ELSE IF Fires(g.peak, value) THEN [g EXCEPT !.triggered = TRUE]
    ELSE [g EXCEPT !.peak = value]

\* DrawdownGuard.update: latched once triggered; a new peak never fires.
Updated(g, value) ==
    IF g.triggered THEN g
    ELSE IF g.peak = NoPeak \/ value > g.peak THEN [g EXCEPT !.peak = value]
    ELSE [g EXCEPT !.triggered = Fires(g.peak, value)]

----------------------------------------------------------------------------
\* Mutated: the peak is not restored, "resetting the baseline".
Load_forgets ==
    /\ engine = "down" /\ engine' = "idle"
    /\ guard' = [file.guard EXCEPT !.peak = NoPeak]
    /\ paused' = file.paused
    /\ skewed' = FALSE /\ saved' = FALSE
    /\ looping' = TRUE
    /\ UNCHANGED <<bot, reading, open, file>>

\* The engine's constructor, _load_state and start().
Load ==
    /\ engine = "down" /\ engine' = "idle"
    /\ guard' = file.guard
    /\ paused' = file.paused
    /\ skewed' = FALSE /\ saved' = FALSE
    /\ looping' = TRUE
    /\ UNCHANGED <<bot, reading, open, file>>

\* _pre_tick_hook: LiveEngine asks for the clock skew; too much of it
\* raises the pause flag and remembers what the flag was.
PreTick ==
    /\ engine = "idle" /\ looping
    /\ engine' = "guard"
    /\ \/ /\ skewed' = FALSE
          /\ UNCHANGED <<paused, saved>>
       \/ /\ bot.live
          /\ skewed' = TRUE /\ paused' = TRUE
          /\ saved' = paused
    /\ UNCHANGED <<bot, guard, looping, reading, open, file>>

\* _monitor_open_deals closes an open deal.
CloseDeal ==
    /\ engine = "guard" /\ open
    /\ open' = FALSE
    /\ UNCHANGED <<bot, engine, guard, flags, looping, reading, file>>

\* Mutated: the action is tied to the tick in which the guard fires.
UpdateGuard_thisTick(value) ==
    /\ engine = "guard" /\ engine' = "entry"
    /\ reading' = value
    /\ guard' = Updated(guard, value)
    /\ IF guard'.triggered /\ ~guard.triggered /\ ~paused
       THEN paused' = TRUE /\ looping' = (bot.action # "stop")
       ELSE UNCHANGED <<paused, looping>>
    /\ UNCHANGED <<bot, skewed, saved, open, file>>

\* _update_drawdown_guard: the action is applied once, and not at all when
\* the engine is paused already.
UpdateGuard(value) ==
    /\ engine = "guard" /\ engine' = "entry"
    /\ reading' = value
    /\ guard' = Updated(guard, value)
    /\ IF guard'.triggered /\ ~paused
       THEN paused' = TRUE /\ looping' = (bot.action # "stop")
       ELSE UNCHANGED <<paused, looping>>
    /\ UNCHANGED <<bot, skewed, saved, open, file>>

\* The operator's manual trigger: bypasses the pause by design.
ManualOpen ==
    /\ engine = "entry" /\ ~open
    /\ open' = TRUE
    /\ UNCHANGED <<bot, engine, guard, flags, looping, reading, file>>

\* _check_entry with a signal.
SignalEntry ==
    /\ engine = "entry" /\ ~paused /\ ~open
    /\ open' = TRUE
    /\ engine' = "write"
    /\ UNCHANGED <<bot, guard, flags, looping, reading, file>>

\* Paused, no signal, or a deal is open.
NoEntry ==
    /\ engine = "entry"
    /\ engine' = "write"
    /\ UNCHANGED <<bot, guard, flags, looping, reading, open, file>>

\* _write_state.
WriteState ==
    /\ engine = "write" /\ engine' = "post"
    /\ file' = [guard |-> guard, paused |-> paused]
    /\ UNCHANGED <<bot, guard, flags, looping, reading, open>>

\* An exception in the tick's body.
TickFails ==
    /\ engine \in {"guard", "entry", "write"} /\ engine' = "post"
    /\ UNCHANGED <<bot, guard, flags, looping, reading, open, file>>

\* _post_tick_hook, in a finally.
PostTick ==
    /\ engine = "post" /\ engine' = "idle"
    /\ paused' = IF skewed THEN saved ELSE paused
    /\ UNCHANGED <<bot, guard, skewed, saved, looping, reading, open, file>>

Gone ==
    /\ engine' = "down"
    /\ guard' = Reset /\ looping' = FALSE
    /\ paused' = FALSE /\ skewed' = FALSE /\ saved' = FALSE

\* The "stop" action cleared self.running: start() returns.
LoopEnds ==
    /\ engine = "idle" /\ ~looping
    /\ Gone
    /\ UNCHANGED <<bot, reading, open, file>>

\* SIGTERM (mark_stopped touches none of these fields) or a kill.
Dies ==
    /\ engine # "down"
    /\ Gone
    /\ UNCHANGED <<bot, reading, open, file>>

\* POST /api/bots/{slug}/drawdown/reset rewrites the file.
ResetRoute ==
    /\ file' = [guard |-> Reset, paused |-> FALSE]
    /\ UNCHANGED <<bot, engine, guard, flags, looping, reading, open>>

----------------------------------------------------------------------------
Init ==
    /\ bot \in Bots
    /\ engine = "down"
    /\ guard = Reset /\ looping = FALSE
    /\ paused = FALSE /\ skewed = FALSE /\ saved = FALSE
    /\ reading \in Values
    /\ open = FALSE
    /\ file = [guard |-> Reset, paused |-> FALSE]

Tick ==
    \/ PreTick \/ CloseDeal
    \/ \E value \in Values : UpdateGuard(value)
    \/ ManualOpen \/ SignalEntry \/ NoEntry
    \/ WriteState \/ TickFails \/ PostTick

Next == Load \/ Tick \/ LoopEnds \/ Dies \/ ResetRoute

Spec == Init /\ [][Next]_vars

\* Ticks keep coming, and again and again one whose clock is right gets as
\* far as the guard, and one gets to its write.
LiveSpec ==
    /\ Spec
    /\ WF_vars(Tick \/ LoopEnds)
    /\ SF_vars(PreTick /\ ~skewed')
    /\ SF_vars(~skewed /\ \E value \in Values : UpdateGuard(value))
    /\ SF_vars(NoEntry)
    /\ SF_vars(WriteState)

----------------------------------------------------------------------------
\* Properties.

\* Every variable holds what its declaration says; only LiveEngine pauses
\* for clock skew, and while it does the pause flag is up.
TypeOK ==
    /\ bot \in Bots
    /\ engine \in {"down", "idle"} \cup TickParts
    /\ guard \in Guards
    /\ paused \in BOOLEAN /\ skewed \in BOOLEAN /\ saved \in BOOLEAN
    /\ looping \in BOOLEAN
    /\ reading \in Values
    /\ open \in BOOLEAN
    /\ file \in [guard : Guards, paused : BOOLEAN]
    /\ skewed => bot.live
    /\ skewed /\ engine \in TickParts => paused

\* Whatever restarts, failed ticks and skewed clocks came before, an entry
\* signal opens no deal while the guard on disk is triggered, nor on a
\* reading that is too far below the peak on disk, nor in a tick whose clock
\* is skewed (_tick, _load_state, _pre_tick_hook).
CalmEntry == /\ ~file.guard.triggered
             /\ ~Fires(file.guard.peak, reading)
             /\ ~skewed
CalmEntries == [][SignalEntry => CalmEntry]_vars

\* "a bot restart with the guard's peak in memory only would silently reset
\* the drawdown baseline" (DrawdownGuard.to_dict): the peak and the trigger
\* on disk go back only by the operator's reset.
Keeps(old, new) ==
    /\ old.triggered => new.triggered
    /\ old.peak # NoPeak => new.peak # NoPeak /\ new.peak >= old.peak
GuardSurvives == [][ResetRoute \/ Keeps(file.guard, file'.guard)]_vars

\* A guard that triggers is acted on, although a tick with a skewed clock
\* skips the action (the borrowed pause flag hides it) and other ticks fail:
\* the engine goes down or is paused by the guard itself.
TriggerIsApplied ==
    (engine # "down" /\ guard.triggered)
        ~> (engine = "down" \/ (paused /\ ~skewed))
=============================================================================
