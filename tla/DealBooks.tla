----------------------------- MODULE DealBooks -----------------------------
(***************************************************************************)
(* The three places one bot's deals are recorded, and everybody who writes *)
(* them under the state-lock protocol.                                     *)
(*                                                                         *)
(*   mem     PaperState in the bot subprocess (paper/paper_state.py)       *)
(*   file    logs/<uid>/<slug>.state.json     (paper/state_io.py)          *)
(*   ledger  the `deals` table of SQLite      (core/deal_store.py)         *)
(*                                                                         *)
(* The bot subprocess (main_paper.py, core/trading_engine.py) loads `file` *)
(* once, under the state lock, and then rewrites it at the end of every    *)
(* tick without the lock.  Portal worker threads (web/routes/deals.py)     *)
(* close deals of a stopped bot straight in `file` and `ledger`, under the *)
(* lock and after checking inside it that the bot is not running; for a    *)
(* running bot they leave a sentinel file that the tick consumes.          *)
(*                                                                         *)
(* Prices, fees and sizes are left out: a TP or SL hit is a choice.  The   *)
(* process can be killed between any two steps, a database write or a file *)
(* write can fail (the code logs and goes on), when Faults says so.        *)
(***************************************************************************)
EXTENDS Integers, FiniteSets

CONSTANTS
    Deals,      \* deal ids (core/ids.py mints them; here a finite set)
    Closers,    \* portal worker threads serving DELETE .../deals/{id}
    NoDeal,     \* "no deal in hand"
    Faults      \* the kinds of fault that may happen

FaultKinds == {"crash",     \* the bot subprocess is killed (SIGKILL, OOM)
               "portal",    \* the portal process dies
               "db",        \* a SQLite write raises; callers soft-fail
               "disk"}      \* StateIO.write raises; it is swallowed

ASSUME ConstantsAssumption ==
    /\ Faults \subseteq FaultKinds
    /\ NoDeal \notin Deals
    /\ Closers \cap {"free", "bot"} = {}

VARIABLES
    bot,        \* where the bot subprocess is
    step,       \* inside an open or a close: what has been done so far
    cur,        \* the deal that open or close is about
    batch,      \* sentinels the current scan found and has not taken yet
    mem,        \* the subprocess's PaperState
    lock,       \* holder of <slug>.state.lock
    file,       \* the deals and balance of state.json
    running,    \* the `running` field of state.json
    ledger,     \* the rows of the deals table
    sentinels,  \* deals with a deal_close sentinel file
    pc,         \* where each portal worker is
    want,       \* the deal each portal worker was asked to close
    snap        \* each portal worker's private PaperState

engineVars == <<bot, step, cur, batch, mem>>
closerVars == <<pc, want, snap>>
diskVars   == <<file, running, ledger, sentinels>>
vars == <<engineVars, closerVars, diskVars, lock>>

----------------------------------------------------------------------------
\* Books: what PaperState holds and state.json serialises.

Status == {"absent", "open", "closed"}
Books  == [st : [Deals -> Status], paid : [Deals -> Nat]]

NoBooks == [st   |-> [d \in Deals |-> "absent"],
            paid |-> [d \in Deals |-> 0]]

\* PaperState.open_deal
OpenIn(b, d) == [st |-> [b.st EXCEPT ![d] = "open"], paid |-> b.paid]

\* Mutated (used by no definition): a close that does not look whether the deal
\* is still open.
CloseIn_anyStatus(b, d) ==
    [st   |-> [b.st EXCEPT ![d] = "closed"],
     paid |-> [b.paid EXCEPT ![d] = @ + 1]]

\* PaperState.close_deal: a deal that is not open is left alone; an open one
\* moves to the history and its PnL to the balance.
CloseIn(b, d) ==
    IF b.st[d] = "open"
    THEN [st   |-> [b.st EXCEPT ![d] = "closed"],
          paid |-> [b.paid EXCEPT ![d] = @ + 1]]
    ELSE b

OpenDeals(b) == {d \in Deals : b.st[d] = "open"}

\* deal_store.close_deal is an UPDATE: a missing row stays missing.
RowClosed(l, d) == IF l[d] = "absent" THEN l ELSE [l EXCEPT ![d] = "closed"]

\* deal_store.save_deal: UPDATE with the caller's status, else INSERT.
RowSaved(l, d, s) == [l EXCEPT ![d] = s]

\* replay_deals_in_transaction: INSERT OR IGNORE of every deal of the file.
Replayed(l, b) == [d \in Deals |-> IF l[d] = "absent" THEN b.st[d] ELSE l[d]]

\* A soft-failing database write.
TryRow(new) == \/ ledger' = new
               \/ "db" \in Faults /\ ledger' = ledger

\* StateIO.write: tmp file and atomic rename; an exception is swallowed.
TryWrite(books, flag) ==
    \/ file' = books /\ running' = flag
    \/ "disk" \in Faults /\ UNCHANGED <<file, running>>

----------------------------------------------------------------------------
\* The bot subprocess.

TickStages == {"monitor", "trigger", "sentinels", "entry", "write"}

\* The order _tick calls them in.
After == [monitor |-> "trigger", trigger |-> "sentinels",
          sentinels |-> "entry", entry |-> "write"]

\* The engine owns the state: loaded, signal handlers installed.
Owning == TickStages \cup {"idle"}

\* BotInfo.running: a pid file whose process answers signal 0.
BotRunning == bot # "down"

At(stage) == bot = stage /\ step = "none"

\* start_bot spawns main_paper.py, which writes its pid file first.
Spawn ==
    /\ bot = "down"
    /\ bot' = "boot"
    /\ UNCHANGED <<step, cur, batch, mem, lock, closerVars, diskVars>>

\* Mutated: the engine is constructed without taking the state lock.
BootLock_unlocked ==
    /\ bot = "boot"
    /\ bot' = "load"
    /\ UNCHANGED <<step, cur, batch, mem, lock, closerVars, diskVars>>

\* exclusive_lock around the PaperEngine constructor.
BootLock ==
    /\ bot = "boot" /\ lock = "free"
    /\ bot' = "load" /\ lock' = "bot"
    /\ UNCHANGED <<step, cur, batch, mem, closerVars, diskVars>>

\* LockTimeoutError: exit(2), the atexit hook removes the pid file.
BootTimeout ==
    /\ bot = "boot" /\ lock # "free"
    /\ bot' = "down"
    /\ UNCHANGED <<step, cur, batch, mem, lock, closerVars, diskVars>>

\* _load_state: rehydrate, replay into the ledger, leave the lock.
LoadState ==
    /\ bot = "load"
    /\ mem' = file
    /\ TryRow(Replayed(ledger, file))
    /\ lock' = "free"
    /\ bot' = "idle"
    /\ UNCHANGED <<step, cur, batch, closerVars, file, running, sentinels>>

BeginTick ==
    /\ At("idle")
    /\ bot' = "monitor"
    /\ UNCHANGED <<step, cur, batch, mem, lock, closerVars, diskVars>>

\* Mutated: the scan globs for another slug and finds nothing.
Scan_wrongSlug(stage) == batch' = batch

\* Entering the sentinel scan lists the sentinel files there are; one that
\* appears during the scan waits for the next tick.
Scan(stage) == batch' = IF stage = "sentinels" THEN sentinels ELSE batch

\* A stage ends with nothing (more) to do.
NextStage ==
    /\ step = "none" /\ bot \in TickStages \ {"write"}
    /\ batch = {}
    /\ bot' = After[bot]
    /\ Scan(After[bot])
    /\ UNCHANGED <<step, cur, mem, lock, closerVars, diskVars>>

\* An exception caught by _tick: the rest of the tick, the write included,
\* is skipped; what memory already holds stays.
TickFails ==
    /\ step = "none" /\ bot \in TickStages
    /\ bot' = "idle" /\ batch' = {}
    /\ UNCHANGED <<step, cur, mem, lock, closerVars, diskVars>>

\* _check_tp and _check_sl: memory first, then the ledger row.
HitTarget(d) ==
    /\ At("monitor") /\ mem.st[d] = "open"
    /\ mem' = CloseIn(mem, d)
    /\ cur' = d /\ step' = "closed"
    /\ UNCHANGED <<bot, batch, lock, closerVars, diskVars>>

RecordHit ==
    /\ step = "closed"
    /\ TryRow(RowClosed(ledger, cur))
    /\ cur' = NoDeal /\ step' = "none"
    /\ UNCHANGED <<bot, batch, mem, lock, closerVars, file, running, sentinels>>

\* _check_dca appends an order to an open deal and upserts its row.
PlaceDca(d) ==
    /\ At("monitor") /\ mem.st[d] = "open"
    /\ ledger' = RowSaved(ledger, d, "open")
    /\ UNCHANGED <<engineVars, lock, closerVars, file, running, sentinels>>

\* _open_deal, reached from the manual trigger and from an entry signal:
\* only with no deal open in memory; the row is inserted before memory
\* changes (a taken id raises IntegrityError and another one is minted).
InsertDeal(d) ==
    /\ At("trigger") \/ At("entry")
    /\ OpenDeals(mem) = {}
    /\ ledger[d] = "absent"
    /\ ledger' = [ledger EXCEPT ![d] = "open"]
    /\ cur' = d /\ step' = "inserted"
    /\ UNCHANGED <<bot, batch, mem, lock, closerVars, file, running, sentinels>>

TrackDeal ==
    /\ step = "inserted"
    /\ mem' = OpenIn(mem, cur)
    /\ cur' = NoDeal /\ step' = "none"
    /\ bot' = After[bot]
    /\ Scan(After[bot])
    /\ UNCHANGED <<lock, closerVars, diskVars>>

\* _check_deal_sentinels: the sentinel is unlinked before it is acted on;
\* DealCloseHandler then closes in memory, in the ledger and in the file.
TakeSentinel(d) ==
    /\ At("sentinels") /\ d \in batch
    /\ batch' = batch \ {d}
    /\ sentinels' = sentinels \ {d}
    /\ mem' = CloseIn(mem, d)
    /\ IF mem.st[d] = "open" THEN cur' = d /\ step' = "handled"
                             ELSE UNCHANGED <<cur, step>>
    /\ UNCHANGED <<bot, lock, closerVars, file, running, ledger>>

RecordHandled ==
    /\ step = "handled"
    /\ TryRow(RowClosed(ledger, cur))
    /\ step' = "recorded"
    /\ UNCHANGED <<bot, cur, batch, mem, lock, closerVars, file, running, sentinels>>

\* _persist_state merges into what is on disk: `running` stays.
PersistHandled ==
    /\ step = "recorded"
    /\ TryWrite(mem, running)
    /\ cur' = NoDeal /\ step' = "none"
    /\ UNCHANGED <<bot, batch, mem, lock, closerVars, ledger, sentinels>>

\* _write_state ends the tick.
WriteState ==
    /\ At("write")
    /\ TryWrite(mem, TRUE)
    /\ bot' = "idle"
    /\ UNCHANGED <<step, cur, batch, mem, lock, closerVars, ledger, sentinels>>

\* The subprocess is gone, and its memory and its flock with it.
Gone ==
    /\ bot' = "down" /\ step' = "none" /\ cur' = NoDeal
    /\ batch' = {} /\ mem' = NoBooks
    /\ lock' = IF lock = "bot" THEN "free" ELSE lock

\* SIGTERM: the handler interrupts the main thread between any two steps
\* of a tick; stop() -> mark_stopped() re-reads state.json and only
\* rewrites its `running` field; sys.exit.
Stop ==
    /\ bot \in Owning
    /\ TryWrite(file, FALSE)
    /\ Gone
    /\ UNCHANGED <<closerVars, ledger, sentinels>>

\* The drawdown guard's "stop" action clears self.running: the loop ends
\* after the tick, without stop().
LoopEnds ==
    /\ At("idle")
    /\ Gone
    /\ UNCHANGED <<closerVars, diskVars>>

\* SIGKILL or OOM anywhere; SIGTERM before the handler is installed.
Killed ==
    /\ bot # "down"
    /\ "crash" \in Faults \/ bot \in {"boot", "load"}
    /\ Gone
    /\ UNCHANGED <<closerVars, diskVars>>

----------------------------------------------------------------------------
\* Portal worker threads: api_deal_action and _close_deal_offline.

Become(c, p) == pc' = [pc EXCEPT ![c] = p]

\* The worker forgets its request.
Reset(c) ==
    /\ Become(c, "idle")
    /\ want' = [want EXCEPT ![c] = NoDeal]
    /\ snap' = [snap EXCEPT ![c] = NoBooks]

\* api_deal_action with a running bot: leave a sentinel file.
AskSentinel(c, d) ==
    /\ pc[c] = "idle" /\ BotRunning
    /\ sentinels' = sentinels \cup {d}
    /\ UNCHANGED <<engineVars, lock, closerVars, file, running, ledger>>

\* api_deal_action with a stopped bot; the ticker is fetched without lock.
AskOffline(c, d) ==
    /\ pc[c] = "idle" /\ ~BotRunning
    /\ Become(c, "fetch")
    /\ want' = [want EXCEPT ![c] = d]
    /\ UNCHANGED <<engineVars, lock, snap, diskVars>>

\* No price, or LockTimeoutError: 503, nothing was touched.
GiveUp(c) ==
    /\ pc[c] = "fetch"
    /\ Reset(c)
    /\ UNCHANGED <<engineVars, lock, diskVars>>

CloserLock(c) ==
    /\ pc[c] = "fetch" /\ lock = "free"
    /\ lock' = c
    /\ Become(c, "locked")
    /\ UNCHANGED <<engineVars, want, snap, diskVars>>

\* Mutated: the running check is not repeated inside the lock.
Recheck_dropped(c) ==
    /\ pc[c] = "locked"
    /\ Become(c, "checked")
    /\ UNCHANGED <<engineVars, want, snap, lock, diskVars>>

\* The second look at bot_info.running, inside the lock; 409 if it runs.
Recheck(c) ==
    /\ pc[c] = "locked"
    /\ IF BotRunning THEN Reset(c) /\ lock' = "free"
                     ELSE Become(c, "checked") /\ UNCHANGED <<want, snap, lock>>
    /\ UNCHANGED <<engineVars, diskVars>>

\* load_paper_state_from_file, and 404 when the deal is not open in it.
LoadSnapshot(c) ==
    /\ pc[c] = "checked"
    /\ IF file.st[want[c]] = "open"
       THEN /\ Become(c, "loaded")
            /\ snap' = [snap EXCEPT ![c] = file]
            /\ UNCHANGED <<want, lock>>
       ELSE Reset(c) /\ lock' = "free"
    /\ UNCHANGED <<engineVars, diskVars>>

\* DealCloseHandler on the private PaperState, then the ledger row.
CloserRecord(c) ==
    /\ pc[c] = "loaded"
    /\ snap' = [snap EXCEPT ![c] = CloseIn(@, want[c])]
    /\ TryRow(RowClosed(ledger, want[c]))
    /\ Become(c, "recorded")
    /\ UNCHANGED <<engineVars, lock, want, file, running, sentinels>>

\* _persist_state, end of the lock's scope, answer to the operator.
CloserPersist(c) ==
    /\ pc[c] = "recorded"
    /\ TryWrite(snap[c], running)
    /\ Reset(c)
    /\ lock' = "free"
    /\ UNCHANGED <<engineVars, ledger, sentinels>>

\* The portal process dies: its threads and its flock are gone.
PortalDies ==
    /\ "portal" \in Faults
    /\ pc' = [c \in Closers |-> "idle"]
    /\ want' = [c \in Closers |-> NoDeal]
    /\ snap' = [c \in Closers |-> NoBooks]
    /\ lock' = IF lock \in Closers THEN "free" ELSE lock
    /\ UNCHANGED <<engineVars, diskVars>>

----------------------------------------------------------------------------
Init ==
    /\ bot = "down" /\ step = "none" /\ cur = NoDeal
    /\ batch = {} /\ mem = NoBooks
    /\ lock = "free"
    /\ file = NoBooks /\ running = FALSE
    /\ ledger = NoBooks.st
    /\ sentinels = {}
    /\ pc = [c \in Closers |-> "idle"]
    /\ want = [c \in Closers |-> NoDeal]
    /\ snap = [c \in Closers |-> NoBooks]

Boot == Spawn \/ BootLock \/ BootTimeout \/ LoadState

Tick ==
    \/ BeginTick \/ NextStage \/ TickFails \/ WriteState
    \/ RecordHit \/ TrackDeal \/ RecordHandled \/ PersistHandled
    \/ \E d \in Deals : HitTarget(d) \/ PlaceDca(d) \/ InsertDeal(d)
                                                   \/ TakeSentinel(d)

Exit == Stop \/ LoopEnds \/ Killed

Serve(c) ==
    \/ GiveUp(c) \/ CloserLock(c) \/ Recheck(c) \/ LoadSnapshot(c)
    \/ CloserRecord(c) \/ CloserPersist(c)

Ask(c) == \E d \in Deals : AskSentinel(c, d) \/ AskOffline(c, d)

Next ==
    \/ Boot \/ Tick \/ Exit \/ PortalDies
    \/ \E c \in Closers : Ask(c) \/ Serve(c)

Spec == Init /\ [][Next]_vars

\* Liveness assumes that the subprocess is scheduled and that ticks do not
\* fail forever: the exchange answers again and again, so a tick gets past
\* monitoring and into the sentinel scan infinitely often.
TickFairness ==
    /\ WF_vars(Boot \/ Tick)
    /\ SF_vars(NextStage /\ bot = "monitor")
    /\ SF_vars(NextStage /\ bot = "trigger")
    /\ \A d \in Deals : SF_vars(TakeSentinel(d))

LiveSpec == Spec /\ TickFairness

----------------------------------------------------------------------------
\* Properties.

\* Every variable holds what its declaration says.
TypeOK ==
    /\ bot \in {"down", "boot", "load"} \cup Owning
    /\ step \in {"none", "closed", "inserted", "handled", "recorded"}
    /\ cur \in Deals \cup {NoDeal}
    /\ batch \in SUBSET Deals
    /\ mem \in Books /\ file \in Books
    /\ lock \in {"free", "bot"} \cup Closers
    /\ running \in BOOLEAN
    /\ ledger \in [Deals -> Status]
    /\ sentinels \in SUBSET Deals
    /\ pc \in [Closers -> {"idle", "fetch", "locked", "checked", "loaded",
                            "recorded"}]
    /\ want \in [Closers -> Deals \cup {NoDeal}]
    /\ snap \in [Closers -> Books]

Counted(b) == \A d \in Deals : b.paid[d] = IF b.st[d] = "closed" THEN 1 ELSE 0

\* In memory, on disk and in a portal worker's copy, a deal's profit or loss
\* is in the balance exactly when the deal is in the closed history, however
\* closes by target, by sentinel and by the portal are interleaved with
\* crashes and restarts (PaperState.close_deal, _persist_state, _load_state).
PnlCountedOnce ==
    Counted(mem) /\ Counted(file) /\ \A c \in Closers : Counted(snap[c])

\* The engine never tracks, and state.json never names, a deal the ledger
\* has no row for: _open_deal refuses the open when the INSERT fails.
LedgerKnowsDeals ==
    \A d \in Deals :
        mem.st[d] # "absent" \/ file.st[d] # "absent" => ledger[d] # "absent"

\* A bot never has two deals open at once, in memory or on disk, although
\* manual triggers and entry signals both open deals and restarts reload
\* them (_check_entry, _check_manual_trigger).
OneOpenDeal ==
    \A d, e \in Deals : /\ {d, e} \subseteq OpenDeals(mem) => d = e
                        /\ {d, e} \subseteq OpenDeals(file) => d = e

\* A portal worker that passed the second running check works on state.json
\* only while no engine owns the state: a bot that starts meanwhile waits
\* for the lock before it loads (_close_deal_offline, main_paper.main).
CloserExcludesEngine ==
    \A c \in Closers :
        pc[c] \in {"checked", "loaded", "recorded"} => bot \in {"down", "boot"}

\* Unless a ledger write failed, a deal closed in state.json has a closed
\* row: no DCA upsert of a deal that was just closed opens it again
\* (_monitor_open_deals re-checks open_deals between TP, SL and DCA).
ClosedRowsFollowFile ==
    "db" \notin Faults =>
        \A d \in Deals : file.st[d] = "closed" => ledger[d] = "closed"

\* What state.json says over time is the history DealHistory promises: no
\* interleaving of ticks, restarts and portal closes re-opens or forgets a
\* deal in the file, nor credits it twice.
History == INSTANCE DealHistory WITH status <- file.st, credited <- file.paid
FollowsHistory == History!Spec

\* A close the operator asked of a running bot is taken up by some tick,
\* unless the bot goes down first (_check_deal_sentinels).
SentinelServed ==
    \A d \in Deals : d \in sentinels ~> (d \notin sentinels \/ bot = "down")

=============================================================================
