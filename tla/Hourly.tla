------------------------------- MODULE Hourly -------------------------------
(***************************************************************************)
(* The scheduler's process (main_scheduler.py, core/portfolio_store.py,    *)
(* core/price_feed.py): at each full hour it deletes expired link tickets  *)
(* and writes one balance snapshot per exchange account; and the portal's  *)
(* manual snapshot (web/routes/portfolio.py).  Both share the database     *)
(* with ChatLinks and with the handlers that add and delete accounts.      *)
(*                                                                         *)
(* One user and one scheduler process at a time; the clock does not step   *)
(* back.  Balances and rates are left out: a capture works or is skipped.  *)
(***************************************************************************)
EXTENDS ChatLinks

CONSTANTS
    Accounts,
    MaxNow      \* bound on the clock

ASSUME HourlyAssumption == MaxNow \in Nat /\ None \notin Accounts

VARIABLES
    accounts,   \* exchange_accounts
    pc,         \* where the scheduler is
    target,     \* the time its sleep ends
    stop,       \* _shutdown_requested
    todo,       \* accounts its batch has still to capture
    taken,      \* the hours each account has an automatic row for
    doubled,    \* an account got two in one hour
    batch,      \* accounts the manual handler has still to capture, or None
    last,       \* the time of each account's last manual row, or None
    hasty       \* an account got two within an hour

schedVars == <<pc, target, stop, todo, taken, doubled>>
manualVars == <<batch, last, hasty>>
vars == <<now, chatVars, accounts, schedVars, manualVars>>

NextHour == ((now \div Hour) + 1) * Hour
Running == pc \in {"sleep", "woken", "batch"}

----------------------------------------------------------------------------
\* main.

\* Started by its supervisor, after a crash or a clean exit.
Boots ==
    /\ ~Running
    /\ pc' = "sleep" /\ target' = NextHour /\ stop' = FALSE /\ todo' = {}
    /\ UNCHANGED <<now, chatVars, accounts, taken, doubled, manualVars>>

\* The sleep is over and no SIGTERM was seen.
Wakes ==
    /\ pc = "sleep" /\ now >= target /\ ~stop
    /\ pc' = "woken" /\ target' = 0
    /\ UNCHANGED <<now, chatVars, accounts, stop, todo, taken, doubled, manualVars>>

\* run_tick: expired tickets go, the accounts are listed.
BeginsBatch ==
    /\ pc = "woken"
    /\ tickets' = Cleaned
    /\ todo' = accounts
    /\ pc' = "batch"
    /\ UNCHANGED <<now, minted, chat, posted, handling, bound, misbound, accounts,
                   target, stop, taken, doubled, manualVars>>

\* create_snapshot.
Insert(a) ==
    /\ doubled' = (doubled \/ now \div Hour \in taken[a])
    /\ taken' = [taken EXCEPT ![a] = @ \cup {now \div Hour}]

\* _capture_one_account works.
Captures(a) ==
    /\ pc = "batch" /\ a \in todo
    /\ todo' = todo \ {a}
    /\ Insert(a)
    /\ UNCHANGED <<now, chatVars, accounts, pc, target, stop, manualVars>>

\* Unreadable credentials, no balance, no price, or a row the database
\* refuses.
Skips(a) ==
    /\ pc = "batch" /\ a \in todo
    /\ todo' = todo \ {a}
    /\ UNCHANGED <<now, chatVars, accounts, pc, target, stop, taken, doubled, manualVars>>

\* Mutated: the next full hour is not looked for.
EndsBatch_again ==
    /\ pc = "batch" /\ todo = {}
    /\ pc' = IF stop THEN "down" ELSE "sleep"
    /\ target' = IF stop THEN 0 ELSE now
    /\ stop' = FALSE
    /\ UNCHANGED <<now, chatVars, accounts, todo, taken, doubled, manualVars>>

\* The batch is over: out, or asleep until the full hour after now.
EndsBatch ==
    /\ pc = "batch" /\ todo = {}
    /\ pc' = IF stop THEN "down" ELSE "sleep"
    /\ target' = IF stop THEN 0 ELSE NextHour
    /\ stop' = FALSE
    /\ UNCHANGED <<now, chatVars, accounts, todo, taken, doubled, manualVars>>

\* The sleep is cut in seconds and looks at the flag each time.
LeavesSleep ==
    /\ pc = "sleep" /\ stop
    /\ pc' = "down" /\ target' = 0 /\ stop' = FALSE
    /\ UNCHANGED <<now, chatVars, accounts, todo, taken, doubled, manualVars>>

Sigterm ==
    /\ Running /\ ~stop
    /\ stop' = TRUE
    /\ UNCHANGED <<now, chatVars, accounts, pc, target, todo, taken, doubled, manualVars>>

Crashes ==
    /\ Running
    /\ pc' = "down" /\ todo' = {} /\ target' = 0 /\ stop' = FALSE
    /\ UNCHANGED <<now, chatVars, accounts, taken, doubled, manualVars>>

----------------------------------------------------------------------------
\* The portal.  Its handlers do not await, so one at a time.

Free == PortalFree /\ batch = None

AddsAccount(a) ==
    /\ Free /\ a \notin accounts
    /\ accounts' = accounts \cup {a}
    /\ UNCHANGED <<now, chatVars, schedVars, manualVars>>

\* The account's snapshots go with it, and a batch that has it listed finds
\* no credentials, or its row refused.
DeletesAccount(a) ==
    /\ Free /\ a \in accounts
    /\ accounts' = accounts \ {a}
    /\ taken' = [taken EXCEPT ![a] = {}]
    /\ last' = [last EXCEPT ![a] = None]
    /\ todo' = todo \ {a}
    /\ UNCHANGED <<now, chatVars, pc, target, stop, doubled, batch, hasty>>

\* manual_allowed: no manual row of the user in the last hour.
Allowed == \A a \in accounts : last[a] # None => last[a] + Hour <= now

\* POST /api/portfolio/snapshot/manual.
ManualBegins ==
    /\ Free /\ Allowed /\ accounts # {}
    /\ batch' = accounts
    /\ UNCHANGED <<now, chatVars, accounts, schedVars, last, hasty>>

ManualCaptures(a) ==
    /\ batch # None /\ a \in batch
    /\ batch' = batch \ {a}
    /\ hasty' = (hasty \/ (last[a] # None /\ now - last[a] < Hour))
    /\ last' = [last EXCEPT ![a] = now]
    /\ UNCHANGED <<now, chatVars, accounts, schedVars>>

\* An account that cannot be read or priced is passed over.
ManualSkips(a) ==
    /\ batch # None /\ a \in batch
    /\ batch' = batch \ {a}
    /\ UNCHANGED <<now, chatVars, accounts, schedVars, last, hasty>>

\* All done, or the portal has died on the way: the rows stay.
ManualEnds ==
    /\ batch # None
    /\ batch' = None
    /\ UNCHANGED <<now, chatVars, accounts, schedVars, last, hasty>>

----------------------------------------------------------------------------
Tick ==
    /\ now < MaxNow
    /\ now' = now + 1
    /\ UNCHANGED <<chatVars, accounts, schedVars, manualVars>>

Init ==
    /\ ChatInit
    /\ now = 0
    /\ accounts = Accounts
    /\ pc = "down" /\ target = 0 /\ stop = FALSE /\ todo = {}
    /\ taken = [a \in Accounts |-> {}] /\ doubled = FALSE
    /\ batch = None /\ last = [a \in Accounts |-> None] /\ hasty = FALSE

Scheduler ==
    \/ Wakes \/ BeginsBatch \/ EndsBatch \/ LeavesSleep
    \/ \E a \in Accounts : Captures(a) \/ Skips(a)

Portal ==
    \/ batch = None /\ ChatPortal /\ UNCHANGED <<accounts, schedVars, manualVars>>
    \/ \E a \in Accounts : AddsAccount(a) \/ DeletesAccount(a)
    \/ ManualBegins \/ ManualEnds
    \/ \E a \in Accounts : ManualCaptures(a) \/ ManualSkips(a)

Next ==
    \/ Scheduler \/ Boots \/ Sigterm \/ Crashes
    \/ Portal
    \/ ChatUser /\ UNCHANGED <<accounts, schedVars, manualVars>>
    \/ Tick

Spec == Init /\ [][Next]_vars

----------------------------------------------------------------------------
\* Properties.

\* An account gets one automatic row per clock hour at most, though a batch
\* may last past the next full hour and the scheduler be restarted at any
\* time (_sleep_until_next_hour), and no two manual rows within an hour
\* ("1 manual snapshot per user per rolling hour"), though a manual batch
\* may take long, fail for some accounts, or die half way.
RowsSpaced == ~doubled /\ ~hasty
=============================================================================
