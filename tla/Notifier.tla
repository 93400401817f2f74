------------------------------ MODULE Notifier ------------------------------
(***************************************************************************)
(* The user's Telegram notifier (notifications/telegram.py): bound to the  *)
(* user's chat and wishes when the engine is built, and never again, so a  *)
(* later change of either waits for the bot's next start.  What a message  *)
(* says is left out, and so is Telegram's answer: send swallows failures.  *)
(***************************************************************************)
CONSTANT Wishes     \* the sets of kinds the user may have ticked

VARIABLE notifier   \* [on |-> a chat is linked, wants |-> the kinds ticked]

\* "trade" stands for the kinds that can be muted: startup, schedule, entry,
\* DCA, target, stop-loss and the manual closes.
Kinds == {"trade", "stop", "shutdown", "error", "liquidation"}

\* __init__: no row of the user, or the row's list.
NotifierInit == notifier \in [on : {FALSE}, wants : {{}}] \cup [on : {TRUE}, wants : Wishes]

\* _ALWAYS_ON_EVENTS.
AlwaysOn == {"shutdown", "error", "liquidation"}

\* Mutated: the user's wishes decide.
IsEnabled_wishes(k) == notifier.on /\ k \in notifier.wants

\* _is_enabled.
IsEnabled(k) == notifier.on /\ (k \in AlwaysOn \/ k \in notifier.wants)

\* The guards of the notify_* methods; "stop" falls back on "shutdown".
Passes(k) == IsEnabled(k) \/ (k = "stop" /\ IsEnabled("shutdown"))

\* The methods of the safety kinds: the liquidation warnings and the errors.
Safety == {"error", "liquidation"}

\* send: nothing without a chat, else one call.
SentBy(k, n) == IF Passes(k) THEN <<n>> ELSE <<>>
=============================================================================
