------------------------------- MODULE Alerts -------------------------------
(***************************************************************************)
(* Everything a running bot tells its user: the engine's queue, and the    *)
(* guard's thread, which goes past it.  They meet in the notifier, which   *)
(* neither changes, so "part" lets one of the two move in each behaviour.  *)
(***************************************************************************)
EXTENDS NotifyQueue, LiqWatch

VARIABLE part

vars == <<part, queueVars, liqVars>>

Init == NotifierInit /\ QueueInit /\ LiqInit /\ part \in {"queue", "guard"}

Next ==
    \/ part = "queue" /\ QueueNext /\ UNCHANGED <<part, liqVars>>
    \/ part = "guard" /\ LiqNext /\ UNCHANGED <<part, queueVars>>

\* The threads are scheduled, a call to Telegram ends (the HTTP client has a
\* timeout), and the tick loop ticks.
Fairness ==
    /\ WF_vars(part = "queue" /\ Main /\ UNCHANGED <<part, liqVars>>)
    /\ WF_vars(part = "queue" /\ Worker /\ UNCHANGED <<part, liqVars>>)
    /\ WF_vars(part = "guard" /\ Guard /\ UNCHANGED <<part, queueVars>>)
    /\ WF_vars(part = "guard" /\ Updates /\ UNCHANGED <<part, queueVars>>)

Spec == Init /\ [][Next]_vars /\ Fairness
=============================================================================
