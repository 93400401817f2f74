------------------------------ MODULE MCFeeds ------------------------------
\* The portal's two background tasks, tail_logs and watch_state_files.  They
\* share no state, so what one promises does not depend on the other's steps:
\* feed says which of the two this behaviour is about.
EXTENDS LogTail, StateFeed

VARIABLE feed

Bots2 == {<<1, "a">>, <<2, "a">>}

Init == /\ LogInit /\ StateInit
        /\ feed \in {"log", "state"}
        /\ feed = "log" => file = [b \in Bots |-> NoFile]

Next == /\ \/ feed = "log" /\ LogNext /\ UNCHANGED stateVars
           \/ feed = "state" /\ StateNext /\ UNCHANGED logVars
        /\ UNCHANGED feed

\* The event loop runs its tasks; they sleep for a bounded time.
Fairness == /\ WF_logVars(feed = "log" /\ Tails /\ UNCHANGED <<stateVars, feed>>)
            /\ WF_stateVars(feed = "state" /\ Watches /\ UNCHANGED <<logVars, feed>>)

Spec == Init /\ [][Next]_<<logVars, stateVars, feed>> /\ Fairness
=============================================================================
