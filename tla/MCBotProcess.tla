--------------------------- MODULE MCBotProcess ---------------------------
\* Small instances for TLC of what a bot's processes do (BotProcess) and of
\* how an engine leaves its deals (Exits).  They share no state: about says
\* which of the two this behaviour shows.
EXTENDS BotProcess, Exits

VARIABLE about

AllRequests == {"start", "stop", "restart"}
AllFaults == FaultKinds

MCInit == Init /\ ExitInit /\ about \in {"processes", "exits"}

MCNext ==
    /\ \/ about = "processes" /\ Next /\ UNCHANGED exitVars
       \/ about = "exits" /\ ExitNext /\ UNCHANGED vars
    /\ UNCHANGED about

MCSpec == MCInit /\ [][MCNext]_<<vars, exitVars, about>>
=============================================================================
