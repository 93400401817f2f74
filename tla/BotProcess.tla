---------------------------- MODULE BotProcess ----------------------------
(***************************************************************************)
(* The life of one bot's subprocesses and the portal handlers that start,  *)
(* stop and restart them (web/app.py: start_bot, stop_bot, restart_bot;    *)
(* main_paper.py for the subprocess's side).                               *)
(*                                                                         *)
(* The two sides know of each other through a pid file: the subprocess     *)
(* writes its pid early and unlinks the file in an atexit hook, whoever's  *)
(* pid is in it; the portal calls a bot running when kill(pid, 0) succeeds *)
(* on the pid it reads.  The portal's handlers are coroutines of one event *)
(* loop, so a stretch of code without a suspended await is one step here.  *)
(*                                                                         *)
(* The portal never waits for its children: one that ends stays a zombie,  *)
(* which signal 0 still finds, until a later Popen of the portal collects  *)
(* it.  Time is left out: a wait may end by its deadline at any moment,    *)
(* except that the 3 s a start waits for the pid file is long enough       *)
(* unless Faults says "slow".  A pid is used again only when nobody holds  *)
(* the old process's number any more.                                      *)
(***************************************************************************)
EXTENDS Integers, FiniteSets

CONSTANTS
    Pids,       \* pids of this bot's subprocesses
    NoPid,      \* "no pid file", "no target"
    Handlers,   \* portal requests being served
    Requests,   \* which of "start", "stop", "restart" are made
    Faults      \* a subset of FaultKinds

FaultKinds == {"slow",      \* a subprocess may take over 3 s to boot
               "crash",     \* SIGKILL, OOM: no atexit hook runs
               "portal"}    \* the portal is restarted, the bots survive

ASSUME ConstantsAssumption ==
    /\ NoPid \notin Pids
    /\ Requests \subseteq {"start", "stop", "restart"}
    /\ Faults \subseteq FaultKinds

VARIABLES
    state,      \* state[p]: where subprocess p is in its life
    children,   \* subprocesses whose parent is the present portal
    pidFile,    \* contents of logs/<uid>/pids/<slug>.pid
    starting,   \* is the bot in BotRegistry._starting
    pc,         \* where each handler is
    op,         \* what each handler was asked
    target,     \* the subprocess each handler spawned or is stopping
    orderly     \* history: no fault yet, and only starts have overlapped

processVars == <<state, children>>
handlerVars == <<pc, op, target>>
vars == <<processVars, handlerVars, pidFile, starting, orderly>>

----------------------------------------------------------------------------
\* Processes.

\* boot: spawned, no pid file yet; load: pid file written, SIGTERM not yet
\* handled; serve: the tick loop; term: in or after stop(); left: the
\* atexit hook has run; zombie: ended, not collected; gone: no process.
Life == {"boot", "load", "serve", "term", "left", "zombie", "gone"}

Executing == {"boot", "load", "serve", "term", "left"}

\* kill(pid, 0) succeeds.
PidAlive(p) == state[p] \in Executing \cup {"zombie"}

\* BotInfo.running
Running == pidFile # NoPid /\ PidAlive(pidFile)

\* What becomes of a subprocess that ends: only a child waits as a zombie.
Ended(p) == IF p \in children THEN "zombie" ELSE "gone"

Moves(p, from, to) ==
    /\ state[p] \in from
    /\ state' = [state EXCEPT ![p] = to]

\* main() writes its own pid over whatever the file holds.
WritePid(p) ==
    /\ Moves(p, {"boot"}, "load")
    /\ pidFile' = p
    /\ UNCHANGED <<children, handlerVars, starting, orderly>>

\* The engine is constructed under the state lock, SIGTERM is handled and
\* engine.start() enters the loop.
EnterLoop(p) ==
    /\ Moves(p, {"load"}, "serve")
    /\ UNCHANGED <<children, handlerVars, pidFile, starting, orderly>>

\* The loop ends by itself: drawdown stop, NotImplementedError, ^C.
LeaveLoop(p) ==
    /\ Moves(p, {"serve"}, "term")
    /\ UNCHANGED <<children, handlerVars, pidFile, starting, orderly>>

\* The interpreter shuts down, after the loop or after a refused load
\* (sys.exit); the atexit hook unlinks the pid file if there is one.
AtExit(p) ==
    /\ Moves(p, {"load", "term"}, "left")
    /\ pidFile' = NoPid
    /\ UNCHANGED <<children, handlerVars, starting, orderly>>

\* The process ends: after its hooks, or before main() wrote the pid.
Exits(p) ==
    /\ Moves(p, {"boot", "left"}, Ended(p))
    /\ UNCHANGED <<children, handlerVars, pidFile, starting, orderly>>

Crashes(p) ==
    /\ "crash" \in Faults
    /\ Moves(p, Executing, Ended(p))
    /\ orderly' = FALSE
    /\ UNCHANGED <<children, handlerVars, pidFile, starting>>

\* SIGTERM ends a process whose handler is not installed yet.
Terminated(p) ==
    CASE state[p] \in {"boot", "load"} -> Ended(p)
      [] state[p] = "serve"            -> "term"
      [] OTHER                         -> state[p]

----------------------------------------------------------------------------
\* Portal handlers.

Become(h, p) == pc' = [pc EXCEPT ![h] = p]

Reset(h) ==
    /\ Become(h, "idle")
    /\ op' = [op EXCEPT ![h] = "none"]
    /\ target' = [target EXCEPT ![h] = NoPid]

\* Popen first collects the zombies nobody refers to any more; a handler
\* still waiting for its own child keeps a reference to it.
Kept == {target[h] : h \in {g \in Handlers : pc[g] = "waiting"}}
Collected(s) == [p \in Pids |-> IF s[p] = "zombie" /\ p \notin Kept
                                THEN "gone" ELSE s[p]]

\* The portal spawns something else: another bot, a syntax check.
OtherPopen ==
    /\ Collected(state) # state
    /\ state' = Collected(state)
    /\ UNCHANGED <<children, handlerVars, pidFile, starting, orderly>>

\* No process has this pid and nobody believes one has.
Fresh(p) ==
    /\ state[p] = "gone" /\ p # pidFile
    /\ \A h \in Handlers : target[h] # p

\* Mutated: the slot is not looked at; and the running check is left to it.
Spawn_unclaimed(h, p) ==
    /\ ~Running
    /\ Fresh(p)
    /\ state' = [Collected(state) EXCEPT ![p] = "boot"]
    /\ children' = children \cup {p}
    /\ starting' = TRUE
    /\ Become(h, "waiting")
    /\ target' = [target EXCEPT ![h] = p]
    /\ UNCHANGED <<pidFile, orderly>>
Spawn_unchecked(h, p) ==
    /\ ~starting
    /\ Fresh(p)
    /\ state' = [Collected(state) EXCEPT ![p] = "boot"]
    /\ children' = children \cup {p}
    /\ starting' = TRUE
    /\ Become(h, "waiting")
    /\ target' = [target EXCEPT ![h] = p]
    /\ UNCHANGED <<pidFile, orderly>>

\* start_bot up to its first sleep: not running, the slot claimed, Popen.
\* (No await in between suspends: the registry's lock is never contended.)
Spawn(h, p) ==
    /\ ~Running /\ ~starting
    /\ Fresh(p)
    /\ state' = [Collected(state) EXCEPT ![p] = "boot"]
    /\ children' = children \cup {p}
    /\ starting' = TRUE
    /\ Become(h, "waiting")
    /\ target' = [target EXCEPT ![h] = p]
    /\ UNCHANGED <<pidFile, orderly>>

\* "already running" or "already starting".
Refuse(h) ==
    /\ Running \/ starting
    /\ Reset(h)
    /\ UNCHANGED <<processVars, pidFile, starting, orderly>>

\* The bot's owner or an admin asks.
Request(h, r) ==
    /\ pc[h] = "idle" /\ r \in Requests
    /\ op' = [op EXCEPT ![h] = r]
    /\ Become(h, IF r = "start" THEN "start" ELSE "stop")
    /\ orderly' = (orderly /\ \A g \in Handlers : pc[g] # "idle" =>
                                r = "start" /\ op[g] = "start")
    /\ UNCHANGED <<processVars, target, pidFile, starting>>

\* This bot's turn in an admin's bulk stop or restart, which asks for its bots
\* one after the other: named twice, a bot has a second turn when the first
\* is answered.
BulkRequest(h, r) == r # "start" /\ Request(h, r)

Start(h) ==
    /\ pc[h] = "start"
    /\ \/ Refuse(h)
       \/ UNCHANGED op /\ \E p \in Pids : Spawn(h, p)

\* The wait ends when a pid file exists, whatever it holds, or at its
\* deadline; the slot is released, and dropping the Popen object collects
\* the child if it has ended already.
StartReturns(h) ==
    /\ pc[h] = "waiting"
    /\ \/ pidFile # NoPid
       \/ state[target[h]] # "boot"
       \/ "slow" \in Faults
    /\ starting' = FALSE
    /\ state' = [p \in Pids |-> IF p = target[h] /\ state[p] = "zombie"
                                THEN "gone" ELSE state[p]]
    /\ Reset(h)
    /\ orderly' = (orderly /\ (pidFile # NoPid \/ state[target[h]] # "boot"))
    /\ UNCHANGED <<children, pidFile>>

\* What follows stop_bot: the answer, or the rest of restart_bot.
StopAnswers(h) ==
    IF op[h] = "restart"
    THEN /\ Become(h, "settle")
         /\ target' = [target EXCEPT ![h] = NoPid]
         /\ UNCHANGED op
    ELSE Reset(h)

\* stop_bot of a bot that does not run: a stale pid file is removed.  A
\* restart of such a bot does not call stop_bot.
StopNothing(h) ==
    /\ pc[h] = "stop" /\ ~Running
    /\ pidFile' = IF op[h] = "stop" THEN NoPid ELSE pidFile
    /\ StopAnswers(h)
    /\ UNCHANGED <<processVars, starting, orderly>>

StopSignals(h) ==
    /\ pc[h] = "stop" /\ Running
    /\ state' = [state EXCEPT ![pidFile] = Terminated(pidFile)]
    /\ target' = [target EXCEPT ![h] = pidFile]
    /\ Become(h, "term")
    /\ UNCHANGED <<children, op, pidFile, starting, orderly>>

\* The graceful wait is over (pid file gone, or the deadline) with the
\* target still answering signal 0: SIGKILL.
StopEscalates(h) ==
    /\ pc[h] = "term" /\ PidAlive(target[h])
    /\ state' = [state EXCEPT ![target[h]] =
                    IF @ \in Executing THEN Ended(target[h]) ELSE @]
    /\ Become(h, "kill")
    /\ UNCHANGED <<children, op, target, pidFile, starting, orderly>>

\* Mutated: a pid file that is gone is taken for a process that is gone.
StopReturns_trustsFile(h) ==
    /\ \/ pc[h] = "kill"
       \/ pc[h] = "term" /\ (pidFile = NoPid \/ ~PidAlive(target[h]))
    /\ pidFile' = NoPid
    /\ StopAnswers(h)
    /\ UNCHANGED <<processVars, starting, orderly>>

\* The target is gone, or 2 s have passed since SIGKILL: the pid file is
\* removed, whatever it holds.
StopReturns(h) ==
    /\ pc[h] = "kill" \/ (pc[h] = "term" /\ ~PidAlive(target[h]))
    /\ pidFile' = NoPid
    /\ StopAnswers(h)
    /\ UNCHANGED <<processVars, starting, orderly>>

\* restart_bot: up to 5 s for the pid file to go away, then start_bot.
Settle(h) ==
    /\ pc[h] = "settle"
    /\ Become(h, "start")
    /\ UNCHANGED <<processVars, op, target, pidFile, starting, orderly>>

\* The portal ends and is started again: its handlers and its slots are
\* lost, its children have init as their parent, which collects them.
PortalRestarts ==
    /\ "portal" \in Faults
    /\ children' = {}
    /\ state' = [p \in Pids |-> IF state[p] = "zombie" THEN "gone"
                                                       ELSE state[p]]
    /\ starting' = FALSE
    /\ pc' = [h \in Handlers |-> "idle"]
    /\ op' = [h \in Handlers |-> "none"]
    /\ target' = [h \in Handlers |-> NoPid]
    /\ orderly' = FALSE
    /\ UNCHANGED pidFile

----------------------------------------------------------------------------
Init ==
    /\ state = [p \in Pids |-> "gone"]
    /\ children = {}
    /\ pidFile = NoPid
    /\ starting = FALSE
    /\ pc = [h \in Handlers |-> "idle"]
    /\ op = [h \in Handlers |-> "none"]
    /\ target = [h \in Handlers |-> NoPid]
    /\ orderly = TRUE

Process(p) ==
    \/ WritePid(p) \/ EnterLoop(p) \/ LeaveLoop(p) \/ AtExit(p) \/ Exits(p)
    \/ Crashes(p)

Handle(h) ==
    \/ Start(h) \/ StartReturns(h)
    \/ StopNothing(h) \/ StopSignals(h) \/ StopEscalates(h) \/ StopReturns(h)
    \/ Settle(h)

Next ==
    \/ \E p \in Pids : Process(p)
    \/ \E h \in Handlers : Handle(h)
    \/ \E h \in Handlers, r \in Requests : Request(h, r) \/ BulkRequest(h, r)
    \/ OtherPopen \/ PortalRestarts

Spec == Init /\ [][Next]_vars

----------------------------------------------------------------------------
\* Properties.

\* Every variable holds what its declaration says; the starting slot is
\* taken exactly while one start_bot waits for its child, and a handler has
\* a process in hand exactly while it waits for one.
TypeOK ==
    /\ state \in [Pids -> Life]
    /\ children \in SUBSET Pids
    /\ pidFile \in Pids \cup {NoPid}
    /\ starting \in BOOLEAN /\ orderly \in BOOLEAN
    /\ pc \in [Handlers -> {"idle", "start", "waiting", "stop", "term",
                             "kill", "settle"}]
    /\ op \in [Handlers -> {"none", "start", "stop", "restart"}]
    /\ target \in [Handlers -> Pids \cup {NoPid}]
    /\ starting <=> \E h \in Handlers : pc[h] = "waiting"
    /\ \A h \in Handlers :
           pc[h] \in {"waiting", "term", "kill"} <=> target[h] # NoPid

\* While nothing has crashed, no boot was slow and a stop or restart had the
\* portal to itself, two subprocesses of the bot never trade at once (the
\* running check and the starting slot of start_bot against double clicks:
\* "Claim the start slot").
NeverTwo ==
    \A p, q \in Pids :
        {state[p], state[q]} \subseteq {"boot", "load", "serve"} => p = q
OneEngine == orderly => NeverTwo

\* Until then the pid file names the engine that is in its tick loop, so that
\* the portal sees it run and the offline close keeps out of its state
\* (web/routes/deals.py).
Authoritative == \A p \in Pids : state[p] = "serve" => pidFile = p
RunningIsAuthoritative == orderly => Authoritative

\* When stop_bot answers "stopped", the process it was stopping executes no
\* more, although it stops waiting as soon as the pid file is gone.
StopIsFinal ==
    [][\A h \in Handlers :
          StopReturns(h) => state[target[h]] \notin Executing]_vars

=============================================================================
