----------------------------- MODULE StateFeed -----------------------------
(***************************************************************************)
(* What the portal makes of the bots' state files (web/app.py): read_state *)
(* with its silent-exit reconcile, the walk over all bots at start-up with *)
(* the auto-restart of bots that run old code, and the frames that         *)
(* watch_state_files and ws_state send to the browsers.                    *)
(*                                                                         *)
(* One event loop: a coroutine gives way at its awaits, and the watcher's  *)
(* reads are done by a thread.  A read is one step here (StateFile has the *)
(* races of its write).  A version stands for a file's content and mtime.  *)
(* All bots have one owner.  Processes are told from each other by the     *)
(* code they run; how a start and a stop go is BotProcess's subject.       *)
(***************************************************************************)
EXTENDS Integers, FiniteSets

CONSTANTS
    Bots, Clients,
    MaxTicks,       \* bounds on the ticks that write,
    MaxStarts,      \* the bots' starts by the operator,
    MaxBoots        \* and the portal's restarts

ASSUME StateConstantsAssumption == "none" \notin Bots

VARIABLES
    proc,       \* each bot's process
    code,       \* the code it runs
    mine,       \* bots whose process is a child of this portal
    installed,  \* the code on disk
    ticks, starts, boots,   \* counters for the bounds
    file,       \* state.json: [ver, run, stamp, why]; ver = 0: none
    old,        \* bots whose file says running with a heartbeat over 60 s ago
    portal,     \* "boot" until the lifespan's start-up is through, or "up"
    view,       \* STATE_SCHEMA_VERSION of this portal
    walk,       \* bots the start-up has still to look at
    replacing,  \* the bot it is restarting, or "none"
    excused,    \* history: bots it found reconciled or failed to restart
    seen,       \* _state_mtimes; 0: no entry
    wpc,        \* where watch_state_files is
    wtodo, wbot, wframe, wactive,   \* its local variables
    conn,       \* where each client is
    ctodo, cactive,                 \* ws_state's local variables
    shows,      \* the frame of each bot a client had last: [ver, run]
    counts      \* the bots the summary it had last counts as active

procVars == <<proc, code, mine, installed, ticks, starts>>
fileVars == <<file, old>>
bootVars == <<boots, portal, view, walk, replacing, excused>>
watchVars == <<seen, wpc, wtodo, wbot, wframe, wactive>>
viewVars == <<conn, ctodo, cactive, shows, counts>>
stateVars == <<procVars, fileVars, bootVars, watchVars, viewVars>>

NoFile == [ver |-> 0, run |-> FALSE, stamp |-> "none", why |-> "none"]
NoFrame == [ver |-> 0, run |-> FALSE]
NoFrames == [b \in Bots |-> NoFrame]

----------------------------------------------------------------------------
\* The bots' processes.

\* _write_state rewrites the whole file, with a new heartbeat.
Ticks(b) ==
    /\ proc[b] = "up" /\ ticks < MaxTicks
    /\ ticks' = ticks + 1
    /\ file' = [file EXCEPT ![b] = [ver |-> @.ver + 1, run |-> TRUE,
                                    stamp |-> code[b], why |-> "none"]]
    /\ old' = old \ {b}
    /\ UNCHANGED <<proc, code, mine, installed, starts, bootVars, watchVars,
                   viewVars>>

\* A minute without a tick: the process is a zombie, or its tick is slow.
Ages(b) ==
    /\ file[b].run /\ proc[b] # "off" /\ b \notin old
    /\ old' = old \cup {b}
    /\ UNCHANGED <<file, procVars, bootVars, watchVars, viewVars>>

Spawns(b) ==
    /\ proc' = [proc EXCEPT ![b] = "up"]
    /\ code' = [code EXCEPT ![b] = installed]
    /\ mine' = mine \cup {b}

\* SIGTERM: mark_stopped edits the file, the process ends a while later.
Ends(b) ==
    /\ proc[b] = "up"
    /\ proc' = [proc EXCEPT ![b] = "ending"]
    /\ file' = [file EXCEPT ![b].ver = @ + 1, ![b].run = FALSE]
    /\ old' = old \ {b}
    /\ UNCHANGED <<code, mine, installed, ticks, starts>>

Starts(b) ==
    /\ portal = "up" /\ proc[b] = "off" /\ starts < MaxStarts
    /\ starts' = starts + 1
    /\ Spawns(b)
    /\ UNCHANGED <<installed, ticks, fileVars, bootVars, watchVars, viewVars>>

Stops(b) ==
    /\ portal = "up"
    /\ Ends(b)
    /\ UNCHANGED <<bootVars, watchVars, viewVars>>

ProcessMoves ==
    /\ mine' = {b \in mine : proc'[b] # "off"}
    /\ UNCHANGED <<code, installed, ticks, starts, fileVars, bootVars,
                   watchVars, viewVars>>

Exits(b) ==
    /\ proc[b] = "ending"
    /\ proc' = [proc EXCEPT ![b] = "off"]
    /\ ProcessMoves

\* SIGKILL or OOM: a child of this portal is a zombie first.
BotCrashes(b) ==
    /\ proc[b] \in {"up", "ending"}
    /\ proc' = [proc EXCEPT ![b] = IF b \in mine THEN "zombie" ELSE "off"]
    /\ ProcessMoves

\* Whoever is its parent collects a zombie: the portal when it spawns
\* something else, init when the portal ends.
Collected == [b \in Bots |-> IF proc[b] = "zombie" THEN "off" ELSE proc[b]]

Collects ==
    /\ Collected # proc
    /\ proc' = Collected
    /\ ProcessMoves

\* A deploy replaces the code on disk; another restart is to follow.
Deploys ==
    /\ installed = "v2" /\ portal = "up" /\ boots < MaxBoots
    /\ installed' = "v3"
    /\ UNCHANGED <<proc, code, mine, ticks, starts, fileVars, bootVars,
                   watchVars, viewVars>>

----------------------------------------------------------------------------
\* read_state

Alive(b) == proc[b] # "off"

\* The file says running, but the process is gone or its heartbeat is old.
SilentExit(b) == file[b].run /\ (~Alive(b) \/ b \in old)

\* Mutated: the correction is made in the answer only.
Reconciles_answer(b) == UNCHANGED fileVars

\* _persist_silent_exit_reconcile
Reconciles(b) ==
    /\ file' = IF SilentExit(b)
               THEN [file EXCEPT ![b].ver = @ + 1, ![b].run = FALSE,
                                 ![b].why = IF Alive(b) THEN "heartbeat_stale"
                                            ELSE "silent_exit"]
               ELSE file
    /\ old' = IF SilentExit(b) THEN old \ {b} ELSE old

\* The answer: what the file said, but for running.
Answer(b) == [ver |-> file[b].ver, run |-> Alive(b) /\ ~SilentExit(b)]

\* _compute_summary, one bot at a time: of its counts, the active bots.
Summed(active, b) == IF Answer(b).run THEN active \cup {b} ELSE active

----------------------------------------------------------------------------
\* The portal's start-up.

\* The portal is restarted; KillMode=process leaves the bots alone.
PortalRestarts ==
    /\ boots < MaxBoots
    /\ boots' = boots + 1
    /\ portal' = "boot" /\ view' = installed
    /\ walk' = Bots /\ replacing' = "none" /\ excused' = {}
    /\ mine' = {} /\ proc' = Collected
    /\ seen' = [b \in Bots |-> 0]
    /\ wpc' = "idle" /\ wtodo' = {} /\ wbot' = "none" /\ wframe' = NoFrame
    /\ wactive' = {}
    /\ conn' = [c \in Clients |-> "off"]
    /\ ctodo' = [c \in Clients |-> {}] /\ cactive' = [c \in Clients |-> {}]
    /\ shows' = [c \in Clients |-> NoFrames]
    /\ counts' = [c \in Clients |-> {}]
    /\ UNCHANGED <<code, installed, ticks, starts, fileVars>>

\* Mutated: a file without a stamp is taken for coherent.
NeedsRestart_legacy(b) == Answer(b).run /\ file[b].stamp \notin {"none", view}

\* _bot_needs_restart; a missing stamp differs from every version.
NeedsRestart(b) == Answer(b).run /\ file[b].stamp # view

\* _reconcile_bot_states_on_startup looks at a bot; one that was reconciled,
\* now or before, is passed over.
Walks(b) ==
    /\ portal = "boot" /\ replacing = "none" /\ b \in walk
    /\ walk' = walk \ {b}
    /\ IF SilentExit(b) \/ file[b].why # "none"
       THEN excused' = excused \cup {b} /\ UNCHANGED replacing
       ELSE /\ replacing' = IF NeedsRestart(b) THEN b ELSE "none"
            /\ UNCHANGED excused
    /\ Reconciles(b)
    /\ UNCHANGED <<boots, portal, view, procVars, watchVars, viewVars>>

\* _attempt_bot_auto_restart, whose budget of three cannot be used up by the
\* one attempt a start-up makes: restart_bot stops the bot, ...
ReplaceStops ==
    /\ replacing # "none"
    /\ Ends(replacing)
    /\ UNCHANGED <<bootVars, watchVars, viewVars>>

\* ... and starts it on the installed code.
ReplaceStarts ==
    /\ replacing # "none" /\ proc[replacing] = "off"
    /\ Spawns(replacing)
    /\ replacing' = "none"
    /\ UNCHANGED <<installed, ticks, starts, fileVars, boots, portal, view,
                   walk, excused, watchVars, viewVars>>

\* The stop or the start answers not ok, or raises.
ReplaceFails ==
    /\ replacing # "none"
    /\ excused' = excused \cup {replacing}
    /\ replacing' = "none"
    /\ UNCHANGED <<procVars, fileVars, boots, portal, view, walk, watchVars,
                   viewVars>>

\* The lifespan creates the watcher and requests are served.
Serves ==
    /\ portal = "boot" /\ walk = {} /\ replacing = "none"
    /\ portal' = "up" /\ wpc' = "bots" /\ wtodo' = Bots
    /\ UNCHANGED <<procVars, fileVars, boots, view, walk, replacing, excused,
                   seen, wbot, wframe, wactive, viewVars>>

----------------------------------------------------------------------------
\* watch_state_files

Becomes(p) == wpc' = p
Members == {c \in Clients : conn[c] # "off"}

\* A file with another mtime than recorded: it is recorded before the read.
WStats(b) ==
    /\ wpc = "bots" /\ b \in wtodo
    /\ wtodo' = wtodo \ {b}
    /\ IF file[b].ver # 0 /\ seen[b] # file[b].ver
       THEN /\ seen' = [seen EXCEPT ![b] = file[b].ver]
            /\ wbot' = b /\ Becomes("read")
       ELSE UNCHANGED <<seen, wbot, wpc>>
    /\ UNCHANGED <<wframe, wactive, procVars, fileVars, bootVars, viewVars>>

\* A thread reads the state.
WReads ==
    /\ wpc = "read" /\ Becomes("send")
    /\ wframe' = Answer(wbot)
    /\ Reconciles(wbot)
    /\ UNCHANGED <<seen, wtodo, wbot, wactive, procVars, bootVars, viewVars>>

\* Every client of the owner gets the frame.
Shown == [c \in Clients |-> IF c \in Members
                            THEN [shows[c] EXCEPT ![wbot] = wframe]
                            ELSE shows[c]]

\* Mutated: the mtime is recorded when the frame goes out.
WSends_records ==
    /\ wpc = "send" /\ Becomes("bots")
    /\ shows' = Shown
    /\ seen' = [seen EXCEPT ![wbot] = file[wbot].ver]
    /\ wbot' = "none" /\ wframe' = NoFrame
    /\ UNCHANGED <<wtodo, wactive, procVars, fileVars, bootVars,
                   conn, ctodo, cactive, counts>>

\* broadcast
WSends ==
    /\ wpc = "send" /\ Becomes("bots")
    /\ shows' = Shown
    /\ wbot' = "none" /\ wframe' = NoFrame
    /\ UNCHANGED <<seen, wtodo, wactive, procVars, fileVars, bootVars,
                   conn, ctodo, cactive, counts>>

\* The summary of every cycle: all the bots are read again.
WSums ==
    /\ wpc = "bots" /\ wtodo = {}
    /\ Becomes("sum") /\ wtodo' = Bots /\ wactive' = {}
    /\ UNCHANGED <<seen, wbot, wframe, procVars, fileVars, bootVars, viewVars>>

WSumReads(b) ==
    /\ wpc = "sum" /\ b \in wtodo
    /\ wtodo' = wtodo \ {b}
    /\ wactive' = Summed(wactive, b)
    /\ Reconciles(b)
    /\ UNCHANGED <<seen, wpc, wbot, wframe, procVars, bootVars, viewVars>>

\* Two seconds later the next cycle begins.
WSumSends ==
    /\ wpc = "sum" /\ wtodo = {} /\ Becomes("bots") /\ wtodo' = Bots
    /\ counts' = [c \in Clients |-> IF c \in Members THEN wactive ELSE counts[c]]
    /\ wactive' = {}
    /\ UNCHANGED <<seen, wbot, wframe, procVars, fileVars, bootVars,
                   conn, ctodo, cactive, shows>>

Watches == \/ WReads \/ WSends \/ WSums \/ WSumSends
           \/ \E b \in Bots : WStats(b) \/ WSumReads(b)

----------------------------------------------------------------------------
\* ws_state

\* connect, and the registry's bots of the user.
Connects(c) ==
    /\ portal = "up" /\ conn[c] = "off"
    /\ conn' = [conn EXCEPT ![c] = "snap"]
    /\ ctodo' = [ctodo EXCEPT ![c] = Bots]
    /\ UNCHANGED <<cactive, shows, counts, procVars, fileVars, bootVars,
                   watchVars>>

\* A bot is read and its frame sent, with no await between the two.
Snaps(c, b) ==
    /\ conn[c] = "snap" /\ b \in ctodo[c]
    /\ ctodo' = [ctodo EXCEPT ![c] = @ \ {b}]
    /\ shows' = [shows EXCEPT ![c][b] = Answer(b)]
    /\ cactive' = [cactive EXCEPT ![c] = Summed(@, b)]
    /\ Reconciles(b)
    /\ UNCHANGED <<conn, counts, procVars, bootVars, watchVars>>

SnapsSum(c) ==
    /\ conn[c] = "snap" /\ ctodo[c] = {}
    /\ conn' = [conn EXCEPT ![c] = "live"]
    /\ counts' = [counts EXCEPT ![c] = cactive[c]]
    /\ cactive' = [cactive EXCEPT ![c] = {}]
    /\ UNCHANGED <<ctodo, shows, procVars, fileVars, bootVars, watchVars>>

\* The browser goes away: disconnect, or a broadcast that fails.
Leaves(c) ==
    /\ conn[c] # "off"
    /\ conn' = [conn EXCEPT ![c] = "off"]
    /\ ctodo' = [ctodo EXCEPT ![c] = {}]
    /\ cactive' = [cactive EXCEPT ![c] = {}]
    /\ shows' = [shows EXCEPT ![c] = NoFrames]
    /\ counts' = [counts EXCEPT ![c] = {}]
    /\ UNCHANGED <<procVars, fileVars, bootVars, watchVars>>

----------------------------------------------------------------------------
\* Bots that outlived an earlier portal are running, and may have ticked.
StateInit ==
    /\ proc = [b \in Bots |-> "up"] /\ code = [b \in Bots |-> "v2"]
    /\ file \in [Bots -> {NoFile, [ver |-> 1, run |-> TRUE, stamp |-> "v2",
                                   why |-> "none"]}]
    /\ old = {}
    /\ mine = {} /\ installed = "v2"
    /\ ticks = 0 /\ starts = 0 /\ boots = 0
    /\ portal = "boot" /\ view = "v2"
    /\ walk = Bots /\ replacing = "none" /\ excused = {}
    /\ seen = [b \in Bots |-> 0]
    /\ wpc = "idle" /\ wtodo = {} /\ wbot = "none" /\ wframe = NoFrame
    /\ wactive = {}
    /\ conn = [c \in Clients |-> "off"]
    /\ ctodo = [c \in Clients |-> {}] /\ cactive = [c \in Clients |-> {}]
    /\ shows = [c \in Clients |-> NoFrames]
    /\ counts = [c \in Clients |-> {}]

StateNext ==
    \/ \E b \in Bots : \/ Ticks(b) \/ Ages(b) \/ Starts(b) \/ Stops(b)
                       \/ Exits(b) \/ BotCrashes(b) \/ Walks(b)
    \/ Collects \/ Deploys \/ PortalRestarts
    \/ ReplaceStops \/ ReplaceStarts \/ ReplaceFails \/ Serves
    \/ Watches
    \/ \E c \in Clients : \/ Connects(c) \/ SnapsSum(c) \/ Leaves(c)
                          \/ \E b \in Bots : Snaps(c, b)

StateSpec == StateInit /\ [][StateNext]_stateVars

----------------------------------------------------------------------------
\* Properties.

\* A browser that had its snapshot shows the version of a bot's state that
\* the watcher has recorded as sent, when the file still has it: whichever
\* of a stale snapshot, a stale frame and a write in between came last
\* (watch_state_files records the mtime before it reads; ws_state connects
\* before it reads).
Settled ==
    \A c \in Clients, b \in Bots :
        conn[c] = "live" /\ seen[b] = file[b].ver /\ wbot # b
            => shows[c][b].ver = file[b].ver

\* A browser learns of a bot that died: by the frame that its file's
\* correction causes when the bot had no time to write it, and in any case
\* by the summary of every cycle (watch_state_files).
DeathsShown ==
    \A c \in Clients, b \in Bots :
        /\ (conn[c] = "live" /\ file[b].run /\ proc[b] = "off")
               ~> (conn[c] # "live" \/ proc[b] # "off" \/ ~shows[c][b].run)
        /\ (conn[c] = "live" /\ proc[b] = "off")
               ~> (conn[c] # "live" \/ proc[b] # "off" \/ b \notin counts[c])

\* "auto-restart any bot whose stamp does not match the portal's current
\* view": when the start-up is through, a bot runs the code the portal
\* started with, or newer, unless its restart failed or the start-up took
\* it for dead.
NewCode ==
    portal = "up" =>
        \A b \in Bots :
            proc[b] = "up" /\ b \notin excused => code[b] \in {view, installed}
=============================================================================
