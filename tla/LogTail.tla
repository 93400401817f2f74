------------------------------ MODULE LogTail ------------------------------
(***************************************************************************)
(* Following the log files (web/app.py: tail_logs, LogBroadcaster,         *)
(* ws_logs; core/logging_setup.py and _log_to_bot_log for who writes).     *)
(*                                                                         *)
(* The bots' processes and the portal append to the files at any time,     *)
(* and a file that is full is renamed and started anew.  The rest is one   *)
(* event loop: the tail and the sockets' handlers change over at awaits,   *)
(* but a stat and the read after it have nothing between them but the      *)
(* writers.  The broadcaster's lock is never held across an await, so      *)
(* taking it is no step.                                                   *)
(*                                                                         *)
(* A line is a number: its place among all lines ever written under that   *)
(* file's name.  Lines are written whole.  A file is named <<user, slug>>; *)
(* the portal's own log has no owner.                                      *)
(***************************************************************************)
EXTENDS Integers, Sequences, FiniteSets

CONSTANTS
    BotLogs,        \* the bots' logs, pairs <<user, slug>>
    Admins,         \* users whose role is "admin"
    Sockets,        \* connections of browsers
    Replay,         \* lines a new client is sent first (150, or 100)
    MaxLines,       \* bound on the lines written
    MaxRotations,   \* bound on the files started anew
    MaxRestarts     \* bound on the portal's restarts

ASSUME LogConstantsAssumption ==
    /\ \A f \in BotLogs : f[2] # "portal"
    /\ Replay \in Nat \ {0}

Portal == <<0, "portal">>
Files == BotLogs \cup {Portal}
Slugs == {f[2] : f \in Files}

VARIABLES
    written,    \* lines ever written to each file
    start,      \* how many of them were renamed away with older files
    lines,      \* lines written, and
    rotations,  \* renames, and
    restarts,   \* restarts of the portal so far
    last,       \* the tail's cursors, by slug
    todo,       \* files this poll has still to look at
    probe,      \* the file just found longer, and its size then
    sending,    \* broadcasts to do: [line, file]
    wants,      \* wants[c]: the <<user, slug>> a connection asked for
    socket,     \* where each connection is
    backlog,    \* lines a new client has still to be sent
    members,    \* connections the broadcaster has in _clients
    got,        \* history: the lines each connection was sent,
    owed        \* and the first one it is owed

writerVars == <<written, start, lines, rotations, restarts>>
tailVars == <<last, todo, probe, sending>>
socketVars == <<wants, socket, backlog, members, got, owed>>
logVars == <<writerVars, tailVars, socketVars>>

Nothing == [file |-> Portal, size |-> -1]
Size(f) == written[f] - start[f]

\* _ws_extract_user_id: the session's user.
User(c) == wants[c][1]

----------------------------------------------------------------------------
\* Writers.

\* A logging handler, or _log_to_bot_log, appends a line.
Writes(f) ==
    /\ lines < MaxLines
    /\ lines' = lines + 1
    /\ written' = [written EXCEPT ![f] = @ + 1]
    /\ UNCHANGED <<start, rotations, restarts, tailVars, socketVars>>

\* RotatingFileHandler renames the full file; the next line starts a new one.
Rotates(f) ==
    /\ rotations < MaxRotations /\ Size(f) > 0
    /\ rotations' = rotations + 1
    /\ start' = [start EXCEPT ![f] = written[f]]
    /\ UNCHANGED <<written, lines, restarts, tailVars, socketVars>>

----------------------------------------------------------------------------
\* tail_logs

\* A second is over: the registry and the portal's log are gone through.
Polls ==
    /\ todo = {} /\ probe = Nothing /\ sending = <<>>
    /\ todo' = Files
    /\ UNCHANGED <<last, probe, sending, writerVars, socketVars>>

\* stat: longer than the cursor, shorter (the cursor goes back), or neither.
Stats(f) ==
    /\ f \in todo /\ probe = Nothing /\ sending = <<>>
    /\ todo' = todo \ {f}
    /\ IF Size(f) > last[f[2]]
       THEN probe' = [file |-> f, size |-> Size(f)] /\ UNCHANGED last
       ELSE last' = [last EXCEPT ![f[2]] = Size(f)] /\ UNCHANGED probe
    /\ UNCHANGED <<sending, writerVars, socketVars>>

\* The lines from the cursor to the end of file.
News(f) ==
    LET from == start[f] + last[f[2]]
    IN  [i \in 1 .. written[f] - from |-> [line |-> from + i, file |-> f]]

\* Mutated: the cursor is set to the size after the read.
ReadsNews_restat ==
    /\ probe # Nothing
    /\ probe' = Nothing
    /\ sending' = News(probe.file)
    /\ \E grown \in 0 .. MaxLines - lines :
         /\ written' = [written EXCEPT ![probe.file] = @ + grown]
         /\ lines' = lines + grown
         /\ last' = [last EXCEPT ![probe.file[2]] = Size(probe.file) + grown]
    /\ UNCHANGED <<todo, start, rotations, restarts, socketVars>>

\* seek and read; the cursor becomes the size that stat returned.
ReadsNews ==
    /\ probe # Nothing
    /\ probe' = Nothing
    /\ sending' = News(probe.file)
    /\ last' = [last EXCEPT ![probe.file[2]] = probe.size]
    /\ UNCHANGED <<todo, writerVars, socketVars>>

\* Whose clients a file's lines are for.
Owners(f) == IF f[2] = "portal" THEN Admins ELSE {f[1]}

\* The clients on the slug whose user is an owner.  What goes to several
\* owners is several broadcasts in the code; they touch different clients.
Targets(f) == {c \in members : wants[c][2] = f[2] /\ User(c) \in Owners(f)}

\* broadcast: each target is sent the line, or found dead and dropped.
Broadcasts ==
    /\ sending # <<>>
    /\ LET b == Head(sending)
           alive == {c \in Targets(b.file) : socket[c] # "dead"}
       IN  /\ got' = [c \in Sockets |->
                        IF c \in alive THEN got[c] \cup {<<b.file, b.line>>}
                        ELSE got[c]]
           /\ members' = members \ (Targets(b.file) \ alive)
    /\ sending' = Tail(sending)
    /\ UNCHANGED <<last, todo, probe, writerVars, wants, socket, backlog, owed>>

----------------------------------------------------------------------------
\* ws_logs

\* The file a connection follows: the portal's log or a bot of its own user.
Followed(c) == IF wants[c][2] = "portal" THEN Portal ELSE wants[c]

MayAsk == BotLogs \cup {<<u, "portal">> : u \in Admins}

Calm == probe = Nothing     \* nothing of the loop runs between stat and read

\* The last lines of a file as it is now.
FirstOwed(f) == IF Size(f) > Replay THEN written[f] - Replay + 1
                ELSE start[f] + 1
LastLines(f) == FirstOwed(f) .. written[f]

\* Only an admin may ask for "portal", and for another slug the registry
\* must know a bot of the session's user.
Accepts(c, w) ==
    /\ socket[c] = "off" /\ Calm
    /\ wants' = [wants EXCEPT ![c] = w]
    /\ socket' = [socket EXCEPT ![c] = "accepted"]
    /\ got' = [got EXCEPT ![c] = {}]
    /\ UNCHANGED <<backlog, members, owed, writerVars, tailVars>>

\* connect: the client becomes a member once the accept is through.
Joins(c) ==
    /\ socket[c] = "accepted" /\ Calm
    /\ socket' = [socket EXCEPT ![c] = "member"]
    /\ members' = members \cup {c}
    /\ UNCHANGED <<wants, backlog, got, owed, writerVars, tailVars>>

\* The file's last lines are read, with no await since connect ended but for
\* the writers' steps.
Replays(c) ==
    /\ socket[c] = "member" /\ Calm
    /\ socket' = [socket EXCEPT ![c] = "replay"]
    /\ backlog' = [backlog EXCEPT ![c] = LastLines(Followed(c))]
    /\ owed' = [owed EXCEPT ![c] = FirstOwed(Followed(c))]
    /\ UNCHANGED <<wants, members, got, writerVars, tailVars>>

\* They are sent one by one.
SendsLine(c) ==
    /\ socket[c] = "replay" /\ Calm
    /\ IF backlog[c] = {}
       THEN socket' = [socket EXCEPT ![c] = "live"] /\ UNCHANGED <<backlog, got>>
       ELSE LET n == CHOOSE m \in backlog[c] : \A k \in backlog[c] : m <= k
            IN  /\ backlog' = [backlog EXCEPT ![c] = @ \ {n}]
                /\ got' = [got EXCEPT ![c] = @ \cup {<<Followed(c), n>>}]
                /\ UNCHANGED socket
    /\ UNCHANGED <<wants, members, owed, writerVars, tailVars>>

\* The browser goes away.
Vanishes(c) ==
    /\ socket[c] \in {"accepted", "member", "replay", "live"}
    /\ socket' = [socket EXCEPT ![c] = "dead"]
    /\ UNCHANGED <<wants, backlog, members, got, owed, writerVars, tailVars>>

\* A line or a ping fails: the handler disconnects, the browser may retry.
Quits(c) ==
    /\ socket[c] = "dead" /\ Calm
    /\ socket' = [socket EXCEPT ![c] = "off"]
    /\ members' = members \ {c}
    /\ backlog' = [backlog EXCEPT ![c] = {}]
    /\ UNCHANGED <<wants, got, owed, writerVars, tailVars>>

\* The portal is restarted: no sockets, no cursors.
TailRestarts ==
    /\ restarts < MaxRestarts
    /\ restarts' = restarts + 1
    /\ last' = [s \in Slugs |-> 0]
    /\ todo' = {} /\ probe' = Nothing /\ sending' = <<>>
    /\ socket' = [c \in Sockets |-> "off"]
    /\ backlog' = [c \in Sockets |-> {}]
    /\ members' = {}
    /\ UNCHANGED <<written, start, lines, rotations, wants, got, owed>>

----------------------------------------------------------------------------
LogInit ==
    /\ written = [f \in Files |-> 0] /\ start = [f \in Files |-> 0]
    /\ lines = 0 /\ rotations = 0 /\ restarts = 0
    /\ last = [s \in Slugs |-> 0]
    /\ todo = {} /\ probe = Nothing /\ sending = <<>>
    /\ wants = [c \in Sockets |-> Portal]
    /\ socket = [c \in Sockets |-> "off"]
    /\ backlog = [c \in Sockets |-> {}]
    /\ members = {}
    /\ got = [c \in Sockets |-> {}] /\ owed = [c \in Sockets |-> 1]

Tails == Polls \/ (\E f \in Files : Stats(f)) \/ ReadsNews \/ Broadcasts

LogNext ==
    \/ \E f \in Files : Writes(f) \/ Rotates(f)
    \/ Tails
    \/ \E c \in Sockets : \/ \E w \in MayAsk : Accepts(c, w)
                          \/ Joins(c) \/ Replays(c)
                          \/ SendsLine(c) \/ Vanishes(c) \/ Quits(c)
    \/ TailRestarts

LogSpec == LogInit /\ [][LogNext]_logVars

----------------------------------------------------------------------------
\* Properties.

\* A cursor is one file's: no other user's bot has the slug.
OwnCursor(f) == \A g \in Files : g[2] = f[2] => g = f

\* A browser that is through with its replay has every line since: whatever
\* was written between the tail's stat and its read, between accept, connect
\* and the replay, or while lines were being sent, reached it by one of the
\* two ways (ws_logs connects before it reads, tail_logs keeps the size it
\* saw first).  Lines lost to a rotation and to a shared cursor are not
\* claimed.
NoGap ==
    \A c \in Sockets :
        LET f == Followed(c)
            due == {sending[i] : i \in DOMAIN sending}
        IN  socket[c] = "live" /\ OwnCursor(f) /\ start[f] = 0
            => \A n \in owed[c] .. last[f[2]] :
                   \/ <<f, n>> \in got[c]
                   \/ [line |-> n, file |-> f] \in due

=============================================================================
