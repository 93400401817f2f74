----------------------------- MODULE StateFile -----------------------------
(***************************************************************************)
(* How <slug>.state.json is written, file-system call by file-system call. *)
(*                                                                         *)
(* Everybody writes the same way: write_text on state_file.with_suffix     *)
(* (".tmp"), which creates or truncates <slug>.state.tmp and then fills    *)
(* it, and Path.replace onto state.json.  The tmp name is one for all.     *)
(*   the engine   _write_state every tick, mark_stopped on SIGTERM         *)
(*   Closers      the portal's offline close: under the state lock and     *)
(*                only while the bot does not run                          *)
(*   Editors      the portal's silent-exit reconcile (BotInfo.read_state), *)
(*                the drawdown reset and _persist_stopped_reason_field:    *)
(*                read, change, write, without a lock                      *)
(*                                                                         *)
(* The deals and the balance in a snapshot are one version number: a       *)
(* writer that changes them writes a larger one.  A file is a directory    *)
(* entry, an inode and what is in it.                                      *)
(***************************************************************************)
EXTENDS Integers, FiniteSets

CONSTANTS
    Engine,     \* the bot subprocess
    Closers,    \* portal threads in _locked_close
    Editors,    \* portal threads rewriting other fields
    Inodes,     \* one more than may be in a write at once, or more
    NoFile,     \* no directory entry, no open file
    MaxVersion, \* bound on the version of the deals
    Kills       \* subset of {"engine", "portal"}: who may be killed

ASSUME ConstantsAssumption ==
    /\ Engine \notin Closers \cup Editors
    /\ Closers \cap Editors = {}
    /\ {"free", Engine} \cap Closers = {} /\ Engine # "free"
    /\ NoFile \notin Inodes
    /\ MaxVersion \in Nat
    /\ \A v \in 0..MaxVersion, r \in BOOLEAN : NoFile # [deals |-> v, running |-> r]
    /\ Kills \subseteq {"engine", "portal"}

VARIABLES
    entry,      \* entry["state"], entry["tmp"]: inode of each name
    data,       \* data[i]: what is in inode i
    engine,     \* is the bot subprocess down, up or stopping
    mem,        \* the version of the deals the engine has in memory, or 0
    pc,         \* where each writer is in its write
    text,       \* the snapshot each writer is writing, else Blank
    fd,         \* the inode each writer has open
    lock,       \* holder of the state lock
    edits       \* do editors rewrite this file at all

vars == <<entry, data, engine, mem, pc, text, fd, lock, edits>>

Writers == {Engine} \cup Closers \cup Editors
Versions == 0 .. MaxVersion

\* A snapshot: the deals' version and the `running` field.
Snapshots == [deals : Versions, running : BOOLEAN]
Blank == [deals |-> 0, running |-> FALSE]   \* nothing in hand
Torn == [deals |-> -1, running |-> FALSE]   \* cut short or mixed: not JSON

State == IF entry["state"] = NoFile THEN NoFile ELSE data[entry["state"]]

\* The snapshot json.loads finds, if it finds one.
Readable == State \in Snapshots

----------------------------------------------------------------------------
\* The three calls of a write.

Goes(w, p) == pc' = [pc EXCEPT ![w] = p]

\* No name and no open file refers to the inode.
Unused(i) == i \notin {entry[n] : n \in {"state", "tmp"}} \cup {fd[w] : w \in Writers}

\* open(tmp, "w") creates the tmp file or truncates the one there is.
Opens(w, s) ==
    \E i \in Inodes :
        /\ IF entry["tmp"] = NoFile THEN Unused(i) ELSE i = entry["tmp"]
        /\ entry' = [entry EXCEPT !["tmp"] = i]
        /\ data' = [data EXCEPT ![i] = Torn]
        /\ fd' = [fd EXCEPT ![w] = i]
        /\ text' = [text EXCEPT ![w] = s]
        /\ Goes(w, "opened")

\* write and close.  Over another writer's text the two may mix.
Fills(w) ==
    /\ pc[w] = "opened"
    /\ \E d \in {text[w]} \cup (IF data[fd[w]] = Torn THEN {} ELSE {Torn}) :
           data' = [data EXCEPT ![fd[w]] = d]
    /\ fd' = [fd EXCEPT ![w] = NoFile]
    /\ text' = [text EXCEPT ![w] = Blank]
    /\ Goes(w, "filled")
    /\ UNCHANGED <<entry, engine, mem, lock, edits>>

\* Path.replace: whatever tmp file there is becomes state.json.  When there
\* is none, FileNotFoundError is logged and forgotten by every caller.
Replaces ==
    IF entry["tmp"] = NoFile
    THEN UNCHANGED entry
    ELSE entry' = [state |-> entry["tmp"], tmp |-> NoFile]

----------------------------------------------------------------------------
\* The engine.

\* Mutated: the load resets the deals although the file is readable.
Loads_fresh ==
    /\ engine = "down" /\ lock = "free"
    /\ mem' = 0
    /\ engine' = "up"
    /\ UNCHANGED <<entry, data, pc, text, fd, lock, edits>>

\* PaperEngine(): StateIO.load under the state lock; a file that is missing
\* or cannot be parsed means a clean start.  The sweep looks for names that
\* start with <slug>.state.json: <slug>.state.tmp stays.
Loads ==
    /\ engine = "down" /\ lock = "free"
    /\ mem' = IF Readable THEN State.deals ELSE 0
    /\ engine' = "up"
    /\ UNCHANGED <<entry, data, pc, text, fd, lock, edits>>

\* Mutated: the tick merges into what is on disk, so it must be readable.
TickWrites_merging ==
    /\ engine = "up" /\ pc[Engine] = "idle"
    /\ Readable \/ State = NoFile
    /\ \E v \in {mem, mem + 1} \cap Versions :
           mem' = v /\ Opens(Engine, [deals |-> v, running |-> TRUE])
    /\ UNCHANGED <<engine, lock, edits>>

\* The end of a tick that may have opened or closed deals.
TickWrites ==
    /\ engine = "up" /\ pc[Engine] = "idle"
    /\ \E v \in {mem, mem + 1} \cap Versions :
           mem' = v /\ Opens(Engine, [deals |-> v, running |-> TRUE])
    /\ UNCHANGED <<engine, lock, edits>>

EngineReplaces ==
    /\ pc[Engine] = "filled"
    /\ Replaces
    /\ Goes(Engine, "idle")
    /\ IF engine = "stopping"
       THEN engine' = "down" /\ mem' = 0
       ELSE UNCHANGED <<engine, mem>>
    /\ UNCHANGED <<data, text, fd, lock, edits>>

\* The process is gone, with what it had in memory and in hand.
Dies ==
    /\ engine' = "down" /\ mem' = 0
    /\ Goes(Engine, "idle")
    /\ text' = [text EXCEPT ![Engine] = Blank]
    /\ fd' = [fd EXCEPT ![Engine] = NoFile]

\* SIGTERM, also in the middle of a write, which is then abandoned:
\* mark_stopped reads the file (an unreadable one is left as it is) and
\* begins a write of its own.
Stops ==
    /\ engine = "up"
    /\ IF Readable \/ State = NoFile
       THEN /\ engine' = "stopping"
            /\ Opens(Engine, [deals |-> IF Readable THEN State.deals ELSE 0,
                              running |-> FALSE])
            /\ UNCHANGED mem
       ELSE Dies /\ UNCHANGED <<entry, data>>
    /\ UNCHANGED <<lock, edits>>

\* SIGKILL or power loss between any two calls.
EngineKilled ==
    /\ "engine" \in Kills
    /\ engine # "down"
    /\ Dies
    /\ UNCHANGED <<entry, data, lock, edits>>

----------------------------------------------------------------------------
\* The portal.

\* _locked_close up to _persist_state: the deal is closed in a copy.
CloserBegins(c) ==
    /\ pc[c] = "idle" /\ lock = "free" /\ engine = "down" /\ Readable
    /\ lock' = c
    /\ Goes(c, "read")
    /\ \E v \in {State.deals + 1} \cap Versions :
           text' = [text EXCEPT ![c].deals = v]
    /\ UNCHANGED <<entry, data, engine, mem, fd, edits>>

\* A field is changed in what was read: `running` becomes false when the
\* process is gone or its heartbeat is old (a tick may take any time); the
\* drawdown fields and stopped_reason leave it alone.
EditorReads(e) ==
    /\ edits /\ pc[e] = "idle" /\ Readable
    /\ Goes(e, "read")
    /\ \E r \in {FALSE, State.running} :
           text' = [text EXCEPT ![e] = [State EXCEPT !.running = r]]
    /\ UNCHANGED <<entry, data, engine, mem, fd, lock, edits>>

EditorOpens(e) ==
    /\ pc[e] = "read"
    /\ Opens(e, text[e])
    /\ UNCHANGED <<engine, mem, lock, edits>>

\* _persist_state merges its deals into the file as it is now.
CloserOpens(c) ==
    /\ pc[c] = "read"
    /\ Opens(c, [text[c] EXCEPT !.running = Readable /\ State.running])
    /\ UNCHANGED <<engine, mem, lock, edits>>

PortalReplaces(w) ==
    /\ pc[w] = "filled"
    /\ Replaces
    /\ Goes(w, "idle")
    /\ lock' = IF lock = w THEN "free" ELSE lock
    /\ UNCHANGED <<data, engine, mem, text, fd, edits>>

\* The portal is killed and starts again, sweeping every *.tmp of logs/
\* (core/cleanup.py), a running engine's tmp file included.
PortalRestarts ==
    /\ "portal" \in Kills
    /\ pc' = [w \in Writers |-> IF w = Engine THEN pc[w] ELSE "idle"]
    /\ fd' = [w \in Writers |-> IF w = Engine THEN fd[w] ELSE NoFile]
    /\ text' = [w \in Writers |-> IF w = Engine THEN text[w] ELSE Blank]
    /\ lock' = "free"
    /\ entry' = [entry EXCEPT !["tmp"] = NoFile]
    /\ UNCHANGED <<data, engine, mem, edits>>

----------------------------------------------------------------------------
Init ==
    /\ entry = [state |-> NoFile, tmp |-> NoFile]
    /\ data = [i \in Inodes |-> Torn]
    /\ engine = "down" /\ mem = 0
    /\ pc = [w \in Writers |-> "idle"]
    /\ text = [w \in Writers |-> Blank]
    /\ fd = [w \in Writers |-> NoFile]
    /\ lock = "free"
    /\ edits \in BOOLEAN

EngineStep == Loads \/ TickWrites \/ Fills(Engine) \/ EngineReplaces

Portal(w) ==
    \/ w \in Editors /\ EditorOpens(w)
    \/ w \in Closers /\ CloserOpens(w)
    \/ Fills(w) \/ PortalReplaces(w)

Next ==
    \/ EngineStep \/ Stops \/ EngineKilled \/ PortalRestarts
    \/ \E c \in Closers : CloserBegins(c)
    \/ \E e \in Editors : EditorReads(e)
    \/ \E w \in Closers \cup Editors : Portal(w)

Spec == Init /\ [][Next]_vars

\* The subprocess is scheduled, a portal thread finishes what it began, and
\* the portal is not restarted, sweeping the tmp file, in every single write.
LiveSpec == /\ Spec
            /\ WF_vars(EngineStep)
            /\ SF_vars(Fills(Engine) /\ entry["tmp"] # NoFile)
            /\ SF_vars(EngineReplaces /\ entry["tmp"] # NoFile)
            /\ \A w \in Closers \cup Editors : WF_vars(Portal(w))

----------------------------------------------------------------------------
\* Properties.

\* Every variable holds what its declaration says, and only a writer in the
\* middle of its write has a file open.
TypeOK ==
    /\ entry \in [{"state", "tmp"} -> Inodes \cup {NoFile}]
    /\ data \in [Inodes -> Snapshots \cup {Torn}]
    /\ engine \in {"down", "up", "stopping"}
    /\ mem \in Versions
    /\ pc \in [Writers -> {"idle", "read", "opened", "filled"}]
    /\ text \in [Writers -> Snapshots]
    /\ fd \in [Writers -> Inodes \cup {NoFile}]
    /\ lock \in {"free"} \cup Closers /\ edits \in BOOLEAN
    /\ \A w \in Writers : fd[w] # NoFile <=> pc[w] = "opened"

\* Seen through state.json the deals then only move forward, although writes
\* are cut short by SIGKILL, restarts reload them and the portal closes deals
\* in between ("a bot always has only one writer").
Reader == INSTANCE AtomicFile WITH
              Nothing <- NoFile,
              seen <- IF edits \/ State = NoFile THEN NoFile ELSE State.deals
OneWriter == Reader!Spec

\* However the unlocked editors mix their text with the engine's, an
\* unreadable state.json does not stay while an engine runs: it rewrites the
\* whole file every tick and does not read it first (_write_state).
Heals == (engine = "up" /\ State = Torn) ~> (Readable \/ engine # "up")
=============================================================================
