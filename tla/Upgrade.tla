------------------------------- MODULE Upgrade -------------------------------
(***************************************************************************)
(* The ledger database and the bots' state files through everything that   *)
(* recreates or empties them: init_db (core/database.py), which the        *)
(* portal, the scheduler and every engine run as they start, and the       *)
(* operator's scripts migrate_to_user_fs, wipe_deals and reset_db.         *)
(*                                                                         *)
(* Python's sqlite3 opens a transaction for INSERT, UPDATE and DELETE, not *)
(* for DDL or PRAGMA: under `with conn:` every DROP, ALTER, PRAGMA and     *)
(* CREATE before the seeding of the admin row commits by itself, and the   *)
(* seeding and all that follows it commit together.  Each of those commits *)
(* is an action here, and a process can die between any two of them.       *)
(*                                                                         *)
(* Three tables stand for the rest: users, which gains columns; deals, for *)
(* the owned tables under it; exchange_accounts, recreated at version 12.  *)
(***************************************************************************)
EXTENDS Naturals

CONSTANTS
    Openers,    \* processes that run init_db
    Bots,
    MaxSecond,  \* bound on the seconds of the clock
    MaxDeaths   \* bound on the processes and scripts that die

ASSUME ConstantsAssumption ==
    MaxSecond \in Nat \ {0} /\ MaxDeaths \in Nat

VARIABLES
    version,    \* PRAGMA user_version
    table,      \* each table: "none", or the shape "old" or "new"
    rows,       \* what there is in them; "recent" is in the WAL file only
    opted,      \* REVERTO_DESTRUCTIVE_MIGRATE=1
    snapshot,   \* logs/pre-migration-backup-<second>.db
    second,     \* the clock, as the names of backups show it
    opener,     \* init_db in each process: where it is, the version it read
    running,    \* bots with a live process
    memory,     \* the state their engines hold
    flat,       \* logs/<slug>.state.json: "none", "old"
    state,      \* logs/<uid>/<slug>.state.json: also "fresh", "torn"
    aside,      \* its .pre_wipe_backup, and the .pre_mt of the flat one
    premt,      \* reverto.db.pre_mt.<ts>
    script,     \* the operator's script under way, and the files it still has to do
    deaths,
    had,        \* the deals there were at the start
    collided,   \* two backups have had the same name
    wiped,      \* a wipe has emptied the ledger
    intruded    \* a bot has started during the wipe under way

db == <<version, table, rows, snapshot>>
files == <<flat, state, aside, premt>>
engines == <<running, memory>>
history == <<had, collided, wiped, intruded>>
vars == <<db, opted, second, opener, engines, files, script, deaths, history>>

SchemaVersion == 14
LastDestructive == 4
Tables == {"users", "deals", "accounts"}
RowsOf == [users |-> {"admin"}, deals |-> {"deals", "recent"},
           accounts |-> {"account"}]
Owned == RowsOf.users \cup RowsOf.deals
Ledger == RowsOf.deals

NoScript == [name |-> "none", todo |-> {}]
Operating == script.name # "none"
AtRest == \A p \in Openers : opener[p].pc \notin
              {"check", "backup", "drop", "columns", "recreate", "stamp",
               "users", "rest"}
Complete == version = SchemaVersion /\ \A t \in Tables : table[t] = "new"

Goes(p, pc) == opener' = [opener EXCEPT ![p].pc = pc]
Drops(t) ==
    /\ table' = [table EXCEPT ![t] = "none"]
    /\ rows' = rows \ RowsOf[t]
rest == <<opted, second, engines, files, script, deaths>>

----------------------------------------------------------------------------
\* init_db.

\* _read_schema_version.  A version above the code's, or out of range, is
\* refused.
Reads(p) ==
    /\ opener[p].pc = "off" /\ script.name # "reset"
    /\ opener' = [opener EXCEPT ![p] =
           [pc |-> IF version = SchemaVersion THEN "users"
                   ELSE IF version < LastDestructive THEN "check"
                   ELSE "columns",
            current |-> version]]
    /\ UNCHANGED <<db, rest, history>>

\* _has_existing_owned_data, and the operator's consent if there is some.
Checks(p) ==
    /\ opener[p].pc = "check"
    /\ \/ rows \cap Owned = {} /\ Goes(p, "drop")
       \/ rows \cap Owned # {} /\ opted /\ Goes(p, "backup")
       \/ rows \cap Owned # {} /\ ~opted /\ Goes(p, "refused")
    /\ UNCHANGED <<db, rest, history>>

\* Mutated: shutil.copy, which leaves the WAL file behind.
BacksUp_copy(p) ==
    /\ opener[p].pc = "backup" /\ Goes(p, "drop")
    /\ snapshot' = [snapshot EXCEPT ![second] = rows \ {"recent"}]
    /\ collided' = (collided \/ snapshot[second] # {})
    /\ UNCHANGED <<version, table, rows, rest, had, wiped, intruded>>

\* _create_pre_migration_backup, through SQLite's backup.
BacksUp(p) ==
    /\ opener[p].pc = "backup" /\ Goes(p, "drop")
    /\ snapshot' = [snapshot EXCEPT ![second] = rows]
    /\ collided' = (collided \/ snapshot[second] # {})
    /\ UNCHANGED <<version, table, rows, rest, had, wiped, intruded>>

\* Children first.
DropsOwned(p) ==
    /\ opener[p].pc = "drop"
    /\ \/ table["deals"] # "none" /\ Drops("deals") /\ UNCHANGED opener
       \/ table["deals"] = "none" /\ Drops("users") /\ Goes(p, "columns")
    /\ UNCHANGED <<version, snapshot, rest, history>>

\* Mutated: "duplicate column" is an error like another.
AddsColumns_once(p) ==
    /\ opener[p].pc = "columns"
    /\ \/ /\ table["users"] = "old"
          /\ table' = [table EXCEPT !["users"] = "new"] /\ Goes(p, "recreate")
       \/ table["users"] = "none" /\ Goes(p, "recreate") /\ UNCHANGED table
       \/ table["users"] = "new" /\ Goes(p, "off") /\ UNCHANGED table
    /\ UNCHANGED <<version, rows, snapshot, rest, history>>

\* _apply_column_additions: a table that is not there, or has them, is left.
AddsColumns(p) ==
    /\ opener[p].pc = "columns" /\ Goes(p, "recreate")
    /\ table' = [table EXCEPT !["users"] = IF @ = "old" THEN "new" ELSE @]
    /\ UNCHANGED <<version, rows, snapshot, rest, history>>

\* _apply_destructive_table_recreates, by the version read at the start.
Recreates(p) ==
    /\ opener[p].pc = "recreate" /\ Goes(p, "stamp")
    /\ IF opener[p].current < 12 THEN Drops("accounts")
       ELSE UNCHANGED <<table, rows>>
    /\ UNCHANGED <<version, snapshot, rest, history>>

\* PRAGMA user_version, before the tables are there.
Stamps(p) ==
    /\ opener[p].pc = "stamp" /\ Goes(p, "users")
    /\ version' = SchemaVersion
    /\ UNCHANGED <<table, rows, snapshot, rest, history>>

\* CREATE TABLE IF NOT EXISTS users.
CreatesUsers(p) ==
    /\ opener[p].pc = "users" /\ Goes(p, "rest")
    /\ table' = [table EXCEPT !["users"] = IF @ = "none" THEN "new" ELSE @]
    /\ UNCHANGED <<version, rows, snapshot, rest, history>>

\* INSERT OR IGNORE of the admin row, and the other tables, in one
\* transaction.  It fails if the table is gone again.
CreatesRest(p) ==
    /\ opener[p].pc = "rest"
    /\ \/ /\ table["users"] # "none"
          /\ table' = [t \in Tables |-> IF table[t] = "none" THEN "new"
                                        ELSE table[t]]
          /\ rows' = rows \cup RowsOf.users
          /\ Goes(p, "on")
       \/ table["users"] = "none" /\ Goes(p, "off") /\ UNCHANGED <<table, rows>>
    /\ UNCHANGED <<version, snapshot, rest, history>>

\* A process dies, or one that was refused is started again with consent.
Dies(p) ==
    /\ opener[p].pc \notin {"off", "refused"} /\ deaths < MaxDeaths
    /\ Goes(p, "off") /\ deaths' = deaths + 1
    /\ UNCHANGED <<db, opted, second, engines, files, script, history>>

OptsIn(p) ==
    /\ opener[p].pc = "refused" /\ Goes(p, "off")
    /\ opted' = TRUE
    /\ UNCHANGED <<db, second, engines, files, script, deaths, history>>

Tick ==
    /\ second < MaxSecond /\ second' = second + 1
    /\ UNCHANGED <<db, opted, opener, engines, files, script, deaths, history>>

----------------------------------------------------------------------------
\* The bots, as far as their state files go.

Fresh(s) == IF s \in {"none", "torn"} THEN "fresh" ELSE s

\* StateIO.load, which starts anew from a file it cannot read.
Starts(b) ==
    /\ b \notin running /\ running' = running \cup {b}
    /\ memory' = [memory EXCEPT ![b] = Fresh(state[b])]
    /\ intruded' = (intruded \/ Operating)
    /\ UNCHANGED <<db, opted, second, opener, files, script, deaths, had,
                   collided, wiped>>

Saves(b) ==
    /\ b \in running
    /\ state' = [state EXCEPT ![b] = memory[b]]
    /\ UNCHANGED <<db, opted, second, opener, engines, flat, aside, premt,
                   script, deaths, history>>

Stops(b) ==
    /\ b \in running /\ running' = running \ {b}
    /\ memory' = [memory EXCEPT ![b] = "none"]
    /\ UNCHANGED <<db, opted, second, opener, files, script, deaths,
                   history>>

----------------------------------------------------------------------------
\* The operator's scripts.

\* migrate_to_user_fs: each file is moved unless its place is taken.
MovesToUser(b) ==
    /\ ~Operating /\ running = {} /\ flat[b] # "none" /\ state[b] = "none"
    /\ state' = [state EXCEPT ![b] = flat[b]]
    /\ flat' = [flat EXCEPT ![b] = "none"]
    /\ UNCHANGED <<db, opted, second, opener, engines, aside, premt, script,
                   deaths, history>>

\* Mutated: pid files are not looked at.
NoBotRuns_trusting == TRUE

\* _check_no_bots_running: no pid file of any user names a live process.
NoBotRuns == running = {}

\* wipe_deals up to its commit, after an init_db of its own.
WipesLedger ==
    /\ ~Operating /\ Complete /\ NoBotRuns
    /\ rows' = rows \ Ledger
    /\ wiped' = TRUE /\ intruded' = FALSE
    /\ script' = [name |-> "wipe", todo |-> {b \in Bots : state[b] # "none"}]
    /\ UNCHANGED <<version, table, snapshot, opted, second, opener, engines,
                   files, deaths, had, collided>>

\* _reset_state_file: one that does not parse ends the script; the rewrite
\* in place is not atomic.
Resets(b) ==
    /\ script.name = "wipe" /\ b \in script.todo
    /\ \/ /\ state[b] = "torn" /\ script' = NoScript
          /\ UNCHANGED <<state, aside, deaths>>
       \/ /\ state[b] # "torn"
          /\ aside' = [aside EXCEPT ![b] = state[b]]
          /\ \/ /\ state' = [state EXCEPT ![b] = "fresh"]
                /\ script' = [script EXCEPT !.todo = @ \ {b}]
                /\ UNCHANGED deaths
             \/ /\ deaths < MaxDeaths /\ deaths' = deaths + 1
                /\ state' = [state EXCEPT ![b] = "torn"]
                /\ script' = NoScript
    /\ UNCHANGED <<db, opted, second, opener, engines, flat, premt, history>>

\* reset_db: a copy of the database file, which leaves out what is in the
\* WAL file, and both are removed; nothing checks that they are not in use.
ResetsDb ==
    /\ ~Operating /\ running = {} /\ version # 0
    /\ \A p \in Openers : opener[p].pc \in {"off", "refused"}
    /\ premt' = premt \cup (rows \ {"recent"})
    /\ version' = 0 /\ table' = [t \in Tables |-> "none"] /\ rows' = {}
    /\ script' = [name |-> "reset", todo |-> {b \in Bots : flat[b] # "none"}]
    /\ UNCHANGED <<snapshot, opted, second, opener, engines, flat, state, aside,
                   deaths, history>>

\* Then the state files, of the old layout only.
ResetsFlat(b) ==
    /\ script.name = "reset" /\ b \in script.todo
    /\ aside' = [aside EXCEPT ![b] = flat[b]]
    /\ flat' = [flat EXCEPT ![b] = "none"]
    /\ script' = [script EXCEPT !.todo = @ \ {b}]
    /\ UNCHANGED <<db, opted, second, opener, engines, state, premt, deaths,
                   history>>

ScriptEnds ==
    /\ Operating /\ script' = NoScript
    /\ \/ script.todo = {} /\ UNCHANGED deaths
       \/ script.todo # {} /\ deaths < MaxDeaths /\ deaths' = deaths + 1
    /\ UNCHANGED <<db, opted, second, opener, engines, files, history>>

----------------------------------------------------------------------------
\* An install of any age, with or without deals in it.
Init ==
    /\ version \in {0, 3, 5, 11, SchemaVersion}
    /\ had \in {{}, {"deals"}, {"deals", "recent"}}
    /\ version = 0 => had = {}
    /\ table = [users |-> IF version = 0 THEN "none"
                          ELSE IF version < 11 THEN "old" ELSE "new",
                deals |-> IF version = 0 THEN "none"
                          ELSE IF version = 3 THEN "old" ELSE "new",
                accounts |-> IF version < 11 THEN "none"
                             ELSE IF version = 11 THEN "old" ELSE "new"]
    /\ rows = had \cup (IF version = 0 THEN {} ELSE {"admin"})
                  \cup (IF version = 11 THEN {"account"} ELSE {})
    /\ opted = FALSE /\ snapshot = [s \in 1..MaxSecond |-> {}] /\ second = 1
    /\ opener = [p \in Openers |-> [pc |-> "off", current |-> 0]]
    /\ running = {} /\ memory = [b \in Bots |-> "none"]
    /\ state \in [Bots -> {"none", "old"}]
    /\ flat = [b \in Bots |-> IF state[b] = "none" /\ version < 5 THEN "old"
                              ELSE "none"]
    /\ aside = [b \in Bots |-> "none"] /\ premt = {} /\ script = NoScript
    /\ deaths = 0 /\ collided = FALSE /\ wiped = FALSE /\ intruded = FALSE

Opens(p) ==
    \/ Reads(p) \/ Checks(p) \/ BacksUp(p) \/ DropsOwned(p) \/ AddsColumns(p)
    \/ Recreates(p) \/ Stamps(p) \/ CreatesUsers(p) \/ CreatesRest(p)

Next ==
    \/ \E p \in Openers : Opens(p) \/ Dies(p) \/ OptsIn(p)
    \/ \E b \in Bots : \/ Starts(b) \/ Saves(b) \/ Stops(b)
                       \/ MovesToUser(b) \/ Resets(b) \/ ResetsFlat(b)
    \/ Tick \/ WipesLedger \/ ResetsDb \/ ScriptEnds

Spec == Init /\ [][Next]_vars

\* A process goes on while it lives, one that is down is started again by
\* its supervisor, and the operator gives the consent that is asked for.
Fairness == \A p \in Openers : WF_vars(Opens(p)) /\ WF_vars(OptsIn(p))
LiveSpec == Spec /\ Fairness

----------------------------------------------------------------------------
(* Whatever dies in the middle of an upgrade, every deal is in the ledger  *)
(* or in the backup made before the drop, until the operator wipes or      *)
(* resets; unless two processes back up within one second, when the later  *)
(* backup, perhaps of an emptied database, replaces the earlier.           *)
DealsKept ==
    ~wiped /\ premt = {} /\ ~collided =>
        had \subseteq rows \cup UNION {snapshot[s] : s \in 1..MaxSecond}

(* A wipe that runs to its end leaves no deals in the ledger and none in a *)
(* state file, unless a bot has started while it ran.                      *)
WipeIsWhole ==
    [][script.name = "wipe" /\ ScriptEnds /\ script.todo = {} /\ ~intruded
            => /\ rows \cap Ledger = {}
               /\ \A b \in Bots : state[b] \in {"none", "fresh"}]_vars

(* Processes that keep being started end up running, on a whole schema.    *)
EventuallyOpen == <>[](~Operating => Complete)
=============================================================================
