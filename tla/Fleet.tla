-------------------------------- MODULE Fleet --------------------------------
(***************************************************************************)
(* The bots of one user as the portal manages them: the YAML files under   *)
(* config/bots, the registry that indexes them (web/app.py, BotRegistry),  *)
(* the endpoints that create, copy, import, edit and delete them           *)
(* (web/routes/bots.py), the purge behind a delete (core/paths.py) and as  *)
(* much of the bot subprocess (main_paper.py) as meets them: its pid file, *)
(* the reading of its config and of its state.                             *)
(*                                                                         *)
(* Handlers share the portal's event loop.  One that ingests a config      *)
(* awaits its request body and other handlers run meanwhile; a delete      *)
(* awaits nothing, but the subprocesses do not wait for it.  A bot created *)
(* again under an old slug is a new generation of it.  Several             *)
(* subprocesses of one generation are the business of BotProcess.          *)
(***************************************************************************)
EXTENDS Integers, FiniteSets

CONSTANTS
    Slugs, Clients,
    None,
    Cap,        \* REVERTO_MAX_BOTS_PER_USER
    MaxStale,   \* _MAX_STALE_REFRESHES
    Started,    \* the slugs that are ever started, and made again
    MaxGen      \* bound on the generations of a slug of Started

ASSUME ConstantsAssumption ==
    /\ Cap \in Nat \ {0} /\ MaxStale \in Nat /\ MaxGen \in Nat \ {0}
    /\ Started \subseteq Slugs /\ None \notin Slugs \cup Clients
    /\ IsFiniteSet(Clients) /\ Clients # {}

VARIABLES
    yaml,       \* generation of the config file of a slug, 0 without one
    made,       \* generations a slug has had
    listed,     \* BotRegistry._bots
    due,        \* the registry's TTL has passed, or it was invalidated
    users,      \* the cached set of active users: known, in its TTL, failures
    req,        \* the request each client waits for
    erasing,    \* the slug whose delete holds the event loop
    engine,     \* the subprocess of a slug
    pid,        \* slugs with a pid file
    saved,      \* generation whose balance and deals state.json has, or 0
    orphan,     \* generation run by a subprocess without a pid file, or 0
    blind,      \* the registry has once been emptied by database failures
    slipped,    \* slugs deleted while their subprocess was booting
    partial     \* slugs whose purge left state.json behind

files == <<yaml, made>>
registry == <<listed, due, users>>
processes == <<engine, pid, saved, orphan>>
history == <<blind, slipped, partial>>
vars == <<files, registry, req, erasing, processes, history>>

Bots == {s \in Slugs : yaml[s] # 0}
Loop == erasing = None
NoRequest == [kind |-> "none", slug |-> None]
NoEngine == [pc |-> "none", runs |-> 0, owns |-> 0]
Idle(c) == Loop /\ req[c] = NoRequest

\* BotInfo.running.
Running(s) == s \in pid /\ engine[s].pc \in {"pid", "load", "serve"}

----------------------------------------------------------------------------
\* BotRegistry.

\* _scan_user_dirs: the users table is asked once the cache is old; a failed
\* query is covered by the cache MaxStale times in a row.
Scan(up) ==
    IF users.fresh THEN users
    ELSE IF up THEN [known |-> TRUE, fresh |-> TRUE, fails |-> 0]
    ELSE [users EXCEPT !.fails = IF @ <= MaxStale THEN @ + 1 ELSE @]

\* Without a set of users to trust the scan returns nothing.
Trusted(u) == u.fresh \/ (u.known /\ u.fails <= MaxStale)

\* _refresh_locked, over the directories of the users the scan returned.
Found(u) == IF Trusted(u) THEN Bots ELSE {}

\* refresh, which get and all begin with.
Refresh ==
    \/ ~due /\ UNCHANGED <<registry, blind>>
    \/ \E up \in BOOLEAN :
        /\ due /\ due' = FALSE
        /\ users' = Scan(up)
        /\ listed' = Found(users')
        /\ blind' = (blind \/ ~Trusted(users'))

\* The TTLs of the registry and of its set of users.
Expires ==
    /\ Loop
    /\ \/ due' = TRUE /\ UNCHANGED users
       \/ users' = [users EXCEPT !.fresh = FALSE] /\ UNCHANGED due
    /\ UNCHANGED <<files, listed, req, erasing, processes, history>>

----------------------------------------------------------------------------
\* Ingesting configs.  Awaits and Answered: the handler awaits the body of a
\* request of some kind, or answers.

Awaits(c, kind, s) ==
    /\ req' = [req EXCEPT ![c] = [kind |-> kind, slug |-> s]]
    /\ UNCHANGED <<files, erasing, processes, slipped, partial>>

Answered(c) ==
    /\ req' = [req EXCEPT ![c] = NoRequest]
    /\ UNCHANGED <<erasing, processes, history>>

Has(c, kind) == Loop /\ req[c].kind = kind

\* A body over the cap, not JSON or YAML, or no valid config: 413 or 400.
BadBody(c) ==
    /\ Loop /\ req[c] # NoRequest
    /\ Answered(c)
    /\ UNCHANGED <<files, registry>>

\* path.write_text of a config for a slug that has none: a new bot.
Born(s) ==
    /\ made[s] < IF s \in Started THEN MaxGen ELSE 1
    /\ made' = [made EXCEPT ![s] = @ + 1]
    /\ yaml' = [yaml EXCEPT ![s] = made[s] + 1]

\* The same over whatever is there.
Written(s) == IF yaml[s] = 0 THEN Born(s) ELSE UNCHANGED files

\* registry.invalidate.
Invalidate == due' = TRUE /\ UNCHANGED <<listed, users>>

\* _enforce_bot_quota.
UnderQuota == Refresh /\ Cardinality(listed') < Cap

\* POST /api/bots: quota, body, and the slug out of the body.
CreateBegins(c) == Idle(c) /\ UnderQuota /\ Awaits(c, "create", None)

Created(c, s) ==
    /\ Has(c, "create")
    /\ \/ yaml[s] # 0 /\ UNCHANGED <<files, registry>>          \* 409
       \/ yaml[s] = 0 /\ Born(s) /\ Invalidate
    /\ Answered(c)

\* Mutated: at the cap bots can still be copied.
DuplicateBegins_free(c, s) == Idle(c) /\ Refresh /\ Awaits(c, "duplicate", s)

\* POST /api/bots/{slug}/duplicate: the source is read after the body.
DuplicateBegins(c, s) == Idle(c) /\ UnderQuota /\ Awaits(c, "duplicate", s)

Duplicated(c, s) ==
    /\ Has(c, "duplicate")
    /\ \/ /\ yaml[req[c].slug] = 0 \/ yaml[s] # 0               \* 404, 409
          /\ UNCHANGED <<files, registry>>
       \/ /\ yaml[req[c].slug] # 0 /\ yaml[s] = 0
          /\ Born(s) /\ Invalidate
    /\ Answered(c)

\* POST /api/bots/import: the slug is checked before the body is awaited.
ImportBegins(c, s) ==
    /\ Idle(c) /\ UnderQuota /\ yaml[s] = 0
    /\ Awaits(c, "import", s)

Imported(c) ==
    /\ Has(c, "import") /\ Written(req[c].slug) /\ Invalidate
    /\ Answered(c)

\* PUT /api/bots/{slug}/config: likewise, and the registry is left alone.
UpdateBegins(c, s) ==
    /\ Idle(c) /\ yaml[s] # 0
    /\ Awaits(c, "update", s)
    /\ UNCHANGED <<registry, blind>>

Updated(c) ==
    /\ Has(c, "update") /\ Written(req[c].slug)
    /\ Answered(c)
    /\ UNCHANGED registry

----------------------------------------------------------------------------
\* DELETE /api/bots/{slug}.

Deletable_always(s) == s \in listed' /\ yaml[s] # 0

\* Known to the registry, not running, and its YAML is there.
Deletable(s) == s \in listed' /\ ~Running(s) /\ yaml[s] # 0

DeleteBegins(c, s) ==
    /\ Idle(c) /\ Refresh /\ Deletable(s)
    /\ erasing' = s
    /\ slipped' = IF engine[s].pc = "boot" THEN slipped \cup {s} ELSE slipped
    /\ UNCHANGED <<files, req, processes, partial>>

\* Mutated: the state file is not among the candidates.
Purged_keepsState(s) ==
    /\ pid' = pid \ {s}
    /\ UNCHANGED <<saved, partial>>

\* purge_bot: pid file and state file; a file that cannot be unlinked is
\* left behind.
Purged(s) ==
    /\ pid' = pid \ {s}
    /\ \/ saved' = [saved EXCEPT ![s] = 0] /\ UNCHANGED partial
       \/ saved[s] # 0 /\ partial' = partial \cup {s} /\ UNCHANGED saved

\* The YAML goes last, whatever the purge left.  A subprocess that serves
\* by now goes on without a pid file.
DeleteEnds ==
    /\ ~Loop
    /\ Purged(erasing)
    /\ yaml' = [yaml EXCEPT ![erasing] = 0]
    /\ Invalidate
    /\ IF engine[erasing].pc \in {"load", "serve"}
       THEN /\ orphan' = [orphan EXCEPT ![erasing] = engine[erasing].runs]
            /\ engine' = [engine EXCEPT ![erasing] = NoEngine]
       ELSE UNCHANGED <<orphan, engine>>
    /\ erasing' = None
    /\ UNCHANGED <<made, req, blind, slipped>>

----------------------------------------------------------------------------
\* The subprocess of a bot.

Steps(s, from, to) ==
    /\ engine[s].pc = from
    /\ engine' = [engine EXCEPT ![s].pc = to]

\* Known, not running, and the starting slot is free.
Spawns(c, s) ==
    /\ s \in Started
    /\ Idle(c) /\ Refresh /\ s \in listed' /\ ~Running(s)
    /\ Steps(s, "none", "boot")
    /\ UNCHANGED <<files, req, erasing, pid, saved, orphan, slipped, partial>>

\* start_bot spawns main_paper whatever the config says; the dry run of a
\* live bot reads it first.
Start(c, s) == Spawns(c, s)
StartDryRun(c, s) == Spawns(c, s) /\ yaml[s] # 0

\* main: the pid file is written before the config is read.
WritesPid(s) ==
    /\ Steps(s, "boot", "pid")
    /\ pid' = pid \cup {s}
    /\ UNCHANGED <<saved, orphan>>

\* sys.exit and atexit, for a config that is gone or refused.
Refuses(s) ==
    /\ engine[s].pc = "pid"
    /\ engine' = [engine EXCEPT ![s] = NoEngine]
    /\ pid' = pid \ {s}
    /\ UNCHANGED <<saved, orphan>>

\* load_bot_config.
LoadsConfig(s) ==
    /\ yaml[s] # 0
    /\ engine[s].pc = "pid"
    /\ engine' = [engine EXCEPT ![s] = [pc |-> "load", runs |-> yaml[s], owns |-> @.owns]]
    /\ UNCHANGED <<pid, saved, orphan>>

\* The engine takes up the balance and deals of state.json, if there is one.
LoadsState(s) ==
    /\ engine[s].pc = "load"
    /\ engine' = [engine EXCEPT ![s] =
                     [pc |-> "serve", runs |-> @.runs,
                      owns |-> IF saved[s] = 0 THEN @.runs ELSE saved[s]]]
    /\ UNCHANGED <<pid, saved, orphan>>

\* A tick writes state.json.
Saves(s) ==
    /\ \/ engine[s].pc = "serve" /\ saved' = [saved EXCEPT ![s] = engine[s].owns]
       \/ orphan[s] # 0 /\ saved' = [saved EXCEPT ![s] = orphan[s]]
    /\ UNCHANGED <<engine, pid, orphan>>

\* Its end: a stop saves and removes the pid file; after a crash it stays.
Ends(s) ==
    \/ /\ engine[s].pc = "serve"
       /\ engine' = [engine EXCEPT ![s] = NoEngine]
       /\ saved' = [saved EXCEPT ![s] = engine[s].owns]
       /\ pid' = pid \ {s}
       /\ UNCHANGED orphan
    \/ /\ engine[s].pc # "none"
       /\ engine' = [engine EXCEPT ![s] = NoEngine]
       /\ UNCHANGED <<saved, pid, orphan>>
    \/ /\ orphan[s] # 0
       /\ orphan' = [orphan EXCEPT ![s] = 0]
       /\ UNCHANGED <<engine, saved, pid>>

Child(s) ==
    /\ WritesPid(s) \/ Refuses(s) \/ LoadsConfig(s) \/ LoadsState(s)
        \/ Saves(s) \/ Ends(s)
    /\ UNCHANGED <<files, registry, req, erasing, history>>

----------------------------------------------------------------------------
\* The portal starts: BotRegistry.__init__ fills the registry, with the
\* users table readable.
Init ==
    /\ yaml = [s \in Slugs |-> 0]
    /\ made = [s \in Slugs |-> 0]
    /\ listed = {} /\ due = FALSE
    /\ users = [known |-> TRUE, fresh |-> TRUE, fails |-> 0]
    /\ req = [c \in Clients |-> NoRequest]
    /\ erasing = None
    /\ engine = [s \in Slugs |-> NoEngine]
    /\ pid = {} /\ saved = [s \in Slugs |-> 0]
    /\ orphan = [s \in Slugs |-> 0]
    /\ blind = FALSE /\ slipped = {} /\ partial = {}

Ingests(c) ==
    \/ CreateBegins(c) \/ Imported(c) \/ Updated(c) \/ BadBody(c)
    \/ \E s \in Slugs : \/ Created(c, s) \/ Duplicated(c, s)
                        \/ DuplicateBegins(c, s) \/ ImportBegins(c, s)
                        \/ UpdateBegins(c, s)

Next ==
    \/ Expires \/ DeleteEnds
    \/ \E c \in Clients : Ingests(c)
    \/ \E c \in Clients, s \in Slugs : DeleteBegins(c, s) \/ Start(c, s)
                                  \/ StartDryRun(c, s)
    \/ \E s \in Slugs : Child(s)

Spec == Init /\ [][Next]_vars

----------------------------------------------------------------------------
(* The per-user cap of _enforce_bot_quota is checked before the body of a  *)
(* request is awaited, against a registry up to five seconds old, and an   *)
(* update can bring a deleted config back behind the registry's back:      *)
(* while the registry has never been emptied, every client but one may put *)
(* the user two bots over the cap, and no more.                            *)
QuotaHolds == ~blind => Cardinality(Bots) <= Cap + 2 * (Cardinality(Clients) - 1)

(* What purge_bot is for: an engine serves on the balance and deals of its *)
(* own bot, never on those of a deleted one of the same slug, unless a     *)
(* file could not be removed or the delete overtook a booting subprocess.  *)
StartsFresh ==
    \A s \in Slugs \ (slipped \cup partial) :
        engine[s].pc = "serve" => engine[s].owns = engine[s].runs

(* delete_bot refuses a running bot: an engine that serves is the one its  *)
(* pid file and its config name, so that it can be seen and stopped,       *)
(* unless the delete overtook its boot.                                    *)
NoGhosts ==
    \A s \in Slugs \ slipped :
        /\ orphan[s] = 0
        /\ engine[s].pc = "serve" => s \in pid /\ yaml[s] = engine[s].runs
=============================================================================
