------------------------------- MODULE Logins -------------------------------
(***************************************************************************)
(* Signing in to the portal and changing what it takes to sign in          *)
(* (web/routes/auth.py, core/user_store.py, the cookie helpers and request *)
(* dependencies of web/app.py) and the two operator scripts that write the *)
(* same rows from processes of their own (scripts/totp_admin_reset.py,     *)
(* scripts/setup_admin.py).                                                *)
(*                                                                         *)
(* The handlers share one event loop and run until they await.  The        *)
(* dependency _request_user runs before the handler, on a worker thread,   *)
(* and hands it the users row as it was then; a handler that writes twice  *)
(* (credentials, then session_epoch) commits twice.  A login's two cookies *)
(* are records; the epoch in a session cookie is compared with the row's.  *)
(***************************************************************************)
EXTENDS Naturals

CONSTANTS
    Users, Browsers,
    Passwords,
    None,       \* no password, no seed, no cookie, nobody
    Limit,      \* PER_ACCOUNT_FAIL_LIMIT
    Window,     \* FAILED_LOGIN_WINDOW_S in ticks of the clock
    MaxEpoch    \* bound on the changes a behaviour makes

ASSUME LoginConstantsAssumption ==
    /\ None \notin Users \cup Browsers \cup Passwords
    /\ Limit \in Nat \ {0} /\ Window \in Nat \ {0} /\ MaxEpoch \in Nat

VARIABLES
    row,        \* the users table
    jar,        \* the cookies each browser holds
    request,    \* the request each browser waits for
    loop,       \* whose handler holds the event loop between two commits
    resetting,  \* what totp_admin_reset has still to do, and for whom
    torn        \* users whose change of seed or password missed its bump

loginVars == <<row, jar, request, loop, resetting, torn>>

Idle == [kind |-> "idle", pc |-> "idle", user |-> None]

----------------------------------------------------------------------------
\* The users row.

\* What a login and its limit know of a user; the seeded admin has no
\* password until setup_admin gives it one.
NewRow == [password |-> None, seed |-> None, epoch |-> 0,
           fails |-> 0, age |-> Window]

\* verify_password can say yes: the account has been given a password.
HasPassword(u) == row[u].password # None

\* set_password and update_user_totp_seed: one commit, which owes a bump.
SetPassword(u, new) ==
    /\ row' = [row EXCEPT ![u].password = new]
    /\ torn' = torn \cup {u}

SetSeed(u, seed) ==
    /\ row' = [row EXCEPT ![u].seed = seed]
    /\ torn' = torn \cup {u}

\* check_login_rate_limit.
Limited(u) == row[u].fails >= Limit /\ row[u].age < Window

\* increment_failed_login: past the window a streak starts afresh.  Counts
\* beyond the limit are not told apart.
Failed(r) ==
    [r EXCEPT !.fails = IF r.age = Window THEN 1
                        ELSE IF @ < Limit THEN @ + 1 ELSE @,
              !.age = 0]

\* reset_failed_login.
Cleared(r) == [r EXCEPT !.fails = 0, !.age = Window]

\* bump_session_epoch, with what it makes good.
Bump(u) ==
    /\ row' = [row EXCEPT ![u].epoch = @ + 1]
    /\ torn' = torn \ {u}

\* get_session_epoch, read from the table at every use.
Epoch(u) == row[u].epoch

\* User.totp_enabled.
TotpEnabled(u) == row[u].seed # None

\* The cookies carry a user, and the session's its epoch.  What the login
\* proved is history: the code's session cookie has no password or seed, and
\* its staged one, between the two steps of a login, names the user only.
SessionCookie(u, password) ==
    [uid |-> u, epoch |-> Epoch(u), password |-> password,
     seed |-> row[u].seed]

EnrolCookie(u, secret) == [uid |-> u, secret |-> secret]

Staged(u) == [uid |-> u, password |-> row[u].password]

\* _verify_session_cookie: in its time, signed, and its epoch is the row's.
Live(s) == s # None /\ s.epoch = Epoch(s.uid)

\* _mint_session_response: the browser is handed a session.
Minted(b, u, password) ==
    [jar EXCEPT ![b].session = SessionCookie(u, password)]

Free(b) == loop = None /\ request[b] = Idle
Changing(u) == Epoch(u) < MaxEpoch

----------------------------------------------------------------------------
\* Mutated: the password step alone clears the count.
Login_clears(b, u) ==
    /\ Free(b) /\ ~Limited(u)
    /\ \/ /\ row' = [row EXCEPT ![u] = Failed(@)]
          /\ UNCHANGED jar
       \/ /\ HasPassword(u)
          /\ row' = [row EXCEPT ![u] = Cleared(@)]
          /\ jar' = IF TotpEnabled(u)
                    THEN [jar EXCEPT ![b].staged = Staged(u)]
                    ELSE Minted(b, u, row[u].password)
    /\ UNCHANGED <<request, loop, resetting, torn>>

\* POST /auth/login.  A limited account is answered 429 and left alone.
Login(b, u) ==
    /\ Free(b) /\ ~Limited(u)
    /\ \/ /\ row' = [row EXCEPT ![u] = Failed(@)]
          /\ UNCHANGED jar
       \/ /\ HasPassword(u) /\ TotpEnabled(u)
          /\ jar' = [jar EXCEPT ![b].staged = Staged(u)]
          /\ UNCHANGED row
       \/ /\ HasPassword(u) /\ ~TotpEnabled(u)
          /\ row' = [row EXCEPT ![u] = Cleared(@)]
          /\ jar' = Minted(b, u, row[u].password)
    /\ UNCHANGED <<request, loop, resetting, torn>>

\* Mutated: a refused attempt counts as one more failure.
LoginTotp_counts(b) ==
    LET staged == jar[b].staged
        u      == staged.uid
    IN  /\ Free(b) /\ staged # None /\ TotpEnabled(u)
        /\ \/ /\ row' = [row EXCEPT ![u] = Failed(@)]
              /\ UNCHANGED jar
           \/ /\ ~Limited(u)
              /\ row' = [row EXCEPT ![u] = Cleared(@)]
              /\ jar' = [Minted(b, u, staged.password) EXCEPT ![b].staged = None]
        /\ UNCHANGED <<request, loop, resetting, torn>>

\* POST /auth/login/totp: the row is read again; a wrong code keeps the
\* staged cookie, every other answer drops it.
LoginTotp(b) ==
    LET staged == jar[b].staged
        u      == staged.uid
    IN  /\ Free(b) /\ staged # None
        /\ \/ /\ ~TotpEnabled(u) \/ Limited(u)
              /\ jar' = [jar EXCEPT ![b].staged = None]
              /\ UNCHANGED row
           \/ /\ TotpEnabled(u) /\ ~Limited(u)
              /\ row' = [row EXCEPT ![u] = Failed(@)]
              /\ UNCHANGED jar
           \/ /\ TotpEnabled(u) /\ ~Limited(u)
              /\ row' = [row EXCEPT ![u] = Cleared(@)]
              /\ jar' = [Minted(b, u, staged.password) EXCEPT ![b].staged = None]
        /\ UNCHANGED <<request, loop, resetting, torn>>

\* POST /auth/logout: the epoch goes up if the cookie is live and the write
\* succeeds; the browser's cookie goes in any case.
Logout(b) ==
    LET s == jar[b].session
    IN  /\ Free(b) /\ s # None
        /\ jar' = [jar EXCEPT ![b].session = None]
        /\ \/ Live(s) /\ Changing(s.uid) /\ Bump(s.uid)
           \/ UNCHANGED <<row, torn>>
        /\ UNCHANGED <<request, loop, resetting>>

----------------------------------------------------------------------------
\* Requests that need a signed-in user.

Kinds == {"setup", "verify", "disable", "password"}

\* AuthMiddleware lets the request through.
Admitted(b) == Live(jar[b].session)

\* The dependency _request_user, which copies the row before the handler runs.
\* What the copy and the cookies already settle (setup with TOTP on, verify
\* without an enrolment under way, ...) is refused and changes nothing.
Resolve(b, kind) ==
    LET s == jar[b].session
    IN  /\ request[b] = Idle /\ Admitted(b) /\ Changing(s.uid)
        /\ kind \in {"setup", "verify"} => ~TotpEnabled(s.uid)
        /\ kind = "verify" => jar[b].enrol # None
        /\ kind = "disable" => TotpEnabled(s.uid)
        /\ request' = [request EXCEPT ![b] =
              [kind |-> kind, pc |-> "body", user |-> s.uid]]
        /\ UNCHANGED <<row, jar, loop, resetting, torn>>

At(b, kind, pc) ==
    /\ request[b].kind = kind /\ request[b].pc = pc
    /\ loop \in {None, b}

\* The request is answered; whatever cookie it dealt with is "cookies".
Answer(b, cookies) ==
    /\ request' = [request EXCEPT ![b] = Idle]
    /\ jar' = [jar EXCEPT ![b] = cookies]
    /\ loop' = None

Await(b, pc) ==
    /\ request' = [request EXCEPT ![b].pc = pc]
    /\ loop' = None
    /\ UNCHANGED jar

\* The handler has committed one write and goes on to the bump.
HoldFor(b, pc) ==
    /\ request' = [request EXCEPT ![b].pc = pc]
    /\ loop' = b
    /\ UNCHANGED jar

\* POST /auth/totp/setup: a fresh secret, in a cookie only.  The secret is
\* named for the browser that shows it.
TotpSetup(b) ==
    /\ At(b, "setup", "body")
    /\ Answer(b, [jar[b] EXCEPT !.enrol = EnrolCookie(request[b].user, b)])
    /\ UNCHANGED <<row, resetting, torn>>

\* The enrolment cookie is read only for the user it was made for.
Enrolling(b, u) == jar[b].enrol # None /\ jar[b].enrol.uid = u

\* POST /auth/totp/verify.  That TOTP is off is taken from the copy.
TotpVerify(b) ==
    LET u == request[b].user
    IN  /\ At(b, "verify", "body")
        /\ \/ /\ Answer(b, jar[b])
              /\ UNCHANGED <<row, torn>>
           \/ /\ Enrolling(b, u)
              /\ SetSeed(u, jar[b].enrol.secret)
              /\ HoldFor(b, "bump")
        /\ UNCHANGED resetting

\* Mutated: enrolling leaves the sessions there are alone.
VerifyBumps_not(b) ==
    /\ At(b, "verify", "bump")
    /\ torn' = torn \ {request[b].user}
    /\ Answer(b, [jar[b] EXCEPT !.enrol = None])
    /\ UNCHANGED <<row, resetting>>

VerifyBumps(b) ==
    /\ At(b, "verify", "bump")
    /\ Bump(request[b].user)
    /\ Answer(b, [jar[b] EXCEPT !.enrol = None])
    /\ UNCHANGED resetting

\* POST /auth/totp/disable: a wrong password waits before it counts; a wrong
\* code counts at once; both right, the seed goes.  The account's limit is
\* not asked.
TotpDisable(b) ==
    LET u == request[b].user
    IN  /\ At(b, "disable", "body")
        /\ \/ /\ Await(b, "mistaken")
              /\ UNCHANGED <<row, torn>>
           \/ /\ row' = [row EXCEPT ![u] = Failed(@)]
              /\ Answer(b, jar[b])
              /\ UNCHANGED torn
           \/ /\ HasPassword(u)
              /\ SetSeed(u, None)
              /\ HoldFor(b, "bump")
        /\ UNCHANGED resetting

DisableCounts(b) ==
    /\ At(b, "disable", "mistaken")
    /\ row' = [row EXCEPT ![request[b].user] = Failed(@)]
    /\ Answer(b, jar[b])
    /\ UNCHANGED <<resetting, torn>>

\* POST /api/auth/change-password: refused at once, or checked and then
\* waiting for the breach service, whose verdict or silence comes later.
ChangePassword(b) ==
    /\ At(b, "password", "body")
    /\ \/ Answer(b, jar[b])
       \/ HasPassword(request[b].user) /\ Await(b, "breach")
    /\ UNCHANGED <<row, resetting, torn>>

\* is_password_pwned: found, or not found, which every failure counts as.
Pwned == BOOLEAN

PasswordChecked(b, new) ==
    LET u == request[b].user
    IN  /\ At(b, "password", "breach")
        /\ \E found \in Pwned :
              IF found
              THEN Answer(b, jar[b]) /\ UNCHANGED <<row, torn>>
              ELSE SetPassword(u, new) /\ HoldFor(b, "bump")
        /\ UNCHANGED resetting

\* The bump that ends a change of password or a disable.
ChangeBumps(b) ==
    /\ At(b, "password", "bump") \/ At(b, "disable", "bump")
    /\ Bump(request[b].user)
    /\ Answer(b, jar[b])
    /\ UNCHANGED resetting

----------------------------------------------------------------------------
\* scripts/totp_admin_reset.py: the seed goes, then the epoch goes up.
AdminClears(u) ==
    /\ resetting = None /\ TotpEnabled(u) /\ Changing(u)
    /\ resetting' = u
    /\ SetSeed(u, None)
    /\ UNCHANGED <<jar, request, loop>>

AdminBumps ==
    /\ resetting # None /\ resetting' = None
    /\ Bump(resetting)
    /\ UNCHANGED <<jar, request, loop>>

\* scripts/setup_admin.py provisions a password and leaves the epoch.
SetupAdmin(u, new) ==
    /\ row' = [row EXCEPT ![u].password = new]
    /\ UNCHANGED <<jar, request, loop, resetting, torn>>

\* The portal is killed and started again: requests are gone, rows are not.
Crash ==
    /\ request' = [b \in Browsers |-> Idle]
    /\ request # request'
    /\ loop' = None
    /\ UNCHANGED <<row, jar, resetting, torn>>

\* A cookie's time is up.
Expire(b) ==
    /\ \/ jar[b].session # None /\ jar' = [jar EXCEPT ![b].session = None]
       \/ jar[b].staged # None  /\ jar' = [jar EXCEPT ![b].staged = None]
       \/ jar[b].enrol # None   /\ jar' = [jar EXCEPT ![b].enrol = None]
    /\ UNCHANGED <<row, request, loop, resetting, torn>>

\* Time passes since the last failure of each account.
ClockTicks ==
    /\ \E u \in Users : row[u].age < Window
    /\ row' = [u \in Users |->
                  [row[u] EXCEPT !.age = IF @ < Window THEN @ + 1 ELSE @]]
    /\ UNCHANGED <<jar, request, loop, resetting, torn>>

----------------------------------------------------------------------------
LoginInit ==
    /\ row = [u \in Users |-> NewRow]
    /\ jar = [b \in Browsers |-> [session |-> None, staged |-> None,
                                  enrol |-> None]]
    /\ request = [b \in Browsers |-> Idle]
    /\ loop = None /\ resetting = None /\ torn = {}

Handler(b) ==
    \/ TotpSetup(b)
    \/ TotpVerify(b)
    \/ VerifyBumps(b)
    \/ TotpDisable(b)
    \/ DisableCounts(b)
    \/ ChangePassword(b)
    \/ \E new \in Passwords : PasswordChecked(b, new)
    \/ ChangeBumps(b)

Browser(b) ==
    \/ \E u \in Users : Login(b, u)
    \/ LoginTotp(b)
    \/ Logout(b)
    \/ \E kind \in Kinds : Resolve(b, kind)

LoginNext ==
    \/ \E b \in Browsers : Browser(b) \/ Handler(b) \/ Expire(b)
    \/ \E u \in Users : AdminClears(u)
    \/ AdminBumps
    \/ \E u \in Users, new \in Passwords : SetupAdmin(u, new)
    \/ Crash
    \/ ClockTicks

\* The clock runs, and a handler that has started is carried through.
LoginSpec ==
    /\ LoginInit /\ [][LoginNext]_loginVars
    /\ WF_loginVars(ClockTicks)
    /\ \A b \in Browsers : WF_loginVars(Handler(b))

----------------------------------------------------------------------------
(***************************************************************************)
(* A session that is still accepted proved the second factor now stored,   *)
(* and none if none is: whoever enrols, disables or is reset leaves no     *)
(* older session behind, whichever logins, enrolments and resets cross.    *)
(* The one exception is the gap between the two commits of such a change,  *)
(* which lasts for good if the process dies in it.                         *)
(***************************************************************************)
SessionsProveSeed ==
    \A b \in Browsers :
        LET s == jar[b].session
        IN  Live(s) /\ s.uid \notin torn => s.seed = row[s.uid].seed

(***************************************************************************)
(* The count of failures falls only when the clock has run past the window *)
(* (the next failure is then the first), or when a login goes all the way  *)
(* to a session: the password step alone, with TOTP on, leaves it.         *)
(***************************************************************************)
CountFallsByLogin ==
    [][\A u \in Users :
          row'[u].fails < row[u].fails =>
             \/ row[u].age = Window
             \/ \E b \in Browsers, password \in Passwords :
                   jar'[b].session = SessionCookie(u, password)]_loginVars

(***************************************************************************)
(* A locked account opens again by itself, however often the two login     *)
(* endpoints are tried meanwhile: what they refuse they do not count.      *)
(* (/auth/totp/disable counts without asking the limit, so someone signed  *)
(* in who keeps mistyping there keeps the account locked.)                 *)
(***************************************************************************)
LockEnds ==
    \A u \in Users :
        Limited(u) ~> \/ ~Limited(u)
                      \/ \E b \in Browsers : request[b].kind = "disable"
=============================================================================
