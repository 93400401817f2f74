---------------------------- MODULE PortalProofs ----------------------------
(***************************************************************************)
(* Proofs about the portal: who stays signed in (Logins), for any users,   *)
(* browsers, passwords and limits; what becomes of the deals when the      *)
(* schema is upgraded, the ledger wiped or the database reset (Upgrade),   *)
(* for any processes, bots, backups and deaths; and that a browser misses  *)
(* no line of a log that is tailed (LogTail), for any logs and sockets.    *)
(***************************************************************************)
EXTENDS Logins, Upgrade, LogTail, TLAPS

-----------------------------------------------------------------------------
\* The inductive invariant of Logins.

Secrets == Browsers \cup {None}     \* a seed is named for its browser
Rows == [password : Passwords \cup {None}, seed : Secrets, epoch : Nat,
         fails : Nat, age : 0..Window]
Sessions == [uid : Users, epoch : Nat, password : Passwords \cup {None},
             seed : Secrets]
Jars == [session : {None} \cup Sessions,
         staged : {None} \cup [uid : Users, password : Passwords],
         enrol : {None} \cup [uid : Users, secret : Browsers]]
Asking == [kind : Kinds, pc : {"body", "bump", "mistaken", "breach"}, user : Users]

LoginTypeOK ==
    /\ row \in [Users -> Rows]
    /\ jar \in [Browsers -> Jars]
    /\ request \in [Browsers -> {Idle} \cup Asking]
    /\ loop \in Browsers \cup {None}
    /\ resetting \in Users \cup {None}
    /\ torn \subseteq Users

\* A session never carries an epoch its user has not reached, or a bump would
\* let it in.
EpochsPast ==
    \A b \in Browsers :
        jar[b].session # None => jar[b].session.epoch <= Epoch(jar[b].session.uid)

LoginInv == LoginTypeOK /\ EpochsPast /\ SessionsProveSeed

\* What is known of one user, browser and row at a time.
LEMMA LoginFacts ==
    ASSUME LoginTypeOK
    PROVE  /\ None \notin Users \cup Browsers \cup Passwords
           /\ Window \in Nat \ {0} /\ Limit \in Nat \ {0}
           /\ \A b \in Browsers : jar[b] \in Jars
           /\ \A b \in Browsers : request[b] # Idle => request[b] \in Asking /\ request[b].user \in Users
           /\ \A u \in Users : row[u] \in Rows
           /\ \A u \in Users : row[u].password # None => row[u].password \in Passwords
  BY LoginConstantsAssumption DEF LoginTypeOK, Asking, Rows

\* A row keeps its shape, its password, its seed and its epoch when a failure
\* is counted or forgotten.
LEMMA CountsKeepRows ==
    ASSUME LoginTypeOK, NEW r \in Rows
    PROVE  \A q \in {Failed(r), Cleared(r)} :
              /\ q \in Rows /\ q.password = r.password
              /\ q.seed = r.seed /\ q.epoch = r.epoch
<1>1. Window \in Nat \ {0} /\ Limit \in Nat \ {0}
  BY LoginConstantsAssumption
<1> DEFINE Kept(q) == /\ q \in Rows /\ q.password = r.password
                      /\ q.seed = r.seed /\ q.epoch = r.epoch
<1>2. \A g \in Nat, a \in 0..Window : Kept([r EXCEPT !.fails = g, !.age = a])
  BY DEF Rows
<1> HIDE DEF Kept
<1> DEFINE f == IF r.age = Window THEN 1 ELSE IF r.fails < Limit THEN r.fails + 1 ELSE r.fails
<1>3. f \in Nat /\ 0 \in Nat /\ 0 \in 0..Window /\ Window \in 0..Window
  BY <1>1 DEF Rows
<1>4. Failed(r) = [r EXCEPT !.fails = f, !.age = 0]
  BY DEF Failed
<1>5. Cleared(r) = [r EXCEPT !.fails = 0, !.age = Window]
  BY DEF Cleared
<1> HIDE DEF f
<1>6. Kept(Failed(r))
  <2>1. Kept([r EXCEPT !.fails = f, !.age = 0])
    BY <1>2, <1>3, ZenonT(60)
  <2> QED BY <1>4, <2>1
<1>7. Kept(Cleared(r))
  <2>1. Kept([r EXCEPT !.fails = 0, !.age = Window])
    BY <1>2, <1>3, ZenonT(60)
  <2> QED BY <1>5, <2>1
<1> QED BY <1>6, <1>7 DEF Kept

\* Steps that leave every epoch alone: whoever's seed they change is torn, and
\* the sessions there are afterwards were there before or are minted now.
LEMMA NoBump ==
    ASSUME LoginInv, LoginTypeOK',
           torn \subseteq torn',
           \A u \in Users : /\ row'[u].epoch = row[u].epoch
                            /\ u \notin torn' => row'[u].seed = row[u].seed,
           \A b \in Browsers :
              \/ jar'[b].session \in {None, jar[b].session}
              \/ \E u \in Users, p \in Passwords \cup {None} :
                    row'[u].seed = row[u].seed /\ jar'[b].session = SessionCookie(u, p)
    PROVE  LoginInv'
<1>1. ASSUME NEW b \in Browsers, jar'[b].session # None
      PROVE  /\ jar'[b].session.epoch <= row'[jar'[b].session.uid].epoch
             /\ (jar'[b].session.epoch = row'[jar'[b].session.uid].epoch
                   /\ jar'[b].session.uid \notin torn')
                => jar'[b].session.seed = row'[jar'[b].session.uid].seed
  <2> DEFINE s == jar'[b].session
  <2>1. CASE s = jar[b].session
    <3>1. s \in Sessions
      BY <1>1, <2>1 DEF LoginInv, LoginTypeOK, Jars
    <3>2. /\ s.epoch <= row[s.uid].epoch
          /\ s.epoch = row[s.uid].epoch /\ s.uid \notin torn => s.seed = row[s.uid].seed
      BY <1>1, <2>1 DEF LoginInv, EpochsPast, SessionsProveSeed, Live, Epoch
    <3>3. s.uid \in Users
      BY <3>1 DEF Sessions
    <3> HIDE DEF s
    <3>4. row'[s.uid].epoch = row[s.uid].epoch /\ (s.uid \notin torn' => row'[s.uid].seed = row[s.uid].seed)
      BY <3>3
    <3> QED BY <3>2, <3>4 DEF s
  <2>2. ASSUME NEW u \in Users, NEW p \in Passwords \cup {None},
               row'[u].seed = row[u].seed, s = SessionCookie(u, p)
        PROVE  /\ s.epoch <= row'[s.uid].epoch
               /\ s.seed = row'[s.uid].seed
    <3>1. s.uid = u /\ s.epoch = row[u].epoch /\ s.seed = row[u].seed
      BY <2>2 DEF SessionCookie, Epoch
    <3>2. row[u].epoch \in Nat /\ row'[u].epoch = row[u].epoch
      BY DEF LoginInv, LoginTypeOK, Rows
    <3> HIDE DEF s
    <3> QED BY <2>2, <3>1, <3>2
  <2> QED BY <1>1, <2>1, <2>2
<1> QED BY <1>1 DEF LoginInv, EpochsPast, SessionsProveSeed, Live, Epoch

\* A bump shuts out every session its user has.
LEMMA Bumped ==
    ASSUME LoginInv, LoginTypeOK', NEW u \in Users, Bump(u),
           \A b \in Browsers : jar'[b].session \in {None, jar[b].session}
    PROVE  LoginInv'
<1>1. /\ row'[u].epoch = row[u].epoch + 1 /\ row[u].epoch \in Nat
      /\ \A v \in Users : v # u => row'[v] = row[v]
      /\ torn' = torn \ {u}
  BY DEF Bump, LoginInv, LoginTypeOK, Rows
<1>2. ASSUME NEW b \in Browsers, jar'[b].session # None
      PROVE  /\ jar'[b].session.epoch <= row'[jar'[b].session.uid].epoch
             /\ (jar'[b].session.epoch = row'[jar'[b].session.uid].epoch
                   /\ jar'[b].session.uid \notin torn')
                => jar'[b].session.seed = row'[jar'[b].session.uid].seed
  <2> DEFINE s == jar[b].session
  <2>1. jar'[b].session = s /\ s # None
    BY <1>2
  <2>2. s \in Sessions
    BY <2>1 DEF LoginInv, LoginTypeOK, Jars
  <2>3. /\ s.epoch <= row[s.uid].epoch
        /\ s.epoch = row[s.uid].epoch /\ s.uid \notin torn => s.seed = row[s.uid].seed
    BY <2>1 DEF LoginInv, EpochsPast, SessionsProveSeed, Live, Epoch
  <2>4. s.uid \in Users /\ s.epoch \in Nat
    BY <2>2 DEF Sessions
  <2> HIDE DEF s
  <2>5. CASE s.uid = u
    BY <1>1, <2>1, <2>3, <2>4, <2>5
  <2>6. CASE s.uid # u
    BY <1>1, <2>1, <2>3, <2>4, <2>6
  <2> QED BY <2>5, <2>6
<1> QED BY <1>2 DEF LoginInv, EpochsPast, SessionsProveSeed, Live, Epoch

\* Nothing but one row's count changes when a failure is counted or forgotten.
LEMMA CountsKeepTable ==
    ASSUME LoginTypeOK, NEW u \in Users,
           row' \in {[row EXCEPT ![u] = Failed(@)], [row EXCEPT ![u] = Cleared(@)]}
    PROVE  /\ row' \in [Users -> Rows]
           /\ \A v \in Users : row'[v].epoch = row[v].epoch /\ row'[v].seed = row[v].seed
<1>1. PICK q \in {Failed(row[u]), Cleared(row[u])} : row' = [row EXCEPT ![u] = q]
  BY DEF LoginTypeOK
<1>2. row[u] \in Rows /\ row \in [Users -> Rows]
  BY DEF LoginTypeOK
<1>3. q \in Rows /\ q.seed = row[u].seed /\ q.epoch = row[u].epoch
  BY <1>2, CountsKeepRows
<1> HIDE DEF Rows
<1> QED BY <1>1, <1>2, <1>3

\* A session minted is a session, of a user with an epoch.
LEMMA MintedTypes ==
    ASSUME LoginTypeOK, NEW b \in Browsers, NEW u \in Users, NEW p \in Passwords \cup {None}
    PROVE  /\ Minted(b, u, p) \in [Browsers -> Jars]
           /\ \A d \in Browsers : d # b => Minted(b, u, p)[d] = jar[d]
           /\ Minted(b, u, p)[b].session = SessionCookie(u, p)
<1>1. SessionCookie(u, p) \in Sessions
  BY DEF LoginTypeOK, Rows, Sessions, SessionCookie, Epoch
<1> DEFINE c == SessionCookie(u, p)
           k == [jar[b] EXCEPT !.session = c]
<1>2. Minted(b, u, p) = [jar EXCEPT ![b] = k]
  BY DEF LoginTypeOK, Minted
<1> HIDE DEF c
<1>3. k \in Jars /\ k.session = c
  BY <1>1 DEF LoginTypeOK, Jars, c
<1> HIDE DEF k
<1>4. jar \in [Browsers -> Jars]
  BY DEF LoginTypeOK
<1> QED BY <1>2, <1>3, <1>4 DEF c

\* What the second step of a login does, by what the staged cookie says.
LEMMA TotpSteps ==
    ASSUME LoginTypeOK, NEW b \in Browsers, LoginTotp(b)
    PROVE  \E u \in Users, p \in Passwords :
              /\ UNCHANGED <<request, loop, resetting, torn>>
              /\ \/ jar' = [jar EXCEPT ![b].staged = None] /\ UNCHANGED row
                 \/ row' = [row EXCEPT ![u] = Failed(@)] /\ UNCHANGED jar
                 \/ /\ row' = [row EXCEPT ![u] = Cleared(@)]
                    /\ jar' = [Minted(b, u, p) EXCEPT ![b].staged = None]
<1> DEFINE t == jar[b].staged
<1>1. t \in [uid : Users, password : Passwords]
  <2>1. t # None
    BY ZenonT(60) DEF LoginTotp
  <2>2. t \in {None} \cup [uid : Users, password : Passwords]
    BY DEF LoginTypeOK, Jars
  <2> QED BY <2>1, <2>2
<1>2. t.uid \in Users /\ t.password \in Passwords
  BY <1>1
<1>3. /\ UNCHANGED <<request, loop, resetting, torn>>
      /\ \/ jar' = [jar EXCEPT ![b].staged = None] /\ UNCHANGED row
         \/ row' = [row EXCEPT ![t.uid] = Failed(@)] /\ UNCHANGED jar
         \/ /\ row' = [row EXCEPT ![t.uid] = Cleared(@)]
            /\ jar' = [Minted(b, t.uid, t.password) EXCEPT ![b].staged = None]
  BY ZenonT(60) DEF LoginTotp
<1> HIDE DEF t
<1> QED BY <1>2, <1>3

\* One browser's jar loses its staged cookie.
LEMMA Unstaged ==
    ASSUME NEW m \in [Browsers -> Jars], NEW b \in Browsers,
           jar' = [m EXCEPT ![b].staged = None]
    PROVE  /\ jar' \in [Browsers -> Jars] /\ \A d \in Browsers : d # b => jar'[d] = m[d]
           /\ jar'[b].session = m[b].session
  BY DEF Jars

\* A cookie minted after the second step.
LEMMA TotpMinted ==
    ASSUME LoginTypeOK, NEW b \in Browsers, NEW u \in Users, NEW p \in Passwords
    PROVE  jar' = [Minted(b, u, p) EXCEPT ![b].staged = None] =>
              /\ jar' \in [Browsers -> Jars]
              /\ \A d \in Browsers : d # b => jar'[d] = jar[d]
              /\ jar'[b].session = SessionCookie(u, p)
<1> DEFINE m == Minted(b, u, p)
<1>1. /\ m \in [Browsers -> Jars] /\ \A d \in Browsers : d # b => m[d] = jar[d]
      /\ m[b].session = SessionCookie(u, p)
  BY MintedTypes
<1> HIDE DEF m
<1>2. ASSUME jar' = [m EXCEPT ![b].staged = None]
      PROVE  /\ jar' \in [Browsers -> Jars]
             /\ \A d \in Browsers : d # b => jar'[d] = jar[d]
             /\ jar'[b].session = SessionCookie(u, p)
  <2>1. /\ jar' \in [Browsers -> Jars] /\ \A d \in Browsers : d # b => jar'[d] = m[d]
        /\ jar'[b].session = m[b].session
    BY <1>1, <1>2, Unstaged
  <2> QED BY <1>1, <2>1
<1> QED BY <1>2, ZenonT(60) DEF m

\* Signing in and out.
LEMMA SignInStep ==
    ASSUME LoginInv, NEW b \in Browsers,
           \/ \E u \in Users : Login(b, u)
           \/ LoginTotp(b) \/ Logout(b)
    PROVE  LoginInv'
<1> LoginTypeOK
  BY DEF LoginInv
<1>1. \A u \in Users : row[u] \in Rows /\ (HasPassword(u) => row[u].password \in Passwords)
  <2>1. \A u \in Users : row[u] \in Rows /\ (row[u].password # None => row[u].password \in Passwords)
    BY LoginFacts, ZenonT(60)
  <2> QED BY <2>1, ZenonT(60) DEF HasPassword
<1>2. jar[b] \in Jars /\ jar \in [Browsers -> Jars]
  BY DEF LoginTypeOK
<1>3. ASSUME NEW u \in Users, Login(b, u) PROVE LoginInv'
  <2>1. UNCHANGED <<request, loop, resetting, torn>>
    BY <1>3 DEF Login
  <2>2. CASE row' = [row EXCEPT ![u] = Failed(@)] /\ UNCHANGED jar
    <3>1. LoginTypeOK'
      BY <2>1, <2>2, CountsKeepTable DEF LoginTypeOK
    <3> QED BY <2>1, <2>2, <3>1, CountsKeepTable, NoBump
  <2>3. CASE HasPassword(u) /\ jar' = [jar EXCEPT ![b].staged = Staged(u)] /\ UNCHANGED row
    <3>1. Staged(u) \in [uid : Users, password : Passwords]
      BY <1>1, <2>3 DEF Staged
    <3>2. jar' \in [Browsers -> Jars] /\ \A d \in Browsers : jar'[d].session = jar[d].session
      BY <1>2, <2>3, <3>1 DEF Jars
    <3>3. LoginTypeOK'
      BY <2>1, <2>3, <3>2 DEF LoginTypeOK
    <3> QED BY <2>1, <2>3, <3>2, <3>3, NoBump
  <2>4. CASE row' = [row EXCEPT ![u] = Cleared(@)] /\ jar' = Minted(b, u, row[u].password)
    <3>1. row[u].password \in Passwords \cup {None}
      BY <1>1 DEF Rows
    <3>2. /\ jar' \in [Browsers -> Jars]
          /\ \A d \in Browsers : d # b => jar'[d] = jar[d]
          /\ jar'[b].session = SessionCookie(u, row[u].password)
      BY <2>4, <3>1, MintedTypes
    <3>3. LoginTypeOK'
      BY <2>1, <2>4, <3>2, CountsKeepTable DEF LoginTypeOK
    <3> QED BY <2>1, <2>4, <3>1, <3>2, <3>3, CountsKeepTable, NoBump
  <2> QED BY <1>3, <2>2, <2>3, <2>4 DEF Login
<1>4. CASE LoginTotp(b)
  <2>1. PICK u \in Users, p \in Passwords :
           /\ UNCHANGED <<request, loop, resetting, torn>>
           /\ \/ jar' = [jar EXCEPT ![b].staged = None] /\ UNCHANGED row
              \/ row' = [row EXCEPT ![u] = Failed(@)] /\ UNCHANGED jar
              \/ /\ row' = [row EXCEPT ![u] = Cleared(@)]
                 /\ jar' = [Minted(b, u, p) EXCEPT ![b].staged = None]
    BY <1>4, TotpSteps
  <2>2. CASE jar' = [jar EXCEPT ![b].staged = None] /\ UNCHANGED row
    <3>1. jar' \in [Browsers -> Jars] /\ \A d \in Browsers : jar'[d].session = jar[d].session
      BY <1>2, <2>2 DEF Jars
    <3>2. LoginTypeOK'
      BY <2>1, <2>2, <3>1 DEF LoginTypeOK
    <3> QED BY <2>1, <2>2, <3>1, <3>2, NoBump
  <2>3. CASE row' = [row EXCEPT ![u] = Failed(@)] /\ UNCHANGED jar
    <3>1. LoginTypeOK'
      BY <2>1, <2>3, CountsKeepTable DEF LoginTypeOK
    <3> QED BY <2>1, <2>3, <3>1, CountsKeepTable, NoBump
  <2>4. CASE /\ row' = [row EXCEPT ![u] = Cleared(@)]
             /\ jar' = [Minted(b, u, p) EXCEPT ![b].staged = None]
    <3>1. /\ jar' \in [Browsers -> Jars]
          /\ \A d \in Browsers : d # b => jar'[d] = jar[d]
          /\ jar'[b].session = SessionCookie(u, p)
      BY <2>4, TotpMinted
    <3>2. LoginTypeOK'
      BY <2>1, <2>4, <3>1, CountsKeepTable DEF LoginTypeOK
    <3>3. p \in Passwords \cup {None}
      OBVIOUS
    <3> QED BY <2>1, <2>4, <3>1, <3>2, <3>3, CountsKeepTable, NoBump
  <2> QED BY <2>1, <2>2, <2>3, <2>4
<1>5. CASE Logout(b)
  <2> DEFINE s == jar[b].session
  <2>1. /\ s # None /\ s \in Sessions /\ s.uid \in Users
        /\ jar' = [jar EXCEPT ![b].session = None]
        /\ UNCHANGED <<request, loop, resetting>>
    BY <1>2, <1>5 DEF Logout, Jars, Sessions
  <2>2. /\ jar' \in [Browsers -> Jars]
        /\ \A d \in Browsers : jar'[d].session \in {None, jar[d].session}
    BY <1>2, <2>1 DEF Jars
  <2>3. CASE Bump(s.uid)
    <3>1. LoginTypeOK'
      BY <2>1, <2>2, <2>3, SMTT(60) DEF Bump, LoginTypeOK, Rows
    <3> QED BY <2>1, <2>2, <2>3, <3>1, Bumped
  <2>4. CASE UNCHANGED <<row, torn>>
    <3>1. LoginTypeOK'
      BY <2>1, <2>2, <2>4 DEF LoginTypeOK
    <3> QED BY <2>2, <2>4, <3>1, NoBump
  <2> QED BY <1>5, <2>3, <2>4 DEF Logout
<1> QED BY <1>3, <1>4, <1>5

\* The types a handler touches, but for the rows.
Served == /\ request' \in [Browsers -> {Idle} \cup Asking]
          /\ loop' \in Browsers \cup {None}
          /\ jar' \in [Browsers -> Jars]
          /\ \A d \in Browsers : jar'[d].session = jar[d].session

\* A request is answered, its session cookie left alone, or goes on.
LEMMA Serves ==
    ASSUME LoginTypeOK, NEW b \in Browsers, request[b] # Idle,
           \/ Answer(b, jar[b])
           \/ Answer(b, [jar[b] EXCEPT !.enrol = None])
           \/ \E pc \in {"bump", "mistaken", "breach"} : Await(b, pc) \/ HoldFor(b, pc)
    PROVE  Served
<1>1. /\ jar \in [Browsers -> Jars] /\ request \in [Browsers -> {Idle} \cup Asking]
      /\ request[b] \in Asking
  BY DEF LoginTypeOK
<1>2. ASSUME NEW c \in Jars, c.session = jar[b].session, Answer(b, c) PROVE Served
  BY <1>1, <1>2 DEF Answer, Served
<1>3. jar[b] \in Jars /\ [jar[b] EXCEPT !.enrol = None] \in Jars
      /\ [jar[b] EXCEPT !.enrol = None].session = jar[b].session
  BY <1>1 DEF Jars
<1>4. ASSUME NEW pc \in {"bump", "mistaken", "breach"}, Await(b, pc) \/ HoldFor(b, pc)
      PROVE  Served
  <2>1. [request[b] EXCEPT !.pc = pc] \in Asking
    BY <1>1 DEF Asking
  <2>2. request' = [request EXCEPT ![b] = [request[b] EXCEPT !.pc = pc]]
    BY <1>1, <1>4 DEF Await, HoldFor
  <2>3. request' \in [Browsers -> {Idle} \cup Asking]
    BY <1>1, <2>1, <2>2
  <2> QED BY <1>1, <1>4, <2>3 DEF Await, HoldFor, Served
<1> QED BY <1>2, <1>3, <1>4

\* A handler that leaves rows alone, counts a failure, sets a secret or bumps.
LEMMA RowsServed ==
    ASSUME LoginInv, Served, NEW u \in Users, UNCHANGED resetting,
           \/ UNCHANGED <<row, torn>>
           \/ row' = [row EXCEPT ![u] = Failed(@)] /\ UNCHANGED torn
           \/ \E seed \in Secrets : SetSeed(u, seed)
           \/ \E new \in Passwords : SetPassword(u, new)
           \/ Bump(u)
    PROVE  LoginInv'
<1> LoginTypeOK /\ \A d \in Browsers : jar'[d].session = jar[d].session
  BY DEF LoginInv, Served
<1>1. CASE UNCHANGED <<row, torn>>
  <2>1. LoginTypeOK'
    BY <1>1 DEF Served, LoginTypeOK
  <2> QED BY <1>1, <2>1, NoBump
<1>2. CASE row' = [row EXCEPT ![u] = Failed(@)] /\ UNCHANGED torn
  <2>1. LoginTypeOK'
    BY <1>2, CountsKeepTable DEF Served, LoginTypeOK
  <2> QED BY <1>2, <2>1, CountsKeepTable, NoBump
<1>3. ASSUME NEW seed \in Secrets, SetSeed(u, seed) PROVE LoginInv'
  <2>1. /\ row' \in [Users -> Rows] /\ torn' = torn \cup {u}
        /\ \A v \in Users : /\ row'[v].epoch = row[v].epoch
                            /\ v # u => row'[v].seed = row[v].seed
    BY <1>3 DEF SetSeed, LoginTypeOK, Rows
  <2>2. LoginTypeOK'
    BY <2>1 DEF Served, LoginTypeOK
  <2> QED BY <2>1, <2>2, NoBump
<1>4. ASSUME NEW new \in Passwords, SetPassword(u, new) PROVE LoginInv'
  <2>1. /\ row' \in [Users -> Rows] /\ torn' = torn \cup {u}
        /\ \A v \in Users : /\ row'[v].epoch = row[v].epoch
                            /\ row'[v].seed = row[v].seed
    BY <1>4 DEF SetPassword, LoginTypeOK, Rows
  <2>2. LoginTypeOK'
    BY <2>1 DEF Served, LoginTypeOK
  <2> QED BY <2>1, <2>2, NoBump
<1>5. CASE Bump(u)
  <2>1. row' \in [Users -> Rows] /\ torn' = torn \ {u}
    BY <1>5 DEF Bump, LoginTypeOK, Rows
  <2>2. LoginTypeOK'
    BY <2>1 DEF Served, LoginTypeOK
  <2> QED BY <1>5, <2>2, Bumped
<1> QED BY <1>1, <1>2, <1>3, <1>4, <1>5

\* Requests of signed-in users, from the dependency to the answer.
LEMMA HandlerStep ==
    ASSUME LoginInv, NEW b \in Browsers,
           (\E kind \in Kinds : Resolve(b, kind)) \/ Handler(b)
    PROVE  LoginInv'
<1> LoginTypeOK
  BY DEF LoginInv
<1> DEFINE u == request[b].user
<1>1. /\ jar[b] \in Jars /\ jar \in [Browsers -> Jars]
      /\ request \in [Browsers -> {Idle} \cup Asking]
  BY DEF LoginTypeOK
<1>2. ASSUME NEW kind \in Kinds, Resolve(b, kind) PROVE LoginInv'
  <2>1. jar[b].session \in Sessions
    BY <1>1, <1>2 DEF Resolve, Admitted, Live, Jars
  <2>2. [kind |-> kind, pc |-> "body", user |-> jar[b].session.uid] \in Asking
    BY <2>1 DEF Asking, Sessions
  <2>3. request' \in [Browsers -> {Idle} \cup Asking]
    BY <1>1, <1>2, <2>2 DEF Resolve
  <2>4. Served
    BY <1>1, <1>2, <2>3 DEF Resolve, Served, LoginTypeOK
  <2>5. jar[b].session.uid \in Users
    BY <2>1 DEF Sessions
  <2> QED BY <1>2, <2>4, <2>5, RowsServed DEF Resolve
<1>3. ASSUME NEW kind \in Kinds, NEW pc \in {"body", "bump", "mistaken", "breach"},
             At(b, kind, pc)
      PROVE  request[b] # Idle /\ u \in Users
  BY <1>1, <1>3 DEF At, Idle, Kinds, Asking
<1>4. CASE TotpSetup(b)
  <2>1. u \in Users /\ Answer(b, [jar[b] EXCEPT !.enrol = EnrolCookie(u, b)])
    BY <1>3, <1>4 DEF TotpSetup, Kinds
  <2>2. EnrolCookie(u, b) \in [uid : Users, secret : Browsers]
    BY <2>1 DEF EnrolCookie
  <2> HIDE DEF u
  <2>3. /\ [jar[b] EXCEPT !.enrol = EnrolCookie(u, b)] \in Jars
        /\ [jar[b] EXCEPT !.enrol = EnrolCookie(u, b)].session = jar[b].session
    BY <1>1, <2>2 DEF Jars
  <2>4. Served
    BY <1>1, <2>1, <2>3 DEF Served, Answer
  <2> QED BY <1>4, <2>1, <2>4, RowsServed DEF TotpSetup
<1>5. CASE TotpVerify(b)
  <2>1. request[b] # Idle /\ u \in Users
    BY <1>3, <1>5 DEF TotpVerify, Kinds
  <2>2. Served
    BY <1>5, <2>1, Serves DEF TotpVerify
  <2>3. Enrolling(b, u) => jar[b].enrol.secret \in Secrets
    BY <1>1 DEF Enrolling, Jars, Secrets
  <2> QED BY <1>5, <2>1, <2>2, <2>3, RowsServed DEF TotpVerify
<1>6. CASE VerifyBumps(b)
  <2>1. request[b] # Idle /\ u \in Users
    BY <1>3, <1>6 DEF VerifyBumps, Kinds
  <2>2. Served
    BY <1>6, <2>1, Serves DEF VerifyBumps
  <2> QED BY <1>6, <2>1, <2>2, RowsServed DEF VerifyBumps
<1>7. CASE TotpDisable(b)
  <2>1. request[b] # Idle /\ u \in Users
    BY <1>3, <1>7 DEF TotpDisable, Kinds
  <2>2. Served
    BY <1>7, <2>1, Serves DEF TotpDisable
  <2>3. None \in Secrets
    BY DEF Secrets
  <2> QED BY <1>7, <2>1, <2>2, <2>3, RowsServed DEF TotpDisable
<1>8. CASE DisableCounts(b)
  <2>1. request[b] # Idle /\ u \in Users
    BY <1>3, <1>8 DEF DisableCounts, Kinds
  <2>2. Served
    BY <1>8, <2>1, Serves DEF DisableCounts
  <2> QED BY <1>8, <2>1, <2>2, RowsServed DEF DisableCounts
<1>9. CASE ChangePassword(b)
  <2>1. request[b] # Idle /\ u \in Users
    BY <1>3, <1>9 DEF ChangePassword, Kinds
  <2>2. Served
    BY <1>9, <2>1, Serves DEF ChangePassword
  <2> QED BY <1>9, <2>1, <2>2, RowsServed DEF ChangePassword
<1>10. ASSUME NEW new \in Passwords, PasswordChecked(b, new) PROVE LoginInv'
  <2>1. request[b] # Idle /\ u \in Users
    BY <1>3, <1>10 DEF PasswordChecked, Kinds
  <2>2. Served
    BY <1>10, <2>1, Serves DEF PasswordChecked
  <2> QED BY <1>10, <2>1, <2>2, RowsServed DEF PasswordChecked
<1>11. CASE ChangeBumps(b)
  <2>1. request[b] # Idle /\ u \in Users
    BY <1>3, <1>11 DEF ChangeBumps, Kinds
  <2>2. Served
    BY <1>11, <2>1, Serves DEF ChangeBumps
  <2> QED BY <1>11, <2>1, <2>2, RowsServed DEF ChangeBumps
<1> QED BY <1>2, <1>4, <1>5, <1>6, <1>7, <1>8, <1>9, <1>10, <1>11 DEF Handler

\* The operator's scripts, restarts of the portal and time.
LEMMA OutsideStep ==
    ASSUME LoginInv,
           \/ \E b \in Browsers : Expire(b)
           \/ \E u \in Users : AdminClears(u)
           \/ AdminBumps
           \/ \E u \in Users, new \in Passwords : SetupAdmin(u, new)
           \/ Crash \/ ClockTicks
    PROVE  LoginInv'
<1> LoginTypeOK
  BY DEF LoginInv
<1>1. /\ jar \in [Browsers -> Jars] /\ row \in [Users -> Rows]
      /\ \A d \in Browsers : jar[d] \in Jars
  BY DEF LoginTypeOK
<1>2. ASSUME NEW b \in Browsers, Expire(b) PROVE LoginInv'
  <2>1. /\ jar' \in [Browsers -> Jars]
        /\ \A d \in Browsers : jar'[d].session \in {None, jar[d].session}
    BY <1>1, <1>2 DEF Expire, Jars
  <2>2. LoginTypeOK'
    BY <1>2, <2>1 DEF Expire, LoginTypeOK
  <2> QED BY <1>2, <2>1, <2>2, NoBump DEF Expire
<1>3. ASSUME NEW u \in Users, AdminClears(u) PROVE LoginInv'
  <2>1. /\ row' \in [Users -> Rows] /\ torn' = torn \cup {u} /\ jar' = jar
        /\ \A v \in Users : /\ row'[v].epoch = row[v].epoch
                            /\ v # u => row'[v].seed = row[v].seed
    BY <1>1, <1>3 DEF AdminClears, SetSeed, Rows, Secrets
  <2>2. LoginTypeOK'
    BY <1>3, <2>1 DEF AdminClears, LoginTypeOK
  <2> QED BY <2>1, <2>2, NoBump
<1>4. CASE AdminBumps
  <2>1. resetting \in Users
    BY <1>4 DEF AdminBumps, LoginTypeOK
  <2>2. row' \in [Users -> Rows] /\ torn' = torn \ {resetting}
    BY <1>1, <1>4, <2>1 DEF AdminBumps, Bump, Rows
  <2>3. LoginTypeOK'
    BY <1>4, <2>2 DEF AdminBumps, LoginTypeOK
  <2> QED BY <1>4, <2>1, <2>3, Bumped DEF AdminBumps
<1>5. ASSUME NEW u \in Users, NEW new \in Passwords, SetupAdmin(u, new) PROVE LoginInv'
  <2>1. /\ row' \in [Users -> Rows] /\ jar' = jar /\ torn' = torn
        /\ \A v \in Users : row'[v].epoch = row[v].epoch /\ row'[v].seed = row[v].seed
    BY <1>1, <1>5 DEF SetupAdmin, Rows
  <2>2. LoginTypeOK'
    BY <1>5, <2>1 DEF SetupAdmin, LoginTypeOK
  <2> QED BY <2>1, <2>2, NoBump
<1>6. CASE Crash
  <2>1. LoginTypeOK'
    BY <1>6 DEF Crash, LoginTypeOK
  <2> QED BY <1>6, <2>1, NoBump DEF Crash
<1>7. CASE ClockTicks
  <2>1. /\ row' \in [Users -> Rows] /\ jar' = jar /\ torn' = torn
        /\ \A v \in Users : row'[v].epoch = row[v].epoch /\ row'[v].seed = row[v].seed
    <3>1. Window \in Nat
      BY LoginConstantsAssumption
    <3>2. \A r \in Rows : LET q == [r EXCEPT !.age = IF @ < Window THEN @ + 1 ELSE @]
                          IN  q \in Rows /\ q.epoch = r.epoch /\ q.seed = r.seed
      BY <3>1 DEF Rows
    <3> QED BY <1>1, <1>7, <3>2 DEF ClockTicks
  <2>2. LoginTypeOK'
    BY <1>7, <2>1 DEF ClockTicks, LoginTypeOK
  <2> QED BY <2>1, <2>2, NoBump
<1> QED BY <1>2, <1>3, <1>4, <1>5, <1>6, <1>7

\* The invariant of Logins holds throughout.
LEMMA LoginInvariance == LoginSpec => []LoginInv
<1>1. LoginInit => LoginInv
  <2> SUFFICES ASSUME LoginInit PROVE LoginInv
    OBVIOUS
  <2>1. NewRow \in Rows
    BY LoginConstantsAssumption DEF NewRow, Rows, Secrets
  <2>2. LoginTypeOK
    BY <2>1 DEF LoginInit, LoginTypeOK, Jars
  <2> QED BY <2>2 DEF LoginInit, LoginInv, EpochsPast, SessionsProveSeed, Live
<1>2. LoginInv /\ [LoginNext]_loginVars => LoginInv'
  <2> SUFFICES ASSUME LoginInv, [LoginNext]_loginVars PROVE LoginInv'
    OBVIOUS
  <2>1. CASE UNCHANGED loginVars
    BY <2>1 DEF loginVars, LoginInv, LoginTypeOK, EpochsPast, SessionsProveSeed, Live, Epoch
  <2>2. CASE LoginNext
    BY <2>2, SignInStep, HandlerStep, OutsideStep DEF LoginNext, Browser
  <2> QED BY <2>1, <2>2
<1> QED BY <1>1, <1>2, PTL DEF LoginSpec

\* A session the portal still accepts proved the second factor now stored, for
\* any crossing of logins, enrolments, disables, resets and restarts, but in
\* the gap between a change and its bump (_verify_session_cookie).
THEOREM SessionsAreProved == LoginSpec => []SessionsProveSeed
<1>1. LoginInv => SessionsProveSeed
  BY DEF LoginInv
<1> QED BY <1>1, LoginInvariance, PTL

\* Only a step that ends in a session, or the next failure past the window,
\* takes an account's count of failures down (increment_failed_login,
\* reset_failed_login): no handler in between can be used to start over.
THEOREM CountsFallByLogin == LoginSpec => CountFallsByLogin
<1> DEFINE Falls(u) ==
              row'[u].fails < row[u].fails =>
                 \/ row[u].age = Window
                 \/ \E b \in Browsers, password \in Passwords :
                       jar'[b].session = SessionCookie(u, password)
<1>1. LoginInv /\ [LoginNext]_loginVars => [\A u \in Users : Falls(u)]_loginVars
  <2> SUFFICES ASSUME LoginInv, LoginNext, NEW u \in Users,
                      row'[u].fails < row[u].fails
               PROVE  \/ row[u].age = Window
                      \/ \E b \in Browsers, password \in Passwords :
                            jar'[b].session = SessionCookie(u, password)
    OBVIOUS
  <2> LoginTypeOK
    BY DEF LoginInv
  <2>1. /\ row \in [Users -> Rows] /\ row[u] \in Rows /\ row[u].fails \in Nat
        /\ \A b \in Browsers : jar[b] \in Jars
        /\ \A v \in Users : HasPassword(v) => row[v].password \in Passwords
    BY LoginFacts DEF LoginTypeOK, Rows, HasPassword
  <2>2. row'[u].fails # row[u].fails
    BY <2>1
  <2>3. ASSUME NEW v \in Users, row' = [row EXCEPT ![v] = Failed(@)]
        PROVE  row[u].age = Window
    <3>1. v = u /\ row'[u] = Failed(row[u])
      BY <2>1, <2>2, <2>3
    <3>2. Failed(row[u]).fails = IF row[u].age = Window THEN 1
                                 ELSE IF row[u].fails < Limit THEN row[u].fails + 1
                                 ELSE row[u].fails
      BY <2>1 DEF Failed, Rows
    <3> QED BY <2>1, <3>1, <3>2
  <2>4. ASSUME NEW v \in Users, row' = [row EXCEPT ![v] = Cleared(@)]
        PROVE  v = u
    BY <2>1, <2>2, <2>4
  <2>5. ASSUME NEW v \in Users,
               \/ Bump(v)
               \/ (\E seed \in Secrets \cup {None} : SetSeed(v, seed))
               \/ \E new \in Passwords : SetPassword(v, new)
               \/ \E new \in Passwords : row' = [row EXCEPT ![v].password = new]
        PROVE  FALSE
    BY <2>1, <2>2, <2>5 DEF Bump, SetSeed, SetPassword, Rows
  <2>6. ASSUME UNCHANGED row PROVE FALSE
    BY <2>2, <2>6
  <2>7. ASSUME NEW b \in Browsers, NEW v \in Users, Login(b, v)
        PROVE  \/ row[u].age = Window
               \/ \E password \in Passwords : jar'[b].session = SessionCookie(u, password)
    <3>1. CASE /\ HasPassword(v) /\ row' = [row EXCEPT ![v] = Cleared(@)]
               /\ jar' = Minted(b, v, row[v].password)
      BY <2>1, <2>4, <3>1, MintedTypes
    <3> QED BY <2>3, <2>6, <2>7, <3>1 DEF Login
  <2>8. ASSUME NEW b \in Browsers, LoginTotp(b)
        PROVE  \/ row[u].age = Window
               \/ \E password \in Passwords : jar'[b].session = SessionCookie(u, password)
    <3>1. PICK v \in Users, p \in Passwords :
             \/ UNCHANGED row
             \/ row' = [row EXCEPT ![v] = Failed(@)]
             \/ /\ row' = [row EXCEPT ![v] = Cleared(@)]
                /\ jar' = [Minted(b, v, p) EXCEPT ![b].staged = None]
      BY <2>1, <2>8, TotpSteps
    <3>2. CASE /\ row' = [row EXCEPT ![v] = Cleared(@)]
               /\ jar' = [Minted(b, v, p) EXCEPT ![b].staged = None]
      <4>1. v = u
        BY <2>4, <3>2
      <4>2. jar'[b].session = SessionCookie(v, p)
        BY <2>1, <3>2, TotpMinted
      <4> QED BY <4>1, <4>2
    <3> QED BY <2>3, <2>6, <3>1, <3>2
  <2>9. ASSUME NEW b \in Browsers, Logout(b) PROVE FALSE
    <3>1. Live(jar[b].session) => jar[b].session.uid \in Users
      BY <2>1 DEF Live, Jars, Sessions
    <3> QED BY <2>5, <2>6, <2>9, <3>1 DEF Logout
  <2>10. ASSUME NEW b \in Browsers, Handler(b) PROVE row[u].age = Window
    <3> DEFINE v == request[b].user
    <3>1. \A kind \in Kinds, pc \in {"body", "bump", "mistaken", "breach"} :
              At(b, kind, pc) => v \in Users
      BY DEF LoginTypeOK, At, Idle, Kinds, Asking
    <3>2. v \in Users
      BY <2>10, <3>1 DEF Handler, TotpSetup, TotpVerify, VerifyBumps, TotpDisable, DisableCounts,
         ChangePassword, PasswordChecked, ChangeBumps, Kinds
    <3>3. Enrolling(b, v) => jar[b].enrol.secret \in Secrets
      BY <2>1 DEF Enrolling, Jars, Secrets
    <3> HIDE DEF v
    <3> QED BY <2>3, <2>5, <2>6, <2>10, <3>2, <3>3
            DEF Handler, TotpSetup, TotpVerify, VerifyBumps, TotpDisable, DisableCounts,
                ChangePassword, PasswordChecked, ChangeBumps, v
  <2>11. ASSUME AdminBumps PROVE FALSE
    <3>1. resetting \in Users
      BY <2>11 DEF AdminBumps, LoginTypeOK
    <3> QED BY <2>5, <2>11, <3>1 DEF AdminBumps
  <2>12. ASSUME ClockTicks PROVE FALSE
    BY <2>1, <2>2, <2>12 DEF ClockTicks, Rows
  <2> QED BY <2>5, <2>6, <2>7, <2>8, <2>9, <2>10, <2>11, <2>12
          DEF LoginNext, Browser, Resolve, Expire, AdminClears, SetupAdmin, Crash
<1> QED BY <1>1, LoginInvariance, PTL DEF LoginSpec, CountFallsByLogin

-----------------------------------------------------------------------------
\* The inductive invariant of Upgrade.

Everything == UNION {RowsOf[t] : t \in Tables}
Saved == UNION {snapshot[s] : s \in 1..MaxSecond}

UpgradeTypeOK ==
    /\ rows \subseteq Everything /\ had \subseteq Ledger
    /\ snapshot \in [1..MaxSecond -> SUBSET Everything]
    /\ second \in 1..MaxSecond
    /\ opener \in [Openers ->
           [pc : {"off", "refused", "check", "backup", "drop", "columns", "recreate",
                  "stamp", "users", "rest", "on"},
            current : Nat]]
    /\ version \in Nat
    /\ running \subseteq Bots
    /\ state \in [Bots -> {"none", "old", "fresh", "torn"}]
    /\ memory \in [Bots -> {"none", "old", "fresh"}]
    /\ flat \in [Bots -> {"none", "old"}]
    /\ script \in [name : {"none", "wipe", "reset"}, todo : SUBSET Bots]

\* What is in the WAL file alone is not all there is.
Together == "recent" \in rows => "deals" \in rows

\* Until the operator gives them up no deal is lost, and whoever is about to
\* drop the tables has all deals in a backup.
Backed ==
    ~wiped /\ premt = {} /\ ~collided =>
        /\ had \subseteq rows \cup Saved
        /\ \A p \in Openers : opener[p].pc = "drop" => had \subseteq Saved

\* A wipe has emptied the ledger already; no bot can undo what it has done to
\* the state files unless it started during the wipe.
Wiping ==
    script.name = "wipe" =>
        /\ rows \cap Ledger = {}
        /\ ~intruded => /\ running = {}
                        /\ \A b \in Bots \ script.todo : state[b] \in {"none", "fresh"}

UpgradeInv == UpgradeTypeOK /\ Together /\ Backed /\ Wiping

\* Drops takes the rows of its table, and only the deals are in the ledger.
LEMMA TablesApart ==
    /\ Ledger = {"deals", "recent"} /\ Ledger \subseteq Owned
    /\ Everything = {"admin", "deals", "recent", "account"}
    /\ RowsOf.users \cap Ledger = {} /\ RowsOf["accounts"] \cap Ledger = {}
    /\ RowsOf["users"] = RowsOf.users /\ RowsOf["deals"] = Ledger
  BY DEF Ledger, Owned, Everything, RowsOf, Tables

\* Every step keeps the types.
LEMMA UpgradeTypes == UpgradeTypeOK /\ [Next]_vars => UpgradeTypeOK'
<1> SUFFICES ASSUME UpgradeTypeOK, [Next]_vars PROVE UpgradeTypeOK'
  OBVIOUS
<1> USE DEF UpgradeTypeOK
<1>1. CASE UNCHANGED vars
  BY <1>1 DEF vars, db, engines, files, history
<1>2. ASSUME NEW p \in Openers,
             Reads(p) \/ Checks(p) \/ AddsColumns(p) \/ Stamps(p) \/ CreatesUsers(p)
                \/ Dies(p) \/ OptsIn(p)
      PROVE  UpgradeTypeOK'
  <2>1. UNCHANGED <<rows, snapshot, second, had, engines, files, script>>
    BY <1>2 DEF Reads, Checks, AddsColumns, Stamps, CreatesUsers, Dies, OptsIn, db, rest, history
  <2>2. version' \in Nat
    BY <1>2 DEF Reads, Checks, AddsColumns, Stamps, CreatesUsers, Dies, OptsIn, db, SchemaVersion
  <2>3. opener' \in [Openers ->
           [pc : {"off", "refused", "check", "backup", "drop", "columns", "recreate",
                  "stamp", "users", "rest", "on"},
            current : Nat]]
    BY <1>2 DEF Reads, Checks, AddsColumns, Stamps, CreatesUsers, Dies, OptsIn, Goes
  <2> QED BY <2>1, <2>2, <2>3 DEF engines, files
<1>3. ASSUME NEW p \in Openers, BacksUp(p) PROVE UpgradeTypeOK'
  BY <1>3 DEF BacksUp, Goes, rest, engines, files
<1>4. ASSUME NEW p \in Openers, DropsOwned(p) \/ Recreates(p) PROVE UpgradeTypeOK'
  <2>1. rows' \subseteq rows /\ UNCHANGED <<version, snapshot, rest, had>>
    BY <1>4 DEF DropsOwned, Recreates, Drops, history
  <2>2. opener' \in [Openers ->
           [pc : {"off", "refused", "check", "backup", "drop", "columns", "recreate",
                  "stamp", "users", "rest", "on"},
            current : Nat]]
    <3>1. UNCHANGED opener \/ Goes(p, "columns") \/ Goes(p, "stamp")
      BY <1>4 DEF DropsOwned, Recreates
    <3> QED BY <3>1 DEF Goes
  <2> QED BY <2>1, <2>2 DEF rest, engines, files
<1>5. ASSUME NEW p \in Openers, CreatesRest(p) PROVE UpgradeTypeOK'
  <2>1. rows' \subseteq rows \cup RowsOf.users /\ UNCHANGED <<version, snapshot, rest, had>>
    BY <1>5 DEF CreatesRest, history
  <2>2. opener' \in [Openers ->
           [pc : {"off", "refused", "check", "backup", "drop", "columns", "recreate",
                  "stamp", "users", "rest", "on"},
            current : Nat]]
    <3>1. Goes(p, "on") \/ Goes(p, "off")
      BY <1>5 DEF CreatesRest
    <3> QED BY <3>1 DEF Goes
  <2>3. RowsOf.users \subseteq Everything
    BY TablesApart DEF RowsOf
  <2> QED BY <2>1, <2>2, <2>3 DEF rest, engines, files
<1>6. ASSUME NEW b \in Bots, Starts(b) \/ Saves(b) \/ Stops(b) \/ MovesToUser(b) PROVE UpgradeTypeOK'
  BY <1>6 DEF Starts, Saves, Stops, MovesToUser, Fresh, db, engines, files, history
<1>7. ASSUME NEW b \in Bots, Resets(b) PROVE UpgradeTypeOK'
  <2>1. /\ UNCHANGED <<rows, had, snapshot, second, opener, version, engines, flat>>
        /\ state' \in {state, [state EXCEPT ![b] = "fresh"], [state EXCEPT ![b] = "torn"]}
    BY <1>7 DEF Resets, db, history
  <2>2. script' = NoScript \/ (script' = [script EXCEPT !.todo = @ \ {b}] /\ script.name = "wipe")
    BY <1>7 DEF Resets
  <2>3. script' \in [name : {"none", "wipe", "reset"}, todo : SUBSET Bots]
    BY <2>2 DEF NoScript
  <2> QED BY <2>1, <2>3 DEF engines
<1>8. ASSUME NEW b \in Bots, ResetsFlat(b) PROVE UpgradeTypeOK'
  BY <1>8 DEF ResetsFlat, db, engines, history
<1>9. CASE Tick
  BY <1>9, ConstantsAssumption DEF Tick, db, engines, files, history
<1>10. CASE WipesLedger
  BY <1>10 DEF WipesLedger, engines, files
<1>11. CASE ResetsDb
  BY <1>11 DEF ResetsDb, engines, history
<1>12. CASE ScriptEnds
  BY <1>12 DEF ScriptEnds, NoScript, db, engines, files, history
<1> QED BY <1>1, <1>2, <1>3, <1>4, <1>5, <1>6, <1>7, <1>8, <1>9, <1>10, <1>11, <1>12
        DEF Next, Opens

\* Every step keeps the deals backed.
LEMMA BackedStep ==
    UpgradeTypeOK /\ Together /\ Backed /\ [Next]_vars => Together' /\ Backed'
<1> SUFFICES ASSUME UpgradeTypeOK, Together, Backed, [Next]_vars
             PROVE  Together' /\ Backed'
  OBVIOUS
<1> had \subseteq Ledger /\ opener \in [Openers -> [pc : {"off", "refused", "check", "backup",
        "drop", "columns", "recreate", "stamp", "users", "rest", "on"}, current : Nat]]
  BY DEF UpgradeTypeOK
\* Steps that keep all rows, backups and what the operator gave up.
<1>1. ASSUME UNCHANGED <<had, snapshot, wiped, premt, collided>>,
             rows' \cap Ledger = rows \cap Ledger,
             \A p \in Openers : opener'[p].pc = "drop" =>
                 opener[p].pc = "drop" \/ rows \cap Owned = {}
      PROVE  Together' /\ Backed'
  <2>1. UNCHANGED Saved
    BY <1>1 DEF Saved
  <2>2. Together'
    BY <1>1, TablesApart DEF Together
  <2>3. ASSUME ~wiped', premt' = {}, ~collided'
        PROVE  /\ had' \subseteq rows' \cup Saved'
               /\ \A p \in Openers : opener'[p].pc = "drop" => had' \subseteq Saved'
    <3>1. /\ had \subseteq rows \cup Saved
          /\ \A p \in Openers : opener[p].pc = "drop" => had \subseteq Saved
      BY <1>1, <2>3 DEF Backed
    <3> QED BY <1>1, <2>1, <3>1, TablesApart
  <2> QED BY <2>2, <2>3 DEF Backed
<1>2. CASE UNCHANGED vars
  BY <1>1, <1>2 DEF vars, db, files, history
<1>3. ASSUME NEW p \in Openers,
             Reads(p) \/ Checks(p) \/ AddsColumns(p) \/ Stamps(p) \/ CreatesUsers(p)
                \/ Dies(p) \/ OptsIn(p)
      PROVE  Together' /\ Backed'
  <2>1. UNCHANGED <<rows, had, snapshot, wiped, premt, collided>>
    BY <1>3 DEF Reads, Checks, AddsColumns, Stamps, CreatesUsers, Dies, OptsIn, db, rest, files, history
  <2>2. \A q \in Openers : opener'[q].pc = "drop" => opener[q].pc = "drop" \/ rows \cap Owned = {}
    BY <1>3 DEF Reads, Checks, AddsColumns, Stamps, CreatesUsers, Dies, OptsIn, Goes
  <2> QED BY <1>1, <2>1, <2>2
<1>4. ASSUME NEW p \in Openers, Recreates(p) \/ CreatesRest(p) PROVE Together' /\ Backed'
  <2>1. /\ UNCHANGED <<had, snapshot, wiped, premt, collided>>
        /\ \E gone \in {{}, RowsOf["accounts"]}, add \in {{}, RowsOf.users} :
               rows' = (rows \ gone) \cup add
    BY <1>4 DEF Recreates, CreatesRest, Drops, rest, files, history
  <2>2. \A q \in Openers : opener'[q].pc = "drop" => opener[q].pc = "drop"
    BY <1>4 DEF Recreates, CreatesRest, Goes
  <2>3. rows' \cap Ledger = rows \cap Ledger
    BY <2>1, TablesApart
  <2> QED BY <1>1, <2>1, <2>2, <2>3
<1>5. ASSUME NEW p \in Openers, BacksUp(p) PROVE Together' /\ Backed'
  <2>1. /\ UNCHANGED <<rows, had, wiped, premt>>
        /\ snapshot' = [snapshot EXCEPT ![second] = rows]
        /\ \A q \in Openers : opener'[q].pc = "drop" => q = p \/ opener[q].pc = "drop"
    BY <1>5 DEF BacksUp, Goes, rest, files
  <2>2. collided' = (collided \/ snapshot[second] # {})
    BY <1>5 DEF BacksUp
  <2>3. ~collided' => ~collided /\ snapshot[second] = {}
    BY <2>2, Zenon
  <2>4. snapshot \in [1..MaxSecond -> SUBSET Everything] /\ second \in 1..MaxSecond
    BY DEF UpgradeTypeOK
  <2>5. snapshot[second] = {} => Saved' = Saved \cup rows
    BY <2>1, <2>4 DEF Saved
  <2> QED BY <2>1, <2>3, <2>5 DEF Together, Backed
<1>6. ASSUME NEW p \in Openers, DropsOwned(p) PROVE Together' /\ Backed'
  <2>1. /\ UNCHANGED <<had, snapshot, wiped, premt, collided>> /\ opener[p].pc = "drop"
        /\ rows' = rows \ Ledger \/ rows' = rows \ RowsOf.users
        /\ \A q \in Openers : opener'[q].pc = "drop" => opener[q].pc = "drop"
    BY <1>6, TablesApart DEF DropsOwned, Drops, Goes, rest, files, history
  <2>2. Together'
    BY <2>1, TablesApart DEF Together
  <2>3. UNCHANGED Saved
    BY <2>1 DEF Saved
  <2> QED BY <2>1, <2>2, <2>3 DEF Backed
<1>7. ASSUME UNCHANGED <<rows, had, snapshot, wiped, premt, collided, opener>>
      PROVE  Together' /\ Backed'
  BY <1>1, <1>7
<1>8. ASSUME NEW b \in Bots,
             Starts(b) \/ Saves(b) \/ Stops(b) \/ MovesToUser(b) \/ Resets(b) \/ ResetsFlat(b)
      PROVE  Together' /\ Backed'
  BY <1>7, <1>8 DEF Starts, Saves, Stops, MovesToUser, Resets, ResetsFlat, db, files, history
<1>9. CASE Tick \/ ScriptEnds
  BY <1>7, <1>9 DEF Tick, ScriptEnds, db, files, history
<1>10. CASE WipesLedger
  BY <1>10, TablesApart DEF WipesLedger, Together, Backed
<1>11. CASE ResetsDb
  <2>1. /\ rows' = {} /\ premt' = premt \cup (rows \ {"recent"})
        /\ UNCHANGED <<had, snapshot, wiped, collided, opener>>
        /\ \A p \in Openers : opener[p].pc # "drop"
    BY <1>11 DEF ResetsDb, history
  <2>2. premt' = {} => premt = {} /\ rows = {}
    BY <2>1 DEF Together
  <2>3. UNCHANGED Saved
    BY <2>1 DEF Saved
  <2> QED BY <2>1, <2>2, <2>3 DEF Together, Backed
<1> QED BY <1>2, <1>3, <1>4, <1>5, <1>6, <1>8, <1>9, <1>10, <1>11 DEF Next, Opens

\* Every step keeps what a wipe has done.
LEMMA WipingStep == UpgradeTypeOK /\ Wiping /\ [Next]_vars => Wiping'
<1> SUFFICES ASSUME UpgradeTypeOK, Wiping, [Next]_vars, script'.name = "wipe" PROVE Wiping'
  BY DEF Wiping
<1>1. ASSUME UNCHANGED <<script, state, running, intruded>>, rows' \cap Ledger \subseteq rows
      PROVE  Wiping'
  BY <1>1 DEF Wiping
<1>2. CASE UNCHANGED vars
  BY <1>1, <1>2 DEF vars, db, engines, files, history
<1>3. ASSUME NEW p \in Openers, Opens(p) \/ Dies(p) \/ OptsIn(p) PROVE Wiping'
  <2>1. UNCHANGED <<script, state, running, intruded>>
    BY <1>3 DEF Opens, Reads, Checks, BacksUp, DropsOwned, AddsColumns, Recreates, Stamps,
       CreatesUsers, CreatesRest, Dies, OptsIn, rest, engines, files, history
  <2>2. rows' \subseteq rows \cup RowsOf.users
    BY <1>3 DEF Opens, Reads, Checks, BacksUp, DropsOwned, AddsColumns, Recreates, Stamps,
       CreatesUsers, CreatesRest, Dies, OptsIn, Drops, db
  <2> QED BY <1>1, <2>1, <2>2, TablesApart
<1>4. ASSUME NEW b \in Bots, Starts(b) PROVE Wiping'
  <2>1. /\ intruded' = (intruded \/ Operating) /\ UNCHANGED <<script, rows>>
        /\ UNCHANGED state
    BY <1>4 DEF Starts, db, files
  <2>2. Operating
    BY <2>1 DEF Operating
  <2>3. intruded'
    BY <2>1, <2>2, Zenon
  <2> QED BY <2>1, <2>3 DEF Wiping
<1>5. ASSUME NEW b \in Bots, Saves(b) \/ Stops(b) PROVE Wiping'
  <2>1. b \in running /\ UNCHANGED <<script, rows, intruded>>
    BY <1>5 DEF Saves, Stops, db, history
  <2> QED BY <2>1 DEF Wiping
<1>6. ASSUME NEW b \in Bots, MovesToUser(b) PROVE FALSE
  BY <1>6 DEF MovesToUser, Operating
<1>7. ASSUME NEW b \in Bots, Resets(b) PROVE Wiping'
  <2>1. /\ script.name = "wipe" /\ state' = [state EXCEPT ![b] = "fresh"]
        /\ script' = [script EXCEPT !.todo = @ \ {b}]
        /\ UNCHANGED <<rows, running, intruded>>
    BY <1>7 DEF Resets, NoScript, db, engines, history
  <2>2. script'.todo = script.todo \ {b}
    BY <2>1 DEF UpgradeTypeOK
  <2> QED BY <2>1, <2>2 DEF Wiping, UpgradeTypeOK
<1>8. ASSUME NEW b \in Bots, ResetsFlat(b) PROVE FALSE
  BY <1>8 DEF ResetsFlat
<1>9. CASE Tick
  BY <1>1, <1>9 DEF Tick, db, engines, files, history
<1>10. CASE WipesLedger
  BY <1>10, TablesApart DEF WipesLedger, NoBotRuns, engines, files, Wiping, UpgradeTypeOK
<1>11. CASE ResetsDb \/ ScriptEnds
  BY <1>11 DEF ResetsDb, ScriptEnds, NoScript
<1> QED BY <1>2, <1>3, <1>4, <1>5, <1>6, <1>7, <1>8, <1>9, <1>10, <1>11 DEF Next

\* The invariant of Upgrade holds throughout.
LEMMA UpgradeInvariance == Spec => []UpgradeInv
<1>1. Init => UpgradeInv
  <2> SUFFICES ASSUME Init PROVE UpgradeInv
    OBVIOUS
  <2>1. UpgradeTypeOK
    BY TablesApart, ConstantsAssumption DEF Init, UpgradeTypeOK, NoScript, SchemaVersion
  <2>2. Together /\ Backed /\ Wiping
    BY DEF Init, Together, Backed, Wiping, NoScript
  <2> QED BY <2>1, <2>2 DEF UpgradeInv
<1>2. UpgradeInv /\ [Next]_vars => UpgradeInv'
  BY UpgradeTypes, BackedStep, WipingStep DEF UpgradeInv
<1> QED BY <1>1, <1>2, PTL DEF Spec

\* However many processes open the database and die on the way, every deal is
\* in the ledger or in a backup made before the drop, until the operator wipes
\* or resets, unless two backups got the same name
\* (_migrate_schema, _create_pre_migration_backup).
THEOREM DealsAreBackedUp == Spec => []DealsKept
<1>1. UpgradeInv => DealsKept
  BY DEF UpgradeInv, Backed, Saved, DealsKept
<1> QED BY <1>1, UpgradeInvariance, PTL

\* A wipe that ends has emptied the ledger and all state files, with portals
\* and schedulers being started around it, if no bot started meanwhile
\* (wipe_deals, _check_no_bots_running).
THEOREM WipesAreWhole == Spec => WipeIsWhole
<1>1. UpgradeInv => 
        (script.name = "wipe" /\ ScriptEnds /\ script.todo = {} /\ ~intruded
            => /\ rows \cap Ledger = {}
               /\ \A b \in Bots : state[b] \in {"none", "fresh"})
  BY DEF UpgradeInv, Wiping
<1> QED BY <1>1, UpgradeInvariance, PTL DEF WipeIsWhole

-----------------------------------------------------------------------------
\* The inductive invariant of LogTail.

LogTypeOK ==
    /\ written \in [Files -> Nat] /\ start \in [Files -> Nat]
    /\ \A f \in Files : start[f] <= written[f]
    /\ last \in [Slugs -> Nat] /\ todo \subseteq Files
    /\ probe \in {Nothing} \cup [file : Files, size : Nat]
    /\ sending \in Seq([line : Int, file : Files])
    /\ wants \in [Sockets -> MayAsk \cup {Portal}]
    /\ socket \in [Sockets -> {"off", "accepted", "member", "replay", "live", "dead"}]
    /\ backlog \in [Sockets -> SUBSET Int] /\ owed \in [Sockets -> Int]
    /\ members \subseteq Sockets
    /\ got = [c \in Sockets |-> got[c]]

\* The tail looks at a file when it has sent all of the one before.  Until a
\* file is rotated, neither a cursor of its own nor the size the tail has just
\* seen is past its end.
Cursors ==
    /\ probe # Nothing => sending = <<>> /\ probe.size <= written[probe.file]
    /\ \A f \in Files : OwnCursor(f) /\ start[f] = 0 => last[f[2]] <= written[f]

\* Whoever is to get lines is a member, and asked for what it may see.
Joined ==
    \A c \in Sockets :
        /\ socket[c] # "off" => wants[c] \in MayAsk
        /\ socket[c] \in {"member", "replay", "live"} => c \in members
        /\ socket[c] = "live" => backlog[c] = {}

\* Every line up to the cursor is in one of three places: with the browser,
\* on its way to all members, or in the browser's own replay.
Awaits(c, n) ==
    \/ <<Followed(c), n>> \in got[c]
    \/ \E i \in DOMAIN sending : sending[i] = [line |-> n, file |-> Followed(c)]
    \/ n \in backlog[c]
Gapless ==
    \A c \in Sockets :
        /\ socket[c] \in {"replay", "live"}
        /\ OwnCursor(Followed(c)) /\ start[Followed(c)] = 0
        => \A n \in owed[c] .. last[Followed(c)[2]] : Awaits(c, n)

LogInv == LogTypeOK /\ Cursors /\ Joined /\ Gapless

\* A connection's file is one there is, of its slug, and for its eyes.
LEMMA FollowsFile ==
    ASSUME NEW c \in Sockets, wants[c] \in MayAsk \cup {Portal}
    PROVE  /\ Followed(c) \in Files /\ Followed(c)[2] \in Slugs
           /\ wants[c] \in MayAsk =>
                Followed(c)[2] = wants[c][2] /\ User(c) \in Owners(Followed(c))
<1>1. Portal \in Files /\ Portal[2] = "portal"
  BY DEF Portal, Files
<1>2. CASE wants[c] \in BotLogs
  BY <1>1, <1>2, LogConstantsAssumption DEF Followed, Files, Slugs, User, Owners
<1>3. ASSUME NEW u \in Admins, wants[c] = <<u, "portal">>
      PROVE  wants[c][2] = "portal" /\ User(c) \in Admins
  BY <1>3 DEF User
<1>4. Owners(Portal) = Admins
  BY <1>1 DEF Owners
<1>5. CASE wants[c] \in {<<u, "portal">> : u \in Admins}
  <2>1. wants[c][2] = "portal" /\ User(c) \in Admins
    BY <1>3, <1>5
  <2> QED BY <1>1, <1>4, <2>1 DEF Followed, Slugs
<1>6. CASE wants[c] = Portal /\ wants[c] \notin MayAsk
  BY <1>1, <1>6 DEF Followed, Slugs
<1> QED BY <1>2, <1>5, <1>6 DEF MayAsk

\* The fields of a line that is on its way.
LEMMA NewsFields ==
    ASSUME NEW r, NEW n, NEW f, r = [line |-> n, file |-> f]
    PROVE  r.file = f /\ r.line = n
OBVIOUS

\* What waits behind the first line waits one place further ahead without it.
LEMMA TailShifts ==
    ASSUME NEW S, NEW s \in Seq(S), s # <<>>, NEW i \in DOMAIN s, i # 1
    PROVE  i - 1 \in DOMAIN Tail(s) /\ Tail(s)[i - 1] = s[i]
<1>1. DOMAIN s = 1 .. Len(s) /\ Len(s) \in Nat
  OBVIOUS
<1>2. i - 1 \in 1 .. Len(s) - 1
  BY <1>1
<1>3. Len(Tail(s)) = Len(s) - 1 /\ Tail(s) \in Seq(S)
  OBVIOUS
<1>4. Tail(s)[i - 1] = s[(i - 1) + 1]
  BY <1>2, <1>3
<1>5. DOMAIN Tail(s) = 1 .. Len(Tail(s))
  BY <1>3
<1> QED BY <1>1, <1>2, <1>3, <1>4, <1>5

\* The lines from the cursor on, in a file that was not rotated.
LEMMA NewsLines ==
    ASSUME LogTypeOK, NEW f \in Files
    PROVE  /\ News(f) \in Seq([line : Int, file : Files])
           /\ start[f] = 0 =>
                \A n \in last[f[2]] + 1 .. written[f] :
                    \E i \in DOMAIN News(f) : News(f)[i] = [line |-> n, file |-> f]
<1>1. written[f] \in Nat /\ start[f] \in Nat /\ f[2] \in Slugs /\ last[f[2]] \in Nat
  BY DEF LogTypeOK, Slugs
<1>2. News(f) \in Seq([line : Int, file : Files])
  <2> DEFINE from == start[f] + last[f[2]]
             more == IF from < written[f] THEN written[f] - from ELSE 0
  <2>1. from \in Nat /\ more \in Nat /\ 1 .. written[f] - from = 1 .. more
    BY <1>1
  <2>2. \A i \in 1 .. more : [line |-> from + i, file |-> f] \in [line : Int, file : Files]
    BY <2>1
  <2>3. News(f) = [i \in 1 .. more |-> [line |-> from + i, file |-> f]]
    BY <2>1 DEF News
  <2> HIDE DEF from, more
  <2> QED BY <2>1, <2>2, <2>3
<1>3. ASSUME start[f] = 0, NEW n \in last[f[2]] + 1 .. written[f]
      PROVE  \E i \in DOMAIN News(f) : News(f)[i] = [line |-> n, file |-> f]
  <2>1. n - last[f[2]] \in DOMAIN News(f)
    BY <1>1, <1>3 DEF News
  <2>2. News(f)[n - last[f[2]]] = [line |-> n, file |-> f]
    BY <1>1, <1>3, <2>1 DEF News
  <2> QED BY <2>1, <2>2
<1> QED BY <1>2, <1>3

\* Every step keeps the types.
LEMMA LogTypeStep == LogTypeOK /\ [LogNext]_logVars => LogTypeOK'
<1> SUFFICES ASSUME LogTypeOK, [LogNext]_logVars PROVE LogTypeOK'
  OBVIOUS
<1> USE LogConstantsAssumption DEF writerVars, tailVars, socketVars
<1> Portal \in Files /\ \A f \in Files : f[2] \in Slugs
  BY DEF Files, Slugs
<1>1. ASSUME NEW f \in Files, Writes(f) \/ Rotates(f) PROVE LogTypeOK'
  <2>1. CASE Writes(f)
    <3>1. written' \in [Files -> Nat] /\ \A g \in Files : written[g] <= written'[g]
      BY <2>1 DEF Writes, LogTypeOK
    <3>2. \A g \in Files : start'[g] <= written'[g]
      BY <2>1, <3>1 DEF Writes, LogTypeOK
    <3> QED BY <2>1, <3>1, <3>2 DEF Writes, LogTypeOK
  <2>2. CASE Rotates(f)
    BY <2>2 DEF Rotates, LogTypeOK
  <2> QED BY <1>1, <2>1, <2>2
<1>2. CASE Polls
  BY <1>2 DEF Polls, LogTypeOK
<1>3. ASSUME NEW f \in Files, Stats(f) PROVE LogTypeOK'
  <2>1. Size(f) \in Nat
    BY DEF Size, LogTypeOK
  <2>2. /\ last' \in [Slugs -> Nat] /\ probe' \in {Nothing} \cup [file : Files, size : Nat]
    BY <1>3, <2>1 DEF Stats, LogTypeOK
  <2> QED BY <1>3, <2>2 DEF Stats, LogTypeOK
<1>4. CASE ReadsNews
  <2>1. probe \in [file : Files, size : Nat]
    BY <1>4 DEF ReadsNews, LogTypeOK
  <2>2. sending' \in Seq([line : Int, file : Files])
    BY <1>4, <2>1, NewsLines DEF ReadsNews
  <2>3. last' \in [Slugs -> Nat]
    BY <1>4, <2>1 DEF ReadsNews, LogTypeOK
  <2> QED BY <1>4, <2>2, <2>3 DEF ReadsNews, LogTypeOK
<1>5. CASE Broadcasts
  <2>1. Tail(sending) \in Seq([line : Int, file : Files]) /\ members' \subseteq Sockets
        /\ got' = [c \in Sockets |-> got'[c]]
    BY <1>5 DEF Broadcasts, LogTypeOK
  <2> QED BY <1>5, <2>1 DEF Broadcasts, LogTypeOK
<1>6. ASSUME NEW c \in Sockets, NEW w \in MayAsk, Accepts(c, w) PROVE LogTypeOK'
  <2>1. got' = [d \in Sockets |-> got'[d]]
    BY <1>6 DEF Accepts, LogTypeOK
  <2> QED BY <1>6, <2>1 DEF Accepts, LogTypeOK
<1>7. ASSUME NEW c \in Sockets, Joins(c) \/ Vanishes(c) \/ Quits(c) PROVE LogTypeOK'
  <2>1. CASE Joins(c) \/ Vanishes(c)
    BY <2>1 DEF Joins, Vanishes, LogTypeOK
  <2>2. CASE Quits(c)
    BY <2>2 DEF Quits, LogTypeOK
  <2> QED BY <1>7, <2>1, <2>2
<1>8. ASSUME NEW c \in Sockets, Replays(c) PROVE LogTypeOK'
  <2>1. Followed(c) \in Files
    BY FollowsFile DEF LogTypeOK
  <2>2. FirstOwed(Followed(c)) \in Int /\ LastLines(Followed(c)) \in SUBSET Int
    BY <2>1 DEF FirstOwed, LastLines, Size, LogTypeOK
  <2> QED BY <1>8, <2>2 DEF Replays, LogTypeOK
<1>9. ASSUME NEW c \in Sockets, SendsLine(c) PROVE LogTypeOK'
  <2>1. socket' \in [Sockets -> {"off", "accepted", "member", "replay", "live", "dead"}]
        /\ backlog' \in [Sockets -> SUBSET Int]
    <3>1. backlog' = backlog \/ \E n : backlog' = [backlog EXCEPT ![c] = @ \ {n}]
      BY <1>9 DEF SendsLine
    <3>2. backlog' \in [Sockets -> SUBSET Int]
      BY <3>1 DEF LogTypeOK
    <3>3. socket' = socket \/ socket' = [socket EXCEPT ![c] = "live"]
      BY <1>9 DEF SendsLine
    <3> QED BY <3>2, <3>3 DEF LogTypeOK
  <2>2. got' = [d \in Sockets |-> got'[d]]
    BY <1>9 DEF SendsLine, LogTypeOK
  <2> QED BY <1>9, <2>1, <2>2 DEF SendsLine, LogTypeOK
<1>10. CASE TailRestarts
  BY <1>10 DEF TailRestarts, LogTypeOK
<1>11. CASE UNCHANGED logVars
  BY <1>11 DEF logVars, LogTypeOK
<1> QED BY <1>1, <1>2, <1>3, <1>4, <1>5, <1>6, <1>7, <1>8, <1>9, <1>10, <1>11
        DEF LogNext, Tails

\* What the sockets' handlers and the browsers leave alone.
LEMMA SocketsOnly ==
    ASSUME NEW c \in Sockets,
           \/ \E w \in MayAsk : Accepts(c, w)
           \/ Joins(c) \/ Replays(c) \/ SendsLine(c) \/ Vanishes(c) \/ Quits(c)
    PROVE  UNCHANGED <<written, start, last, todo, probe, sending>>
  BY DEF Accepts, Joins, Replays, SendsLine, Vanishes, Quits, writerVars, tailVars

\* Every step keeps the cursors inside their files.
LEMMA CursorsStep == LogTypeOK /\ Cursors /\ [LogNext]_logVars => Cursors'
<1> SUFFICES ASSUME LogTypeOK, Cursors, [LogNext]_logVars PROVE Cursors'
  OBVIOUS
<1> USE DEF writerVars, tailVars, socketVars
<1> /\ written \in [Files -> Nat] /\ start \in [Files -> Nat] /\ last \in [Slugs -> Nat]
    /\ probe \in {Nothing} \cup [file : Files, size : Nat]
    /\ \A f \in Files : f[2] \in Slugs
    /\ \A f \in Files : Size(f) \in Int /\ Size(f) <= written[f]
  BY DEF LogTypeOK, Slugs, Size
<1>1. ASSUME NEW f \in Files, Writes(f) PROVE Cursors'
  <2>1. /\ UNCHANGED <<start, last, probe, sending>> /\ written' \in [Files -> Nat]
        /\ \A g \in Files : written[g] <= written'[g]
    BY <1>1 DEF Writes
  <2>2. probe # Nothing => probe.file \in Files /\ probe.size \in Nat
    OBVIOUS
  <2>3. probe' # Nothing => sending' = <<>> /\ probe'.size <= written'[probe'.file]
    BY <2>1, <2>2 DEF Cursors
  <2>4. \A g \in Files : OwnCursor(g)' /\ start'[g] = 0 => last'[g[2]] <= written'[g]
    BY <2>1 DEF Cursors, OwnCursor
  <2> QED BY <2>3, <2>4 DEF Cursors
<1>2. ASSUME NEW f \in Files, Rotates(f) PROVE Cursors'
  <2>1. /\ UNCHANGED <<written, last, probe, sending>> /\ start' = [start EXCEPT ![f] = written[f]]
        /\ written[f] # 0
    BY <1>2 DEF Rotates, Size
  <2>2. \A g \in Files : start'[g] = 0 => start[g] = 0
    BY <2>1
  <2> QED BY <2>1, <2>2 DEF Cursors, OwnCursor
<1>3. ASSUME NEW f \in Files, Stats(f) PROVE Cursors'
  <2>1. UNCHANGED <<written, start, sending>> /\ sending = <<>>
    BY <1>3 DEF Stats
  <2>2. CASE last' = last /\ probe' = [file |-> f, size |-> Size(f)]
    BY <2>1, <2>2 DEF Cursors, OwnCursor
  <2>3. CASE last' = [last EXCEPT ![f[2]] = Size(f)] /\ probe' = probe
    BY <2>1, <2>3 DEF Cursors, OwnCursor
  <2> QED BY <1>3, <2>2, <2>3 DEF Stats
<1>4. CASE ReadsNews
  <2>1. /\ probe # Nothing /\ probe' = Nothing /\ UNCHANGED <<written, start>>
        /\ last' = [last EXCEPT ![probe.file[2]] = probe.size]
    BY <1>4 DEF ReadsNews
  <2>2. probe.file \in Files /\ probe.size <= written[probe.file]
    BY <2>1 DEF Cursors
  <2> QED BY <2>1, <2>2 DEF Cursors, OwnCursor
<1>5. CASE Polls \/ Broadcasts \/ UNCHANGED logVars
  <2>1. UNCHANGED <<written, start, last, probe>> /\ (sending = <<>> => sending' = <<>>)
    BY <1>5 DEF Polls, Broadcasts, logVars
  <2> QED BY <2>1 DEF Cursors, OwnCursor
<1>6. CASE TailRestarts
  BY <1>6 DEF TailRestarts, Cursors
<1>7. ASSUME NEW c \in Sockets,
             \/ \E w \in MayAsk : Accepts(c, w)
             \/ Joins(c) \/ Replays(c) \/ SendsLine(c) \/ Vanishes(c) \/ Quits(c)
      PROVE  Cursors'
  BY <1>7, SocketsOnly DEF Cursors, OwnCursor
<1> QED BY <1>1, <1>2, <1>3, <1>4, <1>5, <1>6, <1>7 DEF LogNext, Tails

\* Every step keeps who is a member.
LEMMA JoinedStep == LogTypeOK /\ Joined /\ [LogNext]_logVars => Joined'
<1> SUFFICES ASSUME LogTypeOK, Joined, [LogNext]_logVars PROVE Joined'
  OBVIOUS
<1> USE DEF writerVars, tailVars, socketVars
<1> /\ wants \in [Sockets -> MayAsk \cup {Portal}]
    /\ socket \in [Sockets -> {"off", "accepted", "member", "replay", "live", "dead"}]
    /\ backlog \in [Sockets -> SUBSET Int] /\ members \subseteq Sockets
  BY DEF LogTypeOK
<1>1. CASE \/ \E f \in Files : Writes(f) \/ Rotates(f) \/ Stats(f)
           \/ Polls \/ ReadsNews \/ UNCHANGED logVars
  <2>1. UNCHANGED <<wants, socket, backlog, members>>
    BY <1>1 DEF Writes, Rotates, Stats, Polls, ReadsNews, logVars
  <2> QED BY <2>1 DEF Joined
<1>2. CASE Broadcasts
  <2>1. /\ UNCHANGED <<wants, socket, backlog>>
        /\ \A c \in members : socket[c] # "dead" => c \in members'
    BY <1>2 DEF Broadcasts
  <2> QED BY <2>1 DEF Joined
<1>3. ASSUME NEW c \in Sockets, NEW w \in MayAsk, Accepts(c, w) PROVE Joined'
  BY <1>3 DEF Accepts, Joined
<1>4. ASSUME NEW c \in Sockets, Joins(c) \/ Replays(c) \/ Vanishes(c) \/ Quits(c)
      PROVE  Joined'
  BY <1>4 DEF Joins, Replays, Vanishes, Quits, Joined
<1>5. ASSUME NEW c \in Sockets, SendsLine(c) PROVE Joined'
  <2>1. /\ UNCHANGED <<wants, members>> /\ socket[c] = "replay"
        /\ \/ backlog[c] = {} /\ backlog' = backlog /\ socket' = [socket EXCEPT ![c] = "live"]
           \/ socket' = socket /\ \A d \in Sockets \ {c} : backlog'[d] = backlog[d]
    BY <1>5 DEF SendsLine
  <2> QED BY <2>1 DEF Joined
<1>6. CASE TailRestarts
  BY <1>6 DEF TailRestarts, Joined
<1> QED BY <1>1, <1>2, <1>3, <1>4, <1>5, <1>6 DEF LogNext, Tails

\* Every step keeps every line in one of its three places.
LEMMA GaplessStep ==
    LogTypeOK /\ LogTypeOK' /\ Cursors /\ Joined /\ Gapless /\ [LogNext]_logVars => Gapless'
<1> SUFFICES ASSUME LogTypeOK, LogTypeOK', Cursors, Joined, Gapless, [LogNext]_logVars,
                    NEW c \in Sockets, socket'[c] \in {"replay", "live"},
                    OwnCursor(Followed(c)'), start'[Followed(c)'] = 0,
                    NEW n \in owed'[c] .. last'[Followed(c)'[2]]
             PROVE  Awaits(c, n)'
  BY DEF Gapless, OwnCursor
<1> USE DEF writerVars, tailVars, socketVars
<1> DEFINE f == Followed(c)
<1> /\ f \in Files /\ f[2] \in Slugs
  BY FollowsFile DEF LogTypeOK
<1> /\ written \in [Files -> Nat] /\ start \in [Files -> Nat] /\ last \in [Slugs -> Nat]
    /\ owed \in [Sockets -> Int] /\ owed' \in [Sockets -> Int] /\ last' \in [Slugs -> Nat]
    /\ sending \in Seq([line : Int, file : Files])
    /\ got = [d \in Sockets |-> got[d]] /\ backlog \in [Sockets -> SUBSET Int]
    /\ socket \in [Sockets -> {"off", "accepted", "member", "replay", "live", "dead"}]
    /\ wants \in [Sockets -> MayAsk \cup {Portal}]
  BY DEF LogTypeOK
\* Nothing lost, and the cursor where it was or behind.
<1>1. ASSUME wants'[c] = wants[c], socket[c] \in {"replay", "live"}, owed'[c] = owed[c],
             start[f] = 0, last'[f[2]] <= last[f[2]],
             Awaits(c, n) => Awaits(c, n)'
      PROVE  Awaits(c, n)'
  <2>1. Followed(c)' = f
    BY <1>1 DEF Followed
  <2>2. n \in owed[c] .. last[f[2]]
    BY <1>1, <2>1
  <2> QED BY <1>1, <2>1, <2>2 DEF Gapless
<1>2. CASE \/ \E g \in Files : Writes(g) \/ Rotates(g)
           \/ Polls \/ UNCHANGED logVars
  <2>1. UNCHANGED <<last, sending, wants, socket, backlog, got, owed>>
    BY <1>2 DEF Writes, Rotates, Polls, logVars
  <2>2. Followed(c)' = f
    BY <2>1 DEF Followed
  <2>3. start[f] = 0
    BY <1>2, <2>2 DEF Writes, Rotates, Polls, logVars, Size, LogTypeOK
  <2> QED BY <1>1, <2>1, <2>2, <2>3 DEF Awaits
<1>3. ASSUME NEW g \in Files, Stats(g) PROVE Awaits(c, n)'
  <2>1. UNCHANGED <<written, start, sending, wants, socket, backlog, got, owed>>
    BY <1>3 DEF Stats
  <2>2. Followed(c)' = f
    BY <2>1 DEF Followed
  <2>3. last'[f[2]] <= last[f[2]]
    <3>1. last' = last \/ (last' = [last EXCEPT ![g[2]] = Size(g)] /\ Size(g) <= last[g[2]])
      <4>1. Size(g) \in Int /\ g[2] \in Slugs /\ last[g[2]] \in Nat
        BY DEF Size, Slugs
      <4> QED BY <1>3, <4>1 DEF Stats
    <3>2. last[f[2]] \in Nat
      OBVIOUS
    <3>3. CASE last' = last
      BY <3>2, <3>3
    <3>4. CASE last' = [last EXCEPT ![g[2]] = Size(g)] /\ Size(g) <= last[g[2]]
      <4>1. CASE f[2] = g[2]
        BY <3>4, <4>1
      <4>2. CASE f[2] # g[2]
        BY <3>2, <3>4, <4>2
      <4> QED BY <4>1, <4>2
    <3> QED BY <3>1, <3>3, <3>4
  <2> QED BY <1>1, <2>1, <2>2, <2>3 DEF Awaits
\* The read brings all the lines between the old cursor and the new one.
<1>4. CASE ReadsNews
  <2>1. /\ UNCHANGED <<written, start, wants, socket, backlog, got, owed>>
        /\ probe # Nothing /\ sending' = News(probe.file)
        /\ last' = [last EXCEPT ![probe.file[2]] = probe.size]
    BY <1>4 DEF ReadsNews
  <2>2. Followed(c)' = f /\ start[f] = 0 /\ sending = <<>>
    BY <2>1 DEF Followed, Cursors
  <2>3. probe.file \in Files /\ probe.size \in Nat /\ probe.size <= written[probe.file]
    BY <2>1 DEF Cursors, LogTypeOK
  <2>4. CASE probe.file = f
    <3>1. last'[f[2]] = probe.size /\ n \in owed[c] .. probe.size
      BY <2>1, <2>2, <2>3, <2>4
    <3>2. CASE n <= last[f[2]]
      <4>1. OwnCursor(f) /\ socket[c] \in {"replay", "live"}
        BY <2>1, <2>2 DEF OwnCursor
      <4>2. n \in owed[c] .. last[f[2]]
        BY <3>1, <3>2
      <4>3. Awaits(c, n)
        BY <2>2, <4>1, <4>2 DEF Gapless
      <4> QED BY <2>1, <2>2, <4>3 DEF Awaits
    <3>3. CASE n > last[f[2]]
      <4>1. n \in last[f[2]] + 1 .. written[f]
        BY <2>3, <2>4, <3>1, <3>3
      <4>2. \E i \in DOMAIN News(f) : News(f)[i] = [line |-> n, file |-> f]
        BY <2>2, <4>1, NewsLines
      <4> QED BY <2>1, <2>2, <2>4, <4>2 DEF Awaits
    <3> QED BY <3>1, <3>2, <3>3
  <2>5. CASE probe.file # f
    <3>1. probe.file[2] # f[2]
      BY <2>2, <2>3, <2>5 DEF OwnCursor
    <3>2. last'[f[2]] = last[f[2]]
      BY <2>1, <3>1
    <3>3. Awaits(c, n) => Awaits(c, n)'
      BY <2>1, <2>2 DEF Awaits
    <3> QED BY <1>1, <2>1, <2>2, <3>2, <3>3
  <2> QED BY <2>4, <2>5
\* A line goes to every member that may see the file, or stays in line.
<1>5. CASE Broadcasts
  <2>1. /\ UNCHANGED <<written, start, last, wants, socket, backlog, owed>>
        /\ sending # <<>> /\ sending' = Tail(sending)
    BY <1>5 DEF Broadcasts
  <2>2. Followed(c)' = f /\ start[f] = 0
    BY <2>1 DEF Followed
  <2>3. got[c] \subseteq got'[c]
    BY <1>5 DEF Broadcasts
  <2>4. Head(sending).file = f => <<f, Head(sending).line>> \in got'[c]
    <3>1. c \in members /\ socket[c] # "dead" /\ wants[c] \in MayAsk
      BY <2>1 DEF Joined
    <3>2. wants[c][2] = f[2] /\ User(c) \in Owners(f)
      BY <3>1, FollowsFile
    <3> QED BY <1>5, <3>1, <3>2 DEF Broadcasts, Targets
  <2>5. ASSUME NEW i \in DOMAIN sending, sending[i] = [line |-> n, file |-> f]
        PROVE  Awaits(c, n)'
    <3>1. CASE i = 1
      <4>1. Head(sending) = [line |-> n, file |-> f]
        BY <2>1, <2>5, <3>1
      <4>2. Head(sending).file = f /\ Head(sending).line = n
        BY <4>1, NewsFields
      <4>3. <<f, n>> \in got'[c]
        <5> HIDE DEF f
        <5> QED BY <2>4, <4>2
      <4> QED BY <2>2, <4>3 DEF Awaits
    <3>2. CASE i # 1
      <4>1. i - 1 \in DOMAIN Tail(sending) /\ Tail(sending)[i - 1] = sending[i]
        BY <2>1, <2>5, <3>2, TailShifts
      <4> QED BY <2>1, <2>2, <2>5, <4>1 DEF Awaits
    <3> QED BY <3>1, <3>2
  <2>6. Awaits(c, n) => Awaits(c, n)'
    BY <2>1, <2>2, <2>3, <2>5 DEF Awaits
  <2> QED BY <1>1, <2>1, <2>2, <2>6
\* What a replay reads is all there is up to the cursor.
<1>6. ASSUME Replays(c) PROVE Awaits(c, n)'
  <2>1. /\ UNCHANGED <<written, start, last, wants>>
        /\ backlog'[c] = FirstOwed(f) .. written[f] /\ owed'[c] = FirstOwed(f)
    BY <1>6 DEF Replays, LastLines
  <2>2. Followed(c)' = f /\ start[f] = 0
    BY <2>1 DEF Followed
  <2>3. last[f[2]] <= written[f]
    BY <2>2 DEF Cursors, OwnCursor
  <2>4. n \in FirstOwed(f) .. written[f]
    <3>1. n \in FirstOwed(f) .. last[f[2]] /\ FirstOwed(f) \in Int
      BY <2>1, <2>2
    <3> QED BY <2>3, <3>1
  <2> QED BY <2>1, <2>4 DEF Awaits
<1>7. ASSUME SendsLine(c) PROVE Awaits(c, n)'
  <2>1. /\ UNCHANGED <<written, start, last, sending, wants, owed>> /\ socket[c] = "replay"
        /\ \/ UNCHANGED <<backlog, got>>
           \/ \E m : /\ backlog' = [backlog EXCEPT ![c] = @ \ {m}]
                     /\ got' = [got EXCEPT ![c] = @ \cup {<<f, m>>}]
    BY <1>7 DEF SendsLine
  <2>2. Followed(c)' = f /\ start[f] = 0
    BY <2>1 DEF Followed
  <2>3. Awaits(c, n) => Awaits(c, n)'
    BY <2>1, <2>2 DEF Awaits
  <2> QED BY <1>1, <2>1, <2>2, <2>3
\* Other steps of this socket leave it out of a replay, and others' steps
\* leave it alone.
<1>8. CASE TailRestarts \/ (\E w \in MayAsk : Accepts(c, w)) \/ Joins(c) \/ Vanishes(c) \/ Quits(c)
  BY <1>8 DEF TailRestarts, Accepts, Joins, Vanishes, Quits
<1>9. ASSUME NEW d \in Sockets \ {c},
             \/ \E w \in MayAsk : Accepts(d, w)
             \/ Joins(d) \/ Replays(d) \/ SendsLine(d) \/ Vanishes(d) \/ Quits(d)
      PROVE  Awaits(c, n)'
  <2>1. /\ UNCHANGED <<written, start, last, sending>>
        /\ wants'[c] = wants[c] /\ socket'[c] = socket[c] /\ owed'[c] = owed[c]
        /\ backlog'[c] = backlog[c] /\ got'[c] = got[c]
    BY <1>9 DEF Accepts, Joins, Replays, SendsLine, Vanishes, Quits
  <2>2. Followed(c)' = f /\ start[f] = 0
    BY <2>1 DEF Followed
  <2> QED BY <1>1, <2>1, <2>2 DEF Awaits
<1> QED BY <1>2, <1>3, <1>4, <1>5, <1>6, <1>7, <1>8, <1>9 DEF LogNext, Tails

\* A browser past its replay has every line up to the cursor, or the line is
\* on its way to it, in a file of its own that was not rotated (tail_logs,
\* ws_logs).
THEOREM NoLineIsSkipped == LogSpec => []NoGap
<1>1. LogInit => LogInv
  <2> SUFFICES ASSUME LogInit PROVE LogInv
    OBVIOUS
  <2>1. Portal \in Files /\ <<>> \in Seq([line : Int, file : Files])
    BY DEF Files
  <2>2. LogTypeOK
    BY <2>1 DEF LogInit, LogTypeOK
  <2> QED BY <2>1, <2>2 DEF LogInit, LogInv, Cursors, Joined, Gapless, Slugs
<1>2. LogInv /\ [LogNext]_logVars => LogInv'
  BY LogTypeStep, CursorsStep, JoinedStep, GaplessStep DEF LogInv
<1>3. LogInv => NoGap
  <2> SUFFICES ASSUME LogInv, NEW c \in Sockets, socket[c] = "live",
                      OwnCursor(Followed(c)), start[Followed(c)] = 0,
                      NEW n \in owed[c] .. last[Followed(c)[2]]
               PROVE  \/ <<Followed(c), n>> \in got[c]
                      \/ [line |-> n, file |-> Followed(c)]
                             \in {sending[i] : i \in DOMAIN sending}
    BY DEF NoGap
  <2>1. Awaits(c, n) /\ backlog[c] = {}
    BY DEF LogInv, Gapless, Joined
  <2> QED BY <2>1 DEF Awaits
<1> QED BY <1>1, <1>2, <1>3, PTL DEF LogSpec
=============================================================================
