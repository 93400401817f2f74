-------------------------- MODULE BackgroundProofs --------------------------
(***************************************************************************)
(* Proofs about what goes on in the background: snapshots and chat links   *)
(* (Hourly, ChatLinks), for any accounts, chats, tickets and length of the *)
(* hour, and the portal's view of its bots (StateFeed), for any bots,      *)
(* clients and restarts.                                                   *)
(***************************************************************************)
EXTENDS Hourly, StateFeed, TLAPS

\* No ticket but the newest is good, and none that has linked a chat; the
\* webhook that is about to link has such a ticket in hand, and no portal
\* handler can make a newer one meanwhile.
LinkInv ==
    /\ minted \in Nat
    /\ tickets \in [Tickets -> [expires : Nat, used : BOOLEAN] \cup {None}]
    /\ posted \in SUBSET [ticket : Tickets, chat : Chats]
    /\ bound \in SUBSET Tickets
    /\ handling # None =>
           /\ handling \in [update : [ticket : Tickets, chat : Chats],
                            pc : {"link", "reply"}]
           /\ handling.pc = "link" =>
                  handling.update.ticket = minted /\ minted \notin bound
    /\ \A k \in Tickets : Unused(k) => k = minted /\ k \notin bound
    /\ \A k \in bound : k <= minted
    /\ ~misbound

\* Where the clock may be while the scheduler sleeps and works: past the
\* hours of the rows an account has, when it is to get another one.
HourInv ==
    /\ now \in Nat /\ target \in Nat
    /\ accounts \in SUBSET Accounts /\ todo \in SUBSET Accounts
    /\ taken \in [Accounts -> SUBSET Nat]
    /\ \A a \in Accounts : \A h \in taken[a] : h * Hour <= now
    /\ pc = "sleep" =>
           \A a \in Accounts : \A h \in taken[a] : (h + 1) * Hour <= target
    /\ pc = "woken" =>
           \A a \in Accounts : \A h \in taken[a] : (h + 1) * Hour <= now
    /\ pc = "batch" =>
           \A a \in todo : \A h \in taken[a] : (h + 1) * Hour <= now
    /\ ~doubled

\* The accounts the manual handler has still to capture have no row of the
\* last hour: the gate was open, and nobody else writes manual rows.
ManualInv ==
    /\ last \in [Accounts -> Nat \cup {None}]
    /\ batch # None =>
           /\ batch \in SUBSET Accounts
           /\ \A a \in batch : last[a] # None => last[a] + Hour <= now
    /\ ~hasty

HInv == LinkInv /\ HourInv /\ ManualInv

-----------------------------------------------------------------------------
\* An hour's number against the time.
LEMMA Hours ==
    ASSUME NEW n \in Nat
    PROVE  /\ n \div Hour \in Nat
           /\ (n \div Hour) * Hour <= n
           /\ n < ((n \div Hour) + 1) * Hour
  BY ChatLinksAssumption

\* Multiplication keeps the order.
LEMMA Monotone ==
    ASSUME NEW a \in Nat, NEW b \in Nat, NEW c \in Nat, a <= b
    PROVE  a * c <= b * c
<1> DEFINE d == b - a
<1>1. d \in Nat /\ b = a + d
  OBVIOUS
<1> HIDE DEF d
<1>2. b * c = a * c + d * c /\ d * c \in Nat /\ a * c \in Nat
  BY <1>1
<1> QED BY <1>2

\* The hour after that of a row is not past the next full hour.
LEMMA HourOrder ==
    ASSUME NEW n \in Nat, NEW h \in Nat, h * Hour <= n
    PROVE  (h + 1) * Hour <= ((n \div Hour) + 1) * Hour
<1> DEFINE q == n \div Hour
<1>1. Hour \in Nat \ {0}
  BY ChatLinksAssumption
<1>2. q \in Nat /\ n < (q + 1) * Hour
  BY Hours
<1> HIDE DEF q
<1>3. CASE h <= q
  BY <1>1, <1>2, <1>3, Monotone, h + 1 \in Nat, q + 1 \in Nat, h + 1 <= q + 1 DEF q
<1>4. CASE q + 1 <= h
  BY <1>1, <1>2, <1>4, Monotone, q + 1 \in Nat
<1> QED BY <1>2, <1>3, <1>4 DEF q

-----------------------------------------------------------------------------
\* The initial states satisfy the invariant.
LEMMA InitHolds == Init => HInv
<1> SUFFICES ASSUME Init PROVE HInv
  OBVIOUS
<1>1. LinkInv
  BY DEF Init, ChatInit, LinkInv, Unused, Tickets
<1>2. HourInv
  BY DEF Init, HourInv
<1>3. ManualInv
  BY DEF Init, ManualInv
<1> QED BY <1>1, <1>2, <1>3 DEF HInv

\* The steps of the link tickets keep LinkInv.
LEMMA LinkStep ==
    ASSUME LinkInv, now \in Nat, [Next]_vars
    PROVE  LinkInv'
<1> USE ChatLinksAssumption
<1>1. CASE UNCHANGED chatVars
  BY <1>1 DEF LinkInv, chatVars, Unused, Tickets
<1>2. CASE CreateLink
  <2>1. minted + 1 \in Tickets /\ minted' = minted + 1
    BY <1>2 DEF CreateLink, LinkInv, Tickets
  <2>2. /\ UNCHANGED <<posted, handling, bound, misbound>>
        /\ handling = None
        /\ tickets' = [k \in Tickets |->
                     IF k = minted + 1 THEN [expires |-> now + Hour, used |-> FALSE]
                     ELSE IF Unused(k) THEN None ELSE tickets[k]]
    BY <1>2 DEF CreateLink, PortalFree
  <2>3. tickets' \in [Tickets -> [expires : Nat, used : BOOLEAN] \cup {None}]
    BY <2>2 DEF LinkInv
  <2>4. minted + 1 \notin bound /\ \A k \in bound : k <= minted + 1
    <3>1. /\ minted \in Nat /\ bound \subseteq Tickets
          /\ \A k \in bound : k <= minted
      BY DEF LinkInv
    <3>2. ASSUME NEW k \in bound PROVE k <= minted + 1 /\ k # minted + 1
      <4>1. k \in Nat /\ k <= minted
        BY <3>1, <3>2 DEF Tickets
      <4> QED BY <3>1, <4>1
    <3> QED BY <3>2
  <2>5. \A k \in Tickets : Unused(k)' => k = minted + 1
    BY <2>2 DEF Unused
  <2> QED BY <2>1, <2>2, <2>3, <2>4, <2>5 DEF LinkInv, Tickets
<1>3. CASE \E m \in posted : WebhookReads(m)
  <2>1. PICK m \in posted : WebhookReads(m)
    BY <1>3
  <2>2. m \in [ticket : Tickets, chat : Chats]
    BY DEF LinkInv
  <2>3. handling' = [update |-> m,
                     pc |-> IF Unused(m.ticket) /\ tickets[m.ticket].expires > now
                            THEN "link" ELSE "reply"]
    BY <2>1 DEF WebhookReads
  <2>4. /\ handling' \in [update : [ticket : Tickets, chat : Chats],
                          pc : {"link", "reply"}]
        /\ handling'.update = m
        /\ handling'.pc = "link" => Unused(m.ticket)
    BY <2>2, <2>3
  <2>5. handling'.pc = "link" => m.ticket = minted /\ minted \notin bound
    BY <2>2, <2>4 DEF LinkInv
  <2>6. UNCHANGED <<tickets, minted, posted, bound, misbound>>
    BY <2>1 DEF WebhookReads
  <2> QED BY <2>4, <2>5, <2>6 DEF LinkInv, Unused, Tickets
<1>4. CASE WebhookLinks
  <2> DEFINE k == handling.update.ticket
  <2>1. /\ k \in Tickets /\ k = minted /\ k \notin bound
        /\ handling \in [update : [ticket : Tickets, chat : Chats],
                         pc : {"link", "reply"}]
    BY <1>4 DEF WebhookLinks, LinkInv
  <2>2. /\ handling' = [handling EXCEPT !.pc = "reply"]
        /\ tickets' = IF tickets[k] = None THEN tickets
                      ELSE [tickets EXCEPT ![k].used = TRUE]
        /\ bound' = bound \cup {k}
        /\ minted' = minted /\ posted' = posted
    BY <1>4 DEF WebhookLinks
  <2>3. misbound' = (misbound \/ k \in bound \/ k # minted)
    BY <1>4 DEF WebhookLinks
  <2>4. ~misbound'
    BY <2>1, <2>3, Zenon DEF LinkInv
  <2>5. /\ handling' \in [update : [ticket : Tickets, chat : Chats],
                          pc : {"link", "reply"}]
        /\ handling'.pc = "reply"
    BY <2>1, <2>2
  <2>6. /\ tickets' \in [Tickets -> [expires : Nat, used : BOOLEAN] \cup {None}]
        /\ \A j \in Tickets : Unused(j)' => Unused(j) /\ j # k
    BY <2>1, <2>2 DEF LinkInv, Unused
  <2>7. bound' \in SUBSET Tickets /\ \A j \in bound' : j <= minted'
    BY <2>1, <2>2 DEF LinkInv, Tickets
  <2>8. \A j \in Tickets : Unused(j)' => j = minted' /\ j \notin bound'
    BY <2>2, <2>6 DEF LinkInv
  <2>9. Tickets' = Tickets
    BY DEF Tickets
  <2> HIDE DEF k
  <2> QED BY <2>2, <2>4, <2>5, <2>6, <2>7, <2>8, <2>9 DEF LinkInv
<1>5. CASE WebhookReplies
  BY <1>5 DEF WebhookReplies, LinkInv, Unused, Tickets
<1>6. CASE PortalDies
  BY <1>6 DEF PortalDies, LinkInv, Unused, Tickets
<1>7. CASE Disconnect
  BY <1>7 DEF Disconnect, LinkInv, Unused, Tickets
<1>8. CASE ChatUser
  BY <1>8 DEF ChatUser, OpensLink, LinkInv, Unused, Tickets
<1>9. CASE BeginsBatch
  <2>1. /\ tickets' = Cleaned
        /\ UNCHANGED <<minted, posted, handling, bound, misbound>>
    BY <1>9 DEF BeginsBatch
  <2>2. tickets' \in [Tickets -> [expires : Nat, used : BOOLEAN] \cup {None}]
    BY <2>1 DEF Cleaned, LinkInv
  <2>3. \A k \in Tickets : Unused(k)' => Unused(k)
    BY <2>1 DEF Cleaned, Unused
  <2> QED BY <2>1, <2>2, <2>3 DEF LinkInv, Tickets
<1>10. \/ UNCHANGED chatVars \/ CreateLink \/ (\E m \in posted : WebhookReads(m))
       \/ WebhookLinks \/ WebhookReplies \/ PortalDies \/ Disconnect
       \/ ChatUser \/ BeginsBatch
  BY DEF Next, Scheduler, Portal, ChatPortal, vars, Boots, Sigterm, Crashes, Tick,
         Wakes, EndsBatch, LeavesSleep, Captures, Skips, AddsAccount, DeletesAccount,
         ManualBegins, ManualEnds, ManualCaptures, ManualSkips
<1> QED BY <1>1, <1>2, <1>3, <1>4, <1>5, <1>6, <1>7, <1>8, <1>9, <1>10

\* The steps of the scheduler and the clock keep HourInv.
LEMMA HourStep ==
    ASSUME HourInv, [Next]_vars
    PROVE  HourInv'
<1> USE ChatLinksAssumption
<1>1. CASE UNCHANGED <<now, accounts, schedVars>>
  BY <1>1 DEF HourInv, schedVars
<1>2. NextHour \in Nat /\ \A a \in Accounts : \A h \in taken[a] : (h + 1) * Hour <= NextHour
  <2>1. NextHour \in Nat
    BY Hours DEF HourInv, NextHour
  <2>2. ASSUME NEW a \in Accounts, NEW h \in taken[a]
        PROVE  (h + 1) * Hour <= NextHour
    <3>1. now \in Nat /\ h \in Nat /\ h * Hour <= now
      BY DEF HourInv
    <3> QED BY <3>1, HourOrder DEF NextHour
  <2> QED BY <2>1, <2>2
<1>3. CASE Boots
  BY <1>2, <1>3 DEF Boots, HourInv
<1>4. CASE Wakes
  <2>1. ASSUME NEW a \in Accounts, NEW h \in taken[a]
        PROVE  (h + 1) * Hour <= now
    <3>1. h \in Nat /\ (h + 1) * Hour \in Nat /\ (h + 1) * Hour <= target
      BY <1>4 DEF HourInv, Wakes
    <3> QED BY <1>4, <3>1 DEF HourInv, Wakes
  <2> QED BY <1>4, <2>1 DEF Wakes, HourInv
<1>5. CASE BeginsBatch
  BY <1>5 DEF BeginsBatch, HourInv
<1>6. CASE \E a \in Accounts : Captures(a)
  <2>1. PICK a \in Accounts : Captures(a)
    BY <1>6
  <2> DEFINE q == now \div Hour
  <2>2. q \in Nat /\ q * Hour <= now /\ now < (q + 1) * Hour
    BY Hours DEF HourInv
  <2>3. /\ pc = "batch" /\ pc' = "batch" /\ a \in todo /\ todo' = todo \ {a}
        /\ taken' = [taken EXCEPT ![a] = @ \cup {q}]
        /\ UNCHANGED <<now, accounts, target>>
    BY <2>1 DEF Captures, Insert
  <2>4. doubled' = (doubled \/ q \in taken[a])
    BY <2>1 DEF Captures, Insert
  <2> HIDE DEF q
  <2>5. q \notin taken[a]
    <3>1. q \in taken[a] => (q + 1) * Hour <= now
      BY <2>3 DEF HourInv
    <3> QED BY <2>2, <3>1 DEF HourInv
  <2>6. ~doubled'
    BY <2>4, <2>5, Zenon DEF HourInv
  <2>7. taken' \in [Accounts -> SUBSET Nat]
    BY <2>2, <2>3 DEF HourInv
  <2>8. \A b \in Accounts : \A h \in taken'[b] : h * Hour <= now
    BY <2>2, <2>3 DEF HourInv
  <2>9. \A b \in todo' : \A h \in taken'[b] : (h + 1) * Hour <= now
    BY <2>3 DEF HourInv
  <2> QED BY <2>3, <2>6, <2>7, <2>8, <2>9 DEF HourInv
<1>7. CASE \E a \in Accounts : Skips(a)
  BY <1>7 DEF Skips, HourInv
<1>8. CASE EndsBatch
  BY <1>2, <1>8 DEF EndsBatch, HourInv
<1>9. CASE LeavesSleep
  BY <1>9 DEF LeavesSleep, HourInv
<1>10. CASE Sigterm
  BY <1>10 DEF Sigterm, HourInv
<1>11. CASE Crashes
  BY <1>11 DEF Crashes, HourInv
<1>12. CASE \E a \in Accounts : AddsAccount(a)
  BY <1>12 DEF AddsAccount, HourInv, schedVars
<1>13. CASE \E a \in Accounts : DeletesAccount(a)
  <2>1. PICK a \in Accounts : DeletesAccount(a)
    BY <1>13
  <2>2. \A b \in Accounts : taken'[b] \subseteq taken[b]
    BY <2>1 DEF DeletesAccount, HourInv
  <2> QED BY <2>1, <2>2 DEF DeletesAccount, HourInv
<1>14. CASE Tick
  <2>1. now \in Nat /\ now' = now + 1 /\ UNCHANGED <<accounts, schedVars>>
    BY <1>14 DEF Tick, HourInv
  <2>2. ASSUME NEW a \in Accounts, NEW h \in taken[a]
        PROVE  /\ h * Hour <= now'
               /\ (h + 1) * Hour <= now => (h + 1) * Hour <= now'
    <3>1. h * Hour \in Nat /\ (h + 1) * Hour \in Nat /\ h * Hour <= now
      BY DEF HourInv
    <3> QED BY <2>1, <3>1
  <2> QED BY <2>1, <2>2 DEF HourInv, schedVars
<1>15. CASE UNCHANGED vars
  BY <1>15 DEF vars, HourInv, schedVars
<1>16. \/ UNCHANGED <<now, accounts, schedVars>> \/ Boots \/ Wakes \/ BeginsBatch
       \/ (\E a \in Accounts : Captures(a)) \/ (\E a \in Accounts : Skips(a))
       \/ EndsBatch \/ LeavesSleep \/ Sigterm \/ Crashes
       \/ (\E a \in Accounts : AddsAccount(a)) \/ (\E a \in Accounts : DeletesAccount(a))
       \/ Tick \/ UNCHANGED vars
  BY DEF Next, Scheduler, Portal, ChatPortal, ChatUser, CreateLink, Disconnect,
         PortalDies, WebhookReads, WebhookLinks, WebhookReplies, OpensLink,
         ManualBegins, ManualEnds, ManualCaptures, ManualSkips
<1> QED BY <1>1, <1>3, <1>4, <1>5, <1>6, <1>7, <1>8, <1>9, <1>10, <1>11, <1>12,
           <1>13, <1>14, <1>15, <1>16

\* The steps of the manual handler and the clock keep ManualInv.
LEMMA ManualStep ==
    ASSUME ManualInv, HourInv, [Next]_vars
    PROVE  ManualInv'
<1> USE ChatLinksAssumption
<1>1. CASE UNCHANGED <<now, manualVars>>
  BY <1>1 DEF ManualInv, manualVars
<1>2. CASE \E a \in Accounts : DeletesAccount(a)
  BY <1>2 DEF DeletesAccount, Free, ManualInv
<1>3. CASE ManualBegins
  BY <1>3 DEF ManualBegins, Allowed, ManualInv, HourInv
<1>4. CASE \E a \in Accounts : ManualCaptures(a)
  <2>1. PICK a \in Accounts : ManualCaptures(a)
    BY <1>4
  <2>2. /\ batch # None /\ a \in batch /\ batch' = batch \ {a}
        /\ last' = [last EXCEPT ![a] = now]
        /\ now' = now /\ now \in Nat
    BY <2>1 DEF ManualCaptures, HourInv
  <2>3. hasty' = (hasty \/ (last[a] # None /\ now - last[a] < Hour))
    BY <2>1 DEF ManualCaptures
  <2>4. ~(last[a] # None /\ now - last[a] < Hour)
    BY <2>2 DEF ManualInv
  <2>5. ~hasty'
    BY <2>3, <2>4, Zenon DEF ManualInv
  <2>6. last' \in [Accounts -> Nat \cup {None}]
    BY <2>2 DEF ManualInv
  <2>7. batch' \in SUBSET Accounts /\ \A b \in batch' : last'[b] # None => last'[b] + Hour <= now
    BY <2>2 DEF ManualInv
  <2> QED BY <2>2, <2>5, <2>6, <2>7 DEF ManualInv
<1>5. CASE \E a \in Accounts : ManualSkips(a)
  BY <1>5 DEF ManualSkips, ManualInv
<1>6. CASE ManualEnds
  BY <1>6 DEF ManualEnds, ManualInv
<1>7. CASE Tick
  <2>1. /\ now \in Nat /\ now' = now + 1
        /\ UNCHANGED <<batch, last, hasty>>
    BY <1>7 DEF Tick, HourInv, manualVars
  <2> QED BY <2>1 DEF ManualInv
<1>8. CASE UNCHANGED vars
  BY <1>8 DEF vars, ManualInv, manualVars
<1>9. \/ UNCHANGED <<now, manualVars>> \/ (\E a \in Accounts : DeletesAccount(a))
      \/ ManualBegins \/ (\E a \in Accounts : ManualCaptures(a))
      \/ (\E a \in Accounts : ManualSkips(a)) \/ ManualEnds \/ Tick \/ UNCHANGED vars
  BY DEF Next, Scheduler, Portal, ChatPortal, ChatUser, CreateLink, Disconnect,
         PortalDies, WebhookReads, WebhookLinks, WebhookReplies, OpensLink,
         Boots, Sigterm, Crashes, Wakes, BeginsBatch, EndsBatch, LeavesSleep,
         Captures, Skips, AddsAccount
<1> QED BY <1>1, <1>2, <1>3, <1>4, <1>5, <1>6, <1>7, <1>8, <1>9

-----------------------------------------------------------------------------
\* The invariant holds in every behaviour.
LEMMA Invariance == Spec => []HInv
<1>1. HInv /\ [Next]_vars => HInv'
  BY LinkStep, HourStep, ManualStep DEF HInv, HourInv
<1> QED BY <1>1, InitHolds, PTL DEF Spec

\* A chat is linked by the user's newest ticket alone, and once, whatever
\* links are opened, delivered again after the portal has died, or deleted by
\* the scheduler meanwhile (create_telegram_link, consume_link_token).
THEOREM LinkedByNewest == Spec => []LastLinkOnly
<1>1. HInv => LastLinkOnly
  BY DEF HInv, LinkInv, LastLinkOnly
<1> QED BY <1>1, Invariance, PTL

\* No account gets two automatic rows in one clock hour nor two manual rows
\* within an hour, however the scheduler is stopped, killed and started again
\* and however long a batch takes (_sleep_until_next_hour, manual_allowed).
THEOREM SnapshotsAreSpaced == Spec => []RowsSpaced
<1>1. HInv => RowsSpaced
  BY DEF HInv, HourInv, ManualInv, RowsSpaced
<1> QED BY <1>1, Invariance, PTL

-----------------------------------------------------------------------------
\* The inductive invariant of StateFeed.

Versions == {"v2", "v3"}
Frames == [ver : Nat, run : BOOLEAN]
StateFiles == [ver : Nat, run : BOOLEAN, stamp : Versions \cup {"none"},
               why : {"none", "silent_exit", "heartbeat_stale"}]

FeedTypeOK ==
    /\ proc \in [Bots -> {"up", "ending", "zombie", "off"}]
    /\ code \in [Bots -> Versions] /\ installed \in Versions /\ view \in Versions
    /\ file \in [Bots -> StateFiles]
    /\ portal \in {"boot", "up"} /\ walk \subseteq Bots
    /\ replacing \in Bots \cup {"none"}
    /\ seen \in [Bots -> Nat]
    /\ wpc \in {"idle", "bots", "read", "send", "sum"}
    /\ wbot \in Bots \cup {"none"} /\ wframe \in Frames
    /\ wpc \in {"read", "send"} <=> wbot # "none"
    /\ portal = "boot" => wpc = "idle"
    /\ conn \in [Clients -> {"off", "snap", "live"}]
    /\ ctodo \in [Clients -> SUBSET Bots]
    /\ shows \in [Clients -> [Bots -> Frames]]

\* Code and stamps are no newer than what is installed, and a stamp is no
\* newer than the process, so a stamp that is as new as the portal's view tells
\* that the process is.
Stamped ==
    /\ view \in {"v2", installed}
    /\ \A b \in Bots : /\ code[b] \in {"v2", installed}
                       /\ file[b].stamp \in {"none", "v2", code[b]}

\* A bot that the start-up is through with runs code that is new enough.
Renewed ==
    /\ portal = "up" => walk = {} /\ replacing = "none"
    /\ \A b \in Bots :
           b \notin walk /\ b # replacing /\ b \notin excused /\ proc[b] = "up"
               => code[b] \in {view, installed}

\* What is recorded as sent is no newer than the file; the frame the watcher
\* has in hand, and once it is sent any frame a client has of the bot, is no
\* older than the record and no newer than the file.
Recorded ==
    /\ \A b \in Bots : seen[b] <= file[b].ver
    /\ wpc = "send" => seen[wbot] <= wframe.ver /\ wframe.ver <= file[wbot].ver
    /\ \A c \in Clients : conn[c] = "live" => ctodo[c] = {}
    /\ \A c \in Clients, b \in Bots :
           conn[c] # "off" /\ b \notin ctodo[c] =>
               /\ shows[c][b].ver <= file[b].ver
               /\ wbot # b => seen[b] <= shows[c][b].ver

FeedInv == FeedTypeOK /\ Stamped /\ Renewed /\ Recorded

\* The actions by what they can change: a bot's process or file, the portal's
\* start-up, the watcher, a client's connection.
BotMoves(b) == Ticks(b) \/ Ages(b) \/ Starts(b) \/ Stops(b) \/ Exits(b) \/ BotCrashes(b)
Restarts == ReplaceStops \/ ReplaceStarts \/ ReplaceFails
ClientMoves(c) == Connects(c) \/ SnapsSum(c) \/ Leaves(c)

\* What the portal answers is a frame of the file as it is before it corrects
\* it, and the correction keeps types and stamps.
LEMMA Corrects ==
    ASSUME FeedTypeOK, NEW b \in Bots
    PROVE  /\ Answer(b) \in Frames /\ Answer(b).ver = file[b].ver
           /\ Reconciles(b) =>
                /\ file' \in [Bots -> StateFiles]
                /\ \A a \in Bots : /\ file'[a].stamp = file[a].stamp
                                   /\ file[a].ver <= file'[a].ver
<1>1. Answer(b) \in Frames /\ Answer(b).ver = file[b].ver
  BY DEF Answer, Frames, FeedTypeOK, StateFiles, SilentExit, Alive
<1>2. file \in [Bots -> StateFiles]
  BY DEF FeedTypeOK
<1>3. ASSUME NEW why \in {"silent_exit", "heartbeat_stale"},
             file' = [file EXCEPT ![b].ver = @ + 1, ![b].run = FALSE, ![b].why = why]
      PROVE  /\ file' \in [Bots -> StateFiles]
             /\ \A a \in Bots : /\ file'[a].stamp = file[a].stamp
                                /\ file[a].ver <= file'[a].ver
  <2>1. file'[b] = [file[b] EXCEPT !.ver = @ + 1, !.run = FALSE, !.why = why]
    BY <1>2, <1>3
  <2>2. file'[b] \in StateFiles /\ file'[b].stamp = file[b].stamp
        /\ file'[b].ver = file[b].ver + 1
    <3>1. file[b] \in StateFiles /\ file[b].ver + 1 \in Nat
      BY <1>2 DEF StateFiles
    <3>2. file'[b] = [ver |-> file[b].ver + 1, run |-> FALSE,
                      stamp |-> file[b].stamp, why |-> why]
      BY <2>1, <3>1 DEF StateFiles
    <3> QED BY <3>1, <3>2 DEF StateFiles
  <2>3. \A a \in Bots \ {b} : file'[a] = file[a]
    BY <1>2, <1>3
  <2>4. file' = [a \in Bots |-> file'[a]]
    BY <1>2, <1>3
  <2> QED BY <1>2, <2>2, <2>3, <2>4 DEF StateFiles
<1>4. Reconciles(b) => \/ file' = file
                       \/ \E why \in {"silent_exit", "heartbeat_stale"} :
                            file' = [file EXCEPT ![b].ver = @ + 1, ![b].run = FALSE,
                                                 ![b].why = why]
  BY DEF Reconciles
<1> QED BY <1>1, <1>2, <1>3, <1>4 DEF StateFiles

\* What a step of a bot's process does to it and to its file.
LEMMA BotMoved ==
    ASSUME FeedTypeOK, NEW b \in Bots,
           BotMoves(b) \/ (ReplaceStops /\ b = replacing)
    PROVE  /\ UNCHANGED <<installed, view, portal, walk, replacing, excused, watchVars, viewVars>>
           /\ \E p \in {"up", "ending", "zombie", "off"} : proc' = [proc EXCEPT ![b] = p]
           /\ \/ code' = code /\ (proc'[b] = "up" => proc[b] = "up")
              \/ code' = [code EXCEPT ![b] = installed]
           /\ \/ file' = file
              \/ file' = [file EXCEPT ![b] = [ver |-> @.ver + 1, run |-> TRUE,
                                              stamp |-> code[b], why |-> "none"]]
              \/ file' = [file EXCEPT ![b] = [ver |-> @.ver + 1, run |-> FALSE,
                                              stamp |-> @.stamp, why |-> @.why]]
  <1> USE DEF FeedTypeOK, StateFiles, bootVars, watchVars, viewVars, fileVars, procVars
  <1>1. CASE Ticks(b)
    BY <1>1 DEF Ticks
  <1>2. CASE Ages(b) \/ Exits(b) \/ BotCrashes(b)
    BY <1>2 DEF Ages, Exits, BotCrashes, ProcessMoves
  <1>3. CASE Starts(b)
    BY <1>3 DEF Starts, Spawns
  <1>4. CASE Stops(b) \/ (ReplaceStops /\ b = replacing)
    BY <1>4 DEF Stops, ReplaceStops, Ends
  <1> QED BY <1>1, <1>2, <1>3, <1>4 DEF BotMoves

\* Every step keeps the types.
LEMMA FeedTypeStep == FeedTypeOK /\ [StateNext]_stateVars => FeedTypeOK'
<1> SUFFICES ASSUME FeedTypeOK, [StateNext]_stateVars PROVE FeedTypeOK'
  OBVIOUS
<1> USE StateConstantsAssumption
<1>1. ASSUME NEW b \in Bots, BotMoves(b) \/ (ReplaceStops /\ b = replacing)
      PROVE  FeedTypeOK'
  <2>1. proc' \in [Bots -> {"up", "ending", "zombie", "off"}] /\ code' \in [Bots -> Versions]
    BY <1>1, BotMoved DEF FeedTypeOK
  <2>2. file' \in [Bots -> StateFiles]
    <3>1. /\ file \in [Bots -> StateFiles] /\ code[b] \in Versions
          /\ file[b].ver \in Nat /\ file[b].stamp \in Versions \cup {"none"}
          /\ file[b].why \in {"none", "silent_exit", "heartbeat_stale"}
      BY DEF FeedTypeOK, StateFiles
    <3>2. /\ [ver |-> file[b].ver + 1, run |-> TRUE, stamp |-> code[b],
              why |-> "none"] \in StateFiles
          /\ [ver |-> file[b].ver + 1, run |-> FALSE, stamp |-> file[b].stamp,
              why |-> file[b].why] \in StateFiles
      BY <3>1 DEF StateFiles
    <3>3. \A r \in StateFiles : [file EXCEPT ![b] = r] \in [Bots -> StateFiles]
      BY <3>1
    <3> QED BY <1>1, <3>1, <3>2, <3>3, BotMoved
  <2> QED BY <1>1, <2>1, <2>2, BotMoved DEF FeedTypeOK, watchVars, viewVars
<1>2. ASSUME NEW b \in Bots, Walks(b) PROVE FeedTypeOK'
  BY <1>2, Corrects DEF Walks, FeedTypeOK, procVars, watchVars, viewVars
<1>3. CASE ReplaceStops
  BY <1>1, <1>3 DEF ReplaceStops, FeedTypeOK
<1>4. CASE ReplaceStarts
  BY <1>4 DEF ReplaceStarts, Spawns, FeedTypeOK, fileVars, watchVars, viewVars
<1>15. CASE ReplaceFails \/ Deploys
  BY <1>15 DEF ReplaceFails, Deploys, Versions, FeedTypeOK, procVars, fileVars, bootVars,
               watchVars, viewVars
<1>16. CASE Collects
  BY <1>16 DEF Collects, Collected, ProcessMoves, FeedTypeOK, fileVars, bootVars,
               watchVars, viewVars
<1>5. CASE PortalRestarts
  BY <1>5 DEF PortalRestarts, Collected, NoFrames, NoFrame, FeedTypeOK, Frames, fileVars
<1>6. CASE Serves
  BY <1>6 DEF Serves, FeedTypeOK, procVars, fileVars, viewVars
<1>7. ASSUME NEW b \in Bots, WStats(b) PROVE FeedTypeOK'
  BY <1>7 DEF WStats, Becomes, FeedTypeOK, StateFiles, procVars, fileVars, bootVars, viewVars
<1>8. CASE WReads
  <2>1. CASE wbot \in Bots
    BY <1>8, <2>1, Corrects DEF WReads, Becomes, FeedTypeOK, procVars, bootVars, viewVars
  <2>2. CASE wbot \notin Bots
    BY <1>8, <2>2 DEF WReads, FeedTypeOK
  <2> QED BY <2>1, <2>2
<1>9. CASE WSends
  BY <1>9 DEF WSends, Becomes, Shown, NoFrame, Frames, FeedTypeOK, procVars, fileVars, bootVars
<1>10. CASE WSums \/ WSumSends
  BY <1>10 DEF WSums, WSumSends, Becomes, FeedTypeOK, procVars, fileVars, bootVars, viewVars
<1>11. ASSUME NEW b \in Bots, WSumReads(b) PROVE FeedTypeOK'
  BY <1>11, Corrects DEF WSumReads, FeedTypeOK, procVars, bootVars, viewVars
<1>12. ASSUME NEW c \in Clients, ClientMoves(c) PROVE FeedTypeOK'
  <2>1. /\ conn' \in [Clients -> {"off", "snap", "live"}]
        /\ ctodo' \in [Clients -> SUBSET Bots]
    <3>1. CASE Connects(c)
      BY <3>1 DEF Connects, FeedTypeOK
    <3>2. CASE SnapsSum(c) \/ Leaves(c)
      BY <3>2 DEF SnapsSum, Leaves, FeedTypeOK
    <3> QED BY <1>12, <3>1, <3>2 DEF ClientMoves
  <2>2. NoFrames \in [Bots -> Frames]
    BY DEF NoFrames, NoFrame, Frames
  <2>3. shows' \in [Clients -> [Bots -> Frames]]
    BY <1>12, <2>2 DEF ClientMoves, Connects, SnapsSum, Leaves, FeedTypeOK
  <2>4. UNCHANGED <<procVars, fileVars, bootVars, watchVars>>
    BY <1>12 DEF ClientMoves, Connects, SnapsSum, Leaves
  <2> QED BY <2>1, <2>3, <2>4 DEF FeedTypeOK, procVars, fileVars, bootVars, watchVars
<1>13. ASSUME NEW c \in Clients, NEW b \in Bots, Snaps(c, b) PROVE FeedTypeOK'
  <2>1. shows' \in [Clients -> [Bots -> Frames]]
    BY <1>13, Corrects DEF Snaps, FeedTypeOK
  <2> QED BY <1>13, <2>1, Corrects DEF Snaps, FeedTypeOK, procVars, bootVars, watchVars
<1>14. CASE UNCHANGED stateVars
  BY <1>14 DEF stateVars, FeedTypeOK, procVars, fileVars, bootVars, watchVars, viewVars
<1> QED BY <1>1, <1>2, <1>3, <1>4, <1>5, <1>6, <1>7, <1>8, <1>9, <1>10, <1>11, <1>12, <1>13, <1>14, <1>15, <1>16
        DEF StateNext, Watches, BotMoves, ClientMoves

\* The watcher and the sockets only look at the bots, but for the corrections.
LEMMA Looks ==
    ASSUME FeedTypeOK,
           \/ Watches \/ UNCHANGED stateVars
           \/ \E c \in Clients : ClientMoves(c) \/ \E b \in Bots : Snaps(c, b)
    PROVE  /\ UNCHANGED <<proc, code, installed, view, portal, walk, replacing, excused>>
           /\ \A a \in Bots : /\ file'[a].stamp = file[a].stamp
                              /\ file[a].ver <= file'[a].ver
<1> USE DEF procVars, bootVars
<1>1. ASSUME UNCHANGED <<procVars, fileVars, bootVars>>
      PROVE  /\ UNCHANGED <<proc, code, installed, view, portal, walk, replacing, excused>>
             /\ \A a \in Bots : /\ file'[a].stamp = file[a].stamp
                                /\ file[a].ver <= file'[a].ver
  BY <1>1 DEF fileVars, FeedTypeOK, StateFiles
<1>2. CASE WReads
  BY <1>2, StateConstantsAssumption, Corrects DEF WReads, FeedTypeOK
<1>3. ASSUME NEW b \in Bots, WSumReads(b) \/ (\E c \in Clients : Snaps(c, b))
      PROVE  /\ UNCHANGED <<proc, code, installed, view, portal, walk, replacing, excused>>
             /\ \A a \in Bots : /\ file'[a].stamp = file[a].stamp
                                /\ file[a].ver <= file'[a].ver
  BY <1>3, Corrects DEF WSumReads, Snaps
<1>4. CASE WSends \/ WSums \/ WSumSends \/ (\E b \in Bots : WStats(b))
  BY <1>1, <1>4 DEF WSends, WSums, WSumSends, WStats
<1>5. CASE \E c \in Clients : ClientMoves(c)
  BY <1>1, <1>5 DEF ClientMoves, Connects, SnapsSum, Leaves
<1>6. CASE UNCHANGED stateVars
  BY <1>1, <1>6 DEF stateVars
<1> QED BY <1>2, <1>3, <1>4, <1>5, <1>6 DEF Watches

\* Every step keeps code and stamps behind what is installed.
LEMMA StampedStep == FeedTypeOK /\ Stamped /\ [StateNext]_stateVars => Stamped'
<1> SUFFICES ASSUME FeedTypeOK, Stamped, [StateNext]_stateVars PROVE Stamped'
  OBVIOUS
<1> USE DEF Stamped, Versions
<1> /\ code \in [Bots -> Versions] /\ installed \in Versions /\ view \in Versions
    /\ file \in [Bots -> StateFiles]
  BY DEF FeedTypeOK
<1>1. ASSUME NEW b \in Bots, BotMoves(b) \/ (ReplaceStops /\ b = replacing)
      PROVE  Stamped'
  <2>1. UNCHANGED <<installed, view>>
    BY <1>1, BotMoved
  <2>2. \A a \in Bots : code'[a] = code[a] \/ code'[a] = installed
    BY <1>1, BotMoved
  <2>3. \A a \in Bots : file'[a].stamp = file[a].stamp \/ file'[a].stamp = code[a]
    <3>1. CASE file' = file
      BY <3>1
    <3>2. CASE file' # file
      BY <1>1, <3>2, BotMoved
    <3> QED BY <3>1, <3>2
  <2> QED BY <2>1, <2>2, <2>3
<1>2. ASSUME NEW b \in Bots, Walks(b) PROVE Stamped'
  BY <1>2, Corrects DEF Walks, procVars
<1>3. CASE ReplaceStarts
  BY <1>3 DEF ReplaceStarts, Spawns, fileVars
<1>4. CASE ReplaceFails \/ Collects \/ Serves
  BY <1>4 DEF ReplaceFails, Collects, ProcessMoves, Serves, procVars, fileVars, bootVars
<1>5. CASE Deploys
  BY <1>5 DEF Deploys, fileVars, bootVars
<1>6. CASE PortalRestarts
  BY <1>6 DEF PortalRestarts, fileVars
<1>7. CASE \/ Watches \/ UNCHANGED stateVars
           \/ \E c \in Clients : ClientMoves(c) \/ \E b \in Bots : Snaps(c, b)
  BY <1>7, Looks
<1>8. CASE ReplaceStops
  BY <1>1, <1>8 DEF ReplaceStops, FeedTypeOK
<1> QED BY <1>1, <1>2, <1>3, <1>4, <1>5, <1>6, <1>7, <1>8 DEF StateNext, BotMoves, ClientMoves

\* Every step keeps the running bots on code that is new enough.
LEMMA RenewedStep ==
    FeedTypeOK /\ Stamped /\ Stamped' /\ Renewed /\ [StateNext]_stateVars => Renewed'
<1> SUFFICES ASSUME FeedTypeOK, Stamped, Stamped', Renewed, [StateNext]_stateVars
             PROVE  Renewed'
  OBVIOUS
<1> USE StateConstantsAssumption DEF Renewed
<1> /\ code \in [Bots -> Versions] /\ installed \in Versions /\ view \in Versions
    /\ proc \in [Bots -> {"up", "ending", "zombie", "off"}]
    /\ replacing \in Bots \cup {"none"}
  BY DEF FeedTypeOK
<1>1. ASSUME NEW b \in Bots, BotMoves(b) \/ (ReplaceStops /\ b = replacing)
      PROVE  Renewed'
  <2>1. UNCHANGED <<installed, view, portal, walk, replacing, excused>>
    BY <1>1, BotMoved
  <2>2. \A a \in Bots : \/ code'[a] = installed
                        \/ code'[a] = code[a] /\ (proc'[a] = "up" => proc[a] = "up")
    BY <1>1, BotMoved
  <2> QED BY <2>1, <2>2
\* A bot that is passed over runs, by its stamp, what the portal runs.
<1>2. ASSUME NEW b \in Bots, Walks(b) PROVE Renewed'
  <2>1. /\ UNCHANGED <<proc, code, installed, view, portal>> /\ portal = "boot"
        /\ walk' = walk \ {b} /\ replacing = "none"
    BY <1>2 DEF Walks, procVars
  <2>2. \/ b \in excused'
        \/ excused' = excused /\ replacing' = b
        \/ /\ excused' = excused /\ replacing' = "none"
           /\ ~SilentExit(b) /\ ~NeedsRestart(b)
    BY <1>2 DEF Walks
  <2>3. excused \subseteq excused'
    BY <1>2 DEF Walks
  <2>4. ~SilentExit(b) /\ ~NeedsRestart(b) /\ proc[b] = "up" => code[b] \in {view, installed}
    BY DEF NeedsRestart, Answer, Alive, Stamped, FeedTypeOK, Versions
  <2> QED BY <2>1, <2>2, <2>3, <2>4
<1>3. CASE ReplaceStarts
  BY <1>3 DEF ReplaceStarts, Spawns
<1>4. CASE ReplaceFails \/ Serves
  BY <1>4 DEF ReplaceFails, Serves, procVars
<1>5. CASE Collects
  BY <1>5 DEF Collects, Collected, ProcessMoves, bootVars
<1>6. CASE Deploys
  BY <1>6 DEF Deploys, bootVars, Stamped, Versions
<1>7. CASE PortalRestarts
  BY <1>7 DEF PortalRestarts
<1>8. CASE \/ Watches \/ UNCHANGED stateVars
           \/ \E c \in Clients : ClientMoves(c) \/ \E b \in Bots : Snaps(c, b)
  BY <1>8, Looks
<1>9. CASE ReplaceStops
  BY <1>1, <1>9 DEF ReplaceStops
<1> QED BY <1>1, <1>2, <1>3, <1>4, <1>5, <1>6, <1>7, <1>8, <1>9 DEF StateNext, BotMoves, ClientMoves

\* Every step keeps records, frames and files in their order.
LEMMA RecordedStep ==
    FeedTypeOK /\ FeedTypeOK' /\ Recorded /\ [StateNext]_stateVars => Recorded'
<1> SUFFICES ASSUME FeedTypeOK, FeedTypeOK', Recorded, [StateNext]_stateVars
             PROVE  Recorded'
  OBVIOUS
<1> USE StateConstantsAssumption
<1> /\ \A b \in Bots : file[b].ver \in Nat /\ file'[b].ver \in Nat
    /\ seen \in [Bots -> Nat] /\ seen' \in [Bots -> Nat]
    /\ wframe.ver \in Nat /\ wframe'.ver \in Nat
    /\ shows \in [Clients -> [Bots -> Frames]] /\ shows' \in [Clients -> [Bots -> Frames]]
    /\ \A c \in Clients, b \in Bots : shows[c][b].ver \in Nat /\ shows'[c][b].ver \in Nat
    /\ conn \in [Clients -> {"off", "snap", "live"}] /\ ctodo \in [Clients -> SUBSET Bots]
    /\ wpc \in {"read", "send"} <=> wbot # "none"
    /\ wbot \in Bots \cup {"none"}
  BY DEF FeedTypeOK, StateFiles, Frames
\* A newer file is later than all that is recorded or shown.
<1>1. ASSUME UNCHANGED <<seen, wpc, wbot, wframe, conn, ctodo, shows>>,
             \A b \in Bots : file[b].ver <= file'[b].ver
      PROVE  Recorded'
  <2>1. \A b \in Bots : seen'[b] <= file'[b].ver
    BY <1>1 DEF Recorded
  <2>2. wpc' = "send" => seen'[wbot'] <= wframe'.ver /\ wframe'.ver <= file'[wbot'].ver
    BY <1>1 DEF Recorded
  <2>3. \A c \in Clients, b \in Bots :
           conn'[c] # "off" /\ b \notin ctodo'[c] =>
               /\ shows'[c][b].ver <= file'[b].ver
               /\ wbot' # b => seen'[b] <= shows'[c][b].ver
    BY <1>1 DEF Recorded
  <2> QED BY <1>1, <2>1, <2>2, <2>3 DEF Recorded
<1>2. ASSUME NEW b \in Bots, BotMoves(b) \/ (ReplaceStops /\ b = replacing)
      PROVE  Recorded'
  <2>1. UNCHANGED <<watchVars, viewVars>>
    BY <1>2, BotMoved
  <2>2. \A a \in Bots : file[a].ver <= file'[a].ver
    <3>1. CASE file' = file
      BY <3>1
    <3>2. CASE file' # file
      <4>1. file'[b].ver = file[b].ver + 1 /\ \A a \in Bots \ {b} : file'[a] = file[a]
        <5>1. PICK q : q.ver = file[b].ver + 1 /\ file' = [file EXCEPT ![b] = q]
          BY <1>2, <3>2, BotMoved, ZenonT(60)
        <5>2. file \in [Bots -> StateFiles]
          BY DEF FeedTypeOK
        <5> QED BY <5>1, <5>2
      <4>2. \A a \in Bots : file[a].ver \in Nat
        BY DEF FeedTypeOK, StateFiles
      <4>3. \A n \in Nat : n <= n + 1 /\ n <= n
        OBVIOUS
      <4> QED BY <4>1, <4>2, <4>3
    <3> QED BY <3>1, <3>2
  <2> QED BY <1>1, <2>1, <2>2 DEF watchVars, viewVars
<1>3. ASSUME NEW b \in Bots, Walks(b) \/ WSumReads(b) PROVE Recorded'
  <2>1. UNCHANGED <<seen, wpc, wbot, wframe, conn, ctodo, shows>> /\ Reconciles(b)
    BY <1>3 DEF Walks, WSumReads, watchVars, viewVars
  <2> QED BY <1>1, <2>1, Corrects
<1>4. CASE ReplaceStarts \/ ReplaceFails \/ Collects \/ Deploys \/ UNCHANGED stateVars
  <2>1. UNCHANGED <<seen, wpc, wbot, wframe, conn, ctodo, shows, file>>
    BY <1>4 DEF ReplaceStarts, ReplaceFails, Collects, ProcessMoves, Deploys, stateVars,
                fileVars, watchVars, viewVars
  <2> QED BY <1>1, <2>1
<1>5. CASE PortalRestarts
  BY <1>5 DEF PortalRestarts, Recorded, fileVars
<1>6. CASE Serves
  BY <1>6 DEF Serves, Recorded, fileVars, viewVars
\* The mtime is recorded before the read.
<1>7. ASSUME NEW b \in Bots, WStats(b) PROVE Recorded'
  <2>1. UNCHANGED <<file, wframe, conn, ctodo, shows>> /\ wpc = "bots"
    BY <1>7 DEF WStats, fileVars, viewVars
  <2>2. \/ UNCHANGED <<seen, wbot, wpc>>
        \/ seen' = [seen EXCEPT ![b] = file[b].ver] /\ wbot' = b /\ wpc' = "read"
    BY <1>7 DEF WStats, Becomes
  <2> QED BY <2>1, <2>2 DEF Recorded
<1>8. CASE WReads
  <2>1. /\ UNCHANGED <<seen, wbot, conn, ctodo, shows>> /\ wbot \in Bots
        /\ wpc' = "send" /\ wframe' = Answer(wbot) /\ Reconciles(wbot)
    BY <1>8 DEF WReads, Becomes, viewVars
  <2>2. wframe'.ver = file[wbot].ver /\ \A a \in Bots : file[a].ver <= file'[a].ver
    BY <2>1, Corrects
  <2> QED BY <2>1, <2>2 DEF Recorded
\* Every client connected gets the frame.
<1>9. CASE WSends
  <2>1. /\ UNCHANGED <<seen, file, conn, ctodo>> /\ wbot \in Bots /\ wpc = "send"
        /\ wpc' = "bots" /\ wbot' = "none"
    BY <1>9 DEF WSends, Becomes, fileVars
  <2>2. \A c \in Clients : conn[c] # "off" => shows'[c] = [shows[c] EXCEPT ![wbot] = wframe]
    BY <1>9 DEF WSends, Shown, Members
  <2> QED BY <2>1, <2>2 DEF Recorded
<1>10. CASE WSums \/ WSumSends
  <2>1. /\ UNCHANGED <<seen, file, wbot, wframe, conn, ctodo, shows>>
        /\ wpc \in {"bots", "sum"} /\ wpc' \in {"bots", "sum"}
    BY <1>10 DEF WSums, WSumSends, Becomes, fileVars, viewVars
  <2> QED BY <2>1 DEF Recorded
<1>11. ASSUME NEW c \in Clients, ClientMoves(c) PROVE Recorded'
  <2>1. UNCHANGED <<seen, wpc, wbot, wframe, file>>
    BY <1>11 DEF ClientMoves, Connects, SnapsSum, Leaves, watchVars, fileVars
  <2>2. \/ /\ conn' = [conn EXCEPT ![c] = "snap"] /\ ctodo' = [ctodo EXCEPT ![c] = Bots]
           /\ shows' = shows
        \/ /\ conn[c] = "snap" /\ ctodo[c] = {} /\ conn' = [conn EXCEPT ![c] = "live"]
           /\ UNCHANGED <<ctodo, shows>>
        \/ /\ conn' = [conn EXCEPT ![c] = "off"] /\ ctodo' = [ctodo EXCEPT ![c] = {}]
           /\ shows' = [shows EXCEPT ![c] = NoFrames]
    BY <1>11 DEF ClientMoves, Connects, SnapsSum, Leaves
  <2> QED BY <2>1, <2>2 DEF Recorded
<1>12. ASSUME NEW c \in Clients, NEW b \in Bots, Snaps(c, b) PROVE Recorded'
  <2>1. /\ UNCHANGED <<seen, wpc, wbot, wframe, conn>> /\ conn[c] = "snap"
        /\ ctodo' = [ctodo EXCEPT ![c] = @ \ {b}]
        /\ shows' = [shows EXCEPT ![c][b] = Answer(b)]
    BY <1>12 DEF Snaps, watchVars
  <2>2. Answer(b).ver = file[b].ver /\ \A a \in Bots : file[a].ver <= file'[a].ver
    BY <1>12, Corrects DEF Snaps
  <2>3. \A d \in Clients, a \in Bots :
            shows'[d][a] = IF d = c /\ a = b THEN Answer(b) ELSE shows[d][a]
    BY <2>1
  <2> QED BY <2>1, <2>2, <2>3, SMTT(60) DEF Recorded
<1> QED BY <1>2, <1>3, <1>4, <1>5, <1>6, <1>7, <1>8, <1>9, <1>10, <1>11, <1>12
        DEF StateNext, Watches, BotMoves, ClientMoves, ReplaceStops, FeedTypeOK

\* The invariant holds in every reachable state.
LEMMA FeedInvariance == StateSpec => []FeedInv
<1>1. StateInit => FeedInv
  <2> SUFFICES ASSUME StateInit PROVE FeedInv
    OBVIOUS
  <2>1. FeedTypeOK
    <3>1. NoFile \in StateFiles /\ [ver |-> 1, run |-> TRUE, stamp |-> "v2", why |-> "none"] \in StateFiles
      BY DEF NoFile, StateFiles, Versions
    <3>2. file \in [Bots -> StateFiles]
      BY <3>1 DEF StateInit
    <3>3. NoFrame \in Frames /\ NoFrames \in [Bots -> Frames]
      BY DEF NoFrame, NoFrames, Frames
    <3> QED BY <3>2, <3>3 DEF StateInit, FeedTypeOK, Versions
  <2>2. Stamped /\ Renewed
    BY DEF StateInit, Stamped, Renewed, NoFile
  <2>3. Recorded
    BY <2>1 DEF StateInit, Recorded, FeedTypeOK, StateFiles
  <2> QED BY <2>1, <2>2, <2>3 DEF FeedInv
<1>2. FeedInv /\ [StateNext]_stateVars => FeedInv'
  BY FeedTypeStep, StampedStep, RenewedStep, RecordedStep DEF FeedInv
<1> QED BY <1>1, <1>2, PTL DEF StateSpec

\* A browser past its snapshot shows what the watcher has recorded as sent,
\* when the file still has it (watch_state_files, ws_state).
THEOREM BrowsersSettle == StateSpec => []Settled
<1>1. FeedInv => Settled
  <2> SUFFICES ASSUME FeedInv, NEW c \in Clients, NEW b \in Bots,
                      conn[c] = "live", seen[b] = file[b].ver, wbot # b
               PROVE  shows[c][b].ver = file[b].ver
    BY DEF Settled
  <2>1. seen[b] <= shows[c][b].ver /\ shows[c][b].ver <= file[b].ver
    BY DEF FeedInv, Recorded
  <2>2. file[b].ver \in Nat /\ shows[c][b].ver \in Nat
    BY DEF FeedInv, FeedTypeOK, StateFiles, Frames
  <2> QED BY <2>1, <2>2
<1> QED BY <1>1, FeedInvariance, PTL

\* Past the start-up a bot runs the code the portal started with, or newer,
\* unless its restart failed or it was taken for dead
\* (_reconcile_bot_states_on_startup, _attempt_bot_auto_restart).
THEOREM BotsAreRenewed == StateSpec => []NewCode
<1>1. FeedInv => NewCode
  BY StateConstantsAssumption DEF FeedInv, Renewed, NewCode
<1> QED BY <1>1, FeedInvariance, PTL
=============================================================================
