----------------------------- MODULE ChatLinks -----------------------------
(***************************************************************************)
(* How a user's Telegram chat is linked (core/telegram_config_store.py,    *)
(* web/routes/telegram.py, web/routes/telegram_webhook.py): the portal     *)
(* mints a one-time ticket, the user opens it in a chat, Telegram delivers *)
(* the /start to the webhook until it is answered 200.                     *)
(*                                                                         *)
(* The portal's handlers do not await, so none interleaves with another;   *)
(* the portal may die inside the webhook, and the scheduler's process      *)
(* deletes tickets whenever it likes.  One user; which events the user     *)
(* wants is left out.                                                      *)
(***************************************************************************)
EXTENDS Naturals, FiniteSets

CONSTANTS
    Chats, None,
    Hour,       \* the life of a ticket, and the scheduler's period
    MaxTickets, \* bound on the tickets ever minted
    MaxPosts    \* bound on the updates Telegram holds at a time

ASSUME ChatLinksAssumption ==
    /\ Hour \in Nat \ {0} /\ MaxTickets \in Nat /\ MaxPosts \in Nat
    /\ None \notin Chats

VARIABLES
    now,
    tickets,    \* telegram_link_tokens: ticket -> [expires, used] or None
    minted,     \* the last ticket minted
    chat,       \* telegram_configs: the user's chat or None
    posted,     \* the updates Telegram has no 200 for: [ticket, chat]
    handling,   \* the webhook's update, past its SELECT, or committed
    bound,      \* tickets that have linked a chat
    misbound    \* a ticket has linked that was spent or replaced

chatVars == <<tickets, minted, chat, posted, handling, bound, misbound>>

Tickets == 1 .. MaxTickets
Unused(k) == tickets[k] # None /\ ~tickets[k].used
PortalFree == handling = None

----------------------------------------------------------------------------
\* Mutated: the tickets still in flight are kept.
CreateLink_keepsOld ==
    /\ PortalFree /\ minted < MaxTickets
    /\ minted' = minted + 1
    /\ tickets' = [tickets EXCEPT ![minted + 1] = [expires |-> now + Hour, used |-> FALSE]]
    /\ UNCHANGED <<now, chat, posted, handling, bound, misbound>>

\* POST /api/telegram/link: the user's unused tickets go, a new one comes.
CreateLink ==
    /\ PortalFree /\ minted < MaxTickets
    /\ minted' = minted + 1
    /\ tickets' = [k \in Tickets |->
                     IF k = minted + 1 THEN [expires |-> now + Hour, used |-> FALSE]
                     ELSE IF Unused(k) THEN None ELSE tickets[k]]
    /\ UNCHANGED <<now, chat, posted, handling, bound, misbound>>

\* The user opens a link, an old one perhaps, in one of the chats (external).
OpensLink(k, c) ==
    /\ k <= minted /\ Cardinality(posted) < MaxPosts
    /\ posted' = posted \cup {[ticket |-> k, chat |-> c]}
    /\ UNCHANGED <<now, tickets, minted, chat, handling, bound, misbound>>

\* The webhook has read the ticket: it goes on when it is good.
WebhookReads(m) ==
    /\ PortalFree /\ m \in posted
    /\ handling' = [update |-> m,
                    pc |-> IF Unused(m.ticket) /\ tickets[m.ticket].expires > now
                           THEN "link" ELSE "reply"]
    /\ UNCHANGED <<now, tickets, minted, chat, posted, bound, misbound>>

\* One transaction: the ticket is marked, the chat written.  The UPDATE does
\* not look whether the row is still there.
WebhookLinks ==
    /\ handling # None /\ handling.pc = "link"
    /\ LET k == handling.update.ticket
       IN /\ tickets' = IF tickets[k] = None THEN tickets
                        ELSE [tickets EXCEPT ![k].used = TRUE]
          /\ chat' = handling.update.chat
          /\ bound' = bound \cup {k}
          /\ misbound' = (misbound \/ k \in bound \/ k # minted)
    /\ handling' = [handling EXCEPT !.pc = "reply"]
    /\ UNCHANGED <<now, minted, posted>>

\* The reply is sent, or fails; Telegram gets its 200 either way.
WebhookReplies ==
    /\ handling # None /\ handling.pc = "reply"
    /\ posted' = posted \ {handling.update}
    /\ handling' = None
    /\ UNCHANGED <<now, tickets, minted, chat, bound, misbound>>

\* The portal dies inside the webhook: the update will be delivered again.
PortalDies ==
    /\ ~PortalFree
    /\ handling' = None
    /\ UNCHANGED <<now, tickets, minted, chat, posted, bound, misbound>>

\* DELETE /api/telegram/config: tickets stay.
Disconnect ==
    /\ PortalFree /\ chat # None
    /\ chat' = None
    /\ UNCHANGED <<now, tickets, minted, posted, handling, bound, misbound>>

\* cleanup_expired_tokens, in the scheduler's process.
Cleaned == [k \in Tickets |-> IF tickets[k] # None /\ tickets[k].expires < now
                              THEN None ELSE tickets[k]]

----------------------------------------------------------------------------
ChatInit ==
    /\ tickets = [k \in Tickets |-> None]
    /\ minted = 0 /\ chat = None /\ posted = {} /\ handling = None
    /\ bound = {} /\ misbound = FALSE

ChatPortal ==
    \/ CreateLink \/ Disconnect \/ PortalDies
    \/ \E m \in posted : WebhookReads(m)
    \/ WebhookLinks \/ WebhookReplies
ChatUser == \E k \in Tickets, c \in Chats : OpensLink(k, c)

----------------------------------------------------------------------------
\* "There is only ever one outstanding link per user" (create_telegram_link),
\* "single-use" (consume_link_token): a chat is linked by the user's newest
\* ticket alone, and once, though links are opened late and twice, in
\* different chats, and delivered again after the portal has died.
LastLinkOnly == ~misbound
=============================================================================
