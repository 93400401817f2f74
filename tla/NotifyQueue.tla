---------------------------- MODULE NotifyQueue ----------------------------
(***************************************************************************)
(* The engine's notification queue (core/trading_engine.py: _notify,       *)
(* _notify_worker, stop) and the SIGTERM handler that uses it              *)
(* (main_paper.py: _install_signal_handlers).                              *)
(*                                                                         *)
(* The main thread runs the tick loop, which notifies now and then.        *)
(* SIGTERM runs the handler on top of it, between two bytecodes: the tick  *)
(* loop's frame stands still, whatever it holds, and never goes on, since  *)
(* the handler ends in sys.exit.  A daemon worker sends what is queued.    *)
(*                                                                         *)
(* Notifications are numbered in the order in which _notify is called.     *)
(* queue.Queue is external: a bounded FIFO whose every call holds a        *)
(* mutex that is not reentrant.  task_done, which takes the same mutex     *)
(* once more, is folded into the call before it.                           *)
(***************************************************************************)
EXTENDS Notifier, Integers, Sequences

CONSTANTS
    Cap,        \* _notify_queue_max
    Threshold,  \* TICK_ERROR_PERSISTENT_THRESHOLD
    MaxItems    \* bound on the notifications of the tick loop

ASSUME QueueAssumption ==
    Cap \in Nat \ {0} /\ Threshold \in Nat \ {0} /\ MaxItems \in Nat

VARIABLES
    queue,      \* the queue's contents, oldest first
    mutex,      \* the frame that is inside the queue, or "free"
    frame,      \* the frame of the main thread that runs
    pc,         \* where each frame is
    item,       \* the notification each frame is placing
    minted,     \* notifications so far
    calls,      \* how often the handler has called _notify
    worker,     \* where the worker is
    hand,       \* what the worker has taken and not finished
    sent,       \* notifications the worker has sent, in order
    lost,       \* notifications dropped from a full queue
    pending,    \* _notify_drop_pending
    kinds,      \* the kind of each notification
    streak,     \* _consecutive_tick_errors
    latched,    \* _persistent_notify_sent
    alarm       \* the streak's error notification, or 0

frameVars  == <<frame, pc, item, minted, calls>>
tickVars   == <<notifier, kinds, streak, latched, alarm>>
workerVars == <<worker, hand, sent>>
queueVars == <<queue, mutex, frameVars, workerVars, lost, pending, tickVars>>

Frames == {"tick", "handler"}
Stop == 0       \* the sentinel, None

Goes(f, p) == pc' = [pc EXCEPT ![f] = p]

----------------------------------------------------------------------------
\* _notify in a frame of the main thread.

Calls(f, k) ==
    /\ minted' = minted + 1
    /\ item' = [item EXCEPT ![f] = minted + 1]
    /\ kinds' = Append(kinds, k)
    /\ Goes(f, "put")

Ticking == frame = "tick" /\ pc["tick"] = "run"

\* The tick opens, adds to, or closes a deal.
TickNotifies ==
    /\ Ticking /\ minted < MaxItems
    /\ Calls("tick", "trade")
    /\ UNCHANGED <<queue, mutex, frame, calls, workerVars, lost, pending,
                   notifier, streak, latched, alarm>>

\* Mutated: the latch stays.
TickWorks_latched ==
    /\ Ticking /\ streak > 0
    /\ streak' = 0 /\ alarm' = 0
    /\ UNCHANGED <<queue, mutex, frameVars, workerVars, lost, pending,
                   notifier, kinds, latched>>

\* The end of a tick nothing was raised in.
TickWorks ==
    /\ Ticking /\ streak > 0
    /\ streak' = 0 /\ latched' = FALSE /\ alarm' = 0
    /\ UNCHANGED <<queue, mutex, frameVars, workerVars, lost, pending, notifier, kinds>>

\* classify_exception: can a retry help?
Classified == BOOLEAN

\* Something was: reported at once if no retry can help, else when the
\* streak is long enough, and once per streak.  It counts to Threshold here.
TickRaises(transient) ==
    /\ Ticking
    /\ streak' = IF streak < Threshold THEN streak + 1 ELSE streak
    /\ IF ~latched /\ (~transient \/ streak' = Threshold)
       THEN /\ minted < MaxItems
            /\ latched' = TRUE /\ alarm' = minted + 1
            /\ Calls("tick", "error")
       ELSE UNCHANGED <<latched, alarm, pc, item, minted, kinds>>
    /\ UNCHANGED <<queue, mutex, frame, calls, workerVars, lost, pending, notifier>>

\* put_nowait or get_nowait acquires the mutex, unless somebody has it.
Enters(f) ==
    /\ frame = f /\ pc[f] \in {"put", "get"} /\ mutex = "free"
    /\ mutex' = f
    /\ Goes(f, IF pc[f] = "put" THEN "putting" ELSE "getting")
    /\ UNCHANGED <<queue, frame, item, minted, calls, workerVars, lost, pending, tickVars>>

\* put_nowait appends, or raises queue.Full.
Puts(f) ==
    /\ frame = f /\ pc[f] = "putting"
    /\ mutex' = "free"
    /\ IF Len(queue) < Cap
       THEN queue' = Append(queue, item[f]) /\ Goes(f, "run")
       ELSE UNCHANGED queue /\ Goes(f, "get")
    /\ UNCHANGED <<frame, item, minted, calls, workerVars, lost, pending, tickVars>>

\* get_nowait drops the oldest, or raises queue.Empty when the worker was
\* quicker; either way the put is tried again.
Gets(f) ==
    /\ frame = f /\ pc[f] = "getting"
    /\ mutex' = "free"
    /\ Goes(f, "put")
    /\ IF queue # <<>>
       THEN /\ queue' = Tail(queue)
            /\ lost' = lost \cup {Head(queue)}
            /\ pending' = TRUE
       ELSE UNCHANGED <<queue, lost, pending>>
    /\ UNCHANGED <<frame, item, minted, calls, workerVars, tickVars>>

----------------------------------------------------------------------------
\* SIGTERM.

\* The handler's frame is put on top of the tick loop's.
Sigterm ==
    /\ frame = "tick"
    /\ frame' = "handler"
    /\ UNCHANGED <<queue, mutex, pc, item, minted, calls, workerVars, lost, pending, tickVars>>

\* notify_stop, and in engine.stop() notify_shutdown.
HandlerNotifies ==
    /\ frame = "handler" /\ pc["handler"] = "run" /\ calls < 2
    /\ calls' = calls + 1
    /\ Calls("handler", IF calls = 0 THEN "stop" ELSE "shutdown")
    /\ UNCHANGED <<queue, mutex, frame, workerVars, lost, pending,
                   notifier, streak, latched, alarm>>

\* Mutated: no sentinel, as if the worker were to end by itself.
PutSentinel_waits ==
    /\ frame = "handler" /\ pc["handler"] = "run" /\ calls = 2
    /\ mutex = "free" /\ Len(queue) > Cap
    /\ queue' = Append(queue, Stop)
    /\ Goes("handler", "join")
    /\ UNCHANGED <<mutex, frame, item, minted, calls, workerVars, lost, pending, tickVars>>

\* put(None) waits, outside the mutex, until there is room.
PutSentinel ==
    /\ frame = "handler" /\ pc["handler"] = "run" /\ calls = 2
    /\ mutex = "free" /\ Len(queue) < Cap
    /\ queue' = Append(queue, Stop)
    /\ Goes("handler", "join")
    /\ UNCHANGED <<mutex, frame, item, minted, calls, workerVars, lost, pending, tickVars>>

\* join(timeout): the worker has ended, or 15 s are over; sys.exit.
Joins ==
    /\ frame = "handler" /\ pc["handler"] = "join"
    /\ Goes("handler", "exited")
    /\ UNCHANGED <<queue, mutex, frame, item, minted, calls, workerVars, lost, pending, tickVars>>

----------------------------------------------------------------------------
\* The worker, a daemon: it dies with the process.

Alive == pc["handler"] # "exited"

\* get: waits for the mutex and for an item.
Takes ==
    /\ Alive /\ worker = "wait" /\ mutex = "free" /\ queue # <<>>
    /\ queue' = Tail(queue)
    /\ IF Head(queue) = Stop
       THEN worker' = "done" /\ UNCHANGED hand
       ELSE worker' = "sending" /\ hand' = <<Head(queue)>>
    /\ UNCHANGED <<mutex, frameVars, sent, lost, pending, tickVars>>

\* Mutated: a call that raised is queued again.
Sends_requeues ==
    /\ Alive /\ worker = "sending"
    /\ hand' = <<>> /\ worker' = "wait"
    /\ IF Len(queue) < Cap /\ mutex = "free"
       THEN queue' = queue \o hand /\ UNCHANGED sent
       ELSE sent' = sent \o SentBy(kinds[hand[1]], hand[1]) /\ UNCHANGED queue
    /\ UNCHANGED <<mutex, frameVars, lost, pending, tickVars>>

\* The notifier's method returns, or raises and is logged.
Sends ==
    /\ Alive /\ worker = "sending"
    /\ sent' = sent \o SentBy(kinds[hand[1]], hand[1])
    /\ hand' = <<>>
    /\ worker' = IF pending /\ queue = <<>> THEN "recovered" ELSE "wait"
    /\ UNCHANGED <<queue, mutex, frameVars, lost, pending, tickVars>>

\* The summary line is logged, the latch cleared.
Recovers ==
    /\ Alive /\ worker = "recovered"
    /\ pending' = FALSE
    /\ worker' = "wait"
    /\ UNCHANGED <<queue, mutex, frameVars, hand, sent, lost, tickVars>>

----------------------------------------------------------------------------
QueueInit ==
    /\ queue = <<>> /\ mutex = "free"
    /\ frame = "tick"
    /\ pc = [f \in Frames |-> "run"]
    /\ item = [f \in Frames |-> 0]
    /\ minted = 0 /\ calls = 0
    /\ worker = "wait" /\ hand = <<>> /\ sent = <<>>
    /\ lost = {} /\ pending = FALSE
    /\ kinds = <<>> /\ streak = 0 /\ latched = FALSE /\ alarm = 0

Main == \/ \E f \in Frames : Enters(f) \/ Puts(f) \/ Gets(f)
        \/ HandlerNotifies \/ PutSentinel \/ Joins

Worker == Takes \/ Sends \/ Recovers

TickMoves == TickNotifies \/ TickWorks \/ \E t \in Classified : TickRaises(t)

QueueNext == TickMoves \/ Sigterm \/ Main \/ Worker

QueueSpec == QueueInit /\ NotifierInit /\ [][QueueNext]_queueVars

----------------------------------------------------------------------------
\* Properties.

Placing(f) == pc[f] \in {"put", "putting", "get", "getting"}

\* What reaches Telegram, is being sent and is queued is in the order of the
\* _notify calls, each notification once, whatever is dropped in between and
\* although the worker may empty the queue between put_nowait and get_nowait.
Pipeline == sent \o hand \o queue
InOrder ==
    \A i, j \in DOMAIN Pipeline :
        i < j /\ Pipeline[j] # Stop => Pipeline[i] < Pipeline[j]

\* When the worker has ended, the user has got every notification that was
\* not dropped and that the user may not mute or wishes to have, but for one
\* the tick loop was placing when SIGTERM came: notify_stop and
\* notify_shutdown are not lost behind the sentinel (stop()), and without a
\* chat nothing is sent.
Promised(k) == notifier.on /\ (k \in Safety \cup {"stop", "shutdown"} \cup notifier.wants)
Heard(n) == \E i \in DOMAIN sent : sent[i] = n
Drained ==
    worker = "done" =>
        \A n \in 1 .. minted :
            \/ n \in lost \/ (Heard(n) <=> Promised(kinds[n]))
            \/ Placing("tick") /\ item["tick"] = n

\* A SIGTERM that finds the tick loop outside the queue ends in an exit: the
\* handler's two notifications and its blocking put of the sentinel do not
\* wait for ever, however slow the worker (stop(), "gracefully").
StopCompletes == (frame = "handler" /\ mutex # "tick") ~> ~Alive

\* An outage that lasts is reported to a user with a chat, each outage anew,
\* unless it ends, the queue drops the report or the bot is stopped (_tick:
\* "a future streak can fire a fresh notification").
OutageHeard ==
    notifier.on /\ streak = Threshold
        ~> Heard(alarm) \/ alarm \in lost \/ streak < Threshold \/ frame = "handler"

=============================================================================
