------------------------------ MODULE Breaker ------------------------------
(***************************************************************************)
(* The circuit breaker around the public market data of one exchange       *)
(* (core/circuit_breaker.py, exchanges/public_exchange.py), as the portal  *)
(* uses it: each chart request makes its call in a worker thread, with no  *)
(* lock around it.                                                         *)
(*                                                                         *)
(* The interpreter switches threads at calls.  Between two calls the       *)
(* breaker's statements are one step: the count and its test, the latch    *)
(* and its test.  time.time(), a logger and the exchange are calls.        *)
(*                                                                         *)
(* reset() has no caller outside the tests and is left out.                *)
(***************************************************************************)
EXTENDS Integers, FiniteSets

CONSTANTS
    Threads, Null,
    Threshold,  \* failure_threshold
    Cooldown,   \* cooldown_seconds
    MaxClock    \* bound on the wall clock, which does not step back

ASSUME BreakerAssumption ==
    /\ Threshold \in Nat \ {0} /\ Cooldown \in Nat \ {0} /\ MaxClock \in Nat
    /\ Null \notin Threads /\ Null \notin Int

VARIABLES
    clock,
    failures,   \* _failure_count
    openedAt,   \* _opened_at
    latched,    \* _permanent_open
    pc,         \* where each thread is in get_ohlcv
    read,       \* the time it has read
    outcome,    \* what its call came to
    fired,      \* how often on_permanent_open has run
    condemned,  \* an error that is permanent has been recorded
    askedLate   \* threads that asked is_open after that

fields == <<failures, openedAt, latched>>
locals == <<pc, read, outcome>>
verdicts == <<fired, condemned, askedLate>>
breakerVars == <<fields, locals, verdicts>>

To(t, p) == pc' = [pc EXCEPT ![t] = p]
Ends(t, o) == To(t, "ended") /\ outcome' = [outcome EXCEPT ![t] = o]
Forgets(t) == read' = [read EXCEPT ![t] = 0]

----------------------------------------------------------------------------
\* is_open.

\* Latched: CircuitOpenError.  Closed: the call is made.  Otherwise the time
\* is read, which is where another thread may run.
IsOpen(t) ==
    /\ pc[t] = "ask"
    /\ askedLate' = IF condemned THEN askedLate \cup {t} ELSE askedLate \ {t}
    /\ \/ latched /\ Ends(t, "open") /\ UNCHANGED read
       \/ ~latched /\ openedAt = Null /\ To(t, "call") /\ UNCHANGED <<read, outcome>>
       \/ /\ ~latched /\ openedAt # Null
          /\ To(t, "aged")
          /\ read' = [read EXCEPT ![t] = clock]
          /\ UNCHANGED outcome
    /\ UNCHANGED <<fields, fired, condemned>>

\* The subtraction: a TypeError when the stamp has been cleared meanwhile,
\* else open, or half open from here on.
Aged(t) ==
    /\ pc[t] = "aged"
    /\ \/ openedAt = Null /\ Ends(t, "crashed") /\ UNCHANGED fields
       \/ /\ openedAt # Null /\ read[t] - openedAt < Cooldown
          /\ Ends(t, "open") /\ UNCHANGED fields
       \/ /\ openedAt # Null /\ read[t] - openedAt >= Cooldown
          /\ openedAt' = Null /\ failures' = 0
          /\ To(t, "call")
          /\ UNCHANGED <<latched, outcome>>
    /\ Forgets(t)
    /\ UNCHANGED <<fired, condemned, askedLate>>

----------------------------------------------------------------------------
\* The exchange answers (external), and the verdict is recorded.

\* record_success: with a count to clear it logs first.
Succeeds(t) ==
    /\ pc[t] = "call"
    /\ IF failures = 0 THEN Ends(t, "ok") ELSE To(t, "clear") /\ UNCHANGED outcome
    /\ UNCHANGED <<fields, read, fired, condemned, askedLate>>

Clears(t) ==
    /\ pc[t] = "clear"
    /\ failures' = 0
    /\ Ends(t, "ok")
    /\ UNCHANGED <<openedAt, latched, read, verdicts>>

\* Any error but the permanent ones: counted; at the threshold the thread
\* goes on to read the time for the stamp.
FailsTransiently(t) ==
    /\ pc[t] = "call"
    /\ failures' = failures + 1
    /\ IF openedAt = Null /\ failures + 1 >= Threshold
       THEN To(t, "stamp") /\ UNCHANGED outcome
       ELSE Ends(t, "unavailable")
    /\ UNCHANGED <<openedAt, latched, read, fired, condemned, askedLate>>

Stamps(t) ==
    /\ pc[t] = "stamp"
    /\ openedAt' = clock
    /\ Ends(t, "unavailable")
    /\ UNCHANGED <<failures, latched, read, verdicts>>

\* Mutated: every permanent error stamps and notifies.
FailsPermanently_again(t) ==
    /\ pc[t] = "call"
    /\ condemned' = TRUE
    /\ latched' = TRUE /\ To(t, "stampForGood")
    /\ UNCHANGED <<failures, openedAt, read, outcome, fired, askedLate>>

\* AuthenticationError or BadSymbol: _enter_permanent_open, idempotent.
FailsPermanently(t) ==
    /\ pc[t] = "call"
    /\ condemned' = TRUE
    /\ IF latched THEN Ends(t, "refused") /\ UNCHANGED latched
       ELSE latched' = TRUE /\ To(t, "stampForGood") /\ UNCHANGED outcome
    /\ UNCHANGED <<failures, openedAt, read, fired, askedLate>>

StampsForGood(t) ==
    /\ pc[t] = "stampForGood"
    /\ openedAt' = clock
    /\ To(t, "notify")
    /\ UNCHANGED <<failures, latched, read, outcome, verdicts>>

\* The callback: the live provider tells every connected user, or the log.
Notifies(t) ==
    /\ pc[t] = "notify"
    /\ fired' = fired + 1
    /\ Ends(t, "refused")
    /\ UNCHANGED <<fields, read, condemned, askedLate>>

----------------------------------------------------------------------------
BreakerInit ==
    /\ failures = 0 /\ openedAt = Null /\ latched = FALSE
    /\ pc = [t \in Threads |-> "idle"]
    /\ read = [t \in Threads |-> 0]
    /\ outcome = [t \in Threads |-> "none"]
    /\ fired = 0 /\ condemned = FALSE /\ askedLate = {}

BreakerStep(t) ==
    \/ IsOpen(t) \/ Aged(t)
    \/ Succeeds(t) \/ Clears(t)
    \/ FailsTransiently(t) \/ Stamps(t)
    \/ FailsPermanently(t) \/ StampsForGood(t) \/ Notifies(t)

----------------------------------------------------------------------------
\* Properties.

\* "Survives cooldown elapse + accidental success" (circuit_breaker.py): a
\* call that asked after a permanent error was recorded never reaches the
\* exchange, whatever the calls already under way come to, and the operator
\* is told of the latch once, not once per failing call.
LatchedForGood ==
    /\ \A t \in askedLate : pc[t] \notin {"call", "clear", "stamp"}
    /\ fired <= 1
    /\ condemned => \/ fired = 1
                    \/ \E t \in Threads : pc[t] \in {"stampForGood", "notify"}

=============================================================================
