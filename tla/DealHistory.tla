---------------------------- MODULE DealHistory ----------------------------
(***************************************************************************)
(* What the books of one bot promise to whoever reads them: a deal is      *)
(* unknown, then open, then closed, never the other way round, and the     *)
(* profit or loss of a deal is part of the balance exactly while the deal  *)
(* is recorded as closed.  Several deals may move in one step, because a   *)
(* tick that opened and closed deals becomes visible as a single write.    *)
(***************************************************************************)
EXTENDS Integers

CONSTANT Deals          \* the deal ids the bot may ever mint

VARIABLES status,       \* status[d]: what the books say of deal d
          credited      \* credited[d]: times d's PnL is in the balance

vars == <<status, credited>>

Status == {"absent", "open", "closed"}

\* The only moves a deal can make.
Forward(old, new) ==
    \/ new = old
    \/ old = "absent"
    \/ old = "open" /\ new = "closed"

Credits(s) == [d \in Deals |-> IF s[d] = "closed" THEN 1 ELSE 0]

Init == /\ status = [d \in Deals |-> "absent"]
        /\ credited = Credits(status)

Move == /\ status' \in [Deals -> Status]
        /\ \A d \in Deals : Forward(status[d], status'[d])
        /\ credited' = Credits(status')

Spec == Init /\ [][Move]_vars
=============================================================================
