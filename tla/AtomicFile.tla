----------------------------- MODULE AtomicFile -----------------------------
(***************************************************************************)
(* What a reader of a bot's state.json may rely on: whenever the file is   *)
(* there it holds one complete snapshot, and the deals in a later snapshot *)
(* are never older than those of an earlier one.                           *)
(***************************************************************************)
EXTENDS Integers

CONSTANT Nothing        \* there is no file (yet)

VARIABLE seen           \* the deals a reader would see: a version, or Nothing

Init == seen = Nothing

Replace == /\ seen' \in Nat
           /\ seen # Nothing => seen' >= seen

Spec == Init /\ [][Replace]_seen
=============================================================================
