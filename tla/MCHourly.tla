------------------------------ MODULE MCHourly ------------------------------
\* A small instance of Hourly for TLC.
EXTENDS Hourly, TLC
Symmetry == Permutations(Accounts) \cup Permutations(Chats)
=============================================================================
