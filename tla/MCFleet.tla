------------------------------ MODULE MCFleet ------------------------------
\* A small instance of Fleet for TLC.
EXTENDS Fleet, TLC
Symmetry == Permutations(Slugs \ Started) \cup Permutations(Clients)
=============================================================================
