------------------------------ MODULE MCVault ------------------------------
\* A small instance of Vault for TLC.
EXTENDS Vault, TLC
Symmetry == Permutations(Accounts) \cup Permutations(Rotators)
=============================================================================
