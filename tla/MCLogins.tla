------------------------------ MODULE MCLogins ------------------------------
\* A small instance of Logins for TLC: the admin with two browsers.
EXTENDS Logins, TLC
Symmetry == Permutations(Browsers)
=============================================================================
