---------------------------- MODULE MCStateFile ----------------------------
\* A small instance of StateFile for TLC.
EXTENDS StateFile

AnyKill == {"engine", "portal"}
=============================================================================
