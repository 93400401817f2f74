---------------------------- MODULE MCDealBooks ----------------------------
\* A small instance of DealBooks for TLC.
EXTENDS DealBooks

AllFaults == FaultKinds
=============================================================================
