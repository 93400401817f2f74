------------------------------ MODULE MCAlerts ------------------------------
\* A small instance of Alerts for TLC.
EXTENDS Alerts
SomeWishes == {{}, {"trade"}}
=============================================================================
