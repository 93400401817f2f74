---------------------------- MODULE MCTickGuards ----------------------------
\* A small instance of TickGuards for TLC: a peak of 10 or 20 and readings
\* that are just within, just at and well past a drawdown of 10 percent.
EXTENDS TickGuards

Readings == {8, 9, 10, 18, 19, 20}
=============================================================================
