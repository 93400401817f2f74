------------------------------ MODULE MCCharts ------------------------------
\* A small instance of Charts for TLC: ten bars, one of them missing and
\* the last one open, in pages of two.
EXTENDS Charts
MCListed == 0 .. 9 \ {3}
=============================================================================
