---------------------------- MODULE MCReadouts ----------------------------
\* Readouts for TLC: two ticks and two spans that give 1, 2 and 4 points for
\* a buffer of 2.
EXTENDS Entries

MCTicks == <<1, 2>>
MCSpans == <<1, 4>>
\* -0.015, 0.003 and 0.007: the last two are one point on the chart.
MCValues == {-15, 3, 7}
=============================================================================
