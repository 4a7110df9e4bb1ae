---------------------------- MODULE MCConnTiming ----------------------------
EXTENDS ConnTiming

\* The shortest interval, 7.5 ms, and timeouts of a few intervals.
MCParams == {[interval |-> 6, timeout |-> 1], [interval |-> 7, timeout |-> 2]}
=============================================================================
