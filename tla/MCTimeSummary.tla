---------------------------- MODULE MCTimeSummary ----------------------------
(* A day shift and one that ends after midnight, in days of DayLen ticks.  *)
EXTENDS TimeEntry

MCShifts == {[start |-> 0, end |-> 4, brk |-> 1, lunch |-> 1],
             [start |-> 4, end |-> 2, brk |-> 1, lunch |-> 0]}
=============================================================================
