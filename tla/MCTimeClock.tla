----------------------------- MODULE MCTimeClock -----------------------------
(* TimeClock on small instances: short days, one shift.                    *)
EXTENDS TimeClock, TLC

\* A shift of two minutes, one of them break, in a day of four or less.
MCShift == [start |-> 0, end |-> 2, brk |-> 1, lunch |-> 0]

Symmetry == Permutations(Procs) \cup Permutations(Windows)
=============================================================================
