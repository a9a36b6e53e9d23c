------------------------------ MODULE TimeSheet ------------------------------
(***************************************************************************)
(* What the time clock promises one employee: at most one entry is running *)
(* at a time, a day is worked once, and a break of each kind is either on  *)
(* or off while an entry runs.                                             *)
(***************************************************************************)
CONSTANTS Days, Kinds, NoDay

VARIABLES
    running,    \* the day of the running entry, or NoDay
    closed,     \* days whose entry is checked out
    pausing     \* kinds of break that are on

sheet == <<running, closed, pausing>>

Init == running = NoDay /\ closed = {} /\ pausing = {}

CheckIn(d) ==
    /\ running = NoDay
    /\ d \notin closed
    /\ running' = d
    /\ UNCHANGED <<closed, pausing>>

CheckOut ==
    /\ running # NoDay
    /\ closed' = closed \cup {running}
    /\ running' = NoDay
    /\ pausing' = {}

StartBreak(k) ==
    /\ running # NoDay
    /\ k \notin pausing
    /\ pausing' = pausing \cup {k}
    /\ UNCHANGED <<running, closed>>

EndBreak(k) ==
    /\ k \in pausing
    /\ pausing' = pausing \ {k}
    /\ UNCHANGED <<running, closed>>

Next ==
    \/ \E d \in Days : CheckIn(d)
    \/ CheckOut
    \/ \E k \in Kinds : StartBreak(k) \/ EndBreak(k)

Spec == Init /\ [][Next]_sheet
=============================================================================
