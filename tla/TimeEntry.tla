------------------------------ MODULE TimeEntry ------------------------------
(***************************************************************************)
(* What summarize_entry promises: its arithmetic (TimeSummary) against a   *)
(* reference that counts ticks one by one, for an entry of day 0 that is   *)
(* checked in and out, with closed break windows that are disjoint and     *)
(* inside the entry.  There is nothing to do but to look at an entry.      *)
(***************************************************************************)
EXTENDS TimeSummary, FiniteSets

CONSTANTS
    MaxTick,    \* last tick an entry may reach
    MaxWindows, \* windows an entry may have
    Shifts      \* shifts of an account: ticks of the day, minutes allowed

ASSUME EntryAssumption ==
    /\ MaxTick \in Nat /\ MaxWindows \in Nat
    /\ \A s \in Shifts : /\ s.start \in 0 .. DayLen - 1 /\ s.end \in 0 .. DayLen - 1
                         /\ s.brk \in Nat /\ s.lunch \in Nat

VARIABLES shift, in, out, windows

Ticks == 0 .. MaxTick

Slots(i, o) == [kind : Kinds, start : i .. o, end : i .. o]

Disjoint(W) ==
    \A v, w \in W : v.id # w.id => v.end <= w.start \/ w.end <= v.start

EntryInit ==
    /\ shift \in Shifts
    /\ in \in Ticks
    /\ out \in in .. MaxTick
    /\ \E n \in 0 .. MaxWindows : \E s \in [1 .. n -> Slots(in, out)] :
          windows = {[id |-> k, kind |-> s[k].kind, start |-> s[k].start, end |-> s[k].end]
                        : k \in 1 .. n}
    /\ \A w \in windows : w.start <= w.end
    /\ Disjoint(windows)

EntryNext == UNCHANGED <<shift, in, out, windows>>

EntrySpec == EntryInit /\ [][EntryNext]_<<shift, in, out, windows>>

-----------------------------------------------------------------------------
Summary == SummarizeEntry(shift, 0, in, out, windows)

Covers(w, t) == w.start <= t /\ t < w.end

\* Ticks of the entry that no window covers.
WorkedTicks ==
    Cardinality({t \in in .. out - 1 : ~\E w \in windows : Covers(w, t)})

\* Minutes of the windows of one kind, each rounded down.
Taken(kind) ==
    MapThenSumSet(LAMBDA w : Cardinality({t \in Ticks : Covers(w, t)})
                                \div MinuteLen,
                  {w \in windows : w.kind = kind})

\* When a break of each kind was taken, the minutes worked are the ticks that
\* no window covers, up to the minute the entry and each window are rounded
\* by (services/timeclock.py:42-43).
WorkedWithinRounding ==
    (\A k \in Kinds : Taken(k) > 0) =>
        LET exact == WorkedTicks
            ticks == Summary.worked * MinuteLen
        IN  /\ exact - ticks < MinuteLen
            /\ ticks - exact <= Cardinality(windows) * (MinuteLen - 1)

\* Ticks of the shift, counted around midnight.
ShiftTicks ==
    Cardinality({t \in 0 .. DayLen - 1 :
        IF shift.end <= shift.start
        THEN t >= shift.start \/ t < shift.end
        ELSE t >= shift.start /\ t < shift.end})

\* Overtime never exceeds the time between check-in and check-out, for an
\* entry begun before six whose shift is longer than its allowances
\* (services/timeclock.py:45-47).
OvertimeWithinSpan ==
    /\ in <= SixPm
    /\ (shift.brk + shift.lunch) * MinuteLen <= ShiftTicks
    => Summary.ot <= MinutesBetween(in, out)

\* A kind of break that was not taken, or for less than a minute in all, is
\* charged at the allowance, so skipping breaks never adds to the minutes
\* worked (services/timeclock.py:37-40).
SkippingBreaksGainsNothing ==
    LET skipped == SummarizeEntry(shift, 0, in, out, {})
    IN  (\A k \in Kinds : Taken(k) <= (IF k = "BREAK" THEN shift.brk
                                                       ELSE shift.lunch))
        => skipped.worked <= Summary.worked
=============================================================================
