----------------------------- MODULE TimeSummary -----------------------------
(***************************************************************************)
(* The arithmetic of app/services/timeclock.py.  Instants are ticks from   *)
(* midnight of day 0; a minute is MinuteLen ticks and a day DayLen ticks.  *)
(* Python's // on seconds is \div on ticks: both round down.               *)
(***************************************************************************)
EXTENDS Integers, FiniteSetsExt

CONSTANTS
    MinuteLen,  \* ticks in a minute
    DayLen,     \* ticks in a day
    SixPm       \* tick of the day at which overtime starts (18:00)

ASSUME ClockAssumption ==
    /\ MinuteLen \in Nat \ {0}
    /\ DayLen \in Nat \ {0}
    /\ SixPm \in 0 .. DayLen

Kinds == {"BREAK", "LUNCH"}

AtLeastZero(n) == IF n < 0 THEN 0 ELSE n

MinutesBetween(start, end) == AtLeastZero((end - start) \div MinuteLen)

\* Seeded fault: a shift that ends after midnight is not wrapped.
ScheduledWorkMinutesNoWrap(shift) ==
    MinutesBetween(shift.start, shift.end) - shift.brk - shift.lunch

\* A shift [start, end, brk, lunch]: ticks of the day, allowances in minutes.
\* An end that is not after the start belongs to the next day.
ScheduledWorkMinutes(shift) ==
    LET end == IF shift.end <= shift.start THEN shift.end + DayLen
                                           ELSE shift.end
    IN  MinutesBetween(shift.start, end) - shift.brk - shift.lunch

\* Seeded fault: windows of every kind are counted for each kind.
PausedAnyKind(windows, kind, allowance) ==
    LET Length(w) == MinutesBetween(w.start, w.end)
        taken == MapThenSumSet(Length, windows)
    IN  IF taken = 0 THEN allowance ELSE taken

\* Seeded fault: the allowance is not charged when no break was taken.
PausedNoAllowance(windows, kind, allowance) ==
    LET Length(w) == MinutesBetween(w.start, w.end)
    IN  MapThenSumSet(Length, {w \in windows : w.kind = kind})

\* Minutes of the closed windows of one kind, or the allowance when there
\* are none to count.
Paused(windows, kind, allowance) ==
    LET Length(w) == MinutesBetween(w.start, w.end)
        taken == MapThenSumSet(Length, {w \in windows : w.kind = kind})
    IN  IF taken = 0 THEN allowance ELSE taken

\* summarize_entry for an entry of day `date` that is checked in and out;
\* windows are its closed break windows [kind, start, end] with an id each.
SummarizeEntry(shift, date, in, out, windows) ==
    LET brk    == Paused(windows, "BREAK", shift.brk)
        lunch  == Paused(windows, "LUNCH", shift.lunch)
        worked == AtLeastZero(MinutesBetween(in, out) - brk - lunch)
        late   == MinutesBetween(date * DayLen + SixPm, out)
        beyond == AtLeastZero(worked - ScheduledWorkMinutes(shift))
    IN  [worked |-> worked, brk |-> brk, lunch |-> lunch,
         ot |-> IF late > beyond THEN late ELSE beyond]

NoTotals == [worked |-> 0, brk |-> 0, lunch |-> 0, ot |-> 0]
=============================================================================
