------------------------------ MODULE TimeClock ------------------------------
(***************************************************************************)
(* The time clock of one employee: app/modules/timeclock/router.py, as     *)
(* concurrent requests (two tabs, a double click, a client retry) against  *)
(* the tables time_entries and time_break_windows.                         *)
(*                                                                         *)
(* A step is what happens between two awaits: a SELECT and the statements  *)
(* after it, or an INSERT or UPDATE with its COMMIT.  Requests of AI       *)
(* agents are refused before any of this (status 400).  The audit entry    *)
(* is a later transaction and is left out.                                 *)
(***************************************************************************)
EXTENDS TimeSummary, FiniteSets

CONSTANTS
    Procs,      \* request slots: how many requests may overlap
    Windows,    \* identifiers of break windows (bounds how many are opened)
    MaxTime,    \* last instant considered
    Shift,      \* the employee's schedule, see TimeSummary
    None

Times == 0 .. MaxTime
DayOf(t) == t \div DayLen
Days == 0 .. DayOf(MaxTime)

ASSUME TimeAssumption ==
    /\ MaxTime \in Nat
    /\ None \notin Times \cup Days
    /\ None \notin Procs \cup Windows
    /\ None \notin Kinds

VARIABLES
    now,        \* wall clock
    \* time_entries, one row per work_date: absent while checkIn is None
    checkIn, checkOut, totals,
    \* time_break_windows: None, or [day, kind, start, end]
    win,
    \* requests
    pc,
    kind,       \* break kind asked for
    day,        \* work_date of the entry the request has loaded or creates
    stamp,      \* instant the request has taken from the clock to store
    seen,       \* check_in_at and totals of the entry as loaded
    sum,        \* totals computed by check-out
    target,     \* window the request will end
    \* history: who checked an entry in, who opened a window
    opener, winOpener

entryVars == <<checkIn, checkOut, totals>>
reqVars   == <<kind, day, stamp, seen, sum, target>>
vars      == <<now, entryVars, win, pc, reqVars, opener, winOpener>>

Labels == {"idle", "in_select", "in_insert", "in_stamp",
           "out_windows", "out_commit", "break_select", "break_insert",
           "resume_select", "resume_commit"}

Loaded == [in |-> None, totals |-> NoTotals]

Totals == [worked : Nat, brk : Nat, lunch : Nat, ot : Nat]

Window == [day : Days, kind : Kinds, start : Times, end : Times \cup {None}]

ASSUME WindowAssumption == None \notin Window

TypeOK ==
    /\ now \in Times
    /\ checkIn \in [Days -> Times \cup {None}]
    /\ checkOut \in [Days -> Times \cup {None}]
    /\ totals \in [Days -> Totals]
    /\ win \in [Windows -> Window \cup {None}]
    /\ pc \in [Procs -> Labels]
    /\ kind \in [Procs -> Kinds \cup {None}]
    /\ day \in [Procs -> Days \cup {None}]
    /\ stamp \in [Procs -> Times \cup {None}]
    /\ seen \in [Procs -> [in : Times \cup {None}, totals : Totals]]
    /\ sum \in [Procs -> Totals]
    /\ target \in [Procs -> Windows \cup {None}]
    /\ opener \in [Days -> Procs \cup {None}]
    /\ winOpener \in [Windows -> Procs \cup {None}]

Init ==
    /\ now = 0
    /\ checkIn = [d \in Days |-> None]
    /\ checkOut = [d \in Days |-> None]
    /\ totals = [d \in Days |-> NoTotals]
    /\ win = [w \in Windows |-> None]
    /\ pc = [p \in Procs |-> "idle"]
    /\ kind = [p \in Procs |-> None]
    /\ day = [p \in Procs |-> None]
    /\ stamp = [p \in Procs |-> None]
    /\ seen = [p \in Procs |-> Loaded]
    /\ sum = [p \in Procs |-> NoTotals]
    /\ target = [p \in Procs |-> None]
    /\ opener = [d \in Days |-> None]
    /\ winOpener = [w \in Windows |-> None]

-----------------------------------------------------------------------------
(***************************************************************************)
(* What the queries of the handlers return.                                *)
(***************************************************************************)

\* Entries that are checked in and not checked out.
Open == {d \in Days : checkIn[d] # None /\ checkOut[d] = None}

\* _get_open_entry: the open entries with the latest check_in_at, of which
\* the query returns the first.
Newest == {d \in Open : \A e \in Open : checkIn[e] <= checkIn[d]}

WindowsOf(d) == {w \in Windows : win[w] # None /\ win[w].day = d}

OpenWindows(d, k) == {w \in WindowsOf(d) : win[w].kind = k /\ win[w].end = None}

NewestWindows(d, k) ==
    {w \in OpenWindows(d, k) :
        \A v \in OpenWindows(d, k) : win[v].start <= win[w].start}

ClosedWindows(d) ==
    {[id |-> w, kind |-> win[w].kind, start |-> win[w].start,
      end |-> win[w].end] : w \in {v \in WindowsOf(d) : win[v].end # None}}

-----------------------------------------------------------------------------
Goto(p, from, label) ==
    /\ pc[p] = from
    /\ pc' = [pc EXCEPT ![p] = label]

\* The request is over and what it loaded is dropped.
Finish(p) ==
    /\ pc' = [pc EXCEPT ![p] = "idle"]
    /\ kind' = [kind EXCEPT ![p] = None]
    /\ day' = [day EXCEPT ![p] = None]
    /\ stamp' = [stamp EXCEPT ![p] = None]
    /\ seen' = [seen EXCEPT ![p] = Loaded]
    /\ sum' = [sum EXCEPT ![p] = NoTotals]
    /\ target' = [target EXCEPT ![p] = None]

\* 409, or an error that rolls the transaction back.
Reject(p) == Finish(p) /\ UNCHANGED <<now, entryVars, win, opener, winOpener>>

\* A read step: the database and the clock are left alone.
ReadOnly == UNCHANGED <<now, entryVars, win, opener, winOpener>>

-----------------------------------------------------------------------------
(***************************************************************************)
(* POST /timeclock/check-in                                                *)
(***************************************************************************)

\* Seeded fault: only today's entry is looked at for one that is open.
CheckInOpenToday(p) ==
    /\ Goto(p, "idle", "in_select")
    /\ DayOf(now) \notin Open
    /\ day' = [day EXCEPT ![p] = DayOf(now)]
    /\ UNCHANGED <<kind, stamp, seen, sum, target>>
    /\ ReadOnly

\* An open entry of any date refuses the check-in with 409, which leaves no
\* trace; today's date is taken when the query has returned.
CheckInOpen(p) ==
    /\ Goto(p, "idle", "in_select")
    /\ Open = {}
    /\ day' = [day EXCEPT ![p] = DayOf(now)]
    /\ UNCHANGED <<kind, stamp, seen, sum, target>>
    /\ ReadOnly

\* Seeded fault: a closed entry of today is checked in again.
CheckInSelectReopens(p) ==
    LET d == day[p]
    IN  /\ Goto(p, "in_select",
                IF checkIn[d] = None THEN "in_insert" ELSE "in_stamp")
        /\ stamp' = [stamp EXCEPT ![p] = now]
        /\ UNCHANGED <<kind, day, seen, sum, target>>
        /\ ReadOnly

\* Looks for the row of that date: none yet, closed, or (checked in by an
\* overlapping request) still open, which takes check_in_at from the clock.
CheckInSelect(p) ==
    LET d == day[p]
    IN  /\ pc[p] = "in_select"
        /\ \/ /\ checkOut[d] # None
              /\ Reject(p)
           \/ /\ checkOut[d] = None
              /\ Goto(p, "in_select",
                      IF checkIn[d] = None THEN "in_insert" ELSE "in_stamp")
              /\ stamp' = [stamp EXCEPT ![p] = now]
              /\ UNCHANGED <<kind, day, seen, sum, target>>
              /\ ReadOnly

\* Inserts the row, takes the time and commits; the unique date rejects a
\* second insert.
CheckInInsert(p) ==
    LET d == day[p]
    IN  /\ pc[p] = "in_insert"
        /\ \/ /\ checkIn[d] # None
              /\ Reject(p)
           \/ /\ checkIn[d] = None
              /\ checkIn' = [checkIn EXCEPT ![d] = now]
              /\ opener' = [opener EXCEPT ![d] = p]
              /\ Finish(p)
              /\ UNCHANGED <<now, checkOut, totals, win, winOpener>>

\* The row existed: only check_in_at is written, whatever it holds by now.
CheckInStamp(p) ==
    /\ pc[p] = "in_stamp"
    /\ checkIn' = [checkIn EXCEPT ![day[p]] = stamp[p]]
    /\ opener' = [opener EXCEPT ![day[p]] = p]
    /\ Finish(p)
    /\ UNCHANGED <<now, checkOut, totals, win, winOpener>>

-----------------------------------------------------------------------------
(***************************************************************************)
(* POST /timeclock/check-out                                               *)
(***************************************************************************)
\* Loads the newest open entry (409 if there is none) and sets check_out_at
\* in memory.
CheckOutOpen(p) ==
    \E d \in Newest :
       /\ Goto(p, "idle", "out_windows")
       /\ day' = [day EXCEPT ![p] = d]
       /\ stamp' = [stamp EXCEPT ![p] = now]
       /\ seen' = [seen EXCEPT ![p] = [in |-> checkIn[d],
                                       totals |-> totals[d]]]
       /\ UNCHANGED <<kind, sum, target>>
       /\ ReadOnly

\* Seeded fault: totals computed without loading the windows.
CheckOutIgnoresWindows(p) ==
    /\ Goto(p, "out_windows", "out_commit")
    /\ sum' = [sum EXCEPT ![p] =
                 SummarizeEntry(Shift, day[p], seen[p].in, stamp[p], {})]
    /\ UNCHANGED <<kind, day, stamp, seen, target>>
    /\ ReadOnly

\* Loads the windows and computes the totals.
CheckOutWindows(p) ==
    /\ Goto(p, "out_windows", "out_commit")
    /\ sum' = [sum EXCEPT ![p] =
                 SummarizeEntry(Shift, day[p], seen[p].in, stamp[p],
                                ClosedWindows(day[p]))]
    /\ UNCHANGED <<kind, day, stamp, seen, target>>
    /\ ReadOnly

\* The columns that differ from what was loaded are written and committed.
Changed(p, old) ==
    [c \in DOMAIN old |->
        IF sum[p][c] # seen[p].totals[c] THEN sum[p][c] ELSE old[c]]

CheckOutCommit(p) ==
    LET d == day[p]
    IN  /\ pc[p] = "out_commit"
        /\ checkOut' = [checkOut EXCEPT ![d] = stamp[p]]
        /\ totals' = [totals EXCEPT ![d] = Changed(p, totals[d])]
        /\ Finish(p)
        /\ UNCHANGED <<now, checkIn, win, opener, winOpener>>

-----------------------------------------------------------------------------
(***************************************************************************)
(* POST /timeclock/breaks/start and /timeclock/breaks/end                  *)
(***************************************************************************)
\* Both load the newest open entry first, 409 if there is none.
LoadOpenEntry(p, k, label) ==
    \E d \in Newest :
       /\ Goto(p, "idle", label)
       /\ kind' = [kind EXCEPT ![p] = k]
       /\ day' = [day EXCEPT ![p] = d]
       /\ UNCHANGED <<stamp, seen, sum, target>>
       /\ ReadOnly

StartBreakOpen(p, k) == LoadOpenEntry(p, k, "break_select")
EndBreakOpen(p, k) == LoadOpenEntry(p, k, "resume_select")

\* Seeded fault: the check for an open window of the kind is dropped.
StartBreakUnchecked(p) ==
    /\ Goto(p, "break_select", "break_insert")
    /\ stamp' = [stamp EXCEPT ![p] = now]
    /\ UNCHANGED <<kind, day, seen, sum, target>>
    /\ ReadOnly

\* An open window of the kind refuses the break; two of them make
\* scalar_one_or_none raise, which refuses it too.  Otherwise start_at is
\* taken from the clock.
StartBreakSelect(p) ==
    /\ pc[p] = "break_select"
    /\ \/ /\ OpenWindows(day[p], kind[p]) # {}
          /\ Reject(p)
       \/ /\ OpenWindows(day[p], kind[p]) = {}
          /\ Goto(p, "break_select", "break_insert")
          /\ stamp' = [stamp EXCEPT ![p] = now]
          /\ UNCHANGED <<kind, day, seen, sum, target>>
          /\ ReadOnly

StartBreakInsert(p, w) ==
    /\ pc[p] = "break_insert"
    /\ win[w] = None
    /\ win' = [win EXCEPT ![w] = [day |-> day[p], kind |-> kind[p],
                                  start |-> stamp[p], end |-> None]]
    /\ winOpener' = [winOpener EXCEPT ![w] = p]
    /\ Finish(p)
    /\ UNCHANGED <<now, entryVars, opener>>

\* Loads the newest open window of the kind and takes the time.
EndBreakSelect(p) ==
    LET candidates == NewestWindows(day[p], kind[p])
    IN  /\ pc[p] = "resume_select"
        /\ \/ /\ candidates = {}
              /\ Reject(p)
           \/ \E w \in candidates :
              /\ Goto(p, "resume_select", "resume_commit")
              /\ target' = [target EXCEPT ![p] = w]
              /\ stamp' = [stamp EXCEPT ![p] = now]
              /\ UNCHANGED <<kind, day, seen, sum>>
              /\ ReadOnly

\* Commits end_at, whatever became of the entry meanwhile.
EndBreakCommit(p) ==
    /\ pc[p] = "resume_commit"
    /\ win' = [win EXCEPT ![target[p]] = [@ EXCEPT !.end = stamp[p]]]
    /\ Finish(p)
    /\ UNCHANGED <<now, entryVars, opener, winOpener>>

-----------------------------------------------------------------------------
\* The server dies or the connection drops before the commit.
Abort(p) == pc[p] # "idle" /\ Reject(p)

Tick ==
    /\ now < MaxTime
    /\ now' = now + 1
    /\ UNCHANGED <<entryVars, win, pc, reqVars, opener, winOpener>>

CheckIn(p) == \/ CheckInOpen(p) \/ CheckInSelect(p)
              \/ CheckInInsert(p) \/ CheckInStamp(p)

CheckOut(p) == \/ CheckOutOpen(p) \/ CheckOutWindows(p) \/ CheckOutCommit(p)

StartBreak(p) == \/ \E k \in Kinds : StartBreakOpen(p, k)
                 \/ StartBreakSelect(p)
                 \/ \E w \in Windows : StartBreakInsert(p, w)

EndBreak(p) == \/ \E k \in Kinds : EndBreakOpen(p, k)
               \/ EndBreakSelect(p) \/ EndBreakCommit(p)

Next ==
    \/ \E p \in Procs :
          CheckIn(p) \/ CheckOut(p) \/ StartBreak(p) \/ EndBreak(p) \/ Abort(p)
    \/ Tick

Spec == Init /\ [][Next]_vars

-----------------------------------------------------------------------------
(***************************************************************************)
(* Properties.                                                             *)
(***************************************************************************)

\* However requests overlap, entries that are open at the same time were
\* checked in by different requests: the check for an open entry
\* (router.py:89) is read before the commit it guards (router.py:102), so
\* requests that overlap may each open an entry (at midnight, of different
\* dates), but one request opens one, and none that starts later does.
OpenEntryPerRequest ==
    \A d, e \in Open : opener[d] = opener[e] => d = e

\* The same for break windows: two open windows of one kind in one entry
\* come from overlapping requests.  (Two of them make every later start of
\* that break fail, see StartBreakSelect.)
OpenWindowPerRequest ==
    \A d \in Days, k \in Kinds : \A v, w \in OpenWindows(d, k) :
        winOpener[v] = winOpener[w] => v = w

\* A checked-out entry starts before it ends, and its breaks lie inside it.
\* Needs requests that do not overlap.
WellNested ==
    /\ \A d \in Days : checkOut[d] # None => checkIn[d] <= checkOut[d]
    /\ \A d \in Days : \A w \in WindowsOf(d) :
          /\ checkIn[d] <= win[w].start
          /\ win[w].end # None => win[w].start <= win[w].end
          /\ win[w].end # None /\ checkOut[d] # None
             => win[w].end <= checkOut[d]

\* The stored totals of a checked-out entry are those of its own times and
\* windows.  Needs requests that do not overlap: check-out reads the windows
\* before it commits (router.py:133-143).
TotalsMatch ==
    \A d \in Days : checkOut[d] # None =>
        totals[d] = SummarizeEntry(Shift, d, checkIn[d], checkOut[d],
                                   ClosedWindows(d))

\* Requests that do not overlap give the employee a time sheet.
Sheet == INSTANCE TimeSheet WITH
    NoDay   <- None,
    running <- IF Open = {} THEN None ELSE CHOOSE d \in Open : TRUE,
    closed  <- {d \in Days : checkOut[d] # None},
    pausing <- {k \in Kinds : \E d \in Open : OpenWindows(d, k) # {}}

ImplementsSheet == Sheet!Spec
=============================================================================
