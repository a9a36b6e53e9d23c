--------------------------- MODULE TimeClockProofs ---------------------------
(***************************************************************************)
(* Proofs about TimeClock for every number of break windows and days.      *)
(*                                                                         *)
(* With any number of overlapping requests: an entry, or a break, that is  *)
(* open was opened by a request that had seen none open and had opened     *)
(* none itself.  With requests one at a time: what is stored is a time     *)
(* sheet, its breaks lie inside their entries and its totals are those of  *)
(* the rows beside them.                                                   *)
(***************************************************************************)
EXTENDS TimeClock, TLAPS

\* The part of TypeOK the argument needs, and what an active request carries.
Shape ==
    /\ now \in Times
    /\ checkIn \in [Days -> Times \cup {None}]
    /\ checkOut \in [Days -> Times \cup {None}]
    /\ win \in [Windows -> Window \cup {None}]
    /\ pc \in [Procs -> Labels]
    /\ kind \in [Procs -> Kinds \cup {None}]
    /\ day \in [Procs -> Days \cup {None}]
    /\ stamp \in [Procs -> Times \cup {None}]
    /\ target \in [Procs -> Windows \cup {None}]
    /\ opener \in [Days -> Procs \cup {None}]
    /\ winOpener \in [Windows -> Procs \cup {None}]
    /\ \A p \in Procs : pc[p] # "idle" => day[p] \in Days
    /\ \A p \in Procs : pc[p] \in {"break_select", "break_insert"}
                        => kind[p] \in Kinds
    /\ \A p \in Procs : pc[p] = "in_stamp" => stamp[p] \in Times
    /\ \A p \in Procs : pc[p] = "break_insert" => stamp[p] \in Times
    /\ \A p \in Procs : pc[p] = "out_windows" => stamp[p] \in Times
    /\ \A p \in Procs : pc[p] = "out_commit" => stamp[p] \in Times
    /\ \A p \in Procs : pc[p] = "resume_commit"
                        => /\ target[p] \in Windows
                           /\ win[target[p]] # None
                           /\ stamp[p] \in Times

\* A check-in past the check for an open entry has opened none itself.
CheckInTicket ==
    \A p \in Procs : pc[p] \in {"in_select", "in_insert", "in_stamp"}
                     => \A d \in Open : opener[d] # p

\* A break start past the check for an open window has opened none itself.
BreakTicket ==
    \A p \in Procs : pc[p] = "break_insert"
                     => \A w \in OpenWindows(day[p], kind[p]) : winOpener[w] # p

IInv == Shape /\ CheckInTicket /\ OpenEntryPerRequest
              /\ BreakTicket /\ OpenWindowPerRequest

-----------------------------------------------------------------------------
LEMMA DayOfType == \A t \in Times : DayOf(t) \in Days
<1> SUFFICES ASSUME NEW t \in Times
             PROVE  DayOf(t) \in Days
  OBVIOUS
<1>1. t \in Nat /\ MaxTime \in Nat /\ t <= MaxTime /\ DayLen \in Nat \ {0}
  BY TimeAssumption, ClockAssumption DEF Times
<1>2. t \div DayLen \in Nat /\ MaxTime \div DayLen \in Nat
  BY <1>1
<1>3. t \div DayLen <= MaxTime \div DayLen
  BY <1>1, <1>2
<1>4. QED
  BY <1>2, <1>3 DEF DayOf, Days

\* Types, and what an active request carries, are preserved by every step.
LEMMA ShapeStep ==
  ASSUME Shape, [Next]_vars
  PROVE  Shape'
<1> USE TimeAssumption DEF vars, entryVars, reqVars, Shape, Labels, Window,
      Times, Open, OpenWindows, WindowsOf
<1>1. ASSUME NEW p \in Procs, CheckInOpen(p)
     PROVE  Shape'
  BY <1>1, DayOfType DEF CheckInOpen, Goto, ReadOnly
<1>2. ASSUME NEW p \in Procs, CheckInSelect(p)
     PROVE  Shape'
  <2>1. CASE Reject(p)
    BY <1>2, <2>1 DEF Reject, Finish
  <2>2. CASE /\ checkOut[day[p]] = None
                /\ Goto(p, "in_select", IF checkIn[day[p]] = None
                                          THEN "in_insert" ELSE "in_stamp")
                /\ stamp' = [stamp EXCEPT ![p] = now]
                /\ UNCHANGED <<kind, day, seen, sum, target>>
                /\ ReadOnly
    BY <1>2, <2>2 DEF Goto, ReadOnly
  <2>3. QED
    BY <1>2, <2>1, <2>2 DEF CheckInSelect
<1>3. ASSUME NEW p \in Procs, CheckInInsert(p)
     PROVE  Shape'
  <2>1. CASE Reject(p)
    BY <1>3, <2>1 DEF Reject, Finish
  <2>2. CASE ~Reject(p)
    <3>1. /\ pc[p] = "in_insert" /\ day[p] \in Days
          /\ checkIn' = [checkIn EXCEPT ![day[p]] = now]
          /\ opener' = [opener EXCEPT ![day[p]] = p]
          /\ Finish(p)
          /\ UNCHANGED <<now, checkOut, totals, win, winOpener>>
      BY <1>3, <2>2 DEF CheckInInsert
    <3>2. QED
      BY <3>1 DEF Finish
  <2>3. QED
    BY <1>3, <2>1, <2>2 DEF CheckInInsert
<1>4. ASSUME NEW p \in Procs, CheckInStamp(p)
     PROVE  Shape'
  BY <1>4 DEF CheckInStamp, Finish
<1>5. ASSUME NEW p \in Procs, CheckOutOpen(p)
     PROVE  Shape'
  BY <1>5 DEF CheckOutOpen, Newest, Goto, ReadOnly
<1>6. ASSUME NEW p \in Procs, CheckOutWindows(p)
     PROVE  Shape'
  BY <1>6 DEF CheckOutWindows, Goto, ReadOnly
<1>7. ASSUME NEW p \in Procs, CheckOutCommit(p)
     PROVE  Shape'
  BY <1>7 DEF CheckOutCommit, Finish
<1>8. ASSUME NEW p \in Procs, NEW k \in Kinds, StartBreakOpen(p, k)
     PROVE  Shape'
  BY <1>8 DEF StartBreakOpen, LoadOpenEntry, Newest, Goto, ReadOnly
<1>9. ASSUME NEW p \in Procs, StartBreakSelect(p)
     PROVE  Shape'
  <2>1. CASE Reject(p)
    BY <1>9, <2>1 DEF Reject, Finish
  <2>2. CASE OpenWindows(day[p], kind[p]) = {}
    BY <1>9, <2>2 DEF StartBreakSelect, Goto, ReadOnly, Reject, Finish
  <2>3. QED
    BY <1>9, <2>1, <2>2 DEF StartBreakSelect
<1>10. ASSUME NEW p \in Procs, NEW w \in Windows, StartBreakInsert(p, w)
      PROVE  Shape'
  BY <1>10 DEF StartBreakInsert, Finish
<1>11. ASSUME NEW p \in Procs, NEW k \in Kinds, EndBreakOpen(p, k)
      PROVE  Shape'
  BY <1>11 DEF EndBreakOpen, LoadOpenEntry, Newest, Goto, ReadOnly
<1>12. ASSUME NEW p \in Procs, EndBreakSelect(p)
      PROVE  Shape'
  <2>1. CASE Reject(p)
    BY <1>12, <2>1 DEF Reject, Finish
  <2>2. CASE \E w \in NewestWindows(day[p], kind[p]) :
              /\ Goto(p, "resume_select", "resume_commit")
              /\ target' = [target EXCEPT ![p] = w]
              /\ stamp' = [stamp EXCEPT ![p] = now]
              /\ UNCHANGED <<kind, day, seen, sum>>
              /\ ReadOnly
    BY <2>2 DEF NewestWindows, Goto, ReadOnly
  <2>3. QED
    BY <1>12, <2>1, <2>2 DEF EndBreakSelect
<1>13. ASSUME NEW p \in Procs, EndBreakCommit(p)
      PROVE  Shape'
  <2> DEFINE w == target[p]
             ended == [win[w] EXCEPT !.end = stamp[p]]
  <2>1. w \in Windows /\ win[w] \in Window /\ stamp[p] \in Times
    BY <1>13 DEF EndBreakCommit
  <2>2. ended \in Window /\ ended # None
    <3>1. ended = [day |-> win[w].day, kind |-> win[w].kind,
                   start |-> win[w].start, end |-> stamp[p]]
      BY <2>1
    <3>2. ended \in Window
      BY <2>1, <3>1
    <3>3. None \notin Window
      BY WindowAssumption
    <3>4. QED
      BY <3>2, <3>3
  <2>3. win' = [win EXCEPT ![w] = ended]
    BY <1>13 DEF EndBreakCommit
  <2> HIDE DEF ended
  <2>4. win' \in [Windows -> Window \cup {None}]
    BY <2>1, <2>2, <2>3
  <2>5. \A v \in Windows : win[v] # None => win'[v] # None
    BY <2>1, <2>2, <2>3
  <2>6. QED
    BY <1>13, <2>4, <2>5 DEF EndBreakCommit, Finish
<1>14. ASSUME NEW p \in Procs, Abort(p)
      PROVE  Shape'
  BY <1>14 DEF Abort, Reject, Finish
<1>15. CASE Tick
  BY <1>15 DEF Tick
<1>16. CASE UNCHANGED vars
  BY <1>16, SMTT(30)
<1> HIDE DEF vars, entryVars, reqVars, Shape, Labels, Window, Times, Open, OpenWindows,
      WindowsOf
<1>17. QED
  BY <1>1, <1>2, <1>3, <1>4, <1>5, <1>6, <1>7, <1>8, <1>9, <1>10,
     <1>11, <1>12, <1>13, <1>14, <1>15, <1>16
     DEF Next, CheckIn, CheckOut, StartBreak, EndBreak

\* A check-in takes its ticket while no entry is open and spends it on the
\* one it opens; a check-out only closes entries.
LEMMA CheckInStep ==
  ASSUME Shape, CheckInTicket, OpenEntryPerRequest, [Next]_vars
  PROVE  (CheckInTicket /\ OpenEntryPerRequest)'
<1> USE TimeAssumption DEF vars, entryVars, reqVars, Shape, CheckInTicket,
      OpenEntryPerRequest, Open
<1>1. ASSUME NEW p \in Procs, CheckInOpen(p)
     PROVE  (CheckInTicket /\ OpenEntryPerRequest)'
  BY <1>1 DEF CheckInOpen, Goto, ReadOnly
<1>2. ASSUME NEW p \in Procs, CheckInSelect(p)
     PROVE  (CheckInTicket /\ OpenEntryPerRequest)'
  <2>1. CASE Reject(p)
    BY <1>2, <2>1 DEF Reject, Finish
  <2>2. CASE /\ checkOut[day[p]] = None
                /\ Goto(p, "in_select", IF checkIn[day[p]] = None
                                          THEN "in_insert" ELSE "in_stamp")
                /\ stamp' = [stamp EXCEPT ![p] = now]
                /\ UNCHANGED <<kind, day, seen, sum, target>>
                /\ ReadOnly
    BY <1>2, <2>2 DEF Goto, ReadOnly
  <2>3. QED
    BY <1>2, <2>1, <2>2 DEF CheckInSelect
<1>3. ASSUME NEW p \in Procs, CheckInInsert(p)
     PROVE  (CheckInTicket /\ OpenEntryPerRequest)'
  <2>1. CASE Reject(p)
    BY <1>3, <2>1 DEF Reject, Finish
  <2>2. CASE checkIn[day[p]] = None
    BY <1>3, <2>2 DEF CheckInInsert, Finish, Reject
  <2>3. QED
    BY <1>3, <2>1, <2>2 DEF CheckInInsert
<1>4. ASSUME NEW p \in Procs, CheckInStamp(p)
     PROVE  (CheckInTicket /\ OpenEntryPerRequest)'
  BY <1>4 DEF CheckInStamp, Finish
<1>5. ASSUME NEW p \in Procs, CheckOutOpen(p)
     PROVE  (CheckInTicket /\ OpenEntryPerRequest)'
  BY <1>5 DEF CheckOutOpen, Newest, Goto, ReadOnly
<1>6. ASSUME NEW p \in Procs, CheckOutWindows(p)
     PROVE  (CheckInTicket /\ OpenEntryPerRequest)'
  BY <1>6 DEF CheckOutWindows, Goto, ReadOnly
<1>7. ASSUME NEW p \in Procs, CheckOutCommit(p)
     PROVE  (CheckInTicket /\ OpenEntryPerRequest)'
  BY <1>7 DEF CheckOutCommit, Finish
<1>8. ASSUME NEW p \in Procs, NEW k \in Kinds, StartBreakOpen(p, k)
     PROVE  (CheckInTicket /\ OpenEntryPerRequest)'
  BY <1>8 DEF StartBreakOpen, LoadOpenEntry, Newest, Goto, ReadOnly
<1>9. ASSUME NEW p \in Procs, StartBreakSelect(p)
     PROVE  (CheckInTicket /\ OpenEntryPerRequest)'
  <2>1. CASE Reject(p)
    BY <1>9, <2>1 DEF Reject, Finish
  <2>2. CASE OpenWindows(day[p], kind[p]) = {}
    BY <1>9, <2>2 DEF StartBreakSelect, Goto, ReadOnly, Reject, Finish
  <2>3. QED
    BY <1>9, <2>1, <2>2 DEF StartBreakSelect
<1>10. ASSUME NEW p \in Procs, NEW w \in Windows, StartBreakInsert(p, w)
      PROVE  (CheckInTicket /\ OpenEntryPerRequest)'
  BY <1>10 DEF StartBreakInsert, Finish
<1>11. ASSUME NEW p \in Procs, NEW k \in Kinds, EndBreakOpen(p, k)
      PROVE  (CheckInTicket /\ OpenEntryPerRequest)'
  BY <1>11 DEF EndBreakOpen, LoadOpenEntry, Newest, Goto, ReadOnly
<1>12. ASSUME NEW p \in Procs, EndBreakSelect(p)
      PROVE  (CheckInTicket /\ OpenEntryPerRequest)'
  <2>1. CASE Reject(p)
    BY <1>12, <2>1 DEF Reject, Finish
  <2>2. CASE \E w \in NewestWindows(day[p], kind[p]) :
              /\ Goto(p, "resume_select", "resume_commit")
              /\ target' = [target EXCEPT ![p] = w]
              /\ stamp' = [stamp EXCEPT ![p] = now]
              /\ UNCHANGED <<kind, day, seen, sum>>
              /\ ReadOnly
    BY <2>2 DEF NewestWindows, Goto, ReadOnly
  <2>3. QED
    BY <1>12, <2>1, <2>2 DEF EndBreakSelect
<1>13. ASSUME NEW p \in Procs, EndBreakCommit(p)
      PROVE  (CheckInTicket /\ OpenEntryPerRequest)'
  BY <1>13 DEF EndBreakCommit, Finish
<1>14. ASSUME NEW p \in Procs, Abort(p)
      PROVE  (CheckInTicket /\ OpenEntryPerRequest)'
  BY <1>14 DEF Abort, Reject, Finish
<1>15. CASE Tick
  BY <1>15 DEF Tick
<1>16. CASE UNCHANGED vars
  BY <1>16, SMTT(30)
<1> HIDE DEF vars, entryVars, reqVars, Shape, CheckInTicket, OpenEntryPerRequest, Open
<1>17. QED
  BY <1>1, <1>2, <1>3, <1>4, <1>5, <1>6, <1>7, <1>8, <1>9, <1>10,
     <1>11, <1>12, <1>13, <1>14, <1>15, <1>16
     DEF Next, CheckIn, CheckOut, StartBreak, EndBreak

\* The same for the break windows of one kind in one entry.
LEMMA BreakStep ==
  ASSUME Shape, BreakTicket, OpenWindowPerRequest, [Next]_vars
  PROVE  (BreakTicket /\ OpenWindowPerRequest)'
<1> USE TimeAssumption DEF vars, entryVars, reqVars, Shape, Window,
      BreakTicket, OpenWindowPerRequest, OpenWindows, WindowsOf
<1>1. ASSUME NEW p \in Procs, CheckInOpen(p)
     PROVE  (BreakTicket /\ OpenWindowPerRequest)'
  BY <1>1 DEF CheckInOpen, Goto, ReadOnly
<1>2. ASSUME NEW p \in Procs, CheckInSelect(p)
     PROVE  (BreakTicket /\ OpenWindowPerRequest)'
  <2>1. CASE Reject(p)
    BY <1>2, <2>1 DEF Reject, Finish
  <2>2. CASE /\ checkOut[day[p]] = None
                /\ Goto(p, "in_select", IF checkIn[day[p]] = None
                                          THEN "in_insert" ELSE "in_stamp")
                /\ stamp' = [stamp EXCEPT ![p] = now]
                /\ UNCHANGED <<kind, day, seen, sum, target>>
                /\ ReadOnly
    BY <1>2, <2>2 DEF Goto, ReadOnly
  <2>3. QED
    BY <1>2, <2>1, <2>2 DEF CheckInSelect
<1>3. ASSUME NEW p \in Procs, CheckInInsert(p)
     PROVE  (BreakTicket /\ OpenWindowPerRequest)'
  <2>1. CASE Reject(p)
    BY <1>3, <2>1 DEF Reject, Finish
  <2>2. CASE checkIn[day[p]] = None
    BY <1>3, <2>2 DEF CheckInInsert, Finish, Reject
  <2>3. QED
    BY <1>3, <2>1, <2>2 DEF CheckInInsert
<1>4. ASSUME NEW p \in Procs, CheckInStamp(p)
     PROVE  (BreakTicket /\ OpenWindowPerRequest)'
  BY <1>4 DEF CheckInStamp, Finish
<1>5. ASSUME NEW p \in Procs, CheckOutOpen(p)
     PROVE  (BreakTicket /\ OpenWindowPerRequest)'
  BY <1>5 DEF CheckOutOpen, Newest, Goto, ReadOnly
<1>6. ASSUME NEW p \in Procs, CheckOutWindows(p)
     PROVE  (BreakTicket /\ OpenWindowPerRequest)'
  BY <1>6 DEF CheckOutWindows, Goto, ReadOnly
<1>7. ASSUME NEW p \in Procs, CheckOutCommit(p)
     PROVE  (BreakTicket /\ OpenWindowPerRequest)'
  BY <1>7 DEF CheckOutCommit, Finish
<1>8. ASSUME NEW p \in Procs, NEW k \in Kinds, StartBreakOpen(p, k)
     PROVE  (BreakTicket /\ OpenWindowPerRequest)'
  BY <1>8 DEF StartBreakOpen, LoadOpenEntry, Newest, Goto, ReadOnly
<1>9. ASSUME NEW p \in Procs, StartBreakSelect(p)
     PROVE  (BreakTicket /\ OpenWindowPerRequest)'
  <2>1. CASE Reject(p)
    BY <1>9, <2>1 DEF Reject, Finish
  <2>2. CASE OpenWindows(day[p], kind[p]) = {}
    BY <1>9, <2>2 DEF StartBreakSelect, Goto, ReadOnly, Reject, Finish
  <2>3. QED
    BY <1>9, <2>1, <2>2 DEF StartBreakSelect
<1>10. ASSUME NEW p \in Procs, NEW w \in Windows, StartBreakInsert(p, w)
      PROVE  (BreakTicket /\ OpenWindowPerRequest)'
  BY <1>10 DEF StartBreakInsert, Finish
<1>11. ASSUME NEW p \in Procs, NEW k \in Kinds, EndBreakOpen(p, k)
      PROVE  (BreakTicket /\ OpenWindowPerRequest)'
  BY <1>11 DEF EndBreakOpen, LoadOpenEntry, Newest, Goto, ReadOnly
<1>12. ASSUME NEW p \in Procs, EndBreakSelect(p)
      PROVE  (BreakTicket /\ OpenWindowPerRequest)'
  <2>1. CASE Reject(p)
    BY <1>12, <2>1 DEF Reject, Finish
  <2>2. CASE \E w \in NewestWindows(day[p], kind[p]) :
              /\ Goto(p, "resume_select", "resume_commit")
              /\ target' = [target EXCEPT ![p] = w]
              /\ stamp' = [stamp EXCEPT ![p] = now]
              /\ UNCHANGED <<kind, day, seen, sum>>
              /\ ReadOnly
    BY <2>2 DEF NewestWindows, Goto, ReadOnly
  <2>3. QED
    BY <1>12, <2>1, <2>2 DEF EndBreakSelect
<1>13. ASSUME NEW p \in Procs, EndBreakCommit(p)
      PROVE  (BreakTicket /\ OpenWindowPerRequest)'
  BY <1>13 DEF EndBreakCommit, Finish
<1>14. ASSUME NEW p \in Procs, Abort(p)
      PROVE  (BreakTicket /\ OpenWindowPerRequest)'
  BY <1>14 DEF Abort, Reject, Finish
<1>15. CASE Tick
  BY <1>15 DEF Tick
<1>16. CASE UNCHANGED vars
  BY <1>16, SMTT(30)
<1> HIDE DEF vars, entryVars, reqVars, Shape, Window, BreakTicket, OpenWindowPerRequest,
      OpenWindows, WindowsOf
<1>17. QED
  BY <1>1, <1>2, <1>3, <1>4, <1>5, <1>6, <1>7, <1>8, <1>9, <1>10,
     <1>11, <1>12, <1>13, <1>14, <1>15, <1>16
     DEF Next, CheckIn, CheckOut, StartBreak, EndBreak

-----------------------------------------------------------------------------
\* The inductive invariant holds in every reachable state.
THEOREM Invariance == Spec => []IInv
<1>1. Init => IInv
  BY TimeAssumption
     DEF Init, IInv, Shape, Labels, Times, CheckInTicket, OpenEntryPerRequest,
         BreakTicket, OpenWindowPerRequest, Open, OpenWindows, WindowsOf
<1>2. IInv /\ [Next]_vars => IInv'
  BY ShapeStep, CheckInStep, BreakStep DEF IInv
<1>3. QED
  BY <1>1, <1>2, PTL DEF Spec

\* Entries open at the same time were checked in by different requests, for
\* any number of requests and across any number of midnights (check_in).
THEOREM OneOpenEntryPerRequest == Spec => []OpenEntryPerRequest
BY Invariance, PTL DEF IInv

\* Windows of one kind open at the same time in one entry were opened by
\* different requests (start_break).
THEOREM OneOpenWindowPerRequest == Spec => []OpenWindowPerRequest
BY Invariance, PTL DEF IInv

-----------------------------------------------------------------------------
(***************************************************************************)
(* Requests one at a time.  With a single slot what a request has loaded   *)
(* is still true when it commits, so the employee's entries and breaks     *)
(* form a time sheet, are nested in time, and have the right totals.       *)
(***************************************************************************)
OneAtATime == \A p, q \in Procs : p = q

CheckingOut == {"out_windows", "out_commit"}

\* Where a request works on an entry it has found open.
AtOpenEntry == CheckingOut \cup {"break_select", "break_insert",
                                 "resume_select", "resume_commit"}

\* At most one entry is open, and it stays so while a request works on it; a
\* check-in past its check finds none.
SerialEntries ==
    /\ \A d, e \in Open : d = e
    /\ \A d \in Days : checkOut[d] # None => checkIn[d] # None
    /\ \A p \in Procs :
          /\ pc[p] # "in_stamp"
          /\ pc[p] \in {"in_select", "in_insert"} => Open = {}
          /\ pc[p] = "in_insert" => checkIn[day[p]] = None
          /\ pc[p] \in AtOpenEntry => day[p] \in Open

\* At most one window of a kind is open in an entry, none while one is being
\* started, and the one being ended is.
SerialWindows ==
    /\ \A w \in Windows : win[w] # None => checkIn[win[w].day] # None
    /\ \A d \in Days, k \in Kinds : \A v, w \in OpenWindows(d, k) : v = w
    /\ \A p \in Procs :
          /\ pc[p] = "break_insert" => OpenWindows(day[p], kind[p]) = {}
          /\ pc[p] \in {"resume_select", "resume_commit"} => kind[p] \in Kinds
          /\ pc[p] = "resume_commit"
             => target[p] \in OpenWindows(day[p], kind[p])

\* What is stored is not in the future, and what a request will store is not
\* before what it follows.
SerialClock ==
    /\ \A d \in Days : checkIn[d] # None => checkIn[d] <= now
    /\ \A w \in Windows : win[w] # None =>
          win[w].start <= now /\ (win[w].end # None => win[w].end <= now)
    /\ \A p \in Procs :
          /\ pc[p] \in CheckingOut \cup {"break_insert", "resume_commit"}
             => stamp[p] <= now
          /\ pc[p] \in CheckingOut =>
                /\ checkIn[day[p]] <= stamp[p]
                /\ \A w \in WindowsOf(day[p]) :
                      win[w].end # None => win[w].end <= stamp[p]
          /\ pc[p] = "break_insert" => checkIn[day[p]] <= stamp[p]
          /\ pc[p] = "resume_commit" => win[target[p]].start <= stamp[p]
    /\ WellNested

TotalsColumns == {"worked", "brk", "lunch", "ot"}
IsTotals(t) == t = [worked |-> t.worked, brk |-> t.brk, lunch |-> t.lunch,
                    ot |-> t.ot]

\* A check-out about to commit has the totals of the entry as it is stored.
RightSum(p) == sum[p] = SummarizeEntry(Shift, day[p], checkIn[day[p]], stamp[p],
                                       ClosedWindows(day[p]))

\* A check-out still holds the entry as it is stored, and the totals of it.
SerialTotals ==
    /\ DOMAIN totals = Days /\ DOMAIN seen = Procs /\ DOMAIN sum = Procs
    /\ \A d \in Days : IsTotals(totals[d])
    /\ \A p \in Procs :
          /\ pc[p] \in CheckingOut =>
                seen[p].in = checkIn[day[p]] /\ seen[p].totals = totals[day[p]]
          /\ pc[p] = "out_commit" => RightSum(p)
    /\ TotalsMatch

SerialInv == SerialEntries /\ SerialWindows /\ SerialClock /\ SerialTotals

\* One entry at a time is open: no step of the only request changes that.
LEMMA SerialEntriesStep ==
  ASSUME OneAtATime, Shape, SerialEntries, [Next]_vars
  PROVE  SerialEntries'
<1> USE TimeAssumption DEF vars, entryVars, reqVars, Shape, Labels, OneAtATime,
      SerialEntries, Open, AtOpenEntry, CheckingOut
<1>1. ASSUME NEW p \in Procs, CheckInOpen(p)
     PROVE  SerialEntries'
  BY <1>1 DEF CheckInOpen, Goto, ReadOnly
<1>2. ASSUME NEW p \in Procs, CheckInSelect(p)
     PROVE  SerialEntries'
  <2>1. CASE Reject(p)
    BY <1>2, <2>1 DEF Reject, Finish
  <2>2. CASE /\ checkOut[day[p]] = None
                /\ Goto(p, "in_select", IF checkIn[day[p]] = None
                                          THEN "in_insert" ELSE "in_stamp")
                /\ stamp' = [stamp EXCEPT ![p] = now]
                /\ UNCHANGED <<kind, day, seen, sum, target>>
                /\ ReadOnly
    BY <1>2, <2>2 DEF Goto, ReadOnly
  <2>3. QED
    BY <1>2, <2>1, <2>2 DEF CheckInSelect
<1>3. ASSUME NEW p \in Procs, CheckInInsert(p)
     PROVE  SerialEntries'
  <2>1. CASE Reject(p)
    BY <1>3, <2>1 DEF Reject, Finish
  <2>2. CASE checkIn[day[p]] = None
    BY <1>3, <2>2 DEF CheckInInsert, Finish, Reject
  <2>3. QED
    BY <1>3, <2>1, <2>2 DEF CheckInInsert
<1>4. ASSUME NEW p \in Procs, CheckInStamp(p)
     PROVE  SerialEntries'
  BY <1>4 DEF CheckInStamp, Finish
<1>5. ASSUME NEW p \in Procs, CheckOutOpen(p)
     PROVE  SerialEntries'
  BY <1>5 DEF CheckOutOpen, Newest, Goto, ReadOnly
<1>6. ASSUME NEW p \in Procs, CheckOutWindows(p)
     PROVE  SerialEntries'
  BY <1>6 DEF CheckOutWindows, Goto, ReadOnly
<1>7. ASSUME NEW p \in Procs, CheckOutCommit(p)
     PROVE  SerialEntries'
  BY <1>7 DEF CheckOutCommit, Finish
<1>8. ASSUME NEW p \in Procs, NEW k \in Kinds, StartBreakOpen(p, k)
     PROVE  SerialEntries'
  BY <1>8 DEF StartBreakOpen, LoadOpenEntry, Newest, Goto, ReadOnly
<1>9. ASSUME NEW p \in Procs, StartBreakSelect(p)
     PROVE  SerialEntries'
  <2>1. CASE Reject(p)
    BY <1>9, <2>1 DEF Reject, Finish
  <2>2. CASE OpenWindows(day[p], kind[p]) = {}
    BY <1>9, <2>2 DEF StartBreakSelect, Goto, ReadOnly, Reject, Finish
  <2>3. QED
    BY <1>9, <2>1, <2>2 DEF StartBreakSelect
<1>10. ASSUME NEW p \in Procs, NEW w \in Windows, StartBreakInsert(p, w)
      PROVE  SerialEntries'
  BY <1>10 DEF StartBreakInsert, Finish
<1>11. ASSUME NEW p \in Procs, NEW k \in Kinds, EndBreakOpen(p, k)
      PROVE  SerialEntries'
  BY <1>11 DEF EndBreakOpen, LoadOpenEntry, Newest, Goto, ReadOnly
<1>12. ASSUME NEW p \in Procs, EndBreakSelect(p)
      PROVE  SerialEntries'
  <2>1. CASE Reject(p)
    BY <1>12, <2>1 DEF Reject, Finish
  <2>2. CASE \E w \in NewestWindows(day[p], kind[p]) :
              /\ Goto(p, "resume_select", "resume_commit")
              /\ target' = [target EXCEPT ![p] = w]
              /\ stamp' = [stamp EXCEPT ![p] = now]
              /\ UNCHANGED <<kind, day, seen, sum>>
              /\ ReadOnly
    BY <2>2 DEF NewestWindows, Goto, ReadOnly
  <2>3. QED
    BY <1>12, <2>1, <2>2 DEF EndBreakSelect
<1>13. ASSUME NEW p \in Procs, EndBreakCommit(p)
      PROVE  SerialEntries'
  BY <1>13 DEF EndBreakCommit, Finish
<1>14. ASSUME NEW p \in Procs, Abort(p)
      PROVE  SerialEntries'
  BY <1>14 DEF Abort, Reject, Finish
<1>15. CASE Tick
  BY <1>15 DEF Tick
<1>16. CASE UNCHANGED vars
  BY <1>16, SMTT(30)
<1> HIDE DEF vars, entryVars, reqVars, Shape, Labels, OneAtATime, SerialEntries, Open,
      AtOpenEntry, CheckingOut
<1>17. QED
  BY <1>1, <1>2, <1>3, <1>4, <1>5, <1>6, <1>7, <1>8, <1>9, <1>10,
     <1>11, <1>12, <1>13, <1>14, <1>15, <1>16
     DEF Next, CheckIn, CheckOut, StartBreak, EndBreak

\* One window of a kind at a time is open in an entry.
LEMMA SerialWindowsStep ==
  ASSUME OneAtATime, Shape, SerialEntries, SerialWindows, [Next]_vars
  PROVE  SerialWindows'
<1> USE TimeAssumption DEF vars, entryVars, reqVars, Shape, Window, Labels,
      OneAtATime, SerialEntries, SerialWindows, Open, OpenWindows, WindowsOf,
      AtOpenEntry, CheckingOut
<1>1. ASSUME NEW p \in Procs, CheckInOpen(p)
     PROVE  SerialWindows'
  BY <1>1 DEF CheckInOpen, Goto, ReadOnly
<1>2. ASSUME NEW p \in Procs, CheckInSelect(p)
     PROVE  SerialWindows'
  <2>1. CASE Reject(p)
    BY <1>2, <2>1 DEF Reject, Finish
  <2>2. CASE /\ checkOut[day[p]] = None
                /\ Goto(p, "in_select", IF checkIn[day[p]] = None
                                          THEN "in_insert" ELSE "in_stamp")
                /\ stamp' = [stamp EXCEPT ![p] = now]
                /\ UNCHANGED <<kind, day, seen, sum, target>>
                /\ ReadOnly
    BY <1>2, <2>2 DEF Goto, ReadOnly
  <2>3. QED
    BY <1>2, <2>1, <2>2 DEF CheckInSelect
<1>3. ASSUME NEW p \in Procs, CheckInInsert(p)
     PROVE  SerialWindows'
  <2>1. CASE Reject(p)
    BY <1>3, <2>1 DEF Reject, Finish
  <2>2. CASE checkIn[day[p]] = None
    BY <1>3, <2>2 DEF CheckInInsert, Finish, Reject
  <2>3. QED
    BY <1>3, <2>1, <2>2 DEF CheckInInsert
<1>4. ASSUME NEW p \in Procs, CheckInStamp(p)
     PROVE  SerialWindows'
  BY <1>4 DEF CheckInStamp, Finish
<1>5. ASSUME NEW p \in Procs, CheckOutOpen(p)
     PROVE  SerialWindows'
  BY <1>5 DEF CheckOutOpen, Newest, Goto, ReadOnly
<1>6. ASSUME NEW p \in Procs, CheckOutWindows(p)
     PROVE  SerialWindows'
  BY <1>6 DEF CheckOutWindows, Goto, ReadOnly
<1>7. ASSUME NEW p \in Procs, CheckOutCommit(p)
     PROVE  SerialWindows'
  BY <1>7 DEF CheckOutCommit, Finish
<1>8. ASSUME NEW p \in Procs, NEW k \in Kinds, StartBreakOpen(p, k)
     PROVE  SerialWindows'
  BY <1>8 DEF StartBreakOpen, LoadOpenEntry, Newest, Goto, ReadOnly
<1>9. ASSUME NEW p \in Procs, StartBreakSelect(p)
     PROVE  SerialWindows'
  <2>1. CASE Reject(p)
    BY <1>9, <2>1 DEF Reject, Finish
  <2>2. CASE OpenWindows(day[p], kind[p]) = {}
    BY <1>9, <2>2 DEF StartBreakSelect, Goto, ReadOnly, Reject, Finish
  <2>3. QED
    BY <1>9, <2>1, <2>2 DEF StartBreakSelect
<1>10. ASSUME NEW p \in Procs, NEW w \in Windows, StartBreakInsert(p, w)
      PROVE  SerialWindows'
  BY <1>10 DEF StartBreakInsert, Finish
<1>11. ASSUME NEW p \in Procs, NEW k \in Kinds, EndBreakOpen(p, k)
      PROVE  SerialWindows'
  BY <1>11 DEF EndBreakOpen, LoadOpenEntry, Newest, Goto, ReadOnly
<1>12. ASSUME NEW p \in Procs, EndBreakSelect(p)
      PROVE  SerialWindows'
  <2>1. CASE Reject(p)
    BY <1>12, <2>1 DEF Reject, Finish
  <2>2. CASE \E w \in NewestWindows(day[p], kind[p]) :
              /\ Goto(p, "resume_select", "resume_commit")
              /\ target' = [target EXCEPT ![p] = w]
              /\ stamp' = [stamp EXCEPT ![p] = now]
              /\ UNCHANGED <<kind, day, seen, sum>>
              /\ ReadOnly
    BY <2>2 DEF NewestWindows, Goto, ReadOnly
  <2>3. QED
    BY <1>12, <2>1, <2>2 DEF EndBreakSelect
<1>13. ASSUME NEW p \in Procs, EndBreakCommit(p)
      PROVE  SerialWindows'
  BY <1>13 DEF EndBreakCommit, Finish
<1>14. ASSUME NEW p \in Procs, Abort(p)
      PROVE  SerialWindows'
  BY <1>14 DEF Abort, Reject, Finish
<1>15. CASE Tick
  BY <1>15 DEF Tick
<1>16. CASE UNCHANGED vars
  BY <1>16, SMTT(30)
<1> HIDE DEF vars, entryVars, reqVars, Shape, Window, Labels, OneAtATime, SerialEntries,
      SerialWindows, Open, OpenWindows, WindowsOf, AtOpenEntry, CheckingOut
<1>17. QED
  BY <1>1, <1>2, <1>3, <1>4, <1>5, <1>6, <1>7, <1>8, <1>9, <1>10,
     <1>11, <1>12, <1>13, <1>14, <1>15, <1>16
     DEF Next, CheckIn, CheckOut, StartBreak, EndBreak

\* Times are stored in the order they were taken from the clock.
LEMMA SerialClockStep ==
  ASSUME OneAtATime, Shape, SerialEntries, SerialWindows, SerialClock, [Next]_vars
  PROVE  SerialClock'
<1> USE TimeAssumption DEF vars, entryVars, reqVars, Shape, Window, Labels, Times,
      OneAtATime, SerialEntries, SerialWindows, SerialClock, WellNested, Open,
      OpenWindows, WindowsOf, AtOpenEntry, CheckingOut
<1>1. ASSUME NEW p \in Procs, CheckInOpen(p)
     PROVE  SerialClock'
  BY <1>1 DEF CheckInOpen, Goto, ReadOnly
<1>2. ASSUME NEW p \in Procs, CheckInSelect(p)
     PROVE  SerialClock'
  <2>1. CASE Reject(p)
    BY <1>2, <2>1 DEF Reject, Finish
  <2>2. CASE /\ checkOut[day[p]] = None
                /\ Goto(p, "in_select", IF checkIn[day[p]] = None
                                          THEN "in_insert" ELSE "in_stamp")
                /\ stamp' = [stamp EXCEPT ![p] = now]
                /\ UNCHANGED <<kind, day, seen, sum, target>>
                /\ ReadOnly
    BY <1>2, <2>2 DEF Goto, ReadOnly
  <2>3. QED
    BY <1>2, <2>1, <2>2 DEF CheckInSelect
<1>3. ASSUME NEW p \in Procs, CheckInInsert(p)
     PROVE  SerialClock'
  <2>1. CASE Reject(p)
    BY <1>3, <2>1 DEF Reject, Finish
  <2>2. CASE checkIn[day[p]] = None
    <3> DEFINE d == day[p]
    <3>1. /\ d \in Days /\ checkOut[d] = None /\ WindowsOf(d) = {}
      BY <1>3, <2>2 DEF CheckInInsert
    <3>2. /\ checkIn' = [checkIn EXCEPT ![d] = now] /\ Finish(p)
          /\ UNCHANGED <<now, checkOut, win>>
      BY <1>3, <2>2 DEF CheckInInsert, Finish, Reject
    <3>3. \A e \in Days : e # d => checkIn'[e] = checkIn[e]
      BY <3>2
    <3>4. checkIn'[d] = now /\ now \in Nat
      BY <3>1, <3>2
    <3>5. \A q \in Procs : pc'[q] = "idle"
      BY <3>2 DEF Finish
    <3>6. WellNested'
      BY <3>1, <3>2, <3>3
    <3>7. QED
      BY <3>1, <3>2, <3>3, <3>4, <3>5, <3>6
  <2>3. QED
    BY <1>3, <2>1, <2>2 DEF CheckInInsert
<1>4. ASSUME NEW p \in Procs, CheckInStamp(p)
     PROVE  SerialClock'
  BY <1>4 DEF CheckInStamp, Finish
<1>5. ASSUME NEW p \in Procs, CheckOutOpen(p)
     PROVE  SerialClock'
  BY <1>5 DEF CheckOutOpen, Newest, Goto, ReadOnly
<1>6. ASSUME NEW p \in Procs, CheckOutWindows(p)
     PROVE  SerialClock'
  BY <1>6 DEF CheckOutWindows, Goto, ReadOnly
<1>7. ASSUME NEW p \in Procs, CheckOutCommit(p)
     PROVE  SerialClock'
  BY <1>7 DEF CheckOutCommit, Finish
<1>8. ASSUME NEW p \in Procs, NEW k \in Kinds, StartBreakOpen(p, k)
     PROVE  SerialClock'
  BY <1>8 DEF StartBreakOpen, LoadOpenEntry, Newest, Goto, ReadOnly
<1>9. ASSUME NEW p \in Procs, StartBreakSelect(p)
     PROVE  SerialClock'
  <2>1. CASE Reject(p)
    BY <1>9, <2>1 DEF Reject, Finish
  <2>2. CASE OpenWindows(day[p], kind[p]) = {}
    BY <1>9, <2>2 DEF StartBreakSelect, Goto, ReadOnly, Reject, Finish
  <2>3. QED
    BY <1>9, <2>1, <2>2 DEF StartBreakSelect
<1>10. ASSUME NEW p \in Procs, NEW w \in Windows, StartBreakInsert(p, w)
      PROVE  SerialClock'
  <2> DEFINE new == [day |-> day[p], kind |-> kind[p], start |-> stamp[p],
                     end |-> None]
  <2>1. /\ day[p] \in Open /\ win[w] = None /\ stamp[p] \in Nat
        /\ checkIn[day[p]] <= stamp[p] /\ stamp[p] <= now
    BY <1>10 DEF StartBreakInsert
  <2>2. /\ win' = [win EXCEPT ![w] = new] /\ Finish(p)
        /\ UNCHANGED <<now, checkIn, checkOut>>
    BY <1>10 DEF StartBreakInsert
  <2>3. /\ win'[w] = new /\ new.day = day[p] /\ new.start = stamp[p]
        /\ new.end = None
    BY <2>2
  <2>4. \A v \in Windows : v # w => win'[v] = win[v]
    BY <2>2
  <2>5. \A q \in Procs : pc'[q] = "idle"
    BY <2>2 DEF Finish
  <2> HIDE DEF new
  <2>6. WellNested'
    BY <2>1, <2>2, <2>3, <2>4
  <2>7. QED
    BY <2>1, <2>2, <2>3, <2>4, <2>5, <2>6
<1>11. ASSUME NEW p \in Procs, NEW k \in Kinds, EndBreakOpen(p, k)
      PROVE  SerialClock'
  BY <1>11 DEF EndBreakOpen, LoadOpenEntry, Newest, Goto, ReadOnly
<1>12. ASSUME NEW p \in Procs, EndBreakSelect(p)
      PROVE  SerialClock'
  <2>1. CASE Reject(p)
    BY <1>12, <2>1 DEF Reject, Finish
  <2>2. CASE \E w \in NewestWindows(day[p], kind[p]) :
              /\ Goto(p, "resume_select", "resume_commit")
              /\ target' = [target EXCEPT ![p] = w]
              /\ stamp' = [stamp EXCEPT ![p] = now]
              /\ UNCHANGED <<kind, day, seen, sum>>
              /\ ReadOnly
    BY <2>2 DEF NewestWindows, Goto, ReadOnly
  <2>3. QED
    BY <1>12, <2>1, <2>2 DEF EndBreakSelect
<1>13. ASSUME NEW p \in Procs, EndBreakCommit(p)
      PROVE  SerialClock'
  <2> DEFINE w == target[p]
             ended == [win[w] EXCEPT !.end = stamp[p]]
  <2>1. /\ w \in Windows /\ w \in OpenWindows(day[p], kind[p])
        /\ win[w] \in Window /\ stamp[p] \in Nat
        /\ win[w].start <= stamp[p] /\ stamp[p] <= now
        /\ checkOut[day[p]] = None /\ win[w].day = day[p]
    BY <1>13 DEF EndBreakCommit
  <2>2. /\ win' = [win EXCEPT ![w] = ended] /\ Finish(p)
        /\ UNCHANGED <<now, checkIn, checkOut>>
    BY <1>13 DEF EndBreakCommit
  <2>3. /\ ended.day = day[p] /\ ended.start = win[w].start
        /\ ended.end = stamp[p]
    BY <2>1
  <2> HIDE DEF ended
  <2>4. /\ win'[w] = ended
        /\ \A v \in Windows : v # w => win'[v] = win[v]
    BY <2>1, <2>2
  <2>5. \A q \in Procs : pc'[q] = "idle"
    BY <2>2 DEF Finish
  <2> HIDE DEF w
  <2>6. WellNested'
    BY <2>1, <2>2, <2>3, <2>4
  <2>7. QED
    BY <2>1, <2>2, <2>3, <2>4, <2>5, <2>6
<1>14. ASSUME NEW p \in Procs, Abort(p)
      PROVE  SerialClock'
  BY <1>14 DEF Abort, Reject, Finish
<1>15. CASE Tick
  BY <1>15 DEF Tick
<1>16. CASE UNCHANGED vars
  BY <1>16, SMTT(30)
<1> HIDE DEF vars, entryVars, reqVars, Shape, Window, Labels, Times, OneAtATime,
      SerialEntries, SerialWindows, SerialClock, WellNested, Open, OpenWindows, WindowsOf,
      AtOpenEntry, CheckingOut
<1>17. QED
  BY <1>1, <1>2, <1>3, <1>4, <1>5, <1>6, <1>7, <1>8, <1>9, <1>10,
     <1>11, <1>12, <1>13, <1>14, <1>15, <1>16
     DEF Next, CheckIn, CheckOut, StartBreak, EndBreak


-----------------------------------------------------------------------------
\* The totals computed at check-out have the four columns.
LEMMA SummaryColumns ==
  ASSUME NEW sh, NEW d, NEW in, NEW out, NEW ws
  PROVE  IsTotals(SummarizeEntry(sh, d, in, out, ws))
BY DEF IsTotals, SummarizeEntry

\* Writing the columns that differ from what is stored stores the totals.
LEMMA ChangedStoresAll ==
  ASSUME NEW p, NEW old, IsTotals(old), IsTotals(sum[p]), seen[p].totals = old
  PROVE  Changed(p, old) = sum[p]
<1>1. DOMAIN old = TotalsColumns /\ DOMAIN sum[p] = TotalsColumns
  BY DEF IsTotals, TotalsColumns
<1>2. Changed(p, old) = [c \in TotalsColumns |-> sum[p][c]]
  <2>1. \A c : (IF sum[p][c] # old[c] THEN sum[p][c] ELSE old[c]) = sum[p][c]
    OBVIOUS
  <2>2. QED
    BY <1>1, <2>1 DEF Changed
<1>3. sum[p] = [c \in TotalsColumns |-> sum[p][c]]
  BY DEF IsTotals, TotalsColumns
<1>4. QED
  BY <1>2, <1>3

\* The closed windows of an entry none of whose windows is touched.
LEMMA ClosedWindowsKept ==
  ASSUME NEW d,
         \A w \in Windows : (win[w] # None /\ win[w].day = d)
                             \/ (win'[w] # None /\ win'[w].day = d)
                             => win'[w] = win[w]
  PROVE  ClosedWindows(d)' = ClosedWindows(d)
<1>1. WindowsOf(d)' = WindowsOf(d)
  BY DEF WindowsOf
<1>2. \A w \in WindowsOf(d) : win'[w] = win[w]
  BY DEF WindowsOf
<1>3. QED
  BY <1>1, <1>2 DEF ClosedWindows

\* A step that stores nothing and takes no check-out further.
LEMMA TotalsFrame ==
  ASSUME SerialTotals, UNCHANGED entryVars, UNCHANGED win,
         DOMAIN seen' = Procs, DOMAIN sum' = Procs,
         \A q \in Procs : pc'[q] \in CheckingOut =>
             /\ pc'[q] = pc[q] /\ day'[q] = day[q] /\ stamp'[q] = stamp[q]
             /\ seen'[q] = seen[q] /\ sum'[q] = sum[q]
  PROVE  SerialTotals'
<1>1. \A d : ClosedWindows(d)' = ClosedWindows(d)
  BY DEF ClosedWindows, WindowsOf
<1>2. TotalsMatch'
  BY <1>1 DEF SerialTotals, TotalsMatch, entryVars
<1>3. ASSUME NEW q \in Procs, pc'[q] \in CheckingOut
      PROVE  /\ seen'[q].in = checkIn'[day'[q]]
             /\ seen'[q].totals = totals'[day'[q]]
  BY <1>3 DEF SerialTotals, entryVars
<1>4. ASSUME NEW q \in Procs, pc'[q] = "out_commit"
      PROVE  RightSum(q)'
  <2>1. /\ pc[q] = "out_commit" /\ day'[q] = day[q] /\ stamp'[q] = stamp[q]
        /\ sum'[q] = sum[q]
    BY <1>4 DEF CheckingOut
  <2>2. PICK d : d = day[q]
    OBVIOUS
  <2>3. sum[q] = SummarizeEntry(Shift, d, checkIn[d], stamp[q],
                                ClosedWindows(d))
    BY <2>1, <2>2 DEF SerialTotals, RightSum
  <2>4. checkIn' = checkIn
    BY DEF entryVars
  <2>5. sum'[q] = SummarizeEntry(Shift, d, checkIn'[d], stamp'[q],
                                 ClosedWindows(d)')
    BY <2>1, <2>3, <2>4, <1>1
  <2>6. QED
    BY <2>1, <2>2, <2>5 DEF RightSum
<1>5. QED
  BY <1>2, <1>3, <1>4 DEF SerialTotals, entryVars

\* A commit that ends the request and leaves the checked-out entries alone.
LEMMA TotalsCommit ==
  ASSUME SerialTotals, OneAtATime, NEW p \in Procs, Finish(p), p \in DOMAIN pc,
         UNCHANGED <<totals, checkOut>>,
         \A d \in Days : checkOut[d] # None =>
             /\ checkIn'[d] = checkIn[d]
             /\ ClosedWindows(d)' = ClosedWindows(d)
  PROVE  SerialTotals'
<1>1. TotalsMatch'
  BY DEF SerialTotals, TotalsMatch
<1>2. \A q \in Procs : pc'[q] = "idle"
  BY DEF Finish, OneAtATime
<1>3. DOMAIN seen' = Procs /\ DOMAIN sum' = Procs
  BY DEF Finish, SerialTotals
<1>4. QED
  BY <1>1, <1>2, <1>3 DEF SerialTotals, CheckingOut

\* A request that ends without a commit.
LEMMA TotalsReject ==
  ASSUME SerialTotals, OneAtATime, NEW p \in Procs, p \in DOMAIN pc, Reject(p)
  PROVE  SerialTotals'
<1>1. Finish(p) /\ UNCHANGED <<totals, checkOut, checkIn, win>>
  BY DEF Reject, entryVars
<1>2. \A d : ClosedWindows(d)' = ClosedWindows(d)
  BY <1>1 DEF ClosedWindows, WindowsOf
<1>3. QED
  BY <1>1, <1>2, TotalsCommit

\* A check-out stores the totals of the entry and windows it finds there.
LEMMA SerialTotalsStep ==
  ASSUME OneAtATime, Shape, SerialEntries, SerialWindows, SerialTotals,
         [Next]_vars
  PROVE  SerialTotals'
<1>0. DOMAIN pc = Procs /\ DOMAIN seen = Procs /\ DOMAIN sum = Procs
  BY DEF Shape, SerialTotals
<1>1. ASSUME NEW p \in Procs, CheckInOpen(p)
     PROVE  SerialTotals'
  <2>1. /\ UNCHANGED entryVars /\ UNCHANGED win /\ UNCHANGED <<seen, sum>>
        /\ \A q \in Procs : pc'[q] = "in_select"
    BY <1>0, <1>1 DEF CheckInOpen, Goto, ReadOnly, OneAtATime
  <2>2. QED
    BY <1>0, <2>1, TotalsFrame DEF CheckingOut
<1>2. ASSUME NEW p \in Procs, CheckInSelect(p)
     PROVE  SerialTotals'
  <2>1. CASE Reject(p)
    BY <1>0, <2>1, TotalsReject
  <2>2. CASE ~Reject(p)
    <3>1. /\ UNCHANGED entryVars /\ UNCHANGED win /\ UNCHANGED <<seen, sum>>
          /\ pc' = [pc EXCEPT ![p] = IF checkIn[day[p]] = None
                                      THEN "in_insert" ELSE "in_stamp"]
      BY <1>2, <2>2 DEF CheckInSelect, Goto, ReadOnly
    <3>2. \A q \in Procs : pc'[q] \in {"in_insert", "in_stamp"}
      BY <1>0, <3>1 DEF OneAtATime
    <3>3. QED
      BY <1>0, <3>1, <3>2, TotalsFrame DEF CheckingOut
  <2>3. QED
    BY <2>1, <2>2
<1>3. ASSUME NEW p \in Procs, CheckInInsert(p)
     PROVE  SerialTotals'
  <2>1. CASE Reject(p)
    BY <1>0, <2>1, TotalsReject
  <2>2. CASE ~Reject(p)
    <3>1. /\ Finish(p) /\ checkIn' = [checkIn EXCEPT ![day[p]] = now]
          /\ checkIn[day[p]] = None /\ UNCHANGED <<totals, checkOut, win>>
      BY <1>3, <2>2 DEF CheckInInsert
    <3>2. \A d \in Days : checkOut[d] # None => checkIn'[d] = checkIn[d]
      BY <3>1 DEF SerialEntries, Shape
    <3>3. \A d : ClosedWindows(d)' = ClosedWindows(d)
      BY <3>1 DEF ClosedWindows, WindowsOf
    <3>4. QED
      BY <1>0, <3>1, <3>2, <3>3, TotalsCommit
  <2>3. QED
    BY <2>1, <2>2
<1>4. ASSUME NEW p \in Procs, CheckInStamp(p)
     PROVE  SerialTotals'
  BY <1>4 DEF CheckInStamp, SerialEntries
<1>5. ASSUME NEW p \in Procs, CheckOutOpen(p)
     PROVE  SerialTotals'
  <2>1. PICK d \in Days :
          /\ pc' = [pc EXCEPT ![p] = "out_windows"]
          /\ day' = [day EXCEPT ![p] = d]
          /\ seen' = [seen EXCEPT ![p] = [in |-> checkIn[d],
                                          totals |-> totals[d]]]
          /\ UNCHANGED <<sum, checkIn, checkOut, totals, win>>
    BY <1>5 DEF CheckOutOpen, Newest, Open, Goto, ReadOnly, entryVars
  <2>2. \A q \in Procs : /\ pc'[q] = "out_windows" /\ day'[q] = d
                          /\ seen'[q].in = checkIn[d]
                          /\ seen'[q].totals = totals[d]
    BY <1>0, <2>1 DEF OneAtATime, Shape
  <2>3. \A e : ClosedWindows(e)' = ClosedWindows(e)
    BY <2>1 DEF ClosedWindows, WindowsOf
  <2>4. TotalsMatch'
    BY <2>1, <2>3 DEF SerialTotals, TotalsMatch
  <2>5. DOMAIN seen' = Procs /\ DOMAIN sum' = Procs
    BY <1>0, <2>1
  <2>6. QED
    BY <2>1, <2>2, <2>4, <2>5 DEF SerialTotals
<1>6. ASSUME NEW p \in Procs, CheckOutWindows(p)
     PROVE  SerialTotals'
  <2> DEFINE S == SummarizeEntry(Shift, day[p], seen[p].in, stamp[p],
                                 ClosedWindows(day[p]))
  <2>1. /\ pc[p] = "out_windows" /\ pc' = [pc EXCEPT ![p] = "out_commit"]
        /\ sum' = [sum EXCEPT ![p] = S]
        /\ UNCHANGED <<day, stamp, seen, checkIn, checkOut, totals, win>>
    BY <1>6 DEF CheckOutWindows, Goto, ReadOnly, entryVars
  <2>2. sum'[p] = S /\ DOMAIN sum' = Procs
    BY <1>0, <2>1
  <2>3. seen[p].in = checkIn[day[p]] /\ seen[p].totals = totals[day[p]]
    BY <2>1 DEF SerialTotals, CheckingOut
  <2>4. S = SummarizeEntry(Shift, day[p], checkIn[day[p]], stamp[p],
                           ClosedWindows(day[p]))
    BY <2>3
  <2> HIDE DEF S
  <2>5. \A e : ClosedWindows(e)' = ClosedWindows(e)
    BY <2>1 DEF ClosedWindows, WindowsOf
  <2>6. RightSum(p)'
    <3>1. PICK d : d = day[p]
      OBVIOUS
    <3>2. sum'[p] = SummarizeEntry(Shift, d, checkIn'[d], stamp'[p],
                                   ClosedWindows(d)')
      BY <2>1, <2>2, <2>4, <2>5, <3>1
    <3>3. QED
      BY <2>1, <3>1, <3>2 DEF RightSum
  <2>7. TotalsMatch'
    BY <2>1, <2>5 DEF SerialTotals, TotalsMatch
  <2>8. \A q \in Procs : q = p
    BY DEF OneAtATime
  <2>9. QED
    BY <1>0, <2>1, <2>2, <2>3, <2>6, <2>7, <2>8 DEF SerialTotals
<1>7. ASSUME NEW p \in Procs, CheckOutCommit(p)
     PROVE  SerialTotals'
  <2> DEFINE d == day[p]
  <2>1. /\ pc[p] = "out_commit" /\ d \in Open
        /\ checkOut' = [checkOut EXCEPT ![d] = stamp[p]]
        /\ totals' = [totals EXCEPT ![d] = Changed(p, totals[d])]
        /\ Finish(p) /\ UNCHANGED <<checkIn, win>>
    BY <1>7 DEF CheckOutCommit, SerialEntries, AtOpenEntry, CheckingOut
  <2>2. /\ seen[p].totals = totals[d] /\ IsTotals(totals[d]) /\ d \in Days
        /\ sum[p] = SummarizeEntry(Shift, d, checkIn[d], stamp[p],
                                   ClosedWindows(d))
    BY <2>1 DEF SerialTotals, RightSum, CheckingOut, Open
  <2>3. IsTotals(sum[p])
    BY <2>2, SummaryColumns
  <2>4. Changed(p, totals[d]) = sum[p]
    <3>1. PICK old : old = totals[d]
      OBVIOUS
    <3>2. Changed(p, old) = sum[p]
      BY <2>2, <2>3, <3>1, ChangedStoresAll
    <3>3. QED
      BY <3>1, <3>2
  <2> HIDE DEF d
  <2>5. DOMAIN totals = Days /\ DOMAIN checkOut = Days
    BY DEF SerialTotals, Shape
  <2>6. /\ totals'[d] = sum[p] /\ checkOut'[d] = stamp[p]
        /\ DOMAIN totals' = Days
        /\ \A e \in Days : e # d => /\ totals'[e] = totals[e]
                                    /\ checkOut'[e] = checkOut[e]
    BY <2>1, <2>2, <2>4, <2>5
  <2>7. \A e : ClosedWindows(e)' = ClosedWindows(e)
    BY <2>1 DEF ClosedWindows, WindowsOf
  <2>8. TotalsMatch'
    <3>1. SUFFICES ASSUME NEW e \in Days, checkOut'[e] # None
                   PROVE  totals'[e] = SummarizeEntry(Shift, e, checkIn'[e],
                                         checkOut'[e], ClosedWindows(e)')
      BY DEF TotalsMatch
    <3>2. CASE e = d
      BY <2>1, <2>2, <2>6, <2>7, <3>2
    <3>3. CASE e # d
      BY <2>1, <2>6, <2>7, <3>1, <3>3 DEF SerialTotals, TotalsMatch
    <3>4. QED
      BY <3>2, <3>3
  <2>9. \A e \in Days : IsTotals(totals'[e])
    BY <2>3, <2>6 DEF SerialTotals
  <2>10. /\ \A q \in Procs : pc'[q] = "idle"
         /\ DOMAIN seen' = Procs /\ DOMAIN sum' = Procs
    BY <1>0, <2>1 DEF Finish, OneAtATime
  <2>11. QED
    BY <2>6, <2>8, <2>9, <2>10 DEF SerialTotals, CheckingOut
<1>8. ASSUME NEW p \in Procs, NEW k \in Kinds,
             StartBreakOpen(p, k) \/ EndBreakOpen(p, k)
      PROVE  SerialTotals'
  <2>1. /\ UNCHANGED entryVars /\ UNCHANGED win /\ UNCHANGED <<seen, sum>>
        /\ \A q \in Procs : pc'[q] \in {"break_select", "resume_select"}
    BY <1>0, <1>8 DEF StartBreakOpen, EndBreakOpen, LoadOpenEntry, Goto,
         ReadOnly, OneAtATime
  <2>2. QED
    BY <1>0, <2>1, TotalsFrame DEF CheckingOut
<1>9. ASSUME NEW p \in Procs, StartBreakSelect(p) \/ EndBreakSelect(p)
      PROVE  SerialTotals'
  <2>1. CASE Reject(p)
    BY <1>0, <2>1, TotalsReject
  <2>2. CASE ~Reject(p)
    <3>1. /\ UNCHANGED entryVars /\ UNCHANGED win /\ UNCHANGED <<seen, sum>>
          /\ \/ pc' = [pc EXCEPT ![p] = "break_insert"]
             \/ pc' = [pc EXCEPT ![p] = "resume_commit"]
      BY <1>9, <2>2 DEF StartBreakSelect, EndBreakSelect, Goto, ReadOnly
    <3>2. \A q \in Procs : pc'[q] \in {"break_insert", "resume_commit"}
      BY <1>0, <3>1 DEF OneAtATime
    <3>3. QED
      BY <1>0, <3>1, <3>2, TotalsFrame DEF CheckingOut
  <2>3. QED
    BY <2>1, <2>2
<1>10. ASSUME NEW p \in Procs, NEW w \in Windows, StartBreakInsert(p, w)
      PROVE  SerialTotals'
  <2>1. /\ Finish(p) /\ UNCHANGED <<totals, checkOut, checkIn>>
        /\ day[p] \in Open /\ win[w] = None
        /\ win' = [win EXCEPT ![w] = [day |-> day[p], kind |-> kind[p],
                                      start |-> stamp[p], end |-> None]]
    BY <1>10 DEF StartBreakInsert, entryVars, SerialEntries, AtOpenEntry
  <2>2. /\ win'[w].day = day[p]
        /\ \A v \in Windows : v # w => win'[v] = win[v]
    BY <2>1 DEF Shape
  <2>3. ASSUME NEW d \in Days, checkOut[d] # None
        PROVE  ClosedWindows(d)' = ClosedWindows(d)
    <3>1. d # day[p]
      BY <2>1, <2>3 DEF Open
    <3>2. QED
      BY <2>1, <2>2, <3>1, ClosedWindowsKept
  <2>4. QED
    BY <1>0, <2>1, <2>3, TotalsCommit
<1>13. ASSUME NEW p \in Procs, EndBreakCommit(p)
      PROVE  SerialTotals'
  <2> DEFINE w == target[p]
             ended == [win[w] EXCEPT !.end = stamp[p]]
  <2>1. /\ Finish(p) /\ UNCHANGED <<totals, checkOut, checkIn>>
        /\ day[p] \in Open /\ w \in OpenWindows(day[p], kind[p])
        /\ win' = [win EXCEPT ![w] = ended]
    BY <1>13 DEF EndBreakCommit, entryVars, SerialEntries, AtOpenEntry,
         SerialWindows
  <2>2. /\ w \in Windows /\ win[w] \in Window /\ win[w].day = day[p]
    BY <2>1 DEF OpenWindows, WindowsOf, Shape
  <2>3. ended.day = day[p]
    BY <2>2 DEF Window
  <2> HIDE DEF w, ended
  <2>4. /\ win'[w] = ended
        /\ \A v \in Windows : v # w => win'[v] = win[v]
    BY <2>1, <2>2 DEF Shape
  <2>5. ASSUME NEW d \in Days, checkOut[d] # None
        PROVE  ClosedWindows(d)' = ClosedWindows(d)
    <3>1. d # day[p]
      BY <2>1, <2>5 DEF Open
    <3>2. QED
      BY <2>2, <2>3, <2>4, <3>1, ClosedWindowsKept
  <2>6. QED
    BY <1>0, <2>1, <2>5, TotalsCommit
<1>14. ASSUME NEW p \in Procs, Abort(p)
      PROVE  SerialTotals'
  BY <1>0, <1>14, TotalsReject DEF Abort
<1>15. CASE Tick \/ UNCHANGED vars
  <2>1. UNCHANGED entryVars /\ UNCHANGED win
        /\ UNCHANGED <<pc, day, stamp, seen, sum>>
    BY <1>15 DEF Tick, vars, reqVars
  <2>2. QED
    BY <1>0, <2>1, TotalsFrame
<1>17. QED
  BY <1>1, <1>2, <1>3, <1>4, <1>5, <1>6, <1>7, <1>8, <1>9, <1>10,
     <1>13, <1>14, <1>15
     DEF Next, CheckIn, CheckOut, StartBreak, EndBreak

-----------------------------------------------------------------------------
\* With one slot the inductive invariant holds in every reachable state.
THEOREM SerialInvariance ==
  ASSUME OneAtATime
  PROVE  Spec => [](Shape /\ SerialInv)
<1>1. Init => Shape /\ SerialInv
  <2>1. Init => Shape
    BY TimeAssumption
       DEF Init, Shape, Labels, Times
  <2>2. Init => SerialEntries /\ SerialWindows /\ SerialClock
    BY DEF Init, SerialEntries, SerialWindows, SerialClock, WellNested, Open,
           OpenWindows, WindowsOf, AtOpenEntry, CheckingOut
  <2>3. Init => SerialTotals
    BY DEF Init, SerialTotals, IsTotals, NoTotals, TotalsMatch, CheckingOut
  <2>4. QED
    BY <2>1, <2>2, <2>3 DEF SerialInv
<1>2. Shape /\ SerialInv /\ [Next]_vars => (Shape /\ SerialInv)'
  BY ShapeStep, SerialEntriesStep, SerialWindowsStep, SerialClockStep,
     SerialTotalsStep
     DEF SerialInv
<1>3. QED
  BY <1>1, <1>2, PTL DEF Spec

\* Requests that do not overlap leave entries that start before they end and
\* hold their breaks, whatever crashes or fails (check_out, start_break,
\* end_break).
THEOREM SerialWellNested ==
  ASSUME OneAtATime
  PROVE  Spec => []WellNested
BY SerialInvariance, PTL DEF SerialInv, SerialClock

\* Requests that do not overlap leave each checked-out entry the totals
\* summarize_entry computes from what is stored of it (check_out).
THEOREM SerialTotalsMatch ==
  ASSUME OneAtATime
  PROVE  Spec => []TotalsMatch
BY SerialInvariance, PTL DEF SerialInv, SerialTotals

-----------------------------------------------------------------------------
(***************************************************************************)
(* The time sheet.                                                         *)
(***************************************************************************)
Running == IF Open = {} THEN None ELSE CHOOSE d \in Open : TRUE
Closed == {d \in Days : checkOut[d] # None}
Pausing == {k \in Kinds : \E d \in Open : OpenWindows(d, k) # {}}

\* The one member of a set.
LEMMA ChooseOnly ==
  ASSUME NEW S, NEW d \in S, \A e \in S : e = d
  PROVE  (CHOOSE e \in S : TRUE) = d
OBVIOUS

\* The running entry is the open one.
LEMMA RunningIsOpen ==
  ASSUME SerialEntries
  PROVE  /\ \A d \in Open : Running = d
         /\ Open = {} => Running = None
         /\ Running = None => Open = {}
         /\ Running # None => Open = {Running}
<1>1. \A d \in Open : Running = d
  <2>1. SUFFICES ASSUME NEW d \in Open
                 PROVE  Running = d
    OBVIOUS
  <2>2. \A e \in Open : e = d
    BY <2>1 DEF SerialEntries
  <2>3. QED
    BY <2>1, <2>2, ChooseOnly DEF Running
<1>2. None \notin Open
  BY TimeAssumption DEF Open
<1>3. Open = {} => Running = None
  BY DEF Running
<1>4. Running = None => Open = {}
  BY <1>1, <1>2
<1>5. Running # None => Open = {Running}
  <2>1. SUFFICES ASSUME Running # None
                 PROVE  Open = {Running}
    OBVIOUS
  <2>2. PICK d : d \in Open
    BY <1>3, <2>1
  <2>3. \A e \in Open : e = d
    BY <2>2 DEF SerialEntries
  <2>4. QED
    BY <1>1, <2>2, <2>3
<1>6. QED
  BY <1>1, <1>3, <1>4, <1>5

\* A step that stores nothing leaves the sheet as it is.
LEMMA SheetFrame ==
  ASSUME UNCHANGED <<checkIn, checkOut, win>>
  PROVE  Running' = Running /\ Closed' = Closed /\ Pausing' = Pausing
<1>1. Open' = Open
  BY DEF Open
<1>2. \A d, k : OpenWindows(d, k)' = OpenWindows(d, k)
  BY DEF OpenWindows, WindowsOf
<1>3. QED
  BY <1>1, <1>2 DEF Running, Closed, Pausing

SheetStep ==
    \/ \E d \in Days : /\ Running = None /\ d \notin Closed /\ Running' = d
                       /\ Closed' = Closed /\ Pausing' = Pausing
    \/ /\ Running # None /\ Closed' = Closed \cup {Running}
       /\ Running' = None /\ Pausing' = {}
    \/ \E k \in Kinds : /\ Running # None /\ k \notin Pausing
                        /\ Pausing' = Pausing \cup {k}
                        /\ Running' = Running /\ Closed' = Closed
    \/ \E k \in Kinds : /\ k \in Pausing /\ Pausing' = Pausing \ {k}
                        /\ Running' = Running /\ Closed' = Closed
    \/ Running' = Running /\ Closed' = Closed /\ Pausing' = Pausing

\* The abstract step, in terms of the mapped state.
LEMMA SheetStepIs ==
  ASSUME SheetStep
  PROVE  [Sheet!Next]_(Sheet!sheet)
BY DEF SheetStep, Running, Closed, Pausing, Sheet!Next, Sheet!CheckIn,
       Sheet!CheckOut, Sheet!StartBreak, Sheet!EndBreak, Sheet!sheet

\* The INSERT of a check-in starts the day.
LEMMA InsertStartsDay ==
  ASSUME OneAtATime, Shape, SerialEntries, SerialWindows, SerialEntries',
         NEW p \in Procs, CheckInInsert(p)
  PROVE  SheetStep
<1>1. CASE Reject(p)
  BY <1>1, SheetFrame DEF Reject, entryVars, SheetStep
<1>2. CASE ~Reject(p)
  <2> PICK d : d = day[p]
    OBVIOUS
  <2>1. /\ pc[p] = "in_insert" /\ checkIn[d] = None
        /\ checkIn' = [checkIn EXCEPT ![d] = now]
        /\ checkOut' = checkOut /\ win' = win
    BY <1>2 DEF CheckInInsert
  <2>2. /\ d \in Days /\ Open = {} /\ checkOut[d] = None /\ now # None
    BY <2>1, TimeAssumption DEF Shape, SerialEntries
  <2>3. d \in Open'
    BY <2>1, <2>2 DEF Open, Shape
  <2>4. Running = None /\ Running' = d
    <3>1. \A e \in Open' : e = d
      BY <2>3 DEF SerialEntries
    <3>2. QED
      BY <2>2, <2>3, <3>1, ChooseOnly DEF Running
  <2>5. Closed' = Closed /\ d \notin Closed
    BY <2>1, <2>2 DEF Closed
  <2>6. Pausing = {}
    BY <2>2 DEF Pausing
  <2>7. Pausing' = {}
    <3>1. \A w \in Windows : ~(win'[w] # None /\ win'[w].day = d)
      BY <2>1 DEF SerialWindows
    <3>2. \A e \in Open' : e = d
      BY <2>3 DEF SerialEntries
    <3>3. \A k : OpenWindows(d, k)' = {}
      BY <3>1 DEF OpenWindows, WindowsOf
    <3>4. QED
      BY <3>2, <3>3 DEF Pausing
  <2>8. QED
    BY <2>2, <2>4, <2>5, <2>6, <2>7 DEF SheetStep
<1>3. QED
  BY <1>1, <1>2

\* The UPDATE of a check-out ends the day and what was paused in it.
LEMMA CommitEndsDay ==
  ASSUME OneAtATime, Shape, SerialEntries, SerialEntries',
         NEW p \in Procs, CheckOutCommit(p)
  PROVE  SheetStep
<1> DEFINE d == day[p]
<1>1. /\ d \in Open /\ stamp[p] # None
      /\ checkOut' = [checkOut EXCEPT ![d] = stamp[p]]
      /\ checkIn' = checkIn /\ win' = win
  BY TimeAssumption DEF CheckOutCommit, SerialEntries, Shape, AtOpenEntry,
     CheckingOut
<1> HIDE DEF d
<1>2. /\ d \in Days /\ checkOut'[d] = stamp[p]
      /\ \A e \in Days : e # d => checkOut'[e] = checkOut[e]
  BY <1>1 DEF Open, Shape
<1>3. Running = d /\ Open = {d} /\ d # None
  BY <1>1, <1>2, RunningIsOpen, TimeAssumption DEF SerialEntries
<1>4. Open' = {}
  BY <1>1, <1>2, <1>3 DEF Open
<1>5. Running' = None /\ Pausing' = {}
  BY <1>4 DEF Running, Pausing
<1>6. Closed' = Closed \cup {d}
  BY <1>1, <1>2 DEF Closed
<1>7. QED
  BY <1>3, <1>5, <1>6 DEF SheetStep

\* The INSERT of a window turns the break on.
LEMMA InsertStartsBreak ==
  ASSUME OneAtATime, Shape, SerialEntries, SerialWindows,
         NEW p \in Procs, NEW w \in Windows, StartBreakInsert(p, w)
  PROVE  SheetStep
<1>0. PICK d, b : d = day[p] /\ b = kind[p]
  OBVIOUS
<1> DEFINE new == [day |-> d, kind |-> b, start |-> stamp[p], end |-> None]
<1>1. /\ d \in Open /\ b \in Kinds /\ OpenWindows(d, b) = {}
      /\ win[w] = None /\ win' = [win EXCEPT ![w] = new]
      /\ checkIn' = checkIn /\ checkOut' = checkOut
  BY <1>0 DEF StartBreakInsert, SerialEntries, SerialWindows, Shape,
     AtOpenEntry, entryVars
<1>2. new.day = d /\ new.kind = b /\ new.end = None /\ new # None
  <2>1. new \in Window
    BY <1>1 DEF StartBreakInsert, Shape, Window, Open
  <2>2. QED
    BY <2>1, WindowAssumption
<1> HIDE DEF new
<1>3. /\ win'[w] = new /\ \A v \in Windows : v # w => win'[v] = win[v]
  BY <1>1 DEF Shape
<1>4. Open = {d} /\ Open' = Open /\ Running = d /\ d # None
  BY <1>1, RunningIsOpen, TimeAssumption DEF SerialEntries, Open
<1>5. \A k \in Kinds : OpenWindows(d, k)' =
         IF k = b THEN {w} ELSE OpenWindows(d, k)
  BY <1>1, <1>2, <1>3 DEF OpenWindows, WindowsOf
<1>6. Pausing' = Pausing \cup {b} /\ b \notin Pausing
  BY <1>1, <1>4, <1>5 DEF Pausing
<1>7. Running' = Running /\ Closed' = Closed
  BY <1>1, <1>4 DEF Running, Closed
<1>8. QED
  BY <1>1, <1>4, <1>6, <1>7 DEF SheetStep

\* The UPDATE of a window turns the break off.
LEMMA CommitEndsBreak ==
  ASSUME OneAtATime, Shape, SerialEntries, SerialWindows,
         NEW p \in Procs, EndBreakCommit(p)
  PROVE  SheetStep
<1>0. PICK d, b, w : d = day[p] /\ b = kind[p] /\ w = target[p]
  OBVIOUS
<1> DEFINE ended == [win[w] EXCEPT !.end = stamp[p]]
<1>1. /\ d \in Open /\ b \in Kinds /\ w \in OpenWindows(d, b)
      /\ stamp[p] # None /\ win' = [win EXCEPT ![w] = ended]
      /\ checkIn' = checkIn /\ checkOut' = checkOut
  BY <1>0, TimeAssumption DEF EndBreakCommit, SerialEntries, SerialWindows, Shape,
     AtOpenEntry, entryVars
<1>2. w \in Windows /\ win[w] \in Window
  BY <1>1 DEF OpenWindows, WindowsOf, Shape
<1>3. ended.end = stamp[p]
  BY <1>2 DEF Window
<1> HIDE DEF ended
<1>4. /\ win'[w] = ended /\ \A v \in Windows : v # w => win'[v] = win[v]
  BY <1>1, <1>2 DEF Shape
<1>5. Open = {d} /\ Open' = Open /\ Running = d /\ d # None /\ d \in Days
  BY <1>1, RunningIsOpen, TimeAssumption DEF SerialEntries, Open
<1>6. OpenWindows(d, b) = {w}
  BY <1>1, <1>5 DEF SerialWindows
<1>7. OpenWindows(d, b)' = {}
  BY <1>1, <1>3, <1>4, <1>6 DEF OpenWindows, WindowsOf
<1>8. \A k \in Kinds : k # b => OpenWindows(d, k)' = OpenWindows(d, k)
  <2>1. SUFFICES ASSUME NEW k \in Kinds, k # b
                 PROVE  OpenWindows(d, k)' = OpenWindows(d, k)
    OBVIOUS
  <2>2. w \notin OpenWindows(d, k)
    BY <1>6, <2>1 DEF OpenWindows, WindowsOf
  <2>3. w \notin OpenWindows(d, k)'
    BY <1>1, <1>3, <1>4 DEF OpenWindows, WindowsOf
  <2>4. QED
    BY <1>4, <2>2, <2>3 DEF OpenWindows, WindowsOf
<1>9. Pausing' = Pausing \ {b} /\ b \in Pausing
  BY <1>1, <1>5, <1>6, <1>7, <1>8 DEF Pausing
<1>10. Running' = Running /\ Closed' = Closed
  BY <1>1, <1>5 DEF Running, Closed
<1>11. QED
  BY <1>1, <1>9, <1>10 DEF SheetStep

\* Every other step leaves the sheet alone.
LEMMA StepIsSheetStep ==
  ASSUME OneAtATime, Shape, SerialEntries, SerialWindows, SerialEntries',
         [Next]_vars
  PROVE  SheetStep
<1>1. CASE UNCHANGED <<checkIn, checkOut, win>>
  BY <1>1, SheetFrame DEF SheetStep
<1>2. ASSUME NEW p \in Procs, CheckIn(p)
      PROVE  SheetStep
  BY <1>1, <1>2, InsertStartsDay
     DEF CheckIn, CheckInOpen, CheckInSelect, CheckInStamp, Reject, ReadOnly,
         entryVars, SerialEntries
<1>3. ASSUME NEW p \in Procs, CheckOut(p)
      PROVE  SheetStep
  BY <1>1, <1>3, CommitEndsDay
     DEF CheckOut, CheckOutOpen, CheckOutWindows, ReadOnly, entryVars
<1>4. ASSUME NEW p \in Procs, StartBreak(p)
      PROVE  SheetStep
  BY <1>1, <1>4, InsertStartsBreak
     DEF StartBreak, StartBreakOpen, LoadOpenEntry, StartBreakSelect, Reject,
         ReadOnly, entryVars
<1>5. ASSUME NEW p \in Procs, EndBreak(p)
      PROVE  SheetStep
  BY <1>1, <1>5, CommitEndsBreak
     DEF EndBreak, EndBreakOpen, LoadOpenEntry, EndBreakSelect, Reject,
         ReadOnly, entryVars
<1>6. ASSUME NEW p \in Procs, Abort(p)
      PROVE  SheetStep
  BY <1>1, <1>6 DEF Abort, Reject, entryVars
<1>7. CASE Tick \/ UNCHANGED vars
  BY <1>1, <1>7 DEF Tick, vars, entryVars
<1>8. QED
  BY <1>2, <1>3, <1>4, <1>5, <1>6, <1>7 DEF Next

\* Requests that do not overlap give the employee the time sheet TimeSheet
\* promises: one entry runs at a time, a day is worked once, a break is on or
\* off (app/modules/timeclock/router.py as a whole).
THEOREM SerialImplementsSheet ==
  ASSUME OneAtATime
  PROVE  Spec => ImplementsSheet
<1>1. Init => Sheet!Init
  BY DEF Init, Open, Sheet!Init
<1>2. Shape /\ SerialInv /\ (Shape /\ SerialInv)' /\ [Next]_vars
      => [Sheet!Next]_(Sheet!sheet)
  BY StepIsSheetStep, SheetStepIs DEF SerialInv
<1>3. QED
  BY <1>1, <1>2, SerialInvariance, PTL DEF Spec, ImplementsSheet, Sheet!Spec
=============================================================================
