------------------------- MODULE WorkTrackingProofs -------------------------
(***************************************************************************)
(* Proofs about WorkTracking, for every number of requests, accounts,      *)
(* tasks and tickets.                                                      *)
(***************************************************************************)
EXTENDS WorkTracking, TLAPS

Has(f, w) == f \in DOMAIN w

\* The columns a request may write to a task or to a ticket.
TaskWrites(w) ==
    /\ DOMAIN w \subseteq {"status", "stamped", "assignee"}
    /\ Has("status", w) => w["status"] \in TaskStatuses
    /\ Has("stamped", w) => w["stamped"] \in BOOLEAN
    /\ Has("assignee", w) => w["assignee"] \in Assignee

TicketWrites(w) ==
    /\ DOMAIN w \subseteq {"status", "assignee"}
    /\ Has("status", w) => w["status"] \in TicketStatuses
    /\ Has("assignee", w) => w["assignee"] \in Assignee

Creating  == {"create_validate", "create_commit"}
Updating  == {"update_validate", "update_commit"}
Opening   == {"open_validate", "open_commit"}
OfTicket  == {"ticket_validate", "ticket_task"}
Validates == {"create_validate", "update_validate", "open_validate", "ticket_validate"}

\* Ticket k still has the task t, or lost it because t was deleted.
SameTask(k, t) == ticket[k].task = t \/ (ticket[k].task = None /\ t \in deleted)

\* What a request holds at each await: rows it loaded are there or deleted,
\* and the ticket it loaded has lost its task or still has the same.
Fits(label, r) ==
    /\ DOMAIN r = DOMAIN Blank
    /\ r.task \in Tasks \cup {None} /\ r.ticket \in Tickets \cup {None}
    /\ r.assignee \in Assignee
    /\ r.row \in Task \cup {None} /\ r.copy \in Ticket \cup {None}
    /\ TaskWrites(r.writes) /\ TicketWrites(r.ticketWrites)
    /\ r.task # None => r.task \in deleted \/ task[r.task] # None
    /\ r.ticket # None => ticket[r.ticket] # None
    /\ label \in Creating \cup Opening => r.row \in Task
    /\ label \in Opening => r.copy \in Ticket
    /\ label \in Updating \cup {"delete_commit", "comment_commit"} => r.task \in Tasks
    /\ label \in OfTicket =>
          /\ r.task = None /\ DOMAIN r.writes = {}
          /\ r.ticket \in Tickets /\ r.copy \in Ticket
          /\ SameTask(r.ticket, r.copy.task)
          /\ r.copy.task # None => r.copy.task \in deleted \/ task[r.copy.task] # None
          /\ label = "ticket_task" => r.copy.task # None
    /\ label = "ticket_commit" =>
          /\ r.ticket \in Tickets
          /\ SameTask(r.ticket, r.task) /\ ~Has("stamped", r.writes)
          /\ DOMAIN r.writes # {} => r.task # None

\* A new assignee was active at some time, or is still to be looked up.
Backed(p, label, r) ==
    /\ label \in Validates /\ r.assignee \in active => p \in vouched
    /\ label \in {"create_validate", "open_validate"} => r.row.assignee = r.assignee
    /\ label \in {"create_commit", "open_commit"} => r.row.assignee = None \/ p \in vouched
    /\ Has("assignee", r.writes) =>
          /\ label = "update_validate" => r.writes["assignee"] = r.assignee
          /\ label = "update_commit" => r.writes["assignee"] = None \/ p \in vouched
    /\ Has("assignee", r.ticketWrites) =>
          /\ label = "ticket_validate" => r.ticketWrites["assignee"] = r.assignee
          /\ label \in {"ticket_task", "ticket_commit"} => 
                r.ticketWrites["assignee"] = None \/ p \in vouched
          /\ label \in OfTicket => r.copy.assignee = r.ticketWrites["assignee"]
          /\ label = "ticket_commit" /\ Has("assignee", r.writes) =>
                r.writes["assignee"] = r.ticketWrites["assignee"]

\* completed_at of the row that will be there after the commit.
Done(row) == row.stamped = (row.status = "DONE")

Stamps(p, label, r) ==
    /\ label \in Creating \cup Opening => Done(r.row)
    /\ (label \in Updating /\ p \notin stale /\ task[r.task] # None
        /\ (r.task \notin loose \/ Has("stamped", r.writes)))
       => Done(Written(task[r.task], r.writes))

\* What a ticket gives to its task.
SameAs(row, copy) == row.status = Image(copy.status) /\ row.assignee = copy.assignee

Copies(p, label, r) ==
    /\ label \in Opening => SameAs(r.row, r.copy)
    /\ label \in OfTicket /\ p \notin stale =>
          LET new == Written(ticket[r.ticket], r.ticketWrites) IN
          r.copy.status = new.status /\ r.copy.assignee = new.assignee
    /\ (label = "ticket_commit" /\ p \notin stale /\ r.task # None /\ task[r.task] # None)
       => SameAs(Written(task[r.task], r.writes), Written(ticket[r.ticket], r.ticketWrites))

Facts(p, label, r) ==
    Fits(label, r) /\ Backed(p, label, r) /\ Stamps(p, label, r) /\ Copies(p, label, r)

\* The rows: no ticket shares its task.
Rows ==
    /\ active \subseteq Users
    /\ task \in [Tasks -> Task \cup {None}]
    /\ ticket \in [Tickets -> Ticket \cup {None}]
    /\ comments \subseteq {t \in Tasks : task[t] # None}
    /\ \A k \in Tickets : ticket[k] # None /\ ticket[k].task # None
                             => task[ticket[k].task] # None
    /\ \A k, l \in Tickets :
          (ticket[k] # None /\ ticket[l] # None /\ ticket[k].task # None
           /\ ticket[k].task = ticket[l].task) => k = l
    /\ deleted \subseteq Tasks /\ loose \subseteq Tasks /\ drifted \subseteq Tasks
    /\ \A t \in deleted : task[t] = None

Requests ==
    /\ pc \in [Procs -> Labels]
    /\ req = [p \in Procs |-> req[p]]
    /\ stale \subseteq Procs /\ vouched \subseteq Procs
    /\ \A p \in Procs : Facts(p, pc[p], req[p])

IInv == Rows /\ Requests /\ CompletionStamped /\ Mirrors
-----------------------------------------------------------------------------
LEMMA WrittenTask ==
  ASSUME NEW row \in Task, NEW w, TaskWrites(w)
  PROVE  /\ Written(row, w) \in Task
         /\ Written(row, w).status = IF Has("status", w) THEN w["status"] ELSE row.status
         /\ Written(row, w).stamped = IF Has("stamped", w) THEN w["stamped"] ELSE row.stamped
         /\ Written(row, w).assignee = IF Has("assignee", w) THEN w["assignee"] ELSE row.assignee
<1>1. DOMAIN row = {"status", "stamped", "assignee", "creator"}
  BY DEF Task
<1>2. "creator" \notin DOMAIN w
  BY DEF TaskWrites
<1>3. QED
  BY <1>1, <1>2 DEF Written, Task, TaskWrites, Has

LEMMA WrittenTicket ==
  ASSUME NEW row \in Ticket, NEW w, TicketWrites(w)
  PROVE  /\ Written(row, w) \in Ticket
         /\ Written(row, w).task = row.task
         /\ Written(row, w).status = IF Has("status", w) THEN w["status"] ELSE row.status
         /\ Written(row, w).assignee = IF Has("assignee", w) THEN w["assignee"] ELSE row.assignee
<1>1. DOMAIN row = {"status", "assignee", "owner", "task"}
  BY DEF Ticket
<1>2. "owner" \notin DOMAIN w /\ "task" \notin DOMAIN w
  BY DEF TicketWrites
<1>3. QED
  BY <1>1, <1>2 DEF Written, Ticket, TicketWrites, Has

LEMMA ImageType ==
  ASSUME NEW s \in TicketStatuses
  PROVE  Image(s) \in TaskStatuses
BY StatusAssumption DEF Image

LEMMA EmptyWrites ==
  ASSUME NEW w, DOMAIN w = {}
  PROVE  TaskWrites(w) /\ TicketWrites(w)
BY DEF TaskWrites, TicketWrites, Has

LEMMA BlankFacts ==
  ASSUME NEW p
  PROVE  Facts(p, "idle", Blank) /\ Facts(p, "idle", Blank)'
<1>1. TaskWrites(Blank.writes) /\ TicketWrites(Blank.ticketWrites)
      /\ ~Has("assignee", Blank.writes) /\ ~Has("assignee", Blank.ticketWrites)
  BY DEF Blank, TaskWrites, TicketWrites, Has
<1>2. /\ Blank.task = None /\ Blank.ticket = None /\ Blank.assignee = None
      /\ Blank.row = None /\ Blank.copy = None
  BY DEF Blank
<1>3. QED
  BY <1>1, <1>2 DEF Facts, Fits, Backed, Stamps, Copies, Creating, Updating, Opening, OfTicket,
                    Validates, Assignee

LEMMA InitIInv == Init => IInv
<1> SUFFICES ASSUME Init  PROVE IInv
  OBVIOUS
<1>1. Rows
  BY DEF Init, Rows
<1>2. Requests
  BY BlankFacts DEF Init, Requests, Labels
<1>3. CompletionStamped /\ Mirrors
  BY DEF Init, CompletionStamped, Mirrors
<1>4. QED
  BY <1>1, <1>2, <1>3 DEF IInv
-----------------------------------------------------------------------------
(***************************************************************************)
(* The requests a step is not about.                                       *)
(***************************************************************************)

\* What a step leaves of the rows that request q holds.
Steady(q, r) ==
    /\ q \in vouched => q \in vouched'
    /\ r.assignee \in active' => r.assignee \in active \/ q \in vouched'
    /\ deleted \subseteq deleted'
    /\ q \in stale => q \in stale'
    /\ \A t \in Tasks : task[t] # None => task'[t] # None \/ t \in deleted'
    /\ \A k \in Tickets : ticket[k] # None =>
          /\ ticket'[k] \in Ticket
          /\ \/ ticket'[k].task = ticket[k].task
             \/ ticket'[k].task = None /\ ticket[k].task \in deleted'
    /\ q \notin stale' =>
          /\ r.task # None => /\ task'[r.task] = task[r.task]
                              /\ r.task \in loose' <=> r.task \in loose
          /\ r.ticket # None => /\ ticket'[r.ticket].status = ticket[r.ticket].status
                                /\ ticket'[r.ticket].assignee = ticket[r.ticket].assignee

LEMMA FactsOn ==
  ASSUME Rows, NEW q, NEW label, NEW r, Facts(q, label, r), Steady(q, r)
  PROVE  Facts(q, label, r)'
<1>1. ASSUME NEW k \in Tickets, ticket[k] # None
      PROVE  /\ ticket[k] \in Ticket /\ ticket'[k] \in Ticket /\ ticket'[k] # None
             /\ \/ ticket'[k].task = ticket[k].task
                \/ ticket'[k].task = None /\ ticket[k].task \in deleted'
  BY <1>1, NoneAssumption DEF Rows, Steady
<1>2. Fits(label, r)'
  <2>1. Fits(label, r)
    BY DEF Facts
  <2>2. r.task # None => r.task \in deleted' \/ task'[r.task] # None
    BY <2>1 DEF Fits, Steady
  <2>3. r.ticket # None => ticket'[r.ticket] # None
    BY <2>1, <1>1 DEF Fits
  <2>4. ASSUME label \in OfTicket
        PROVE  /\ r.task = None /\ DOMAIN r.writes = {}
               /\ r.ticket \in Tickets /\ r.copy \in Ticket
               /\ SameTask(r.ticket, r.copy.task)'
               /\ r.copy.task # None => r.copy.task \in deleted' \/ task'[r.copy.task] # None
               /\ label = "ticket_task" => r.copy.task # None
    <3>1. /\ r.task = None /\ DOMAIN r.writes = {}
          /\ r.ticket \in Tickets /\ r.copy \in Ticket /\ ticket[r.ticket] # None
          /\ SameTask(r.ticket, r.copy.task)
          /\ r.copy.task # None => r.copy.task \in deleted \/ task[r.copy.task] # None
          /\ label = "ticket_task" => r.copy.task # None
      BY <2>1, <2>4, NoneAssumption DEF Fits
    <3>2. r.copy.task \in Tasks \cup {None}
      BY <3>1 DEF Ticket
    <3>3. QED
      BY <1>1, <3>1, <3>2 DEF Steady, SameTask
  <2>5. ASSUME label = "ticket_commit"
        PROVE  /\ r.ticket \in Tickets
               /\ SameTask(r.ticket, r.task)' /\ ~Has("stamped", r.writes)
               /\ DOMAIN r.writes # {} => r.task # None
    BY <1>1, <2>1, <2>5, NoneAssumption DEF Fits, SameTask, Steady
  <2>6. QED
    BY <2>1, <2>2, <2>3, <2>4, <2>5 DEF Fits
<1>3. Backed(q, label, r)'
  BY DEF Facts, Backed, Steady
<1>4. Stamps(q, label, r)'
  <2>1. /\ Stamps(q, label, r)
        /\ label \in Updating => r.task \in Tasks
    BY DEF Facts, Fits
  <2>2. label \in Updating => r.task # None
    BY <2>1, NoneAssumption
  <2>3. QED
    BY <2>1, <2>2 DEF Stamps, Steady, Done
<1>5. Copies(q, label, r)'
  <2>1. Copies(q, label, r) /\ TicketWrites(r.ticketWrites) /\ TaskWrites(r.writes)
    BY DEF Facts, Fits
  <2>2. (q \notin stale => q \notin stale) /\ (q \notin stale' => q \notin stale)
    BY DEF Steady
  <2>3. ASSUME label \in OfTicket \cup {"ticket_commit"}, q \notin stale'
        PROVE  /\ Written(ticket'[r.ticket], r.ticketWrites).status
                  = Written(ticket[r.ticket], r.ticketWrites).status
               /\ Written(ticket'[r.ticket], r.ticketWrites).assignee
                  = Written(ticket[r.ticket], r.ticketWrites).assignee
    <3>1. r.ticket \in Tickets /\ r.ticket # None /\ ticket[r.ticket] # None
      BY <2>3, NoneAssumption DEF Facts, Fits
    <3>2. /\ ticket[r.ticket] \in Ticket /\ ticket'[r.ticket] \in Ticket
          /\ ticket'[r.ticket].status = ticket[r.ticket].status
          /\ ticket'[r.ticket].assignee = ticket[r.ticket].assignee
      BY <1>1, <2>3, <3>1 DEF Steady
    <3>3. QED
      BY <2>1, <3>2, WrittenTicket
  <2>4. label \in Opening => SameAs(r.row, r.copy)
    BY <2>1 DEF Copies
  <2>5. ASSUME label \in OfTicket, q \notin stale'
        PROVE  /\ r.copy.status = Written(ticket'[r.ticket], r.ticketWrites).status
               /\ r.copy.assignee = Written(ticket'[r.ticket], r.ticketWrites).assignee
    BY <2>1, <2>2, <2>3, <2>5 DEF Copies
  <2>6. ASSUME label = "ticket_commit", q \notin stale', r.task # None, task'[r.task] # None
        PROVE  SameAs(Written(task'[r.task], r.writes), Written(ticket'[r.ticket], r.ticketWrites))
    <3>1. task'[r.task] = task[r.task]
      BY <2>6 DEF Steady
    <3>2. SameAs(Written(task[r.task], r.writes), Written(ticket[r.ticket], r.ticketWrites))
      BY <2>1, <2>2, <2>6, <3>1 DEF Copies
    <3>3. QED
      BY <2>3, <2>6, <3>1, <3>2 DEF SameAs
  <2>7. QED
    BY <2>4, <2>5, <2>6 DEF Copies, SameAs
<1>6. QED
  BY <1>2, <1>3, <1>4, <1>5 DEF Facts

\* Nothing in the database changes.
LEMMA ContinueStep ==
  ASSUME IInv, NEW p \in Procs, NEW label \in Labels, NEW r, Continue(p, label, r),
         Facts(p, label, r)
  PROVE  IInv'
<1>1. /\ pc' = [pc EXCEPT ![p] = label] /\ req' = [req EXCEPT ![p] = r]
      /\ active' = active /\ task' = task /\ ticket' = ticket /\ comments' = comments
      /\ deleted' = deleted /\ loose' = loose /\ drifted' = drifted
      /\ stale' = stale /\ vouched' = vouched
  BY DEF Continue, dbVars, rowHist, procHist
<1>2. ASSUME NEW q, NEW s  PROVE Steady(q, s)
  BY <1>1 DEF Steady, IInv, Rows
<1>3. ASSUME NEW q \in Procs  PROVE Facts(q, pc[q], req[q])'
  <2>1. CASE q = p
    <3>1. pc'[q] = label /\ req'[q] = r /\ Facts(p, label, r)'
      BY <1>1, <1>2, <2>1, FactsOn DEF IInv, Requests
    <3>2. QED
      BY <2>1, <3>1
  <2>2. CASE q # p
    <3>1. pc'[q] = pc[q] /\ req'[q] = req[q] /\ Facts(q, pc[q], req[q])
      BY <1>1, <2>2 DEF IInv, Requests
    <3>2. QED
      BY <1>2, <3>1, FactsOn DEF IInv
  <2>3. QED
    BY <2>1, <2>2
<1>4. Requests'
  BY <1>1, <1>3 DEF IInv, Requests
<1>5. Rows' /\ CompletionStamped' /\ Mirrors'
  BY <1>1 DEF IInv, Rows, CompletionStamped, Mirrors
<1>6. QED
  BY <1>4, <1>5 DEF IInv
-----------------------------------------------------------------------------
(***************************************************************************)
(* Requests that begin.                                                    *)
(***************************************************************************)

\* Only who is vouched for changes, besides the request itself.
LEMMA BeginStep ==
  ASSUME IInv, NEW p \in Procs, NEW u, NEW label \in Labels, NEW r, NEW a, NEW s,
         Begin(p, u, label, r, a),
         s = [r EXCEPT !.assignee = IF a = Unset THEN None ELSE a],
         Fits(label, s), Stamps(p, label, s), Copies(p, label, s), Backed(p, label, s)'
  PROVE  IInv'
<1>1. /\ pc' = [pc EXCEPT ![p] = label] /\ req' = [req EXCEPT ![p] = s]
      /\ active' = active /\ task' = task /\ ticket' = ticket /\ comments' = comments
      /\ deleted' = deleted /\ loose' = loose /\ drifted' = drifted
      /\ stale' = stale /\ vouched \subseteq vouched' /\ vouched' \subseteq vouched \cup {p}
  BY DEF Begin, dbVars, rowHist
<1>2. ASSUME NEW q, NEW x  PROVE Steady(q, x)
  BY <1>1 DEF Steady, IInv, Rows
<1>3. ASSUME NEW q \in Procs  PROVE Facts(q, pc[q], req[q])'
  <2>1. CASE q = p
    <3>1. pc'[q] = label /\ req'[q] = s
      BY <1>1, <2>1 DEF IInv, Requests
    <3>2. Fits(label, s)' /\ Stamps(p, label, s)' /\ Copies(p, label, s)'
      BY <1>1 DEF Fits, Stamps, Copies, SameTask
    <3>3. QED
      BY <2>1, <3>1, <3>2 DEF Facts
  <2>2. CASE q # p
    <3>1. pc'[q] = pc[q] /\ req'[q] = req[q] /\ Facts(q, pc[q], req[q])
      BY <1>1, <2>2 DEF IInv, Requests
    <3>2. QED
      BY <1>2, <3>1, FactsOn DEF IInv
  <2>3. QED
    BY <2>1, <2>2
<1>4. Requests'
  BY <1>1, <1>3 DEF IInv, Requests
<1>5. Rows' /\ CompletionStamped' /\ Mirrors'
  BY <1>1 DEF IInv, Rows, CompletionStamped, Mirrors
<1>6. QED
  BY <1>4, <1>5 DEF IInv

LEMMA CreateStep ==
  ASSUME IInv, NEW p \in Procs, NEW u \in Users, NEW st \in TaskStatuses, NEW a \in Assignee,
         Create(p, u, st, a)
  PROVE  IInv'
<1> DEFINE row == [status |-> st, stamped |-> st = "DONE", assignee |-> a, creator |-> u]
           r == [Blank EXCEPT !.row = row]
           s == [r EXCEPT !.assignee = IF a = Unset THEN None ELSE a]
           label == IF a = None THEN "create_commit" ELSE "create_validate"
<1>1. Begin(p, u, label, r, a) /\ label \in Labels
  BY DEF Create, Labels
<1>2. /\ DOMAIN s = DOMAIN Blank /\ s.row = row /\ s.task = None /\ s.ticket = None
      /\ s.copy = None /\ DOMAIN s.writes = {} /\ DOMAIN s.ticketWrites = {}
      /\ s.assignee = IF a = Unset THEN None ELSE a
  BY DEF Blank
<1>3. row \in Task /\ Done(row)
  BY DEF Task, Done
<1>4. Fits(label, s)
  BY <1>2, <1>3, EmptyWrites
     DEF Fits, Creating, Opening, Updating, OfTicket, Assignee
<1>5. Stamps(p, label, s) /\ Copies(p, label, s)
  BY <1>2, <1>3 DEF Stamps, Copies, Creating, Opening, Updating, OfTicket
<1>6. Backed(p, label, s)'
  <2>1. a # Unset /\ (a \in active => p \in vouched') /\ active' = active
    BY <1>1, UnsetAssumption DEF Begin, dbVars
  <2>2. s.assignee = a /\ s.row.assignee = a
    BY <1>2, <2>1
  <2>3. ~Has("assignee", s.writes) /\ ~Has("assignee", s.ticketWrites)
    BY <1>2 DEF Has
  <2>4. label = "create_commit" => a = None
    OBVIOUS
  <2>5. QED
    BY <2>1, <2>2, <2>3, <2>4 DEF Backed, Validates
<1>7. QED
  BY <1>1, <1>4, <1>5, <1>6, BeginStep

LEMMA OpenStep ==
  ASSUME IInv, NEW p \in Procs, NEW u \in Users, NEW a \in Assignee, Open(p, u, a)
  PROVE  IInv'
<1> DEFINE row == [status |-> "TODO", stamped |-> FALSE, assignee |-> a, creator |-> u]
           copy == [status |-> "OPEN", assignee |-> a, owner |-> u, task |-> None]
           r == [Blank EXCEPT !.row = row, !.copy = copy]
           s == [r EXCEPT !.assignee = IF a = Unset THEN None ELSE a]
           label == IF a = None THEN "open_commit" ELSE "open_validate"
<1>1. Begin(p, u, label, r, a) /\ label \in Labels
  BY DEF Open, Labels
<1>2. /\ DOMAIN s = DOMAIN Blank /\ s.row = row /\ s.task = None /\ s.ticket = None
      /\ s.copy = copy /\ DOMAIN s.writes = {} /\ DOMAIN s.ticketWrites = {}
      /\ s.assignee = IF a = Unset THEN None ELSE a
  BY DEF Blank
<1>3. row \in Task /\ Done(row) /\ copy \in Ticket /\ SameAs(row, copy)
  BY StatusAssumption DEF Task, Ticket, Done, SameAs, Image
<1>4. Fits(label, s)
  BY <1>2, <1>3, EmptyWrites
     DEF Fits, Creating, Opening, Updating, OfTicket, Assignee
<1>5. Stamps(p, label, s) /\ Copies(p, label, s)
  BY <1>2, <1>3 DEF Stamps, Copies, Creating, Opening, Updating, OfTicket
<1>6. Backed(p, label, s)'
  <2>1. a # Unset /\ (a \in active => p \in vouched') /\ active' = active
    BY <1>1, UnsetAssumption DEF Begin, dbVars
  <2>2. s.assignee = a /\ s.row.assignee = a
    BY <1>2, <2>1
  <2>3. ~Has("assignee", s.writes) /\ ~Has("assignee", s.ticketWrites)
    BY <1>2 DEF Has
  <2>4. label = "open_commit" => a = None
    OBVIOUS
  <2>5. QED
    BY <2>1, <2>2, <2>3, <2>4 DEF Backed, Validates
<1>7. QED
  BY <1>1, <1>4, <1>5, <1>6, BeginStep

\* A request that has loaded a task and writes nothing to it yet.
LEMMA LoadStep ==
  ASSUME IInv, NEW p \in Procs, NEW u \in Users, NEW t \in Tasks, NEW label,
         label \in {"delete_commit", "comment_commit"}, task[t] # None,
         Begin(p, u, label, [Blank EXCEPT !.task = t], None)
  PROVE  IInv'
<1> DEFINE r == [Blank EXCEPT !.task = t]
           s == [r EXCEPT !.assignee = IF None = Unset THEN None ELSE None]
<1>1. /\ DOMAIN s = DOMAIN Blank /\ s.row = None /\ s.task = t /\ s.ticket = None
      /\ s.copy = None /\ DOMAIN s.writes = {} /\ DOMAIN s.ticketWrites = {}
      /\ s.assignee = None
  BY DEF Blank
<1>2. Fits(label, s)
  BY <1>1, EmptyWrites DEF Fits, Creating, Opening, Updating, OfTicket, Assignee
<1>3. Stamps(p, label, s) /\ Copies(p, label, s)
  BY <1>1 DEF Stamps, Copies, Creating, Opening, Updating, OfTicket
<1>4. Backed(p, label, s)'
  BY <1>1 DEF Backed, Validates, OfTicket, Has
<1>5. label \in Labels
  BY DEF Labels
<1>6. QED
  BY <1>2, <1>3, <1>4, <1>5, BeginStep

LEMMA DeleteStep ==
  ASSUME IInv, NEW p \in Procs, NEW u \in Users, NEW t \in Tasks, Delete(p, u, t)
  PROVE  IInv'
BY LoadStep DEF Delete

LEMMA CommentStep ==
  ASSUME IInv, NEW p \in Procs, NEW u \in Users, NEW t \in Tasks, Comment(p, u, t)
  PROVE  IInv'
BY LoadStep DEF Comment

LEMMA UpdateStep ==
  ASSUME IInv, NEW p \in Procs, NEW u \in Users, NEW t \in Tasks,
         NEW st \in TaskStatuses \cup {Unset}, NEW a \in Assignee \cup {Unset},
         Update(p, u, t, st, a)
  PROVE  IInv'
<1> DEFINE row == task[t]
           new == [row EXCEPT !.status = IF st = Unset THEN @ ELSE st,
                              !.stamped = Stamp(row, st),
                              !.assignee = IF a = Unset THEN @ ELSE a]
           label == IF a \in {Unset, None} THEN "update_commit" ELSE "update_validate"
<1>0. PICK w : w = [f \in DOMAIN Changes(row, new)
                            \cup IF st = "DONE" THEN {"stamped"} ELSE {} |-> new[f]]
  OBVIOUS
<1> DEFINE r == [Blank EXCEPT !.task = t, !.writes = w]
           s == [r EXCEPT !.assignee = IF a = Unset THEN None ELSE a]
<1>1. Begin(p, u, label, r, a) /\ label \in Labels /\ row # None
  BY <1>0 DEF Update, Labels
<1>2. row \in Task
  BY <1>1 DEF IInv, Rows
<1>3. /\ DOMAIN s = DOMAIN Blank /\ s.row = None /\ s.task = t /\ s.ticket = None
      /\ s.copy = None /\ s.writes = w /\ DOMAIN s.ticketWrites = {}
      /\ s.assignee = IF a = Unset THEN None ELSE a
  BY DEF Blank
<1>4. /\ new \in Task
      /\ new.status = IF st = Unset THEN row.status ELSE st
      /\ new.stamped = Stamp(row, st)
      /\ new.assignee = IF a = Unset THEN row.assignee ELSE a
      /\ new.creator = row.creator
      /\ DOMAIN row = {"status", "stamped", "assignee", "creator"}
      /\ DOMAIN new = DOMAIN row
  BY <1>2 DEF Task, Stamp
<1>5. /\ DOMAIN w \subseteq {"status", "stamped", "assignee"}
      /\ \A f \in DOMAIN w : w[f] = new[f]
      /\ \A f \in {"status", "stamped", "assignee"} :
            f \in DOMAIN w <=> new[f] # row[f] \/ (f = "stamped" /\ st = "DONE")
  BY <1>0, <1>4 DEF Changes
<1>6. TaskWrites(w)
  BY <1>4, <1>5 DEF TaskWrites, Has, Task
<1>7. Fits(label, s)
  BY <1>1, <1>3, <1>6, EmptyWrites DEF Fits, Creating, Opening, Updating, OfTicket, Assignee
<1>8. /\ Written(row, w).status = new.status
      /\ Written(row, w).stamped = new.stamped
      /\ Written(row, w).assignee = new.assignee
  <2>1. new["status"] = new.status /\ row["status"] = row.status
        /\ new["stamped"] = new.stamped /\ row["stamped"] = row.stamped
        /\ new["assignee"] = new.assignee /\ row["assignee"] = row.assignee
    OBVIOUS
  <2> HIDE DEF new
  <2>2. Written(row, w).status = new.status
    BY <1>2, <1>5, <1>6, <2>1, WrittenTask DEF Has
  <2>3. Written(row, w).stamped = new.stamped
    BY <1>2, <1>5, <1>6, <2>1, WrittenTask DEF Has
  <2>4. Written(row, w).assignee = new.assignee
    BY <1>2, <1>5, <1>6, <2>1, WrittenTask DEF Has
  <2>5. QED
    BY <2>2, <2>3, <2>4
<1>9. (t \notin loose \/ Has("stamped", w)) => Done(Written(row, w))
  <2>1. CASE st = Unset
    <3>1. new.stamped = row.stamped /\ new.status = row.status
      BY <1>4, <2>1 DEF Stamp
    <3>2. ~Has("stamped", w)
      BY <1>5, <2>1, <3>1 DEF Has, Unset
    <3>3. t \notin loose => Done(row)
      BY <1>1, <1>2 DEF IInv, CompletionStamped, Done, Task
    <3>4. QED
      BY <1>8, <3>1, <3>2, <3>3 DEF Done
  <2>2. CASE st # Unset
    BY <1>4, <1>8, <2>2 DEF Stamp, Done
  <2>3. QED
    BY <2>1, <2>2
<1>10. Stamps(p, label, s) /\ Copies(p, label, s)
  BY <1>3, <1>9 DEF Stamps, Copies, Creating, Opening, Updating, OfTicket
<1>11. Backed(p, label, s)'
  <2>1. (a \in active => p \in vouched') /\ active' = active
    BY <1>1 DEF Begin, dbVars
  <2>2. None \notin active
    BY NoneAssumption DEF IInv, Rows
  <2>3. Has("assignee", w) => a # Unset /\ w["assignee"] = a
    BY <1>4, <1>5 DEF Has
  <2>4. ~Has("assignee", s.ticketWrites)
    BY <1>3 DEF Has
  <2>5. /\ label \in {"update_commit", "update_validate"}
        /\ label = "update_commit" => a \in {Unset, None}
        /\ label = "update_validate" => s.assignee = a
        /\ s.writes = w
    BY <1>3
  <2> HIDE DEF s, label
  <2>6. Has("assignee", s.writes) =>
          /\ label = "update_validate" => s.writes["assignee"] = s.assignee
          /\ label = "update_commit" => s.writes["assignee"] = None
    BY <2>3, <2>5
  <2>7. label \in Validates /\ s.assignee \in active' => p \in vouched'
    BY <2>1, <2>5 DEF Validates
  <2>8. QED
    BY <2>4, <2>5, <2>6, <2>7 DEF Backed
<1>12. s = [r EXCEPT !.assignee = IF a = Unset THEN None ELSE a]
  OBVIOUS
<1> HIDE DEF s, r, label
<1>13. QED
  BY <1>1, <1>7, <1>10, <1>11, <1>12, BeginStep
LEMMA UpdateTicketStep ==
  ASSUME IInv, NEW p \in Procs, NEW u \in Users, NEW k \in Tickets,
         NEW st \in TicketStatuses \cup {Unset}, NEW a \in Users \cup {Unset},
         UpdateTicket(p, u, k, st, a)
  PROVE  IInv'
<1> DEFINE row == ticket[k]
<1>1. PICK new : new = [row EXCEPT !.status = IF st = Unset THEN @ ELSE st,
                                   !.assignee = IF a = Unset THEN @ ELSE a]
  OBVIOUS
<1>2. PICK w : w = Changes(row, new)
  OBVIOUS
<1>3. PICK label : label = IF a # Unset THEN "ticket_validate" ELSE AfterAssignee(row)
  OBVIOUS
<1> DEFINE r == [Blank EXCEPT !.ticket = k, !.ticketWrites = w, !.copy = new]
           s == [r EXCEPT !.assignee = IF a = Unset THEN None ELSE a]
<1>4. Begin(p, u, label, r, a) /\ row # None
  BY <1>1, <1>2, <1>3 DEF UpdateTicket
<1>5. label \in {"ticket_validate", "ticket_task", "ticket_commit"} /\ label \in Labels
  BY <1>3 DEF AfterAssignee, Labels
<1>6. row \in Ticket
  BY <1>4 DEF IInv, Rows
<1>7. /\ new \in Ticket
      /\ new.status = IF st = Unset THEN row.status ELSE st
      /\ new.assignee = IF a = Unset THEN row.assignee ELSE a
      /\ new.owner = row.owner /\ new.task = row.task
      /\ DOMAIN row = {"status", "assignee", "owner", "task"}
      /\ DOMAIN new = DOMAIN row
      /\ new["status"] = new.status /\ new["assignee"] = new.assignee
      /\ row["status"] = row.status /\ row["assignee"] = row.assignee
  BY <1>1, <1>6 DEF Ticket, Assignee
<1>8. /\ DOMAIN w \subseteq {"status", "assignee"}
      /\ \A f \in DOMAIN w : w[f] = new[f]
      /\ \A f \in {"status", "assignee"} : f \in DOMAIN w <=> new[f] # row[f]
  BY <1>2, <1>7 DEF Changes
<1>9. TicketWrites(w)
  BY <1>7, <1>8 DEF TicketWrites, Has, Ticket
<1>10. /\ DOMAIN s = DOMAIN Blank /\ s.row = None /\ s.task = None /\ s.ticket = k
       /\ s.copy = new /\ DOMAIN s.writes = {} /\ s.ticketWrites = w
       /\ s.assignee = IF a = Unset THEN None ELSE a
  BY DEF Blank
<1>11. /\ Written(row, w).status = new.status
       /\ Written(row, w).assignee = new.assignee
  <2>1. Written(row, w).status = new.status
    BY <1>6, <1>7, <1>8, <1>9, WrittenTicket DEF Has
  <2>2. Written(row, w).assignee = new.assignee
    BY <1>6, <1>7, <1>8, <1>9, WrittenTicket DEF Has
  <2>3. QED
    BY <2>1, <2>2
<1>12. new.task # None => task[new.task] # None
  BY <1>4, <1>7 DEF IInv, Rows
<1>13. Fits(label, s)
  <2>1. label = "ticket_task" => new.task # None
    BY <1>3, <1>7 DEF AfterAssignee
  <2>2. label \notin Creating \cup Opening \cup Updating \cup {"delete_commit", "comment_commit"}
    BY <1>5 DEF Creating, Opening, Updating
  <2>3. label = "ticket_commit" => new.task = None
    BY <1>3, <1>7 DEF AfterAssignee
  <2>4. s.assignee \in Assignee /\ ticket[s.ticket].task = new.task
        /\ ~Has("stamped", s.writes)
    BY <1>7, <1>10 DEF Assignee, Has
  <2>5. TaskWrites(s.writes) /\ TicketWrites(s.ticketWrites)
    BY <1>9, <1>10, EmptyWrites
  <2> HIDE DEF s
  <2>6. QED
    BY <1>4, <1>5, <1>7, <1>10, <1>12, <2>1, <2>2, <2>3, <2>4, <2>5 DEF Fits, SameTask
<1>14. Stamps(p, label, s)
  BY <1>5 DEF Stamps, Creating, Opening, Updating
<1>15. Copies(p, label, s)
  BY <1>5, <1>10, <1>11 DEF Copies, Opening
<1>16. Backed(p, label, s)'
  <2>1. (a \in active => p \in vouched') /\ active' = active
    BY <1>4 DEF Begin, dbVars
  <2>2. None \notin active
    BY NoneAssumption DEF IInv, Rows
  <2>3. Has("assignee", w) => a # Unset /\ w["assignee"] = a /\ new.assignee = a
    BY <1>7, <1>8 DEF Has
  <2>4. ~Has("assignee", s.writes)
    BY <1>10 DEF Has
  <2>5. a # Unset => label = "ticket_validate" /\ s.assignee = a
    BY <1>3, <1>10
  <2>6. s.assignee \in active' => p \in vouched'
    BY <1>10, <2>1, <2>2
  <2> HIDE DEF s
  <2>7. QED
    BY <1>5, <1>10, <2>3, <2>4, <2>5, <2>6 DEF Backed
<1>17. s = [r EXCEPT !.assignee = IF a = Unset THEN None ELSE a]
  OBVIOUS
<1> HIDE DEF s, r
<1>18. QED
  BY <1>4, <1>5, <1>13, <1>14, <1>15, <1>16, <1>17, BeginStep
-----------------------------------------------------------------------------
(***************************************************************************)
(* Requests that end.                                                      *)
(***************************************************************************)

\* The other requests, when the step writes no row that is not touched.
LEMMA FinishStep ==
  ASSUME IInv, NEW p \in Procs, NEW touched, Finish(p, touched),
         active' = active, deleted \subseteq deleted',
         \A t \in Tasks : task[t] # None => task'[t] # None \/ t \in deleted',
         \A k \in Tickets : ticket[k] # None =>
            /\ ticket'[k] \in Ticket
            /\ \/ ticket'[k].task = ticket[k].task
               \/ ticket'[k].task = None /\ ticket[k].task \in deleted'
            /\ k \in touched \/ (/\ ticket'[k].status = ticket[k].status
                                 /\ ticket'[k].assignee = ticket[k].assignee),
         \A t \in Tasks \ touched : task[t] # None \/ t \in deleted =>
            task'[t] = task[t] /\ (t \in loose' <=> t \in loose)
  PROVE  Requests'
<1>1. /\ pc' = [pc EXCEPT ![p] = "idle"] /\ req' = [req EXCEPT ![p] = Blank]
      /\ vouched' = vouched \ {p}
      /\ stale' = (stale \cup {q \in Procs : {req[q].task, req[q].ticket} \cap touched # {}})
                  \ {p}
  BY DEF Finish
<1>2. ASSUME NEW q \in Procs  PROVE Facts(q, pc[q], req[q])'
  <2>1. CASE q = p
    <3>1. pc'[q] = "idle" /\ req'[q] = Blank
      BY <1>1, <2>1 DEF IInv, Requests
    <3>2. Facts(q, "idle", Blank)'
      BY BlankFacts
    <3>3. QED
      BY <3>1, <3>2 DEF Facts
  <2>2. CASE q # p
    <3>1. pc'[q] = pc[q] /\ req'[q] = req[q] /\ Facts(q, pc[q], req[q])
      BY <1>1, <2>2 DEF IInv, Requests
    <3>2. PICK r, label : r = req[q] /\ label = pc[q]
      OBVIOUS
    <3>3. Fits(label, r)
      BY <3>1, <3>2 DEF Facts
    <3>4. Steady(q, r)
      <4>1. ASSUME q \notin stale'  PROVE r.task \notin touched /\ r.ticket \notin touched
        BY <1>1, <2>2, <3>2, <4>1
      <4>2. r.task # None => r.task \in Tasks /\ (task[r.task] # None \/ r.task \in deleted)
        BY <3>3 DEF Fits
      <4>3. r.ticket # None => r.ticket \in Tickets /\ ticket[r.ticket] # None
        BY <3>3 DEF Fits
      <4>4. (q \in vouched => q \in vouched') /\ (q \in stale => q \in stale')
        BY <1>1, <2>2
      <4>5. ASSUME q \notin stale', r.task # None
            PROVE  task'[r.task] = task[r.task] /\ (r.task \in loose' <=> r.task \in loose)
        BY <4>1, <4>2, <4>5
      <4>6. ASSUME q \notin stale', r.ticket # None
            PROVE  ticket'[r.ticket].status = ticket[r.ticket].status
                   /\ ticket'[r.ticket].assignee = ticket[r.ticket].assignee
        BY <4>1, <4>3, <4>6
      <4>7. QED
        BY <4>4, <4>5, <4>6 DEF Steady
    <3>5. Facts(q, label, r)'
      BY <3>1, <3>2, <3>4, FactsOn DEF IInv
    <3>6. QED
      BY <3>1, <3>2, <3>5
  <2>3. QED
    BY <2>1, <2>2
<1>3. QED
  BY <1>1, <1>2 DEF IInv, Requests, Labels

LEMMA RejectStep ==
  ASSUME IInv, NEW p \in Procs, Reject(p)
  PROVE  IInv'
<1>1. /\ Finish(p, {}) /\ active' = active /\ task' = task /\ ticket' = ticket
      /\ comments' = comments /\ deleted' = deleted /\ loose' = loose /\ drifted' = drifted
  BY DEF Reject, dbVars, rowHist
<1>2. ASSUME NEW k \in Tickets, ticket[k] # None  PROVE ticket[k] \in Ticket
  BY <1>2 DEF IInv, Rows
<1>3. Requests'
  BY <1>1, <1>2, FinishStep
<1>4. QED
  BY <1>1, <1>3 DEF IInv, Rows, CompletionStamped, Mirrors
\* A look-up that succeeds: the assignee was active now, so p is vouched for.
LEMMA ValidateStep ==
  ASSUME IInv, NEW p \in Procs, NEW from, NEW label, Validate(p, from, label),
         \/ from = "create_validate" /\ label = "create_commit"
         \/ from = "update_validate" /\ label = "update_commit"
         \/ from = "open_validate" /\ label = "open_commit"
         \/ from = "ticket_validate" /\ label = AfterAssignee(req[p].copy)
  PROVE  IInv'
<1>1. CASE Reject(p)
  BY <1>1, RejectStep
<1>2. CASE req[p].assignee \in active /\ Continue(p, label, [req[p] EXCEPT !.assignee = None])
  <2>1. PICK old : old = req[p]
    OBVIOUS
  <2> DEFINE r == [old EXCEPT !.assignee = None]
  <2>2. Facts(p, from, old) /\ pc[p] = from
    BY <2>1 DEF IInv, Requests, Validate
  <2>3. p \in vouched
    <3>1. from \in Validates
      BY DEF Validates
    <3>2. QED
      BY <1>2, <2>1, <2>2, <3>1 DEF Facts, Backed
  <2>4. DOMAIN old = {"task", "row", "ticket", "copy", "writes", "ticketWrites", "assignee"}
    BY <2>2 DEF Facts, Fits, Blank
  <2>5. /\ DOMAIN r = DOMAIN old /\ r.task = old.task /\ r.row = old.row
        /\ r.ticket = old.ticket /\ r.copy = old.copy /\ r.writes = old.writes
        /\ r.ticketWrites = old.ticketWrites /\ r.assignee = None
    BY <2>4
  <2> HIDE DEF r
  <2>6. \/ from = "create_validate" /\ label = "create_commit"
        \/ from = "update_validate" /\ label = "update_commit"
        \/ from = "open_validate" /\ label = "open_commit"
        \/ from = "ticket_validate" /\ label = "ticket_task" /\ old.copy.task # None
        \/ from = "ticket_validate" /\ label = "ticket_commit" /\ old.copy.task = None
    BY <2>1 DEF AfterAssignee
  <2>7. Facts(p, label, r)
    <3>1. CASE from = "create_validate" /\ label = "create_commit"
      BY <2>2, <2>3, <2>5, <3>1
         DEF Facts, Fits, Backed, Stamps, Copies, Creating, Updating, Opening, OfTicket,
             Validates, Assignee
    <3>2. CASE from = "update_validate" /\ label = "update_commit"
      BY <2>2, <2>3, <2>5, <3>2
         DEF Facts, Fits, Backed, Stamps, Copies, Creating, Updating, Opening, OfTicket,
             Validates, Assignee
    <3>3. CASE from = "open_validate" /\ label = "open_commit"
      BY <2>2, <2>3, <2>5, <3>3
         DEF Facts, Fits, Backed, Stamps, Copies, Creating, Updating, Opening, OfTicket,
             Validates, Assignee
    <3>4. CASE from = "ticket_validate" /\ label = "ticket_task" /\ old.copy.task # None
      BY <2>2, <2>3, <2>5, <3>4
         DEF Facts, Fits, Backed, Stamps, Copies, Creating, Updating, Opening, OfTicket,
             Validates, Assignee
    <3>5. CASE from = "ticket_validate" /\ label = "ticket_commit" /\ old.copy.task = None
      <4>1. r.task = None /\ ~Has("assignee", r.writes) /\ DOMAIN r.writes = {}
        BY <2>2, <2>5, <3>5 DEF Facts, Fits, OfTicket, Has
      <4>2. Fits(label, r)
        BY <2>2, <2>5, <3>5, <4>1
           DEF Facts, Fits, Creating, Updating, Opening, OfTicket, Assignee, SameTask, Has
      <4>3. Backed(p, label, r)
        BY <2>2, <2>3, <2>5, <3>5, <4>1
           DEF Facts, Backed, OfTicket, Validates
      <4>4. Stamps(p, label, r) /\ Copies(p, label, r)
        BY <3>5, <4>1 DEF Stamps, Copies, Creating, Updating, Opening, OfTicket
      <4>5. QED
        BY <4>2, <4>3, <4>4 DEF Facts
    <3>6. QED
      BY <2>6, <3>1, <3>2, <3>3, <3>4, <3>5
  <2>8. Continue(p, label, r)
    BY <1>2, <2>1 DEF r
  <2>9. label \in Labels
    BY <2>6 DEF Labels
  <2>10. QED
    BY <2>7, <2>8, <2>9, ContinueStep
<1>3. QED
  BY <1>1, <1>2 DEF Validate
LEMMA TicketTaskStep ==
  ASSUME IInv, NEW p \in Procs, TicketTask(p)
  PROVE  IInv'
<1>1. PICK old : old = req[p]
  OBVIOUS
<1>2. Facts(p, "ticket_task", old)
  BY <1>1 DEF IInv, Requests, TicketTask
<1>3. /\ DOMAIN old = {"task", "row", "ticket", "copy", "writes", "ticketWrites", "assignee"}
      /\ old.task = None /\ DOMAIN old.writes = {} /\ old.ticket \in Tickets
      /\ old.copy \in Ticket /\ old.copy.task # None /\ old.row \in Task \cup {None}
      /\ old.assignee \in Assignee /\ TicketWrites(old.ticketWrites)
      /\ ticket[old.ticket] # None /\ SameTask(old.ticket, old.copy.task)
  BY <1>2, NoneAssumption DEF Facts, Fits, Blank, OfTicket
<1>4. PICK t : t = old.copy.task
  OBVIOUS
<1>5. t \in Tasks
  BY <1>3, <1>4 DEF Ticket
<1> DEFINE held == [old EXCEPT !.copy = None]
<1>6. "ticket_commit" \in Labels
  BY DEF Labels
<1>7. CASE task[t] = None
  <2>1. /\ DOMAIN held = DOMAIN old /\ held.task = None /\ held.row = old.row
        /\ held.ticket = old.ticket /\ held.copy = None /\ DOMAIN held.writes = {}
        /\ held.ticketWrites = old.ticketWrites /\ held.assignee = old.assignee
    BY <1>3
  <2>2. Continue(p, "ticket_commit", held)
    BY <1>1, <1>4, <1>7 DEF TicketTask
  <2> HIDE DEF held
  <2>3. ticket[old.ticket].task = None
    BY <1>3, <1>4, <1>7 DEF IInv, Rows, SameTask
  <2>4. Fits("ticket_commit", held)
    BY <1>2, <1>3, <2>1, <2>3, EmptyWrites
       DEF Facts, Fits, Creating, Updating, Opening, OfTicket, SameTask, Has
  <2>5. Backed(p, "ticket_commit", held)
    BY <1>2, <2>1 DEF Facts, Backed, Validates, OfTicket, Has
  <2>6. Stamps(p, "ticket_commit", held) /\ Copies(p, "ticket_commit", held)
    BY <2>1 DEF Stamps, Copies, Creating, Updating, Opening, OfTicket
  <2>7. QED
    BY <1>6, <2>2, <2>4, <2>5, <2>6, ContinueStep DEF Facts
<1>8. CASE task[t] # None
  <2>1. PICK row : row = task[t]
    OBVIOUS
  <2>2. row \in Task
    BY <1>5, <1>8, <2>1 DEF IInv, Rows
  <2>3. PICK new : new = Copy(row, old.copy)
    OBVIOUS
  <2>4. PICK w : w = Changes(row, new)
    OBVIOUS
  <2>5. /\ new \in Task
        /\ new.status = Image(old.copy.status) /\ new.assignee = old.copy.assignee
        /\ new.stamped = row.stamped /\ new.creator = row.creator
        /\ DOMAIN row = {"status", "stamped", "assignee", "creator"}
        /\ DOMAIN new = DOMAIN row
        /\ new["status"] = new.status /\ new["assignee"] = new.assignee
        /\ row["status"] = row.status /\ row["assignee"] = row.assignee
        /\ new["stamped"] = row["stamped"] /\ new["creator"] = row["creator"]
    BY <1>3, <2>2, <2>3, ImageType DEF Copy, Task, Ticket
  <2>6. /\ DOMAIN w \subseteq {"status", "assignee"}
        /\ \A f \in DOMAIN w : w[f] = new[f]
        /\ \A f \in {"status", "assignee"} : f \in DOMAIN w <=> new[f] # row[f]
    BY <2>4, <2>5 DEF Changes
  <2>7. TaskWrites(w)
    BY <2>5, <2>6 DEF TaskWrites, Has, Task
  <2>8. Written(row, w).status = new.status
    BY <2>2, <2>5, <2>6, <2>7, WrittenTask DEF Has
  <2>9. Written(row, w).assignee = new.assignee
    BY <2>2, <2>5, <2>6, <2>7, WrittenTask DEF Has
  <2> DEFINE r == [held EXCEPT !.task = t, !.writes = w]
  <2>10. /\ DOMAIN r = DOMAIN old /\ r.task = t /\ r.row = old.row
         /\ r.ticket = old.ticket /\ r.copy = None /\ r.writes = w
         /\ r.ticketWrites = old.ticketWrites /\ r.assignee = old.assignee
    BY <1>3
  <2>11. Continue(p, "ticket_commit", r)
    BY <1>1, <1>4, <1>8, <2>1, <2>3, <2>4 DEF TicketTask
  <2> HIDE DEF r
  <2>12. Fits("ticket_commit", r)
    BY <1>2, <1>3, <1>4, <1>5, <1>8, <2>6, <2>7, <2>10
       DEF Facts, Fits, Has, Creating, Updating, Opening, OfTicket
  <2>13. Backed(p, "ticket_commit", r)
    <3>1. Backed(p, "ticket_task", old)
      BY <1>2 DEF Facts
    <3>2. Has("assignee", w) => w["assignee"] = old.copy.assignee
      BY <2>5, <2>6 DEF Has
    <3>3. QED
      BY <2>10, <3>1, <3>2 DEF Backed, Validates, OfTicket
  <2>14. Stamps(p, "ticket_commit", r)
    BY DEF Stamps, Creating, Updating, Opening
  <2>15. Copies(p, "ticket_commit", r)
    <3>1. Copies(p, "ticket_task", old)
      BY <1>2 DEF Facts
    <3>2. SameAs(Written(row, w), old.copy)
      BY <2>5, <2>8, <2>9 DEF SameAs
    <3>3. QED
      BY <2>1, <2>10, <3>1, <3>2 DEF Copies, SameAs, OfTicket, Opening
  <2>16. QED
    BY <1>6, <2>11, <2>12, <2>13, <2>14, <2>15, ContinueStep DEF Facts
<1>9. QED
  BY <1>7, <1>8

LEMMA AbortStep ==
  ASSUME IInv, NEW p \in Procs, Abort(p)
  PROVE  IInv'
BY RejectStep DEF Abort

LEMMA SetActiveStep ==
  ASSUME IInv, NEW u \in Users, NEW a \in BOOLEAN, SetActive(u, a)
  PROVE  IInv'
<1>1. /\ active' = IF a THEN active \cup {u} ELSE active \ {u}
      /\ vouched' = IF a THEN vouched \cup {p \in Procs : req[p].assignee = u} ELSE vouched
      /\ task' = task /\ ticket' = ticket /\ comments' = comments /\ pc' = pc /\ req' = req
      /\ deleted' = deleted /\ loose' = loose /\ drifted' = drifted /\ stale' = stale
  BY DEF SetActive, rowHist
<1>2. ASSUME NEW q \in Procs  PROVE Facts(q, pc[q], req[q])'
  <2>1. PICK r, label : r = req[q] /\ label = pc[q]
    OBVIOUS
  <2>2. Facts(q, label, r)
    BY <2>1 DEF IInv, Requests
  <2>3. r.assignee \in active' => r.assignee \in active \/ q \in vouched'
    BY <1>1, <2>1
  <2>4. q \in vouched => q \in vouched'
    BY <1>1
  <2>5. Steady(q, r)
    BY <1>1, <2>3, <2>4 DEF Steady, IInv, Rows
  <2>6. QED
    BY <1>1, <2>1, <2>2, <2>5, FactsOn DEF IInv
<1>3. Requests'
  BY <1>1, <1>2 DEF IInv, Requests
<1>4. QED
  BY <1>1, <1>3 DEF IInv, Rows, CompletionStamped, Mirrors
LEMMA CreateCommitStep ==
  ASSUME IInv, NEW p \in Procs, NEW t \in Tasks, CreateCommit(p, t)
  PROVE  IInv'
<1>1. /\ task[t] = None /\ t \notin deleted /\ task' = [task EXCEPT ![t] = req[p].row]
      /\ active' = active /\ ticket' = ticket /\ comments' = comments
      /\ deleted' = deleted /\ loose' = loose /\ drifted' = drifted /\ Finish(p, {})
  BY DEF CreateCommit, rowHist
<1>2. req[p].row \in Task /\ Done(req[p].row)
  BY DEF CreateCommit, IInv, Requests, Facts, Fits, Stamps, Creating
<1>3. \A x \in Tasks : task'[x] = IF x = t THEN req[p].row ELSE task[x]
  BY <1>1 DEF IInv, Rows
<1>4. req[p].row # None
  BY <1>2, NoneAssumption
<1>5. \A k \in Tickets : ticket[k] # None => ticket[k] \in Ticket /\ ticket[k].task # t
  BY <1>1, NoneAssumption DEF IInv, Rows
<1>6. Requests'
  <2>1. \A x \in Tasks : task[x] # None => task'[x] # None
    BY <1>3, <1>4
  <2>2. \A x \in Tasks : task[x] # None \/ x \in deleted => task'[x] = task[x]
    BY <1>1, <1>3
  <2>3. QED
    BY <1>1, <1>5, <2>1, <2>2, FinishStep
<1>7. Rows'
  BY <1>1, <1>2, <1>3, <1>4, <1>5 DEF IInv, Rows
<1>8. CompletionStamped'
  BY <1>1, <1>2, <1>3 DEF IInv, CompletionStamped, Done, Task
<1>9. Mirrors'
  <2>1. \A k \in Tickets : ticket[k] # None => ticket[k].task \in Tasks \cup {None}
    BY <1>5 DEF Ticket
  <2>2. QED
    BY <1>1, <1>3, <1>5, <2>1 DEF IInv, Mirrors
<1>10. QED
  BY <1>6, <1>7, <1>8, <1>9 DEF IInv

LEMMA OpenCommitStep ==
  ASSUME IInv, NEW p \in Procs, NEW t \in Tasks, NEW k \in Tickets, OpenCommit(p, t, k)
  PROVE  IInv'
<1>1. PICK row, copy : row = req[p].row /\ copy = [req[p].copy EXCEPT !.task = t]
  OBVIOUS
<1>2. /\ task[t] = None /\ t \notin deleted /\ ticket[k] = None
      /\ task' = [task EXCEPT ![t] = row] /\ ticket' = [ticket EXCEPT ![k] = copy]
      /\ active' = active /\ comments' = comments
      /\ deleted' = deleted /\ loose' = loose /\ drifted' = drifted /\ Finish(p, {})
  BY <1>1 DEF OpenCommit, rowHist
<1>3. row \in Task /\ Done(row) /\ req[p].copy \in Ticket /\ SameAs(row, req[p].copy)
  BY <1>1 DEF OpenCommit, IInv, Requests, Facts, Fits, Stamps, Copies, Opening
<1>4. copy \in Ticket /\ copy.task = t /\ SameAs(row, copy)
  BY <1>1, <1>3 DEF Ticket, SameAs
<1>5. row # None /\ copy # None
  BY <1>3, <1>4, NoneAssumption
<1>6. /\ \A x \in Tasks : task'[x] = IF x = t THEN row ELSE task[x]
      /\ \A l \in Tickets : ticket'[l] = IF l = k THEN copy ELSE ticket[l]
  BY <1>2 DEF IInv, Rows
<1>7. \A l \in Tickets : ticket[l] # None =>
         ticket[l] \in Ticket /\ ticket[l].task # t /\ ticket[l].task \in Tasks \cup {None}
  BY <1>2, NoneAssumption DEF IInv, Rows, Ticket
<1>8. Requests'
  <2>1. \A x \in Tasks : task[x] # None => task'[x] # None
    BY <1>5, <1>6
  <2>2. \A x \in Tasks : task[x] # None \/ x \in deleted => task'[x] = task[x]
    BY <1>2, <1>6
  <2>3. \A l \in Tickets : ticket[l] # None => ticket'[l] = ticket[l]
    BY <1>2, <1>6
  <2>4. QED
    BY <1>2, <1>7, <2>1, <2>2, <2>3, FinishStep
<1>9. Rows'
  <2>1. /\ active' \subseteq Users
        /\ task' \in [Tasks -> Task \cup {None}]
        /\ ticket' \in [Tickets -> Ticket \cup {None}]
        /\ deleted' \subseteq Tasks /\ loose' \subseteq Tasks /\ drifted' \subseteq Tasks
    BY <1>2, <1>3, <1>4 DEF IInv, Rows
  <2>2. comments' \subseteq {x \in Tasks : task'[x] # None}
    BY <1>2, <1>5, <1>6 DEF IInv, Rows
  <2>3. \A l \in Tickets : ticket'[l] # None /\ ticket'[l].task # None
                             => task'[ticket'[l].task] # None
    BY <1>4, <1>5, <1>6, <1>7 DEF IInv, Rows
  <2>4. \A l, m \in Tickets :
          (ticket'[l] # None /\ ticket'[m] # None /\ ticket'[l].task # None
           /\ ticket'[l].task = ticket'[m].task) => l = m
    BY <1>4, <1>6, <1>7 DEF IInv, Rows
  <2>5. \A x \in deleted' : task'[x] = None
    BY <1>2, <1>6 DEF IInv, Rows
  <2>6. QED
    BY <2>1, <2>2, <2>3, <2>4, <2>5 DEF Rows
<1>10. CompletionStamped'
  BY <1>2, <1>3, <1>6 DEF IInv, CompletionStamped, Done, Task
<1>11. Mirrors'
  <2>1. ASSUME NEW l \in Tickets, ticket'[l] # None, ticket'[l].task \notin drifted' \cup {None}
        PROVE  SameAs(task'[ticket'[l].task], ticket'[l])
    <3>1. CASE l = k
      BY <1>4, <1>6, <3>1
    <3>2. CASE l # k
      BY <1>2, <1>6, <1>7, <2>1, <3>2 DEF IInv, Mirrors, SameAs
    <3>3. QED
      BY <3>1, <3>2
  <2>2. QED
    BY <2>1 DEF Mirrors, SameAs
<1>12. QED
  BY <1>8, <1>9, <1>10, <1>11 DEF IInv

LEMMA UpdateCommitStep ==
  ASSUME IInv, NEW p \in Procs, UpdateCommit(p)
  PROVE  IInv'
<1>1. PICK t, w : t = req[p].task /\ w = req[p].writes
  OBVIOUS
<1>2. CASE Reject(p)
  BY <1>2, RejectStep
<1>3. CASE /\ task[t] # None
           /\ task' = [task EXCEPT ![t] = Written(@, w)]
           /\ loose' = IF p \in stale THEN loose \cup {t}
                       ELSE IF "stamped" \in DOMAIN w THEN loose \ {t} ELSE loose
           /\ drifted' = IF {"status", "assignee"} \cap DOMAIN w # {}
                         THEN drifted \cup {t} ELSE drifted
           /\ Finish(p, {t})
           /\ UNCHANGED <<active, ticket, comments, deleted>>
  <2>1. PICK row : row = Written(task[t], w)
    OBVIOUS
  <2>2. Facts(p, "update_commit", req[p])
    BY DEF UpdateCommit, IInv, Requests
  <2>3. t \in Tasks /\ TaskWrites(w)
    BY <1>1, <2>2 DEF Facts, Fits, Updating
  <2>4. task[t] \in Task /\ t \notin deleted
    BY <1>3, <2>3 DEF IInv, Rows
  <2>5. row \in Task /\ row # None
    BY <2>1, <2>3, <2>4, WrittenTask, NoneAssumption
  <2>6. \A x \in Tasks : task'[x] = IF x = t THEN row ELSE task[x]
    BY <1>3, <2>1, <2>3 DEF IInv, Rows
  <2>7. \A k \in Tickets : ticket[k] # None =>
           ticket[k] \in Ticket /\ ticket[k].task \in Tasks \cup {None}
    BY DEF IInv, Rows, Ticket
  <2>8. t \notin loose' => Done(row)
    BY <1>1, <1>3, <2>1, <2>2 DEF Facts, Stamps, Updating, Has
  <2>9. t \notin drifted' => row.status = task[t].status /\ row.assignee = task[t].assignee
    BY <1>3, <2>1, <2>3, <2>4, WrittenTask DEF Has
  <2>10. \A x \in Tasks \ {t} : x \in loose' <=> x \in loose
    BY <1>3
  <2>11. \A x \in Tasks : x \in drifted => x \in drifted'
    BY <1>3
  <2>12. loose' \subseteq Tasks /\ drifted' \subseteq Tasks
    BY <1>3, <2>3 DEF IInv, Rows
  <2>13. Requests'
    BY <1>3, <2>5, <2>6, <2>7, <2>10, FinishStep
  <2>14. Rows'
    BY <1>3, <2>3, <2>4, <2>5, <2>6, <2>7, <2>12 DEF IInv, Rows
  <2>15. CompletionStamped'
    BY <2>5, <2>6, <2>8, <2>10 DEF IInv, CompletionStamped, Done, Task
  <2>16. Mirrors'
    BY <1>3, <2>6, <2>7, <2>9, <2>11 DEF IInv, Mirrors
  <2>17. QED
    BY <2>13, <2>14, <2>15, <2>16 DEF IInv
<1>4. QED
  BY <1>1, <1>2, <1>3 DEF UpdateCommit
LEMMA DeleteCommitStep ==
  ASSUME IInv, NEW p \in Procs, DeleteCommit(p)
  PROVE  IInv'
<1>1. PICK t : t = req[p].task
  OBVIOUS
<1>2. /\ task' = [task EXCEPT ![t] = None]
      /\ ticket' = [k \in Tickets |->
                      IF ticket[k] = None THEN None
                      ELSE IF ticket[k].task = t THEN [ticket[k] EXCEPT !.task = None]
                      ELSE ticket[k]]
      /\ comments' = comments \ {t}
      /\ deleted' = deleted \cup {t} /\ loose' = loose \ {t} /\ drifted' = drifted \ {t}
      /\ Finish(p, {t}) /\ active' = active
  BY <1>1 DEF DeleteCommit
<1>3. t \in Tasks
  BY <1>1 DEF DeleteCommit, IInv, Requests, Facts, Fits
<1>4. \A x \in Tasks : task'[x] = IF x = t THEN None ELSE task[x]
  BY <1>2 DEF IInv, Rows
<1>5. ASSUME NEW k \in Tickets, ticket[k] # None
      PROVE  /\ ticket[k] \in Ticket /\ ticket'[k] \in Ticket
             /\ ticket'[k].status = ticket[k].status /\ ticket'[k].assignee = ticket[k].assignee
             /\ ticket'[k].task = IF ticket[k].task = t THEN None ELSE ticket[k].task
             /\ ticket[k].task \in Tasks \cup {None}
  <2>1. ticket[k] \in Ticket
    BY <1>5 DEF IInv, Rows
  <2>2. CASE ticket[k].task = t
    <3>1. ticket'[k] = [ticket[k] EXCEPT !.task = None]
      BY <1>2, <1>5, <2>2
    <3>2. QED
      BY <1>3, <2>1, <2>2, <3>1 DEF Ticket
  <2>3. CASE ticket[k].task # t
    <3>1. ticket'[k] = ticket[k]
      BY <1>2, <1>5, <2>3
    <3>2. QED
      BY <2>1, <2>3, <3>1 DEF Ticket
  <2>4. QED
    BY <2>2, <2>3
<1>6. \A k \in Tickets : ticket'[k] # None => ticket[k] # None
  BY <1>2
<1>7. Requests'
  <2>1. \A x \in Tasks : task[x] # None => task'[x] # None \/ x \in deleted'
    BY <1>2, <1>4
  <2>2. \A x \in Tasks \ {t} : task'[x] = task[x] /\ (x \in loose' <=> x \in loose)
    BY <1>2, <1>4
  <2>3. \A k \in Tickets : ticket[k] # None =>
           /\ ticket'[k] \in Ticket
           /\ \/ ticket'[k].task = ticket[k].task
              \/ ticket'[k].task = None /\ ticket[k].task \in deleted'
           /\ ticket'[k].status = ticket[k].status
           /\ ticket'[k].assignee = ticket[k].assignee
    BY <1>2, <1>5
  <2>4. deleted \subseteq deleted' /\ Finish(p, {t}) /\ active' = active
    BY <1>2
  <2>5. QED
    BY <2>1, <2>2, <2>3, <2>4, FinishStep
<1>8. Rows'
  <2>1. /\ active' \subseteq Users /\ task' \in [Tasks -> Task \cup {None}]
        /\ deleted' \subseteq Tasks /\ loose' \subseteq Tasks /\ drifted' \subseteq Tasks
    BY <1>2, <1>3 DEF IInv, Rows
  <2>2. ticket' \in [Tickets -> Ticket \cup {None}]
    <3>1. ticket' = [k \in Tickets |-> ticket'[k]]
      BY <1>2
    <3>2. \A k \in Tickets : ticket'[k] \in Ticket \cup {None}
      BY <1>2, <1>5
    <3>3. QED
      BY <3>1, <3>2
  <2>3. comments' \subseteq {x \in Tasks : task'[x] # None}
    BY <1>2, <1>4 DEF IInv, Rows
  <2>4. \A k \in Tickets : ticket'[k] # None /\ ticket'[k].task # None
                             => task'[ticket'[k].task] # None
    BY <1>4, <1>5, <1>6 DEF IInv, Rows
  <2>5. \A k, l \in Tickets :
          (ticket'[k] # None /\ ticket'[l] # None /\ ticket'[k].task # None
           /\ ticket'[k].task = ticket'[l].task) => k = l
    BY <1>5, <1>6 DEF IInv, Rows
  <2>6. \A x \in deleted' : task'[x] = None
    BY <1>2, <1>3, <1>4 DEF IInv, Rows
  <2>7. QED
    BY <2>1, <2>2, <2>3, <2>4, <2>5, <2>6 DEF Rows
<1>9. CompletionStamped'
  BY <1>2, <1>4 DEF IInv, CompletionStamped
<1>10. Mirrors'
  <2>1. ASSUME NEW k \in Tickets, ticket'[k] # None, ticket'[k].task \notin drifted' \cup {None}
        PROVE  SameAs(task'[ticket'[k].task], ticket'[k])
    <3>1. ticket[k] # None /\ ticket'[k].task = ticket[k].task /\ ticket[k].task # t
          /\ ticket[k].task \in Tasks
      BY <1>5, <1>6, <2>1
    <3>2. QED
      BY <1>2, <1>4, <1>5, <2>1, <3>1 DEF IInv, Mirrors, SameAs
  <2>2. QED
    BY <2>1 DEF Mirrors, SameAs
<1>11. QED
  BY <1>7, <1>8, <1>9, <1>10 DEF IInv

LEMMA CommentCommitStep ==
  ASSUME IInv, NEW p \in Procs, CommentCommit(p)
  PROVE  IInv'
<1>1. PICK t : t = req[p].task
  OBVIOUS
<1>2. CASE Reject(p)
  BY <1>2, RejectStep
<1>3. CASE /\ task[t] # None /\ comments' = comments \cup {t} /\ Finish(p, {})
           /\ UNCHANGED <<active, task, ticket, rowHist>>
  <2>1. t \in Tasks
    BY <1>1 DEF CommentCommit, IInv, Requests, Facts, Fits
  <2>2. \A k \in Tickets : ticket[k] # None => ticket[k] \in Ticket
    BY DEF IInv, Rows
  <2>3. Requests'
    BY <1>3, <2>2, FinishStep DEF rowHist
  <2>4. QED
    BY <1>3, <2>1, <2>3 DEF IInv, Rows, CompletionStamped, Mirrors, rowHist
<1>4. QED
  BY <1>1, <1>2, <1>3 DEF CommentCommit
LEMMA TicketCommitStep ==
  ASSUME IInv, NEW p \in Procs, TicketCommit(p)
  PROVE  IInv'
<1>1. PICK k, t, w, tw : /\ k = req[p].ticket /\ t = req[p].task
                         /\ w = req[p].writes /\ tw = req[p].ticketWrites
  OBVIOUS
<1>2. CASE Reject(p)
  BY <1>2, RejectStep
<1>3. CASE /\ DOMAIN w # {} => task[t] # None
           /\ ticket' = [ticket EXCEPT ![k] = Written(@, tw)]
           /\ task' = IF DOMAIN w # {} THEN [task EXCEPT ![t] = Written(@, w)] ELSE task
           /\ loose' = IF "status" \in DOMAIN w THEN loose \cup {t} ELSE loose
           /\ drifted' = IF t = None \/ t \in deleted THEN drifted
                         ELSE IF p \in stale THEN drifted \cup {t} ELSE drifted \ {t}
           /\ Finish(p, {k, t} \ {None})
           /\ UNCHANGED <<active, comments, deleted>>
  <2>1. Facts(p, "ticket_commit", req[p])
    BY DEF TicketCommit, IInv, Requests
  <2>2. /\ k \in Tickets /\ ticket[k] # None /\ t \in Tasks \cup {None}
        /\ TaskWrites(w) /\ TicketWrites(tw) /\ SameTask(k, t) /\ ~Has("stamped", w)
        /\ DOMAIN w # {} => t # None
        /\ t # None => t \in deleted \/ task[t] # None
    BY <1>1, <2>1, NoneAssumption DEF Facts, Fits
  <2>3. PICK new : new = Written(ticket[k], tw)
    OBVIOUS
  <2>4. ticket[k] \in Ticket /\ new \in Ticket /\ new # None /\ new.task = ticket[k].task
    BY <2>2, <2>3, WrittenTicket, NoneAssumption DEF IInv, Rows
  <2>5. \A l \in Tickets : ticket'[l] = IF l = k THEN new ELSE ticket[l]
    BY <1>3, <2>2, <2>3 DEF IInv, Rows
  <2>6. \A l \in Tickets : ticket[l] # None =>
           ticket[l] \in Ticket /\ ticket[l].task \in Tasks \cup {None}
    BY DEF IInv, Rows, Ticket
  <2>7. t # None /\ task[t] # None => t \in Tasks /\ task[t] \in Task /\ t \notin deleted
    BY <2>2 DEF IInv, Rows
  <2>8. PICK row : row = Written(task[t], w)
    OBVIOUS
  <2>9. t # None /\ task[t] # None =>
          /\ row \in Task /\ row # None
          /\ row.stamped = task[t].stamped
          /\ ~Has("status", w) => row.status = task[t].status
          /\ DOMAIN w = {} => row.assignee = task[t].assignee
    BY <2>2, <2>7, <2>8, WrittenTask, NoneAssumption DEF Has
  <2>10. \A x \in Tasks : task'[x] = IF x = t /\ DOMAIN w # {} THEN row ELSE task[x]
    BY <1>3, <2>8 DEF IInv, Rows
  <2>11. DOMAIN w # {} => t \in Tasks /\ task[t] # None /\ row \in Task /\ row # None
    BY <1>3, <2>2, <2>7, <2>9
  <2>12. \A x \in Tasks : task'[x] # None <=> task[x] # None
    BY <2>10, <2>11
  <2>13. Requests'
    <3>1. \A x \in Tasks \ ({k, t} \ {None}) : x # t
      BY NoneAssumption
    <3>2. \A x \in Tasks : x # t => task'[x] = task[x] /\ (x \in loose' <=> x \in loose)
      BY <1>3, <2>10
    <3>3. \A l \in Tickets : ticket[l] # None =>
            /\ ticket'[l] \in Ticket /\ ticket'[l].task = ticket[l].task
            /\ l \in {k, t} \ {None} \/ (/\ ticket'[l].status = ticket[l].status
                                         /\ ticket'[l].assignee = ticket[l].assignee)
      BY <2>4, <2>5, <2>6, NoneAssumption
    <3> DEFINE touched == {k, t} \ {None}
    <3>4. Finish(p, touched) /\ active' = active /\ deleted \subseteq deleted'
      BY <1>3
    <3> HIDE DEF touched
    <3>5. \A x \in Tasks \ touched : task[x] # None \/ x \in deleted =>
             task'[x] = task[x] /\ (x \in loose' <=> x \in loose)
      BY <3>1, <3>2 DEF touched
    <3>6. \A l \in Tickets : ticket[l] # None =>
            /\ ticket'[l] \in Ticket
            /\ \/ ticket'[l].task = ticket[l].task
               \/ ticket'[l].task = None /\ ticket[l].task \in deleted'
            /\ l \in touched \/ (/\ ticket'[l].status = ticket[l].status
                                 /\ ticket'[l].assignee = ticket[l].assignee)
      BY <3>3 DEF touched
    <3>7. QED
      BY <2>12, <3>4, <3>5, <3>6, FinishStep
  <2>14. Rows'
    <3>1. active' \subseteq Users /\ task' \in [Tasks -> Task \cup {None}]
      BY <1>3, <2>8, <2>11 DEF IInv, Rows
    <3>2. ticket' \in [Tickets -> Ticket \cup {None}]
      BY <1>3, <2>3, <2>4 DEF IInv, Rows
    <3>3. deleted' \subseteq Tasks /\ drifted' \subseteq Tasks
      BY <1>3, <2>2 DEF IInv, Rows
    <3>4. loose' \subseteq Tasks
      BY <1>3, <2>11 DEF IInv, Rows
    <3>5. comments' \subseteq {x \in Tasks : task'[x] # None}
      BY <1>3, <2>12 DEF IInv, Rows
    <3>6. \A l \in Tickets : ticket'[l] # None =>
             ticket[l] # None /\ ticket'[l].task = ticket[l].task
      BY <2>2, <2>4, <2>5
    <3>7. \A l \in Tickets : ticket'[l] # None /\ ticket'[l].task # None
                               => task'[ticket'[l].task] # None
      BY <2>6, <2>12, <3>6 DEF IInv, Rows
    <3>8. \A l, m \in Tickets :
            (ticket'[l] # None /\ ticket'[m] # None /\ ticket'[l].task # None
             /\ ticket'[l].task = ticket'[m].task) => l = m
      BY <3>6 DEF IInv, Rows
    <3>9. \A x \in deleted' : task'[x] = None
      BY <1>3, <2>12 DEF IInv, Rows
    <3>10. QED
      BY <3>1, <3>2, <3>3, <3>4, <3>5, <3>7, <3>8, <3>9 DEF Rows
  <2>15. CompletionStamped'
    <3>1. ASSUME NEW x \in Tasks, task'[x] # None, x \notin loose'
          PROVE  Done(task'[x])
      <4>1. CASE x = t /\ DOMAIN w # {}
        <5>1. ~Has("status", w) /\ x \notin loose
          BY <1>3, <3>1, <4>1 DEF Has
        <5>2. row.stamped = task[x].stamped /\ row.status = task[x].status
          BY <2>2, <2>9, <2>11, <4>1, <5>1
        <5>3. task[x] # None /\ task[x] \in Task
          BY <2>2, <2>7, <2>11, <4>1
        <5>4. QED
          BY <2>10, <4>1, <5>1, <5>2, <5>3 DEF IInv, CompletionStamped, Done, Task
      <4>2. CASE ~(x = t /\ DOMAIN w # {})
        <5>1. task'[x] = task[x] /\ x \notin loose /\ task[x] \in Task
          BY <1>3, <2>10, <3>1, <4>2 DEF IInv, Rows
        <5>2. QED
          BY <3>1, <5>1 DEF IInv, CompletionStamped, Done, Task
      <4>3. QED
        BY <4>1, <4>2
    <3>2. QED
      BY <3>1 DEF CompletionStamped, Done
  <2>16. Mirrors'
    <3>1. ASSUME NEW l \in Tickets, ticket'[l] # None, ticket'[l].task \notin drifted' \cup {None}
          PROVE  SameAs(task'[ticket'[l].task], ticket'[l])
      <4>1. ticket[l] # None /\ ticket'[l].task = ticket[l].task /\ ticket[l].task \in Tasks
            /\ task[ticket[l].task] # None
        BY <2>2, <2>4, <2>5, <2>6, <3>1 DEF IInv, Rows
      <4>2. CASE ticket[l].task = t
        <5>1. t # None /\ t \notin deleted /\ task[t] # None
          BY <2>7, <3>1, <4>1, <4>2
        <5>2. l = k
          BY <2>2, <4>1, <4>2, <5>1 DEF SameTask, IInv, Rows
        <5>3. p \notin stale
          BY <1>3, <3>1, <4>1, <4>2, <5>1
        <5>4. SameAs(row, new)
          BY <1>1, <2>1, <2>3, <2>8, <5>1, <5>3 DEF Facts, Copies
        <5>5. task'[t] = row \/ (DOMAIN w = {} /\ task'[t] = task[t])
          BY <2>10, <4>1, <4>2
        <5>6. DOMAIN w = {} => row.status = task[t].status /\ row.assignee = task[t].assignee
          BY <2>9, <5>1 DEF Has
        <5>7. SameAs(task'[t], new)
          BY <5>4, <5>5, <5>6 DEF SameAs
        <5>8. QED
          BY <2>5, <4>1, <4>2, <5>2, <5>7
      <4>3. CASE ticket[l].task # t
        <5>1. ticket[l].task \notin drifted
          BY <1>3, <3>1, <4>1, <4>3
        <5>2. SameAs(task[ticket[l].task], ticket[l])
          BY <4>1, <3>1, <5>1 DEF IInv, Mirrors, SameAs
        <5>3. l # k
          <6>1. SUFFICES ASSUME l = k  PROVE FALSE
            OBVIOUS
          <6>2. ticket[k].task = None
            BY <2>2, <4>3, <6>1 DEF SameTask
          <6>3. QED
            BY <3>1, <4>1, <6>1, <6>2
        <5>4. ticket'[l] = ticket[l] /\ task'[ticket[l].task] = task[ticket[l].task]
          BY <2>5, <2>10, <4>1, <4>3, <5>3
        <5>5. QED
          BY <5>2, <5>4
      <4>4. QED
        BY <4>2, <4>3
    <3>2. QED
      BY <3>1 DEF Mirrors, SameAs
  <2>17. QED
    BY <2>13, <2>14, <2>15, <2>16 DEF IInv
<1>4. QED
  BY <1>1, <1>2, <1>3 DEF TicketCommit-----------------------------------------------------------------------------
LEMMA NextStep == IInv /\ [Next]_vars => IInv'
<1> SUFFICES ASSUME IInv, [Next]_vars  PROVE IInv'
  OBVIOUS
<1>1. ASSUME NEW p \in Procs, TaskRequest(p)  PROVE IInv'
  BY <1>1, CreateStep, ValidateStep, CreateCommitStep, UpdateStep, UpdateCommitStep, DeleteStep,
     DeleteCommitStep, CommentStep, CommentCommitStep
     DEF TaskRequest, CreateValidate, UpdateValidate
<1>2. ASSUME NEW p \in Procs, TicketRequest(p)  PROVE IInv'
  BY <1>2, OpenStep, ValidateStep, OpenCommitStep, UpdateTicketStep, TicketTaskStep,
     TicketCommitStep
     DEF TicketRequest, OpenValidate, TicketValidate
<1>3. ASSUME UNCHANGED vars  PROVE IInv'
  BY <1>3
     DEF vars, dbVars, rowHist, procHist, IInv, Rows, Requests, CompletionStamped, Mirrors,
         Facts, Fits, Backed, Stamps, Copies, SameTask
<1>4. QED
  BY <1>1, <1>2, <1>3, AbortStep, SetActiveStep DEF Next

\* The invariant: rows refer to rows that are there, no ticket shares its
\* task, and every request holds, at each of its awaits, rows that are still
\* there or were deleted and writes that bring them to what it was asked.
THEOREM Inductive == Spec => []IInv
<1>1. QED
  BY InitIInv, NextStep, PTL DEF Spec

\* Rows and references are well formed in every reachable state, of any
\* number of requests: among them the foreign keys, which nothing but the
\* database enforces.
THEOREM TypeCorrect == Spec => []TypeOK
<1>1. IInv => TypeOK
  <2> SUFFICES ASSUME IInv  PROVE TypeOK
    OBVIOUS
  <2>1. ASSUME NEW p \in Procs  PROVE RequestOK(req[p])
    <3>1. PICK r : r = req[p]
      OBVIOUS
    <3>2. Fits(pc[p], r)
      BY <3>1 DEF IInv, Requests, Facts
    <3>3. \A t \in Tasks : task[t] # None => Written(task[t], r.writes) \in Task
      BY <3>2, WrittenTask DEF Fits, IInv, Rows
    <3>4. \A k \in Tickets : ticket[k] # None => Written(ticket[k], r.ticketWrites) \in Ticket
      BY <3>2, WrittenTicket DEF Fits, IInv, Rows
    <3>5. QED
      BY <3>1, <3>2, <3>3, <3>4 DEF RequestOK, Fits
  <2>2. QED
    BY <2>1 DEF IInv, Rows, Requests, TypeOK
<1>2. QED
  BY Inductive, <1>1, PTL

\* completed_at is set exactly on the DONE tasks that no two overlapping
\* requests and no ticket have changed (tasks/router.py:140-187): the stamp
\* is decided before the commit, from a row that may have been written since.
THEOREM StampsAgree == Spec => []CompletionStamped
<1>1. IInv => CompletionStamped
  BY DEF IInv
<1>2. QED
  BY Inductive, <1>1, PTL

\* A task carries what its ticket last gave it (helpdesk/router.py:102-144),
\* although the ticket is copied to it in one await and committed in another.
THEOREM TasksFollowTickets == Spec => []Mirrors
<1>1. IInv => Mirrors
  BY DEF IInv
<1>2. QED
  BY Inductive, <1>1, PTL

\* No commit of a request that had a task loaded brings it back once it was
\* deleted, and no ticket keeps or regains a reference to it.
THEOREM DeletedStaysDeleted == Spec => []DeletedForGood
<1>1. IInv => DeletedForGood
  <2> SUFFICES ASSUME IInv, NEW t \in deleted
               PROVE  task[t] = None /\ \A k \in Tickets : ticket[k] # None => ticket[k].task # t
    BY DEF DeletedForGood
  <2>1. t \in Tasks /\ task[t] = None /\ t # None
    BY NoneAssumption DEF IInv, Rows
  <2>2. QED
    BY <2>1 DEF IInv, Rows
<1>2. QED
  BY Inductive, <1>1, PTL

\* An account that is inactive at a commit becomes the assignee there only
\* when it was active at some time since the request began, or when a ticket
\* was assigned to it before: the look-up and the write are apart.
THEOREM AssigneesWereActive == Spec => AssignedWhileActive
<1> DEFINE Assigned(t, u) ==
             /\ task'[t] # None /\ task'[t].assignee = u
             /\ task[t] # None => task[t].assignee # u
           Allowed == \E p \in Procs :
              /\ pc[p] # "idle" /\ pc'[p] = "idle"
              /\ \/ p \in vouched
                 \/ \E k \in Tickets : /\ req[p].ticket = k
                                       /\ "assignee" \notin DOMAIN req[p].ticketWrites
<1>1. ASSUME IInv, [Next]_vars, NEW t \in Tasks, NEW u \in Users \ active, Assigned(t, u)
      PROVE  Allowed
  <2>1. task' # task
    BY <1>1
  <2>2. u # None
    BY NoneAssumption
  <2>3. ASSUME NEW p \in Procs, NEW touched, Finish(p, touched)  PROVE pc'[p] = "idle"
    BY <1>1, <2>3 DEF Finish, IInv, Requests
  <2>4. ASSUME NEW p \in Procs, NEW x \in Tasks, CreateCommit(p, x)  PROVE Allowed
    <3>1. Backed(p, "create_commit", req[p])
      BY <1>1, <2>4 DEF CreateCommit, IInv, Requests, Facts
    <3>2. task'[t] = IF t = x THEN req[p].row ELSE task[t]
      BY <1>1, <2>4 DEF CreateCommit, IInv, Rows
    <3>3. t = x /\ req[p].row.assignee = u
      BY <1>1, <3>2
    <3>4. QED
      BY <2>2, <2>3, <2>4, <3>1, <3>3 DEF Backed, CreateCommit
  <2>5. ASSUME NEW p \in Procs, NEW x \in Tasks, NEW k \in Tickets, OpenCommit(p, x, k)
        PROVE  Allowed
    <3>1. Backed(p, "open_commit", req[p])
      BY <1>1, <2>5 DEF OpenCommit, IInv, Requests, Facts
    <3>2. task'[t] = IF t = x THEN req[p].row ELSE task[t]
      BY <1>1, <2>5 DEF OpenCommit, IInv, Rows
    <3>3. t = x /\ req[p].row.assignee = u
      BY <1>1, <3>2
    <3>4. QED
      BY <2>2, <2>3, <2>5, <3>1, <3>3 DEF Backed, OpenCommit
  <2>6. ASSUME NEW p \in Procs, UpdateCommit(p)  PROVE Allowed
    <3>1. PICK x, w : x = req[p].task /\ w = req[p].writes
      OBVIOUS
    <3>2. Facts(p, "update_commit", req[p]) /\ pc[p] = "update_commit"
      BY <1>1, <2>6 DEF UpdateCommit, IInv, Requests
    <3>3. x \in Tasks /\ TaskWrites(w)
      BY <3>1, <3>2 DEF Facts, Fits, Updating
    <3>4. task[x] # None /\ task' = [task EXCEPT ![x] = Written(@, w)] /\ Finish(p, {x})
      BY <2>1, <2>6, <3>1 DEF UpdateCommit, Reject, dbVars
    <3>5. task[x] \in Task /\ task'[t] = IF t = x THEN Written(task[x], w) ELSE task[t]
      BY <1>1, <3>3, <3>4 DEF IInv, Rows
    <3>6. t = x /\ Written(task[x], w).assignee = u
      BY <1>1, <3>5
    <3>7. Has("assignee", w) /\ w["assignee"] = u
      BY <1>1, <3>3, <3>4, <3>5, <3>6, WrittenTask
    <3>8. p \in vouched
      BY <2>2, <3>1, <3>2, <3>7 DEF Facts, Backed
    <3>9. QED
      BY <2>3, <3>2, <3>4, <3>8
  <2>7. ASSUME NEW p \in Procs, DeleteCommit(p)  PROVE FALSE
    <3>1. task'[t] = IF t = req[p].task THEN None ELSE task[t]
      BY <1>1, <2>7 DEF DeleteCommit, IInv, Rows
    <3>2. QED
      BY <1>1, <3>1
  <2>8. ASSUME NEW p \in Procs, TicketCommit(p)  PROVE Allowed
    <3>1. PICK k, x, w, tw : /\ k = req[p].ticket /\ x = req[p].task
                             /\ w = req[p].writes /\ tw = req[p].ticketWrites
      OBVIOUS
    <3>2. Facts(p, "ticket_commit", req[p]) /\ pc[p] = "ticket_commit"
      BY <1>1, <2>8 DEF TicketCommit, IInv, Requests
    <3>3. k \in Tickets /\ TaskWrites(w) /\ (DOMAIN w # {} => x \in Tasks)
      BY <3>1, <3>2 DEF Facts, Fits
    <3>4. /\ DOMAIN w # {} /\ task[x] # None /\ Finish(p, {k, x} \ {None})
          /\ task' = [task EXCEPT ![x] = Written(@, w)]
      BY <2>1, <2>8, <3>1 DEF TicketCommit, Reject, dbVars
    <3>5. task[x] \in Task /\ task'[t] = IF t = x THEN Written(task[x], w) ELSE task[t]
      BY <1>1, <3>3, <3>4 DEF IInv, Rows
    <3>6. t = x /\ Written(task[x], w).assignee = u
      BY <1>1, <3>5
    <3>7. Has("assignee", w) /\ w["assignee"] = u
      BY <1>1, <3>3, <3>4, <3>5, <3>6, WrittenTask
    <3>8. Has("assignee", tw) => p \in vouched
      BY <2>2, <3>1, <3>2, <3>7 DEF Facts, Backed
    <3>9. QED
      BY <2>3, <3>1, <3>2, <3>3, <3>4, <3>8 DEF Has
  <2>9. ASSUME NEW p \in Procs, TaskRequest(p)  PROVE Allowed
    <3>1. \/ \E x \in Tasks : CreateCommit(p, x)
          \/ UpdateCommit(p) \/ DeleteCommit(p)
      BY <2>1, <2>9, ZenonT(60)
         DEF TaskRequest, Create, CreateValidate, Update, UpdateValidate, Delete, Comment,
             CommentCommit, Validate, Begin, Continue, Reject, dbVars
    <3>2. QED
      BY <2>4, <2>6, <2>7, <3>1
  <2>10. ASSUME NEW p \in Procs, TicketRequest(p)  PROVE Allowed
    <3>1. \/ \E x \in Tasks, k \in Tickets : OpenCommit(p, x, k)
          \/ TicketCommit(p)
      BY <2>1, <2>10, ZenonT(40)
         DEF TicketRequest, Open, OpenValidate, UpdateTicket, TicketValidate, TicketTask,
             Validate, Begin, Continue, Reject, dbVars
    <3>2. QED
      BY <2>5, <2>8, <3>1
  <2>11. QED
    BY <1>1, <2>1, <2>9, <2>10 DEF Next, Abort, Reject, SetActive, vars, dbVars
<1>2. IInv /\ [Next]_vars
        => [\A t \in Tasks, u \in Users \ active : Assigned(t, u) => Allowed]_vars
  BY <1>1
<1>3. QED
  BY Inductive, <1>2, PTL DEF Spec, AssignedWhileActive
=============================================================================
