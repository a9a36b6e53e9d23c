---------------------------- MODULE WorkTracking ----------------------------
(***************************************************************************)
(* Tasks (app/modules/tasks/router.py) and helpdesk tickets                *)
(* (app/modules/helpdesk/router.py) as overlapping requests.  A ticket is  *)
(* created together with a task; every later PATCH of the ticket copies    *)
(* its status and assignee to that task, and nothing is copied back.       *)
(*                                                                         *)
(* A request loads rows, changes them in memory and commits: the commit    *)
(* writes the columns that differ from what was loaded, and fails when the *)
(* row is gone.  Titles, descriptions, due dates and the audit entry that  *)
(* follows each commit are left out; completed_at is reduced to whether it *)
(* is set (stamped).  The step that authenticates the caller also loads    *)
(* the first row: nothing but is_active is read before it.                 *)
(***************************************************************************)
EXTENDS Naturals, FiniteSets

CONSTANTS
    Procs,          \* request slots: how many requests may overlap
    Users,          \* accounts
    Managers,       \* accounts of role SUPERADMIN, ADMIN or HOD
    Admins,         \* accounts of role SUPERADMIN or ADMIN
    Tasks, Tickets, \* rows that may ever be inserted
    TaskStatuses,   \* the statuses in use, of TaskStatus and TicketStatus
    TicketStatuses,
    None            \* NULL, no row

ASSUME RoleAssumption == Admins \subseteq Managers /\ Managers \subseteq Users
ASSUME StatusAssumption ==
    /\ {"TODO", "DONE"} \subseteq TaskStatuses
    /\ TaskStatuses \subseteq {"TODO", "IN_PROGRESS", "DONE", "BLOCKED"}
    /\ "OPEN" \in TicketStatuses
    /\ TicketStatuses \subseteq {"OPEN", "IN_PROGRESS", "RESOLVED", "CLOSED"}
    /\ "IN_PROGRESS" \in TicketStatuses => "IN_PROGRESS" \in TaskStatuses

Assignee == Users \cup {None}
Task == [status: TaskStatuses, stamped: BOOLEAN, assignee: Assignee, creator: Users]
Ticket == [status: TicketStatuses, assignee: Assignee, owner: Users,
           task: Tasks \cup {None}]

Unset == "unset"    \* a field the payload leaves out

ASSUME UnsetAssumption == Unset \notin Assignee
ASSUME NoneAssumption ==
    None \notin Users \cup Tasks \cup Tickets \cup Task \cup Ticket

VARIABLES
    \* database
    active,     \* users whose is_active is set
    task,       \* task[t]: the row of tasks, None when there is none
    ticket,     \* ticket[k]: the row of helpdesk_tickets
    comments,   \* tasks that have comments
    \* requests
    pc, req,
    \* history: read by properties, never by a guard
    deleted,    \* tasks that were deleted
    stale,      \* requests one of whose loaded rows was written since
    vouched,    \* requests whose new assignee was active at some time since
                \* they began
    loose,      \* tasks whose completed_at may disagree with their status
    drifted     \* tasks that may differ from their ticket

dbVars   == <<active, task, ticket, comments>>
rowHist  == <<deleted, loose, drifted>>
procHist == <<stale, vouched>>
vars     == <<dbVars, pc, req, rowHist, procHist>>

-----------------------------------------------------------------------------
Labels == {"idle", "create_validate", "create_commit", "update_validate",
           "update_commit", "delete_commit", "comment_commit", "open_validate",
           "open_commit", "ticket_validate", "ticket_task", "ticket_commit"}

\* What a request holds: the task it is about, the row it inserts or the
\* columns it writes; for a ticket likewise, and the ticket in memory until
\* it has been copied to the task; the assignee still to be looked up.
Blank == [task |-> None, row |-> None, ticket |-> None, copy |-> None,
          writes |-> << >>, ticketWrites |-> << >>, assignee |-> None]

\* The UPDATE: the written columns over what the table holds by now.
Written(row, writes) ==
    [f \in DOMAIN row |-> IF f \in DOMAIN writes THEN writes[f] ELSE row[f]]

\* The columns a changed object differs in from the row it was loaded from.
Changes(old, new) == [f \in {g \in DOMAIN old : new[g] # old[g]} |-> new[f]]

RequestOK(r) ==
    /\ DOMAIN r = DOMAIN Blank
    /\ r.task \in Tasks \cup {None} /\ r.ticket \in Tickets \cup {None}
    /\ r.assignee \in Assignee
    /\ r.row \in Task \cup {None} /\ r.copy \in Ticket \cup {None}
    /\ \A t \in Tasks : task[t] # None => Written(task[t], r.writes) \in Task
    /\ \A k \in Tickets : ticket[k] # None => Written(ticket[k], r.ticketWrites) \in Ticket

\* Rows and references are well formed: the foreign keys hold.
TypeOK ==
    /\ active \subseteq Users
    /\ task \in [Tasks -> Task \cup {None}]
    /\ ticket \in [Tickets -> Ticket \cup {None}]
    /\ comments \subseteq {t \in Tasks : task[t] # None}
    /\ \A k \in Tickets : ticket[k] # None /\ ticket[k].task # None
                             => task[ticket[k].task] # None
    /\ pc \in [Procs -> Labels] /\ \A p \in Procs : RequestOK(req[p])
    /\ deleted \subseteq Tasks /\ loose \subseteq Tasks /\ drifted \subseteq Tasks
    /\ stale \subseteq Procs /\ vouched \subseteq Procs

Init ==
    /\ active = Users
    /\ task = [t \in Tasks |-> None]
    /\ ticket = [k \in Tickets |-> None]
    /\ comments = {}
    /\ pc = [p \in Procs |-> "idle"]
    /\ req = [p \in Procs |-> Blank]
    /\ deleted = {} /\ loose = {} /\ drifted = {} /\ stale = {} /\ vouched = {}

-----------------------------------------------------------------------------
(***************************************************************************)
(* Control flow of one request.                                            *)
(***************************************************************************)

\* get_request_context, for an active user u.  a: the payload's assignee.
Begin(p, u, label, r, a) ==
    /\ pc[p] = "idle"
    /\ u \in active
    /\ pc' = [pc EXCEPT ![p] = label]
    /\ req' = [req EXCEPT ![p] = [r EXCEPT !.assignee = IF a = Unset THEN None ELSE a]]
    /\ vouched' = IF a \in active THEN vouched \cup {p} ELSE vouched
    /\ UNCHANGED <<dbVars, rowHist, stale>>

Continue(p, label, r) ==
    /\ pc' = [pc EXCEPT ![p] = label]
    /\ req' = [req EXCEPT ![p] = r]
    /\ UNCHANGED <<dbVars, rowHist, procHist>>

\* The request ends; requests that hold a row of `touched' are stale now.
Finish(p, touched) ==
    /\ pc' = [pc EXCEPT ![p] = "idle"]
    /\ req' = [req EXCEPT ![p] = Blank]
    /\ vouched' = vouched \ {p}
    /\ stale' = (stale \cup {q \in Procs : {req[q].task, req[q].ticket} \cap touched # {}})
                \ {p}

\* An HTTPException or a failed commit: the transaction is rolled back.
Reject(p) == Finish(p, {}) /\ UNCHANGED <<dbVars, rowHist>>

\* The server dies or the connection drops before the commit.
Abort(p) == pc[p] # "idle" /\ Reject(p)

\* Seeded fault: the assignee is looked up but may be inactive.
ValidateUnchecked(p, from, label) ==
    /\ pc[p] = from
    /\ Continue(p, label, [req[p] EXCEPT !.assignee = None])

\* _validate_assignee, _validate_user: the account exists and is active.
Validate(p, from, label) ==
    /\ pc[p] = from
    /\ IF req[p].assignee \in active
       THEN Continue(p, label, [req[p] EXCEPT !.assignee = None])
       ELSE Reject(p)

-----------------------------------------------------------------------------
(***************************************************************************)
(* /tasks                                                                  *)
(***************************************************************************)
CanManage(row, u) == u \in Managers \/ row.creator = u
IsAssignee(row, u) == row.assignee = u

Create(p, u, s, a) ==
    LET row == [status |-> s, stamped |-> s = "DONE", assignee |-> a, creator |-> u]
    IN Begin(p, u, IF a = None THEN "create_commit" ELSE "create_validate",
             [Blank EXCEPT !.row = row], a)

CreateValidate(p) == Validate(p, "create_validate", "create_commit")

CreateCommit(p, t) ==
    /\ pc[p] = "create_commit"
    /\ task[t] = None /\ t \notin deleted
    /\ task' = [task EXCEPT ![t] = req[p].row]
    /\ Finish(p, {})
    /\ UNCHANGED <<active, ticket, comments, rowHist>>

\* Seeded fault: completed_at is taken back only by an explicit TODO.
StampKept(row, s) == IF s = Unset THEN row.stamped
                     ELSE s = "DONE" \/ (row.stamped /\ s # "TODO")

\* completed_at after a PATCH with status s.
Stamp(row, s) == IF s = Unset THEN row.stamped ELSE s = "DONE"

\* PATCH, up to its next await: loads the task, checks who may change what
\* and sets the fields of the payload.  A status of DONE takes the time
\* again, so completed_at is written even when it was set.
Update(p, u, t, s, a) ==
    LET row == task[t]
        new == [row EXCEPT !.status = IF s = Unset THEN @ ELSE s,
                           !.stamped = Stamp(row, s),
                           !.assignee = IF a = Unset THEN @ ELSE a]
        writes == [f \in DOMAIN Changes(row, new)
                            \cup IF s = "DONE" THEN {"stamped"} ELSE {} |-> new[f]]
    IN /\ row # None
       /\ CanManage(row, u) \/ (IsAssignee(row, u) /\ a = Unset)
       /\ Begin(p, u, IF a \in {Unset, None} THEN "update_commit" ELSE "update_validate",
                [Blank EXCEPT !.task = t, !.writes = writes], a)

UpdateValidate(p) == Validate(p, "update_validate", "update_commit")

\* Seeded fault: the commit brings a deleted row back.
UpdateCommitMerges(p) ==
    LET t == req[p].task IN
    /\ pc[p] = "update_commit"
    /\ task[t] = None
    /\ task' = [task EXCEPT ![t] = [status |-> "TODO", stamped |-> FALSE, assignee |-> None,
                                    creator |-> CHOOSE u \in Users : TRUE]]
    /\ Finish(p, {t})
    /\ UNCHANGED <<active, ticket, comments, rowHist>>

UpdateCommit(p) ==
    LET t == req[p].task
        writes == req[p].writes
    IN /\ pc[p] = "update_commit"
       /\ \/ task[t] = None /\ Reject(p)
          \/ /\ task[t] # None
             /\ task' = [task EXCEPT ![t] = Written(@, writes)]
             /\ loose' = IF p \in stale THEN loose \cup {t}
                         ELSE IF "stamped" \in DOMAIN writes THEN loose \ {t} ELSE loose
             /\ drifted' = IF {"status", "assignee"} \cap DOMAIN writes # {}
                           THEN drifted \cup {t} ELSE drifted
             /\ Finish(p, {t})
             /\ UNCHANGED <<active, ticket, comments, deleted>>

Delete(p, u, t) ==
    /\ task[t] # None
    /\ CanManage(task[t], u)
    /\ Begin(p, u, "delete_commit", [Blank EXCEPT !.task = t], None)

\* The foreign keys take the comments along and clear the ticket's task_id.
DeleteCommit(p) ==
    LET t == req[p].task IN
    /\ pc[p] = "delete_commit"
    /\ task' = [task EXCEPT ![t] = None]
    /\ ticket' = [k \in Tickets |->
                    IF ticket[k] = None THEN None
                    ELSE IF ticket[k].task = t THEN [ticket[k] EXCEPT !.task = None]
                    ELSE ticket[k]]
    /\ comments' = comments \ {t}
    /\ deleted' = deleted \cup {t} /\ loose' = loose \ {t} /\ drifted' = drifted \ {t}
    /\ Finish(p, {t})
    /\ UNCHANGED active

Comment(p, u, t) ==
    /\ task[t] # None
    /\ CanManage(task[t], u) \/ IsAssignee(task[t], u)
    /\ Begin(p, u, "comment_commit", [Blank EXCEPT !.task = t], None)

\* The foreign key refuses a comment on a task deleted meanwhile.
CommentCommit(p) ==
    LET t == req[p].task IN
    /\ pc[p] = "comment_commit"
    /\ \/ task[t] = None /\ Reject(p)
       \/ /\ task[t] # None
          /\ comments' = comments \cup {t}
          /\ Finish(p, {})
          /\ UNCHANGED <<active, task, ticket, rowHist>>

-----------------------------------------------------------------------------
(***************************************************************************)
(* /helpdesk/tickets                                                       *)
(***************************************************************************)
Open(p, u, a) ==
    LET row == [status |-> "TODO", stamped |-> FALSE, assignee |-> a, creator |-> u]
        copy == [status |-> "OPEN", assignee |-> a, owner |-> u, task |-> None]
    IN Begin(p, u, IF a = None THEN "open_commit" ELSE "open_validate",
             [Blank EXCEPT !.row = row, !.copy = copy], a)

OpenValidate(p) == Validate(p, "open_validate", "open_commit")

\* Both rows are inserted in one transaction.
OpenCommit(p, t, k) ==
    /\ pc[p] = "open_commit"
    /\ task[t] = None /\ t \notin deleted /\ ticket[k] = None
    /\ task' = [task EXCEPT ![t] = req[p].row]
    /\ ticket' = [ticket EXCEPT ![k] = [req[p].copy EXCEPT !.task = t]]
    /\ Finish(p, {})
    /\ UNCHANGED <<active, comments, rowHist>>

\* The step after the assignee is settled: copy to the task, if any.
AfterAssignee(copy) == IF copy.task # None THEN "ticket_task" ELSE "ticket_commit"

\* PATCH, up to its next await.  The assignee is looked up before it is set.
UpdateTicket(p, u, k, s, a) ==
    LET row == ticket[k]
        new == [row EXCEPT !.status = IF s = Unset THEN @ ELSE s,
                           !.assignee = IF a = Unset THEN @ ELSE a]
    IN /\ row # None
       /\ row.owner = u \/ u \in Admins
       /\ Begin(p, u, IF a # Unset THEN "ticket_validate" ELSE AfterAssignee(row),
                [Blank EXCEPT !.ticket = k, !.ticketWrites = Changes(row, new),
                              !.copy = new], a)

TicketValidate(p) == Validate(p, "ticket_validate", AfterAssignee(req[p].copy))

\* The status a ticket gives to its task.
Image(s) == CASE s \in {"RESOLVED", "CLOSED"} -> "DONE"
              [] s = "IN_PROGRESS" -> "IN_PROGRESS"
              [] OTHER -> "TODO"

\* Seeded fault: the assignee is not copied.
CopyStatusOnly(row, copy) == [row EXCEPT !.status = Image(copy.status)]

\* completed_at is left as it is.
Copy(row, copy) == [row EXCEPT !.status = Image(copy.status), !.assignee = copy.assignee]

\* Loads the task the loaded ticket names and copies the ticket to it.
TicketTask(p) ==
    LET t == req[p].copy.task
        row == task[t]
        held == [req[p] EXCEPT !.copy = None]
    IN /\ pc[p] = "ticket_task"
       /\ IF row = None THEN Continue(p, "ticket_commit", held)
          ELSE Continue(p, "ticket_commit",
                        [held EXCEPT !.task = t,
                                     !.writes = Changes(row, Copy(row, req[p].copy))])

\* One commit writes ticket and task; a task that is gone undoes both.
TicketCommit(p) ==
    LET k == req[p].ticket
        t == req[p].task
        writes == req[p].writes
        writesTask == DOMAIN writes # {}
    IN /\ pc[p] = "ticket_commit"
       /\ \/ writesTask /\ task[t] = None /\ Reject(p)
          \/ /\ writesTask => task[t] # None
             /\ ticket' = [ticket EXCEPT ![k] = Written(@, req[p].ticketWrites)]
             /\ task' = IF writesTask THEN [task EXCEPT ![t] = Written(@, writes)] ELSE task
             /\ loose' = IF "status" \in DOMAIN writes THEN loose \cup {t} ELSE loose
             /\ drifted' = IF t = None \/ t \in deleted THEN drifted
                           ELSE IF p \in stale THEN drifted \cup {t} ELSE drifted \ {t}
             /\ Finish(p, {k, t} \ {None})
             /\ UNCHANGED <<active, comments, deleted>>

-----------------------------------------------------------------------------
\* PATCH /org/users/{id} with is_active; the assignees stay.
SetActive(u, a) ==
    /\ a # (u \in active)
    /\ active' = IF a THEN active \cup {u} ELSE active \ {u}
    /\ vouched' = IF a THEN vouched \cup {p \in Procs : req[p].assignee = u} ELSE vouched
    /\ UNCHANGED <<task, ticket, comments, pc, req, rowHist, stale>>

TaskRequest(p) ==
    \/ \E u \in Users, s \in TaskStatuses, a \in Assignee : Create(p, u, s, a)
    \/ CreateValidate(p)
    \/ \E t \in Tasks : CreateCommit(p, t)
    \/ \E u \in Users, t \in Tasks, s \in TaskStatuses \cup {Unset},
          a \in Assignee \cup {Unset} : Update(p, u, t, s, a)
    \/ UpdateValidate(p)
    \/ UpdateCommit(p)
    \/ \E u \in Users, t \in Tasks : Delete(p, u, t)
    \/ DeleteCommit(p)
    \/ \E u \in Users, t \in Tasks : Comment(p, u, t)
    \/ CommentCommit(p)

TicketRequest(p) ==
    \/ \E u \in Users, a \in Assignee : Open(p, u, a)
    \/ OpenValidate(p)
    \/ \E t \in Tasks, k \in Tickets : OpenCommit(p, t, k)
    \/ \E u \in Users, k \in Tickets, s \in TicketStatuses \cup {Unset},
          a \in Users \cup {Unset} : UpdateTicket(p, u, k, s, a)
    \/ TicketValidate(p)
    \/ TicketTask(p)
    \/ TicketCommit(p)

Next ==
    \/ \E p \in Procs : TaskRequest(p) \/ TicketRequest(p) \/ Abort(p)
    \/ \E u \in Users, a \in BOOLEAN : SetActive(u, a)

Spec == Init /\ [][Next]_vars
-----------------------------------------------------------------------------
(***************************************************************************)
(* Properties.                                                             *)
(***************************************************************************)

\* completed_at is set exactly on the tasks that are DONE, except where two
\* requests overlapped on the task or a ticket changed its status: a PATCH
\* writes status and completed_at only as far as they differ from the row
\* it loaded (tasks/router.py:178-180), a ticket only the status
\* (helpdesk/router.py:136-141).
CompletionStamped ==
    \A t \in Tasks : task[t] # None /\ t \notin loose
                        => (task[t].stamped <=> task[t].status = "DONE")

\* After a ticket's PATCH its task carries the ticket's status and assignee,
\* until the task itself is changed or two requests overlapped.
Mirrors ==
    \A k \in Tickets :
        ticket[k] # None =>
            LET t == ticket[k].task IN
            t \notin drifted \cup {None} =>
                /\ task[t].status = Image(ticket[k].status)
                /\ task[t].assignee = ticket[k].assignee

\* A deleted task does not come back, whatever requests had it loaded, and
\* no ticket points to it again.
DeletedForGood ==
    \A t \in deleted : /\ task[t] = None
                       /\ \A k \in Tickets : ticket[k] # None => ticket[k].task # t

\* An inactive account becomes the assignee of a task only by a request that
\* overlapped its deactivation, or by a ticket already assigned to it.
AssignedWhileActive ==
    [][\A t \in Tasks, u \in Users \ active :
          (/\ task'[t] # None /\ task'[t].assignee = u
           /\ task[t] # None => task[t].assignee # u)
          => \E p \in Procs : /\ pc[p] # "idle" /\ pc'[p] = "idle"
                              /\ \/ p \in vouched
                                 \/ \E k \in Tickets : /\ req[p].ticket = k
                                                       /\ "assignee" \notin DOMAIN req[p].ticketWrites]_vars
=============================================================================
