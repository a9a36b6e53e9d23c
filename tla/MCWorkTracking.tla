--------------------------- MODULE MCWorkTracking ---------------------------
(* Tasks and tickets on small instances, one scenario at a time: "statuses",*)
(* overlapping requests that change statuses of managers' tasks, every     *)
(* account active;                                                         *)
(* "accounts", overlapping requests while accounts come and go, every row  *)
(* keeping its first status; "comments", without tickets; "serial", every  *)
(* status, one request at a time.  In the first two, nothing overlaps an   *)
(* insert.                                                                 *)
EXTENDS WorkTracking, TLC

VARIABLE scenario

MCvars == <<vars, scenario>>

Scenarios == {"statuses", "accounts", "comments", "serial"}

Has(r, f) == f \in DOMAIN r
OnlyStatuses(S) ==
    /\ \A t \in Tasks : task[t] # None => task[t].status \in S
    /\ \A k \in Tickets : ticket[k] # None => ticket[k].status \in S
    /\ \A p \in Procs :
          LET r == req[p] IN
          /\ r.row # None => r.row.status \in S
          /\ Has(r.writes, "status") => r.writes.status \in S
          /\ Has(r.ticketWrites, "status") => r.ticketWrites.status \in S

InsertsAlone == \A p, q \in Procs : req[p].row # None /\ pc[q] # "idle" => p = q

Within ==
    CASE scenario = "statuses" ->
            /\ active = Users /\ OnlyStatuses({"TODO", "DONE", "OPEN", "RESOLVED"})
            /\ \A t \in Tasks : task[t] # None => task[t].creator \in Managers
            /\ \A p \in Procs : /\ pc[p] # "comment_commit"
                                /\ req[p].assignee \notin Admins
            /\ InsertsAlone
      [] scenario = "accounts" ->
            /\ Admins \subseteq active /\ OnlyStatuses({"TODO", "OPEN"})
            /\ \A p \in Procs : /\ pc[p] \notin {"comment_commit", "delete_commit"}
                                /\ ~Has(req[p].writes, "status")
                                /\ ~Has(req[p].ticketWrites, "status")
            /\ InsertsAlone
      [] scenario = "comments" ->
            /\ active = Users /\ OnlyStatuses({"TODO"})
            /\ \A p \in Procs : req[p].copy = None
      [] scenario = "serial" ->
            /\ active = Users
            /\ \A p \in Procs : /\ pc[p] # "comment_commit"
                                /\ req[p].assignee \notin Admins
            /\ \A p, q \in Procs : pc[p] # "idle" /\ pc[q] # "idle" => p = q

MCInit == Init /\ scenario \in Scenarios
MCNext == Next /\ UNCHANGED scenario /\ Within'
MCSpec == MCInit /\ [][MCNext]_MCvars

Symmetry == Permutations(Procs)
=============================================================================
