------------------------------ MODULE OrgChart ------------------------------
(***************************************************************************)
(* Departments, reporting lines and the chart (app/modules/org/router.py,  *)
(* admin/router.py, agents/router.py) as overlapping requests, and the     *)
(* root department that seeding looks for (app/services/bootstrap.py).     *)
(*                                                                         *)
(* Department names are compared in lower case by the handlers and as they *)
(* are by the unique key.  A PATCH writes the columns that differ from the *)
(* row it loaded.  The callers are administrators.  Descriptions, the      *)
(* schedule of an account and the department it belongs to are left out;   *)
(* its role and agent profile are in Onboarding, so any account may be an  *)
(* agent's here.  Departments and accounts are never deleted, so a parent  *)
(* or manager that was looked up stays.                                    *)
(***************************************************************************)
EXTENDS Naturals, FiniteSets

CONSTANTS
    Procs,          \* request slots: how many requests may overlap
    Users,
    Departments,    \* rows that may ever be inserted
    Names,          \* spellings of names
    Lower,          \* Lower[n]: n in lower case
    Root,           \* the name seeding gives to the root department
    None

ASSUME NameAssumption == Root \in Names /\ DOMAIN Lower = Names

Department == [name : Names, parent : Departments \cup {None}]

ASSUME NoneAssumption == None \notin Users \cup Departments \cup Names \cup Department

VARIABLES
    \* database
    dept,       \* dept[d]: name and parent, None when there is no row
    user,       \* user[u]: manager and is_active
    \* requests
    pc, req,
    \* history
    renamed,    \* requests since whose start a department got a name
    excused     \* departments whose name may repeat another's

vars == <<dept, user, pc, req, renamed, excused>>

-----------------------------------------------------------------------------
Account == [manager : Users \cup {None}, active : BOOLEAN]

\* row: the department it inserts; id, writes: the row it updates and the
\* columns; padded: the name came with blanks around it; asks (history): the
\* fields of an account the payload has.
Blank == [id |-> None, row |-> None, padded |-> FALSE, writes |-> << >>, asks |-> {}]

Has(f, writes) == f \in DOMAIN writes
Written(row, writes) == [f \in DOMAIN row |-> IF Has(f, writes) THEN writes[f] ELSE row[f]]
Changes(old, new) == [f \in {g \in DOMAIN old : new[g] # old[g]} |-> new[f]]

\* The unique key holds, and no department is its own parent.
TypeOK ==
    /\ dept \in [Departments -> Department \cup {None}]
    /\ \A d \in Departments : dept[d] # None =>
          /\ dept[d].parent # d
          /\ dept[d].parent # None => dept[dept[d].parent] # None
          /\ \A e \in Departments \ {d} : dept[e] # None => dept[e].name # dept[d].name
    /\ user \in [Users -> Account]
    /\ pc \in [Procs -> {"idle", "insert", "check", "dept_commit", "user_commit"}]
    /\ \A p \in Procs : DOMAIN req[p] = DOMAIN Blank
    /\ renamed \subseteq Procs
    /\ excused \subseteq Departments

Init ==
    /\ dept = [d \in Departments |-> None]
    /\ user = [u \in Users |-> [manager |-> None, active |-> TRUE]]
    /\ pc = [p \in Procs |-> "idle"]
    /\ req = [p \in Procs |-> Blank]
    /\ renamed = {} /\ excused = {}

-----------------------------------------------------------------------------
(***************************************************************************)
(* GET /org/chart.                                                         *)
(***************************************************************************)
Active == {u \in Users : user[u].active}

\* Seeded fault: only those without a manager are roots.
TopRoots == {u \in Active : user[u].manager = None}

\* roots: active accounts whose manager is not an active one.
Roots == {u \in Active : user[u].manager \notin Active}

\* build_node, level by level: who appears within n levels.
Levels[n \in Nat] ==
    IF n = 0 THEN Roots
    ELSE Levels[n - 1] \cup {u \in Active : user[u].manager \in Levels[n - 1]}

Shown == Levels[Cardinality(Users)]

-----------------------------------------------------------------------------
(***************************************************************************)
(* Control flow of one request.                                            *)
(***************************************************************************)
Continue(p, label, r) ==
    /\ pc' = [pc EXCEPT ![p] = label]
    /\ req' = [req EXCEPT ![p] = r]
    /\ UNCHANGED <<dept, user, renamed, excused>>

\* The request ends; names: having given a department a name.
Finish(p, names) ==
    /\ pc' = [pc EXCEPT ![p] = "idle"]
    /\ req' = [req EXCEPT ![p] = Blank]
    /\ renamed' = (renamed \cup IF names THEN {q \in Procs : pc[q] # "idle"} ELSE {}) \ {p}

\* An HTTPException, a failed commit, a dropped connection.
Leave(p) == Finish(p, FALSE) /\ UNCHANGED <<dept, user, excused>>

Abort(p) == pc[p] # "idle" /\ Leave(p)

-----------------------------------------------------------------------------
(***************************************************************************)
(* Departments.                                                            *)
(***************************************************************************)

\* Seeded fault: names are compared as they are.
NamedExactly(n) == {d \in Departments : dept[d] # None /\ dept[d].name = n}

\* The SELECT by lower-case name.
Named(n) == {d \in Departments : dept[d] # None /\ Lower[dept[d].name] = Lower[n]}

\* POST: the name is looked up as it came and stored without its blanks.
\* More than one match is an error too.
Create(p, n, padded, parent) ==
    /\ pc[p] = "idle"
    /\ IF parent = None THEN TRUE ELSE dept[parent] # None
    /\ padded \/ Named(n) = {}
    /\ Continue(p, "insert", [Blank EXCEPT !.row = [name |-> n, parent |-> parent],
                                           !.padded = padded])

\* ensure_root_department: looks for a root by its name and missing parent.
SeekRoot(p) ==
    /\ pc[p] = "idle"
    /\ {d \in Named(Root) : dept[d].parent = None} = {}
    /\ Continue(p, "insert", [Blank EXCEPT !.row = [name |-> Root, parent |-> None],
                                           !.padded = Named(Root) # {}])

\* The unique key refuses a name that is there.
Insert(p, d) ==
    /\ pc[p] = "insert"
    /\ dept[d] = None
    /\ \A e \in Departments : dept[e] # None => dept[e].name # req[p].row.name
    /\ dept' = [dept EXCEPT ![d] = req[p].row]
    /\ excused' = IF req[p].padded \/ p \in renamed THEN excused \cup {d} ELSE excused
    /\ Finish(p, TRUE)
    /\ UNCHANGED user

Unset == "unset"    \* a field the payload leaves out

\* PATCH: loads the row; the new name is looked up next.
LoadDept(p, d, n, parent) ==
    LET row == dept[d]
        new == [row EXCEPT !.name = IF n = Unset THEN @ ELSE n,
                           !.parent = IF parent = Unset THEN @ ELSE parent]
    IN /\ pc[p] = "idle"
       /\ row # None
       /\ parent # d
       /\ IF parent \in {Unset, None} THEN TRUE ELSE dept[parent] # None
       /\ Continue(p, IF n = Unset THEN "dept_commit" ELSE "check",
                   [Blank EXCEPT !.id = d, !.row = IF n = Unset THEN None ELSE new,
                                 !.writes = Changes(row, new)])

CheckName(p) ==
    LET r == req[p] IN
    /\ pc[p] = "check"
    /\ IF Named(r.row.name) \ {r.id} # {} THEN Leave(p)
       ELSE Continue(p, "dept_commit", [r EXCEPT !.row = None])

CommitDept(p) ==
    LET d == req[p].id
        new == Written(dept[d], req[p].writes)
    IN /\ pc[p] = "dept_commit"
       /\ \A e \in Departments \ {d} : dept[e] # None => dept[e].name # new.name
       /\ dept' = [dept EXCEPT ![d] = new]
       /\ excused' = IF Has("name", req[p].writes)
                     THEN IF p \in renamed THEN excused \cup {d} ELSE excused \ {d}
                     ELSE excused
       /\ Finish(p, Has("name", req[p].writes))
       /\ UNCHANGED user

-----------------------------------------------------------------------------
(***************************************************************************)
(* PATCH /org/users/{id}, /org/users/{id}/manager and /agents/{id}.        *)
(***************************************************************************)
\* The row is loaded and changed.  asks: the fields the payload has; m and a:
\* their values.
LoadUser(p, u, asks, m, a) ==
    LET new == [manager |-> IF "manager" \in asks THEN m ELSE user[u].manager,
                active |-> IF "active" \in asks THEN a ELSE user[u].active]
    IN /\ pc[p] = "idle"
       /\ Continue(p, "user_commit",
                   [Blank EXCEPT !.id = u, !.row = new, !.asks = asks,
                                 !.writes = Changes(user[u], new)])

\* "User cannot report to self"
MayReportTo(u, m) == m # u

UpdateUser(p, u, asks, m, a) ==
    /\ "manager" \in asks => MayReportTo(u, m)
    /\ LoadUser(p, u, asks, m, a)

\* PATCH .../manager: the manager alone.
UpdateManager(p, u, m) ==
    /\ MayReportTo(u, m)
    /\ LoadUser(p, u, {"manager"}, m, TRUE)

\* PATCH /agents/{id} takes no manager away, and lets an agent report to itself.
UpdateAgent(p, u, asks, m, a) ==
    /\ "manager" \in asks => m # None
    /\ LoadUser(p, u, asks, m, a)

\* Seeded fault: the row is stored as it was loaded and changed.
StoreRow(p, row) == req[p].row

\* The UPDATE of the changed columns.
Store(p, row) == Written(row, req[p].writes)

CommitUser(p) ==
    LET u == req[p].id IN
    /\ pc[p] = "user_commit"
    /\ user' = [user EXCEPT ![u] = Store(p, @)]
    /\ Finish(p, FALSE)
    /\ UNCHANGED <<dept, excused>>

-----------------------------------------------------------------------------
DeptRequest(p) ==
    \/ \E n \in Names, padded \in BOOLEAN, parent \in Departments \cup {None} :
          Create(p, n, padded, parent)
    \/ SeekRoot(p)
    \/ \E d \in Departments : Insert(p, d)
    \/ \E d \in Departments, n \in Names \cup {Unset},
          parent \in Departments \cup {None, Unset} : LoadDept(p, d, n, parent)
    \/ CheckName(p)
    \/ CommitDept(p)

UserRequest(p) ==
    \/ \E u \in Users, asks \in SUBSET {"manager", "active"},
          m \in Users \cup {None}, a \in BOOLEAN :
          UpdateUser(p, u, asks, m, a) \/ UpdateAgent(p, u, asks, m, a)
    \/ \E u \in Users, m \in Users \cup {None} : UpdateManager(p, u, m)
    \/ CommitUser(p)

Next == \E p \in Procs : DeptRequest(p) \/ UserRequest(p) \/ Abort(p)

Spec == Init /\ [][Next]_vars
-----------------------------------------------------------------------------
(***************************************************************************)
(* Properties.                                                             *)
(***************************************************************************)

\* Two departments have one name in different case only where a name came
\* padded with blanks (org/router.py:87 compares it so, :100 stores it
\* stripped), where seeding made a root beside one that has a parent, or
\* where another name was stored between the look-up and the commit.
NamesApart ==
    \A d, e \in Departments :
        (d # e /\ dept[d] # None /\ dept[e] # None
         /\ Lower[dept[d].name] = Lower[dept[e].name])
        => {d, e} \cap excused # {}

\* What one request set is not undone by another that did not ask for it:
\* an account is activated or deactivated, and its manager replaced, only by
\* a PATCH with that field, however old the row that PATCH had loaded.
OnlyAsAsked ==
    [][\A u \in Users, f \in {"manager", "active"} :
          user'[u][f] # user[u][f]
          => \E p \in Procs : /\ pc[p] = "user_commit" /\ pc'[p] = "idle"
                              /\ req[p].id = u /\ f \in req[p].asks]_vars

\* An active account is missing from the chart exactly when it reports,
\* through active managers only, in a circle or into one.  The recursion
\* starts at the roots; circles are of any length: /org refuses only an
\* account as its own manager, /agents and the pilot seeding not even that.
MissingInCircles ==
    \A u \in Active :
        u \notin Shown
        <=> \E S \in SUBSET Active : u \in S /\ \A v \in S : user[v].manager \in S
=============================================================================
