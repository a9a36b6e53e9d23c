----------------------------- MODULE PilotSeed ------------------------------
(***************************************************************************)
(* scripts/seed_pilot.py: the script that puts the pilot data in place,    *)
(* run by hand and run again, beside the live system and perhaps beside    *)
(* itself.                                                                 *)
(*                                                                         *)
(* The data is a plan of items, each of a kind.  For each item in turn the *)
(* script looks for its row; finds none and adds one, finds one and sets   *)
(* its fields, finds two and fails.  Of several direct threads of the two  *)
(* pilot users it takes any, and it looks for the messages in that thread  *)
(* alone.  A department or account is added at once (flush), which holds   *)
(* its unique key until the transaction ends; everything else is written   *)
(* by the one commit at the end, which fails when a row to change is gone  *)
(* or a key is taken.  (A new thread is flushed too, with what is pending: *)
(* that may fail, or make others wait, sooner, and nothing else.)  A row   *)
(* is reduced to whether it still has the fields the script gives it.      *)
(***************************************************************************)
EXTENDS Naturals, SequencesExt

CONSTANTS
    Procs,      \* runs of the script that may overlap
    Items,
    Plan,       \* the items in the order the script takes them
    Kind,       \* Kind[i]: see Kinds
    Threads,    \* ids of direct threads of the two pilot users
    MaxRows,    \* bound: rows of an item to which the live system adds
    None

Kinds == {"department", "user", "agent", "profile", "task", "thread", "message", "entry"}

ASSUME PlanAssumption ==
    /\ Kind \in [Items -> Kinds]
    /\ Plan \in Seq(Items) /\ {Plan[n] : n \in DOMAIN Plan} = Items
    /\ \A m, n \in DOMAIN Plan : Plan[m] = Plan[n] => m = n

\* One thread, before the messages.
ASSUME ThreadAssumption ==
    /\ \A i, j \in Items : Kind[i] = "thread" /\ Kind[j] = "thread" => i = j
    /\ \A n \in DOMAIN Plan : Kind[Plan[n]] = "message" =>
          \E m \in 1..n - 1 : Kind[Plan[m]] = "thread"

ASSUME NoneAssumption == None \notin Procs \cup Items \cup Threads
ASSUME BoundAssumption == MaxRows \in Nat

VARIABLES
    \* database
    rows,       \* rows[x]: the rows of a cell, by their values
    key,        \* key[i]: the run whose uncommitted insert holds i's key
    superadmin, \* there is a superadmin
    \* runs of the script
    pc,         \* pc[p]: position in the plan, 0 when not running
    flushing,   \* runs about to insert the row their position names
    thread,     \* thread[p]: the thread p found or opens, None before that
    writes,     \* writes[p][i]: "insert", the value of the row it sets
                \* fields of, "gone" when that row was deleted, or "none"
    \* history
    alone,      \* runs that saw nobody else change anything since they began
    settled,    \* the last change was the commit of a run that was alone
    quiet,      \* runs still alone that began settled
    late,       \* late[p]: cells somebody else gave or took a row since p began
    crossed     \* the agent's role last changed while a run was under way

dbVars   == <<rows, key, superadmin>>
history  == <<alone, settled, quiet, late, crossed>>
vars     == <<dbVars, pc, flushing, thread, writes, history>>

-----------------------------------------------------------------------------
\* seeded: as the script makes it.  changed: other fields, other role,
\* inactive.  done: a task that is DONE.  open: a time entry without its end.
Values == {"seeded", "changed", "done", "open"}

Flushed(i) == Kind[i] \in {"department", "user", "agent"}
Keyed(i)   == Flushed(i) \/ Kind[i] \in {"profile", "entry"}

Threaded(i) == Kind[i] \in {"thread", "message"}

\* Where the rows of an item are: those of a message in a thread, the row of a
\* thread at its own id.
Cells == Items \X (Threads \cup {None})
Cell(p, i) == <<i, IF Threaded(i) THEN thread[p] ELSE None>>

Nothing == [i \in Items |-> "none"]

\* What has a unique key has one row at most, and none while a run's
\* uncommitted insert holds the key.
TypeOK ==
    /\ rows \in [Cells -> Seq(Values)]
    /\ \A x \in Cells : Keyed(x[1]) => Len(rows[x]) <= 1
    /\ key \in [Items -> Procs \cup {None}]
    /\ \A i \in Items : key[i] # None => /\ Flushed(i) /\ rows[<<i, None>>] = << >>
                                         /\ writes[key[i]][i] = "insert"
    /\ superadmin \in BOOLEAN
    /\ pc \in [Procs -> 0..Len(Plan) + 1]
    /\ flushing \subseteq {p \in Procs : pc[p] \in DOMAIN Plan}
    /\ thread \in [Procs -> Threads \cup {None}]
    /\ writes \in [Procs -> [Items -> {"none", "insert", "gone"} \cup Values]]
    /\ settled \in BOOLEAN /\ crossed \in BOOLEAN
    /\ alone \subseteq Procs /\ quiet \subseteq alone
    /\ late \in [Procs -> SUBSET Cells]

Init ==
    /\ rows = [x \in Cells |-> << >>]
    /\ key = [i \in Items |-> None]
    /\ superadmin = FALSE
    /\ pc = [p \in Procs |-> 0]
    /\ flushing = {}
    /\ thread = [p \in Procs |-> None]
    /\ writes = [p \in Procs |-> Nothing]
    /\ settled = FALSE /\ crossed = FALSE /\ alone = {} /\ quiet = {}
    /\ late = [p \in Procs |-> {}]

Running == {p \in Procs : pc[p] # 0}

-----------------------------------------------------------------------------
(***************************************************************************)
(* One run of the script.                                                  *)
(***************************************************************************)

\* The fields the script sets on a row it finds, by kind.  A task keeps a
\* status other than DONE; a message and a thread are left as they are.
ReseededTask(v) == "seeded"

\* An entry gets the times and minutes it lacks.
ReseededEntry(v) == IF v = "open" THEN "seeded" ELSE v

Reseeded(i, v) ==
    CASE Kind[i] \in {"department", "user", "agent", "profile"} -> "seeded"
      [] Kind[i] = "task" -> ReseededTask(v)
      [] Kind[i] = "entry" -> ReseededEntry(v)
      [] OTHER -> v

\* The transaction ends and the session is closed.
End(p) ==
    /\ pc' = [pc EXCEPT ![p] = 0]
    /\ writes' = [writes EXCEPT ![p] = Nothing]
    /\ thread' = [thread EXCEPT ![p] = None]
    /\ flushing' = flushing \ {p}

\* Seeded fault: the session stays open.
HeldOn(p) == key

Released(p) == [i \in Items |-> IF key[i] = p THEN None ELSE key[i]]

\* An exception: two rows, a key that is taken, a row that is gone; or the
\* script is killed.  Its transaction is rolled back.
Fail(p) ==
    /\ pc[p] # 0
    /\ End(p)
    /\ key' = Released(p)
    /\ alone' = alone \ {p} /\ quiet' = quiet \ {p}
    /\ late' = [late EXCEPT ![p] = {}]
    /\ UNCHANGED <<rows, superadmin, settled, crossed>>

Begin(p) ==
    /\ pc[p] = 0
    /\ superadmin
    /\ pc' = [pc EXCEPT ![p] = 1]
    /\ alone' = alone \cup {p}
    /\ quiet' = IF settled THEN quiet \cup {p} ELSE quiet
    /\ UNCHANGED <<dbVars, flushing, thread, writes, settled, late, crossed>>

\* Seeded fault: messages are not looked for.
FoundButMessages(x) == IF Kind[x[1]] = "message" THEN << >> ELSE rows[x]

\* Seeded fault: the profile is looked for only when the account is new.
FoundWithAccount(x) ==
    IF Kind[x[1]] = "profile" /\ \E j \in Items : Kind[j] = "agent" /\ rows[<<j, None>>] # << >>
    THEN <<"seeded">> ELSE rows[x]

\* The SELECT for the rows of a cell.
Found(x) == rows[x]

\* The next item of the plan: its row is looked for, its fields set, or a row
\* added.
LookUp(p) ==
    LET i == Plan[pc[p]]
        found == Found(Cell(p, i))
        write == IF found = << >> THEN "insert"
                 ELSE IF Reseeded(i, found[1]) # found[1] THEN found[1] ELSE "none"
    IN /\ pc[p] \in DOMAIN Plan /\ p \notin flushing
       /\ \/ /\ Len(found) > 1
             /\ Fail(p)
          \/ /\ Len(found) <= 1
             /\ writes' = [writes EXCEPT ![p][i] = write]
             /\ IF Flushed(i) /\ write = "insert"
                THEN flushing' = flushing \cup {p} /\ UNCHANGED pc
                ELSE pc' = [pc EXCEPT ![p] = @ + 1] /\ UNCHANGED flushing
             /\ UNCHANGED <<dbVars, thread, history>>

\* Seeded fault: a thread nobody has written to is not found.
OpenedAndUsed(i) ==
    {c \in Threads : /\ rows[<<i, c>>] # << >>
                     /\ \E j \in Items : Kind[j] = "message" /\ rows[<<j, c>>] # << >>}

Opened(i) == {c \in Threads : rows[<<i, c>>] # << >>}
NewId(i, c) == rows[<<i, c>>] = << >> /\ \A q \in Procs : thread[q] # c

\* _find_dm_thread goes through the threads in the order the database gives
\* them and takes the first that fits.
FindThread(p) ==
    LET i == Plan[pc[p]] IN
    \E c \in Threads :
       /\ IF Opened(i) # {} THEN c \in Opened(i) ELSE NewId(i, c)
       /\ thread' = [thread EXCEPT ![p] = c]
       /\ writes' = [writes EXCEPT ![p][i] = IF Opened(i) # {} THEN "none" ELSE "insert"]
       /\ pc' = [pc EXCEPT ![p] = @ + 1]
       /\ UNCHANGED <<dbVars, flushing, history>>

At(p, kinds) == pc[p] \in DOMAIN Plan /\ Kind[Plan[pc[p]]] \in kinds

GetOrCreateDepartment(p) == At(p, {"department"}) /\ LookUp(p)
UpsertUser(p)            == At(p, {"user", "agent"}) /\ LookUp(p)
EnsureAgentProfile(p)    == At(p, {"profile"}) /\ LookUp(p)
EnsureTask(p)            == At(p, {"task"}) /\ LookUp(p)
EnsureDmThread(p)        == At(p, {"thread"}) /\ FindThread(p)
EnsureMessage(p)         == At(p, {"message"}) /\ LookUp(p)
EnsureTimeEntry(p)       == At(p, {"entry"}) /\ LookUp(p)

\* Seeded fault: every flush is committed.
FlushCommits(p) ==
    LET i == Plan[pc[p]] IN
    /\ p \in flushing
    /\ rows[<<i, None>>] = << >>
    /\ rows' = [rows EXCEPT ![<<i, None>>] = <<"seeded">>]
    /\ writes' = [writes EXCEPT ![p][i] = "none"]
    /\ pc' = [pc EXCEPT ![p] = @ + 1]
    /\ flushing' = flushing \ {p}
    /\ UNCHANGED <<key, superadmin, thread, history>>

\* The INSERT waits while another transaction holds the key, and fails when
\* that one has committed.
Flush(p) ==
    LET i == Plan[pc[p]] IN
    /\ p \in flushing
    /\ key[i] = None
    /\ \/ /\ rows[<<i, None>>] # << >>
          /\ Fail(p)
       \/ /\ rows[<<i, None>>] = << >>
          /\ key' = [key EXCEPT ![i] = p]
          /\ pc' = [pc EXCEPT ![p] = @ + 1]
          /\ flushing' = flushing \ {p}
          /\ UNCHANGED <<rows, superadmin, thread, writes, history>>

\* What the commit makes of the rows of a cell.
Stored(x, write) ==
    CASE write = "insert" -> Append(rows[x], "seeded")
      [] write = "none" -> rows[x]
      [] OTHER -> [rows[x] EXCEPT ![1] = IF @ = write THEN Reseeded(x[1], @) ELSE @]

Commit(p) ==
    LET w == writes[p]
        gone == \E i \in Items : w[i] = "gone"
        taken == \E i \in Items : w[i] = "insert" /\ Keyed(i) /\ rows[<<i, None>>] # << >>
        added == {Cell(p, i) : i \in {j \in Items : w[j] = "insert"}}
    IN /\ pc[p] = Len(Plan) + 1
       /\ \/ /\ gone \/ taken
             /\ Fail(p)
          \/ /\ ~gone /\ ~taken
             /\ rows' = [x \in Cells |-> IF x = Cell(p, x[1]) THEN Stored(x, w[x[1]])
                                        ELSE rows[x]]
             /\ End(p)
             /\ key' = Released(p)
             /\ settled' = (p \in alone)
             /\ alone' = {} /\ quiet' = {}
             /\ late' = [q \in Procs |-> IF q = p \/ pc[q] = 0 THEN {} ELSE late[q] \cup added]
             /\ UNCHANGED <<superadmin, crossed>>

-----------------------------------------------------------------------------
(***************************************************************************)
(* The live system: what it may do to the rows between and beside the      *)
(* runs.                                                                   *)
(***************************************************************************)
SeedSuperadmin ==
    /\ ~superadmin
    /\ superadmin' = TRUE
    /\ UNCHANGED <<rows, key, pc, flushing, thread, writes, history>>

\* new: the rows as one request of the live system leaves them; lost: cells
\* whose first row, the one a run would set fields of, is no longer there.
Live(new, lost) ==
    /\ rows' = new
    /\ writes' = [p \in Procs |-> [i \in Items |->
                    IF writes[p][i] \in Values /\ Cell(p, i) \in lost THEN "gone"
                    ELSE writes[p][i]]]
    /\ settled' = FALSE
    /\ alone' = {} /\ quiet' = {}
    /\ late' = [p \in Procs |->
                  IF pc[p] = 0 THEN {}
                  ELSE late[p] \cup {x \in Cells : Len(new[x]) # Len(rows[x])}]
    /\ UNCHANGED <<key, superadmin, pc, flushing, thread>>

\* A department, an account, a task is made by hand, an entry by a check-in; one
\* of the two users opens a thread, or sends such a message.
Add(i, c) ==
    /\ CASE Kind[i] \in {"department", "user", "agent", "entry"} ->
              c = None /\ rows[<<i, c>>] = << >> /\ key[i] = None
         [] Kind[i] = "task" -> c = None /\ Len(rows[<<i, c>>]) < MaxRows
         [] Kind[i] = "thread" -> c # None /\ NewId(i, c)
         [] Kind[i] = "message" -> /\ \E j \in Items : Kind[j] = "thread" /\ c \in Opened(j)
                                   /\ Len(rows[<<i, c>>]) < MaxRows
         [] OTHER -> FALSE
    /\ Live([rows EXCEPT ![<<i, c>>] =
               Append(@, IF Kind[i] = "entry" THEN "open"
                         ELSE IF Threaded(i) THEN "seeded" ELSE "changed")], {})
    /\ UNCHANGED crossed

\* A row is changed, a task completed.
Edit(i, n, v) ==
    /\ n \in DOMAIN rows[<<i, None>>] /\ rows[<<i, None>>][n] # v
    /\ v \in IF Kind[i] = "task" THEN {"changed", "done"} ELSE {"changed"}
    /\ Kind[i] \in {"department", "user", "task"}
    /\ Live([rows EXCEPT ![<<i, None>>][n] = v], {})
    /\ UNCHANGED crossed

\* A task is deleted; a day passes, and the new one has no entry.
Delete(i, n) ==
    /\ n \in DOMAIN rows[<<i, None>>]
    /\ Kind[i] = "entry" => Running = {}
    /\ Kind[i] \in {"task", "entry"}
    /\ Live([rows EXCEPT ![<<i, None>>] = RemoveAt(@, n)],
            IF n = 1 THEN {<<i, None>>} ELSE {})
    /\ UNCHANGED crossed

\* The agent gets another role and loses its profile, or becomes an agent
\* again and gets an empty one.
ChangeRole(i, j) ==
    /\ Kind[i] = "agent" /\ Kind[j] = "profile"
    /\ rows[<<i, None>>] # << >>
    /\ IF rows[<<i, None>>] = <<"seeded">>
       THEN Live([rows EXCEPT ![<<i, None>>] = <<"changed">>, ![<<j, None>>] = << >>], {<<j, None>>})
       ELSE Live([rows EXCEPT ![<<i, None>>] = <<"seeded">>,
                              ![<<j, None>>] = IF @ = << >> THEN <<"changed">> ELSE @], {})
    /\ crossed' = (Running # {})

Step(p) ==
    \/ GetOrCreateDepartment(p) \/ UpsertUser(p) \/ EnsureAgentProfile(p)
    \/ EnsureTask(p) \/ EnsureDmThread(p) \/ EnsureMessage(p) \/ EnsureTimeEntry(p)
    \/ Flush(p) \/ Commit(p)

LiveNext ==
    \/ SeedSuperadmin
    \/ \E i \in Items, c \in Threads \cup {None} : Add(i, c)
    \/ \E i \in Items : \E n \in DOMAIN rows[<<i, None>>] :
          Delete(i, n) \/ \E v \in Values : Edit(i, n, v)
    \/ \E i, j \in Items : ChangeRole(i, j)

Next ==
    \/ \E p \in Procs : Begin(p) \/ Step(p) \/ Fail(p)
    \/ LiveNext

\* A run goes on: it waits for nothing but its database, and the database
\* wakes whoever waits for a key when the transaction that held it ends.
Fairness == \A p \in Procs : WF_vars(Step(p)) /\ SF_vars(Flush(p))

Spec == Init /\ [][Next]_vars /\ Fairness
-----------------------------------------------------------------------------
(***************************************************************************)
(* Properties.                                                             *)
(***************************************************************************)

\* A run that changes anything leaves every item of the plan with a row, each
\* message in the run's thread, except what others removed while it ran: a run
\* that fails half-way has done nothing (seed_pilot.py:445 is its only commit).
AllOrNothing ==
    [][\A p \in Procs :
          (pc[p] # 0 /\ pc'[p] # pc[p] /\ rows' # rows)
          => \A i \in Items : Cell(p, i) \in late[p] \/ rows'[Cell(p, i)] # << >>]_vars

\* Where the script looks before it adds a row to a cell: for a thread
\* anywhere, for anything else in the cell.
Searched(x) == IF Kind[x[1]] = "thread" THEN {<<x[1], c>> : c \in Threads} ELSE {x}

\* The script adds a second row of a task, a second thread, or a message a
\* second time to one thread, only when somebody else added one while it ran;
\* no key forbids it.  With two threads a run that nothing overlaps still
\* sends the messages again, to the thread that an earlier one did not take.
OneRowUnlessOverlapping ==
    [][\A p \in Procs, x \in Cells :
          (/\ pc[p] # 0 /\ pc'[p] = 0 /\ Len(rows'[x]) > Len(rows[x])
           /\ \E y \in Searched(x) : rows[y] # << >>)
          => Searched(x) \cap late[p] # {}]_vars

\* "Seed pilot data (idempotent)", README.md:83: run again with nothing done
\* in between, the script changes nothing, unless the pilot users have more
\* than one thread: then it may take another one and send the messages there.
Idempotent ==
    [][\A p \in quiet : pc[p] # 0 /\ pc'[p] = 0 =>
          \A x \in Cells :
             \/ rows'[x] = rows[x]
             \/ /\ Kind[x[1]] = "message"
                /\ \E i \in Items, c \in Threads \ {x[2]} :
                      Kind[i] = "thread" /\ c \in Opened(i)]_vars

\* The pilot agent has a profile exactly while its role is the agent's,
\* unless the role was last changed beside a run of the script.
AgentHasProfile ==
    \A i, j \in Items :
        (Kind[i] = "agent" /\ Kind[j] = "profile" /\ ~crossed)
        => (rows[<<i, None>>] = <<"seeded">> <=> rows[<<j, None>>] # << >>)

\* Every run ends: the keys it waits for are held by runs that end, and all
\* runs take them in the order of the plan.
SeedEnds == \A p \in Procs : pc[p] # 0 ~> pc[p] = 0
=============================================================================
