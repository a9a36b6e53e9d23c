---------------------------- MODULE MCPilotSeed -----------------------------
(* The pilot script with one item of each kind that behaves differently;   *)
(* each run has an id of its own for a new thread.                         *)
(* "beside": one run at a time, and what the live system does to all but   *)
(* threads and messages; a second task comes beside one that is DONE.      *)
(* "chat": one run at a time, and what it does to threads and messages.    *)
(* "overlap": two runs that overlap; the live system makes one row by hand *)
(* before them, and then only completes and removes a task.                *)
EXTENDS PilotSeed, TLC

CONSTANTS p1, p2, c1, c2

VARIABLE scenario

MCPlan == <<"department", "agent", "profile", "task", "thread", "message", "entry">>
MCKind == [i \in Items |-> i]

Scenarios == {"beside", "chat", "overlap"}

MayTouch(x) ==
    CASE scenario = "beside" -> ~Threaded(x[1]) /\ (Len(rows'[x]) = 2 => rows[x] = <<"done">>)
      [] scenario = "chat" -> Threaded(x[1])
      [] scenario = "overlap" ->
            \/ Running = {} /\ \A y \in Cells : rows[y] = << >>
            \/ x[1] = "task" /\ rows'[x] \in {<< >>, <<"seeded">>, <<"done">>}

Within ==
    /\ scenario # "overlap" => pc'[p2] = 0
    /\ thread'[p1] = c2 => rows[<<"thread", c2>>] # << >>
    /\ thread'[p2] = c1 => rows[<<"thread", c1>>] # << >>
    /\ UNCHANGED <<pc, flushing>> => \A x \in Cells : rows'[x] = rows[x] \/ MayTouch(x)

MCInit == Init /\ scenario \in Scenarios
MCNext == Next /\ UNCHANGED scenario /\ Within
MCSpec == MCInit /\ [][MCNext]_<<vars, scenario>> /\ Fairness
=============================================================================
