----------------------------- MODULE MCOrgChart -----------------------------
(* Departments or reporting lines on small instances.  "names": overlapping *)
(* requests that create, rename or move departments, one of them at a time  *)
(* moving and one that pads a name alone.  "lines": overlapping changes of  *)
(* accounts, at most one of them inactive, one that asks for both fields    *)
(* alone.                                                                   *)
EXTENDS OrgChart, TLC

VARIABLE scenario

MCLower == [n \in Names |-> IF n = "ops" THEN "ops" ELSE "root"]

Scenarios == {"names", "lines"}

Within ==
    CASE scenario = "names" ->
            /\ \A p \in Procs : pc[p] # "user_commit"
            /\ Cardinality({d \in Departments : dept[d] # None /\ dept[d].parent # None}) <= 1
            /\ \A p, q \in Procs :
                  /\ req[p].padded /\ pc[q] # "idle" => p = q
                  /\ Has("parent", req[p].writes) /\ Has("parent", req[q].writes) => p = q
                  /\ Has("parent", req[p].writes) => ~Has("name", req[p].writes)
      [] scenario = "lines" ->
            /\ Cardinality(Active) >= Cardinality(Users) - 1
            /\ \A p \in Procs : pc[p] = "idle" \/ (pc[p] = "user_commit" /\ req[p].asks # {})
            /\ \A p, q \in Procs :
                  req[p].asks = {"manager", "active"} /\ req[q].asks # {} => p = q

MCInit == Init /\ scenario \in Scenarios
MCNext == Next /\ UNCHANGED scenario /\ Within'
MCSpec == MCInit /\ [][MCNext]_<<vars, scenario>>

Symmetry == Permutations(Procs) \cup Permutations(Users) \cup Permutations(Departments)
=============================================================================
