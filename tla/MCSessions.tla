----------------------------- MODULE MCSessions -----------------------------
(* Sessions on small instances, one scenario at a time: a browser, two     *)
(* overlapping requests of it, without Google identities; "serial", one    *)
(* process and all browsers.  The identities are interchangeable.          *)
EXTENDS Sessions, TLC

VARIABLE scenario

Scenarios == {"serial"} \cup Browsers

Within ==
    CASE scenario \in Browsers ->
            \A p \in Procs : br[p] \in {scenario, None} /\ subject[p] = None
      [] scenario = "serial" ->
            \E p \in Procs :
                /\ \A q \in Procs \ {p} : pc[q] = "idle"
                /\ \A t \in issued : issuer[t] = p

MCInit == Init /\ scenario \in Scenarios
MCNext == Next /\ UNCHANGED scenario /\ Within'
MCSpec == MCInit /\ [][MCNext]_<<vars, scenario>>

Symmetry == Permutations(Procs) \cup Permutations(Browsers)
            \cup Permutations(Subs) \cup Permutations(Tokens)
=============================================================================
