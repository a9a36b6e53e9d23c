---------------------------- MODULE MCOnboarding ----------------------------
(* Onboarding on small instances, one scenario at a time: "profiles",      *)
(* accounts change between employee and agent, nobody is invited;          *)
(* "invites", the only role asked for is ADMIN.                            *)
EXTENDS Onboarding, TLC

VARIABLE scenario

Scenarios == {"profiles", "invites"}

\* The requests that have just read what their payload asks for.
Asking == {p \in Procs : pc[p] \in {"invite_user", "direct_user", "target"}}

Within ==
    CASE scenario = "profiles" ->
            \A p \in Procs : via[p] # "invite" /\ goal[p] # "ADMIN"
      [] scenario = "invites" ->
            \A p \in Asking : goal[p] \in {"ADMIN", None}

MCInit == Init /\ scenario \in Scenarios
MCNext == Next /\ UNCHANGED scenario /\ Within'
MCSpec == MCInit /\ [][MCNext]_<<vars, scenario>>

Symmetry == Permutations(Procs) \cup Permutations(Invites)
            \cup Permutations(Profiles)
            \cup Permutations(Emails \ {SuperEmail})
=============================================================================
