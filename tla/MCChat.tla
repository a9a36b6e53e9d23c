------------------------------- MODULE MCChat -------------------------------
(* Chat on small instances, one scenario at a time: "threads", accounts    *)
(* that come together, leave and come back, nothing said; "messages",      *)
(* sending and marking as read in one thread of two active accounts, two   *)
(* messages and four commits;                                              *)
(* "pages", the same thread read back page by page while messages come.    *)
EXTENDS Chat, TLC

VARIABLE scenario

Scenarios == {"threads", "messages", "pages"}

OneThread ==
    /\ active = Users
    /\ Cardinality({c \in Threads : thread[c] # None}) <= 1
    /\ \A p \in Procs : pc[p] \in {"check", "find", "create"}
                        => /\ req[p].kind = "dm"
                           /\ \A c \in Threads : thread[c] = None

Within ==
    CASE scenario = "threads" ->
            /\ \A p \in Procs : pc[p] # "take"
            /\ Cardinality(active) >= Cardinality(Users) - 1
            /\ Cardinality({p \in Procs : req[p].kind = "group"})
               + Cardinality({c \in Threads : thread[c] # None /\ ~thread[c].dm}) <= 1
      [] scenario = "messages" -> OneThread /\ Len(msgs) <= 2 /\ clock <= 5 /\ reader.thread = None
      [] scenario = "pages" -> OneThread /\ \A p \in Procs : req[p].kind # "read"

MCInit == Init /\ scenario \in Scenarios
MCNext == Next /\ UNCHANGED scenario /\ Within'
MCSpec == MCInit /\ [][MCNext]_<<vars, scenario>>

Symmetry == Permutations(Procs) \cup Permutations(Users) \cup Permutations(Threads)
=============================================================================
