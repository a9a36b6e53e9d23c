-------------------------------- MODULE Chat --------------------------------
(***************************************************************************)
(* Threads, messages and read markers (app/modules/chat/router.py) as      *)
(* overlapping requests.                                                   *)
(*                                                                         *)
(* A message's created_at is the database's now(), the time its request's  *)
(* transaction began; a read marker is the server's clock when the handler *)
(* sets it; both become visible at the commit.  One clock stands for both  *)
(* and moves with the commits: what begins after a commit has a later time *)
(* than what was stamped before it, and the times between two commits are  *)
(* not told apart.  Membership of a thread never changes, so a thread and  *)
(* its participants are one row.  One client reads a thread back page by   *)
(* page, each page a request of its own.  Contents, titles and joined_at   *)
(* are left out.                                                           *)
(***************************************************************************)
EXTENDS Naturals, Sequences, FiniteSets

CONSTANTS
    Procs,      \* request slots: how many requests may overlap
    Users,
    Threads,    \* threads that may ever be inserted
    MaxMsgs,    \* bound: messages ever sent
    MaxClock,   \* bound: commits
    None

ASSUME BoundAssumption == MaxMsgs \in Nat /\ MaxClock \in Nat \ {0}
ASSUME NoneAssumption == None \notin Users \cup Threads

VARIABLES
    \* database
    active,     \* users whose is_active is set
    thread,     \* thread[c]: kind and participants, None when there is none
    marker,     \* marker[c][u]: last_read_at, 0 when NULL
    msgs,       \* the messages, in the order of their commits
    clock,
    \* requests
    pc, req,
    reader,     \* a client that reads a thread back page by page
    \* history
    roster,     \* roster[c]: users who were active while c's request ran
    moved       \* moved[c][u]: when marker[c][u] was last committed

dbVars == <<active, thread, marker, msgs>>
vars   == <<dbVars, clock, pc, req, reader, roster, moved>>

-----------------------------------------------------------------------------
Thread == [dm : BOOLEAN, members : SUBSET Users]
Message == [thread : Threads, sender : Users, at : 0..MaxClock]

\* kind: dm, group, send, read.  The participants of a new thread and those
\* not looked up yet, or the thread and the message up to which it is read
\* (0: all of it); when the request began; the marker it loaded and the one it
\* writes.  History: users active at some moment since it began, threads there
\* were when it began, messages there were when it took the time.
Blank == [kind |-> None, user |-> None, members |-> {}, unchecked |-> {}, thread |-> None,
          upTo |-> 0, at |-> 0, loaded |-> 0, value |-> 0, active |-> {}, known |-> {},
          seen |-> 0]

\* The thread read, the time the next page looks before, and the messages
\* shown.  History: the messages there were when the first page was read, and
\* the times of the oldest message of each page.
Reader == [thread : Threads \cup {None}, before : 0..MaxClock + 1, shown : SUBSET Nat,
           since : 0..MaxMsgs, ends : SUBSET (0..MaxClock)]

\* Who writes a message or keeps a marker takes part in the thread.
TypeOK ==
    /\ active \subseteq Users
    /\ thread \in [Threads -> Thread \cup {None}]
    /\ \A c \in Threads : thread[c] # None =>
          IF thread[c].dm THEN Cardinality(thread[c].members) = 2
                          ELSE Cardinality(thread[c].members) > 1
    /\ marker \in [Threads -> [Users -> 0..MaxClock]]
    /\ \A c \in Threads, u \in Users :
          marker[c][u] > 0 => thread[c] # None /\ u \in thread[c].members
    /\ msgs \in Seq(Message) /\ Len(msgs) <= MaxMsgs
    /\ \A i \in DOMAIN msgs : /\ thread[msgs[i].thread] # None
                              /\ msgs[i].sender \in thread[msgs[i].thread].members
    /\ clock \in 0..MaxClock
    /\ pc \in [Procs -> {"idle", "check", "find", "create", "take", "write"}]
    /\ \A p \in Procs : DOMAIN req[p] = DOMAIN Blank
    /\ reader \in Reader
    /\ roster \in [Threads -> SUBSET Users]
    /\ moved \in [Threads -> [Users -> 0..MaxClock]]

Init ==
    /\ active = Users
    /\ thread = [c \in Threads |-> None]
    /\ marker = [c \in Threads |-> [u \in Users |-> 0]]
    /\ msgs = << >>
    /\ clock = 1
    /\ pc = [p \in Procs |-> "idle"]
    /\ req = [p \in Procs |-> Blank]
    /\ reader = [thread |-> None, before |-> MaxClock + 1, shown |-> {}, since |-> 0,
                 ends |-> {}]
    /\ roster = [c \in Threads |-> {}]
    /\ moved = [c \in Threads |-> [u \in Users |-> 0]]

-----------------------------------------------------------------------------
(***************************************************************************)
(* Reading: what the endpoints answer in a state.                          *)
(***************************************************************************)
\* _is_participant.
IsParticipant(c, u) == thread[c] # None /\ u \in thread[c].members

\* The unread count of c for u, as the set of messages counted.
Unread(c, u) ==
    {i \in DOMAIN msgs : /\ msgs[i].thread = c
                         /\ msgs[i].sender # u
                         /\ msgs[i].at > marker[c][u]}

\* GET /messages: those before a time, and what a limit leaves of them, the
\* newest ones.  Messages of one tick come in any order.
MessagesBefore(c, before) == {i \in DOMAIN msgs : msgs[i].thread = c /\ msgs[i].at < before}

Pages(M, limit) ==
    {P \in SUBSET M : /\ P = M \/ Cardinality(P) = limit
                      /\ Cardinality(P) <= limit
                      /\ \A i \in P, j \in M \ P : msgs[i].at >= msgs[j].at}

-----------------------------------------------------------------------------
(***************************************************************************)
(* Control flow of one request.                                            *)
(***************************************************************************)

\* get_request_context: the transaction begins.
Begin(p, u, label, r) ==
    /\ pc[p] = "idle"
    /\ u \in active
    /\ pc' = [pc EXCEPT ![p] = label]
    /\ req' = [req EXCEPT ![p] =
                 [r EXCEPT !.user = u, !.at = clock, !.active = active,
                           !.known = {c \in Threads : thread[c] # None}]]
    /\ UNCHANGED <<dbVars, clock, reader, roster, moved>>

Continue(p, label, r) ==
    /\ pc' = [pc EXCEPT ![p] = label]
    /\ req' = [req EXCEPT ![p] = r]
    /\ UNCHANGED <<dbVars, clock, reader, roster, moved>>

Finish(p) ==
    /\ pc' = [pc EXCEPT ![p] = "idle"]
    /\ req' = [req EXCEPT ![p] = Blank]

\* An answer without a commit, an HTTPException, a dropped connection.
Leave(p) == Finish(p) /\ UNCHANGED <<dbVars, clock, reader, roster, moved>>

Abort(p) == pc[p] # "idle" /\ Leave(p)

Commit(p) == Finish(p) /\ clock < MaxClock /\ clock' = clock + 1

-----------------------------------------------------------------------------
(***************************************************************************)
(* POST /chat/threads and /chat/threads/dm                                 *)
(***************************************************************************)
BeginDm(p, u, v) ==
    /\ u # v
    /\ Begin(p, u, "check", [Blank EXCEPT !.kind = "dm", !.members = {u, v},
                                          !.unchecked = {v}])

BeginGroup(p, u, members) ==
    /\ Cardinality(members \cup {u}) > 1
    /\ Begin(p, u, "check", [Blank EXCEPT !.kind = "group", !.members = members \cup {u},
                                          !.unchecked = members \cup {u}])

\* _ensure_user, one participant after the other in any order; the caller of
\* a direct thread is not among them.
EnsureUser(p, v) ==
    LET r == [req[p] EXCEPT !.unchecked = @ \ {v}] IN
    /\ pc[p] = "check"
    /\ v \in req[p].unchecked
    /\ IF v \notin active THEN Leave(p)
       ELSE Continue(p, IF r.unchecked # {} THEN "check"
                        ELSE IF r.kind = "dm" THEN "find" ELSE "create", r)

\* Seeded fault: only threads that have a message are found.
DmThreadsUsed(members) ==
    {c \in Threads : /\ thread[c] = [dm |-> TRUE, members |-> members]
                     /\ \E i \in DOMAIN msgs : msgs[i].thread = c}

\* _find_dm_thread: the direct threads whose participants are these.
DmThreads(members) == {c \in Threads : thread[c] = [dm |-> TRUE, members |-> members]}

FindDm(p) ==
    /\ pc[p] = "find"
    /\ IF DmThreads(req[p].members) # {} THEN Leave(p) ELSE Continue(p, "create", req[p])

CreateThread(p, c) ==
    LET r == req[p] IN
    /\ pc[p] = "create"
    /\ thread[c] = None
    /\ thread' = [thread EXCEPT ![c] = [dm |-> r.kind = "dm", members |-> r.members]]
    /\ roster' = [roster EXCEPT ![c] = r.active]
    /\ Commit(p)
    /\ UNCHANGED <<active, marker, msgs, reader, moved>>

-----------------------------------------------------------------------------
(***************************************************************************)
(* POST /chat/threads/{id}/messages and /chat/threads/{id}/read            *)
(***************************************************************************)
BeginSend(p, u, c) ==
    /\ IsParticipant(c, u)
    /\ Begin(p, u, "take", [Blank EXCEPT !.kind = "send", !.thread = c])

\* mark_read keeps the participant row it checks.
BeginRead(p, u, c, upTo) ==
    /\ IsParticipant(c, u)
    /\ IF upTo = 0 THEN TRUE ELSE msgs[upTo].thread = c
    /\ Begin(p, u, "take", [Blank EXCEPT !.kind = "read", !.thread = c, !.upTo = upTo,
                                         !.loaded = marker[c][u]])

\* Seeded fault: reading takes the time its transaction began.
TimeBegun(r) == IF r.upTo = 0 THEN r.at ELSE msgs[r.upTo].at

\* The new marker: the clock, or the time of the message read up to.
MarkerOf(r) == IF r.upTo = 0 THEN clock ELSE msgs[r.upTo].at

\* send_message loads the participant row only now, and its marker, older
\* than the clock, is always written.
TakeTime(p) ==
    /\ pc[p] = "take"
    /\ Continue(p, "write", [req[p] EXCEPT !.value = MarkerOf(req[p]), !.seen = Len(msgs)])

\* Seeded fault: every participant's marker is moved.
MovedForAll(r) == thread[r.thread].members

\* Whose marker a commit writes: one that equals the loaded one is not
\* written.
MovedFor(r) == IF r.value = r.loaded THEN {} ELSE {r.user}

Write(p) ==
    LET r == req[p]
        c == r.thread
    IN /\ pc[p] = "write"
       /\ IF r.kind = "send"
          THEN /\ Len(msgs) < MaxMsgs
               /\ msgs' = Append(msgs, [thread |-> c, sender |-> r.user, at |-> r.at])
          ELSE UNCHANGED msgs
       /\ marker' = [marker EXCEPT ![c] =
                       [u \in Users |-> IF u \in MovedFor(r) THEN r.value ELSE @[u]]]
       /\ moved' = [moved EXCEPT ![c][r.user] = clock]
       /\ Commit(p)
       /\ UNCHANGED <<active, thread, reader, roster>>

-----------------------------------------------------------------------------
\* GET /chat/threads/{id}/messages: the first page, then each page before the
\* oldest message of the one before it.
ListMessages(u, c, limit) ==
    /\ u \in active /\ IsParticipant(c, u)
    /\ reader.thread \in {None, c}
    /\ \E P \in Pages(MessagesBefore(c, reader.before), limit) : \E i \in P :
          /\ \A j \in P : msgs[i].at <= msgs[j].at
          /\ reader' = [thread |-> c, before |-> msgs[i].at, shown |-> reader.shown \cup P,
                        since |-> IF reader.thread = None THEN Len(msgs) ELSE reader.since,
                        ends  |-> reader.ends \cup {msgs[i].at}]
    /\ UNCHANGED <<dbVars, clock, pc, req, roster, moved>>

\* PATCH /org/users/{id}: accounts are deactivated and come back.
SetActive(u, on) ==
    /\ active' = IF on THEN active \cup {u} ELSE active \ {u}
    /\ req' = [p \in Procs |-> IF pc[p] = "idle" THEN req[p]
                              ELSE [req[p] EXCEPT !.active = @ \cup active']]
    /\ UNCHANGED <<thread, marker, msgs, clock, pc, reader, roster, moved>>

Next ==
    \/ \E p \in Procs :
          \/ \E u, v \in Users : BeginDm(p, u, v)
          \/ \E u \in Users, members \in SUBSET Users : BeginGroup(p, u, members)
          \/ \E u \in Users, c \in Threads : BeginSend(p, u, c)
          \/ \E u \in Users, c \in Threads, upTo \in {0} \cup DOMAIN msgs :
                BeginRead(p, u, c, upTo)
          \/ \E v \in Users : EnsureUser(p, v)
          \/ FindDm(p) \/ TakeTime(p) \/ Write(p) \/ Abort(p)
          \/ \E c \in Threads : CreateThread(p, c)
    \/ \E u \in Users, c \in Threads, limit \in 1..MaxMsgs : ListMessages(u, c, limit)
    \/ \E u \in Users, on \in BOOLEAN : SetActive(u, on)

Spec == Init /\ [][Next]_vars
-----------------------------------------------------------------------------
(***************************************************************************)
(* Properties.                                                             *)
(***************************************************************************)

\* Two people get a second direct thread only by requests that overlapped:
\* the search and the insert are two statements and no key keeps the pair
\* unique (chat/router.py:107-127), but a request that begins when there is
\* one makes no other.
OneDmUnlessOverlapping ==
    [][\A p \in Procs, c \in Threads :
          (/\ pc[p] = "create" /\ pc'[p] = "idle"
           /\ thread[c] = None /\ thread'[c] # None /\ thread'[c].dm)
          => \A d \in req[p].known : thread[d] # thread'[c]]_vars

\* Nobody is put into a thread whose account was inactive as long as the
\* request ran; it may be inactive when the request begins, and again when
\* the thread is committed.
MembersWereActive ==
    \A c \in Threads : thread[c] # None => thread[c].members \subseteq roster[c]

\* A message sent after a reader's marker was last committed is counted as
\* unread, whatever requests overlapped.  A message whose request began
\* earlier may never be: its time is older than its commit.
SentAfterIsCounted ==
    \A i \in DOMAIN msgs :
        LET c == msgs[i].thread IN
        \A u \in thread[c].members \ {msgs[i].sender} :
            msgs[i].at > moved[c][u] => i \in Unread(c, u)

\* Sending, and marking all as read, leave nothing unread that was there
\* when the request took the time.
SeenIsRead ==
    [][\A p \in Procs, c \in Threads, u \in Users :
          (/\ pc[p] = "write" /\ pc'[p] = "idle" /\ moved'[c][u] # moved[c][u]
           /\ req[p].thread = c /\ req[p].user = u /\ req[p].upTo = 0)
          => Unread(c, u)' \cap 1..req[p].seen = {}]_vars

\* Of the messages there were when a thread's first page was read, going back
\* page by page misses one only in a tick where a page ended, whatever is
\* committed between the pages, late ones with older times included: pages
\* are cut by created_at alone.
PagesReachAll ==
    \A i \in 1..reader.since :
        (msgs[i].thread = reader.thread /\ msgs[i].at >= reader.before)
        => i \in reader.shown \/ msgs[i].at \in reader.ends
=============================================================================
