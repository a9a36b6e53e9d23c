----------------------------- MODULE ChatProofs -----------------------------
(***************************************************************************)
(* Proofs about Chat, for every number of requests, accounts, threads and  *)
(* messages.                                                               *)
(***************************************************************************)
EXTENDS Chat, FiniteSetTheorems, TLAPS

\* Who asks, and what there was when the request began.
Asked(r) ==
    /\ r.user \in r.active /\ r.active \subseteq Users
    /\ active \subseteq r.active
    /\ r.known \subseteq {c \in Threads : thread[c] # None}
    /\ r.at \in 1..clock

\* A request for a new thread.  One that is about to insert a direct thread
\* has not found it among those there were when it began.
Founding(label, r) ==
    /\ r.kind \in {"dm", "group"}
    /\ r.members \subseteq Users
    /\ IF r.kind = "dm" THEN Cardinality(r.members) = 2 ELSE Cardinality(r.members) > 1
    /\ label = "find" => r.kind = "dm"
    /\ r.members \ r.unchecked \subseteq r.active
    /\ label \in {"find", "create"} => r.members \subseteq r.active
    /\ label = "create" /\ r.kind = "dm" =>
          \A d \in r.known : thread[d] # [dm |-> TRUE, members |-> r.members]

\* A request that moves a marker: forward, unless it names a message.
Moving(label, r) ==
    /\ r.kind \in {"send", "read"}
    /\ r.thread \in Threads /\ thread[r.thread] # None
    /\ r.user \in thread[r.thread].members
    /\ r.upTo \in {0} \cup DOMAIN msgs
    /\ r.loaded \in 0..MaxClock /\ r.loaded < r.at
    /\ label = "write" =>
          /\ r.value \in 0..clock /\ r.seen \in 0..Len(msgs)
          /\ r.upTo = 0 => /\ r.value >= r.at
                           /\ \A i \in 1..r.seen : msgs[i].at <= r.value

Holds(label, r) ==
    /\ DOMAIN r = DOMAIN Blank
    /\ label # "idle" => Asked(r)
    /\ label \in {"check", "find", "create"} => Founding(label, r)
    /\ label \in {"take", "write"} => Moving(label, r)

Requests ==
    /\ req = [p \in Procs |-> req[p]]
    /\ \A p \in Procs : Holds(pc[p], req[p])

\* Markers and messages are older than what comes after them.
Times ==
    /\ clock >= 1
    /\ \A c \in Threads, u \in Users : marker[c][u] <= moved[c][u] /\ moved[c][u] < clock
    /\ \A i \in DOMAIN msgs : msgs[i].at <= clock

\* The reader looks back from where it began.
Reading ==
    /\ reader.since <= Len(msgs)
    /\ reader.thread = None => reader.since = 0 /\ reader.before = MaxClock + 1

IInv == TypeOK /\ Requests /\ Times /\ MembersWereActive /\ Reading /\ PagesReachAll

\* What every step but SetActive leaves: accounts as they are, threads never
\* changed, messages never removed, and time goes on.
Grows ==
    /\ active' = active
    /\ \A c \in Threads : thread[c] # None => thread'[c] = thread[c]
    /\ clock <= clock' /\ clock' \in Nat
    /\ Len(msgs) <= Len(msgs') /\ Len(msgs') \in Nat
    /\ DOMAIN msgs' = 1..Len(msgs')
    /\ \A i \in DOMAIN msgs : msgs'[i] = msgs[i]
-----------------------------------------------------------------------------
LEMMA InitIInv == Init => IInv
<1> SUFFICES ASSUME Init  PROVE IInv
  OBVIOUS
<1>1. msgs \in Seq(Message) /\ Len(msgs) = 0 /\ DOMAIN msgs = {}
  BY DEF Init
<1>2. TypeOK
  <2>1. reader \in Reader
    BY BoundAssumption DEF Init, Reader
  <2>2. QED
    BY <1>1, <2>1, BoundAssumption DEF Init, TypeOK
<1>3. Requests
  BY DEF Init, Requests, Holds
<1>4. Times /\ MembersWereActive
  BY <1>1 DEF Init, Times, MembersWereActive
<1>5. Reading /\ PagesReachAll
  BY <1>1 DEF Init, Reading, PagesReachAll
<1>6. QED
  BY <1>2, <1>3, <1>4, <1>5 DEF IInv

LEMMA MessageTypes ==
  ASSUME TypeOK
  PROVE  /\ Len(msgs) \in Nat /\ DOMAIN msgs = 1..Len(msgs)
         /\ clock \in Nat /\ MaxClock \in Nat /\ clock <= MaxClock
         /\ \A i \in DOMAIN msgs : /\ msgs[i] \in Message
                                   /\ msgs[i].thread \in Threads
                                   /\ msgs[i].sender \in Users
                                   /\ msgs[i].at \in Nat
<1>1. msgs \in Seq(Message) /\ clock \in 0..MaxClock
  BY DEF TypeOK
<1>2. /\ Len(msgs) \in Nat /\ DOMAIN msgs = 1..Len(msgs)
      /\ \A i \in DOMAIN msgs : msgs[i] \in Message
  BY <1>1
<1>3. \A m \in Message : m.thread \in Threads /\ m.sender \in Users /\ m.at \in Nat
  BY BoundAssumption DEF Message
<1>4. QED
  BY <1>1, <1>2, <1>3, BoundAssumption

LEMMA HoldsOn ==
  ASSUME TypeOK, Grows, NEW label, NEW r, Holds(label, r)
  PROVE  Holds(label, r)'
<1>1. label # "idle" => Asked(r)'
  BY DEF Holds, Asked, Grows, TypeOK
<1>2. label \in {"check", "find", "create"} => Founding(label, r)'
  BY DEF Holds, Founding, Asked, Grows
<1>3. ASSUME label \in {"take", "write"}  PROVE Moving(label, r)'
  <2>1. Moving(label, r)
    BY <1>3 DEF Holds
  <2>2. DOMAIN msgs = 1..Len(msgs) /\ Len(msgs) \in Nat /\ clock \in Nat
    BY DEF TypeOK
  <2>3. thread'[r.thread] = thread[r.thread] /\ DOMAIN msgs \subseteq DOMAIN msgs'
    BY <2>1, <2>2 DEF Moving, Grows
  <2>4. ASSUME label = "write"
        PROVE  /\ r.value \in 0..clock' /\ r.seen \in 0..Len(msgs')
               /\ r.upTo = 0 => /\ r.value >= r.at
                                /\ \A i \in 1..r.seen : msgs'[i].at <= r.value
    <3>1. /\ r.value \in 0..clock /\ r.seen \in 0..Len(msgs)
          /\ r.upTo = 0 => /\ r.value >= r.at
                           /\ \A i \in 1..r.seen : msgs[i].at <= r.value
      BY <2>1, <2>4 DEF Moving
    <3>2. \A i \in 1..r.seen : msgs'[i] = msgs[i]
      BY <2>2, <3>1 DEF Grows
    <3>3. QED
      BY <2>2, <3>1, <3>2 DEF Grows
  <2>5. QED
    BY <2>1, <2>3, <2>4 DEF Moving
<1>4. QED
  BY <1>1, <1>2, <1>3 DEF Holds

\* A request goes on, the others stay as they are.
LEMMA RequestsOn ==
  ASSUME IInv, Grows, NEW p \in Procs, NEW label, NEW r,
         pc' = [pc EXCEPT ![p] = label], req' = [req EXCEPT ![p] = r],
         label \in {"idle", "check", "find", "create", "take", "write"},
         Holds(label, r)'
  PROVE  /\ Requests'
         /\ pc' \in [Procs -> {"idle", "check", "find", "create", "take", "write"}]
         /\ \A q \in Procs : DOMAIN req'[q] = DOMAIN Blank
<1>1. ASSUME NEW q \in Procs  PROVE Holds(pc[q], req[q])'
  <2>1. CASE q = p
    <3>1. pc'[q] = label /\ req'[q] = r
      BY <2>1 DEF IInv, TypeOK, Requests
    <3>2. QED
      BY <3>1
  <2>2. CASE q # p
    <3>1. pc'[q] = pc[q] /\ req'[q] = req[q] /\ Holds(pc[q], req[q])
      BY <2>2 DEF IInv, TypeOK, Requests
    <3>2. QED
      BY <3>1, HoldsOn DEF IInv
  <2>3. QED
    BY <2>1, <2>2
<1>2. req' = [q \in Procs |-> req'[q]]
  BY DEF IInv, Requests
<1>3. pc' \in [Procs -> {"idle", "check", "find", "create", "take", "write"}]
  BY DEF IInv, TypeOK
<1>4. \A q \in Procs : DOMAIN req'[q] = DOMAIN Blank
  BY <1>1 DEF Holds
<1>5. QED
  BY <1>1, <1>2, <1>3, <1>4 DEF Requests

\* Messages that come later are none of those the reader began with.
LEMMA ReadingOn ==
  ASSUME IInv, Grows, reader' = reader
  PROVE  (Reading /\ PagesReachAll)'
<1>1. reader.since \in 0..Len(msgs) /\ DOMAIN msgs = 1..Len(msgs) /\ Len(msgs) \in Nat
  BY MessageTypes DEF IInv, TypeOK, Reader, Reading
<1>2. Reading'
  BY <1>1 DEF IInv, Reading, Grows
<1>3. \A i \in 1..reader.since : msgs'[i] = msgs[i]
  BY <1>1 DEF Grows
<1>4. PagesReachAll'
  BY <1>3 DEF IInv, PagesReachAll
<1>5. QED
  BY <1>2, <1>4

LEMMA BlankHolds == Holds("idle", Blank)'
BY DEF Holds

LEMMA ContinueStep ==
  ASSUME IInv, NEW p \in Procs, NEW label, NEW r, Continue(p, label, r),
         label \in {"idle", "check", "find", "create", "take", "write"}, Holds(label, r)
  PROVE  IInv'
<1>1. /\ pc' = [pc EXCEPT ![p] = label] /\ req' = [req EXCEPT ![p] = r]
      /\ active' = active /\ thread' = thread /\ marker' = marker /\ msgs' = msgs
      /\ clock' = clock /\ reader' = reader /\ roster' = roster /\ moved' = moved
  BY DEF Continue, dbVars
<1>2. Grows
  BY <1>1 DEF Grows, IInv, TypeOK
<1>3. Holds(label, r)'
  BY <1>2, HoldsOn DEF IInv
<1>4. Requests' /\ TypeOK'
  BY <1>1, <1>2, <1>3, RequestsOn DEF IInv, TypeOK
<1>5. Times' /\ MembersWereActive'
  BY <1>1 DEF IInv, Times, MembersWereActive
<1>6. Reading' /\ PagesReachAll'
  BY <1>1, <1>2, ReadingOn
<1>7. QED
  BY <1>4, <1>5, <1>6 DEF IInv

LEMMA LeaveStep ==
  ASSUME IInv, NEW p \in Procs, Leave(p)
  PROVE  IInv'
<1>1. Continue(p, "idle", Blank)
  BY DEF Leave, Finish, Continue
<1>2. Holds("idle", Blank)
  BY DEF Holds
<1>3. QED
  BY <1>1, <1>2, ContinueStep
-----------------------------------------------------------------------------
LEMMA BeginStep ==
  ASSUME IInv, NEW p \in Procs, NEW u \in Users, NEW label, NEW r, Begin(p, u, label, r),
         DOMAIN r = DOMAIN Blank,
         \/ label = "check" /\ r.kind \in {"dm", "group"} /\ r.members \subseteq Users
            /\ r.members \ r.unchecked \subseteq {u}
            /\ IF r.kind = "dm" THEN Cardinality(r.members) = 2 ELSE Cardinality(r.members) > 1
         \/ label = "take" /\ r.kind \in {"send", "read"} /\ r.thread \in Threads
            /\ IsParticipant(r.thread, u) /\ r.upTo \in {0} \cup DOMAIN msgs
            /\ r.loaded \in {0, marker[r.thread][u]}
  PROVE  IInv'
<1> DEFINE known == {c \in Threads : thread[c] # None}
           s == [r EXCEPT !.user = u, !.at = clock, !.active = active, !.known = known]
<1>1. Begin(p, u, label, r) /\ u \in active
      /\ pc' = [pc EXCEPT ![p] = label] /\ req' = [req EXCEPT ![p] = s]
      /\ active' = active /\ thread' = thread /\ marker' = marker /\ msgs' = msgs
      /\ clock' = clock /\ reader' = reader /\ roster' = roster /\ moved' = moved
  BY DEF Begin, dbVars
<1>2. /\ DOMAIN s = DOMAIN Blank /\ s.user = u /\ s.at = clock /\ s.active = active
      /\ s.known = known /\ s.kind = r.kind /\ s.members = r.members /\ s.thread = r.thread
      /\ s.upTo = r.upTo /\ s.loaded = r.loaded /\ s.unchecked = r.unchecked
  BY DEF Blank
<1>3. Asked(s)
  BY <1>1, <1>2 DEF Asked, IInv, TypeOK, Times
<1>4. label = "check" => Founding(label, s)
  <2> SUFFICES ASSUME label = "check"  PROVE Founding(label, s)
    OBVIOUS
  <2>1. r.members \ r.unchecked \subseteq {u} /\ r.kind \in {"dm", "group"}
        /\ r.members \subseteq Users
        /\ IF r.kind = "dm" THEN Cardinality(r.members) = 2 ELSE Cardinality(r.members) > 1
    OBVIOUS
  <2>2. s.members \ s.unchecked \subseteq s.active
    BY <1>1, <1>2, <2>1
  <2> HIDE DEF s
  <2>3. QED
    BY <1>2, <2>1, <2>2 DEF Founding
<1>5. label = "take" => Moving(label, s)
  <2> SUFFICES ASSUME label = "take"  PROVE Moving(label, s)
    OBVIOUS
  <2>1. /\ r.kind \in {"send", "read"} /\ r.thread \in Threads
        /\ thread[r.thread] # None /\ u \in thread[r.thread].members
        /\ r.upTo \in {0} \cup DOMAIN msgs /\ r.loaded \in {0, marker[r.thread][u]}
    BY DEF IsParticipant
  <2>2. /\ marker[r.thread][u] \in 0..MaxClock /\ moved[r.thread][u] \in 0..MaxClock
        /\ clock \in 1..MaxClock
        /\ marker[r.thread][u] <= moved[r.thread][u] /\ moved[r.thread][u] < clock
    BY <2>1 DEF IInv, TypeOK, Times
  <2>3. r.loaded \in 0..MaxClock /\ r.loaded < clock
    BY <2>1, <2>2, BoundAssumption
  <2>4. QED
    BY <1>2, <2>1, <2>3 DEF Moving
<1>6. Holds(label, s)
  BY <1>2, <1>3, <1>4, <1>5 DEF Holds
<1>7. Continue(p, label, s)
  BY <1>1 DEF Continue, dbVars
<1>8. QED
  BY <1>6, <1>7, ContinueStep

LEMMA BeginDmStep ==
  ASSUME IInv, NEW p \in Procs, NEW u \in Users, NEW v \in Users, BeginDm(p, u, v)
  PROVE  IInv'
<1> DEFINE r == [Blank EXCEPT !.kind = "dm", !.members = {u, v}, !.unchecked = {v}]
<1>1. u # v /\ Begin(p, u, "check", r)
  BY DEF BeginDm
<1>2. Cardinality({u, v}) = 2
  <2>1. IsFiniteSet({u}) /\ Cardinality({u}) = 1
    BY FS_Singleton
  <2>2. Cardinality({u} \cup {v}) = 2
    BY <1>1, <2>1, FS_AddElement
  <2>3. {u, v} = {u} \cup {v}
    OBVIOUS
  <2>4. QED
    BY <2>2, <2>3
<1>3. DOMAIN r = DOMAIN Blank /\ r.kind = "dm" /\ r.members = {u, v} /\ r.unchecked = {v}
  BY DEF Blank
<1>4. QED
  BY <1>1, <1>2, <1>3, BeginStep

LEMMA BeginGroupStep ==
  ASSUME IInv, NEW p \in Procs, NEW u \in Users, NEW members \in SUBSET Users,
         BeginGroup(p, u, members)
  PROVE  IInv'
<1> DEFINE r == [Blank EXCEPT !.kind = "group", !.members = members \cup {u},
                              !.unchecked = members \cup {u}]
<1>1. Cardinality(members \cup {u}) > 1 /\ Begin(p, u, "check", r)
  BY DEF BeginGroup
<1>2. DOMAIN r = DOMAIN Blank /\ r.kind = "group" /\ r.members = members \cup {u}
      /\ r.unchecked = members \cup {u}
  BY DEF Blank
<1>3. QED
  BY <1>1, <1>2, BeginStep

LEMMA BeginSendStep ==
  ASSUME IInv, NEW p \in Procs, NEW u \in Users, NEW c \in Threads, BeginSend(p, u, c)
  PROVE  IInv'
<1> DEFINE r == [Blank EXCEPT !.kind = "send", !.thread = c]
<1>1. IsParticipant(c, u) /\ Begin(p, u, "take", r)
  BY DEF BeginSend
<1>2. /\ DOMAIN r = DOMAIN Blank /\ r.kind = "send" /\ r.thread = c /\ r.upTo = 0
      /\ r.loaded = 0
  BY DEF Blank
<1>3. QED
  BY <1>1, <1>2, BeginStep

LEMMA BeginReadStep ==
  ASSUME IInv, NEW p \in Procs, NEW u \in Users, NEW c \in Threads,
         NEW upTo \in {0} \cup DOMAIN msgs, BeginRead(p, u, c, upTo)
  PROVE  IInv'
<1> DEFINE r == [Blank EXCEPT !.kind = "read", !.thread = c, !.upTo = upTo,
                              !.loaded = marker[c][u]]
<1>1. IsParticipant(c, u) /\ Begin(p, u, "take", r)
  BY DEF BeginRead
<1>2. /\ DOMAIN r = DOMAIN Blank /\ r.kind = "read" /\ r.thread = c /\ r.upTo = upTo
      /\ r.loaded = marker[c][u]
  BY DEF Blank
<1>3. QED
  BY <1>1, <1>2, BeginStep
-----------------------------------------------------------------------------
LEMMA EnsureUserStep ==
  ASSUME IInv, NEW p \in Procs, NEW v \in Users, EnsureUser(p, v)
  PROVE  IInv'
<1> DEFINE r == req[p]
           s == [r EXCEPT !.unchecked = @ \ {v}]
           label == IF s.unchecked # {} THEN "check"
                    ELSE IF s.kind = "dm" THEN "find" ELSE "create"
<1>1. pc[p] = "check" /\ Holds("check", r) /\ v \in r.unchecked
  BY DEF EnsureUser, IInv, Requests
<1>2. CASE v \in active
  <2>1. Continue(p, label, s)
    BY <1>2 DEF EnsureUser
  <2>2. /\ DOMAIN s = DOMAIN Blank /\ s.unchecked = r.unchecked \ {v} /\ s.user = r.user
        /\ s.at = r.at /\ s.active = r.active /\ s.known = r.known /\ s.kind = r.kind
        /\ s.members = r.members
    BY <1>1 DEF Holds, Blank
  <2>3. Asked(s)
    BY <1>1, <2>2 DEF Holds, Asked
  <2>4. v \in s.active /\ s.members \ s.unchecked \subseteq s.active
    BY <1>1, <1>2, <2>2 DEF Holds, Asked, Founding
  <2>5. s.unchecked = {} => s.members \subseteq s.active
    BY <2>4
  <2>6. label \in {"check", "find", "create"} /\ label = "find" => s.kind = "dm"
    OBVIOUS
  <2>7. label \in {"find", "create"} => s.unchecked = {}
    OBVIOUS
  <2>8. ~(label = "create" /\ s.kind = "dm")
    OBVIOUS
  <2>9. Founding(label, s)
    BY <1>1, <2>2, <2>4, <2>5, <2>6, <2>7, <2>8 DEF Holds, Founding
  <2>10. Holds(label, s)
    BY <2>2, <2>3, <2>6, <2>9 DEF Holds
  <2>11. QED
    BY <2>1, <2>6, <2>10, ContinueStep
<1>3. CASE v \notin active
  BY <1>3, LeaveStep DEF EnsureUser
<1>4. QED
  BY <1>2, <1>3

LEMMA FindDmStep ==
  ASSUME IInv, NEW p \in Procs, FindDm(p)
  PROVE  IInv'
<1> DEFINE r == req[p]
<1>1. pc[p] = "find" /\ Holds("find", r)
  BY DEF FindDm, IInv, Requests
<1>2. CASE DmThreads(r.members) = {}
  <2>1. Continue(p, "create", r)
    BY <1>2 DEF FindDm
  <2>2. \A d \in r.known : thread[d] # [dm |-> TRUE, members |-> r.members]
    BY <1>1, <1>2 DEF DmThreads, Holds, Asked
  <2>3. Holds("create", r)
    BY <1>1, <2>2 DEF Holds, Founding
  <2>4. QED
    BY <2>1, <2>3, ContinueStep
<1>3. CASE DmThreads(r.members) # {}
  BY <1>3, LeaveStep DEF FindDm
<1>4. QED
  BY <1>2, <1>3

LEMMA TakeTimeStep ==
  ASSUME IInv, NEW p \in Procs, TakeTime(p)
  PROVE  IInv'
<1> DEFINE r == req[p]
           s == [r EXCEPT !.value = MarkerOf(r), !.seen = Len(msgs)]
<1>1. pc[p] = "take" /\ Holds("take", r) /\ Continue(p, "write", s)
  BY DEF TakeTime, IInv, Requests
<1>2. DOMAIN msgs = 1..Len(msgs) /\ Len(msgs) \in Nat /\ clock \in Nat
      /\ \A i \in DOMAIN msgs : msgs[i].at \in 0..clock
  BY MessageTypes DEF IInv, Times
<1>3. /\ DOMAIN s = DOMAIN Blank /\ s.value = MarkerOf(r) /\ s.seen = Len(msgs)
      /\ s.user = r.user /\ s.at = r.at /\ s.active = r.active /\ s.known = r.known
      /\ s.kind = r.kind /\ s.thread = r.thread /\ s.upTo = r.upTo /\ s.loaded = r.loaded
  BY <1>1 DEF Holds, Blank
<1>4. Asked(r) /\ Moving("take", r)
  BY <1>1 DEF Holds
<1>5. /\ s.value \in 0..clock /\ s.seen \in 0..Len(msgs)
      /\ s.upTo = 0 => s.value >= s.at /\ \A i \in 1..s.seen : msgs[i].at <= s.value
  <2>1. r.upTo \in {0} \cup DOMAIN msgs /\ r.at \in 1..clock
    BY <1>4 DEF Moving, Asked
  <2>2. MarkerOf(r) \in 0..clock
    BY <1>2, <2>1 DEF MarkerOf
  <2>3. r.upTo = 0 => MarkerOf(r) = clock
    BY DEF MarkerOf
  <2>4. QED
    BY <1>2, <1>3, <2>1, <2>2, <2>3
<1>6. Asked(s) /\ Moving("write", s)
  BY <1>3, <1>4, <1>5 DEF Asked, Moving
<1>7. Holds("write", s)
  BY <1>3, <1>6 DEF Holds
<1>8. QED
  BY <1>1, <1>7, ContinueStep

LEMMA CreateThreadStep ==
  ASSUME IInv, NEW p \in Procs, NEW c \in Threads, CreateThread(p, c)
  PROVE  IInv'
<1> DEFINE r == req[p]
           new == [dm |-> r.kind = "dm", members |-> r.members]
<1>1. /\ pc[p] = "create" /\ thread[c] = None
      /\ thread' = [thread EXCEPT ![c] = new] /\ roster' = [roster EXCEPT ![c] = r.active]
      /\ pc' = [pc EXCEPT ![p] = "idle"] /\ req' = [req EXCEPT ![p] = Blank]
      /\ clock < MaxClock /\ clock' = clock + 1
      /\ active' = active /\ marker' = marker /\ msgs' = msgs /\ moved' = moved
      /\ reader' = reader
  BY DEF CreateThread, Commit, Finish
<1>2. Founding("create", r) /\ Asked(r)
  BY <1>1 DEF IInv, Requests, Holds
<1>3. /\ new \in Thread /\ new.members = r.members
      /\ IF new.dm THEN Cardinality(new.members) = 2 ELSE Cardinality(new.members) > 1
  BY <1>2 DEF Founding, Thread
<1>4. /\ thread' \in [Threads -> Thread \cup {None}]
      /\ thread'[c] = new /\ \A d \in Threads \ {c} : thread'[d] = thread[d]
      /\ roster'[c] = r.active /\ \A d \in Threads \ {c} : roster'[d] = roster[d]
      /\ roster' \in [Threads -> SUBSET Users]
  BY <1>1, <1>2, <1>3 DEF IInv, TypeOK, Asked
<1>5. Grows
  BY <1>1, <1>4 DEF Grows, IInv, TypeOK
<1>6. Requests' /\ pc' \in [Procs -> {"idle", "check", "find", "create", "take", "write"}]
      /\ \A q \in Procs : DOMAIN req'[q] = DOMAIN Blank
  BY <1>1, <1>5, BlankHolds, RequestsOn
<1>7. /\ marker' \in [Threads -> [Users -> 0..MaxClock]]
      /\ \A d \in Threads, u \in Users :
            marker'[d][u] > 0 => thread'[d] # None /\ u \in thread'[d].members
  BY <1>1, <1>4 DEF IInv, TypeOK
<1>8. /\ msgs' \in Seq(Message) /\ Len(msgs') <= MaxMsgs
      /\ \A i \in DOMAIN msgs' : /\ thread'[msgs'[i].thread] # None
                                 /\ msgs'[i].sender \in thread'[msgs'[i].thread].members
  <2>1. \A i \in DOMAIN msgs : msgs[i].thread \in Threads /\ thread[msgs[i].thread] # None
    BY MessageTypes DEF IInv, TypeOK
  <2>2. \A i \in DOMAIN msgs : thread'[msgs[i].thread] = thread[msgs[i].thread]
    BY <1>1, <1>4, <2>1
  <2>3. QED
    BY <1>1, <2>2 DEF IInv, TypeOK
<1>9. ASSUME NEW d \in Threads, thread'[d] # None
      PROVE  IF thread'[d].dm THEN Cardinality(thread'[d].members) = 2
                              ELSE Cardinality(thread'[d].members) > 1
  <2>1. CASE d = c
    BY <1>3, <1>4, <2>1
  <2>2. CASE d # c
    <3>1. thread'[d] = thread[d]
      BY <1>4, <2>2
    <3>2. QED
      BY <1>9, <3>1 DEF IInv, TypeOK
  <2>3. QED
    BY <2>1, <2>2
<1>10. clock' \in 0..MaxClock
  BY <1>1, BoundAssumption DEF IInv, TypeOK
<1>11. TypeOK'
  BY <1>1, <1>4, <1>6, <1>7, <1>8, <1>9, <1>10 DEF IInv, TypeOK
<1>12. Times'
  <2>1. \A d \in Threads, u \in Users : moved[d][u] \in 0..MaxClock
    BY DEF IInv, TypeOK
  <2>2. QED
    BY <1>1, <2>1, MessageTypes DEF IInv, Times
<1>13. MembersWereActive'
  BY <1>2, <1>3, <1>4 DEF IInv, MembersWereActive, Founding
<1>14. Reading' /\ PagesReachAll'
  BY <1>1, <1>5, ReadingOn
<1>15. QED
  BY <1>6, <1>11, <1>12, <1>13, <1>14 DEF IInv

LEMMA WriteStep ==
  ASSUME IInv, NEW p \in Procs, Write(p)
  PROVE  IInv'
<1> DEFINE r == req[p]
           c == r.thread
           m == [thread |-> c, sender |-> r.user, at |-> r.at]
<1>1. /\ pc[p] = "write"
      /\ IF r.kind = "send" THEN Len(msgs) < MaxMsgs /\ msgs' = Append(msgs, m)
                            ELSE msgs' = msgs
      /\ marker' = [marker EXCEPT ![c] =
                      [u \in Users |-> IF u \in MovedFor(r) THEN r.value ELSE marker[c][u]]]
      /\ moved' = [moved EXCEPT ![c][r.user] = clock]
      /\ pc' = [pc EXCEPT ![p] = "idle"] /\ req' = [req EXCEPT ![p] = Blank]
      /\ clock < MaxClock /\ clock' = clock + 1
      /\ active' = active /\ thread' = thread /\ reader' = reader /\ roster' = roster
  BY DEF Write, Commit, Finish
<1>2. Moving("write", r) /\ Asked(r)
  BY <1>1 DEF IInv, Requests, Holds
<1>3. /\ c \in Threads /\ thread[c] # None /\ r.user \in thread[c].members /\ r.user \in Users
      /\ r.value \in 0..clock /\ r.at \in 1..clock
      /\ clock \in 0..MaxClock /\ clock' \in 0..MaxClock
  BY <1>1, <1>2, BoundAssumption DEF Moving, Asked, IInv, TypeOK
<1>4. m \in Message
  <2>1. r.at \in 0..MaxClock
    BY <1>3, BoundAssumption
  <2>2. QED
    BY <1>3, <2>1 DEF Message
<1>5. /\ msgs' \in Seq(Message) /\ Len(msgs') <= MaxMsgs
      /\ Len(msgs) \in Nat /\ Len(msgs') \in Nat /\ Len(msgs) <= Len(msgs')
      /\ DOMAIN msgs = 1..Len(msgs) /\ DOMAIN msgs' = 1..Len(msgs')
      /\ \A i \in DOMAIN msgs : msgs'[i] = msgs[i]
      /\ \A i \in DOMAIN msgs' \ DOMAIN msgs : msgs'[i] = m
  <2>1. msgs \in Seq(Message) /\ Len(msgs) <= MaxMsgs
    BY DEF IInv, TypeOK
  <2>2. CASE r.kind = "send"
    <3>1. msgs' = Append(msgs, m) /\ Len(msgs) < MaxMsgs
      BY <1>1, <2>2
    <3>2. QED
      BY <1>4, <2>1, <3>1, BoundAssumption
  <2>3. CASE r.kind # "send"
    BY <1>1, <2>1, <2>3, SMTT(30)
  <2>4. QED
    BY <2>2, <2>3
<1>6. Grows
  <2>1. clock' \in Nat /\ clock <= clock'
    BY <1>1, <1>3, BoundAssumption
  <2>2. QED
    BY <1>1, <1>5, <2>1 DEF Grows
<1>7. Requests' /\ pc' \in [Procs -> {"idle", "check", "find", "create", "take", "write"}]
      /\ \A q \in Procs : DOMAIN req'[q] = DOMAIN Blank
  BY <1>1, <1>6, BlankHolds, RequestsOn
<1>8. /\ marker' \in [Threads -> [Users -> 0..MaxClock]]
      /\ moved' \in [Threads -> [Users -> 0..MaxClock]]
      /\ \A d \in Threads, u \in Users :
            \/ marker'[d][u] = marker[d][u] /\ moved'[d][u] = moved[d][u]
            \/ d = c /\ u = r.user /\ moved'[d][u] = clock
               /\ marker'[d][u] \in {marker[d][u], r.value}
  <2>1. MovedFor(r) \subseteq {r.user}
    BY DEF MovedFor
  <2>2. /\ marker \in [Threads -> [Users -> 0..MaxClock]]
        /\ moved \in [Threads -> [Users -> 0..MaxClock]]
        /\ r.value \in 0..MaxClock
    BY <1>3, BoundAssumption DEF IInv, TypeOK
  <2>3. QED
    BY <1>1, <1>3, <2>1, <2>2
<1>9. TypeOK'
  <2>1. \A d \in Threads, u \in Users :
           marker'[d][u] > 0 => thread'[d] # None /\ u \in thread'[d].members
    <3> SUFFICES ASSUME NEW d \in Threads, NEW u \in Users, marker'[d][u] > 0
                 PROVE  thread[d] # None /\ u \in thread[d].members
      BY <1>1
    <3>1. CASE marker'[d][u] = marker[d][u]
      BY <3>1 DEF IInv, TypeOK
    <3>2. CASE d = c /\ u = r.user
      BY <1>3, <3>2
    <3>3. QED
      BY <1>8, <3>1, <3>2
  <2>2. ASSUME NEW i \in DOMAIN msgs'
        PROVE  /\ thread'[msgs'[i].thread] # None
               /\ msgs'[i].sender \in thread'[msgs'[i].thread].members
    <3>1. CASE i \in DOMAIN msgs
      BY <1>1, <1>5, <3>1 DEF IInv, TypeOK
    <3>2. CASE i \notin DOMAIN msgs
      <4>1. msgs'[i] = m
        BY <1>5, <3>2
      <4>2. QED
        BY <1>1, <1>3, <4>1
    <3>3. QED
      BY <3>1, <3>2, SMTT(30)
  <2>3. QED
    BY <1>1, <1>3, <1>5, <1>7, <1>8, <2>1, <2>2 DEF IInv, TypeOK
<1>10. Times'
  <2>1. clock' >= 1
    BY <1>1, <1>3 DEF IInv, Times
  <2>2. ASSUME NEW d \in Threads, NEW u \in Users
        PROVE  marker'[d][u] <= moved'[d][u] /\ moved'[d][u] < clock'
    <3>1. /\ marker[d][u] \in 0..MaxClock /\ moved[d][u] \in 0..MaxClock
          /\ marker[d][u] <= moved[d][u] /\ moved[d][u] < clock
      BY DEF IInv, TypeOK, Times
    <3>2. QED
      BY <1>1, <1>3, <1>8, <3>1, BoundAssumption
  <2>3. ASSUME NEW i \in DOMAIN msgs'  PROVE msgs'[i].at <= clock'
    <3>1. CASE i \in DOMAIN msgs
      <4>1. msgs[i].at \in Nat /\ msgs[i].at <= clock /\ msgs'[i] = msgs[i]
        BY <1>5, <3>1, MessageTypes DEF IInv, Times
      <4>2. QED
        BY <1>1, <1>3, <4>1, BoundAssumption
    <3>2. CASE i \notin DOMAIN msgs
      <4>1. msgs'[i] = m
        BY <1>5, <3>2
      <4>2. QED
        BY <1>1, <1>3, <4>1, BoundAssumption
    <3>3. QED
      BY <3>1, <3>2
  <2>4. QED
    BY <2>1, <2>2, <2>3 DEF Times
<1>11. MembersWereActive'
  BY <1>1 DEF IInv, MembersWereActive
<1>12. Reading' /\ PagesReachAll'
  BY <1>1, <1>6, ReadingOn
<1>13. QED
  BY <1>7, <1>9, <1>10, <1>11, <1>12 DEF IInv

\* A page misses of the messages before it only some as old as its oldest.
LEMMA ListMessagesStep ==
  ASSUME IInv, NEW u \in Users, NEW c \in Threads, NEW limit \in 1..MaxMsgs,
         ListMessages(u, c, limit)
  PROVE  IInv'
<1> DEFINE M == MessagesBefore(c, reader.before)
<1> PICK P \in Pages(M, limit) : \E k \in P :
         /\ \A j \in P : msgs[k].at <= msgs[j].at
         /\ reader' = [thread |-> c, before |-> msgs[k].at, shown |-> reader.shown \cup P,
                       since |-> IF reader.thread = None THEN Len(msgs) ELSE reader.since,
                       ends  |-> reader.ends \cup {msgs[k].at}]
  BY DEF ListMessages
<1>1. PICK k \in P :
         /\ \A j \in P : msgs[k].at <= msgs[j].at
         /\ reader' = [thread |-> c, before |-> msgs[k].at, shown |-> reader.shown \cup P,
                       since |-> IF reader.thread = None THEN Len(msgs) ELSE reader.since,
                       ends  |-> reader.ends \cup {msgs[k].at}]
  OBVIOUS
<1>2. /\ reader.thread \in {None, c} /\ active' = active /\ thread' = thread
      /\ marker' = marker /\ msgs' = msgs /\ clock' = clock /\ pc' = pc /\ req' = req
      /\ roster' = roster /\ moved' = moved
  BY DEF ListMessages, dbVars
<1>3. /\ P \subseteq M /\ M \subseteq DOMAIN msgs /\ k \in DOMAIN msgs
      /\ \A i \in P, j \in M \ P : msgs[i].at >= msgs[j].at
  BY <1>1 DEF Pages, MessagesBefore
<1>4. /\ DOMAIN msgs = 1..Len(msgs) /\ Len(msgs) \in 0..MaxMsgs /\ MaxClock \in Nat
      /\ \A i \in DOMAIN msgs : msgs[i].at \in 0..MaxClock
  <2>1. msgs \in Seq(Message) /\ Len(msgs) <= MaxMsgs
    BY DEF IInv, TypeOK
  <2>2. \A i \in DOMAIN msgs : msgs[i] \in Message
    BY <2>1
  <2>3. QED
    BY <2>1, <2>2, BoundAssumption DEF Message
<1>5. reader' \in Reader
  <2>1. reader \in Reader
    BY DEF IInv, TypeOK
  <2>2. /\ reader.shown \cup P \in SUBSET Nat
        /\ reader.ends \cup {msgs[k].at} \in SUBSET (0..MaxClock)
        /\ msgs[k].at \in 0..MaxClock + 1
        /\ (IF reader.thread = None THEN Len(msgs) ELSE reader.since) \in 0..MaxMsgs
        /\ c \in Threads \cup {None}
    BY <1>3, <1>4, <2>1 DEF Reader
  <2>3. QED
    BY <1>1, <2>2 DEF Reader
<1>6. TypeOK' /\ Times' /\ MembersWereActive'
  BY <1>2, <1>5 DEF IInv, TypeOK, Times, MembersWereActive
<1>7. Requests'
  <2>1. Grows
    BY <1>2, <1>4 DEF Grows, IInv, TypeOK
  <2>2. \A q \in Procs : Holds(pc[q], req[q])'
    BY <1>2, <2>1, HoldsOn DEF IInv, Requests
  <2>3. QED
    BY <1>2, <2>2 DEF IInv, Requests
<1>8. Reading'
  BY <1>1, <1>2, <1>4, NoneAssumption DEF IInv, Reading
<1>9. PagesReachAll'
  <2> SUFFICES ASSUME NEW i \in 1..reader'.since,
                      msgs[i].thread = c, msgs[i].at >= msgs[k].at
               PROVE  i \in reader.shown \cup P \/ msgs[i].at \in reader.ends \cup {msgs[k].at}
    BY <1>1, <1>2 DEF PagesReachAll
  <2>1. i \in DOMAIN msgs /\ (reader.thread # None => i \in 1..reader.since)
    BY <1>1, <1>4 DEF IInv, TypeOK, Reader, Reading
  <2>2. CASE msgs[i].at < reader.before
    <3>1. i \in M
      BY <2>1, <2>2 DEF MessagesBefore
    <3>2. CASE i \notin P
      <4>1. msgs[k].at >= msgs[i].at
        BY <1>3, <3>1, <3>2
      <4>2. msgs[i].at = msgs[k].at
        BY <1>3, <1>4, <2>1, <4>1
      <4>3. QED
        BY <4>2
    <3>3. QED
      BY <3>2
  <2>3. CASE ~(msgs[i].at < reader.before)
    <3>1. msgs[i].at >= reader.before /\ reader.before \in 0..MaxClock + 1
      BY <1>4, <2>1, <2>3 DEF IInv, TypeOK, Reader
    <3>2. reader.thread # None
      BY <1>4, <2>1, <3>1 DEF IInv, Reading
    <3>3. reader.thread = c /\ i \in 1..reader.since
      BY <1>2, <2>1, <3>2
    <3>4. QED
      BY <3>1, <3>3 DEF IInv, PagesReachAll
  <2>4. QED
    BY <2>2, <2>3
<1>10. QED
  BY <1>6, <1>7, <1>8, <1>9 DEF IInv

\* Every request that runs notes who is active after the step.
LEMMA SetActiveStep ==
  ASSUME IInv, NEW u \in Users, NEW on \in BOOLEAN, SetActive(u, on)
  PROVE  IInv'
<1>1. /\ active' \subseteq Users /\ thread' = thread /\ marker' = marker /\ msgs' = msgs
      /\ clock' = clock /\ pc' = pc /\ reader' = reader /\ roster' = roster /\ moved' = moved
      /\ req' = [q \in Procs |-> IF pc[q] = "idle" THEN req[q]
                               ELSE [req[q] EXCEPT !.active = @ \cup active']]
  BY DEF SetActive, IInv, TypeOK
<1>2. ASSUME NEW q \in Procs  PROVE Holds(pc[q], req[q])'
  <2> DEFINE r == req[q]
  <2>1. Holds(pc[q], r)
    BY DEF IInv, Requests
  <2>2. CASE pc[q] = "idle"
    BY <1>1, <2>1, <2>2 DEF Holds
  <2>3. CASE pc[q] # "idle"
    <3> PICK s : s = [r EXCEPT !.active = @ \cup active']
      OBVIOUS
    <3>1. req'[q] = s /\ pc'[q] = pc[q]
      BY <1>1, <2>3
    <3>2. /\ DOMAIN s = DOMAIN Blank /\ s.active = r.active \cup active'
          /\ s.user = r.user /\ s.known = r.known /\ s.at = r.at /\ s.kind = r.kind
          /\ s.members = r.members /\ s.unchecked = r.unchecked /\ s.thread = r.thread
          /\ s.upTo = r.upTo /\ s.loaded = r.loaded /\ s.value = r.value /\ s.seen = r.seen
      BY <2>1 DEF Holds, Blank
    <3>3. Asked(s)'
      BY <1>1, <2>1, <2>3, <3>2 DEF Holds, Asked
    <3>4. pc[q] \in {"check", "find", "create"} => Founding(pc[q], s)'
      BY <1>1, <2>1, <3>2 DEF Holds, Founding
    <3>5. pc[q] \in {"take", "write"} => Moving(pc[q], s)'
      BY <1>1, <2>1, <3>2 DEF Holds, Moving
    <3>6. Holds(pc[q], s)'
      BY <1>1, <3>2, <3>3, <3>4, <3>5 DEF Holds
    <3>7. QED
      BY <3>1, <3>6
  <2>4. QED
    BY <2>2, <2>3
<1>3. Requests' /\ \A q \in Procs : DOMAIN req'[q] = DOMAIN Blank
  BY <1>1, <1>2 DEF Requests, Holds
<1>4. TypeOK' /\ Times' /\ MembersWereActive' /\ Reading' /\ PagesReachAll'
  BY <1>1, <1>3 DEF IInv, TypeOK, Times, MembersWereActive, Reading, PagesReachAll
<1>5. QED
  BY <1>3, <1>4 DEF IInv
-----------------------------------------------------------------------------
LEMMA NextIInv == IInv /\ [Next]_vars => IInv'
<1> SUFFICES ASSUME IInv, [Next]_vars  PROVE IInv'
  OBVIOUS
<1>1. CASE UNCHANGED vars
  <2>1. Grows /\ pc' = pc /\ req' = req
    BY <1>1 DEF vars, dbVars, Grows, IInv, TypeOK
  <2>2. \A q \in Procs : Holds(pc[q], req[q])'
    BY <2>1, HoldsOn DEF IInv, Requests
  <2>3. QED
    BY <1>1, <2>2 DEF vars, dbVars, IInv, TypeOK, Requests, Times, MembersWereActive,
                      Reading, PagesReachAll
<1>2. ASSUME NEW p \in Procs, NEW u \in Users, NEW v \in Users, BeginDm(p, u, v)
      PROVE  IInv'
  BY <1>2, BeginDmStep
<1>3. ASSUME NEW p \in Procs, NEW u \in Users, NEW members \in SUBSET Users,
             BeginGroup(p, u, members)
      PROVE  IInv'
  BY <1>3, BeginGroupStep
<1>4. ASSUME NEW p \in Procs, NEW u \in Users, NEW c \in Threads, BeginSend(p, u, c)
      PROVE  IInv'
  BY <1>4, BeginSendStep
<1>5. ASSUME NEW p \in Procs, NEW u \in Users, NEW c \in Threads,
             NEW upTo \in {0} \cup DOMAIN msgs, BeginRead(p, u, c, upTo)
      PROVE  IInv'
  BY <1>5, BeginReadStep
<1>6. ASSUME NEW p \in Procs, FindDm(p) \/ TakeTime(p) \/ Write(p) \/ Abort(p)
      PROVE  IInv'
  BY <1>6, FindDmStep, TakeTimeStep, WriteStep, LeaveStep DEF Abort
<1>7. ASSUME NEW p \in Procs, NEW c \in Threads, CreateThread(p, c)  PROVE IInv'
  BY <1>7, CreateThreadStep
<1>8. ASSUME NEW p \in Procs, NEW v \in Users, EnsureUser(p, v)  PROVE IInv'
  BY <1>8, EnsureUserStep
<1>9. ASSUME NEW u \in Users, NEW c \in Threads, NEW limit \in 1..MaxMsgs,
             ListMessages(u, c, limit)
      PROVE  IInv'
  BY <1>9, ListMessagesStep
<1>10. ASSUME NEW u \in Users, NEW on \in BOOLEAN, SetActive(u, on)  PROVE IInv'
  BY <1>10, SetActiveStep
<1>11. QED
  BY <1>1, <1>2, <1>3, <1>4, <1>5, <1>6, <1>7, <1>8, <1>9, <1>10 DEF Next

\* What the other theorems rest on: every request still fits the rows when it
\* writes, and markers are older than whatever comes after them.
THEOREM Inductive == Spec => []IInv
BY InitIInv, NextIInv, PTL DEF Spec

\* The rows keep their shape: direct threads have two participants, groups
\* more than one, and only participants write and keep markers
\* (chat/router.py:97-213, 288-355).
THEOREM TypeCorrect == Spec => []TypeOK
<1>1. IInv => TypeOK
  BY DEF IInv
<1>2. QED
  BY <1>1, Inductive, PTL

\* Nobody whose account was inactive as long as the request ran is put into a
\* thread, whoever is deactivated and comes back between its begin, the look-up
\* of each participant and the commit (chat/router.py:57-62, 97-213).
THEOREM OnlyActiveMembers == Spec => []MembersWereActive
<1>1. IInv => MembersWereActive
  BY DEF IInv
<1>2. QED
  BY <1>1, Inductive, PTL

\* A message sent after a marker was last committed is counted as unread
\* (chat/router.py:359-383).
THEOREM CountsWhatWasSentAfter == Spec => []SentAfterIsCounted
<1>1. IInv => SentAfterIsCounted
  <2> SUFFICES ASSUME IInv, NEW i \in DOMAIN msgs,
                      NEW u \in thread[msgs[i].thread].members \ {msgs[i].sender},
                      msgs[i].at > moved[msgs[i].thread][u]
               PROVE  i \in Unread(msgs[i].thread, u)
    BY DEF SentAfterIsCounted
  <2> DEFINE c == msgs[i].thread
  <2>1. c \in Threads /\ thread[c] # None /\ msgs[i].at \in Nat
    BY MessageTypes DEF IInv, TypeOK
  <2>2. u \in Users
    BY <2>1 DEF IInv, TypeOK, Thread
  <2>3. marker[c][u] \in Nat /\ moved[c][u] \in Nat /\ marker[c][u] <= moved[c][u]
    BY <2>1, <2>2, MessageTypes DEF IInv, TypeOK, Times
  <2>4. msgs[i].at > marker[c][u]
    BY <2>1, <2>3
  <2>5. QED
    BY <2>4 DEF Unread
<1>2. QED
  BY <1>1, Inductive, PTL

\* Reading a thread back over several requests misses, of the messages there
\* were at the first, only some of a tick where a page ended, whatever is sent
\* in between (chat/router.py:248-280).
THEOREM PagesAreComplete == Spec => []PagesReachAll
<1>1. IInv => PagesReachAll
  BY DEF IInv
<1>2. QED
  BY <1>1, Inductive, PTL

\* A step that ends the write or the insert of a request is that step.
LEMMA EndsByWrite ==
  ASSUME IInv, Next, NEW p \in Procs, pc[p] \in {"create", "write"}, pc'[p] = "idle",
         thread' # thread \/ moved' # moved
  PROVE  (pc[p] = "write" /\ Write(p)) \/ (pc[p] = "create" /\ \E c \in Threads : CreateThread(p, c))
<1>1. \A q \in Procs : pc' = [pc EXCEPT ![q] = "idle"] => q = p
  BY DEF IInv, TypeOK
<1>2. ASSUME NEW q \in Procs, NEW u \in Users, NEW label, NEW r, Begin(q, u, label, r)
      PROVE  FALSE
  BY <1>2 DEF Begin, dbVars
<1>3. ASSUME NEW q \in Procs, NEW label, NEW r, Continue(q, label, r) \/ Leave(q)
      PROVE  FALSE
  BY <1>3 DEF Continue, Leave, dbVars
<1>4. ASSUME NEW q \in Procs,
             (\E v \in Users : EnsureUser(q, v)) \/ FindDm(q) \/ TakeTime(q) \/ Abort(q)
      PROVE  FALSE
  BY <1>3, <1>4 DEF EnsureUser, FindDm, TakeTime, Abort
<1>5. ASSUME NEW q \in Procs, Write(q)  PROVE q = p /\ pc[p] = "write"
  BY <1>1, <1>5 DEF Write, Commit, Finish
<1>6. ASSUME NEW q \in Procs, NEW c \in Threads, CreateThread(q, c)
      PROVE  q = p /\ pc[p] = "create"
  BY <1>1, <1>6 DEF CreateThread, Commit, Finish
<1>7. /\ \A u \in Users, on \in BOOLEAN : ~SetActive(u, on)
      /\ \A u \in Users, c \in Threads, limit \in 1..MaxMsgs : ~ListMessages(u, c, limit)
  BY DEF SetActive, ListMessages, dbVars
<1>8. PICK q \in Procs : Write(q) \/ \E c \in Threads : CreateThread(q, c)
  BY <1>2, <1>4, <1>7 DEF Next, BeginDm, BeginGroup, BeginSend, BeginRead
<1>9. QED
  BY <1>5, <1>6, <1>8

\* A second direct thread of two people is made only by a request that began
\* before the first was committed (chat/router.py:76-138, 182-212).
THEOREM OneDm == Spec => OneDmUnlessOverlapping
<1> DEFINE A == \A p \in Procs, c \in Threads :
                  (/\ pc[p] = "create" /\ pc'[p] = "idle"
                   /\ thread[c] = None /\ thread'[c] # None /\ thread'[c].dm)
                  => \A d \in req[p].known : thread[d] # thread'[c]
<1>1. IInv /\ [Next]_vars => [A]_vars
  <2> SUFFICES ASSUME IInv, Next, NEW p \in Procs, NEW c \in Threads,
                      pc[p] = "create", pc'[p] = "idle",
                      thread[c] = None, thread'[c] # None, thread'[c].dm,
                      NEW d \in req[p].known
               PROVE  thread[d] # thread'[c]
    OBVIOUS
  <2> DEFINE r == req[p]
  <2>1. PICK e \in Threads : CreateThread(p, e)
    <3>1. thread' # thread
      OBVIOUS
    <3>2. QED
      BY <3>1, EndsByWrite
  <2>2. thread' = [thread EXCEPT ![e] = [dm |-> r.kind = "dm", members |-> r.members]]
    BY <2>1 DEF CreateThread
  <2>3. c = e /\ thread'[c] = [dm |-> r.kind = "dm", members |-> r.members]
    BY <2>2 DEF IInv, TypeOK
  <2>4. r.kind = "dm"
    <3> SUFFICES ASSUME (r.kind = "dm") = FALSE  PROVE FALSE
      OBVIOUS
    <3>1. thread'[c] = [dm |-> FALSE, members |-> r.members]
      BY <2>3, Zenon
    <3>2. ~ thread'[c].dm
      BY <3>1
    <3>3. QED
      BY <3>2
  <2>5. Founding("create", r)
    BY DEF IInv, Requests, Holds
  <2>6. QED
    BY <2>3, <2>4, <2>5 DEF Founding
<1>2. QED
  BY <1>1, Inductive, PTL DEF Spec, OneDmUnlessOverlapping

\* Sending, and marking all as read, move the marker past every message there
\* was when the time was taken (chat/router.py:288-355).
THEOREM ReadsWhatWasSeen == Spec => SeenIsRead
<1> DEFINE A == \A p \in Procs, c \in Threads, u \in Users :
                  (/\ pc[p] = "write" /\ pc'[p] = "idle" /\ moved'[c][u] # moved[c][u]
                   /\ req[p].thread = c /\ req[p].user = u /\ req[p].upTo = 0)
                  => Unread(c, u)' \cap 1..req[p].seen = {}
<1>1. IInv /\ [Next]_vars => [A]_vars
  <2> SUFFICES ASSUME IInv, Next, NEW p \in Procs, NEW c \in Threads, NEW u \in Users,
                      pc[p] = "write", pc'[p] = "idle", moved'[c][u] # moved[c][u],
                      req[p].thread = c, req[p].user = u, req[p].upTo = 0,
                      NEW i \in 1..req[p].seen, i \in Unread(c, u)'
               PROVE  FALSE
    OBVIOUS
  <2> DEFINE r == req[p]
  <2>1. Write(p)
    <3>1. moved' # moved
      OBVIOUS
    <3>2. QED
      BY <3>1, EndsByWrite
  <2>2. Moving("write", r) /\ Asked(r)
    BY DEF IInv, Requests, Holds
  <2>3. /\ r.value \in 0..clock /\ r.at \in 1..clock /\ r.loaded \in 0..MaxClock
        /\ r.loaded < r.at /\ r.value >= r.at /\ r.seen \in 0..Len(msgs)
        /\ msgs[i].at <= r.value
    BY <2>2 DEF Moving, Asked
  <2>4. r.value # r.loaded
    BY <2>3, MessageTypes DEF IInv
  <2>5. marker'[c][u] = r.value
    BY <2>1, <2>4 DEF Write, MovedFor, IInv, TypeOK
  <2>6. i \in DOMAIN msgs /\ msgs'[i] = msgs[i] /\ msgs[i].at \in Nat
    <3>1. i \in DOMAIN msgs /\ msgs[i].at \in Nat /\ msgs \in Seq(Message)
      BY <2>3, MessageTypes DEF IInv, TypeOK
    <3>2. msgs' = msgs \/ \E m : msgs' = Append(msgs, m)
      BY <2>1 DEF Write
    <3>3. CASE msgs' = msgs
      BY <3>1, <3>3
    <3>4. ASSUME NEW m, msgs' = Append(msgs, m)  PROVE msgs'[i] = msgs[i]
      BY <3>1, <3>4
    <3>5. QED
      BY <3>1, <3>2, <3>3, <3>4
  <2>7. msgs'[i].at > marker'[c][u]
    BY DEF Unread
  <2>8. QED
    BY <2>3, <2>5, <2>6, <2>7, MessageTypes DEF IInv
<1>2. QED
  BY <1>1, Inductive, PTL DEF Spec, SeenIsRead
=============================================================================
