---------------------------- MODULE SetupProofs -----------------------------
(***************************************************************************)
(* Proofs about the two scripts that set an environment up: seed_pilot.py, *)
(* for every plan and any number of overlapping runs (PilotSeed), and      *)
(* migrate.py, for every number of instances (Migration).                  *)
(*                                                                         *)
(* Of a run of the pilot script: what it is going to write fits the rows   *)
(* it will meet at its commit, unless somebody else gave or took one.      *)
(***************************************************************************)
EXTENDS PilotSeed, Migration, FiniteSetTheorems, TLAPS

Shape ==
    /\ rows \in [Cells -> Seq(Values)]
    /\ key \in [Items -> Procs \cup {None}]
    /\ pc \in [Procs -> 0..Len(Plan) + 1]
    /\ flushing \subseteq {p \in Procs : pc[p] \in DOMAIN Plan}
    /\ thread \in [Procs -> Threads \cup {None}]
    /\ writes \in [Procs -> [Items -> {"none", "insert", "gone"} \cup Values]]
    /\ late \in [Procs -> SUBSET Cells]
    /\ settled \in BOOLEAN /\ crossed \in BOOLEAN
    /\ alone \subseteq Procs /\ quiet \subseteq alone

\* The items a run has been through.
Passed(p) == {Plan[n] : n \in {m \in DOMAIN Plan : m < pc[p]}}

\* What a run is going to write fits the rows of the item by now, ...
Fits(p, i) ==
    \/ writes[p][i] = "insert" /\ rows[Cell(p, i)] = << >>
    \/ writes[p][i] # "insert" /\ Len(rows[Cell(p, i)]) = 1

\* ... is what it would write if it looked now, ...
Right(write, i, row) ==
    write = IF row = << >> THEN "insert"
            ELSE IF Reseeded(i, row[1]) # row[1] THEN row[1] ELSE "none"

Exact(p, i) == Right(writes[p][i], i, rows[Cell(p, i)])

\* ... sets fields of a row that is there, ...
Touches(p, i) == writes[p][i] \in Values => rows[Cell(p, i)] # << >>

\* ... has the key it needs, ...
HoldsKey(p, i) == writes[p][i] = "insert" => key[i] = p /\ rows[<<i, None>>] = << >>

\* ... leaves the agent an agent, and with a profile.
MakesAgent(p, i) ==
    /\ writes[p][i] # "insert" => rows[<<i, None>>] # << >>
    /\ ~crossed /\ writes[p][i] = "none" => rows[<<i, None>>] = <<"seeded">>
    /\ ~crossed /\ writes[p][i] \in Values =>
          rows[<<i, None>>] \in {<<writes[p][i]>>, <<"seeded">>}

MakesProfile(p, i) == ~crossed => writes[p][i] = "insert" \/ rows[<<i, None>>] # << >>

ItemReady(p, i) ==
    /\ Cell(p, i) \in late[p] \/ Fits(p, i)
    /\ p \in alone => Exact(p, i)
    /\ Touches(p, i)
    /\ Flushed(i) => HoldsKey(p, i)
    /\ Kind[i] = "agent" => MakesAgent(p, i)
    /\ Kind[i] = "profile" => MakesProfile(p, i)

\* The run has a thread: one that is open, or one that it opens because it saw
\* none.
ThreadReady(p, i) ==
    /\ thread[p] \in Threads
    /\ writes[p][i] \in {"none", "insert"}
    /\ writes[p][i] = "none" => rows[<<i, thread[p]>>] # << >>
    /\ writes[p][i] = "insert" => \A c \in Threads : rows[<<i, c>>] # << >> => <<i, c>> \in late[p]

\* A run that saw nobody else change anything has missed nothing.
Unmissed(p) ==
    /\ pc[p] = 0 => late[p] = {}
    /\ p \in alone => pc[p] # 0 /\ late[p] = {}
    /\ p \in flushing => writes[p][Plan[pc[p]]] = "insert" /\ Flushed(Plan[pc[p]])

Ready(p) ==
    \A i \in Passed(p) : IF Kind[i] = "thread" THEN ThreadReady(p, i) ELSE ItemReady(p, i)

\* The rows of an item as a run leaves them, when its thread is c.
Settled(i, row) ==
    row # << >> /\ (Kind[i] # "thread" => Len(row) = 1 /\ Reseeded(i, row[1]) = row[1])

SettledIn(c) ==
    /\ (\E i \in Items : Kind[i] = "thread") => c \in Threads
    /\ \A i \in Items : Settled(i, rows[<<i, IF Threaded(i) THEN c ELSE None>>])

AllSeeded == \E c \in Threads \cup {None} : SettledIn(c)

\* What has a unique key has one row, and what a run alone has left is as it
\* leaves it.
Tables ==
    /\ \A x \in Cells : Keyed(x[1]) => Len(rows[x]) <= 1
    /\ settled \/ quiet # {} => AllSeeded

IInv == Shape /\ Tables /\ \A p \in Procs : Unmissed(p) /\ Ready(p)

-----------------------------------------------------------------------------
\* Seeding twice is seeding once.
LEMMA ReseedTwice ==
  ASSUME NEW i \in Items, NEW v \in Values
  PROVE  /\ Reseeded(i, v) \in Values
         /\ Reseeded(i, Reseeded(i, v)) = Reseeded(i, v)
         /\ Reseeded(i, "seeded") = "seeded"
BY DEF Reseeded, ReseededTask, ReseededEntry, Values

\* A value is not one of the other marks.
LEMMA Marks ==
  /\ "none" \notin Values /\ "insert" \notin Values /\ "gone" \notin Values
  /\ "seeded" \in Values /\ "changed" \in Values
BY DEF Values

\* Rows that are there have a first one.
LEMMA OneRow ==
  ASSUME NEW s \in Seq(Values)
  PROVE  /\ Len(s) \in Nat
         /\ s = << >> <=> Len(s) = 0
         /\ Len(s) = 1 => s[1] \in Values /\ s = <<s[1]>>
         /\ s # << >> => s[1] \in Values
OBVIOUS

LEMMA OnlyRow ==
  ASSUME NEW s \in Seq(Values), Len(s) <= 1, s # << >>
  PROVE  Len(s) = 1 /\ s[1] \in Values /\ s = <<s[1]>>
<1>1. PICK n \in Nat : n = Len(s) /\ n # 0
  OBVIOUS
<1>2. n <= 1
  BY <1>1
<1>3. n = 1
  BY <1>1, <1>2
<1>4. QED
  BY <1>1, <1>3, OneRow

LEMMA NoRow == << >> \in Seq(Values) /\ Len(<< >>) <= 1
OBVIOUS

LEMMA OneValue ==
  ASSUME NEW v \in Values
  PROVE  <<v>> \in Seq(Values) /\ Len(<<v>>) <= 1 /\ Len(<<v>>) = 1 /\ <<v>> # << >>
OBVIOUS

\* The cell of an item is a cell, and that of one without threads is the same
\* for every run.
LEMMA CellIs ==
  ASSUME Shape, NEW p \in Procs, NEW i \in Items
  PROVE  /\ Cell(p, i) \in Cells /\ Cell(p, i)[1] = i
         /\ rows[Cell(p, i)] \in Seq(Values)
         /\ ~Threaded(i) => Cell(p, i) = <<i, None>>
         /\ Threaded(i) => Cell(p, i) = <<i, thread[p]>>
         /\ writes[p][i] \in {"none", "insert", "gone"} \cup Values
<1>1. thread[p] \in Threads \cup {None}
  BY DEF Shape
<1>2. Cell(p, i) = <<i, IF Threaded(i) THEN thread[p] ELSE None>>
  BY DEF Cell
<1>3. Cell(p, i) \in Cells
  BY <1>1, <1>2 DEF Cells
<1>4. QED
  BY <1>2, <1>3 DEF Shape

LEMMA RowIsThere ==
  ASSUME Shape, NEW i \in Items, NEW c \in Threads \cup {None}
  PROVE  <<i, c>> \in Cells /\ rows[<<i, c>>] \in Seq(Values)
<1>1. <<i, c>> \in Cells
  BY DEF Cells
<1>2. QED
  BY <1>1 DEF Shape

LEMMA Unthreaded ==
  ASSUME NEW i \in Items
  PROVE  /\ Flushed(i) \/ Keyed(i) => ~Threaded(i)
         /\ Kind[i] \in {"agent", "profile"} => ~Threaded(i) /\ Keyed(i)
         /\ Flushed(i) => Keyed(i)
BY DEF Flushed, Keyed, Threaded

\* The plan is a sequence in which every item has one place.
LEMMA PlanIs ==
  /\ Len(Plan) \in Nat /\ DOMAIN Plan = 1..Len(Plan)
  /\ \A n \in DOMAIN Plan : Plan[n] \in Items
  /\ \A i \in Items : \E n \in DOMAIN Plan : Plan[n] = i
  /\ \A m, n \in DOMAIN Plan : Plan[m] = Plan[n] => m = n
<1>1. Plan \in Seq(Items) /\ {Plan[n] : n \in DOMAIN Plan} = Items
      /\ \A m, n \in DOMAIN Plan : Plan[m] = Plan[n] => m = n
  BY PlanAssumption
<1>2. Len(Plan) \in Nat /\ DOMAIN Plan = 1..Len(Plan)
  BY <1>1
<1>3. \A n \in DOMAIN Plan : Plan[n] \in Items
  BY <1>1
<1>4. \A i \in Items : \E n \in DOMAIN Plan : Plan[n] = i
  BY <1>1
<1>5. QED
  BY <1>1, <1>2, <1>3, <1>4

LEMMA PassedIs ==
  ASSUME Shape, NEW p \in Procs
  PROVE  /\ Passed(p) \subseteq Items
         /\ pc[p] = Len(Plan) + 1 => Passed(p) = Items
<1>1. pc[p] \in 0..Len(Plan) + 1
  BY DEF Shape
<1>2. QED
  BY <1>1, PlanIs DEF Passed

LEMMA PassedNone ==
  ASSUME NEW p \in Procs, pc'[p] \in {0, 1}
  PROVE  Passed(p)' = {}
BY PlanIs DEF Passed

LEMMA PassedNext ==
  ASSUME NEW p \in Procs, pc[p] \in DOMAIN Plan, pc'[p] = pc[p] + 1
  PROVE  Passed(p)' = Passed(p) \cup {Plan[pc[p]]}
<1>1. pc[p] \in 1..Len(Plan)
  BY PlanIs
<1>2. \A m \in DOMAIN Plan : m < pc'[p] <=> m < pc[p] \/ m = pc[p]
  BY <1>1, PlanIs
<1>3. QED
  BY <1>2 DEF Passed

LEMMA NotPassed ==
  ASSUME NEW p \in Procs, pc[p] \in DOMAIN Plan
  PROVE  Plan[pc[p]] \in Items /\ Plan[pc[p]] \notin Passed(p)
<1>1. \A m \in DOMAIN Plan : m < pc[p] => m # pc[p]
  BY PlanIs
<1>2. QED
  BY <1>1, PlanIs DEF Passed

\* Before the thread there are no messages.
LEMMA NoThreadYet ==
  ASSUME Shape, NEW p \in Procs, pc[p] \in DOMAIN Plan, Kind[Plan[pc[p]]] = "thread",
         NEW j \in Passed(p)
  PROVE  ~Threaded(j)
<1>1. PICK n \in DOMAIN Plan : n < pc[p] /\ Plan[n] = j
  BY DEF Passed
<1>2. ASSUME NEW m \in DOMAIN Plan, m < pc[p], Kind[Plan[m]] = "thread"  PROVE FALSE
  <2>1. Plan[m] \in Items /\ Plan[pc[p]] \in Items
    BY <1>2, PlanIs
  <2>2. Plan[m] = Plan[pc[p]]
    BY <1>2, <2>1, ThreadAssumption
  <2>3. m = pc[p]
    BY <1>2, <2>2, PlanIs
  <2>4. QED
    BY <1>2, <2>3, PlanIs
<1>3. ASSUME Kind[j] = "message"  PROVE FALSE
  <2>1. PICK m \in 1..n - 1 : Kind[Plan[m]] = "thread"
    BY <1>1, <1>3, ThreadAssumption
  <2>2. m \in DOMAIN Plan /\ m < pc[p]
    BY <1>1, <2>1, PlanIs DEF Shape
  <2>3. QED
    BY <1>2, <2>1, <2>2
<1>4. QED
  BY <1>1, <1>2, <1>3 DEF Threaded

-----------------------------------------------------------------------------
\* What a step may do to the rows while a run is under way that does not take
\* it: rows that come or go are noticed, what a run cannot change any more is
\* marked, its keys keep others out, and an agent or a thread stays one.
Minds(q) ==
    /\ late[q] \subseteq late'[q]
    /\ \A x \in Cells : x \in late'[q] \/ Len(rows'[x]) = Len(rows[x])
    /\ q \in alone' => q \in alone /\ rows' = rows /\ late'[q] = late[q] /\ writes'[q] = writes[q]
    /\ \A i \in Items : Flushed(i) /\ key[i] = q =>
          key'[i] = q /\ (rows[<<i, None>>] = << >> => rows'[<<i, None>>] = << >>)
    /\ \A x \in Cells : Kind[x[1]] \in {"agent", "thread"} /\ rows[x] # << >> => rows'[x] # << >>
    /\ \A i \in Items :
          \/ writes'[q][i] = writes[q][i]
          \/ /\ writes[q][i] \in Values /\ writes'[q][i] = "gone"
             /\ i \in Passed(q) => Cell(q, i) \in late'[q]
    /\ \A i \in Items : writes'[q][i] \in Values /\ rows[Cell(q, i)] # << >>
                        => rows'[Cell(q, i)] # << >>
    /\ ~crossed' =>
          /\ ~crossed
          /\ \A i \in Items : Kind[i] = "agent" /\ rows'[<<i, None>>] # rows[<<i, None>>] /\ rows[<<i, None>>] # << >>
                              => rows'[<<i, None>>] = <<"seeded">>
          /\ \A i \in Items : Kind[i] = "profile" /\ rows[<<i, None>>] # << >> => rows'[<<i, None>>] # << >>

LEMMA ItemStaysReady ==
  ASSUME Shape, Shape', NEW q \in Procs, NEW i \in Items, i \in Passed(q), ItemReady(q, i),
         Minds(q),
         thread'[q] = thread[q]
  PROVE  ItemReady(q, i)'
<1>0. PICK x : x = Cell(q, i) /\ x = Cell(q, i)'
  BY DEF Cell, Threaded
<1>1. /\ x \in Cells /\ rows[x] \in Seq(Values) /\ rows'[x] \in Seq(Values)
      /\ rows[<<i, None>>] \in Seq(Values) /\ rows'[<<i, None>>] \in Seq(Values) /\ <<i, None>> \in Cells
  <2>1. x \in Cells /\ <<i, None>> \in Cells
    BY <1>0, CellIs, RowIsThere
  <2>2. QED
    BY <2>1 DEF Shape
<1>2. PICK w, w1 : w = writes[q][i] /\ w1 = writes'[q][i]
  OBVIOUS
<1>3. w1 = w \/ (w \in Values /\ w1 = "gone" /\ x \in late'[q])
  BY <1>0, <1>2 DEF Minds
<1>4. w1 # w => w # "insert" /\ w1 = "gone" /\ w1 # "insert" /\ w1 # "none" /\ w1 \notin Values
  BY <1>3, Marks
<1>5. x \in late'[q] \/ Fits(q, i)'
  <2>1. CASE x \notin late'[q]
    <3>1. Fits(q, i) /\ Len(rows'[x]) = Len(rows[x]) /\ w1 = w
      BY <1>0, <1>1, <1>3, <2>1 DEF Minds, ItemReady
    <3>2. QED
      BY <1>0, <1>1, <1>2, <3>1, OneRow DEF Fits
  <2>2. QED
    BY <2>1
<1>6. ASSUME q \in alone'  PROVE Exact(q, i)'
  <2>1. Exact(q, i) /\ rows'[x] = rows[x] /\ w1 = w
    BY <1>2, <1>6 DEF Minds, ItemReady
  <2>2. QED
    BY <1>0, <1>2, <2>1 DEF Exact, Right, Reseeded, ReseededTask, ReseededEntry
<1>7. Touches(q, i)'
  <2>1. ASSUME w1 \in Values  PROVE rows'[x] # << >>
    <3>1. w \in Values
      BY <1>4, <2>1
    <3>2. rows[x] # << >>
      BY <1>0, <1>2, <3>1 DEF ItemReady, Touches
    <3>3. QED
      BY <1>0, <1>2, <2>1, <3>2 DEF Minds
  <2>2. QED
    BY <1>0, <1>2, <2>1 DEF Touches
<1>8. ASSUME Flushed(i)  PROVE HoldsKey(q, i)'
  BY <1>2, <1>4, <1>8 DEF Minds, ItemReady, HoldsKey
<1>9. ASSUME Kind[i] = "agent"  PROVE MakesAgent(q, i)'
  <2>1. MakesAgent(q, i)
    BY <1>9 DEF ItemReady
  <2>2. rows[<<i, None>>] # << >> => rows'[<<i, None>>] # << >>
    BY <1>1, <1>9 DEF Minds
  <2>3. ~crossed' => /\ ~crossed
                     /\ \/ rows'[<<i, None>>] = rows[<<i, None>>] \/ rows[<<i, None>>] = << >>
                        \/ rows'[<<i, None>>] = <<"seeded">>
    BY <1>9 DEF Minds
  <2>4. w = "none" \/ w \in Values => w # "insert"
    BY Marks
  <2>5. QED
    BY <1>2, <1>4, <2>1, <2>2, <2>3, <2>4 DEF MakesAgent
<1>10. ASSUME Kind[i] = "profile"  PROVE MakesProfile(q, i)'
  BY <1>2, <1>4, <1>10 DEF Minds, ItemReady, MakesProfile
<1>11. QED
  BY <1>0, <1>5, <1>6, <1>7, <1>8, <1>9, <1>10 DEF ItemReady, Flushed

LEMMA ThreadStaysReady ==
  ASSUME Shape, Shape', NEW q \in Procs, NEW i \in Items, Kind[i] = "thread", ThreadReady(q, i),
         Minds(q), thread'[q] = thread[q]
  PROVE  ThreadReady(q, i)'
<1>1. writes'[q][i] = writes[q][i]
  BY Marks DEF Minds, ThreadReady
<1>2. ASSUME NEW c \in Threads
      PROVE  /\ rows[<<i, c>>] # << >> => rows'[<<i, c>>] # << >>
             /\ rows'[<<i, c>>] # << >> => rows[<<i, c>>] # << >> \/ <<i, c>> \in late'[q]
  <2>1. <<i, c>> \in Cells /\ rows[<<i, c>>] \in Seq(Values)
    BY RowIsThere
  <2>2. <<i, c>>[1] = i
    OBVIOUS
  <2>3. rows'[<<i, c>>] \in Seq(Values)
    BY <2>1 DEF Shape
  <2>4. rows[<<i, c>>] # << >> => rows'[<<i, c>>] # << >>
    BY <2>1, <2>2 DEF Minds
  <2>5. <<i, c>> \in late'[q] \/ Len(rows'[<<i, c>>]) = Len(rows[<<i, c>>])
    BY <2>1 DEF Minds
  <2>6. QED
    BY <2>1, <2>3, <2>4, <2>5, OneRow
<1>3. late[q] \subseteq late'[q]
  BY DEF Minds
<1>4. QED
  BY <1>1, <1>2, <1>3 DEF ThreadReady

LEMMA OthersReady ==
  ASSUME Shape, Shape', NEW q \in Procs, Unmissed(q), Ready(q),
         pc'[q] = pc[q], thread'[q] = thread[q], q \in flushing' => q \in flushing,
         pc[q] = 0 => late'[q] = {} /\ q \notin alone',
         pc[q] # 0 => Minds(q)
  PROVE  Unmissed(q)' /\ Ready(q)'
<1>1. Passed(q)' = Passed(q)
  BY DEF Passed
<1>2. Unmissed(q)'
  <2>1. ASSUME q \in flushing'
        PROVE  writes'[q][Plan[pc'[q]]] = "insert" /\ Flushed(Plan[pc'[q]])
    <3>1. /\ pc[q] \in DOMAIN Plan /\ pc[q] # 0
          /\ writes[q][Plan[pc[q]]] = "insert" /\ Flushed(Plan[pc[q]])
      BY <2>1, PlanIs DEF Shape, Unmissed
    <3>2. Plan[pc[q]] \in Items
      BY <3>1, PlanIs
    <3>3. QED
      BY <3>1, <3>2, Marks DEF Minds
  <2>2. QED
    BY <2>1 DEF Unmissed, Minds, Flushed
<1>3. CASE pc[q] = 0
  <2>1. Passed(q)' = {}
    BY <1>3, PassedNone
  <2>2. QED
    BY <1>2, <2>1 DEF Ready
<1>4. CASE pc[q] # 0
  <2> SUFFICES ASSUME NEW i \in Passed(q)
               PROVE  IF Kind[i] = "thread" THEN ThreadReady(q, i)' ELSE ItemReady(q, i)'
    BY <1>1, <1>2 DEF Ready
  <2>1. i \in Items /\ Minds(q)
    BY <1>4, PassedIs
  <2>2. QED
    BY <2>1, ItemStaysReady, ThreadStaysReady DEF Ready
<1>5. QED
  BY <1>3, <1>4

\* A run that is over, or begins, has been through nothing.
LEMMA NothingYet ==
  ASSUME NEW p \in Procs, pc'[p] \in {0, 1}, late'[p] = {}, p \notin flushing',
         p \in alone' => pc'[p] # 0
  PROVE  Unmissed(p)' /\ Ready(p)'
<1>1. Passed(p)' = {}
  BY PassedNone
<1>2. QED
  BY <1>1 DEF Unmissed, Ready

\* A step that changes no row.
LEMMA TablesFrame ==
  ASSUME Tables, rows' = rows, settled' = settled, settled \/ quiet' \subseteq quiet
  PROVE  Tables'
<1>1. AllSeeded => AllSeeded'
  BY DEF AllSeeded, SettledIn, Settled, Threaded, Reseeded, ReseededTask, ReseededEntry
<1>2. QED
  BY <1>1 DEF Tables, Keyed, Flushed

LEMMA NobodyMinds ==
  ASSUME Shape, NEW q \in Procs, rows' = rows, crossed' = crossed, late'[q] = late[q],
         writes'[q] = writes[q], q \in alone' => q \in alone,
         \A i \in Items : key[i] = q => key'[i] = q
  PROVE  Minds(q)
BY DEF Minds

LEMMA FailStep ==
  ASSUME IInv, NEW p \in Procs, Fail(p)
  PROVE  IInv'
<1>1. /\ pc' = [pc EXCEPT ![p] = 0] /\ flushing' = flushing \ {p}
      /\ thread' = [thread EXCEPT ![p] = None]
      /\ writes' = [writes EXCEPT ![p] = Nothing] /\ key' = Released(p)
      /\ alone' = alone \ {p} /\ quiet' = quiet \ {p} /\ late' = [late EXCEPT ![p] = {}]
      /\ rows' = rows /\ settled' = settled /\ crossed' = crossed
  BY DEF Fail, End
<1>2. Shape'
  BY <1>1, PlanIs DEF IInv, Shape, Released, Nothing, Cells
<1>3. Tables'
  BY <1>1, TablesFrame DEF IInv
<1>4. Unmissed(p)' /\ Ready(p)'
  BY <1>1, NothingYet DEF IInv, Shape
<1>5. ASSUME NEW q \in Procs, q # p  PROVE Unmissed(q)' /\ Ready(q)'
  <2>1. \A i \in Items : key[i] = q => key'[i] = q
    BY <1>1, <1>5 DEF Released
  <2>2. pc'[q] = pc[q] /\ thread'[q] = thread[q] /\ writes'[q] = writes[q] /\ late'[q] = late[q]
    BY <1>1, <1>5 DEF IInv, Shape
  <2>3. Unmissed(q) /\ Ready(q) /\ Shape
    BY DEF IInv
  <2>4. Minds(q)
    BY <1>1, <2>1, <2>2, <2>3, NobodyMinds
  <2>5. QED
    BY <1>1, <1>2, <2>2, <2>3, <2>4, OthersReady DEF Unmissed
<1>6. QED
  BY <1>2, <1>3, <1>4, <1>5 DEF IInv

LEMMA BeginStep ==
  ASSUME IInv, NEW p \in Procs, Begin(p)
  PROVE  IInv'
<1>1. /\ pc[p] = 0 /\ pc' = [pc EXCEPT ![p] = 1]
      /\ alone' = alone \cup {p} /\ quiet' = IF settled THEN quiet \cup {p} ELSE quiet
      /\ rows' = rows /\ key' = key /\ flushing' = flushing /\ writes' = writes
      /\ thread' = thread /\ settled' = settled /\ late' = late /\ crossed' = crossed
  BY DEF Begin, dbVars
<1>2. Shape'
  BY <1>1, PlanIs DEF IInv, Shape, Cells
<1>3. Tables'
  BY <1>1, TablesFrame DEF IInv
<1>4. Unmissed(p)' /\ Ready(p)'
  <2>1. pc'[p] = 1 /\ late'[p] = {} /\ p \notin flushing'
    BY <1>1, PlanIs DEF IInv, Shape, Unmissed
  <2>2. QED
    BY <2>1, NothingYet
<1>5. ASSUME NEW q \in Procs, q # p  PROVE Unmissed(q)' /\ Ready(q)'
  <2>1. Unmissed(q) /\ Ready(q) /\ Shape
    BY DEF IInv
  <2>2. pc'[q] = pc[q] /\ thread'[q] = thread[q] /\ Minds(q)
    BY <1>1, <1>5, <2>1, NobodyMinds DEF Shape
  <2>3. QED
    BY <1>1, <1>2, <1>5, <2>1, <2>2, OthersReady DEF Unmissed
<1>6. QED
  BY <1>2, <1>3, <1>4, <1>5 DEF IInv

\* What a look-up decides to write is right when it decides.
LEMMA Decided ==
  ASSUME Shape', NEW p \in Procs, NEW i \in Items, NEW x, x = Cell(p, i)',
         ~Flushed(i) \/ rows'[x] # << >>, Len(rows'[x]) <= 1, Exact(p, i)'
  PROVE  ItemReady(p, i)'
<1>1. PICK row, write : row = rows'[x] /\ write = writes'[p][i]
  OBVIOUS
<1>2. x \in Cells /\ (~Threaded(i) => x = <<i, None>>)
  <2>1. thread'[p] \in Threads \cup {None} /\ x = <<i, IF Threaded(i) THEN thread'[p] ELSE None>>
    BY DEF Shape, Cell, Threaded
  <2>2. QED
    BY <2>1 DEF Cells
<1>3. row \in Seq(Values) /\ Len(row) <= 1
  BY <1>1, <1>2 DEF Shape
<1>4. Right(write, i, row)
  BY <1>1 DEF Exact, Right, Reseeded, ReseededTask, ReseededEntry
<1>5. Kind[i] \in {"agent", "profile"} \/ Flushed(i) => x = <<i, None>>
  BY <1>2, Unthreaded
<1>6. /\ Fits(p, i)' /\ Touches(p, i)'
      /\ Flushed(i) => HoldsKey(p, i)'
      /\ Kind[i] = "agent" => MakesAgent(p, i)'
      /\ Kind[i] = "profile" => MakesProfile(p, i)'
  <2>1. CASE row = << >>
    <3>1. write = "insert"
      BY <1>4, <2>1 DEF Right
    <3>2. QED
      BY <1>1, <1>5, <2>1, <3>1, Marks
         DEF Fits, Touches, HoldsKey, MakesAgent, MakesProfile, Flushed
  <2>2. CASE row # << >>
    <3>1. Len(row) = 1 /\ row[1] \in Values /\ row = <<row[1]>>
      BY <1>3, <2>2, OnlyRow
    <3>2. PICK v \in Values : row[1] = v /\ row = <<v>>
      BY <3>1
    <3>3. write = IF Reseeded(i, v) # v THEN v ELSE "none"
      BY <1>4, <2>2, <3>2 DEF Right
    <3>4. write # "insert"
      BY <3>3, Marks
    <3>5. /\ Fits(p, i)' /\ Touches(p, i)' /\ HoldsKey(p, i)'
          /\ Kind[i] = "profile" => MakesProfile(p, i)'
      BY <1>1, <1>5, <2>2, <3>1, <3>4 DEF Fits, Touches, HoldsKey, MakesProfile
    <3>6. ASSUME Kind[i] = "agent"  PROVE MakesAgent(p, i)'
      <4>1. Reseeded(i, v) = "seeded"
        BY <3>6 DEF Reseeded
      <4>2. QED
        BY <1>1, <1>5, <2>2, <3>2, <3>3, <3>4, <3>6, <4>1, Marks DEF MakesAgent
    <3>7. QED
      BY <3>5, <3>6
  <2>3. QED
    BY <2>1, <2>2
<1>7. QED
  BY <1>6 DEF ItemReady, Flushed

\* What a run has decided of another item stays as it is.
LEMMA PassedStaysReady ==
  ASSUME Shape, NEW p \in Procs, NEW j \in Passed(p), Ready(p),
         rows' = rows, crossed' = crossed, late'[p] = late[p], p \in alone' => p \in alone,
         writes'[p][j] = writes[p][j], key'[j] = key[j], thread'[p] = thread[p] \/ ~Threaded(j)
  PROVE  IF Kind[j] = "thread" THEN ThreadReady(p, j)' ELSE ItemReady(p, j)'
<1>1. Cell(p, j)' = Cell(p, j)
  BY DEF Cell, Threaded
<1>2. CASE Kind[j] = "thread"
  <2>1. thread'[p] = thread[p]
    BY <1>2 DEF Threaded
  <2>2. QED
    BY <1>2, <2>1 DEF Ready, ThreadReady
<1>3. CASE Kind[j] # "thread"
  <2>1. ItemReady(p, j)
    BY <1>3 DEF Ready
  <2>2. PICK x : x = Cell(p, j)
    OBVIOUS
  <2>3. QED
    BY <1>1, <1>3, <2>1, <2>2
       DEF ItemReady, Fits, Exact, Right, Touches, HoldsKey, MakesAgent, MakesProfile,
           Flushed, Reseeded, ReseededTask, ReseededEntry
<1>4. QED
  BY <1>2, <1>3

LooksUp(p) == LookUp(p) /\ Kind[Plan[pc[p]]] # "thread"

LEMMA LookUpIs ==
  ASSUME NEW p \in Procs, LookUp(p), ~Fail(p)
  PROVE  \E i, x, found, write :
            /\ i = Plan[pc[p]] /\ x = Cell(p, i) /\ found = rows[x] /\ Right(write, i, found)
            /\ pc[p] \in DOMAIN Plan /\ p \notin flushing
            /\ Len(found) <= 1 /\ writes' = [writes EXCEPT ![p][i] = write]
            /\ IF Flushed(i) /\ write = "insert"
               THEN flushing' = flushing \cup {p} /\ pc' = pc
               ELSE pc' = [pc EXCEPT ![p] = @ + 1] /\ flushing' = flushing
            /\ rows' = rows /\ key' = key /\ thread' = thread
            /\ alone' = alone /\ settled' = settled /\ quiet' = quiet /\ late' = late
            /\ crossed' = crossed
BY DEF LookUp, Found, Right, dbVars, history

LEMMA LookUpStep ==
  ASSUME IInv, NEW p \in Procs, LooksUp(p)
  PROVE  IInv'
<1>1. CASE Fail(p)
  BY <1>1, FailStep
<1>2. CASE ~Fail(p)
  <2>1. PICK i, x, found, write :
          /\ i = Plan[pc[p]] /\ x = Cell(p, i) /\ found = rows[x] /\ Right(write, i, found)
          /\ pc[p] \in DOMAIN Plan /\ p \notin flushing
          /\ Len(found) <= 1 /\ writes' = [writes EXCEPT ![p][i] = write]
          /\ IF Flushed(i) /\ write = "insert"
             THEN flushing' = flushing \cup {p} /\ pc' = pc
             ELSE pc' = [pc EXCEPT ![p] = @ + 1] /\ flushing' = flushing
          /\ rows' = rows /\ key' = key /\ thread' = thread
          /\ alone' = alone /\ settled' = settled /\ quiet' = quiet /\ late' = late
          /\ crossed' = crossed
    BY <1>2, LookUpIs DEF LooksUp
  <2>2. i \in Items /\ i \notin Passed(p) /\ found \in Seq(Values) /\ Kind[i] # "thread"
    BY <2>1, NotPassed, CellIs DEF IInv, LooksUp
  <2>3. write \in {"none", "insert", "gone"} \cup Values
    BY <2>1, <2>2, OneRow DEF Right
  <2>4. Shape'
    <3>1. pc'[p] \in 0..Len(Plan) + 1 /\ (p \in flushing' => pc'[p] \in DOMAIN Plan)
      BY <2>1, PlanIs DEF IInv, Shape
    <3>2. writes' \in [Procs -> [Items -> {"none", "insert", "gone"} \cup Values]]
      BY <2>1, <2>2, <2>3 DEF IInv, Shape
    <3>3. pc' \in [Procs -> 0..Len(Plan) + 1] /\ \A q \in Procs \ {p} : pc'[q] = pc[q]
      BY <2>1, <3>1 DEF IInv, Shape
    <3>4. QED
      BY <2>1, <3>1, <3>2, <3>3 DEF IInv, Shape, Cells
  <2>5. Tables'
    BY <2>1, TablesFrame DEF IInv
  <2>6. writes'[p] = [writes[p] EXCEPT ![i] = write]
    BY <2>1 DEF IInv, Shape
  <2>7. writes'[p][i] = write /\ \A j \in Items \ {i} : writes'[p][j] = writes[p][j]
    BY <2>2, <2>6 DEF IInv, Shape
  <2>8. \A j \in Passed(p) : IF Kind[j] = "thread" THEN ThreadReady(p, j)' ELSE ItemReady(p, j)'
    <3>1. TAKE j \in Passed(p)
    <3>2. writes'[p][j] = writes[p][j]
      BY <2>2, <2>7, PassedIs DEF IInv
    <3>3. QED
      BY <2>1, <3>2, PassedStaysReady DEF IInv
  <2>9. Unmissed(p)' /\ Ready(p)'
    <3>1. CASE Flushed(i) /\ write = "insert"
      <4>1. Passed(p)' = Passed(p) /\ pc'[p] = pc[p]
        BY <2>1, <3>1 DEF Passed
      <4>2. Unmissed(p)'
        BY <2>1, <2>7, <3>1, <4>1 DEF IInv, Unmissed, Flushed
      <4>3. QED
        BY <2>8, <4>1, <4>2 DEF Ready
    <3>2. CASE ~(Flushed(i) /\ write = "insert")
      <4>1. pc'[p] = pc[p] + 1 /\ flushing' = flushing
        BY <2>1, <3>2 DEF IInv, Shape
      <4>2. Passed(p)' = Passed(p) \cup {i}
        BY <2>1, <4>1, PassedNext, SMTT(30)
      <4>3. x = Cell(p, i)'
        BY <2>1 DEF Cell, Threaded
      <4>4. Exact(p, i)'
        BY <2>1, <2>7, <4>3 DEF Exact, Right, Reseeded, ReseededTask, ReseededEntry
      <4>5. ~Flushed(i) \/ rows'[x] # << >>
        BY <2>1, <3>2 DEF Right
      <4>6. Len(rows'[x]) <= 1
        BY <2>1
      <4>7. ItemReady(p, i)'
        BY <2>2, <2>4, <4>3, <4>4, <4>5, <4>6, Decided
      <4>8. Unmissed(p)'
        BY <2>1, <4>1, PlanIs DEF IInv, Unmissed, Flushed
      <4>9. QED
        BY <2>2, <2>8, <4>2, <4>7, <4>8 DEF Ready
    <3>3. QED
      BY <3>1, <3>2
  <2>10. ASSUME NEW q \in Procs, q # p  PROVE Unmissed(q)' /\ Ready(q)'
    <3>1. Unmissed(q) /\ Ready(q) /\ Shape
      BY DEF IInv
    <3>2. /\ pc'[q] = pc[q] /\ writes'[q] = writes[q] /\ thread'[q] = thread[q]
          /\ q \in flushing' => q \in flushing
      BY <2>1, <2>10, <3>1 DEF Shape
    <3>3. Minds(q)
      BY <2>1, <3>1, <3>2, NobodyMinds
    <3>4. QED
      BY <2>1, <2>4, <3>1, <3>2, <3>3, OthersReady DEF Unmissed
  <2>11. QED
    BY <2>4, <2>5, <2>9, <2>10 DEF IInv
<1>3. QED
  BY <1>1, <1>2

LEMMA FindThreadIs ==
  ASSUME NEW p \in Procs, EnsureDmThread(p)
  PROVE  \E i, w : \E c \in Threads :
            /\ i = Plan[pc[p]] /\ pc[p] \in DOMAIN Plan /\ Kind[i] = "thread"
            /\ w = IF Opened(i) # {} THEN "none" ELSE "insert"
            /\ Opened(i) # {} => c \in Opened(i)
            /\ thread' = [thread EXCEPT ![p] = c] /\ writes' = [writes EXCEPT ![p][i] = w]
            /\ pc' = [pc EXCEPT ![p] = @ + 1]
            /\ flushing' = flushing /\ rows' = rows /\ key' = key
            /\ alone' = alone /\ settled' = settled /\ quiet' = quiet /\ late' = late
            /\ crossed' = crossed
BY DEF EnsureDmThread, FindThread, At, dbVars, history

LEMMA FindThreadStep ==
  ASSUME IInv, NEW p \in Procs, EnsureDmThread(p)
  PROVE  IInv'
<1>1. PICK i, w : \E c \in Threads :
        /\ i = Plan[pc[p]] /\ pc[p] \in DOMAIN Plan /\ Kind[i] = "thread"
        /\ w = IF Opened(i) # {} THEN "none" ELSE "insert"
        /\ Opened(i) # {} => c \in Opened(i)
        /\ thread' = [thread EXCEPT ![p] = c] /\ writes' = [writes EXCEPT ![p][i] = w]
        /\ pc' = [pc EXCEPT ![p] = @ + 1]
        /\ flushing' = flushing /\ rows' = rows /\ key' = key
        /\ alone' = alone /\ settled' = settled /\ quiet' = quiet /\ late' = late
        /\ crossed' = crossed
  BY FindThreadIs
<1>2. PICK c \in Threads :
        /\ i = Plan[pc[p]] /\ pc[p] \in DOMAIN Plan /\ Kind[i] = "thread"
        /\ w = IF Opened(i) # {} THEN "none" ELSE "insert"
        /\ Opened(i) # {} => c \in Opened(i)
        /\ thread' = [thread EXCEPT ![p] = c] /\ writes' = [writes EXCEPT ![p][i] = w]
        /\ pc' = [pc EXCEPT ![p] = @ + 1]
        /\ flushing' = flushing /\ rows' = rows /\ key' = key
        /\ alone' = alone /\ settled' = settled /\ quiet' = quiet /\ late' = late
        /\ crossed' = crossed
  BY <1>1
<1>3. i \in Items /\ i \notin Passed(p) /\ Shape /\ p \notin flushing
  BY <1>2, NotPassed DEF IInv, Unmissed, Flushed
<1>4. /\ thread'[p] = c /\ writes'[p][i] = w /\ pc'[p] = pc[p] + 1
      /\ \A j \in Items \ {i} : writes'[p][j] = writes[p][j]
  BY <1>2, <1>3 DEF Shape
<1>5. Shape'
  <2>1. pc'[p] \in 0..Len(Plan) + 1
    BY <1>2, <1>4, PlanIs
  <2>2. writes' \in [Procs -> [Items -> {"none", "insert", "gone"} \cup Values]]
    BY <1>2, <1>3 DEF Shape
  <2>3. pc' \in [Procs -> 0..Len(Plan) + 1]
    BY <1>2, <1>3, <1>4, <2>1 DEF Shape
  <2>4. \A q \in flushing : pc'[q] = pc[q]
    BY <1>2, <1>3 DEF Shape
  <2>5. QED
    BY <1>2, <1>3, <2>2, <2>3, <2>4 DEF Shape, Cells
<1>6. Tables'
  BY <1>2, TablesFrame DEF IInv
<1>7. Passed(p)' = Passed(p) \cup {i}
  BY <1>2, <1>4, PassedNext, SMTT(30)
<1>8. ThreadReady(p, i)'
  <2>1. w = "none" => rows[<<i, c>>] # << >>
    BY <1>2 DEF Opened
  <2>2. w = "insert" => \A d \in Threads : rows[<<i, d>>] = << >>
    BY <1>2 DEF Opened
  <2>3. w \in {"none", "insert"}
    BY <1>2
  <2>4. QED
    BY <1>2, <1>4, <2>1, <2>2, <2>3 DEF ThreadReady
<1>9. ASSUME NEW j \in Passed(p)
      PROVE  IF Kind[j] = "thread" THEN ThreadReady(p, j)' ELSE ItemReady(p, j)'
  <2>1. ~Threaded(j)
    BY <1>2, <1>3, NoThreadYet
  <2>2. writes'[p][j] = writes[p][j]
    BY <1>3, <1>4, PassedIs
  <2>3. QED
    BY <1>2, <1>3, <2>1, <2>2, PassedStaysReady DEF IInv
<1>10. Ready(p)'
  BY <1>2, <1>7, <1>8, <1>9 DEF Ready
<1>11. Unmissed(p)'
  BY <1>2, <1>3, <1>4, PlanIs DEF IInv, Unmissed, Flushed
<1>12. ASSUME NEW q \in Procs, q # p  PROVE Unmissed(q)' /\ Ready(q)'
  <2>1. Unmissed(q) /\ Ready(q)
    BY DEF IInv
  <2>2. pc'[q] = pc[q] /\ writes'[q] = writes[q] /\ thread'[q] = thread[q]
    BY <1>2, <1>3, <1>12 DEF Shape
  <2>3. Minds(q)
    BY <1>2, <1>3, <2>2, NobodyMinds
  <2>4. QED
    BY <1>2, <1>3, <1>5, <2>1, <2>2, <2>3, OthersReady DEF Unmissed
<1>13. QED
  BY <1>5, <1>6, <1>10, <1>11, <1>12 DEF IInv

LEMMA FlushStep ==
  ASSUME IInv, NEW p \in Procs, Flush(p)
  PROVE  IInv'
<1>0. PICK i, x : i = Plan[pc[p]] /\ x = <<i, None>>
  OBVIOUS
<1>1. CASE rows[x] # << >>
  BY <1>0, <1>1, FailStep DEF Flush
<1>2. CASE rows[x] = << >>
  <2>1. /\ p \in flushing /\ key[i] = None /\ key' = [key EXCEPT ![i] = p]
        /\ pc' = [pc EXCEPT ![p] = @ + 1] /\ flushing' = flushing \ {p}
        /\ rows' = rows /\ writes' = writes /\ thread' = thread
        /\ alone' = alone /\ settled' = settled /\ quiet' = quiet /\ late' = late /\ crossed' = crossed
    BY <1>0, <1>2 DEF Flush, history
  <2>2. pc[p] \in DOMAIN Plan /\ Shape /\ writes[p][i] = "insert" /\ Flushed(i)
    BY <1>0, <2>1 DEF IInv, Shape, Unmissed
  <2>3. i \in Items /\ i \notin Passed(p)
    BY <1>0, <2>2, NotPassed
  <2>4. /\ pc'[p] = pc[p] + 1 /\ key'[i] = p
        /\ \A j \in Items \ {i} : key'[j] = key[j]
        /\ \A q \in Procs \ {p} : pc'[q] = pc[q]
    BY <2>1, <2>2, <2>3 DEF Shape
  <2>5. Shape'
    <3>1. pc'[p] \in 0..Len(Plan) + 1
      BY <2>2, <2>4, PlanIs
    <3>2. pc' \in [Procs -> 0..Len(Plan) + 1] /\ key' \in [Items -> Procs \cup {None}]
      BY <2>1, <2>2, <2>3, <2>4, <3>1 DEF Shape
    <3>3. QED
      BY <2>1, <2>2, <2>4, <3>2 DEF Shape, Cells
  <2>6. Tables'
    BY <2>1, TablesFrame DEF IInv
  <2>7. Passed(p)' = Passed(p) \cup {i}
    BY <1>0, <2>2, <2>4, PassedNext
  <2>8. Ready(p)'
    <3>1. ItemReady(p, i)'
      <4>1. x = Cell(p, i)'
        BY <1>0, <2>3, <2>2, Unthreaded DEF Cell, Threaded
      <4>2. Len(rows'[x]) <= 1 /\ rows'[x] = << >>
        BY <1>2, <2>1, NoRow
      <4>3. QED
        BY <1>0, <2>1, <2>2, <2>4, <4>1, <4>2, Marks
           DEF ItemReady, Fits, Exact, Right, Touches, HoldsKey, MakesAgent, MakesProfile
    <3>2. ASSUME NEW j \in Passed(p)
          PROVE  IF Kind[j] = "thread" THEN ThreadReady(p, j)' ELSE ItemReady(p, j)'
      <4>1. writes'[p][j] = writes[p][j] /\ key'[j] = key[j]
        BY <2>1, <2>2, <2>3, <2>4, PassedIs
      <4>2. QED
        BY <2>1, <2>2, <4>1, PassedStaysReady DEF IInv
    <3>3. Kind[i] # "thread"
      BY <2>2 DEF Flushed
    <3>4. QED
      BY <2>7, <3>1, <3>2, <3>3 DEF Ready
  <2>9. Unmissed(p)'
    BY <2>1, <2>2, <2>4, PlanIs DEF IInv, Unmissed, Flushed
  <2>10. ASSUME NEW q \in Procs, q # p  PROVE Unmissed(q)' /\ Ready(q)'
    <3>1. \A j \in Items : key[j] = q => key'[j] = q
      BY <2>1, <2>4, NoneAssumption
    <3>2. Unmissed(q) /\ Ready(q)
      BY DEF IInv
    <3>3. Minds(q)
      BY <2>1, <2>2, <3>1, NobodyMinds
    <3>4. pc'[q] = pc[q] /\ thread'[q] = thread[q]
      BY <2>1, <2>4, <2>10
    <3>5. QED
      BY <2>1, <2>2, <2>5, <3>2, <3>3, <3>4, OthersReady DEF Unmissed
  <2>11. QED
    BY <2>5, <2>6, <2>8, <2>9, <2>10 DEF IInv
<1>3. QED
  BY <1>1, <1>2

-----------------------------------------------------------------------------
(***************************************************************************)
(* The commit.                                                             *)
(***************************************************************************)
LEMMA Inserted ==
  ASSUME NEW s \in Seq(Values), NEW t, t = Append(s, "seeded")
  PROVE  /\ t \in Seq(Values) /\ Len(t) = Len(s) + 1
         /\ t # << >> /\ (s = << >> => t = <<"seeded">>)
<1>1. "seeded" \in Values
  BY Marks
<1>2. t \in Seq(Values) /\ Len(t) = Len(s) + 1
  BY <1>1
<1>3. t # << >>
  BY <1>1
<1>4. Append(<< >>, "seeded") = <<"seeded">>
  OBVIOUS
<1>5. QED
  BY <1>2, <1>3, <1>4

LEMMA Rewritten ==
  ASSUME NEW s \in Seq(Values), s # << >>, NEW x \in Values, NEW t, t = [s EXCEPT ![1] = x]
  PROVE  /\ t \in Seq(Values) /\ Len(t) = Len(s) /\ t # << >>
         /\ Len(s) = 1 => t = <<x>>
OBVIOUS

LEMMA CommitIs ==
  ASSUME NEW p \in Procs, Commit(p), ~Fail(p)
  PROVE  /\ pc[p] = Len(Plan) + 1 /\ pc' = [pc EXCEPT ![p] = 0]
         /\ flushing' = flushing \ {p} /\ writes' = [writes EXCEPT ![p] = Nothing]
         /\ thread' = [thread EXCEPT ![p] = None]
         /\ key' = Released(p) /\ settled' = (p \in alone) /\ alone' = {} /\ quiet' = {}
         /\ late' = [q \in Procs |-> IF q = p \/ pc[q] = 0 THEN {}
                       ELSE late[q] \cup {Cell(p, i) : i \in {j \in Items : writes[p][j] = "insert"}}]
         /\ rows' = [x \in Cells |-> IF x = Cell(p, x[1]) THEN Stored(x, writes[p][x[1]]) ELSE rows[x]]
         /\ \A i \in Items : /\ writes[p][i] # "gone"
                             /\ writes[p][i] = "insert" /\ Keyed(i) => rows[<<i, None>>] = << >>
         /\ crossed' = crossed
BY DEF Commit, End

\* What a commit makes of the rows of a cell, by what was to be written.
CommitRow(x, write) ==
    /\ write = "insert" =>
          /\ Len(rows'[x]) = Len(rows[x]) + 1 /\ rows'[x] # << >>
          /\ rows[x] = << >> => rows'[x] = <<"seeded">>
          /\ Keyed(x[1]) => rows[x] = << >>
    /\ write # "insert" =>
          /\ Len(rows'[x]) = Len(rows[x])
          /\ rows[x] = << >> <=> rows'[x] = << >>
    /\ write = "none" => rows'[x] = rows[x]
    /\ \A v \in Values :
          write = v => /\ rows[x] # << >>
                       /\ rows[x] = <<v>> => rows'[x] = <<Reseeded(x[1], v)>>
                       /\ Len(rows[x]) = 1 /\ rows[x] # <<v>> => rows'[x] = rows[x]

LEMMA CommitRows ==
  ASSUME IInv, NEW p \in Procs, Commit(p), ~Fail(p), NEW i \in Items
  PROVE  /\ rows'[Cell(p, i)] \in Seq(Values) /\ CommitRow(Cell(p, i), writes[p][i])
         /\ writes[p][i] \in {"none", "insert"} \cup Values
<1>1. PICK x, s, write : x = Cell(p, i) /\ s = rows[x] /\ write = writes[p][i]
  OBVIOUS
<1>2. /\ x \in Cells /\ x[1] = i /\ s \in Seq(Values)
      /\ write \in {"none", "insert", "gone"} \cup Values
      /\ ~Threaded(i) => x = <<i, None>>
  BY <1>1, CellIs DEF IInv
<1>3. write # "gone" /\ (write = "insert" /\ Keyed(i) => s = << >>)
  BY <1>1, <1>2, CommitIs, Unthreaded
<1>4. rows'[x] = Stored(x, write)
  BY <1>1, <1>2, CommitIs
<1>5. write \in {"none", "insert"} \cup Values
  BY <1>2, <1>3
<1>6. write \in Values => s # << >>
  <2>1. i \in Passed(p)
    BY CommitIs, PassedIs DEF IInv
  <2>2. CASE Kind[i] = "thread"
    BY <1>1, <2>1, <2>2, Marks DEF IInv, Ready, ThreadReady
  <2>3. CASE Kind[i] # "thread"
    BY <1>1, <2>1, <2>3 DEF IInv, Ready, ItemReady, Touches
  <2>4. QED
    BY <2>2, <2>3
<1>7. rows'[x] \in Seq(Values) /\ CommitRow(x, write)
  <2>1. CASE write = "insert"
    <3>1. PICK t : t = rows'[x] /\ t = Append(s, "seeded")
      BY <1>1, <1>4, <2>1 DEF Stored
    <3>2. t \in Seq(Values) /\ Len(t) = Len(s) + 1 /\ t # << >> /\ (s = << >> => t = <<"seeded">>)
      BY <1>2, <3>1, Inserted
    <3>3. QED
      BY <1>1, <1>2, <1>3, <2>1, <3>1, <3>2, Marks DEF CommitRow
  <2>2. CASE write = "none"
    <3>1. rows'[x] = s
      BY <1>1, <1>4, <2>2 DEF Stored
    <3>2. QED
      BY <1>1, <1>2, <2>2, <3>1, Marks DEF CommitRow
  <2>3. CASE write \in Values
    <3>1. write # "insert" /\ write # "none"
      BY <2>3, Marks
    <3>2. PICK y : y = IF s[1] = write THEN Reseeded(i, s[1]) ELSE s[1]
      OBVIOUS
    <3>3. s # << >> /\ s[1] \in Values
      BY <1>2, <1>6, <2>3, OneRow
    <3>4. y \in Values
      BY <3>2, <3>3, ReseedTwice
    <3>5. rows'[x] = [s EXCEPT ![1] = y]
      BY <1>1, <1>2, <1>4, <3>1, <3>2 DEF Stored
    <3>6. PICK t : t = rows'[x] /\ t = [s EXCEPT ![1] = y]
      BY <3>5
    <3>7. t \in Seq(Values) /\ Len(t) = Len(s) /\ t # << >> /\ (Len(s) = 1 => t = <<y>>)
      BY <1>2, <3>3, <3>4, <3>6, Rewritten
    <3>8. s = <<write>> => t = <<Reseeded(i, write)>>
      BY <3>2, <3>7
    <3>9. ASSUME Len(s) = 1, s # <<write>>  PROVE t = s
      <4>1. s = <<s[1]>>
        BY <1>2, <3>9, OneRow
      <4>2. s[1] # write
        BY <3>9, <4>1
      <4>3. QED
        BY <3>2, <3>7, <3>9, <4>1, <4>2
    <3>10. QED
      BY <1>1, <1>2, <3>1, <3>3, <3>6, <3>7, <3>8, <3>9 DEF CommitRow
  <2>4. write = "insert" \/ write = "none" \/ write \in Values
    BY <1>5
  <2>5. QED
    BY <2>1, <2>2, <2>3, <2>4
<1>8. QED
  BY <1>1, <1>5, <1>7

\* The rows of other cells are left alone.
LEMMA CommitElsewhere ==
  ASSUME NEW p \in Procs, Commit(p), ~Fail(p), NEW x \in Cells, x # Cell(p, x[1])
  PROVE  rows'[x] = rows[x]
BY CommitIs

\* What a run alone leaves is what it would leave again.
LEMMA AloneSeeds ==
  ASSUME IInv, NEW p \in Procs, Commit(p), ~Fail(p), p \in alone
  PROVE  AllSeeded'
<1>1. PICK c : c = thread[p]
  OBVIOUS
<1>2. Passed(p) = Items /\ late[p] = {} /\ Ready(p) /\ Shape /\ c \in Threads \cup {None}
  BY <1>1, CommitIs, PassedIs DEF IInv, Unmissed, Shape
<1>3. (\E i \in Items : Kind[i] = "thread") => c \in Threads
  BY <1>1, <1>2 DEF Ready, ThreadReady
<1>4. ASSUME NEW i \in Items
      PROVE  Settled(i, rows'[<<i, IF Threaded(i) THEN c ELSE None>>])
  <2>1. PICK x : x = <<i, IF Threaded(i) THEN c ELSE None>> /\ x = Cell(p, i)
    BY <1>1 DEF Cell
  <2>2. CommitRow(x, writes[p][i]) /\ rows[x] \in Seq(Values) /\ x[1] = i
    BY <1>2, <2>1, CommitRows, CellIs
  <2>3. CASE Kind[i] = "thread"
    <3>1. ThreadReady(p, i) /\ x = <<i, thread[p]>>
      BY <1>1, <1>2, <2>1, <2>3 DEF Ready, Threaded
    <3>2. rows'[x] # << >>
      BY <2>2, <3>1 DEF ThreadReady, CommitRow
    <3>3. QED
      BY <2>1, <2>3, <3>2 DEF Settled
  <2>4. CASE Kind[i] # "thread"
    <3>1. Fits(p, i) /\ Right(writes[p][i], i, rows[x])
      BY <1>2, <2>1, <2>4 DEF Ready, ItemReady, Exact
    <3>2. CASE rows[x] = << >>
      <4>1. rows'[x] = <<"seeded">>
        BY <2>2, <3>1, <3>2 DEF Right, CommitRow
      <4>2. Reseeded(i, "seeded") = "seeded"
        BY ReseedTwice, Marks
      <4>3. Settled(i, <<"seeded">>)
        BY <4>2, Marks, OneValue DEF Settled
      <4>4. QED
        BY <2>1, <4>1, <4>3
    <3>3. CASE rows[x] # << >>
      <4>1. writes[p][i] # "insert"
        BY <2>1, <3>3, <3>1 DEF Fits
      <4>2. Len(rows[x]) = 1
        BY <2>1, <3>1, <4>1 DEF Fits
      <4>3. PICK v \in Values : rows[x] = <<v>> /\ rows[x][1] = v
        BY <2>2, <4>2, OneRow
      <4>4. writes[p][i] = IF Reseeded(i, v) # v THEN v ELSE "none"
        BY <3>1, <3>3, <4>3 DEF Right
      <4>5. rows'[x] = <<Reseeded(i, v)>>
        BY <2>2, <4>3, <4>4 DEF CommitRow
      <4>6. PICK y : y = Reseeded(i, v)
        OBVIOUS
      <4>7. Reseeded(i, y) = y
        BY <4>6, ReseedTwice
      <4>8. rows'[x] = <<y>>
        BY <4>5, <4>6
      <4>9. Settled(i, <<y>>)
        BY <4>6, <4>7, ReseedTwice, OneValue DEF Settled
      <4>10. QED
        BY <2>1, <4>8, <4>9
    <3>4. QED
      BY <3>2, <3>3
  <2>5. QED
    BY <2>3, <2>4
<1>5. SettledIn(c)'
  BY <1>3, <1>4 DEF SettledIn, Settled, Threaded, Reseeded, ReseededTask, ReseededEntry
<1>6. QED
  BY <1>2, <1>5 DEF AllSeeded

\* The commit of another run is minded.
LEMMA CommitMinded ==
  ASSUME IInv, NEW p \in Procs, Commit(p), ~Fail(p), NEW q \in Procs, q # p, pc[q] # 0
  PROVE  Minds(q)
<1>1. /\ writes'[q] = writes[q] /\ key' = Released(p) /\ alone' = {} /\ crossed' = crossed
      /\ late'[q] = late[q] \cup {Cell(p, i) : i \in {j \in Items : writes[p][j] = "insert"}}
  BY CommitIs DEF IInv, Shape
<1>2. ASSUME NEW x \in Cells
      PROVE  \/ rows'[x] = rows[x]
             \/ x[1] \in Items /\ x = Cell(p, x[1]) /\ CommitRow(x, writes[p][x[1]])
  <2>1. x[1] \in Items
    BY DEF Cells
  <2>2. CASE x = Cell(p, x[1])
    BY <2>1, <2>2, CommitRows
  <2>3. QED
    BY <2>1, <2>2, CommitElsewhere
<1>3. ASSUME NEW x \in Cells  PROVE x \in late'[q] \/ Len(rows'[x]) = Len(rows[x])
  BY <1>1, <1>2 DEF CommitRow
<1>4. ASSUME NEW i \in Items, Flushed(i)
      PROVE  writes[p][i] = "insert" => key[i] = p /\ rows[<<i, None>>] = << >>
  <2>1. i \in Passed(p) /\ Kind[i] # "thread"
    BY <1>4, CommitIs, PassedIs DEF IInv, Flushed
  <2>2. QED
    BY <1>4, <2>1 DEF IInv, Ready, ItemReady, HoldsKey
<1>5. ASSUME NEW i \in Items
      PROVE  <<i, None>> \in Cells /\ <<i, None>>[1] = i
  BY DEF Cells
<1>6. ASSUME NEW i \in Items, Flushed(i), key[i] = q
      PROVE  key'[i] = q /\ (rows[<<i, None>>] = << >> => rows'[<<i, None>>] = << >>)
  <2>1. key'[i] = q
    BY <1>1, <1>6 DEF Released
  <2>2. writes[p][i] # "insert"
    BY <1>4, <1>6
  <2>3. PICK x \in Cells : x = <<i, None>> /\ x[1] = i
    BY <1>5
  <2>4. rows[x] = << >> => rows'[x] = << >>
    BY <1>2, <2>2, <2>3 DEF CommitRow
  <2>5. QED
    BY <2>1, <2>3, <2>4
<1>7. ASSUME NEW x \in Cells, rows[x] # << >>  PROVE rows'[x] # << >>
  BY <1>2, <1>7 DEF CommitRow
<1>8. ASSUME NEW i \in Items, Kind[i] = "agent", rows'[<<i, None>>] # rows[<<i, None>>],
             rows[<<i, None>>] # << >>
      PROVE  rows'[<<i, None>>] = <<"seeded">>
  <2>1. writes[p][i] # "insert"
    BY <1>4, <1>8 DEF Flushed
  <2>2. PICK x \in Cells : x = <<i, None>> /\ x[1] = i
    BY <1>5
  <2>3. CommitRow(x, writes[p][i])
    BY <1>2, <1>8, <2>2
  <2>4. rows[x] \in Seq(Values) /\ Len(rows[x]) <= 1
    BY <1>8, <2>2 DEF IInv, Shape, Tables, Keyed, Flushed
  <2>5. Len(rows[x]) = 1
    BY <1>8, <2>2, <2>4, OnlyRow
  <2>6. writes[p][i] \in {"none", "insert"} \cup Values
    BY CommitRows
  <2>7. writes[p][i] # "none"
    BY <1>8, <2>2, <2>3 DEF CommitRow
  <2>8. PICK v \in Values : writes[p][i] = v
    BY <2>1, <2>6, <2>7
  <2>9. rows'[x] = <<Reseeded(i, v)>>
    BY <1>8, <2>2, <2>3, <2>5, <2>8 DEF CommitRow
  <2>10. QED
    BY <1>8, <2>2, <2>9 DEF Reseeded
<1>9. ASSUME NEW i \in Items, rows[<<i, None>>] # << >>  PROVE rows'[<<i, None>>] # << >>
  BY <1>5, <1>7, <1>9
<1>10. ASSUME NEW i \in Items, rows[Cell(q, i)] # << >>  PROVE rows'[Cell(q, i)] # << >>
  <2>1. Cell(q, i) \in Cells
    BY CellIs DEF IInv
  <2>2. QED
    BY <1>7, <1>10, <2>1
<1>11. late[q] \subseteq late'[q] /\ (~crossed' => ~crossed) /\ q \notin alone'
  BY <1>1
<1>12. QED
  BY <1>1, <1>3, <1>6, <1>7, <1>8, <1>9, <1>10, <1>11 DEF Minds

LEMMA CommitStep ==
  ASSUME IInv, NEW p \in Procs, Commit(p)
  PROVE  IInv'
<1>1. CASE Fail(p)
  BY <1>1, FailStep
<1>2. CASE ~Fail(p)
  <2>1. /\ pc[p] = Len(Plan) + 1 /\ pc' = [pc EXCEPT ![p] = 0]
        /\ flushing' = flushing \ {p} /\ writes' = [writes EXCEPT ![p] = Nothing]
        /\ thread' = [thread EXCEPT ![p] = None]
        /\ key' = Released(p) /\ settled' = (p \in alone) /\ alone' = {} /\ quiet' = {}
        /\ crossed' = crossed
    BY <1>2, CommitIs
  <2>2. /\ rows' = [x \in Cells |-> IF x = Cell(p, x[1]) THEN Stored(x, writes[p][x[1]]) ELSE rows[x]]
        /\ late' = [q \in Procs |-> IF q = p \/ pc[q] = 0 THEN {}
                      ELSE late[q] \cup {Cell(p, i) : i \in {j \in Items : writes[p][j] = "insert"}}]
    BY <1>2, CommitIs
  <2>3. ASSUME NEW x \in Cells
        PROVE  /\ rows'[x] \in Seq(Values)
               /\ Keyed(x[1]) => Len(rows'[x]) <= 1
    <3>1. CASE x # Cell(p, x[1])
      <4>1. rows'[x] = rows[x]
        BY <1>2, <3>1, CommitElsewhere
      <4>2. QED
        BY <4>1 DEF IInv, Shape, Tables
    <3>2. CASE x = Cell(p, x[1])
      <4>1. PICK i \in Items : i = x[1]
        BY DEF Cells
      <4>2. PICK w : w = writes[p][i]
        OBVIOUS
      <4>3. rows'[x] \in Seq(Values) /\ CommitRow(x, w) /\ rows[x] \in Seq(Values)
        BY <1>2, <3>2, <4>1, <4>2, CommitRows DEF IInv, Shape
      <4>4. ASSUME Keyed(i)  PROVE Len(rows'[x]) <= 1
        <5>1. Len(rows[x]) <= 1
          BY <4>1, <4>4 DEF IInv, Tables
        <5>2. CASE w = "insert"
          <6>1. rows'[x] = <<"seeded">>
            BY <4>1, <4>3, <4>4, <5>2 DEF CommitRow
          <6>2. QED
            BY <6>1, Marks, OneValue
        <5>3. CASE w # "insert"
          <6>1. Len(rows'[x]) = Len(rows[x])
            BY <4>3, <5>3 DEF CommitRow
          <6>2. QED
            BY <5>1, <6>1
        <5>4. QED
          BY <5>2, <5>3
      <4>5. QED
        BY <4>1, <4>3, <4>4
    <3>3. QED
      BY <3>1, <3>2
  <2>4. rows' \in [Cells -> Seq(Values)]
    BY <2>2, <2>3
  <2>5. late' \in [Procs -> SUBSET Cells]
    <3>1. \A i \in Items : Cell(p, i) \in Cells
      BY CellIs DEF IInv
    <3>2. QED
      BY <2>2, <3>1 DEF IInv, Shape
  <2>6. Shape'
    <3>1. pc' \in [Procs -> 0..Len(Plan) + 1] /\ \A q \in flushing' : pc'[q] = pc[q]
      BY <2>1, PlanIs DEF IInv, Shape
    <3>2. key' \in [Items -> Procs \cup {None}] /\ thread' \in [Procs -> Threads \cup {None}]
      BY <2>1 DEF IInv, Shape, Released
    <3>3. writes' \in [Procs -> [Items -> {"none", "insert", "gone"} \cup Values]]
      BY <2>1 DEF IInv, Shape, Nothing
    <3>4. QED
      BY <2>1, <2>4, <2>5, <3>1, <3>2, <3>3 DEF IInv, Shape, Cells
  <2>7. Tables'
    <3>1. settled' => AllSeeded'
      BY <1>2, <2>1, AloneSeeds
    <3>2. QED
      BY <2>1, <2>3, <3>1 DEF Tables, Keyed, Flushed, Cells
  <2>8. Unmissed(p)' /\ Ready(p)'
    BY <2>1, <2>2, NothingYet DEF IInv, Shape
  <2>9. ASSUME NEW q \in Procs, q # p  PROVE Unmissed(q)' /\ Ready(q)'
    <3>1. pc'[q] = pc[q] /\ thread'[q] = thread[q] /\ (q \in flushing' => q \in flushing)
      BY <2>1, <2>9 DEF IInv, Shape
    <3>2. pc[q] # 0 => Minds(q)
      BY <1>2, <2>9, CommitMinded
    <3>3. Unmissed(q) /\ Ready(q) /\ Shape
      BY DEF IInv
    <3>4. pc[q] = 0 => late'[q] = {} /\ q \notin alone'
      BY <2>1, <2>2
    <3>5. QED
      BY <2>6, <3>1, <3>2, <3>3, <3>4, OthersReady
  <2>10. QED
    BY <2>6, <2>7, <2>8, <2>9 DEF IInv
<1>3. QED
  BY <1>1, <1>2

-----------------------------------------------------------------------------
(***************************************************************************)
(* The live system.                                                        *)
(***************************************************************************)

\* What it may do to the rows: a cell whose first row is lost is one that
\* loses a row, and among them are all that are left without.
LiveRows(new, lost) ==
    /\ new \in [Cells -> Seq(Values)]
    /\ \A x \in Cells : Keyed(x[1]) => Len(new[x]) <= 1
    /\ \A i \in Items : Flushed(i) /\ key[i] # None /\ rows[<<i, None>>] = << >>
                        => new[<<i, None>>] = << >>
    /\ \A x \in Cells : Kind[x[1]] \in {"agent", "thread"} /\ rows[x] # << >> => new[x] # << >>
    /\ \A x \in Cells : rows[x] # << >> /\ new[x] = << >> => x \in lost
    /\ \A x \in lost : rows[x] # << >> => Len(new[x]) # Len(rows[x])

\* What happens to an agent and its profile beside a run is remembered.
LiveRoles(new) ==
    Running # {} /\ ~crossed' =>
        /\ ~crossed
        /\ \A i \in Items : /\ Kind[i] = "agent" /\ rows[<<i, None>>] # << >>
                               => new[<<i, None>>] = rows[<<i, None>>]
                            /\ Kind[i] = "profile" => new[<<i, None>>] = rows[<<i, None>>]

LEMMA LiveStep ==
  ASSUME IInv, NEW new, NEW lost, Live(new, lost), crossed' \in BOOLEAN,
         LiveRows(new, lost), LiveRoles(new)
  PROVE  IInv'
<1>1. /\ rows' = new /\ settled' = FALSE /\ alone' = {} /\ quiet' = {}
      /\ writes' = [p \in Procs |-> [i \in Items |->
                      IF writes[p][i] \in Values /\ Cell(p, i) \in lost THEN "gone"
                      ELSE writes[p][i]]]
      /\ late' = [p \in Procs |->
                    IF pc[p] = 0 THEN {}
                    ELSE late[p] \cup {x \in Cells : Len(new[x]) # Len(rows[x])}]
      /\ key' = key /\ pc' = pc /\ flushing' = flushing /\ thread' = thread
  BY DEF Live
<1>2. Shape /\ new \in [Cells -> Seq(Values)]
  BY DEF IInv, LiveRows
<1>3. Shape'
  <2>1. writes' \in [Procs -> [Items -> {"none", "insert", "gone"} \cup Values]]
    BY <1>1, <1>2 DEF Shape
  <2>2. late' \in [Procs -> SUBSET Cells]
    BY <1>1, <1>2 DEF Shape
  <2>3. QED
    BY <1>1, <1>2, <2>1, <2>2 DEF Shape, Cells
<1>4. Tables'
  BY <1>1 DEF Tables, Keyed, Flushed, LiveRows, Cells
<1>5. ASSUME NEW q \in Procs  PROVE Unmissed(q)' /\ Ready(q)'
  <2>1. Unmissed(q) /\ Ready(q)
    BY DEF IInv
  <2>2. ASSUME pc[q] # 0  PROVE Minds(q)
    <3>1. late'[q] = late[q] \cup {x \in Cells : Len(new[x]) # Len(rows[x])}
      BY <1>1, <2>2
    <3>2. Running # {}
      BY <2>2 DEF Running
    <3>3. \A x \in Cells : x \in late'[q] \/ Len(rows'[x]) = Len(rows[x])
      BY <1>1, <3>1
    <3>4. \A i \in Items : Flushed(i) /\ key[i] = q =>
             key'[i] = q /\ (rows[<<i, None>>] = << >> => rows'[<<i, None>>] = << >>)
      BY <1>1, NoneAssumption DEF LiveRows
    <3>5. ASSUME NEW i \in Items
          PROVE  /\ \/ writes'[q][i] = writes[q][i]
                    \/ /\ writes[q][i] \in Values /\ writes'[q][i] = "gone"
                       /\ i \in Passed(q) => Cell(q, i) \in late'[q]
                 /\ writes'[q][i] \in Values /\ rows[Cell(q, i)] # << >> => rows'[Cell(q, i)] # << >>
      <4>1. PICK x \in Cells : x = Cell(q, i)
        BY <1>2, CellIs
      <4>2. writes'[q][i] = IF writes[q][i] \in Values /\ x \in lost THEN "gone" ELSE writes[q][i]
        BY <1>1, <4>1
      <4>3. ASSUME i \in Passed(q), writes[q][i] \in Values, x \in lost  PROVE x \in late'[q]
        <5>1. rows[x] # << >>
          <6>1. CASE Kind[i] = "thread"
            BY <2>1, <4>3, <6>1, Marks DEF Ready, ThreadReady
          <6>2. CASE Kind[i] # "thread"
            BY <2>1, <4>1, <4>3, <6>2 DEF Ready, ItemReady, Touches
          <6>3. QED
            BY <6>1, <6>2
        <5>2. QED
          BY <3>1, <4>3, <5>1 DEF LiveRows
      <4>4. writes'[q][i] \in Values /\ rows[x] # << >> => rows'[x] # << >>
        BY <1>1, <4>2, Marks DEF LiveRows
      <4>5. QED
        BY <4>1, <4>2, <4>3, <4>4
    <3>6. \A x \in Cells : Kind[x[1]] \in {"agent", "thread"} /\ rows[x] # << >> => rows'[x] # << >>
      BY <1>1 DEF LiveRows
    <3>7. ~crossed' =>
          /\ ~crossed
          /\ \A i \in Items : /\ Kind[i] = "agent" /\ rows[<<i, None>>] # << >>
                                 => rows'[<<i, None>>] = rows[<<i, None>>]
                              /\ Kind[i] = "profile" => rows'[<<i, None>>] = rows[<<i, None>>]
      BY <1>1, <3>2 DEF LiveRoles
    <3>8. late[q] \subseteq late'[q] /\ q \notin alone'
      BY <1>1, <3>1
    <3>9. QED
      BY <3>3, <3>4, <3>5, <3>6, <3>7, <3>8 DEF Minds
  <2>3. QED
    BY <1>1, <1>2, <1>3, <2>1, <2>2, OthersReady
<1>6. QED
  BY <1>3, <1>4, <1>5 DEF IInv

\* The rows of one cell become others.
MayBecome(x, row, lost) ==
    /\ row \in Seq(Values)
    /\ Keyed(x[1]) => Len(row) <= 1
    /\ Flushed(x[1]) /\ key[x[1]] # None /\ rows[x] = << >> => row = << >>
    /\ Kind[x[1]] \in {"agent", "thread"} /\ rows[x] # << >> => row # << >>
    /\ rows[x] # << >> /\ row = << >> => x \in lost
    /\ \A y \in lost : y = x /\ Len(row) # Len(rows[x])

Becomes(new, x, row) ==
    new = [rows EXCEPT ![x] = row] /\ \A y \in Cells : new[y] = IF y = x THEN row ELSE rows[y]

LEMMA OneCell ==
  ASSUME Shape, Tables, NEW x \in Cells, NEW row, NEW new, NEW lost,
         new = [rows EXCEPT ![x] = row], MayBecome(x, row, lost)
  PROVE  LiveRows(new, lost) /\ Becomes(new, x, row)
<1>1. new \in [Cells -> Seq(Values)] /\ \A y \in Cells : new[y] = IF y = x THEN row ELSE rows[y]
  BY DEF Shape, MayBecome
<1>2. \A y \in Cells : Keyed(y[1]) => Len(new[y]) <= 1
  BY <1>1 DEF Tables, MayBecome
<1>3. ASSUME NEW i \in Items, Flushed(i), key[i] # None, rows[<<i, None>>] = << >>
      PROVE  new[<<i, None>>] = << >>
  <2>1. <<i, None>> \in Cells /\ <<i, None>>[1] = i
    BY DEF Cells
  <2>2. QED
    BY <1>1, <1>3, <2>1 DEF MayBecome
<1>4. QED
  BY <1>1, <1>2, <1>3 DEF LiveRows, MayBecome, Becomes

LEMMA AddStep ==
  ASSUME IInv, NEW i \in Items, NEW c \in Threads \cup {None}, Add(i, c)
  PROVE  IInv'
<1>1. PICK v \in Values, x \in Cells :
        x = <<i, c>> /\ x[1] = i /\ Live([rows EXCEPT ![x] = Append(@, v)], {})
  <2>1. <<i, c>> \in Cells /\ <<i, c>>[1] = i
    BY DEF Cells
  <2>2. PICK v : v = IF Kind[i] = "entry" THEN "open" ELSE IF Threaded(i) THEN "seeded" ELSE "changed"
    OBVIOUS
  <2>3. v \in Values
    BY <2>2 DEF Values
  <2>4. Live([rows EXCEPT ![<<i, c>>] = Append(@, v)], {})
    BY <2>2 DEF Add
  <2>5. QED
    BY <2>1, <2>3, <2>4
<1>2. PICK row, new : row = Append(rows[x], v) /\ new = [rows EXCEPT ![x] = row]
  OBVIOUS
<1>3. Live(new, {}) /\ Shape /\ Tables /\ rows[x] \in Seq(Values)
  BY <1>1, <1>2 DEF IInv, Shape
<1>4. row \in Seq(Values) /\ row # << >> /\ Len(row) = Len(rows[x]) + 1
  BY <1>2, <1>3
<1>5. /\ Kind[i] # "profile" /\ crossed' = crossed
      /\ Keyed(i) => rows[x] = << >> /\ c = None
      /\ Flushed(i) => key[i] = None
  BY <1>1 DEF Add, Keyed, Flushed
<1>6. Keyed(i) => Len(row) <= 1
  <2>1. Append(<< >>, v) = <<v>>
    OBVIOUS
  <2>2. QED
    BY <1>2, <1>5, <2>1, OneValue
<1>7. LiveRows(new, {}) /\ Becomes(new, x, row)
  <2>1. MayBecome(x, row, {})
    BY <1>1, <1>4, <1>5, <1>6 DEF MayBecome
  <2>2. QED
    BY <1>2, <1>3, <2>1, OneCell
<1>8. LiveRoles(new)
  <2>1. ASSUME NEW j \in Items
        PROVE  /\ Kind[j] = "agent" /\ rows[<<j, None>>] # << >>
                     => new[<<j, None>>] = rows[<<j, None>>]
               /\ Kind[j] = "profile" => new[<<j, None>>] = rows[<<j, None>>]
    <3>1. <<j, None>> \in Cells /\ (<<j, None>> = x => j = i)
      BY <1>1 DEF Cells
    <3>2. CASE <<j, None>> = x
      BY <1>5, <3>1, <3>2 DEF Keyed, Flushed
    <3>3. CASE <<j, None>> # x
      BY <1>7, <3>1, <3>3 DEF Becomes
    <3>4. QED
      BY <3>2, <3>3
  <2>2. QED
    BY <1>5, <2>1 DEF LiveRoles
<1>9. QED
  BY <1>3, <1>5, <1>7, <1>8, LiveStep DEF IInv, Shape

\* What changes nothing of agents and profiles.
LEMMA OtherRoles ==
  ASSUME NEW i \in Items, Kind[i] \notin {"agent", "profile"}, crossed' = crossed, NEW new,
         \A y \in Cells : y # <<i, None>> => new[y] = rows[y]
  PROVE  LiveRoles(new)
<1>1. ASSUME NEW j \in Items, Kind[j] \in {"agent", "profile"}
      PROVE  new[<<j, None>>] = rows[<<j, None>>]
  <2>1. <<j, None>> \in Cells /\ <<j, None>> # <<i, None>>
    BY <1>1 DEF Cells
  <2>2. QED
    BY <2>1
<1>2. QED
  BY <1>1 DEF LiveRoles

LEMMA EditStep ==
  ASSUME IInv, NEW i \in Items, NEW n \in DOMAIN rows[<<i, None>>], NEW v \in Values, Edit(i, n, v)
  PROVE  IInv'
<1>1. PICK x \in Cells : x = <<i, None>> /\ x[1] = i
  BY DEF Cells
<1>2. PICK row, new : row = [rows[x] EXCEPT ![n] = v] /\ new = [rows EXCEPT ![x] = row]
  OBVIOUS
<1>3. Shape /\ Tables /\ rows[x] \in Seq(Values) /\ n \in DOMAIN rows[x]
  BY <1>1 DEF IInv, Shape
<1>4. row \in Seq(Values) /\ row # << >> /\ rows[x] # << >> /\ Len(row) = Len(rows[x])
  BY <1>2, <1>3
<1>5. /\ Live(new, {}) /\ crossed' = crossed
      /\ Kind[i] \notin {"agent", "profile", "thread"}
  BY <1>1, <1>2 DEF Edit
<1>6. Keyed(i) => Len(row) <= 1
  BY <1>1, <1>3, <1>4 DEF Tables
<1>7. LiveRows(new, {}) /\ Becomes(new, x, row)
  <2>1. MayBecome(x, row, {})
    BY <1>1, <1>4, <1>6 DEF MayBecome
  <2>2. QED
    BY <1>2, <1>3, <2>1, OneCell
<1>8. LiveRoles(new)
  BY <1>1, <1>5, <1>7, OtherRoles DEF Becomes
<1>9. QED
  BY <1>5, <1>7, <1>8, LiveStep DEF IInv, Shape

LEMMA Removed ==
  ASSUME NEW s \in Seq(Values), NEW n \in DOMAIN s
  PROVE  /\ RemoveAt(s, n) \in Seq(Values)
         /\ Len(RemoveAt(s, n)) = Len(s) - 1
         /\ RemoveAt(s, n) = << >> => n = 1
<1>1. n \in 1..Len(s) /\ Len(s) \in Nat
  OBVIOUS
<1>2. PICK a, b : a = SubSeq(s, 1, n - 1) /\ b = SubSeq(s, n + 1, Len(s))
  OBVIOUS
<1>3. a \in Seq(Values) /\ Len(a) = n - 1
  BY <1>1, <1>2
<1>4. b \in Seq(Values) /\ Len(b) = Len(s) - n
  BY <1>1, <1>2
<1>5. RemoveAt(s, n) = a \o b
  BY <1>2 DEF RemoveAt
<1>6. a \o b \in Seq(Values) /\ Len(a \o b) = Len(s) - 1
  BY <1>1, <1>3, <1>4
<1>7. a \o b = << >> => n = 1
  <2>1. a \o b = << >> => Len(s) = 1
    BY <1>1, <1>6
  <2>2. QED
    BY <1>1, <2>1
<1>8. QED
  BY <1>5, <1>6, <1>7

LEMMA DeleteStep ==
  ASSUME IInv, NEW i \in Items, NEW n \in DOMAIN rows[<<i, None>>], Delete(i, n)
  PROVE  IInv'
<1>1. PICK x \in Cells : x = <<i, None>> /\ x[1] = i
  BY DEF Cells
<1>2. PICK row, new, lost : /\ row = RemoveAt(rows[x], n) /\ new = [rows EXCEPT ![x] = row]
                            /\ lost = IF n = 1 THEN {x} ELSE {}
  OBVIOUS
<1>3. Shape /\ Tables /\ rows[x] \in Seq(Values) /\ n \in DOMAIN rows[x]
  BY <1>1 DEF IInv, Shape
<1>4. row \in Seq(Values) /\ Len(row) = Len(rows[x]) - 1 /\ (row = << >> => n = 1)
      /\ Len(rows[x]) \in Nat /\ rows[x] # << >>
  BY <1>2, <1>3, Removed
<1>5. Live(new, lost) /\ crossed' = crossed /\ Kind[i] \in {"task", "entry"}
  BY <1>1, <1>2 DEF Delete
<1>6. Keyed(i) => Len(row) <= 1
  <2>1. Keyed(i) => Len(rows[x]) <= 1
    BY <1>1, <1>3 DEF Tables
  <2>2. QED
    BY <1>4, <2>1
<1>7. Len(row) # Len(rows[x])
  BY <1>4
<1>8. LiveRows(new, lost) /\ Becomes(new, x, row)
  <2>1. MayBecome(x, row, lost)
    BY <1>1, <1>2, <1>4, <1>5, <1>6, <1>7 DEF MayBecome, Flushed
  <2>2. QED
    BY <1>2, <1>3, <2>1, OneCell
<1>9. LiveRoles(new)
  BY <1>1, <1>5, <1>8, OtherRoles DEF Becomes
<1>10. QED
  BY <1>5, <1>8, <1>9, LiveStep DEF IInv, Shape

\* The rows of the agent and of its profile after a change of its role.
RoleChanged(x, y, new, lost) ==
    IF rows[x] = <<"seeded">>
    THEN new = [rows EXCEPT ![x] = <<"changed">>, ![y] = << >>] /\ lost = {y}
    ELSE /\ new = [rows EXCEPT ![x] = <<"seeded">>,
                               ![y] = IF rows[y] = << >> THEN <<"changed">> ELSE rows[y]]
         /\ lost = {}

LEMMA ChangeRoleRows ==
  ASSUME Shape, Tables, NEW x \in Cells, NEW y \in Cells, NEW new, NEW lost,
         RoleChanged(x, y, new, lost), Kind[x[1]] = "agent", Kind[y[1]] = "profile", rows[x] # << >>
  PROVE  /\ new \in [Cells -> Seq(Values)]
         /\ \A z \in Cells : Keyed(z[1]) => Len(new[z]) <= 1
         /\ new[x] # << >> /\ \A z \in Cells \ {x, y} : new[z] = rows[z]
         /\ new[x] = <<"seeded">> <=> new[y] # << >>
         /\ rows[y] # << >> /\ new[y] = << >> => y \in lost
         /\ lost \subseteq {y} /\ (y \in lost => new[y] = << >>)
<1>1. <<"seeded">> \in Seq(Values) /\ <<"changed">> \in Seq(Values) /\ << >> \in Seq(Values)
  BY Marks, OneValue, NoRow
<1>2. Len(<<"seeded">>) <= 1 /\ Len(<<"changed">>) <= 1 /\ Len(<< >>) <= 1
  BY Marks, OneValue, NoRow
<1>3. <<"seeded">> # << >> /\ <<"changed">> # << >> /\ <<"seeded">> # <<"changed">>
  OBVIOUS
<1>4. PICK s, c, e : s = <<"seeded">> /\ c = <<"changed">> /\ e = << >>
  OBVIOUS
<1>5. x # y
  OBVIOUS
<1>6. CASE rows[x] = s
  <2>1. new = [rows EXCEPT ![x] = c, ![y] = e] /\ lost = {y}
    BY <1>4, <1>6 DEF RoleChanged
  <2>2. new[x] = c /\ new[y] = e /\ \A z \in Cells \ {x, y} : new[z] = rows[z]
    BY <1>5, <2>1 DEF Shape
  <2>3. new \in [Cells -> Seq(Values)]
    BY <1>1, <1>4, <2>1 DEF Shape
  <2>4. \A z \in Cells : Keyed(z[1]) => Len(new[z]) <= 1
    BY <1>2, <1>4, <2>2 DEF Tables
  <2>5. QED
    BY <1>3, <1>4, <2>1, <2>2, <2>3, <2>4
<1>7. CASE rows[x] # s
  <2>1. PICK r : r = IF rows[y] = e THEN c ELSE rows[y]
    OBVIOUS
  <2>2. new = [rows EXCEPT ![x] = s, ![y] = r] /\ lost = {}
    BY <1>4, <1>7, <2>1 DEF RoleChanged
  <2>3. r \in Seq(Values) /\ r # e /\ Len(r) <= 1
    BY <1>1, <1>2, <1>3, <1>4, <2>1 DEF Shape, Tables, Keyed
  <2>4. new[x] = s /\ new[y] = r /\ \A z \in Cells \ {x, y} : new[z] = rows[z]
    BY <1>5, <2>2 DEF Shape
  <2>5. new \in [Cells -> Seq(Values)]
    BY <1>1, <1>4, <2>2, <2>3 DEF Shape
  <2>6. \A z \in Cells : Keyed(z[1]) => Len(new[z]) <= 1
    BY <1>2, <1>4, <2>3, <2>4 DEF Tables
  <2>7. QED
    BY <1>3, <1>4, <2>2, <2>3, <2>4, <2>5, <2>6
<1>8. QED
  BY <1>6, <1>7

LEMMA ChangeRoleIs ==
  ASSUME IInv, NEW i \in Items, NEW j \in Items, ChangeRole(i, j)
  PROVE  \E x, y \in Cells : \E new, lost :
            /\ x = <<i, None>> /\ y = <<j, None>> /\ x[1] = i /\ y[1] = j
            /\ Live(new, lost) /\ RoleChanged(x, y, new, lost) /\ rows[x] # << >>
            /\ Kind[i] = "agent" /\ Kind[j] = "profile" /\ crossed' = (Running # {})
<1>1. PICK x \in Cells, y \in Cells : x = <<i, None>> /\ y = <<j, None>> /\ x[1] = i /\ y[1] = j
  <2>1. <<i, None>> \in Cells /\ <<j, None>> \in Cells
    BY DEF Cells
  <2>2. QED
    BY <2>1
<1>2. /\ x # y /\ rows \in [Cells -> Seq(Values)] /\ rows[x] # << >>
      /\ Kind[i] = "agent" /\ Kind[j] = "profile" /\ crossed' = (Running # {})
  BY <1>1 DEF ChangeRole, IInv, Shape
<1>3. CASE rows[x] = <<"seeded">>
  <2>1. Live([rows EXCEPT ![x] = <<"changed">>, ![y] = << >>], {y})
    BY <1>1, <1>3 DEF ChangeRole
  <2>2. QED
    BY <1>1, <1>2, <1>3, <2>1 DEF RoleChanged
<1>4. CASE rows[x] # <<"seeded">>
  <2>1. [rows EXCEPT ![x] = <<"seeded">>, ![y] = IF @ = << >> THEN <<"changed">> ELSE @]
        = [rows EXCEPT ![x] = <<"seeded">>, ![y] = IF rows[y] = << >> THEN <<"changed">> ELSE rows[y]]
    BY <1>2
  <2>2. Live([rows EXCEPT ![x] = <<"seeded">>, ![y] = IF @ = << >> THEN <<"changed">> ELSE @], {})
    BY <1>1, <1>4 DEF ChangeRole
  <2>3. QED
    BY <1>1, <1>2, <1>4, <2>1, <2>2 DEF RoleChanged
<1>5. QED
  BY <1>3, <1>4

LEMMA ChangeRoleStep ==
  ASSUME IInv, NEW i \in Items, NEW j \in Items, ChangeRole(i, j)
  PROVE  IInv'
<1>1. PICK x \in Cells, y \in Cells : \E new, lost :
        /\ x = <<i, None>> /\ y = <<j, None>> /\ x[1] = i /\ y[1] = j
        /\ Live(new, lost) /\ RoleChanged(x, y, new, lost) /\ rows[x] # << >>
        /\ Kind[i] = "agent" /\ Kind[j] = "profile" /\ crossed' = (Running # {})
  BY ChangeRoleIs
<1>2. PICK new, lost :
        /\ x = <<i, None>> /\ y = <<j, None>> /\ x[1] = i /\ y[1] = j
        /\ Live(new, lost) /\ RoleChanged(x, y, new, lost) /\ rows[x] # << >>
        /\ Kind[i] = "agent" /\ Kind[j] = "profile" /\ crossed' = (Running # {})
  BY <1>1
<1>3. /\ new \in [Cells -> Seq(Values)]
      /\ \A z \in Cells : Keyed(z[1]) => Len(new[z]) <= 1
      /\ new[x] # << >> /\ \A z \in Cells \ {x, y} : new[z] = rows[z]
      /\ rows[y] # << >> /\ new[y] = << >> => y \in lost
      /\ lost \subseteq {y} /\ (y \in lost => new[y] = << >>)
  BY <1>2, ChangeRoleRows DEF IInv
<1>4. ASSUME NEW k \in Items, Flushed(k), rows[<<k, None>>] = << >>  PROVE new[<<k, None>>] = << >>
  <2>1. <<k, None>> \in Cells /\ (<<k, None>> = y => k = j)
    BY <1>2 DEF Cells
  <2>2. QED
    BY <1>2, <1>3, <1>4, <2>1 DEF Flushed
<1>5. ASSUME NEW z \in Cells, Kind[z[1]] \in {"agent", "thread"}, rows[z] # << >>
      PROVE  new[z] # << >>
  BY <1>2, <1>3, <1>5
<1>6. ASSUME NEW z \in Cells, rows[z] # << >>, new[z] = << >>  PROVE z \in lost
  BY <1>3, <1>6
<1>7. ASSUME NEW z \in lost, rows[z] # << >>  PROVE Len(new[z]) # Len(rows[z])
  <2>1. z = y /\ new[z] = << >> /\ rows[z] \in Seq(Values)
    BY <1>3, <1>7 DEF IInv, Shape
  <2>2. QED
    BY <1>7, <2>1, OneRow
<1>8. LiveRows(new, lost)
  BY <1>3, <1>4, <1>5, <1>6, <1>7 DEF LiveRows
<1>9. LiveRoles(new)
  BY <1>2 DEF LiveRoles
<1>10. QED
  BY <1>2, <1>8, <1>9, LiveStep

-----------------------------------------------------------------------------
LEMMA InitIInv == Init => IInv
<1> SUFFICES ASSUME Init  PROVE IInv
  OBVIOUS
<1>1. Shape
  <2>1. rows \in [Cells -> Seq(Values)]
    BY NoRow DEF Init
  <2>2. writes \in [Procs -> [Items -> {"none", "insert", "gone"} \cup Values]]
    BY DEF Init, Nothing
  <2>3. key \in [Items -> Procs \cup {None}] /\ late \in [Procs -> SUBSET Cells]
        /\ pc \in [Procs -> 0..Len(Plan) + 1] /\ thread \in [Procs -> Threads \cup {None}]
    BY PlanIs DEF Init
  <2>4. QED
    BY <2>1, <2>2, <2>3 DEF Init, Shape
<1>2. Tables
  BY NoRow DEF Init, Tables
<1>3. ASSUME NEW p \in Procs  PROVE Unmissed(p) /\ Ready(p)
  <2>1. Passed(p) = {}
    BY PlanIs DEF Init, Passed
  <2>2. QED
    BY <2>1 DEF Init, Unmissed, Ready
<1>4. QED
  BY <1>1, <1>2, <1>3 DEF IInv

\* A step that changes nothing the invariant speaks of.
LEMMA Unchanged ==
  ASSUME IInv, UNCHANGED <<rows, key, pc, flushing, thread, writes, history>>
  PROVE  IInv'
<1>1. Shape' /\ Tables'
  BY TablesFrame DEF history, IInv, Shape, Cells
<1>2. ASSUME NEW q \in Procs  PROVE Unmissed(q)' /\ Ready(q)'
  <2>1. Shape /\ Unmissed(q) /\ Ready(q) /\ Minds(q)
    BY NobodyMinds DEF IInv, history
  <2>2. QED
    BY <1>1, <2>1, OthersReady DEF history, Unmissed
<1>3. QED
  BY <1>1, <1>2 DEF IInv

LEMMA StepIs ==
  ASSUME NEW p \in Procs, Step(p)
  PROVE  LooksUp(p) \/ EnsureDmThread(p) \/ Flush(p) \/ Commit(p)
BY DEF Step, GetOrCreateDepartment, UpsertUser, EnsureAgentProfile, EnsureTask,
   EnsureMessage, EnsureTimeEntry, At, LooksUp

LEMMA NextIInv == IInv /\ [Next]_vars => IInv'
<1> SUFFICES ASSUME IInv, [Next]_vars  PROVE IInv'
  OBVIOUS
<1>1. CASE UNCHANGED vars
  BY <1>1, Unchanged DEF vars, dbVars
<1>2. CASE SeedSuperadmin
  BY <1>2, Unchanged DEF SeedSuperadmin
<1>3. ASSUME NEW p \in Procs, Begin(p) \/ Step(p) \/ Fail(p)  PROVE IInv'
  BY <1>3, StepIs, BeginStep, FailStep, LookUpStep, FindThreadStep, FlushStep, CommitStep
<1>4. ASSUME LiveNext  PROVE IInv'
  BY <1>2, <1>4, AddStep, EditStep, DeleteStep, ChangeRoleStep DEF LiveNext
<1>5. QED
  BY <1>1, <1>3, <1>4 DEF Next

\* What the other theorems rest on.
THEOREM Inductive == Spec => []IInv
BY InitIInv, NextIInv, PTL DEF Spec

\* When rows change and a run moves on, it is the commit of that run.
LEMMA OnlyCommits ==
  ASSUME IInv, Next, NEW p \in Procs, pc[p] # 0, pc'[p] # pc[p], rows' # rows
  PROVE  Commit(p) /\ ~Fail(p)
<1>1. ~LiveNext
  BY DEF LiveNext, SeedSuperadmin, Add, Edit, Delete, ChangeRole, Live
<1>2. PICK q \in Procs :
        Begin(q) \/ LooksUp(q) \/ EnsureDmThread(q) \/ Flush(q) \/ Commit(q) \/ Fail(q)
  BY <1>1, StepIs DEF Next
<1>3. Fail(q) => rows' = rows
  BY DEF Fail
<1>4. ~Begin(q) /\ ~LooksUp(q) /\ ~EnsureDmThread(q) /\ ~Flush(q)
  BY <1>3 DEF Begin, LooksUp, LookUp, EnsureDmThread, FindThread, Flush, dbVars
<1>5. Commit(q) /\ ~Fail(q)
  BY <1>2, <1>3, <1>4
<1>6. pc' = [pc EXCEPT ![q] = 0]
  BY <1>5, CommitIs
<1>7. q = p
  BY <1>6 DEF IInv, Shape
<1>8. QED
  BY <1>5, <1>7

\* What a run has decided when it commits.
LEMMA CommitReady ==
  ASSUME IInv, NEW p \in Procs, Commit(p), ~Fail(p), NEW i \in Items
  PROVE  /\ Passed(p) = Items
         /\ IF Kind[i] = "thread" THEN ThreadReady(p, i) ELSE ItemReady(p, i)
         /\ CommitRow(Cell(p, i), writes[p][i])
<1>1. Passed(p) = Items
  BY CommitIs, PassedIs DEF IInv
<1>2. Ready(p)
  BY DEF IInv
<1>3. QED
  BY <1>1, <1>2, CommitRows DEF Ready

\* What a commit that is no failure leaves of an item that nobody else gave or
\* took a row of.
LEMMA CommitLeaves ==
  ASSUME IInv, NEW p \in Procs, Commit(p), ~Fail(p), NEW i \in Items, Cell(p, i) \notin late[p]
  PROVE  rows'[Cell(p, i)] # << >>
<1>1. PICK x, w : x = Cell(p, i) /\ w = writes[p][i]
  OBVIOUS
<1>2. CommitRow(x, w) /\ rows[x] \in Seq(Values)
  BY <1>1, CommitRows, CellIs DEF IInv
<1>3. CASE w = "insert"
  BY <1>1, <1>2, <1>3 DEF CommitRow
<1>4. CASE w # "insert" /\ Kind[i] = "thread"
  <2>1. ThreadReady(p, i) /\ x = <<i, thread[p]>>
    BY <1>1, <1>4, CommitReady, CellIs DEF IInv, Threaded
  <2>2. rows[x] # << >>
    BY <1>1, <1>4, <2>1 DEF ThreadReady
  <2>3. QED
    BY <1>1, <1>2, <1>4, <2>2 DEF CommitRow
<1>5. CASE w # "insert" /\ Kind[i] # "thread"
  <2>1. Fits(p, i)
    BY <1>5, CommitReady DEF ItemReady
  <2>2. Len(rows[x]) = 1
    BY <1>1, <1>5, <2>1 DEF Fits
  <2>3. rows[x] # << >>
    BY <1>2, <2>2, OneRow
  <2>4. QED
    BY <1>1, <1>2, <1>5, <2>3 DEF CommitRow
<1>6. QED
  BY <1>3, <1>4, <1>5

\* A run of the script that changes anything leaves every item with a row,
\* each message in the run's thread, except what others removed while it ran:
\* half a run leaves nothing (seed_pilot.py:445).
THEOREM WholeOrNothing == Spec => AllOrNothing
<1> DEFINE A == \A p \in Procs :
                  (pc[p] # 0 /\ pc'[p] # pc[p] /\ rows' # rows)
                  => \A i \in Items : Cell(p, i) \in late[p] \/ rows'[Cell(p, i)] # << >>
<1>1. IInv /\ [Next]_vars => [A]_vars
  <2> SUFFICES ASSUME IInv, Next, NEW p \in Procs, pc[p] # 0, pc'[p] # pc[p], rows' # rows,
                      NEW i \in Items, Cell(p, i) \notin late[p]
               PROVE  rows'[Cell(p, i)] # << >>
    OBVIOUS
  <2>1. QED
    BY OnlyCommits, CommitLeaves
<1>2. QED
  BY <1>1, Inductive, PTL DEF Spec, AllOrNothing

\* A row that a run adds where it looks for rows and finds none, while there is
\* one by then.
LEMMA AddedLate ==
  ASSUME IInv, NEW p \in Procs, Commit(p), ~Fail(p), NEW x \in Cells,
         Len(rows'[x]) > Len(rows[x]), NEW y \in Searched(x), rows[y] # << >>
  PROVE  y \in late[p]
<1>1. PICK i \in Items : i = x[1]
  BY DEF Cells
<1>2. rows[x] \in Seq(Values)
  BY DEF IInv, Shape
<1>3. PICK m, n : m = Len(rows[x]) /\ n = Len(rows'[x]) /\ m \in Nat /\ n > m
  BY <1>2
<1>4. n # m
  BY <1>3
<1>5. x = Cell(p, i) /\ writes[p][i] = "insert"
  <2>1. x = Cell(p, i)
    BY <1>1, <1>3, <1>4, CommitElsewhere
  <2>2. CommitRow(x, writes[p][i])
    BY <2>1, CommitReady
  <2>3. QED
    BY <1>3, <1>4, <2>1, <2>2 DEF CommitRow
<1>6. CASE Kind[i] = "thread"
  <2>1. PICK c \in Threads : y = <<i, c>>
    BY <1>1, <1>6 DEF Searched
  <2>2. ThreadReady(p, i)
    BY <1>6, CommitReady
  <2>3. QED
    BY <1>5, <2>1, <2>2 DEF ThreadReady
<1>7. CASE Kind[i] # "thread"
  <2>1. y = x /\ ItemReady(p, i)
    BY <1>1, <1>7, CommitReady DEF Searched
  <2>2. ~Fits(p, i)
    BY <1>5, <2>1 DEF Fits
  <2>3. QED
    BY <1>5, <2>1, <2>2 DEF ItemReady
<1>8. QED
  BY <1>6, <1>7

\* A second row of a task, a second thread, a message a second time in one
\* thread is the work of two who overlapped, one of whom may be the live system
\* (chat/router.py:97-138): no key forbids it (seed_pilot.py:137-238).
THEOREM SecondRowsOverlap == Spec => OneRowUnlessOverlapping
<1> DEFINE A == \A p \in Procs, x \in Cells :
                  (/\ pc[p] # 0 /\ pc'[p] = 0 /\ Len(rows'[x]) > Len(rows[x])
                   /\ \E y \in Searched(x) : rows[y] # << >>)
                  => Searched(x) \cap late[p] # {}
<1>1. IInv /\ [Next]_vars => [A]_vars
  <2> SUFFICES ASSUME IInv, Next, NEW p \in Procs, NEW x \in Cells, pc[p] # 0, pc'[p] = 0,
                      Len(rows'[x]) > Len(rows[x]), NEW y \in Searched(x), rows[y] # << >>
               PROVE  y \in late[p]
    OBVIOUS
  <2>1. rows' # rows
    <3>1. PICK n : n = Len(rows[x]) /\ n \in Nat
      BY OneRow DEF IInv, Shape
    <3>2. ~(n > n)
      BY <3>1
    <3>3. QED
      BY <3>1, <3>2
  <2>2. Commit(p) /\ ~Fail(p)
    BY <2>1, OnlyCommits
  <2>3. QED
    BY <2>2, AddedLate
<1>2. QED
  BY <1>1, Inductive, PTL DEF Spec, OneRowUnlessOverlapping

\* Another thread is open than that of a cell of messages.
OtherThread(x) ==
    /\ Kind[x[1]] = "message"
    /\ \E i \in Items, c \in Threads \ {x[2]} : Kind[i] = "thread" /\ c \in Opened(i)

LEMMA QuietCommit ==
  ASSUME IInv, NEW p \in Procs, p \in quiet, Commit(p), ~Fail(p), NEW x \in Cells
  PROVE  rows'[x] = rows[x] \/ OtherThread(x)
<1>1. p \in alone /\ AllSeeded /\ Shape /\ late[p] = {}
  BY DEF IInv, Shape, Tables, Unmissed
<1>2. PICK c \in Threads \cup {None} : SettledIn(c)
  BY <1>1 DEF AllSeeded
<1>3. PICK i \in Items : i = x[1]
  BY DEF Cells
<1>4. CASE x # Cell(p, i)
  BY <1>3, <1>4, CommitElsewhere
<1>5. CASE x = Cell(p, i) /\ Kind[i] = "thread"
  <2>1. ThreadReady(p, i) /\ CommitRow(x, writes[p][i])
    BY <1>5, CommitReady
  <2>2. c \in Threads /\ rows[<<i, c>>] # << >>
    BY <1>2, <1>5 DEF SettledIn, Settled, Threaded
  <2>3. writes[p][i] = "none"
    BY <1>1, <2>1, <2>2 DEF ThreadReady
  <2>4. QED
    BY <2>1, <2>3 DEF CommitRow
<1>6. CASE x = Cell(p, i) /\ Kind[i] # "thread" /\ x = <<i, IF Threaded(i) THEN c ELSE None>>
  <2>1. ItemReady(p, i) /\ CommitRow(x, writes[p][i])
    BY <1>6, CommitReady
  <2>2. Settled(i, rows[x])
    BY <1>2, <1>6 DEF SettledIn
  <2>3. Right(writes[p][i], i, rows[x])
    BY <1>1, <1>6, <2>1 DEF ItemReady, Exact
  <2>4. writes[p][i] = "none"
    BY <1>6, <2>2, <2>3 DEF Right, Settled
  <2>5. QED
    BY <2>1, <2>4 DEF CommitRow
<1>7. CASE x = Cell(p, i) /\ Kind[i] # "thread" /\ x # <<i, IF Threaded(i) THEN c ELSE None>>
  <2>1. Kind[i] = "message" /\ x = <<i, thread[p]>> /\ thread[p] # c
    BY <1>1, <1>7, CellIs DEF Threaded
  <2>2. PICK n \in DOMAIN Plan : Plan[n] = i
    BY PlanIs
  <2>3. PICK m \in 1..n - 1 : Kind[Plan[m]] = "thread"
    BY <2>1, <2>2, ThreadAssumption
  <2>4. m \in DOMAIN Plan
    BY <2>2, <2>3, PlanIs
  <2>5. PICK j \in Items : j = Plan[m] /\ Kind[j] = "thread"
    BY <2>3, <2>4, PlanIs
  <2>6. c \in Threads /\ rows[<<j, c>>] # << >>
    BY <1>2, <2>5 DEF SettledIn, Settled, Threaded
  <2>7. c \in Opened(j) /\ c # x[2]
    BY <2>1, <2>6 DEF Opened
  <2>8. QED
    BY <1>3, <2>1, <2>5, <2>6, <2>7 DEF OtherThread
<1>8. QED
  BY <1>4, <1>5, <1>6, <1>7

\* Run again with nothing done in between, the script changes nothing
\* (README.md:83), unless the pilot users have more than one thread: then it
\* may take another one (seed_pilot.py:171-187) and send the messages there.
THEOREM SeedingTwice == Spec => Idempotent
<1> DEFINE A == \A p \in quiet : pc[p] # 0 /\ pc'[p] = 0 =>
                  \A x \in Cells :
                     \/ rows'[x] = rows[x]
                     \/ /\ Kind[x[1]] = "message"
                        /\ \E i \in Items, c \in Threads \ {x[2]} :
                              Kind[i] = "thread" /\ c \in Opened(i)
<1>1. IInv /\ [Next]_vars => [A]_vars
  <2> SUFFICES ASSUME IInv, Next, NEW p \in quiet, pc[p] # 0, pc'[p] = 0, NEW x \in Cells,
                      rows'[x] # rows[x]
               PROVE  OtherThread(x)
    BY DEF OtherThread
  <2>1. p \in Procs
    BY DEF IInv, Shape
  <2>2. Commit(p) /\ ~Fail(p)
    BY <2>1, OnlyCommits
  <2>3. QED
    BY <2>1, <2>2, QuietCommit
<1>2. QED
  BY <1>1, Inductive, PTL DEF Spec, Idempotent

-----------------------------------------------------------------------------
(***************************************************************************)
(* Keys.  A key is held by a run that has been through its item and is     *)
(* going to insert it: nobody waits for a run that is behind.              *)
(***************************************************************************)
HeldBy(i, q) == Flushed(i) /\ i \in Passed(q) /\ writes[q][i] = "insert"

KeysHeld == \A i \in Items, q \in Procs : key[i] = q => HeldBy(i, q)

\* A run that waits for a key waits for one that is further along the plan.
WaitsForward ==
    \A p, q \in Procs : p \in flushing /\ key[Plan[pc[p]]] = q => pc[p] < pc[q]

\* A step that leaves what the holders of keys are going to insert.
LEMMA KeysFrame ==
  ASSUME KeysHeld,
         \A i \in Items, q \in Procs :
            key'[i] = q => /\ key[i] = q /\ pc'[q] = pc[q]
                           /\ writes[q][i] = "insert" => writes'[q][i] = "insert"
  PROVE  KeysHeld'
<1>1. ASSUME NEW i \in Items, NEW q \in Procs, key'[i] = q  PROVE HeldBy(i, q)'
  <2>1. HeldBy(i, q) /\ pc'[q] = pc[q] /\ (writes[q][i] = "insert" => writes'[q][i] = "insert")
    BY <1>1 DEF KeysHeld
  <2>2. QED
    BY <2>1 DEF HeldBy, Flushed, Passed
<1>2. QED
  BY <1>1 DEF KeysHeld

LEMMA KeysReleased ==
  ASSUME Shape, KeysHeld, NEW p \in Procs, End(p), key' = Released(p)
  PROVE  KeysHeld'
<1>1. \A i \in Items, q \in Procs : key'[i] = q => key[i] = q /\ q # p
  BY NoneAssumption DEF Released
<1>2. \A q \in Procs \ {p} : pc'[q] = pc[q] /\ writes'[q] = writes[q]
  BY DEF End, Shape
<1>3. QED
  BY <1>1, <1>2, KeysFrame

\* A run goes on to the next item.
LEMMA KeysForward ==
  ASSUME Shape, KeysHeld, NEW p \in Procs, pc[p] \in DOMAIN Plan, pc'[p] \in {pc[p], pc[p] + 1},
         key' = key, \A q \in Procs \ {p} : writes'[q] = writes[q] /\ pc'[q] = pc[q],
         \A j \in Passed(p) : writes'[p][j] = writes[p][j]
  PROVE  KeysHeld'
<1>1. Passed(p) \subseteq Passed(p)' /\ \A q \in Procs \ {p} : Passed(q)' = Passed(q)
  <2>1. pc'[p] = pc[p] => Passed(p)' = Passed(p)
    BY DEF Passed
  <2>2. pc'[p] = pc[p] + 1 => Passed(p) \subseteq Passed(p)'
    BY PassedNext
  <2>3. QED
    BY <2>1, <2>2 DEF Passed
<1>2. ASSUME NEW j \in Items, NEW q \in Procs, key'[j] = q  PROVE HeldBy(j, q)'
  <2>1. Flushed(j) /\ j \in Passed(q) /\ writes[q][j] = "insert"
    BY <1>2 DEF KeysHeld, HeldBy
  <2>2. writes'[q][j] = writes[q][j]
    BY <2>1
  <2>3. QED
    BY <1>1, <2>1, <2>2 DEF HeldBy, Flushed
<1>3. QED
  BY <1>2 DEF KeysHeld

LEMMA LookUpKeys ==
  ASSUME Shape, KeysHeld, NEW p \in Procs, LooksUp(p) \/ EnsureDmThread(p)
  PROVE  KeysHeld'
<1>1. CASE Fail(p)
  BY <1>1, KeysReleased DEF Fail
<1>2. CASE ~Fail(p)
  <2>1. PICK i, write : /\ i = Plan[pc[p]] /\ pc[p] \in DOMAIN Plan /\ key' = key
                        /\ writes' = [writes EXCEPT ![p][i] = write]
                        /\ pc' = pc \/ pc' = [pc EXCEPT ![p] = @ + 1]
    BY <1>2 DEF LooksUp, LookUp, EnsureDmThread, FindThread, At, dbVars
  <2>2. i \in Items /\ i \notin Passed(p)
    BY <2>1, NotPassed
  <2>3. /\ writes'[p] = [writes[p] EXCEPT ![i] = write] /\ pc'[p] \in {pc[p], pc[p] + 1}
        /\ \A q \in Procs \ {p} : writes'[q] = writes[q] /\ pc'[q] = pc[q]
    BY <2>1 DEF Shape
  <2>4. \A j \in Passed(p) : writes'[p][j] = writes[p][j]
    BY <2>2, <2>3, PassedIs DEF Shape
  <2>5. QED
    BY <2>1, <2>3, <2>4, KeysForward
<1>3. QED
  BY <1>1, <1>2

LEMMA FlushKeys ==
  ASSUME Shape, KeysHeld, NEW p \in Procs, Unmissed(p), Flush(p)
  PROVE  KeysHeld'
<1>0. PICK i : i = Plan[pc[p]]
  OBVIOUS
<1>1. CASE Fail(p)
  BY <1>1, KeysReleased DEF Fail
<1>2. CASE ~Fail(p)
  <2>1. /\ p \in flushing /\ key' = [key EXCEPT ![i] = p] /\ pc' = [pc EXCEPT ![p] = @ + 1]
        /\ flushing' = flushing \ {p} /\ writes' = writes
    BY <1>0, <1>2 DEF Flush
  <2>2. pc[p] \in DOMAIN Plan /\ i \in Items /\ pc'[p] = pc[p] + 1
    BY <1>0, <2>1, NotPassed DEF Shape
  <2>3. Passed(p)' = Passed(p) \cup {i}
    BY <1>0, <2>2, PassedNext
  <2>4. \A q \in Procs \ {p} : pc'[q] = pc[q] /\ Passed(q)' = Passed(q)
    BY <2>1 DEF Shape, Passed
  <2>5. Flushed(i) /\ writes[p][i] = "insert"
    BY <1>0, <2>1 DEF Unmissed
  <2>6. ASSUME NEW j \in Items, NEW q \in Procs, key'[j] = q  PROVE HeldBy(j, q)'
    <3>1. CASE j = i
      <4>1. q = p
        BY <2>1, <2>2, <2>6, <3>1 DEF Shape
      <4>2. QED
        BY <2>1, <2>3, <2>5, <3>1, <4>1 DEF HeldBy, Flushed
    <3>2. CASE j # i
      <4>1. HeldBy(j, q)
        BY <2>1, <2>6, <3>2 DEF KeysHeld, Shape
      <4>2. Passed(q) \subseteq Passed(q)'
        BY <2>3, <2>4
      <4>3. QED
        BY <2>1, <4>1, <4>2 DEF HeldBy, Flushed
    <3>3. QED
      BY <3>1, <3>2
  <2>7. QED
    BY <2>6 DEF KeysHeld
<1>3. QED
  BY <1>1, <1>2

LEMMA InitKeys == Init => KeysHeld
<1>1. Init => \A i \in Items, q \in Procs : key[i] # q
  BY NoneAssumption DEF Init
<1>2. QED
  BY <1>1 DEF Init, KeysHeld

LEMMA NextKeys ==
  ASSUME IInv, KeysHeld, [Next]_vars
  PROVE  KeysHeld'
<1>0. Shape
  BY DEF IInv
<1>1. CASE UNCHANGED vars
  BY <1>1, KeysFrame DEF vars, dbVars
<1>2. ASSUME NEW p \in Procs, Begin(p)  PROVE KeysHeld'
  <2>1. pc[p] = 0 /\ pc' = [pc EXCEPT ![p] = 1] /\ key' = key /\ writes' = writes
    BY <1>2 DEF Begin, dbVars
  <2>2. Passed(p) = {}
    BY <2>1, PlanIs DEF Passed
  <2>3. \A i \in Items : key[i] # p
    BY <2>2 DEF KeysHeld, HeldBy
  <2>4. \A q \in Procs \ {p} : pc'[q] = pc[q]
    BY <1>0, <2>1 DEF Shape
  <2>5. QED
    BY <2>1, <2>3, <2>4, KeysFrame
<1>3. ASSUME NEW p \in Procs, Commit(p)  PROVE KeysHeld'
  BY <1>0, <1>3, KeysReleased DEF Commit, Fail
<1>4. ASSUME NEW p \in Procs, Fail(p)  PROVE KeysHeld'
  BY <1>0, <1>4, KeysReleased DEF Fail
<1>5. ASSUME NEW p \in Procs, LooksUp(p) \/ EnsureDmThread(p) \/ Flush(p)  PROVE KeysHeld'
  BY <1>0, <1>5, LookUpKeys, FlushKeys DEF IInv
<1>6. ASSUME LiveNext  PROVE KeysHeld'
  <2>1. key' = key /\ pc' = pc
    BY <1>6 DEF LiveNext, SeedSuperadmin, Add, Edit, Delete, ChangeRole, Live
  <2>2. CASE \E new, lost : Live(new, lost)
    <3>1. \A i \in Items, q \in Procs : writes[q][i] = "insert" => writes'[q][i] = "insert"
      BY <2>2, Marks DEF Live
    <3>2. QED
      BY <2>1, <3>1, KeysFrame
  <2>3. CASE SeedSuperadmin
    BY <2>1, <2>3, KeysFrame DEF SeedSuperadmin
  <2>4. QED
    BY <1>6, <2>2, <2>3 DEF LiveNext, Add, Edit, Delete, ChangeRole
<1>7. QED
  BY <1>1, <1>2, <1>3, <1>4, <1>5, <1>6, StepIs DEF Next

\* Whatever the plan and however many runs overlap, a run that waits for a
\* key waits for one that is further along: no circle of runs can wait for
\* each other (seed_pilot.py:46-153, whose flushes hold keys until 445).
THEOREM NoCircleOfRuns == Spec => []WaitsForward
<1>1. Init => KeysHeld
  BY InitKeys
<1>2. IInv /\ KeysHeld => WaitsForward
  <2> SUFFICES ASSUME IInv, KeysHeld, NEW p \in Procs, NEW q \in Procs,
                      p \in flushing, key[Plan[pc[p]]] = q
               PROVE  pc[p] < pc[q]
    BY DEF WaitsForward
  <2>1. pc[p] \in DOMAIN Plan /\ Plan[pc[p]] \in Items
    BY PlanIs DEF IInv, Shape
  <2>2. Plan[pc[p]] \in Passed(q)
    BY <2>1 DEF KeysHeld, HeldBy
  <2>3. PICK m \in DOMAIN Plan : m < pc[q] /\ Plan[m] = Plan[pc[p]]
    BY <2>2 DEF Passed
  <2>4. m = pc[p]
    BY <2>1, <2>3, PlanIs
  <2>5. QED
    BY <2>3, <2>4
<1>3. QED
  BY <1>1, <1>2, NextKeys, Inductive, PTL DEF Spec

-----------------------------------------------------------------------------
Bootstrapped == superadmin \in BOOLEAN

\* What has a unique key has one row at most, and nobody has the row of a key
\* that a run's uncommitted insert holds: the run that waits for the key finds
\* out only when the other has committed or failed (seed_pilot.py:61-69).
THEOREM SeedTypeCorrect == Spec => []TypeOK
<1>1. IInv /\ KeysHeld /\ Bootstrapped => TypeOK
  <2> SUFFICES ASSUME IInv, KeysHeld, Bootstrapped  PROVE TypeOK
    OBVIOUS
  <2>1. ASSUME NEW i \in Items, key[i] # None
        PROVE  Flushed(i) /\ rows[<<i, None>>] = << >> /\ writes[key[i]][i] = "insert"
    <3>1. PICK q \in Procs : key[i] = q
      BY <2>1 DEF IInv, Shape
    <3>2. HeldBy(i, q)
      BY <3>1 DEF KeysHeld
    <3>3. Kind[i] # "thread"
      BY <3>2 DEF HeldBy, Flushed
    <3>4. HoldsKey(q, i)
      BY <3>2, <3>3 DEF HeldBy, IInv, Ready, ItemReady
    <3>5. QED
      BY <3>1, <3>2, <3>4 DEF HeldBy, HoldsKey
  <2>2. QED
    BY <2>1 DEF IInv, Shape, Tables, TypeOK, Bootstrapped
<1>2. Init => Bootstrapped
  BY DEF Init, Bootstrapped
<1>3. Bootstrapped /\ [Next]_vars => Bootstrapped'
  <2>1. ASSUME Bootstrapped, [Next]_vars  PROVE superadmin' \in {superadmin, TRUE}
    <3>1. UNCHANGED vars \/ LiveNext => superadmin' \in {superadmin, TRUE}
      BY DEF vars, dbVars, LiveNext, SeedSuperadmin, Add, Edit, Delete, ChangeRole, Live
    <3>2. ASSUME NEW p \in Procs, Begin(p) \/ LooksUp(p) \/ EnsureDmThread(p) \/ Flush(p)
                                  \/ Commit(p) \/ Fail(p)
          PROVE  superadmin' = superadmin
      BY <3>2 DEF dbVars, Begin, LooksUp, LookUp, EnsureDmThread, FindThread, Flush, Commit, Fail
    <3>3. QED
      BY <2>1, <3>1, <3>2, StepIs DEF Next
  <2>2. QED
    BY <2>1 DEF Bootstrapped
<1>4. QED
  BY <1>1, <1>2, <1>3, InitKeys, NextKeys, Inductive, PTL DEF Spec

-----------------------------------------------------------------------------
(***************************************************************************)
(* The pilot agent and its profile.  The script has one of each.           *)
(***************************************************************************)
OneAgent ==
    \A i, j \in Items : Kind[i] = Kind[j] /\ Kind[i] \in {"agent", "profile"} => i = j

\* The rows of agents and profiles are as before: nothing to show.
LEMMA AgentFrame ==
  ASSUME AgentHasProfile, crossed' = crossed,
         \A i \in Items : Kind[i] \in {"agent", "profile"} => rows'[<<i, None>>] = rows[<<i, None>>]
  PROVE  AgentHasProfile'
BY DEF AgentHasProfile

\* The commit of a run gives the agent its role and its profile.
LEMMA CommitGivesProfile ==
  ASSUME IInv, NEW p \in Procs, Commit(p), ~Fail(p)
  PROVE  AgentHasProfile'
<1> SUFFICES ASSUME NEW i \in Items, NEW j \in Items, Kind[i] = "agent", Kind[j] = "profile",
                    ~crossed
             PROVE  rows'[<<i, None>>] = <<"seeded">> /\ rows'[<<j, None>>] # << >>
  BY CommitIs DEF AgentHasProfile
<1>1. PICK x, y : x = <<i, None>> /\ y = <<j, None>> /\ x = Cell(p, i) /\ y = Cell(p, j)
  BY CellIs, Unthreaded DEF IInv
<1>2. ItemReady(p, i) /\ ItemReady(p, j) /\ CommitRow(x, writes[p][i]) /\ CommitRow(y, writes[p][j])
  BY <1>1, CommitReady
<1>3. MakesAgent(p, i) /\ MakesProfile(p, j) /\ HoldsKey(p, i)
  BY <1>2 DEF ItemReady, Flushed
<1>4. rows'[y] # << >>
  BY <1>1, <1>2, <1>3 DEF MakesProfile, CommitRow
<1>5. writes[p][i] \in {"none", "insert"} \cup Values
  BY CommitRows
<1>6. CASE writes[p][i] = "insert"
  BY <1>1, <1>2, <1>3, <1>4, <1>6 DEF HoldsKey, CommitRow
<1>7. CASE writes[p][i] = "none"
  BY <1>1, <1>2, <1>3, <1>4, <1>7 DEF MakesAgent, CommitRow
<1>8. CASE writes[p][i] \in Values
  <2>1. PICK v \in Values : writes[p][i] = v
    BY <1>8
  <2>2. Reseeded(i, v) = "seeded" /\ x[1] = i
    BY <1>1 DEF Reseeded
  <2>3. rows[x] = <<v>> => rows'[x] = <<"seeded">>
    BY <1>2, <2>1, <2>2 DEF CommitRow
  <2>4. rows[x] \in {<<v>>, <<"seeded">>}
    BY <1>1, <1>3, <2>1 DEF MakesAgent
  <2>5. ASSUME rows[x] = <<"seeded">>, rows[x] # <<v>>  PROVE rows'[x] = rows[x]
    <3>1. Len(rows[x]) = 1
      BY <2>5
    <3>2. QED
      BY <1>2, <2>1, <2>5, <3>1 DEF CommitRow
  <2>6. QED
    BY <1>1, <1>4, <2>3, <2>4, <2>5
<1>9. QED
  BY <1>4, <1>5, <1>6, <1>7, <1>8

LEMMA AddAgent ==
  ASSUME IInv, AgentHasProfile, NEW i \in Items, NEW c \in Threads \cup {None}, Add(i, c)
  PROVE  AgentHasProfile'
<1>1. Kind[i] # "profile" /\ crossed' = crossed
  BY DEF Add
<1>2. <<i, c>> \in Cells /\ rows \in [Cells -> Seq(Values)]
  BY RowIsThere DEF IInv, Shape
<1>3. PICK row : rows' = [rows EXCEPT ![<<i, c>>] = row]
                 /\ (Kind[i] = "agent" => row = Append(rows[<<i, c>>], "changed"))
  BY DEF Add, Live, Threaded
<1>4. CASE Kind[i] # "agent"
  <2>1. \A j \in Items : Kind[j] \in {"agent", "profile"} =>
           <<j, None>> \in Cells /\ <<j, None>> # <<i, c>>
    BY <1>1, <1>4 DEF Cells
  <2>2. QED
    BY <1>1, <1>2, <1>3, <2>1, AgentFrame
<1>5. CASE Kind[i] = "agent"
  <2>1. c = None /\ rows[<<i, c>>] = << >>
    BY <1>5 DEF Add
  <2>2. Append(<< >>, "changed") = <<"changed">> /\ <<"changed">> # <<"seeded">> /\ << >> # <<"seeded">>
    OBVIOUS
  <2>3. rows'[<<i, None>>] = <<"changed">>
    BY <1>2, <1>3, <1>5, <2>1, <2>2
  <2>4. ASSUME NEW j \in Items, j # i  PROVE rows'[<<j, None>>] = rows[<<j, None>>]
    <3>1. <<j, None>> \in Cells /\ <<j, None>> # <<i, c>>
      BY <2>4 DEF Cells
    <3>2. QED
      BY <1>2, <1>3, <3>1
  <2>5. QED
    BY <1>1, <1>5, <2>1, <2>2, <2>3, <2>4 DEF AgentHasProfile
<1>6. QED
  BY <1>4, <1>5

LEMMA NextAgent ==
  ASSUME OneAgent, IInv, AgentHasProfile, [Next]_vars
  PROVE  AgentHasProfile'
<1>1. CASE rows' = rows /\ crossed' = crossed
  BY <1>1, AgentFrame
<1>2. ASSUME NEW p \in Procs, Commit(p), ~Fail(p)  PROVE AgentHasProfile'
  BY <1>2, CommitGivesProfile
<1>3. ASSUME NEW i \in Items, NEW c \in Threads \cup {None}, Add(i, c)  PROVE AgentHasProfile'
  BY <1>3, AddAgent
<1>4. ASSUME NEW i \in Items, NEW n \in DOMAIN rows[<<i, None>>],
             Delete(i, n) \/ \E v \in Values : Edit(i, n, v)
      PROVE  AgentHasProfile'
  <2>1. /\ Kind[i] \notin {"agent", "profile"} /\ crossed' = crossed
        /\ \E row : rows' = [rows EXCEPT ![<<i, None>>] = row]
    BY <1>4 DEF Delete, Edit, Live
  <2>2. \A j \in Items \ {i} : <<j, None>> \in Cells /\ <<j, None>> # <<i, None>>
    BY DEF Cells
  <2>3. \A j \in Items \ {i} : rows'[<<j, None>>] = rows[<<j, None>>]
    BY <2>1, <2>2 DEF IInv, Shape
  <2>4. QED
    BY <2>1, <2>3, AgentFrame
<1>5. ASSUME NEW i \in Items, NEW j \in Items, ChangeRole(i, j)  PROVE AgentHasProfile'
  <2>1. PICK x \in Cells, y \in Cells : \E new, lost :
          /\ x = <<i, None>> /\ y = <<j, None>> /\ x[1] = i /\ y[1] = j
          /\ Live(new, lost) /\ RoleChanged(x, y, new, lost) /\ rows[x] # << >>
          /\ Kind[i] = "agent" /\ Kind[j] = "profile" /\ crossed' = (Running # {})
    BY <1>5, ChangeRoleIs
  <2>2. PICK new, lost :
          /\ x = <<i, None>> /\ y = <<j, None>> /\ x[1] = i /\ y[1] = j
          /\ Live(new, lost) /\ RoleChanged(x, y, new, lost) /\ rows[x] # << >>
          /\ Kind[i] = "agent" /\ Kind[j] = "profile" /\ crossed' = (Running # {})
    BY <2>1
  <2>3. new[x] = <<"seeded">> <=> new[y] # << >>
    BY <2>2, ChangeRoleRows DEF IInv
  <2>4. rows' = new
    BY <2>2 DEF Live
  <2>5. \A k, l \in Items : Kind[k] = "agent" /\ Kind[l] = "profile" => k = i /\ l = j
    BY <2>2 DEF OneAgent
  <2>6. QED
    BY <2>2, <2>3, <2>4, <2>5 DEF AgentHasProfile
<1>6. ASSUME NEW p \in Procs, Fail(p) \/ Begin(p) \/ LooksUp(p) \/ EnsureDmThread(p) \/ Flush(p)
      PROVE  rows' = rows /\ crossed' = crossed
  BY <1>6 DEF Fail, Begin, LooksUp, LookUp, EnsureDmThread, FindThread, Flush, dbVars, history
<1>7. SeedSuperadmin \/ UNCHANGED vars => rows' = rows /\ crossed' = crossed
  BY DEF SeedSuperadmin, vars, dbVars, history
<1>8. LiveNext => AgentHasProfile'
  BY <1>1, <1>3, <1>4, <1>5, <1>7 DEF LiveNext
<1>9. QED
  BY <1>1, <1>2, <1>6, <1>7, <1>8, StepIs DEF Next

\* The pilot agent has a profile exactly while its role is the agent's, unless
\* its role was last changed beside a run of the script (seed_pilot.py:374).
THEOREM AgentKeepsProfile ==
  ASSUME OneAgent
  PROVE  Spec => []AgentHasProfile
<1>1. Init => AgentHasProfile
  <2>1. << >> # <<"seeded">>
    OBVIOUS
  <2>2. ASSUME Init, NEW i \in Items  PROVE rows[<<i, None>>] = << >>
    BY <2>2 DEF Init, Cells
  <2>3. QED
    BY <2>1, <2>2 DEF AgentHasProfile
<1>2. IInv /\ AgentHasProfile /\ [Next]_vars => AgentHasProfile'
  BY NextAgent
<1>3. QED
  BY <1>1, <1>2, Inductive, PTL DEF Spec
(***************************************************************************)
(* The migration: of the lock and of the version, whatever the revisions   *)
(* contain; and of the schema, from what the revisions do when nobody      *)
(* interferes (RevisionsFit, which names no constant and which TLC         *)
(* computes as an assumption of Migration).                                *)
(***************************************************************************)
Labels == {"none", "new", "upgrading", "downgrading", "done", "failed"}

Types ==
    /\ version \in Nat
    /\ phase \in [Instances -> {"down", "locking", "migrating", "serving"}]
    /\ image \in [Instances -> Nat]
    /\ child \in [Instances -> Labels]
    /\ from \in [Instances -> Nat]
    /\ ddl \in Instances \cup {Nobody}

\* A child at work is an orphan, or its parent holds the lock.
Holder ==
    \A i \in Instances :
        child[i] \in {"new", "upgrading", "downgrading"} => i \in orphans \/ lock = i

\* The transaction that changes the schema began at the committed version;
\* an upgrade goes up, a downgrade is alone, and nobody has a child before the
\* lock.
Directions ==
    /\ ddl # Nobody => child[ddl] \in {"upgrading", "downgrading"} /\ version = from[ddl]
    /\ \A i \in Instances : child[i] = "upgrading" => from[i] < image[i]
    /\ \A i \in Instances : child[i] = "downgrading" =>
          /\ from[i] > 0
          /\ \A j \in Instances : phase[j] = "down" /\ (j # i => child[j] = "none")
    /\ \A i \in Instances : phase[i] = "locking" => child[i] = "none"

\* A parent whose child succeeded finds its revisions applied, still.
Applied ==
    \A i \in Instances : phase[i] = "migrating" /\ child[i] = "done" => version >= image[i]

MInv == Types /\ Holder /\ Directions /\ Applied
-----------------------------------------------------------------------------
LEMMA InitMInv ==
  MigrationInit => MInv
<1> SUFFICES ASSUME MigrationInit  PROVE MInv
  OBVIOUS
<1>1. Latest = 2
  BY DEF Latest, Up
<1>2. image \in [Instances -> Nat]
  BY <1>1 DEF MigrationInit
<1>3. QED
  BY <1>2 DEF MigrationInit, MInv, Types, Labels, Holder, Directions, Applied

\* The parents' steps.
LEMMA ParentStep ==
  ASSUME MInv, NEW i \in Instances,
         Start(i) \/ Acquire(i) \/ Finish(i) \/ LoseConnection(i)
  PROVE  MInv'
<1>1. CASE Start(i)
  BY <1>1 DEF Start, children, MInv, Types, Labels, Holder, Directions, Applied
<1>2. CASE Acquire(i)
  BY <1>2, NobodyAssumption DEF Acquire, MInv, Types, Labels, Holder, Directions, Applied
<1>3. CASE Finish(i)
  BY <1>3 DEF Finish, MInv, Types, Labels, Holder, Directions, Applied
<1>4. CASE LoseConnection(i)
  BY <1>4 DEF LoseConnection, children, MInv, Types, Labels, Holder, Directions, Applied
<1>5. QED
  BY <1>1, <1>2, <1>3, <1>4

\* The ends of parents and of what they leave.
LEMMA EndStep ==
  ASSUME MInv, NEW i \in Instances, Kill(i) \/ Reap(i) \/ StartDowngrade(i)
  PROVE  MInv'
<1>1. CASE Kill(i)
  BY <1>1 DEF Kill, MInv, Types, Labels, Holder, Directions, Applied
<1>2. CASE Reap(i)
  BY <1>2 DEF Reap, parents, MInv, Types, Labels, Holder, Directions, Applied
<1>3. CASE StartDowngrade(i)
  <2>1. /\ \A j \in Instances : phase[j] = "down" /\ child[j] = "none"
        /\ version \in Nat /\ version > 0 /\ ddl = Nobody
        /\ from' = [from EXCEPT ![i] = version] /\ child' = [child EXCEPT ![i] = "downgrading"]
        /\ orphans' = orphans \cup {i}
        /\ version' = version /\ ddl' = ddl /\ phase' = phase /\ image' = image /\ lock' = lock
    BY <1>3 DEF StartDowngrade, EndChild, parents, MInv, Types, Directions
  <2>2. Types' /\ Holder'
    BY <2>1 DEF MInv, Types, Labels, Holder
  <2>3. Directions' /\ Applied'
    BY <2>1 DEF MInv, Types, Directions, Applied
  <2>4. QED
    BY <2>2, <2>3 DEF MInv
<1>4. QED
  BY <1>1, <1>2, <1>3

\* The child's steps.
LEMMA ChildStep ==
  ASSUME MInv, NEW i \in Instances,
         ReadVersion(i) \/ Open(i) \/ Execute(i) \/ CommitRevisions(i) \/ Break(i)
  PROVE  MInv'
<1>1. CASE ReadVersion(i)
  BY <1>1
     DEF ReadVersion, EndChild, parents, MInv, Types, Labels, Holder, Directions, Applied
<1>2. CASE Open(i)
  BY <1>2
     DEF Open, EndChild, parents, MInv, Types, Labels, Holder, Directions, Applied
<1>3. CASE Execute(i)
  <2>1. /\ version' = version /\ phase' = phase /\ image' = image /\ lock' = lock
        /\ from' = from /\ orphans' = orphans
        /\ \/ child' = child /\ ddl' = ddl
           \/ child' = [child EXCEPT ![i] = "failed"] /\ ddl' = Nobody
    BY <1>3 DEF Execute, EndChild, Idle, parents
  <2>2. CASE child' = child /\ ddl' = ddl
    BY <2>1, <2>2 DEF MInv, Types, Holder, Directions, Applied
  <2>3. CASE child' = [child EXCEPT ![i] = "failed"] /\ ddl' = Nobody
    <3>1. /\ child'[i] = "failed" /\ \A j \in Instances \ {i} : child'[j] = child[j]
          /\ Types'
      BY <2>1, <2>3 DEF MInv, Types, Labels
    <3>2. child[i] \in {"upgrading", "downgrading"}
      BY <1>3, NobodyAssumption DEF Execute, MInv, Directions
    <3>3. Holder' /\ Applied'
      BY <2>1, <3>1 DEF MInv, Holder, Applied
    <3>4. Directions'
      BY <2>1, <2>3, <3>1, <3>2 DEF MInv, Directions
    <3>5. QED
      BY <3>1, <3>3, <3>4 DEF MInv
  <2>4. QED
    BY <2>1, <2>2, <2>3
<1>4. CASE CommitRevisions(i)
  <2>1. /\ ddl = i /\ child[i] \in {"upgrading", "downgrading"} /\ version = from[i]
        /\ child' = [child EXCEPT ![i] = "done"] /\ ddl' = Nobody
        /\ phase' = phase /\ image' = image /\ lock' = lock /\ from' = from /\ orphans' = orphans
        /\ version' = IF child[i] = "downgrading" THEN from[i] - 1 ELSE image[i]
    BY <1>4, NobodyAssumption DEF CommitRevisions, EndChild, Idle, parents, Target, MInv, Directions
  <2>2. Types'
    BY <2>1 DEF MInv, Types, Labels, Directions
  <2>3. Holder' /\ Directions'
    BY <2>1 DEF MInv, Types, Holder, Directions
  <2>4. Applied'
    <3>1. CASE child[i] = "downgrading"
      BY <2>1, <3>1 DEF MInv, Directions, Applied
    <3>2. CASE child[i] = "upgrading"
      BY <2>1, <3>2 DEF MInv, Types, Directions, Applied
    <3>3. QED
      BY <2>1, <3>1, <3>2
  <2>5. QED
    BY <2>2, <2>3, <2>4 DEF MInv
<1>5. CASE Break(i)
  BY <1>5
     DEF Break, EndChild, Idle, parents, MInv, Types, Labels, Holder, Directions, Applied
<1>6. QED
  BY <1>1, <1>2, <1>3, <1>4, <1>5

LEMMA NextMInv ==
  MInv /\ [MigrationNext]_migrationVars => MInv'
<1>1. ASSUME MInv, UNCHANGED migrationVars  PROVE MInv'
  BY <1>1 DEF migrationVars, parents, children, MInv, Types, Holder, Directions, Applied
<1>2. QED
  BY <1>1, ParentStep, EndStep, ChildStep DEF MigrationNext, Go

\* What the other theorems rest on.
THEOREM MigrationInductive ==
  MigrationSpec => []MInv
<1>1. MigrationInit => MInv
  BY InitMInv
<1>2. MInv /\ [MigrationNext]_migrationVars => MInv'
  BY NextMInv
<1>3. QED
  BY <1>1, <1>2, PTL DEF MigrationSpec

\* Of the children at work, however many instances start, die and lose their
\* connections, at most one has a parent that holds the lock
\* (scripts/migrate.py:32-60).
THEOREM LockedMigrator ==
  MigrationSpec => []OneMigrator
<1>1. MInv => OneMigrator
  BY DEF MInv, Types, Labels, Holder, OneMigrator
<1>2. QED
  BY <1>1, MigrationInductive, PTL

\* A server started after its migration finds all its revisions applied, also
\* beside older images and after downgrades (Dockerfile, scripts/migrate.py).
THEOREM ServesWhatItKnows ==
  MigrationSpec => ServesMigrated
<1> DEFINE A == \A i \in Instances :
                  (phase[i] = "migrating" /\ phase'[i] = "serving") => version >= image[i]
<1>1. MInv /\ [MigrationNext]_migrationVars => [A]_migrationVars
  <2> SUFFICES ASSUME MInv, MigrationNext, NEW i \in Instances,
                      phase[i] = "migrating", phase'[i] = "serving"
               PROVE  version >= image[i]
    OBVIOUS
  <2>1. PICK j \in Instances : Start(j) \/ Acquire(j) \/ Go(j) \/ LoseConnection(j)
                               \/ Kill(j) \/ Break(j) \/ StartDowngrade(j)
    BY DEF MigrationNext
  <2>2. CASE Finish(j)
    BY <2>2 DEF Finish, MInv, Types, Applied
  <2>3. CASE Start(j) \/ Acquire(j) \/ Kill(j)
    BY <2>3 DEF Start, Acquire, Kill, MInv, Types
  <2>4. CASE phase' = phase
    BY <2>4
  <2>5. QED
    BY <2>1, <2>2, <2>3, <2>4
       DEF Go, LoseConnection, Break, StartDowngrade, ReadVersion, Open, Execute,
           CommitRevisions, Reap, parents
<1>2. QED
  BY <1>1, MigrationInductive, PTL DEF MigrationSpec, ServesMigrated
-----------------------------------------------------------------------------
(***************************************************************************)
(* The schema.  What is committed is always what whole revisions lead to,  *)
(* and the open transaction sees what its own statements have made of it.  *)
(***************************************************************************)
Ranges ==
    /\ version \in 0..Latest
    /\ image \in [Instances -> 1..Latest]
    /\ from \in [Instances -> 0..Latest]

Committed == schema \in Reached(version)

InProgress ==
    /\ ddl = Nobody => next = 1
    /\ ddl # Nobody => /\ next \in 1..Len(Todo(ddl)) + 1
                     /\ work = Stages(Todo(ddl), schema)[next]

SchemaInv == Ranges /\ Committed /\ InProgress

LEMMA LatestIs == Latest = 2
BY DEF Latest, Up

\* What a child executes from the version it found is whole revisions.
LEMMA TodoIsSound ==
  ASSUME MInv, SchemaInv, NEW i \in Instances,
         child[i] \in {"upgrading", "downgrading"}, version = from[i]
  PROVE  Sound(Todo(i), schema, Reached(Target(i)))
<1>1. version \in 0..Latest /\ image[i] \in 1..Latest /\ schema \in Reached(version)
  BY DEF SchemaInv, Ranges, Committed
<1>2. CASE child[i] = "downgrading"
  <2>1. version > 0
    BY <1>2 DEF MInv, Directions
  <2>2. Sound(Downgrade(version), schema, Reached(version - 1))
    BY <1>1, <2>1, RevisionsAssumption DEF RevisionsFit
  <2>3. QED
    BY <1>2, <2>2 DEF Todo, Target
<1>3. CASE child[i] = "upgrading"
  <2>1. image[i] \in version + 1..Latest
    BY <1>1, <1>3, LatestIs DEF MInv, Directions
  <2>2. Sound(Upgrade(version, image[i]), schema, Reached(image[i]))
    BY <1>1, <2>1, RevisionsAssumption DEF RevisionsFit
  <2>3. QED
    BY <1>3, <2>2 DEF Todo, Target
<1>4. QED
  BY <1>2, <1>3

\* A step that leaves the database and the child with the open transaction as
\* they are.
LEMMA SchemaFrame ==
  ASSUME SchemaInv, Ranges', UNCHANGED <<version, schema, ddl, work, next>>,
         ddl # Nobody => /\ child'[ddl] = child[ddl] /\ from'[ddl] = from[ddl]
                       /\ image'[ddl] = image[ddl]
  PROVE  SchemaInv'
<1>1. Committed'
  BY DEF SchemaInv, Committed
<1>2. ASSUME ddl # Nobody  PROVE Todo(ddl)' = Todo(ddl)
  BY <1>2 DEF Todo
<1>3. InProgress'
  BY <1>2 DEF SchemaInv, InProgress
<1>4. QED
  BY <1>1, <1>3 DEF SchemaInv

\* So does the end of the transaction without a commit.
LEMMA RolledBack ==
  ASSUME SchemaInv, Ranges', UNCHANGED <<version, schema>>, ddl' = Nobody, next' = 1
  PROVE  SchemaInv'
BY DEF SchemaInv, Committed, InProgress

LEMMA OpenSchema ==
  ASSUME MInv, SchemaInv, NEW i \in Instances, Open(i)
  PROVE  SchemaInv'
<1>1. Ranges'
  BY DEF Open, parents, SchemaInv, Ranges
<1>2. CASE version = from[i]
  <2>1. /\ ddl' = i /\ work' = schema /\ next' = next /\ schema' = schema /\ version' = version
        /\ child' = child /\ from' = from /\ image' = image /\ next = 1
    BY <1>2 DEF Open, parents, SchemaInv, InProgress
  <2>2. Sound(Todo(i), schema, Reached(Target(i)))
    BY <1>2, TodoIsSound DEF Open
  <2>3. Len(Todo(i)) \in Nat /\ Stages(Todo(i), schema)[1] = schema
    BY <2>2 DEF Sound
  <2>4. Todo(i)' = Todo(i)
    BY <2>1 DEF Todo
  <2>5. PICK todo : todo = Todo(i)
    OBVIOUS
  <2>6. next' \in 1..Len(todo) + 1 /\ work' = Stages(todo, schema')[next']
    BY <2>1, <2>3, <2>5
  <2>7. InProgress'
    BY <2>1, <2>4, <2>5, <2>6 DEF InProgress
  <2>8. Committed'
    BY <2>1 DEF SchemaInv, Committed
  <2>9. QED
    BY <1>1, <2>7, <2>8 DEF SchemaInv
<1>3. CASE version # from[i]
  BY <1>1, <1>3, SchemaFrame DEF Open, parents
<1>4. QED
  BY <1>2, <1>3

LEMMA ExecuteSchema ==
  ASSUME MInv, SchemaInv, NEW i \in Instances, Execute(i)
  PROVE  SchemaInv' /\ Runs(Todo(i)[next], work)
<1>1. /\ ddl = i /\ i # Nobody /\ child[i] \in {"upgrading", "downgrading"} /\ version = from[i]
  BY NobodyAssumption DEF Execute, MInv, Directions
<1>2. PICK todo, n : todo = Todo(i) /\ n = next
  OBVIOUS
<1>3. Sound(todo, schema, Reached(Target(i)))
  BY <1>1, <1>2, TodoIsSound
<1>4. n \in 1..Len(todo) + 1 /\ n <= Len(todo) /\ work = Stages(todo, schema)[n]
  BY <1>1, <1>2 DEF Execute, SchemaInv, InProgress
<1>5. Len(todo) \in Nat /\ n \in 1..Len(todo)
  BY <1>3, <1>4 DEF Sound
<1>6. Runs(todo[n], work) /\ Stages(todo, schema)[n + 1] = After(todo[n], work)
  BY <1>3, <1>4, <1>5 DEF Sound
<1>7. /\ work' = After(todo[n], work) /\ next' = n + 1 /\ ddl' = ddl /\ child' = child
      /\ version' = version /\ schema' = schema /\ image' = image /\ from' = from
  BY <1>2, <1>6 DEF Execute, parents
<1>8. Todo(i)' = todo
  BY <1>2, <1>7 DEF Todo
<1>9. InProgress'
  BY <1>1, <1>5, <1>6, <1>7, <1>8 DEF InProgress
<1>10. Ranges' /\ Committed'
  BY <1>7 DEF SchemaInv, Ranges, Committed
<1>11. QED
  BY <1>2, <1>6, <1>9, <1>10 DEF SchemaInv

LEMMA CommitSchema ==
  ASSUME MInv, SchemaInv, NEW i \in Instances, CommitRevisions(i)
  PROVE  SchemaInv'
<1>1. /\ ddl = i /\ i # Nobody /\ child[i] \in {"upgrading", "downgrading"} /\ version = from[i]
  BY NobodyAssumption DEF CommitRevisions, MInv, Directions
<1>2. PICK todo, goal : todo = Todo(i) /\ goal = Target(i)
  OBVIOUS
<1>3. Sound(todo, schema, Reached(goal))
  BY <1>1, <1>2, TodoIsSound
<1>4. work = Stages(todo, schema)[Len(todo) + 1]
  BY <1>1, <1>2 DEF CommitRevisions, SchemaInv, InProgress
<1>5. /\ schema' = work /\ version' = goal /\ ddl' = Nobody /\ next' = 1
      /\ image' = image /\ from' = from
  BY <1>2 DEF CommitRevisions, Idle, parents
<1>6. schema' \in Reached(goal)
  BY <1>3, <1>4, <1>5 DEF Sound
<1>7. goal \in 0..Latest
  BY <1>1, <1>2, LatestIs DEF Target, SchemaInv, Ranges, MInv, Directions
<1>8. QED
  BY <1>5, <1>6, <1>7 DEF SchemaInv, Ranges, Committed, InProgress

LEMMA NextSchema ==
  MInv /\ SchemaInv /\ [MigrationNext]_migrationVars => SchemaInv'
<1> SUFFICES ASSUME MInv, SchemaInv, [MigrationNext]_migrationVars  PROVE SchemaInv'
  OBVIOUS
<1>1. CASE UNCHANGED migrationVars
  BY <1>1, SchemaFrame DEF migrationVars, parents, children, SchemaInv, Ranges
<1>2. ASSUME NEW i \in Instances, Start(i) \/ LoseConnection(i)  PROVE SchemaInv'
  BY <1>2, SchemaFrame DEF Start, LoseConnection, children, SchemaInv, Ranges
<1>3. ASSUME NEW i \in Instances, Acquire(i)  PROVE SchemaInv'
  <2>1. Ranges' /\ UNCHANGED <<version, schema, ddl, work, next, from, image>>
    BY <1>3 DEF Acquire, SchemaInv, Ranges
  <2>2. ddl # i \/ ddl = Nobody
    BY <1>3 DEF Acquire, MInv, Directions
  <2>3. ddl # Nobody => child'[ddl] = child[ddl]
    BY <1>3, <2>2 DEF Acquire, MInv, Types
  <2>4. QED
    BY <2>1, <2>3, SchemaFrame
<1>4. ASSUME NEW i \in Instances, Finish(i) \/ Reap(i)  PROVE SchemaInv'
  <2>1. Ranges' /\ UNCHANGED <<version, schema, ddl, work, next, from, image>>
    BY <1>4 DEF Finish, Reap, parents, SchemaInv, Ranges
  <2>2. child[i] \in {"done", "failed"} /\ child' = [child EXCEPT ![i] = "none"]
    BY <1>4 DEF Finish, Reap
  <2>3. ddl # Nobody => child'[ddl] = child[ddl]
    BY <2>2 DEF MInv, Types, Directions
  <2>4. QED
    BY <2>1, <2>3, SchemaFrame
<1>5. ASSUME NEW i \in Instances, Kill(i)  PROVE SchemaInv'
  <2>1. Ranges' /\ UNCHANGED <<version, schema, image, from>>
    BY <1>5 DEF Kill, SchemaInv, Ranges
  <2>2. CASE UNCHANGED <<child, ddl, work, next>>
    BY <2>1, <2>2, SchemaFrame
  <2>3. CASE child' = [child EXCEPT ![i] = "none"] /\ ddl = i /\ ddl' = Nobody /\ next' = 1
    BY <2>1, <2>3, RolledBack
  <2>4. CASE child' = [child EXCEPT ![i] = "none"] /\ ddl # i /\ UNCHANGED <<ddl, work, next>>
    <3>1. ddl # Nobody => child'[ddl] = child[ddl]
      BY <2>4 DEF MInv, Types
    <3>2. QED
      BY <2>1, <2>4, <3>1, SchemaFrame
  <2>5. QED
    BY <1>5, <2>2, <2>3, <2>4 DEF Kill
<1>6. ASSUME NEW i \in Instances, ReadVersion(i)  PROVE SchemaInv'
  <2>1. /\ from' = [from EXCEPT ![i] = version] /\ child[i] = "new"
        /\ UNCHANGED <<version, schema, ddl, work, next, image>>
        /\ \E how : child' = [child EXCEPT ![i] = how]
    BY <1>6 DEF ReadVersion, EndChild, parents
  <2>2. Ranges'
    BY <2>1 DEF SchemaInv, Ranges
  <2>3. ddl # Nobody => child'[ddl] = child[ddl] /\ from'[ddl] = from[ddl]
    BY <2>1 DEF MInv, Types, Directions
  <2>4. QED
    BY <2>1, <2>2, <2>3, SchemaFrame
<1>7. ASSUME NEW i \in Instances, Break(i)  PROVE SchemaInv'
  <2>1. Ranges' /\ UNCHANGED <<version, schema, image, from>>
    BY <1>7 DEF Break, parents, SchemaInv, Ranges
  <2>2. CASE ddl = i
    BY <1>7, <2>1, <2>2, RolledBack DEF Break, Idle
  <2>3. CASE ddl # i
    <3>1. ddl # Nobody => child'[ddl] = child[ddl]
      BY <1>7, <2>3 DEF Break, EndChild, MInv, Types
    <3>2. QED
      BY <1>7, <2>1, <2>3, <3>1, SchemaFrame DEF Break
  <2>4. QED
    BY <2>2, <2>3
<1>8. ASSUME NEW i \in Instances, StartDowngrade(i)  PROVE SchemaInv'
  <2>1. /\ \A j \in Instances : child[j] = "none"
        /\ from' = [from EXCEPT ![i] = version]
        /\ UNCHANGED <<version, schema, ddl, work, next, image>>
    BY <1>8 DEF StartDowngrade, parents
  <2>2. ddl = Nobody
    BY <2>1 DEF MInv, Types, Directions
  <2>3. Ranges'
    BY <2>1 DEF SchemaInv, Ranges
  <2>4. QED
    BY <2>1, <2>2, <2>3, SchemaFrame
<1>9. QED
  BY <1>1, <1>2, <1>3, <1>4, <1>5, <1>6, <1>7, <1>8, OpenSchema, ExecuteSchema, CommitSchema
     DEF MigrationNext, Go

\* What is committed is always the schema of a whole number of revisions, and
\* an open transaction is where its statements have led it, whoever dies or
\* overlaps (scripts/migrate.py, alembic/env.py:34-37).
THEOREM WholeRevisions ==
  MigrationSpec => []SchemaInv
<1>1. MigrationInit => SchemaInv
  <2>1. ASSUME MigrationInit  PROVE Ranges /\ InProgress
    BY <2>1, LatestIs DEF MigrationInit, Ranges, InProgress
  <2>2. ASSUME MigrationInit  PROVE Committed
    BY <2>2 DEF MigrationInit, Committed, Reached
  <2>3. QED
    BY <2>1, <2>2 DEF SchemaInv
<1>2. QED
  BY <1>1, NextSchema, MigrationInductive, PTL DEF MigrationSpec

\* At the last revision the database is what models.py declares, and at none
\* it is empty, for any number of instances.
THEOREM HeadMatchesModels ==
  MigrationSpec => []HeadIsTheModels
<1>1. SchemaInv => HeadIsTheModels
  BY LatestIs DEF SchemaInv, Committed, Reached, HeadIsTheModels
<1>2. QED
  BY <1>1, WholeRevisions, PTL

\* No statement of a revision fails, up or down, for any number of instances:
\* the version a transaction began at is still the committed one.
THEOREM EveryStatementRuns ==
  MigrationSpec => []StatementsRun
<1>1. MInv /\ SchemaInv => StatementsRun
  <2> SUFFICES ASSUME MInv, SchemaInv, ddl # Nobody, next <= Len(Todo(ddl))
               PROVE  Runs(Todo(ddl)[next], work)
    BY DEF StatementsRun
  <2>1. PICK i \in Instances : ddl = i
    BY DEF MInv, Types
  <2>2. Sound(Todo(i), schema, Reached(Target(i)))
    BY <2>1, TodoIsSound DEF MInv, Directions
  <2>3. next \in 1..Len(Todo(i)) /\ work = Stages(Todo(i), schema)[next]
    BY <2>1, <2>2 DEF SchemaInv, InProgress, Sound
  <2>4. QED
    BY <2>1, <2>2, <2>3 DEF Sound
<1>2. QED
  BY <1>1, MigrationInductive, WholeRevisions, PTL
-----------------------------------------------------------------------------
(***************************************************************************)
(* The holder of the lock.  LockTaken needs it to be at work.              *)
(***************************************************************************)
\* A parent that migrates has a child; so has every orphan; and who holds the
\* lock migrates.
Parenthood ==
    /\ lock \in Instances \cup {Nobody}
    /\ orphans \subseteq {i \in Instances : child[i] # "none"}
    /\ \A i \in Instances : phase[i] = "migrating" => child[i] # "none"
    /\ lock # Nobody => phase[lock] = "migrating"

\* A child that reads, that may open its transaction or has it open, or one
\* that has ended and is waited for.
AtWork(i) ==
    \/ child[i] = "new"
    \/ child[i] \in {"upgrading", "downgrading"} /\ ddl \in {i, Nobody}
    \/ child[i] \in {"done", "failed"} /\ phase[i] = "migrating"

\* While the lock is held, its holder is at work, or waits for the tables
\* behind a transaction whose child is.
LockHeldAtWork == lock # Nobody => AtWork(lock) \/ (ddl # Nobody /\ AtWork(ddl))

LEMMA ParentsOfInit == MigrationInit => Parenthood
BY DEF MigrationInit, Parenthood

\* A child that goes from one label to another is still there.
LEMMA ChildrenStay ==
  ASSUME Types, Parenthood, NEW i \in Instances, NEW how \in Labels \ {"none"},
         \/ child' = child \/ child' = [child EXCEPT ![i] = how],
         phase' = phase, lock' = lock, orphans' = orphans
  PROVE  Parenthood'
BY DEF Types, Parenthood

LEMMA NextParenthood ==
  ASSUME Types, Parenthood, [MigrationNext]_migrationVars
  PROVE  Parenthood'
<1>1. CASE UNCHANGED migrationVars
  BY <1>1 DEF migrationVars, parents, children, Parenthood
<1>2. ASSUME NEW i \in Instances, Start(i)  PROVE Parenthood'
  BY <1>2 DEF Start, children, Types, Parenthood
<1>3. ASSUME NEW i \in Instances, Acquire(i)  PROVE Parenthood'
  BY <1>3, NobodyAssumption DEF Acquire, Types, Parenthood
<1>4. ASSUME NEW i \in Instances, Finish(i)  PROVE Parenthood'
  BY <1>4 DEF Finish, Types, Parenthood
<1>5. ASSUME NEW i \in Instances, LoseConnection(i)  PROVE Parenthood'
  BY <1>5, NobodyAssumption DEF LoseConnection, children, Types, Parenthood
<1>6. ASSUME NEW i \in Instances, Kill(i)  PROVE Parenthood'
  BY <1>6 DEF Kill, Types, Parenthood
<1>7. ASSUME NEW i \in Instances, Reap(i)  PROVE Parenthood'
  BY <1>7 DEF Reap, parents, Types, Parenthood
<1>8. ASSUME NEW i \in Instances, StartDowngrade(i)  PROVE Parenthood'
  BY <1>8 DEF StartDowngrade, EndChild, parents, Types, Parenthood
<1>9. ASSUME NEW i \in Instances,
             ReadVersion(i) \/ Open(i) \/ Execute(i) \/ CommitRevisions(i) \/ Break(i)
      PROVE  Parenthood'
  <2>1. /\ \E how \in Labels \ {"none"} : child' = child \/ child' = [child EXCEPT ![i] = how]
        /\ phase' = phase /\ lock' = lock /\ orphans' = orphans
    BY <1>9 DEF ReadVersion, Open, Execute, CommitRevisions, Break, EndChild, Labels, parents
  <2>2. QED
    BY <2>1, ChildrenStay
<1>10. QED
  BY <1>1, <1>2, <1>3, <1>4, <1>5, <1>6, <1>7, <1>8, <1>9 DEF MigrationNext, Go

THEOREM ParentsKnown == MigrationSpec => []Parenthood
<1>1. MInv => Types
  BY DEF MInv
<1>2. QED
  BY <1>1, ParentsOfInit, NextParenthood, MigrationInductive, PTL DEF MigrationSpec

\* Nobody who waits for the lock waits for an instance that does nothing: its
\* holder is at work or behind one that is, whoever dies, loses a connection
\* or is left behind (scripts/migrate.py:32-60).
THEOREM LockIsAtWork == MigrationSpec => []LockHeldAtWork
<1>1. MInv /\ Parenthood => LockHeldAtWork
  <2> SUFFICES ASSUME MInv, Parenthood, lock # Nobody
               PROVE  AtWork(lock) \/ (ddl # Nobody /\ AtWork(ddl))
    BY DEF LockHeldAtWork
  <2>1. lock \in Instances /\ phase[lock] = "migrating" /\ child[lock] \in Labels \ {"none"}
    BY DEF MInv, Types, Parenthood
  <2>2. ddl # Nobody => AtWork(ddl)
    BY DEF MInv, Directions, AtWork
  <2>3. ddl = Nobody => AtWork(lock)
    BY <2>1 DEF AtWork, Labels
  <2>4. QED
    BY <2>2, <2>3
<1>2. QED
  BY <1>1, MigrationInductive, ParentsKnown, PTL

\* The types of the migration, for any number of instances.
THEOREM MigrationTypeCorrect == MigrationSpec => []MigrationTypeOK
<1>1. MInv /\ SchemaInv /\ Parenthood => MigrationTypeOK
  <2> SUFFICES ASSUME MInv, SchemaInv, Parenthood  PROVE MigrationTypeOK
    OBVIOUS
  <2>1. ddl # Nobody => /\ child[ddl] \in {"upgrading", "downgrading"}
                        /\ next \in 1..Len(Todo(ddl)) + 1
    BY DEF MInv, Directions, SchemaInv, InProgress
  <2>2. QED
    BY <2>1 DEF MInv, Types, Labels, SchemaInv, Ranges, Parenthood, MigrationTypeOK
<1>2. QED
  BY <1>1, MigrationInductive, WholeRevisions, ParentsKnown, PTL
=============================================================================
