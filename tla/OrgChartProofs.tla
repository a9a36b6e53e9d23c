--------------------------- MODULE OrgChartProofs ---------------------------
(***************************************************************************)
(* Proofs about OrgChart, for every number of requests, accounts,          *)
(* departments and spellings.                                              *)
(***************************************************************************)
EXTENDS OrgChart, FiniteSetTheorems, WellFoundedInduction, TLAPS

\* The columns a request may write to department d.
DeptWrites(w, d) ==
    /\ Has("name", w) => w["name"] \in Names
    /\ Has("parent", w) =>
          /\ w["parent"] \in Departments \cup {None}
          /\ w["parent"] # d
          /\ w["parent"] # None => dept[w["parent"]] # None

\* The columns a request may write to an account: only those it was asked for.
UserWrites(w, asks) ==
    /\ DOMAIN w \subseteq asks
    /\ Has("manager", w) => w["manager"] \in Users \cup {None}
    /\ Has("active", w) => w["active"] \in BOOLEAN

\* What a request carries at the await `label'.
Carries(label, r) ==
    /\ DOMAIN r = DOMAIN Blank
    /\ label \in {"idle", "insert", "check", "dept_commit", "user_commit"}
    /\ label \in {"insert", "check"} => r.row \in Department
    /\ label = "insert" /\ r.row.parent # None => dept[r.row.parent] # None
    /\ label = "check" /\ Has("name", r.writes) => r.writes["name"] = r.row.name
    /\ label \in {"check", "dept_commit"} =>
          /\ r.id \in Departments /\ dept[r.id] # None
          /\ DeptWrites(r.writes, r.id)
    /\ label = "user_commit" => r.id \in Users /\ UserWrites(r.writes, r.asks)

\* A request about to give a name found no other department of that name, or
\* another name was given since.
Looked(p, label, r) ==
    /\ label = "insert" => r.padded \/ p \in renamed \/ Named(r.row.name) = {}
    /\ label = "dept_commit" /\ Has("name", r.writes) =>
          p \in renamed \/ Named(r.writes["name"]) \subseteq {r.id}

Requests ==
    /\ req = [p \in Procs |-> req[p]]
    /\ \A p \in Procs : Carries(pc[p], req[p]) /\ Looked(p, pc[p], req[p])

IInv == TypeOK /\ Requests /\ NamesApart
-----------------------------------------------------------------------------
LEMMA WrittenDept ==
  ASSUME NEW row \in Department, NEW w
  PROVE  /\ Written(row, w).name = IF Has("name", w) THEN w["name"] ELSE row.name
         /\ Written(row, w).parent = IF Has("parent", w) THEN w["parent"] ELSE row.parent
         /\ (Has("name", w) => w["name"] \in Names)
            /\ (Has("parent", w) => w["parent"] \in Departments \cup {None})
            => Written(row, w) \in Department
BY DEF Written, Department

LEMMA WrittenUser ==
  ASSUME NEW row \in Account, NEW w
  PROVE  /\ Written(row, w).manager = IF Has("manager", w) THEN w["manager"] ELSE row.manager
         /\ Written(row, w).active = IF Has("active", w) THEN w["active"] ELSE row.active
         /\ (Has("manager", w) => w["manager"] \in Users \cup {None})
            /\ (Has("active", w) => w["active"] \in BOOLEAN)
            => Written(row, w) \in Account
BY DEF Written, Account

\* The columns in which a changed row differs.
LEMMA ChangesDept ==
  ASSUME NEW old \in Department, NEW new \in Department
  PROVE  LET w == Changes(old, new) IN
         /\ Has("name", w) => w["name"] = new.name /\ new.name # old.name
         /\ Has("parent", w) => w["parent"] = new.parent /\ new.parent # old.parent
BY DEF Changes, Department, Has

LEMMA ChangesUser ==
  ASSUME NEW old \in Account, NEW new \in Account
  PROVE  LET w == Changes(old, new) IN
         /\ DOMAIN w \subseteq {"manager", "active"}
         /\ Has("manager", w) => w["manager"] = new.manager /\ new.manager # old.manager
         /\ Has("active", w) => w["active"] = new.active /\ new.active # old.active
BY DEF Changes, Account, Has
-----------------------------------------------------------------------------
LEMMA InitIInv == Init => IInv
BY NameAssumption, NoneAssumption
   DEF Init, IInv, TypeOK, Requests, Carries, Looked, NamesApart, Named, Blank, Account, Department

\* A request that goes on to its next await.
LEMMA ContinueStep ==
  ASSUME IInv, NEW p \in Procs, NEW label, NEW r, Continue(p, label, r),
         Carries(label, r), Looked(p, label, r)
  PROVE  IInv'
<1>1. /\ pc' = [pc EXCEPT ![p] = label] /\ req' = [req EXCEPT ![p] = r]
      /\ dept' = dept /\ user' = user /\ renamed' = renamed /\ excused' = excused
  BY DEF Continue
<1>2. TypeOK'
  BY <1>1 DEF IInv, TypeOK, Requests, Carries
<1>3. Requests'
  <2> SUFFICES ASSUME NEW q \in Procs
               PROVE  (Carries(pc[q], req[q]) /\ Looked(q, pc[q], req[q]))'
    BY <1>1 DEF IInv, Requests
  <2>1. CASE q = p
    <3>1. pc'[q] = label /\ req'[q] = r
      BY <1>1, <2>1 DEF IInv, TypeOK, Requests
    <3>2. QED
      BY <1>1, <2>1, <3>1 DEF Carries, Looked, DeptWrites, UserWrites, Named, Has
  <2>2. CASE q # p
    <3>1. pc'[q] = pc[q] /\ req'[q] = req[q]
      BY <1>1, <2>2 DEF IInv, TypeOK, Requests
    <3>2. QED
      BY <1>1, <3>1 DEF IInv, Requests, Carries, Looked, DeptWrites, UserWrites, Named, Has
  <2>3. QED
    BY <2>1, <2>2
<1>4. NamesApart'
  BY <1>1 DEF IInv, NamesApart
<1>5. QED
  BY <1>2, <1>3, <1>4 DEF IInv

\* What the end of a request leaves of the others, whatever rows it wrote:
\* departments and accounts are never deleted.
LEMMA OthersCarry ==
  ASSUME IInv, NEW p \in Procs, NEW names, Finish(p, names),
         \A d \in Departments : dept[d] # None => dept'[d] # None
  PROVE  /\ req' = [q \in Procs |-> req'[q]]
         /\ \A q \in Procs : Carries(pc[q], req[q])'
         /\ \A q \in Procs \ {p} : pc'[q] = pc[q] /\ req'[q] = req[q]
         /\ pc'[p] = "idle" /\ pc' \in [Procs -> {"idle", "insert", "check", "dept_commit", "user_commit"}]
         /\ \A q \in Procs : DOMAIN req'[q] = DOMAIN Blank
         /\ renamed' \subseteq Procs
         /\ \A q \in Procs \ {p} : q \in renamed => q \in renamed'
         /\ names => \A q \in Procs \ {p} : pc[q] # "idle" => q \in renamed'
<1>1. /\ pc' = [pc EXCEPT ![p] = "idle"] /\ req' = [req EXCEPT ![p] = Blank]
      /\ renamed' = (renamed \cup IF names THEN {q \in Procs : pc[q] # "idle"} ELSE {}) \ {p}
  BY DEF Finish
<1>2. /\ req' = [q \in Procs |-> req'[q]]
      /\ \A q \in Procs \ {p} : pc'[q] = pc[q] /\ req'[q] = req[q]
      /\ pc'[p] = "idle" /\ req'[p] = Blank
      /\ pc' \in [Procs -> {"idle", "insert", "check", "dept_commit", "user_commit"}]
      /\ renamed' \subseteq Procs
  BY <1>1 DEF IInv, TypeOK, Requests
<1>3. \A q \in Procs : DOMAIN req'[q] = DOMAIN Blank
  BY <1>2 DEF IInv, TypeOK
<1>4. ASSUME NEW q \in Procs  PROVE Carries(pc[q], req[q])'
  <2>1. CASE q = p
    BY <1>2, <2>1 DEF Carries
  <2>2. CASE q # p
    <3>1. Carries(pc[q], req[q]) /\ pc'[q] = pc[q] /\ req'[q] = req[q]
      BY <1>2, <2>2 DEF IInv, Requests
    <3>2. \A d \in Departments \cup {None} : (d # None => dept[d] # None) => (d # None => dept'[d] # None)
      OBVIOUS
    <3>3. QED
      BY <3>1, <3>2 DEF Carries, DeptWrites, UserWrites, Department, Has
  <2>3. QED
    BY <2>1, <2>2
<1>5. QED
  BY <1>1, <1>2, <1>3, <1>4

\* A request that ends without having given a name.
LEMMA QuietStep ==
  ASSUME IInv, NEW p \in Procs, Finish(p, FALSE), dept' = dept, excused' = excused,
         user' \in [Users -> Account]
  PROVE  IInv'
<1>1. TypeOK'
  BY OthersCarry DEF IInv, TypeOK
<1>2. ASSUME NEW q \in Procs  PROVE Looked(q, pc[q], req[q])'
  <2>1. CASE q = p
    BY <2>1, OthersCarry DEF Looked
  <2>2. CASE q # p
    <3>1. pc'[q] = pc[q] /\ req'[q] = req[q] /\ (q \in renamed => q \in renamed')
      BY <2>2, OthersCarry
    <3>2. Looked(q, pc[q], req[q])
      BY DEF IInv, Requests
    <3>3. QED
      BY <3>1, <3>2 DEF Looked, Named, Has
  <2>3. QED
    BY <2>1, <2>2
<1>3. Requests'
  BY OthersCarry, <1>2 DEF Requests
<1>4. NamesApart'
  BY DEF IInv, NamesApart
<1>5. QED
  BY <1>1, <1>3, <1>4 DEF IInv

LEMMA LeaveStep ==
  ASSUME IInv, NEW p \in Procs, Leave(p)
  PROVE  IInv'
BY QuietStep DEF Leave, IInv, TypeOK

LEMMA CommitUserStep ==
  ASSUME IInv, NEW p \in Procs, CommitUser(p)
  PROVE  IInv'
<1> DEFINE u == req[p].id
           w == req[p].writes
<1>1. u \in Users /\ UserWrites(w, req[p].asks)
  BY DEF CommitUser, IInv, Requests, Carries
<1>2. user' = [user EXCEPT ![u] = Written(user[u], w)] /\ user[u] \in Account
  BY <1>1 DEF CommitUser, Store, IInv, TypeOK
<1>3. Written(user[u], w) \in Account
  BY <1>1, <1>2, WrittenUser DEF UserWrites, IInv, TypeOK
<1>4. user' \in [Users -> Account]
  BY <1>1, <1>2, <1>3 DEF IInv, TypeOK
<1>5. QED
  BY <1>4, QuietStep DEF CommitUser

\* A request that moves department d and leaves its name.
LEMMA ParentStep ==
  ASSUME IInv, NEW p \in Procs, Finish(p, FALSE), user' = user, excused' = excused,
         NEW d \in Departments, NEW new \in Department,
         dept' = [dept EXCEPT ![d] = new],
         dept[d] # None, new.name = dept[d].name,
         new.parent # d, new.parent # None => dept[new.parent] # None
  PROVE  IInv'
<1>1. /\ \A e \in Departments : dept[e] # None <=> dept'[e] # None
      /\ \A e \in Departments : dept[e] # None => dept'[e].name = dept[e].name
      /\ dept'[d] = new /\ new # None
      /\ \A e \in Departments \ {d} : dept'[e] = dept[e]
  BY NoneAssumption DEF IInv, TypeOK
<1>2. TypeOK'
  <2>1. dept' \in [Departments -> Department \cup {None}]
    BY DEF IInv, TypeOK
  <2>2. ASSUME NEW e \in Departments, dept'[e] # None
        PROVE  /\ dept'[e].parent # e
               /\ dept'[e].parent # None => dept'[dept'[e].parent] # None
               /\ \A f \in Departments \ {e} :
                     dept'[f] # None => dept'[f].name # dept'[e].name
    <3>1. CASE e = d
      BY <1>1, <3>1 DEF IInv, TypeOK, Department
    <3>2. CASE e # d
      BY <1>1, <2>2, <3>2 DEF IInv, TypeOK, Department
    <3>3. QED
      BY <3>1, <3>2
  <2>3. QED
    BY <2>1, <2>2, <1>1, OthersCarry DEF IInv, TypeOK
<1>3. Requests'
  <2>1. \A n : Named(n)' = Named(n)
    BY <1>1 DEF Named
  <2>2. ASSUME NEW q \in Procs  PROVE Looked(q, pc[q], req[q])'
    <3>1. CASE q = p
      BY <3>1, OthersCarry, <1>1 DEF Looked
    <3>2. CASE q # p
      <4>1. pc'[q] = pc[q] /\ req'[q] = req[q] /\ (q \in renamed => q \in renamed')
        BY <3>2, <1>1, OthersCarry, ZenonT(40)
      <4>2. Looked(q, pc[q], req[q])
        BY DEF IInv, Requests
      <4>3. QED
        BY <2>1, <4>1, <4>2 DEF Looked, Has
    <3>3. QED
      BY <3>1, <3>2
  <2>3. QED
    BY <1>1, <2>2, OthersCarry DEF Requests
<1>4. NamesApart'
  BY <1>1 DEF IInv, NamesApart
<1>5. QED
  BY <1>2, <1>3, <1>4 DEF IInv

\* A request that ends having given department d a name: every other request
\* under way is one since whose start that happened.
LEMMA NamingStep ==
  ASSUME IInv, NEW p \in Procs, Finish(p, TRUE), user' = user,
         NEW d \in Departments, NEW new \in Department,
         dept' = [dept EXCEPT ![d] = new],
         new.parent # d, new.parent # None => dept[new.parent] # None,
         \A e \in Departments \ {d} : dept[e] # None => dept[e].name # new.name,
         excused' \subseteq Departments, excused \ {d} \subseteq excused',
         d \notin excused' => Named(new.name) \subseteq {d}
  PROVE  IInv'
<1>1. /\ \A e \in Departments : dept[e] # None => dept'[e] # None
      /\ dept'[d] = new /\ new # None
      /\ \A e \in Departments \ {d} : dept'[e] = dept[e]
  BY NoneAssumption DEF IInv, TypeOK
<1>2. TypeOK'
  <2>1. dept' \in [Departments -> Department \cup {None}]
    BY DEF IInv, TypeOK
  <2>2. \A e \in Departments : dept'[e] # None =>
          /\ dept'[e].parent # e
          /\ dept'[e].parent # None => dept'[dept'[e].parent] # None
          /\ \A f \in Departments \ {e} : dept'[f] # None => dept'[f].name # dept'[e].name
    <3> SUFFICES ASSUME NEW e \in Departments, dept'[e] # None
                 PROVE  /\ dept'[e].parent # e
                        /\ dept'[e].parent # None => dept'[dept'[e].parent] # None
                        /\ \A f \in Departments \ {e} :
                              dept'[f] # None => dept'[f].name # dept'[e].name
      OBVIOUS
    <3>1. CASE e = d
      BY <1>1, <3>1 DEF Department
    <3>2. CASE e # d
      BY <1>1, <3>2 DEF IInv, TypeOK, Department
    <3>3. QED
      BY <3>1, <3>2
  <2>3. QED
    BY <2>1, <2>2, <1>1, OthersCarry DEF IInv, TypeOK
<1>3. Requests'
  <2> SUFFICES ASSUME NEW q \in Procs  PROVE Looked(q, pc[q], req[q])'
    BY <1>1, OthersCarry DEF Requests
  <2>1. pc'[q] = "idle" \/ q \in renamed'
    BY <1>1, OthersCarry
  <2>2. QED
    BY <2>1 DEF Looked
<1>4. NamesApart'
  <2> SUFFICES ASSUME NEW e \in Departments, NEW f \in Departments, e # f,
                      dept'[e] # None, dept'[f] # None,
                      Lower[dept'[e].name] = Lower[dept'[f].name],
                      {e, f} \cap excused' = {}
               PROVE  FALSE
    BY Zenon DEF NamesApart
  <2>1. CASE d \notin {e, f}
    BY <1>1, <2>1 DEF IInv, NamesApart
  <2>2. CASE d \in {e, f}
    <3>1. Named(new.name) \subseteq {d}
      BY <2>2
    <3>2. QED
      BY <1>1, <2>2, <3>1 DEF Named
  <2>3. QED
    BY <2>1, <2>2
<1>5. QED
  BY <1>2, <1>3, <1>4 DEF IInv

LEMMA InsertStep ==
  ASSUME IInv, NEW p \in Procs, NEW d \in Departments, Insert(p, d)
  PROVE  IInv'
<1> DEFINE row == req[p].row
<1>1. /\ row \in Department
      /\ row.parent # None => dept[row.parent] # None
      /\ req[p].padded \/ p \in renamed \/ Named(row.name) = {}
  BY DEF Insert, IInv, Requests, Carries, Looked
<1>2. dept[d] = None /\ row.parent # d
  BY <1>1, NoneAssumption DEF Insert
<1>3. /\ excused' \subseteq Departments /\ excused \subseteq excused'
      /\ d \notin excused' => Named(row.name) = {}
  BY <1>1 DEF Insert, IInv, TypeOK
<1>4. QED
  BY <1>1, <1>2, <1>3, NamingStep DEF Insert

LEMMA CommitDeptStep ==
  ASSUME IInv, NEW p \in Procs, CommitDept(p)
  PROVE  IInv'
<1> DEFINE d == req[p].id
           w == req[p].writes
           new == Written(dept[d], w)
<1>1. /\ d \in Departments /\ dept[d] # None /\ DeptWrites(w, d)
      /\ Has("name", w) => p \in renamed \/ Named(w["name"]) \subseteq {d}
  BY DEF CommitDept, IInv, Requests, Carries, Looked
<1>2. /\ dept[d] \in Department
      /\ dept[d].parent # d
      /\ dept[d].parent # None => dept[dept[d].parent] # None
  BY <1>1 DEF IInv, TypeOK
<1>3. /\ new \in Department
      /\ new.name = IF Has("name", w) THEN w["name"] ELSE dept[d].name
      /\ new.parent # d
      /\ new.parent # None => dept[new.parent] # None
  BY <1>1, <1>2, WrittenDept DEF DeptWrites
<1>4. /\ dept' = [dept EXCEPT ![d] = new] /\ user' = user
      /\ \A e \in Departments \ {d} : dept[e] # None => dept[e].name # new.name
      /\ excused' = IF Has("name", w)
                    THEN IF p \in renamed THEN excused \cup {d} ELSE excused \ {d}
                    ELSE excused
  BY DEF CommitDept
<1>5. CASE Has("name", w)
  <2>1. Finish(p, TRUE)
    BY <1>5 DEF CommitDept, Finish
  <2>2. /\ excused' \subseteq Departments /\ excused \ {d} \subseteq excused'
        /\ d \notin excused' => Named(new.name) \subseteq {d}
    BY <1>1, <1>3, <1>4, <1>5 DEF IInv, TypeOK
  <2>3. QED
    BY <1>1, <1>3, <1>4, <2>1, <2>2, NamingStep
<1>6. CASE ~Has("name", w)
  <2>1. Finish(p, FALSE)
    BY <1>6 DEF CommitDept, Finish
  <2>2. QED
    BY <1>1, <1>2, <1>3, <1>4, <1>6, <2>1, ParentStep
<1>7. QED
  BY <1>5, <1>6
-----------------------------------------------------------------------------
LEMMA CreateStep ==
  ASSUME IInv, NEW p \in Procs, NEW n \in Names, NEW padded \in BOOLEAN,
         NEW parent \in Departments \cup {None}, Create(p, n, padded, parent)
  PROVE  IInv'
<1> DEFINE row == [name |-> n, parent |-> parent]
           r == [Blank EXCEPT !.row = row, !.padded = padded]
<1>1. /\ row \in Department /\ DOMAIN r = DOMAIN Blank
      /\ r.row = row /\ r.padded = padded /\ row.parent = parent /\ row.name = n
  BY DEF Blank, Department
<1>2. /\ padded \/ Named(n) = {}
      /\ parent # None => dept[parent] # None
      /\ Continue(p, "insert", r)
  BY DEF Create
<1>3. Carries("insert", r)
  BY <1>1, <1>2 DEF Carries
<1>4. Looked(p, "insert", r)
  BY <1>1, <1>2 DEF Looked
<1>5. QED
  BY <1>2, <1>3, <1>4, ContinueStep

LEMMA SeekRootStep ==
  ASSUME IInv, NEW p \in Procs, SeekRoot(p)
  PROVE  IInv'
<1> DEFINE row == [name |-> Root, parent |-> None]
           r == [Blank EXCEPT !.row = row, !.padded = Named(Root) # {}]
<1>1. /\ row \in Department /\ DOMAIN r = DOMAIN Blank
      /\ r.row = row /\ r.padded = (Named(Root) # {}) /\ row.parent = None /\ row.name = Root
  BY NameAssumption DEF Blank, Department
<1>2. Continue(p, "insert", r)
  BY DEF SeekRoot
<1>3. Carries("insert", r)
  BY <1>1 DEF Carries
<1>4. Looked(p, "insert", r)
  BY <1>1 DEF Looked
<1>5. QED
  BY <1>2, <1>3, <1>4, ContinueStep

LEMMA LoadDeptStep ==
  ASSUME IInv, NEW p \in Procs, NEW d \in Departments, NEW n \in Names \cup {Unset},
         NEW parent \in Departments \cup {None, Unset}, LoadDept(p, d, n, parent)
  PROVE  IInv'
<1> DEFINE old == dept[d]
           new == [old EXCEPT !.name = IF n = Unset THEN @ ELSE n,
                              !.parent = IF parent = Unset THEN @ ELSE parent]
           w == Changes(old, new)
           r == [Blank EXCEPT !.id = d, !.row = IF n = Unset THEN None ELSE new,
                              !.writes = w]
           label == IF n = Unset THEN "dept_commit" ELSE "check"
<1>1. /\ old \in Department /\ old # None /\ parent # d
      /\ parent \notin {Unset, None} => dept[parent] # None
      /\ Continue(p, label, r)
  BY DEF LoadDept, IInv, TypeOK
<1>2. /\ new \in Department
      /\ new.name = IF n = Unset THEN old.name ELSE n
      /\ new.parent = IF parent = Unset THEN old.parent ELSE parent
  BY <1>1 DEF Department
<1>3. /\ Has("name", w) => w["name"] = new.name /\ new.name # old.name
      /\ Has("parent", w) => w["parent"] = new.parent /\ new.parent # old.parent
  BY <1>1, <1>2, ChangesDept
<1>4. /\ DOMAIN r = DOMAIN Blank /\ r.id = d /\ r.writes = w
      /\ r.row = IF n = Unset THEN None ELSE new
  BY DEF Blank
<1>5. DeptWrites(w, d)
  BY <1>1, <1>2, <1>3 DEF DeptWrites, Department
<1>6. Carries(label, r)
  BY <1>1, <1>2, <1>3, <1>4, <1>5 DEF Carries
<1>7. Looked(p, label, r)
  BY <1>2, <1>3, <1>4 DEF Looked
<1>8. QED
  BY <1>1, <1>6, <1>7, ContinueStep

LEMMA CheckNameStep ==
  ASSUME IInv, NEW p \in Procs, CheckName(p)
  PROVE  IInv'
<1> DEFINE r == req[p]
           s == [r EXCEPT !.row = None]
<1>1. pc[p] = "check" /\ Carries("check", r)
  BY DEF CheckName, IInv, Requests
<1>2. CASE Named(r.row.name) \ {r.id} # {}
  BY <1>2, LeaveStep DEF CheckName
<1>3. CASE Named(r.row.name) \ {r.id} = {}
  <2>1. Continue(p, "dept_commit", s)
    BY <1>3 DEF CheckName
  <2>2. DOMAIN s = DOMAIN Blank /\ s.id = r.id /\ s.writes = r.writes
    BY <1>1 DEF Carries, Blank
  <2>3. Carries("dept_commit", s)
    BY <1>1, <2>2 DEF Carries
  <2>4. Looked(p, "dept_commit", s)
    BY <1>1, <1>3, <2>2 DEF Looked, Carries
  <2>5. QED
    BY <2>1, <2>3, <2>4, ContinueStep
<1>4. QED
  BY <1>2, <1>3

LEMMA LoadUserStep ==
  ASSUME IInv, NEW p \in Procs, NEW u \in Users, NEW asks \in SUBSET {"manager", "active"},
         NEW m \in Users \cup {None}, NEW a \in BOOLEAN, LoadUser(p, u, asks, m, a)
  PROVE  IInv'
<1> DEFINE old == user[u]
           new == [manager |-> IF "manager" \in asks THEN m ELSE old.manager,
                   active |-> IF "active" \in asks THEN a ELSE old.active]
           w == Changes(old, new)
           r == [Blank EXCEPT !.id = u, !.row = new, !.asks = asks, !.writes = w]
<1>1. old \in Account /\ Continue(p, "user_commit", r)
  BY DEF LoadUser, IInv, TypeOK
<1>2. new \in Account
  BY <1>1 DEF Account
<1>3. /\ DOMAIN w \subseteq {"manager", "active"}
      /\ Has("manager", w) => w["manager"] = new.manager /\ new.manager # old.manager
      /\ Has("active", w) => w["active"] = new.active /\ new.active # old.active
  BY <1>1, <1>2, ChangesUser
<1>4. UserWrites(w, asks)
  BY <1>1, <1>2, <1>3 DEF UserWrites, Account, Has
<1>5. /\ DOMAIN r = DOMAIN Blank /\ r.id = u /\ r.writes = w /\ r.asks = asks
  BY DEF Blank
<1>6. Carries("user_commit", r) /\ Looked(p, "user_commit", r)
  BY <1>4, <1>5 DEF Carries, Looked
<1>7. QED
  BY <1>1, <1>6, ContinueStep
-----------------------------------------------------------------------------
LEMMA NextIInv == IInv /\ [Next]_vars => IInv'
<1> SUFFICES ASSUME IInv, [Next]_vars  PROVE IInv'
  OBVIOUS
<1>1. CASE UNCHANGED vars
  BY <1>1 DEF vars, IInv, TypeOK, Requests, Carries, Looked, DeptWrites, UserWrites, Named, Has,
              NamesApart
<1>2. ASSUME NEW p \in Procs, DeptRequest(p)  PROVE IInv'
  BY <1>2, CreateStep, SeekRootStep, InsertStep, LoadDeptStep, CheckNameStep, CommitDeptStep
     DEF DeptRequest
<1>3. ASSUME NEW p \in Procs, UserRequest(p)  PROVE IInv'
  BY <1>3, LoadUserStep, CommitUserStep DEF UserRequest, UpdateUser, UpdateManager, UpdateAgent
<1>4. ASSUME NEW p \in Procs, Abort(p)  PROVE IInv'
  BY <1>4, LeaveStep DEF Abort
<1>5. QED
  BY <1>1, <1>2, <1>3, <1>4 DEF Next

\* What the invariant rests on: no request and no row is ever in a state the
\* handlers do not expect, whatever they read before and write after an await.
THEOREM Inductive == Spec => []IInv
BY InitIInv, NextIInv, PTL DEF Spec

\* The rows keep their shape, the unique key holds, every parent is there, and
\* no department is its own (org/router.py:79-122, 171-229).
THEOREM TypeCorrect == Spec => []TypeOK
<1>1. IInv => TypeOK
  BY DEF IInv
<1>2. QED
  BY <1>1, Inductive, PTL

\* Names repeat in different case only where the look-up by lower case could
\* not see it (org/router.py:86-90, 184-195).
THEOREM NamesStayApart == Spec => []NamesApart
<1>1. IInv => NamesApart
  BY DEF IInv
<1>2. QED
  BY <1>1, Inductive, PTL

\* A PATCH writes only the fields it was asked for, however old the row it had
\* loaded (org/router.py:303-368, 380-403, agents/router.py:126-164).
THEOREM WritesAsAsked == Spec => OnlyAsAsked
<1> DEFINE A == \A u \in Users, f \in {"manager", "active"} :
                  user'[u][f] # user[u][f]
                  => \E p \in Procs : /\ pc[p] = "user_commit" /\ pc'[p] = "idle"
                                      /\ req[p].id = u /\ f \in req[p].asks
<1>1. IInv /\ [Next]_vars => [A]_vars
  <2> SUFFICES ASSUME IInv, Next,
                      NEW u \in Users, NEW f \in {"manager", "active"},
                      user'[u][f] # user[u][f]
               PROVE  \E p \in Procs : /\ pc[p] = "user_commit" /\ pc'[p] = "idle"
                                       /\ req[p].id = u /\ f \in req[p].asks
    OBVIOUS
  <2>1. PICK p \in Procs : CommitUser(p)
    <3>1. user' # user
      BY SMTT(30)
    <3>2. ASSUME NEW p \in Procs, DeptRequest(p)  PROVE user' = user
      BY <3>2 DEF DeptRequest, Create, SeekRoot, Insert, LoadDept, CheckName, CommitDept,
                  Continue, Leave
    <3>3. ASSUME NEW p \in Procs, Abort(p)  PROVE user' = user
      BY <3>3 DEF Abort, Leave
    <3>4. ASSUME NEW p \in Procs, UserRequest(p), ~CommitUser(p)  PROVE user' = user
      <4>1. PICK v, asks, m, a : LoadUser(p, v, asks, m, a)
        BY <3>4 DEF UserRequest, UpdateUser, UpdateManager, UpdateAgent
      <4>2. QED
        BY <4>1 DEF LoadUser, Continue
    <3>5. QED
      BY <3>1, <3>2, <3>3, <3>4 DEF Next
  <2>2. /\ req[p].id \in Users /\ UserWrites(req[p].writes, req[p].asks)
        /\ pc[p] = "user_commit" /\ pc'[p] = "idle"
    BY <2>1 DEF CommitUser, Finish, IInv, TypeOK, Requests, Carries
  <2>3. user' = [user EXCEPT ![req[p].id] = Written(user[req[p].id], req[p].writes)]
    BY <2>1 DEF CommitUser, Store
  <2>4. u = req[p].id /\ user[u] \in Account
    BY <2>2, <2>3 DEF IInv, TypeOK
  <2>5. f \in DOMAIN req[p].writes
    BY <2>2, <2>3, <2>4, WrittenUser DEF Has, IInv, TypeOK
  <2>6. QED
    BY <2>2, <2>4, <2>5 DEF UserWrites
<1>2. QED
  BY <1>1, Inductive, PTL DEF Spec, OnlyAsAsked

-----------------------------------------------------------------------------
(***************************************************************************)
(* The chart.  Levels is defined by recursion over the naturals: that such *)
(* a function exists, and that it stops growing after as many levels as    *)
(* there are accounts, is shown by induction.                              *)
(***************************************************************************)
\* A non-empty set of naturals has a least element.
LEMMA Least ==
  ASSUME NEW T \in SUBSET Nat, T # {}
  PROVE  \E x \in T : \A y \in T : ~(y < x)
<1>1. \E x \in T : \A y \in T : <<y, x>> \notin OpToRel(<, Nat)
  BY NatLessThanWellFounded, WFMin
<1>2. QED
  BY <1>1 DEF OpToRel

\* Induction, as a statement about a set of naturals.
LEMMA Induction ==
  ASSUME NEW T, 0 \in T, \A n \in Nat : n \in T => n + 1 \in T
  PROVE  Nat \subseteq T
<1>1. SUFFICES ASSUME Nat \ T # {}
               PROVE  FALSE
  OBVIOUS
<1>2. PICK x \in Nat \ T : \A y \in Nat \ T : ~(y < x)
  BY <1>1, Least
<1>3. x - 1 \in Nat /\ x - 1 < x /\ (x - 1) + 1 = x
  BY <1>2
<1>4. QED
  BY <1>2, <1>3

\* The first n + 1 values of an iteration.
Begins(f, x0, F, n) ==
    /\ f \in [0 .. n -> DOMAIN F]
    /\ f[0] = x0
    /\ \A m \in 0 .. n : m # 0 => f[m] = F[f[m - 1]]

\* Two such beginnings agree as far as both go.
LEMMA BeginsUnique ==
  ASSUME NEW X, NEW F \in [X -> X], NEW x0 \in X, NEW n \in Nat, NEW k \in Nat,
         n <= k, NEW f, NEW g, Begins(f, x0, F, n), Begins(g, x0, F, k)
  PROVE  \A m \in 0 .. n : f[m] = g[m]
<1> DEFINE T == {m \in Nat : m <= n => f[m] = g[m]}
<1>1. 0 \in T
  BY DEF Begins
<1>2. ASSUME NEW m \in Nat, m \in T
      PROVE  m + 1 \in T
  <2>1. SUFFICES ASSUME m + 1 <= n
                 PROVE  f[m + 1] = g[m + 1]
    OBVIOUS
  <2>2. f[m] = g[m]
    BY <1>2, <2>1
  <2>3. m + 1 \in 0 .. n /\ m + 1 \in 0 .. k /\ m + 1 # 0 /\ (m + 1) - 1 = m
    BY <2>1
  <2>4. QED
    BY <2>2, <2>3 DEF Begins
<1> HIDE DEF T
<1>3. Nat \subseteq T
  BY <1>1, <1>2, Induction
<1>4. QED
  BY <1>3 DEF T

\* There is one of every length.
LEMMA BeginsExist ==
  ASSUME NEW X, NEW F \in [X -> X], NEW x0 \in X
  PROVE  \A n \in Nat : \E f : Begins(f, x0, F, n)
<1> DEFINE T == {n \in Nat : \E f : Begins(f, x0, F, n)}
<1>1. 0 \in T
  <2>1. Begins([m \in 0 .. 0 |-> x0], x0, F, 0)
    BY DEF Begins
  <2>2. QED
    BY <2>1
<1>2. ASSUME NEW n \in Nat, n \in T
      PROVE  n + 1 \in T
  <2>1. PICK f : Begins(f, x0, F, n)
    BY <1>2
  <2> DEFINE g == [m \in 0 .. n + 1 |-> IF m = n + 1 THEN F[f[n]] ELSE f[m]]
  <2>2. g \in [0 .. n + 1 -> X]
    BY <2>1 DEF Begins
  <2>3. g[0] = x0
    BY <2>1 DEF Begins
  <2>4. ASSUME NEW m \in 0 .. n + 1, m # 0
        PROVE  g[m] = F[g[m - 1]]
    <3>1. CASE m = n + 1
      BY <3>1, <2>4
    <3>2. CASE m # n + 1
      <4>1. m \in 0 .. n /\ m - 1 \in 0 .. n + 1 /\ m - 1 # n + 1
        BY <2>4, <3>2
      <4>2. f[m] = F[f[m - 1]]
        BY <2>1, <2>4, <4>1 DEF Begins
      <4>3. QED
        BY <4>1, <4>2, <3>2
    <3>3. QED
      BY <3>1, <3>2
  <2> HIDE DEF g
  <2>5. Begins(g, x0, F, n + 1)
    BY <2>2, <2>3, <2>4 DEF Begins
  <2>6. QED
    BY <2>5
<1> HIDE DEF T
<1>3. Nat \subseteq T
  BY <1>1, <1>2, Induction
<1>4. QED
  BY <1>3 DEF T

\* f is x0, F[x0], F[F[x0]], ...
Iterates(f, x0, F) ==
    /\ f \in [Nat -> DOMAIN F]
    /\ f[0] = x0
    /\ \A n \in Nat : f[n + 1] = F[f[n]]

\* A function on the naturals may be defined by recursion.
LEMMA Iteration ==
  ASSUME NEW X, NEW F \in [X -> X], NEW x0 \in X
  PROVE  \E f : Iterates(f, x0, F)
<1> DEFINE part(n) == CHOOSE g : Begins(g, x0, F, n)
           f == [n \in Nat |-> part(n)[n]]
<1>1. \A n \in Nat : Begins(part(n), x0, F, n)
  BY BeginsExist
<1> HIDE DEF part
<1>2. f \in [Nat -> X]
  BY <1>1 DEF Begins
<1>3. f[0] = x0
  BY <1>1 DEF Begins
<1>4. ASSUME NEW n \in Nat
      PROVE  f[n + 1] = F[f[n]]
  <2>1. Begins(part(n), x0, F, n) /\ Begins(part(n + 1), x0, F, n + 1)
    BY <1>1
  <2>2. part(n)[n] = part(n + 1)[n]
    BY <2>1, BeginsUnique
  <2>3. part(n + 1)[n + 1] = F[part(n + 1)[n]]
    BY <2>1 DEF Begins
  <2>4. QED
    BY <2>2, <2>3
<1> HIDE DEF f
<1>5. Iterates(f, x0, F)
  BY <1>2, <1>3, <1>4 DEF Iterates
<1>6. QED
  BY <1>5

\* Who is within one level more.
NextLevel(L) == L \cup {u \in Active : user[u].manager \in L}

\* The recursion that defines the levels has a solution.
LEMMA LevelsDef ==
  /\ Levels[0] = Roots
  /\ \A n \in Nat : Levels[n + 1] = NextLevel(Levels[n])
<1> DEFINE X == SUBSET Active
           F == [L \in X |-> NextLevel(L)]
<1>1. F \in [X -> X] /\ Roots \in X
  BY DEF Roots, NextLevel
<1>2. PICK f : Iterates(f, Roots, F)
  <2> HIDE DEF X, F
  <2> QED
    BY <1>1, Iteration
<1>3. ASSUME NEW n \in Nat, n # 0
      PROVE  f[n] = NextLevel(f[n - 1])
  <2>1. n - 1 \in Nat /\ (n - 1) + 1 = n
    BY <1>3
  <2>2. f[n] = F[f[n - 1]] /\ f[n - 1] \in X
    BY <1>2, <2>1 DEF Iterates
  <2>3. QED
    BY <2>2
<1> DEFINE Solves(h) ==
             h = [n \in Nat |-> IF n = 0 THEN Roots
                  ELSE h[n - 1] \cup {u \in Active : user[u].manager \in h[n - 1]}]
<1>4. Solves(f)
  <2>1. f = [n \in Nat |-> f[n]]
    BY <1>2 DEF Iterates
  <2>2. \A n \in Nat :
          f[n] = IF n = 0 THEN Roots
                 ELSE f[n - 1] \cup {u \in Active : user[u].manager \in f[n - 1]}
    BY <1>2, <1>3 DEF Iterates, NextLevel
  <2>3. QED
    BY <2>1, <2>2, Zenon
<1>5. Levels = CHOOSE h : Solves(h)
  BY DEF Levels
<1> HIDE DEF Solves
<1>6. Solves(Levels)
  BY <1>4, <1>5
<1>7. \A n \in Nat : Levels[n] = IF n = 0 THEN Roots
                                 ELSE NextLevel(Levels[n - 1])
  BY <1>6 DEF Solves, NextLevel
<1>8. ASSUME NEW n \in Nat
      PROVE  Levels[n + 1] = NextLevel(Levels[n])
  <2>1. n + 1 \in Nat /\ n + 1 # 0 /\ (n + 1) - 1 = n
    OBVIOUS
  <2>2. QED
    BY <1>7, <2>1
<1>9. QED
  BY <1>7, <1>8

\* Only active accounts are shown, and the roots always are.
LEMMA LevelsBounds ==
  \A n \in Nat : Roots \subseteq Levels[n] /\ Levels[n] \subseteq Active
<1> DEFINE T == {n \in Nat : Roots \subseteq Levels[n] /\ Levels[n] \subseteq Active}
<1>1. 0 \in T
  BY LevelsDef DEF Roots
<1>2. \A n \in Nat : n \in T => n + 1 \in T
  BY LevelsDef DEF NextLevel
<1> HIDE DEF T
<1>3. Nat \subseteq T
  BY <1>1, <1>2, Induction
<1>4. QED
  BY <1>3 DEF T

\* A circle is on no level.
LEMMA CircleNotShown ==
  ASSUME NEW S \in SUBSET Active, \A v \in S : user[v].manager \in S
  PROVE  \A n \in Nat : Levels[n] \cap S = {}
<1> DEFINE T == {n \in Nat : Levels[n] \cap S = {}}
<1>1. 0 \in T
  BY LevelsDef DEF Roots
<1>2. \A n \in Nat : n \in T => n + 1 \in T
  BY LevelsDef DEF NextLevel
<1> HIDE DEF T
<1>3. Nat \subseteq T
  BY <1>1, <1>2, Induction
<1>4. QED
  BY <1>3 DEF T

\* Each level adds an account until one adds none.
LEMMA LevelsGrow ==
  ASSUME IsFiniteSet(Users)
  PROVE  \A n \in Nat : Levels[n + 1] = Levels[n] \/ Cardinality(Levels[n]) >= n
<1> DEFINE T == {n \in Nat : \/ Levels[n + 1] = Levels[n]
                            \/ Cardinality(Levels[n]) >= n}
<1>0. \A n \in Nat : /\ IsFiniteSet(Levels[n]) /\ Cardinality(Levels[n]) \in Nat
                     /\ Levels[n] \in SUBSET Users
  BY LevelsBounds, FS_Subset, FS_CardinalityType DEF Active
<1>1. 0 \in T
  BY <1>0
<1>2. ASSUME NEW n \in Nat, n \in T
      PROVE  n + 1 \in T
  <2>1. CASE Levels[n + 1] = Levels[n]
    BY <2>1, LevelsDef
  <2>2. CASE Levels[n + 1] # Levels[n]
    <3>1. Cardinality(Levels[n]) >= n
      BY <1>2, <2>2
    <3>2. Levels[n] \in SUBSET Levels[n + 1]
      BY LevelsDef DEF NextLevel
    <3>3. /\ Cardinality(Levels[n]) <= Cardinality(Levels[n + 1])
          /\ Cardinality(Levels[n]) # Cardinality(Levels[n + 1])
      BY <1>0, <2>2, <3>2, FS_Subset
    <3>4. Cardinality(Levels[n + 1]) >= n + 1
      BY <1>0, <3>1, <3>3
    <3>5. QED
      BY <3>4
  <2>3. QED
    BY <2>1, <2>2
<1> HIDE DEF T
<1>3. Nat \subseteq T
  BY <1>1, <1>2, Induction
<1>4. QED
  BY <1>3 DEF T

\* The chart shows everybody who reports to somebody it shows.
LEMMA ShownClosed ==
  ASSUME IsFiniteSet(Users)
  PROVE  NextLevel(Shown) = Shown
<1> DEFINE n == Cardinality(Users)
<1>1. n \in Nat
  BY FS_CardinalityType
<1>2. CASE Levels[n + 1] = Levels[n]
  BY <1>1, <1>2, LevelsDef DEF Shown
<1>3. CASE Cardinality(Levels[n]) >= n
  <2>1. Levels[n] \in SUBSET Users
    BY <1>1, LevelsBounds DEF Active
  <2>2. Cardinality(Levels[n]) = n /\ Levels[n] = Users
    BY <1>1, <1>3, <2>1, FS_Subset, FS_CardinalityType
  <2>3. QED
    BY <2>2 DEF Shown, NextLevel, Active
<1>4. QED
  BY <1>1, <1>2, <1>3, LevelsGrow

\* For any number of accounts and however they came to report to each other,
\* exactly those are missing from the chart that report in a circle or into
\* one (get_org_chart, build_node).
THEOREM ChartMissesCircles ==
  ASSUME IsFiniteSet(Users)
  PROVE  Spec => []MissingInCircles
<1>1. MissingInCircles
  <2>0. Cardinality(Users) \in Nat
    BY FS_CardinalityType
  <2>1. ASSUME NEW u \in Active, u \notin Shown
        PROVE  \E S \in SUBSET Active : u \in S /\ \A v \in S : user[v].manager \in S
    <3>1. \A v \in Active \ Shown : user[v].manager \in Active \ Shown
      BY <2>0, ShownClosed, LevelsBounds DEF NextLevel, Roots, Shown
    <3>2. QED
      BY <2>1, <3>1
  <2>2. ASSUME NEW u \in Active, NEW S \in SUBSET Active, u \in S,
               \A v \in S : user[v].manager \in S
        PROVE  u \notin Shown
    BY <2>0, <2>2, CircleNotShown DEF Shown
  <2>3. QED
    BY <2>1, <2>2 DEF MissingInCircles
<1>2. QED
  BY <1>1, PTL
=============================================================================
