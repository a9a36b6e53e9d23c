--------------------------- MODULE CountingProofs ---------------------------
(***************************************************************************)
(* Proofs about what is counted: the hits of RateLimit, for every limit,   *)
(* window, set of keys and clock resolution, and the minutes of TimeEntry, *)
(* for every shift, entry and number of breaks.                            *)
(***************************************************************************)
EXTENDS RateLimit, TimeEntry, FiniteSetTheorems, WellFoundedInduction, TLAPS

\* A caller that was refused was refused by a bucket.
RefusedByBucket == \A k \in Keys : retryAfter[k] > 0 => bucket[k] # None

IInv == TypeOK /\ WithinLimit /\ RefusedByBucket /\ RetryWithinASecond

-----------------------------------------------------------------------------
\* What int() drops is less than a second.
LEMMA WholeSeconds ==
  ASSUME NEW x \in Int, NEW s \in Nat \ {0}
  PROVE  /\ x \div s \in Int
         /\ x < (x \div s + 1) * s
<1>1. x \div s \in Int /\ x % s \in 0 .. s - 1
  OBVIOUS
<1>2. x = (x \div s) * s + (x % s)
  BY <1>1
<1>3. QED
  BY <1>1, <1>2

LEMMA WindowType == WindowLen \in Nat /\ WindowLen > 0
BY LimitAssumption DEF WindowLen

\* The answer to a refused caller is a positive number of whole seconds, one
\* more of which is past reset_at.
LEMMA RetryBound ==
  ASSUME NEW b \in Bucket, now \in Times
  PROVE  /\ RetrySeconds(b) \in Nat \ {0}
         /\ now + (RetrySeconds(b) + 1) * SecondLen > b.resetAt
<1> DEFINE left  == b.resetAt - now
           whole == left \div SecondLen
<1>1. left \in Int /\ b.resetAt \in Nat /\ now \in Nat
  BY LimitAssumption DEF Bucket, Times
<1>2. SecondLen \in Nat \ {0}
  BY LimitAssumption
<1>3. whole \in Int /\ left < (whole + 1) * SecondLen
  BY <1>1, <1>2, WholeSeconds
<1>4. RetrySeconds(b) = IF whole < 1 THEN 1 ELSE whole
  BY DEF RetrySeconds
<1> HIDE DEF whole
<1>5. RetrySeconds(b) \in Nat \ {0} /\ whole <= RetrySeconds(b)
  BY <1>3, <1>4
<1>6. (whole + 1) * SecondLen <= (RetrySeconds(b) + 1) * SecondLen
  BY <1>2, <1>3, <1>5
<1>7. left < (RetrySeconds(b) + 1) * SecondLen
  BY <1>1, <1>2, <1>3, <1>5, <1>6
<1>8. QED
  BY <1>1, <1>2, <1>5, <1>7

\* The bucket a hit counts in.
LEMMA CurrentType ==
  ASSUME TypeOK, WithinLimit, NEW k \in Keys
  PROVE  Current(k) \in Bucket /\ Current(k).count <= Limit
<1>1. now + WindowLen \in Nat
  BY WindowType, LimitAssumption DEF TypeOK, Times
<1>2. CASE Renewed(bucket[k])
  <2>1. Current(k) = [resetAt |-> now + WindowLen, count |-> 0]
    BY <1>2 DEF Current
  <2>2. QED
    BY <1>1, <2>1, LimitAssumption DEF Bucket
<1>3. CASE ~Renewed(bucket[k])
  <2>1. bucket[k] # None /\ Current(k) = bucket[k]
    BY <1>3 DEF Current, Renewed
  <2>2. QED
    BY <2>1 DEF TypeOK, WithinLimit
<1>4. QED
  BY <1>2, <1>3

-----------------------------------------------------------------------------
LEMMA AllowStep ==
  ASSUME IInv, NEW k \in Keys, Allow(k)
  PROVE  IInv'
<1> DEFINE b == Current(k)
           counted == [b EXCEPT !.count = @ + 1]
<1>1. b \in Bucket /\ b.count < Limit /\ now \in Times
  BY CurrentType DEF IInv, TypeOK, Allow
<1>2. counted \in Bucket /\ counted.count <= Limit
  BY <1>1, LimitAssumption DEF Bucket
<1>3. /\ bucket' = [bucket EXCEPT ![k] = counted]
      /\ retryAfter' = [retryAfter EXCEPT ![k] = 0]
      /\ asked' = [asked EXCEPT ![k] = now]
      /\ granted' = [granted EXCEPT ![k][now] = @ + 1]
      /\ now' = now
  BY DEF Allow
<1> HIDE DEF b, counted
<1>4. granted' \in [Keys -> [Times -> Nat]]
  <2> DEFINE g == [granted[k] EXCEPT ![now] = @ + 1]
  <2>1. granted[k][now] + 1 \in Nat
    BY <1>1 DEF IInv, TypeOK
  <2>2. g \in [Times -> Nat]
    BY <1>1, <2>1 DEF IInv, TypeOK
  <2>3. granted' = [granted EXCEPT ![k] = g]
    BY <1>3
  <2> HIDE DEF g
  <2>4. QED
    BY <2>2, <2>3 DEF IInv, TypeOK
<1>5. TypeOK'
  BY <1>1, <1>2, <1>3, <1>4 DEF IInv, TypeOK
<1>6. WithinLimit'
  BY <1>2, <1>3 DEF IInv, TypeOK, WithinLimit
<1>7. RefusedByBucket' /\ RetryWithinASecond'
  BY <1>3 DEF IInv, TypeOK, RefusedByBucket, RetryWithinASecond
<1>8. QED
  BY <1>5, <1>6, <1>7 DEF IInv

LEMMA RefuseStep ==
  ASSUME IInv, NEW k \in Keys, Refuse(k)
  PROVE  IInv'
<1> DEFINE b == Current(k)
           retry == RetrySeconds(b)
<1>1. b \in Bucket /\ b.count <= Limit /\ b # None /\ now \in Times
  BY CurrentType, BucketAssumption DEF IInv, TypeOK
<1>2. retry \in Nat \ {0} /\ now + (retry + 1) * SecondLen > b.resetAt
  BY <1>1, RetryBound
<1>3. /\ bucket' = [bucket EXCEPT ![k] = b]
      /\ retryAfter' = [retryAfter EXCEPT ![k] = retry]
      /\ asked' = [asked EXCEPT ![k] = now]
      /\ UNCHANGED <<now, granted>>
  BY DEF Refuse
<1> HIDE DEF b, retry
<1>4. TypeOK'
  BY <1>1, <1>2, <1>3 DEF IInv, TypeOK
<1>5. WithinLimit' /\ RefusedByBucket'
  BY <1>1, <1>3 DEF IInv, TypeOK, WithinLimit, RefusedByBucket
<1>6. RetryWithinASecond'
  <2> SUFFICES ASSUME NEW j \in Keys, retryAfter'[j] > 0
               PROVE  asked'[j] + (retryAfter'[j] + 1) * SecondLen
                        > bucket'[j].resetAt
    BY DEF RetryWithinASecond
  <2>1. CASE j = k
    <3>1. asked'[j] = now /\ retryAfter'[j] = retry /\ bucket'[j] = b
      BY <1>3, <2>1 DEF IInv, TypeOK
    <3>2. QED
      BY <1>2, <3>1, Zenon
  <2>2. CASE j # k
    <3>1. /\ asked'[j] = asked[j]
          /\ retryAfter'[j] = retryAfter[j]
          /\ bucket'[j] = bucket[j]
      BY <1>3, <2>2 DEF IInv, TypeOK
    <3>2. asked[j] + (retryAfter[j] + 1) * SecondLen > bucket[j].resetAt
      BY <3>1 DEF IInv, RetryWithinASecond
    <3>3. QED
      BY <3>1, <3>2, Zenon
  <2>3. QED
    BY <2>1, <2>2
<1>7. QED
  BY <1>4, <1>5, <1>6 DEF IInv

\* The inductive invariant holds in every reachable state.
THEOREM Invariance == Spec => []IInv
<1>1. Init => IInv
  BY LimitAssumption
     DEF Init, IInv, TypeOK, Times, WithinLimit, RefusedByBucket,
         RetryWithinASecond
<1>2. ASSUME IInv, [Next]_vars
      PROVE  IInv'
  <2>1. CASE Tick
    <3>1. now' \in Times
      BY <1>2, <2>1, LimitAssumption DEF Tick, IInv, TypeOK, Times
    <3>2. UNCHANGED <<bucket, asked, retryAfter, granted>>
      BY <2>1 DEF Tick
    <3>3. QED
      BY <1>2, <3>1, <3>2
         DEF IInv, TypeOK, WithinLimit, RefusedByBucket, RetryWithinASecond
  <2>2. ASSUME NEW k \in Keys, Allow(k)
        PROVE  IInv'
    BY <1>2, <2>2, AllowStep
  <2>3. ASSUME NEW k \in Keys, Refuse(k)
        PROVE  IInv'
    BY <1>2, <2>3, RefuseStep
  <2>4. CASE UNCHANGED vars
    BY <1>2, <2>4
       DEF vars, IInv, TypeOK, WithinLimit, RefusedByBucket,
           RetryWithinASecond
  <2>5. QED
    BY <1>2, <2>1, <2>2, <2>3, <2>4 DEF Next
<1>3. QED
  BY <1>1, <1>2, PTL DEF Spec

\* A bucket never allows more hits than the limit (rate_limit.py:35-39).
THEOREM NeverOverLimit == Spec => []WithinLimit
BY Invariance, PTL DEF IInv

\* A refused caller that waits one second more than retry_after finds the
\* bucket that refused it expired, at every clock resolution
\* (rate_limit.py:36).
THEOREM RetryAfterIsShortByLess == Spec => []RetryWithinASecond
BY Invariance, PTL DEF IInv

-----------------------------------------------------------------------------
(***************************************************************************)
(* Sums.  MapThenSumSet folds a set by a recursive function; what follows  *)
(* derives from that recursion, by induction on the size of the set, the   *)
(* facts about sums the counting argument needs.                           *)
(***************************************************************************)
\* A non-empty set of naturals has a least element.
LEMMA Least ==
  ASSUME NEW T \in SUBSET Nat, T # {}
  PROVE  \E x \in T : \A y \in T : ~(y < x)
<1>1. \E x \in T : \A y \in T : <<y, x>> \notin OpToRel(<, Nat)
  BY NatLessThanWellFounded, WFMin
<1>2. QED
  BY <1>1 DEF OpToRel

\* Induction, as a statement about a set of naturals.
LEMMA Induction ==
  ASSUME NEW T, 0 \in T, \A n \in Nat : n \in T => n + 1 \in T
  PROVE  Nat \subseteq T
<1>1. SUFFICES ASSUME Nat \ T # {}
               PROVE  FALSE
  OBVIOUS
<1>2. PICK x \in Nat \ T : \A y \in Nat \ T : ~(y < x)
  BY <1>1, Least
<1>3. x - 1 \in Nat /\ x - 1 < x /\ (x - 1) + 1 = x
  BY <1>2
<1>4. QED
  BY <1>2, <1>3

\* The fold behind Granted, over any set.
Sum(g, S) == MapThenSumSet(LAMBDA t : g[t], S)

\* The element the fold takes next.
First(s) == CHOOSE x \in s : TRUE

\* h solves the recursion of the fold, on the subsets of S.
Sums(h, g, S) ==
    h = [s \in SUBSET S |->
            IF s = {} THEN 0 ELSE g[First(s)] + h[s \ {First(s)}]]

\* The fold is a solution of its recursion, if there is one.
LEMMA SumIs ==
  ASSUME NEW g, NEW S
  PROVE  Sum(g, S) = (CHOOSE h : Sums(h, g, S))[S]
BY DEF Sum, MapThenSumSet, MapThenFoldSet, Sums, First

\* It is an element.
LEMMA FirstIn ==
  ASSUME NEW s, s # {}
  PROVE  First(s) \in s
BY DEF First

\* What the recursion says of one set.
LEMMA SumsStep ==
  ASSUME NEW S, NEW g, NEW h, Sums(h, g, S), NEW s \in SUBSET S
  PROVE  h[s] = IF s = {} THEN 0 ELSE g[First(s)] + h[s \ {First(s)}]
BY DEF Sums

\* Sums over a set and over a subset of it agree.
LEMMA SumsAgree ==
  ASSUME NEW S, IsFiniteSet(S), NEW T \in SUBSET S, NEW g,
         NEW h, Sums(h, g, S), NEW k, Sums(k, g, T)
  PROVE  \A s \in SUBSET T : h[s] = k[s]
<1>1. \A s \in SUBSET T : /\ IsFiniteSet(s) /\ Cardinality(s) \in Nat
                          /\ s \in SUBSET S
  BY FS_Subset, FS_CardinalityType
<1> DEFINE A == {n \in Nat : \A s \in SUBSET T : Cardinality(s) <= n => h[s] = k[s]}
<1>2. 0 \in A
  <2>1. ASSUME NEW s \in SUBSET T, Cardinality(s) <= 0
        PROVE  h[s] = k[s]
    <3>1. s = {}
      BY <1>1, <2>1, FS_EmptySet
    <3>2. QED
      BY <1>1, <3>1, SumsStep
  <2>2. QED
    BY <2>1
<1>3. ASSUME NEW n \in Nat, n \in A
      PROVE  n + 1 \in A
  <2>1. ASSUME NEW s \in SUBSET T, Cardinality(s) <= n + 1
        PROVE  h[s] = k[s]
    <3>1. CASE s = {}
      BY <1>1, <3>1, SumsStep
    <3>2. CASE s # {}
      <4>0. PICK c : c = First(s)
        OBVIOUS
      <4> DEFINE r == s \ {c}
      <4>1. c \in s
        BY <3>2, <4>0, FirstIn
      <4>2. r \in SUBSET T /\ Cardinality(r) = Cardinality(s) - 1
        BY <1>1, <4>1, FS_RemoveElement
      <4>3. h[r] = k[r]
        BY <1>1, <1>3, <2>1, <4>2
      <4>4. h[s] = g[c] + h[r]
        BY <1>1, <3>2, <4>0, SumsStep
      <4>5. k[s] = g[c] + k[r]
        <5>1. k[s] = IF s = {} THEN 0 ELSE g[First(s)] + k[s \ {First(s)}]
          BY SumsStep
        <5>2. QED
          BY <3>2, <4>0, <5>1
      <4>6. QED
        BY <4>3, <4>4, <4>5
    <3>3. QED
      BY <3>1, <3>2
  <2>2. QED
    BY <2>1
<1> HIDE DEF A
<1>4. Nat \subseteq A
  BY <1>2, <1>3, Induction
<1>5. QED
  BY <1>1, <1>4 DEF A

\* The recursion behind a sum has a solution.
LEMMA SumsExist ==
  ASSUME NEW S, IsFiniteSet(S), NEW g
  PROVE  \A s \in SUBSET S : \E h : Sums(h, g, s)
<1>0. \A s \in SUBSET S : IsFiniteSet(s) /\ Cardinality(s) \in Nat
  BY FS_Subset, FS_CardinalityType
<1> DEFINE A == {n \in Nat : \A s \in SUBSET S :
                    Cardinality(s) < n => \E h : Sums(h, g, s)}
<1>1. 0 \in A
  BY <1>0
<1>2. ASSUME NEW n \in Nat, n \in A
      PROVE  n + 1 \in A
  <2>1. ASSUME NEW s \in SUBSET S, Cardinality(s) < n + 1
        PROVE  \E h : Sums(h, g, s)
    <3>1. PICK h : h = [r \in SUBSET s |->
             IF r = {} THEN 0 ELSE g[First(r)] + Sum(g, r \ {First(r)})]
      OBVIOUS
    <3>2. ASSUME NEW r \in SUBSET s, r # {}
          PROVE  h[r \ {First(r)}] = Sum(g, r \ {First(r)})
      <4>1. PICK x : x = First(r) /\ x \in r
        BY <3>2, FirstIn
      <4>2. PICK q : q = r \ {x}
        OBVIOUS
      <4>3. /\ q \in SUBSET s /\ q \in SUBSET S /\ IsFiniteSet(q)
            /\ Cardinality(q) < n
        <5>1. Cardinality(q) = Cardinality(r) - 1
          BY <1>0, <4>1, <4>2, FS_RemoveElement
        <5>2. Cardinality(r) <= Cardinality(s)
          BY <1>0, FS_Subset
        <5>3. QED
          BY <1>0, <2>1, <4>2, <5>1, <5>2
      <4>4. PICK k : Sums(k, g, q) /\ Sum(g, q) = k[q]
        <5>1. \E k : Sums(k, g, q)
          BY <1>2, <4>3
        <5>2. QED
          BY <5>1, SumIs
      <4>5. k[q] = IF q = {} THEN 0 ELSE g[First(q)] + k[q \ {First(q)}]
        BY <4>4, SumsStep
      <4>6. CASE q = {}
        BY <3>1, <4>1, <4>2, <4>3, <4>4, <4>5, <4>6
      <4>7. CASE q # {}
        <5>1. PICK p : p = q \ {First(q)}
          OBVIOUS
        <5>2. p \in SUBSET q /\ p \in SUBSET S /\ Cardinality(p) < n
          <6>1. Cardinality(p) <= Cardinality(q)
            BY <4>3, <5>1, FS_Subset
          <6>2. QED
            BY <1>0, <4>3, <5>1, <6>1
        <5>3. PICK m : Sums(m, g, p) /\ Sum(g, p) = m[p]
          <6>1. \E m : Sums(m, g, p)
            BY <1>2, <5>2
          <6>2. QED
            BY <6>1, SumIs
        <5>4. k[p] = m[p]
          BY <4>3, <4>4, <5>2, <5>3, SumsAgree
        <5>5. h[q] = g[First(q)] + Sum(g, p)
          BY <3>1, <4>3, <4>7, <5>1
        <5>6. QED
          BY <4>1, <4>2, <4>4, <4>5, <4>7, <5>1, <5>3, <5>4, <5>5
      <4>8. QED
        BY <4>6, <4>7
    <3>3. h = [r \in SUBSET s |->
                 IF r = {} THEN 0 ELSE g[First(r)] + h[r \ {First(r)}]]
      <4>1. \A r \in SUBSET s :
              (IF r = {} THEN 0 ELSE g[First(r)] + h[r \ {First(r)}])
               = (IF r = {} THEN 0 ELSE g[First(r)] + Sum(g, r \ {First(r)}))
        BY <3>2
      <4>2. QED
        BY <3>1, <4>1, Zenon
    <3>4. QED
      BY <3>3 DEF Sums
  <2>2. QED
    BY <2>1
<1> HIDE DEF A
<1>3. Nat \subseteq A
  BY <1>1, <1>2, Induction
<1>4. SUFFICES ASSUME NEW s \in SUBSET S
               PROVE  \E h : Sums(h, g, s)
  OBVIOUS
<1>5. Cardinality(s) + 1 \in A
  BY <1>0, <1>3
<1>6. Cardinality(s) < Cardinality(s) + 1
  BY <1>0
<1>7. QED
  BY <1>5, <1>6 DEF A

\* A sum takes one element off at a time.
LEMMA SumUnfold ==
  ASSUME NEW S, IsFiniteSet(S), NEW g \in [S -> Nat]
  PROVE  /\ Sum(g, {}) = 0
         /\ \A s \in SUBSET S : Sum(g, s) \in Nat
         /\ \A s \in SUBSET S :
               s # {} => Sum(g, s) = g[First(s)] + Sum(g, s \ {First(s)})
<1>0. \A s \in SUBSET S : IsFiniteSet(s) /\ Cardinality(s) \in Nat
  BY FS_Subset, FS_CardinalityType
<1>1. ASSUME NEW s \in SUBSET S
      PROVE  \E h : Sums(h, g, s) /\ Sum(g, s) = h[s]
  BY SumsExist, SumIs
<1>2. Sum(g, {}) = 0
  BY <1>1, SumsStep
<1>3. ASSUME NEW s \in SUBSET S, s # {}
      PROVE  Sum(g, s) = g[First(s)] + Sum(g, s \ {First(s)})
  <2>1. PICK r : r = s \ {First(s)}
    OBVIOUS
  <2>2. r \in SUBSET s /\ r \in SUBSET S
    BY <2>1
  <2>3. PICK h : Sums(h, g, s) /\ Sum(g, s) = h[s]
    BY <1>1
  <2>4. PICK k : Sums(k, g, r) /\ Sum(g, r) = k[r]
    BY <1>1, <2>2
  <2>5. h[r] = k[r]
    <3>1. IsFiniteSet(s)
      BY <1>0
    <3>2. \A t \in SUBSET r : h[t] = k[t]
      BY <2>2, <2>3, <2>4, <3>1, SumsAgree
    <3>3. QED
      BY <3>2
  <2>6. h[s] = g[First(s)] + h[r]
    <3>1. h[s] = IF s = {} THEN 0 ELSE g[First(s)] + h[s \ {First(s)}]
      BY <2>3, SumsStep
    <3>2. QED
      BY <1>3, <2>1, <3>1
  <2>7. QED
    BY <2>1, <2>3, <2>4, <2>5, <2>6
<1> DEFINE A == {n \in Nat : \A s \in SUBSET S :
                    Cardinality(s) <= n => Sum(g, s) \in Nat}
<1>4. 0 \in A
  <2>1. \A s \in SUBSET S : Cardinality(s) <= 0 => s = {}
    BY <1>0, FS_EmptySet
  <2>2. QED
    BY <1>2, <2>1
<1>5. ASSUME NEW n \in Nat, n \in A
      PROVE  n + 1 \in A
  <2>1. ASSUME NEW s \in SUBSET S, Cardinality(s) <= n + 1, s # {}
        PROVE  Sum(g, s) \in Nat
    <3>1. PICK x : x = First(s) /\ x \in s
      BY <2>1, FirstIn
    <3>2. s \ {x} \in SUBSET S /\ Cardinality(s \ {x}) <= n
      BY <1>0, <2>1, <3>1, FS_RemoveElement
    <3>3. Sum(g, s \ {x}) \in Nat /\ g[x] \in Nat
      BY <1>5, <3>1, <3>2
    <3>4. Sum(g, s) = g[x] + Sum(g, s \ {x})
      BY <1>3, <2>1, <3>1
    <3>5. QED
      BY <3>3, <3>4
  <2>2. QED
    BY <1>2, <2>1
<1> HIDE DEF A
<1>6. Nat \subseteq A
  BY <1>4, <1>5, Induction
<1>7. ASSUME NEW s \in SUBSET S
      PROVE  Sum(g, s) \in Nat
  <2>1. PICK n \in Nat : n = Cardinality(s)
    BY <1>0
  <2>2. n \in A /\ Cardinality(s) <= n
    BY <1>6, <2>1
  <2>3. QED
    BY <2>2 DEF A
<1>8. QED
  BY <1>2, <1>3, <1>7

\* Any element may be taken off first.
LEMMA SumRemove ==
  ASSUME NEW S, IsFiniteSet(S), NEW g \in [S -> Nat]
  PROVE  \A s \in SUBSET S : \A x \in s : Sum(g, s) = g[x] + Sum(g, s \ {x})
<1>0. \A s \in SUBSET S : IsFiniteSet(s) /\ Cardinality(s) \in Nat
  BY FS_Subset, FS_CardinalityType
<1> DEFINE A == {n \in Nat : \A s \in SUBSET S : Cardinality(s) <= n =>
                    \A x \in s : Sum(g, s) = g[x] + Sum(g, s \ {x})}
<1>1. 0 \in A
  <2>1. \A s \in SUBSET S : Cardinality(s) <= 0 => s = {}
    BY <1>0, FS_EmptySet
  <2>2. QED
    BY <2>1
<1>2. ASSUME NEW n \in Nat, n \in A
      PROVE  n + 1 \in A
  <2>1. ASSUME NEW s \in SUBSET S, Cardinality(s) <= n + 1, NEW x \in s
        PROVE  Sum(g, s) = g[x] + Sum(g, s \ {x})
    <3> DEFINE c == First(s)
    <3>1. c \in s
      BY FirstIn
    <3> HIDE DEF c
    <3>2. Sum(g, s) = g[c] + Sum(g, s \ {c})
      BY SumUnfold DEF c
    <3>3. CASE x = c
      BY <3>2, <3>3
    <3>4. CASE x # c
      <4>1. /\ s \ {c} \in SUBSET S /\ Cardinality(s \ {c}) <= n
            /\ s \ {x} \in SUBSET S /\ Cardinality(s \ {x}) <= n
            /\ x \in s \ {c} /\ c \in s \ {x}
        BY <1>0, <2>1, <3>1, <3>4, FS_RemoveElement
      <4>2. Sum(g, s \ {c}) = g[x] + Sum(g, (s \ {c}) \ {x})
        BY <1>2, <4>1
      <4>3. Sum(g, s \ {x}) = g[c] + Sum(g, (s \ {x}) \ {c})
        BY <1>2, <4>1
      <4>4. (s \ {c}) \ {x} = (s \ {x}) \ {c}
        OBVIOUS
      <4>5. /\ g[x] \in Nat /\ g[c] \in Nat
            /\ Sum(g, (s \ {c}) \ {x}) \in Nat
        BY <3>1, SumUnfold
      <4>6. QED
        BY <3>2, <4>2, <4>3, <4>4, <4>5
    <3>5. QED
      BY <3>3, <3>4
  <2>2. QED
    BY <2>1
<1> HIDE DEF A
<1>3. Nat \subseteq A
  BY <1>1, <1>2, Induction
<1>4. QED
  <2>1. SUFFICES ASSUME NEW s \in SUBSET S, NEW x \in s
                 PROVE  Sum(g, s) = g[x] + Sum(g, s \ {x})
    OBVIOUS
  <2>2. PICK n \in Nat : n = Cardinality(s)
    BY <1>0
  <2>3. n \in A /\ Cardinality(s) <= n
    BY <1>3, <2>2
  <2>4. QED
    BY <2>3 DEF A

\* The sum over a set and one over a set apart from it.
LEMMA SumUnion ==
  ASSUME NEW S, IsFiniteSet(S), NEW g \in [S -> Nat], NEW s \in SUBSET S
  PROVE  \A t \in SUBSET S : s \cap t = {}
            => Sum(g, s \cup t) = Sum(g, s) + Sum(g, t)
<1>0. \A r \in SUBSET S : IsFiniteSet(r) /\ Cardinality(r) \in Nat
  BY FS_Subset, FS_CardinalityType
<1> DEFINE A == {n \in Nat : \A t \in SUBSET S :
                    Cardinality(t) <= n /\ s \cap t = {}
                    => Sum(g, s \cup t) = Sum(g, s) + Sum(g, t)}
<1>1. 0 \in A
  <2>1. \A r \in SUBSET S : Cardinality(r) <= 0 => r = {}
    BY <1>0, FS_EmptySet
  <2>2. s \cup {} = s
    OBVIOUS
  <2>3. Sum(g, s) \in Nat /\ Sum(g, {}) = 0
    BY SumUnfold
  <2>4. Sum(g, s \cup {}) = Sum(g, s) + Sum(g, {})
    BY <2>2, <2>3
  <2>5. QED
    BY <2>1, <2>4
<1>2. ASSUME NEW n \in Nat, n \in A
      PROVE  n + 1 \in A
  <2>1. ASSUME NEW t \in SUBSET S, Cardinality(t) <= n + 1, s \cap t = {}
        PROVE  Sum(g, s \cup t) = Sum(g, s) + Sum(g, t)
    <3>1. CASE t = {}
      <4>1. t \in SUBSET S /\ Cardinality(t) <= n
        BY <3>1, FS_EmptySet
      <4>2. QED
        BY <1>2, <2>1, <4>1
    <3>2. CASE t # {}
      <4>1. PICK x : x \in t
        BY <3>2
      <4>2. /\ t \ {x} \in SUBSET S /\ Cardinality(t \ {x}) <= n
            /\ s \cap (t \ {x}) = {}
        BY <1>0, <2>1, <4>1, FS_RemoveElement
      <4>3. Sum(g, s \cup (t \ {x})) = Sum(g, s) + Sum(g, t \ {x})
        BY <1>2, <4>2
      <4>4. Sum(g, t) = g[x] + Sum(g, t \ {x})
        BY <4>1, SumRemove
      <4>5. (s \cup t) \ {x} = s \cup (t \ {x})
        BY <2>1, <4>1
      <4>6. Sum(g, s \cup t) = g[x] + Sum(g, (s \cup t) \ {x})
        BY <4>1, SumRemove
      <4>7. Sum(g, s) \in Nat /\ Sum(g, t \ {x}) \in Nat /\ g[x] \in Nat
        BY <4>1, <4>2, SumUnfold
      <4>8. Sum(g, s \cup t) = g[x] + (Sum(g, s) + Sum(g, t \ {x}))
        BY <4>3, <4>5, <4>6, Zenon
      <4>9. Sum(g, s) + Sum(g, t) = Sum(g, s) + (g[x] + Sum(g, t \ {x}))
        BY <4>4, Zenon
      <4>10. QED
        BY <4>7, <4>8, <4>9
    <3>3. QED
      BY <3>1, <3>2
  <2>2. QED
    BY <2>1
<1> HIDE DEF A
<1>3. Nat \subseteq A
  BY <1>1, <1>2, Induction
<1>4. QED
  BY <1>0, <1>3 DEF A

\* A sum grows with its set.
LEMMA SumMonotone ==
  ASSUME NEW S, IsFiniteSet(S), NEW g \in [S -> Nat], NEW t \in SUBSET S,
         NEW s \in SUBSET t
  PROVE  Sum(g, s) <= Sum(g, t)
<1>1. Sum(g, s \cup (t \ s)) = Sum(g, s) + Sum(g, t \ s)
  BY SumUnion
<1>2. s \cup (t \ s) = t
  OBVIOUS
<1>3. Sum(g, s) \in Nat /\ Sum(g, t \ s) \in Nat
  BY SumUnfold
<1>4. Sum(g, t) = Sum(g, s) + Sum(g, t \ s)
  BY <1>1, <1>2, Zenon
<1>5. QED
  BY <1>3, <1>4

\* Only the values on the set matter.
LEMMA SumSame ==
  ASSUME NEW S, IsFiniteSet(S), NEW f \in [S -> Nat], NEW g \in [S -> Nat]
  PROVE  \A s \in SUBSET S : (\A x \in s : f[x] = g[x]) => Sum(f, s) = Sum(g, s)
<1>0. \A s \in SUBSET S : IsFiniteSet(s) /\ Cardinality(s) \in Nat
  BY FS_Subset, FS_CardinalityType
<1> DEFINE A == {n \in Nat : \A s \in SUBSET S :
                    Cardinality(s) <= n /\ (\A x \in s : f[x] = g[x])
                    => Sum(f, s) = Sum(g, s)}
<1>1. 0 \in A
  <2>1. \A s \in SUBSET S : Cardinality(s) <= 0 => s = {}
    BY <1>0, FS_EmptySet
  <2>2. Sum(f, {}) = 0 /\ Sum(g, {}) = 0
    BY SumUnfold
  <2>3. QED
    BY <2>1, <2>2
<1>2. ASSUME NEW n \in Nat, n \in A
      PROVE  n + 1 \in A
  <2>1. ASSUME NEW s \in SUBSET S, Cardinality(s) <= n + 1,
               \A x \in s : f[x] = g[x]
        PROVE  Sum(f, s) = Sum(g, s)
    <3>1. CASE s = {}
      BY <3>1, SumUnfold
    <3>2. CASE s # {}
      <4>1. PICK x : x \in s
        BY <3>2
      <4>2. s \ {x} \in SUBSET S /\ Cardinality(s \ {x}) <= n
        BY <1>0, <2>1, <4>1, FS_RemoveElement
      <4>3. Sum(f, s \ {x}) = Sum(g, s \ {x})
        BY <1>2, <2>1, <4>2
      <4>4. /\ Sum(f, s) = f[x] + Sum(f, s \ {x})
            /\ Sum(g, s) = g[x] + Sum(g, s \ {x})
        BY <4>1, SumRemove
      <4>5. QED
        BY <2>1, <4>1, <4>3, <4>4
    <3>3. QED
      BY <3>1, <3>2
  <2>2. QED
    BY <2>1
<1> HIDE DEF A
<1>3. Nat \subseteq A
  BY <1>1, <1>2, Induction
<1>4. QED
  BY <1>0, <1>3 DEF A

\* A sum of nothing but zeros.
LEMMA SumZero ==
  ASSUME NEW S, IsFiniteSet(S), NEW g \in [S -> Nat]
  PROVE  \A s \in SUBSET S : (\A x \in s : g[x] = 0) => Sum(g, s) = 0
<1>0. \A s \in SUBSET S : IsFiniteSet(s) /\ Cardinality(s) \in Nat
  BY FS_Subset, FS_CardinalityType
<1> DEFINE A == {n \in Nat : \A s \in SUBSET S :
                    Cardinality(s) <= n /\ (\A x \in s : g[x] = 0)
                    => Sum(g, s) = 0}
<1>1. 0 \in A
  <2>1. \A s \in SUBSET S : Cardinality(s) <= 0 => s = {}
    BY <1>0, FS_EmptySet
  <2>2. QED
    BY <2>1, SumUnfold
<1>2. ASSUME NEW n \in Nat, n \in A
      PROVE  n + 1 \in A
  <2>1. ASSUME NEW s \in SUBSET S, Cardinality(s) <= n + 1,
               \A x \in s : g[x] = 0
        PROVE  Sum(g, s) = 0
    <3>1. CASE s = {}
      BY <3>1, SumUnfold
    <3>2. CASE s # {}
      <4>1. PICK x : x \in s
        BY <3>2
      <4>2. s \ {x} \in SUBSET S /\ Cardinality(s \ {x}) <= n
        BY <1>0, <2>1, <4>1, FS_RemoveElement
      <4>3. Sum(g, s \ {x}) = 0
        BY <1>2, <2>1, <4>2
      <4>4. Sum(g, s) = g[x] + Sum(g, s \ {x})
        BY <4>1, SumRemove
      <4>5. QED
        BY <2>1, <4>1, <4>3, <4>4
    <3>3. QED
      BY <3>1, <3>2
  <2>2. QED
    BY <2>1
<1> HIDE DEF A
<1>3. Nat \subseteq A
  BY <1>1, <1>2, Induction
<1>4. QED
  BY <1>0, <1>3 DEF A

\* One more at one place.
LEMMA SumBump ==
  ASSUME NEW S, IsFiniteSet(S), NEW g \in [S -> Nat], NEW x \in S,
         NEW f \in [S -> Nat], f[x] = g[x] + 1,
         \A y \in S : y # x => f[y] = g[y],
         NEW s \in SUBSET S
  PROVE  Sum(f, s) = IF x \in s THEN Sum(g, s) + 1 ELSE Sum(g, s)
<1>1. CASE x \notin s
  <2>1. \A y \in s : f[y] = g[y]
    BY <1>1
  <2>2. Sum(f, s) = Sum(g, s)
    BY <2>1, SumSame
  <2>3. QED
    BY <1>1, <2>2
<1>2. CASE x \in s
  <2>1. Sum(f, s \ {x}) = Sum(g, s \ {x})
    BY SumSame
  <2>2. /\ Sum(f, s) = f[x] + Sum(f, s \ {x})
        /\ Sum(g, s) = g[x] + Sum(g, s \ {x})
    BY <1>2, SumRemove
  <2>3. Sum(g, s \ {x}) \in Nat /\ g[x] \in Nat
    BY SumUnfold
  <2>4. Sum(f, s) = Sum(g, s) + 1
    BY <2>1, <2>2, <2>3
  <2>5. QED
    BY <1>2, <2>4
<1>3. QED
  BY <1>1, <1>2

-----------------------------------------------------------------------------
(***************************************************************************)
(* Counting.                                                               *)
(***************************************************************************)
Span(a, b) == {t \in Times : a <= t /\ t < b}

\* How many hits the history g grants from a on and before b.
Hits(g, a, b) == Sum(g, Span(a, b))

LEMMA TimesFinite == IsFiniteSet(Times) /\ Times \subseteq Nat
BY LimitAssumption, FS_Interval DEF Times

LEMMA GrantedIs == \A k, a, b : Granted(k, a, b) = Hits(granted[k], a, b)
BY DEF Granted, Hits, Sum, Span

LEMMA HitsType ==
  ASSUME NEW g \in [Times -> Nat], NEW a, NEW b
  PROVE  Hits(g, a, b) \in Nat
<1>1. Span(a, b) \in SUBSET Times
  BY DEF Span
<1>2. QED
  BY <1>1, TimesFinite, SumUnfold DEF Hits

\* A stretch cut in two.
LEMMA HitsSplit ==
  ASSUME NEW g \in [Times -> Nat], NEW a \in Int, NEW b \in Int, NEW c \in Int,
         a <= b, b <= c
  PROVE  Hits(g, a, c) = Hits(g, a, b) + Hits(g, b, c)
<1>1. Span(a, b) \in SUBSET Times /\ Span(b, c) \in SUBSET Times
  BY DEF Span
<1>2. \A t \in Times : /\ ~(t < b /\ b <= t)
                       /\ a <= t /\ t < c <=> (a <= t /\ t < b) \/ (b <= t /\ t < c)
  BY TimesFinite
<1>3. Span(a, b) \cap Span(b, c) = {}
  BY <1>2, Zenon DEF Span
<1>4. Span(a, b) \cup Span(b, c) = Span(a, c)
  BY <1>2, Zenon DEF Span
<1>5. PICK s, t : s = Span(a, b) /\ t = Span(b, c)
  OBVIOUS
<1>6. Sum(g, s \cup t) = Sum(g, s) + Sum(g, t)
  <2>1. IsFiniteSet(Times) /\ s \in SUBSET Times /\ t \in SUBSET Times /\ s \cap t = {}
    BY <1>1, <1>3, <1>5, TimesFinite
  <2>2. \A r \in SUBSET Times : s \cap r = {} => Sum(g, s \cup r) = Sum(g, s) + Sum(g, r)
    BY <2>1, SumUnion
  <2>3. QED
    BY <2>1, <2>2
<1>7. QED
  BY <1>4, <1>5, <1>6, Zenon DEF Hits

\* A longer stretch has no fewer.
LEMMA HitsMonotone ==
  ASSUME NEW g \in [Times -> Nat], NEW a \in Int, NEW b \in Int,
         NEW c \in Int, NEW d \in Int,
         \A t \in Times : a <= t /\ t < b => c <= t /\ t < d
  PROVE  Hits(g, a, b) <= Hits(g, c, d)
<1>1. Span(c, d) \in SUBSET Times /\ Span(a, b) \in SUBSET Span(c, d)
  BY DEF Span
<1>2. QED
  BY <1>1, TimesFinite, SumMonotone DEF Hits

\* A hit granted at t counts in the stretches that hold t.
LEMMA HitsBump ==
  ASSUME NEW g \in [Times -> Nat], NEW t \in Times,
         NEW f \in [Times -> Nat], f[t] = g[t] + 1,
         \A u \in Times : u # t => f[u] = g[u],
         NEW a \in Int, NEW b \in Int
  PROVE  Hits(f, a, b) = IF a <= t /\ t < b THEN Hits(g, a, b) + 1
                                           ELSE Hits(g, a, b)
<1>1. PICK s : s = Span(a, b)
  OBVIOUS
<1>2. s \in SUBSET Times /\ (t \in s <=> a <= t /\ t < b)
  BY <1>1 DEF Span
<1>3. Sum(f, s) = IF t \in s THEN Sum(g, s) + 1 ELSE Sum(g, s)
  <2>1. IsFiniteSet(Times) /\ s \in SUBSET Times
    BY <1>2, TimesFinite
  <2>2. QED
    BY <2>1, SumBump
<1>4. Hits(f, a, b) = Sum(f, s) /\ Hits(g, a, b) = Sum(g, s)
  BY <1>1 DEF Hits
<1>5. QED
  BY <1>2, <1>3, <1>4

\* No hits, no sum.
LEMMA HitsNone ==
  ASSUME NEW g \in [Times -> Nat], NEW a \in Int, NEW b \in Int,
         \A t \in Times : a <= t /\ t < b => g[t] = 0
  PROVE  Hits(g, a, b) = 0
<1>1. Span(a, b) \in SUBSET Times /\ \A t \in Span(a, b) : g[t] = 0
  BY DEF Span
<1>2. QED
  BY <1>1, TimesFinite, SumZero DEF Hits

\* The bucket that a hit at instant n counts in, when b is the one there is.
Opened(b, n) == IF b = None \/ n >= b.resetAt
                THEN [resetAt |-> n + WindowLen, count |-> 0] ELSE b

Start(b) == b.resetAt - WindowLen

\* The history g of a key whose bucket is b at instant n: nothing is granted
\* but in a bucket, what was granted since b was opened is its count, and what
\* was granted in the window before that is at most the limit.
Accounted(g, b, n) ==
    IF b = None THEN \A t \in Times : g[t] = 0
    ELSE /\ Start(b) <= n
         /\ \A t \in Times : t >= b.resetAt => g[t] = 0
         /\ Hits(g, Start(b), MaxTime + 1) = b.count
         /\ Hits(g, Start(b) - WindowLen, Start(b)) <= Limit

Sliding(g) == \A t \in Times : Hits(g, t, t + WindowLen) <= 2 * Limit

Counted == \A k \in Keys : /\ Accounted(granted[k], bucket[k], now)
                           /\ Sliding(granted[k])

LEMMA Numbers ==
  /\ Limit \in Nat /\ Limit > 0 /\ WindowLen \in Nat /\ WindowLen > 0
  /\ MaxTime \in Nat
  /\ \A t \in Times : t \in Nat /\ t <= MaxTime
BY WindowType, LimitAssumption DEF Times

\* A new bucket starts with no hit in it and at most a bucket's before it.
LEMMA OpenedAccounted ==
  ASSUME NEW g \in [Times -> Nat], NEW b \in Bucket \cup {None}, NEW n \in Times,
         Accounted(g, b, n), b # None => b.count <= Limit
  PROVE  Accounted(g, Opened(b, n), n)
<1> USE Numbers
<1>1. CASE ~(b = None \/ n >= b.resetAt)
  BY <1>1 DEF Opened
<1>2. CASE b = None \/ n >= b.resetAt
  <2> DEFINE c == [resetAt |-> n + WindowLen, count |-> 0]
  <2>1. /\ Opened(b, n) = c /\ c.resetAt = n + WindowLen /\ c.count = 0
        /\ n \in Nat /\ n <= MaxTime
    BY <1>2 DEF Opened
  <2>2. c # None
    <3>1. c \in Bucket
      BY <2>1 DEF Bucket
    <3>2. QED
      BY <3>1, BucketAssumption
  <2> HIDE DEF c
  <2>3. Start(c) = n
    BY <2>1 DEF Start
  <2>4. \A t \in Times : t >= n => g[t] = 0
    <3>1. CASE b = None
      BY <3>1 DEF Accounted
    <3>2. CASE b # None
      <4>1. n >= b.resetAt /\ b.resetAt \in Nat
        BY <1>2, <3>2 DEF Bucket
      <4>2. \A t \in Times : t >= b.resetAt => g[t] = 0
        BY <3>2 DEF Accounted
      <4>3. QED
        BY <2>1, <4>1, <4>2
    <3>3. QED
      BY <3>1, <3>2
  <2>5. \A t \in Times : t >= c.resetAt => g[t] = 0
    BY <2>1, <2>4
  <2>6. Hits(g, n, MaxTime + 1) = 0
    BY <2>1, <2>4, HitsNone
  <2>7. Hits(g, n - WindowLen, n) <= Limit
    <3>1. CASE b = None
      <4>1. \A t \in Times : g[t] = 0
        BY <3>1 DEF Accounted
      <4>2. Hits(g, n - WindowLen, n) = 0
        BY <2>1, <4>1, HitsNone
      <4>3. QED
        BY <4>2
    <3>2. CASE b # None
      <4>1. n >= b.resetAt /\ b.resetAt \in Nat /\ b.count \in Nat
        BY <1>2, <3>2 DEF Bucket
      <4>2. Start(b) \in Int /\ Start(b) <= n - WindowLen
        BY <2>1, <4>1 DEF Start
      <4>3. Hits(g, Start(b), MaxTime + 1) = b.count
        BY <3>2 DEF Accounted
      <4>4. \A t \in Times : n - WindowLen <= t /\ t < n
                             => Start(b) <= t /\ t < MaxTime + 1
        BY <2>1, <4>2
      <4>5. Hits(g, n - WindowLen, n) <= Hits(g, Start(b), MaxTime + 1)
        BY <2>1, <4>2, <4>4, HitsMonotone
      <4>6. Hits(g, n - WindowLen, n) \in Nat
        BY HitsType
      <4>7. QED
        BY <3>2, <4>1, <4>3, <4>5, <4>6
    <3>3. QED
      BY <3>1, <3>2
  <2>8. QED
    BY <2>1, <2>2, <2>3, <2>5, <2>6, <2>7 DEF Accounted
<1>3. QED
  BY <1>1, <1>2

\* A hit granted in the bucket c keeps the account, and no stretch of a
\* window's length has more than two buckets' hits.
LEMMA GrantAccounted ==
  ASSUME NEW g \in [Times -> Nat], NEW c \in Bucket, NEW n \in Times,
         Accounted(g, c, n), Sliding(g), c.count < Limit, n < c.resetAt,
         NEW f \in [Times -> Nat], f[n] = g[n] + 1,
         \A u \in Times : u # n => f[u] = g[u],
         NEW d \in Bucket, d.resetAt = c.resetAt, d.count = c.count + 1
  PROVE  Accounted(f, d, n) /\ Sliding(f)
<1> USE Numbers
<1> DEFINE s == c.resetAt - WindowLen
<1>1. /\ c # None /\ d # None /\ c.resetAt \in Nat /\ c.count \in Nat
      /\ Start(c) = s /\ Start(d) = s /\ s \in Int /\ n \in Nat /\ n <= MaxTime
  BY BucketAssumption DEF Bucket, Start
<1>2. /\ s <= n
      /\ \A t \in Times : t >= c.resetAt => g[t] = 0
      /\ Hits(g, s, MaxTime + 1) = c.count
      /\ Hits(g, s - WindowLen, s) <= Limit
  BY <1>1 DEF Accounted
<1>3. n < s + WindowLen
  BY <1>1
<1> HIDE DEF s
<1>4. Hits(f, s, MaxTime + 1) = c.count + 1
  BY <1>1, <1>2, HitsBump
<1>5. Hits(f, s - WindowLen, s) <= Limit
  BY <1>1, <1>2, HitsBump
<1>6. \A t \in Times : t >= d.resetAt => f[t] = 0
  BY <1>1, <1>2
<1>7. Accounted(f, d, n)
  BY <1>1, <1>2, <1>4, <1>5, <1>6 DEF Accounted
<1>8. ASSUME NEW t \in Times
      PROVE  Hits(f, t, t + WindowLen) <= 2 * Limit
  <2>1. t \in Nat /\ t + WindowLen \in Nat
    BY <1>1
  <2>2. CASE ~(t <= n /\ n < t + WindowLen)
    <3>1. Hits(f, t, t + WindowLen) = Hits(g, t, t + WindowLen)
      BY <2>1, <2>2, HitsBump
    <3>2. QED
      BY <3>1 DEF Sliding
  <2>3. CASE t <= n /\ n < t + WindowLen
    <3>1. \A a \in Int : s <= a => Hits(f, a, t + WindowLen) <= c.count + 1
      <4>1. SUFFICES ASSUME NEW a \in Int, s <= a
                     PROVE  Hits(f, a, t + WindowLen) <= c.count + 1
        OBVIOUS
      <4>2. \A u \in Times : a <= u /\ u < t + WindowLen => s <= u /\ u < MaxTime + 1
        BY <1>1, <4>1
      <4>3. Hits(f, a, t + WindowLen) <= Hits(f, s, MaxTime + 1)
        BY <1>1, <2>1, <4>2, HitsMonotone
      <4>4. QED
        BY <1>4, <4>3
    <3>2. CASE s <= t
      <4>1. Hits(f, t, t + WindowLen) <= c.count + 1
        BY <2>1, <3>1, <3>2
      <4>2. Hits(f, t, t + WindowLen) \in Nat
        BY HitsType
      <4>3. QED
        BY <1>1, <4>1, <4>2
    <3>3. CASE t < s
      <4>1. s <= t + WindowLen /\ s - WindowLen <= t
        BY <1>1, <1>2, <2>1, <2>3
      <4>2. Hits(f, t, t + WindowLen) = Hits(f, t, s) + Hits(f, s, t + WindowLen)
        BY <1>1, <2>1, <3>3, <4>1, HitsSplit
      <4>3. Hits(f, t, s) <= Hits(f, s - WindowLen, s)
        <5>1. \A u \in Times : t <= u /\ u < s => s - WindowLen <= u /\ u < s
          BY <1>1, <2>1, <4>1
        <5>2. s - WindowLen \in Int
          BY <1>1
        <5>3. QED
          BY <1>1, <2>1, <5>1, <5>2, HitsMonotone
      <4>4. Hits(f, s, t + WindowLen) <= c.count + 1
        BY <1>1, <3>1
      <4>5. /\ Hits(f, t, s) \in Nat /\ Hits(f, s, t + WindowLen) \in Nat
            /\ Hits(f, s - WindowLen, s) \in Nat
        BY HitsType
      <4>6. QED
        BY <1>1, <1>5, <4>2, <4>3, <4>4, <4>5
    <3>4. QED
      BY <1>1, <2>1, <3>2, <3>3
  <2>4. QED
    BY <2>2, <2>3
<1>9. QED
  BY <1>7, <1>8 DEF Sliding

\* Time alone changes no account.
LEMMA LaterAccounted ==
  ASSUME NEW g, NEW b \in Bucket \cup {None}, NEW n \in Times, NEW m \in Times,
         n <= m, Accounted(g, b, n)
  PROVE  Accounted(g, b, m)
<1>1. CASE b = None
  BY <1>1 DEF Accounted
<1>2. CASE b # None
  <2>1. Start(b) \in Int /\ n \in Nat /\ m \in Nat
    BY <1>2, Numbers DEF Start, Bucket
  <2>2. QED
    BY <1>2, <2>1 DEF Accounted
<1>3. QED
  BY <1>1, <1>2

LEMMA CurrentIsOpened == \A k \in Keys : Current(k) = Opened(bucket[k], now)
BY DEF Current, Renewed, Opened

LEMMA CountedStep ==
  ASSUME IInv, Counted, [Next]_vars
  PROVE  Counted'
<1>1. ASSUME NEW k \in Keys, NEW j \in Keys, Allow(k) \/ Refuse(k)
      PROVE  /\ Accounted(granted'[j], bucket'[j], now')
             /\ Sliding(granted'[j])
  <2>1. PICK g, b, n : g = granted[j] /\ b = bucket[j] /\ n = now
    OBVIOUS
  <2>2. /\ g \in [Times -> Nat] /\ b \in Bucket \cup {None} /\ n \in Times
        /\ b # None => b.count <= Limit
    BY <2>1 DEF IInv, TypeOK, WithinLimit
  <2>3. Accounted(g, b, n) /\ Sliding(g)
    BY <2>1 DEF Counted
  <2>4. now' = n
    BY <1>1, <2>1 DEF Allow, Refuse
  <2>5. CASE j # k
    <3>1. granted'[j] = g /\ bucket'[j] = b
      BY <1>1, <2>1, <2>5 DEF Allow, Refuse, IInv, TypeOK
    <3>2. QED
      BY <2>3, <2>4, <3>1
  <2>6. CASE j = k
    <3>1. PICK c : c = Current(k)
      OBVIOUS
    <3>2. c = Opened(b, n)
      BY <2>1, <2>6, <3>1, CurrentIsOpened
    <3>3. c \in Bucket /\ Accounted(g, c, n)
      BY <2>2, <2>3, <2>6, <3>1, <3>2, OpenedAccounted, CurrentType DEF IInv
    <3>4. CASE Refuse(k)
      <4>1. granted'[j] = g /\ bucket'[j] = c
        BY <2>1, <2>6, <3>1, <3>4 DEF Refuse, IInv, TypeOK
      <4>2. QED
        BY <2>3, <2>4, <3>3, <4>1
    <3>5. CASE Allow(k)
      <4>1. PICK d : d = [c EXCEPT !.count = @ + 1]
        OBVIOUS
      <4>2. PICK f : f = [g EXCEPT ![n] = @ + 1]
        OBVIOUS
      <4>3. granted'[j] = f /\ bucket'[j] = d /\ c.count < Limit
        BY <2>1, <2>6, <3>1, <3>5, <4>1, <4>2 DEF Allow, IInv, TypeOK
      <4>4. d \in Bucket /\ d.resetAt = c.resetAt /\ d.count = c.count + 1
        BY <3>3, <4>1 DEF Bucket
      <4>5. /\ f \in [Times -> Nat] /\ f[n] = g[n] + 1
            /\ \A u \in Times : u # n => f[u] = g[u]
        BY <2>2, <4>2
      <4>6. n < c.resetAt
        BY <2>2, <3>2, Numbers DEF Opened, Bucket
      <4>7. Accounted(f, d, n) /\ Sliding(f)
        BY <2>2, <2>3, <3>3, <4>3, <4>4, <4>5, <4>6, GrantAccounted
      <4>8. QED
        BY <2>4, <4>3, <4>7
    <3>6. QED
      BY <1>1, <3>4, <3>5
  <2>7. QED
    BY <2>5, <2>6
<1>2. ASSUME NEW j \in Keys, Tick
      PROVE  /\ Accounted(granted'[j], bucket'[j], now')
             /\ Sliding(granted'[j])
  <2>1. PICK g, b, n, m : g = granted[j] /\ b = bucket[j] /\ n = now /\ m = now'
    OBVIOUS
  <2>2. /\ granted'[j] = g /\ bucket'[j] = b /\ m = n + 1 /\ n \in Times
        /\ b \in Bucket \cup {None} /\ n < MaxTime
    BY <1>2, <2>1 DEF Tick, IInv, TypeOK
  <2>3. m \in Times /\ n <= m
    BY <2>2, LimitAssumption DEF Times
  <2>4. Accounted(g, b, n) /\ Sliding(g)
    BY <2>1 DEF Counted
  <2>5. Accounted(g, b, m)
    BY <2>2, <2>3, <2>4, LaterAccounted
  <2>6. QED
    BY <2>1, <2>2, <2>4, <2>5
<1>3. ASSUME NEW j \in Keys, UNCHANGED vars
      PROVE  /\ Accounted(granted'[j], bucket'[j], now')
             /\ Sliding(granted'[j])
  BY <1>3 DEF vars, Counted
<1>4. \A j \in Keys : /\ Accounted(granted'[j], bucket'[j], now')
                      /\ Sliding(granted'[j])
  BY <1>1, <1>2, <1>3 DEF Next
<1>5. QED
  BY <1>4 DEF Counted, Accounted, Sliding, Hits, Span, Start

\* The history of grants is accounted for in every reachable state.
THEOREM EveryGrantIsCounted == Spec => []Counted
<1>1. Init => Counted
  <2>1. SUFFICES ASSUME Init, NEW k \in Keys
                 PROVE  /\ Accounted(granted[k], bucket[k], now)
                        /\ Sliding(granted[k])
    BY DEF Counted
  <2>2. PICK g : g = granted[k]
    OBVIOUS
  <2>3. g \in [Times -> Nat] /\ \A t \in Times : g[t] = 0
    BY <2>1, <2>2 DEF Init
  <2>4. ASSUME NEW t \in Times
        PROVE  Hits(g, t, t + WindowLen) <= 2 * Limit
    <3>1. Hits(g, t, t + WindowLen) = 0
      BY <2>3, Numbers, HitsNone
    <3>2. QED
      BY <3>1, Numbers
  <2>5. bucket[k] = None
    BY <2>1 DEF Init
  <2>6. QED
    BY <2>2, <2>3, <2>4, <2>5 DEF Accounted, Sliding
<1>2. IInv /\ Counted /\ [Next]_vars => Counted'
  BY CountedStep
<1>3. QED
  BY <1>1, <1>2, Invariance, PTL DEF Spec

\* Every hit allowed since the current bucket was opened is counted in it, and
\* they are at most the limit: none is lost when a bucket is replaced
\* (rate_limit.py:31-40).
THEOREM NoGrantUncounted == Spec => []CountsEveryGrant
<1>1. IInv /\ Counted => CountsEveryGrant
  BY GrantedIs DEF IInv, Counted, Accounted, Start, CountsEveryGrant
<1>2. QED
  BY <1>1, Invariance, EveryGrantIsCounted, PTL

\* Wherever a stretch of one window's length starts, it holds at most twice
\* the limit: the price of fixed windows, and no more (rate_limit.py:28-40).
THEOREM TwiceTheLimitAtMost == Spec => []SlidingBound
<1>1. Counted => SlidingBound
  BY GrantedIs DEF Counted, Sliding, SlidingBound
<1>2. QED
  BY <1>1, EveryGrantIsCounted, PTL
-----------------------------------------------------------------------------
(***************************************************************************)
(* The minutes of an entry.                                                *)
(***************************************************************************)
\* What rounding down loses is less than a minute.
LEMMA Division ==
  ASSUME NEW x \in Int, NEW m \in Nat \ {0}
  PROVE  /\ x \div m \in Int
         /\ m * (x \div m) <= x
         /\ x < m * (x \div m) + m
<1>1. x \div m \in Int /\ x % m \in 0 .. m - 1
  OBVIOUS
<1>2. x = m * (x \div m) + (x % m)
  BY <1>1
<1>3. QED
  BY <1>1, <1>2

LEMMA MinutesLess ==
  ASSUME NEW x \in Int, NEW y \in Int, NEW m \in Nat \ {0}, m * x < m * y + m
  PROVE  x <= y
<1>1. ASSUME x >= y + 1  PROVE FALSE
  <2>1. m * x >= m * (y + 1)
    BY <1>1
  <2>2. m * (y + 1) = m * y + m
    OBVIOUS
  <2>3. m * x \in Int /\ m * y \in Int
    OBVIOUS
  <2>4. QED
    BY <2>1, <2>2, <2>3
<1>2. QED
  BY <1>1

\* Later instants are no fewer minutes.
LEMMA DivisionMonotone ==
  ASSUME NEW x \in Int, NEW y \in Int, x <= y, NEW m \in Nat \ {0}
  PROVE  x \div m <= y \div m
<1>1. PICK p, q : p = x \div m /\ q = y \div m
  OBVIOUS
<1>2. /\ p \in Int /\ q \in Int
      /\ m * p <= x /\ y < m * q + m
  BY <1>1, Division
<1>3. m * p \in Int /\ m * q \in Int
  BY <1>2
<1>4. m * p < m * q + m
  BY <1>2, <1>3
<1>5. QED
  BY <1>1, <1>2, <1>4, MinutesLess

Minutes(w) == MinutesBetween(w.start, w.end)

\* W fits into the entry from a to b.
FitsIn(W, a, b) ==
    /\ IsFiniteSet(W)
    /\ \A w \in W : w.start \in a .. b /\ w.end \in a .. b /\ w.start <= w.end
    /\ \A v, w \in W : v # w => v.end <= w.start \/ w.end <= v.start

LEMMA MinutesIs ==
  ASSUME NEW x \in Int, NEW y \in Int
  PROVE  /\ MinutesBetween(x, y) \in Nat
         /\ x <= y => MinutesBetween(x, y) = (y - x) \div MinuteLen
<1>1. PICK q : q = (y - x) \div MinuteLen
  OBVIOUS
<1>2. q \in Int /\ y - x < MinuteLen * q + MinuteLen /\ MinuteLen \in Nat \ {0}
  BY <1>1, Division, ClockAssumption
<1>3. MinutesBetween(x, y) = IF q < 0 THEN 0 ELSE q
  BY <1>1 DEF MinutesBetween, AtLeastZero
<1>4. ASSUME x <= y, q < 0  PROVE FALSE
  <2>1. MinuteLen * q <= MinuteLen * (-1)
    BY <1>2, <1>4
  <2>2. MinuteLen * (-1) = - MinuteLen /\ MinuteLen * q \in Int
    BY <1>2
  <2>3. QED
    BY <1>2, <1>4, <2>1, <2>2
<1>5. QED
  BY <1>1, <1>2, <1>3, <1>4

\* The fold behind Paused is a sum over the windows.
LEMMA PausedSum ==
  ASSUME NEW S, IsFiniteSet(S), NEW g, \A w \in S : g[w] = Minutes(w)
  PROVE  MapThenSumSet(LAMBDA w : MinutesBetween(w.start, w.end), S) = Sum(g, S)
<1> DEFINE Solves(h) == h = [s \in SUBSET S |->
                IF s = {} THEN 0
                ELSE MinutesBetween(First(s).start, First(s).end) + h[s \ {First(s)}]]
<1>1. MapThenSumSet(LAMBDA w : MinutesBetween(w.start, w.end), S) = (CHOOSE h : Solves(h))[S]
  BY DEF MapThenSumSet, MapThenFoldSet, First
<1>2. ASSUME NEW s \in SUBSET S, s # {}
      PROVE  g[First(s)] = MinutesBetween(First(s).start, First(s).end)
  BY <1>2, FirstIn DEF Minutes
<1>3. ASSUME NEW h  PROVE Solves(h) <=> Sums(h, g, S)
  <2>1. [s \in SUBSET S |-> IF s = {} THEN 0
                ELSE MinutesBetween(First(s).start, First(s).end) + h[s \ {First(s)}]]
        = [s \in SUBSET S |-> IF s = {} THEN 0 ELSE g[First(s)] + h[s \ {First(s)}]]
    BY <1>2
  <2>2. QED
    BY <2>1 DEF Sums
<1> HIDE DEF Solves
<1>4. PICK f : Sums(f, g, S)
  BY SumsExist
<1>5. Solves(CHOOSE h : Solves(h)) /\ Sums(CHOOSE h : Sums(h, g, S), g, S)
  BY <1>3, <1>4
<1>6. PICK h, k : h = (CHOOSE e : Solves(e)) /\ k = (CHOOSE e : Sums(e, g, S))
  OBVIOUS
<1>7. Sums(h, g, S) /\ Sums(k, g, S)
  BY <1>3, <1>5, <1>6
<1>8. h[S] = k[S]
  BY <1>7, SumsAgree
<1>9. QED
  BY <1>1, <1>6, <1>8, SumIs

\* Paused in terms of the sum.
LEMMA PausedIs ==
  ASSUME NEW W, IsFiniteSet(W), NEW g, \A w \in W : g[w] = Minutes(w),
         NEW kind, NEW allowance
  PROVE  Paused(W, kind, allowance) =
           LET taken == Sum(g, {w \in W : w.kind = kind})
           IN  IF taken = 0 THEN allowance ELSE taken
<1>1. PICK S : S = {w \in W : w.kind = kind}
  OBVIOUS
<1>2. IsFiniteSet(S) /\ \A w \in S : g[w] = Minutes(w)
  BY <1>1, FS_Subset
<1>3. MapThenSumSet(LAMBDA w : MinutesBetween(w.start, w.end), S) = Sum(g, S)
  BY <1>2, PausedSum
<1>4. QED
  BY <1>1, <1>3 DEF Paused

\* The ticks between a and b that a window of W covers.
Covered(W, a, b) == {t \in a .. b - 1 : \E w \in W : Covers(w, t)}

\* Disjoint windows cover as many ticks as they are long together.
LEMMA CoveredTicks ==
  ASSUME NEW a \in Int, NEW b \in Int, NEW W, FitsIn(W, a, b),
         NEW len \in [W -> Nat], \A w \in W : len[w] = w.end - w.start
  PROVE  \A s \in SUBSET W : /\ IsFiniteSet(Covered(s, a, b))
                             /\ Cardinality(Covered(s, a, b)) = Sum(len, s)
<1>0. IsFiniteSet(W) /\ \A s \in SUBSET W : IsFiniteSet(s) /\ Cardinality(s) \in Nat
  BY FS_Subset, FS_CardinalityType DEF FitsIn
<1> DEFINE A == {n \in Nat : \A s \in SUBSET W : Cardinality(s) <= n =>
                    /\ IsFiniteSet(Covered(s, a, b))
                    /\ Cardinality(Covered(s, a, b)) = Sum(len, s)}
<1>1. IsFiniteSet(Covered({}, a, b)) /\ Cardinality(Covered({}, a, b)) = Sum(len, {})
  <2>1. Covered({}, a, b) = {}
    BY DEF Covered
  <2>2. QED
    BY <1>0, <2>1, FS_EmptySet, SumUnfold
<1>2. 0 \in A
  <2>1. ASSUME NEW s \in SUBSET W, Cardinality(s) <= 0  PROVE s = {}
    BY <1>0, <2>1, FS_EmptySet
  <2>2. QED
    BY <1>1, <2>1
<1>3. ASSUME NEW n \in Nat, n \in A
      PROVE  n + 1 \in A
  <2>1. ASSUME NEW s \in SUBSET W, Cardinality(s) <= n + 1, s # {}
        PROVE  /\ IsFiniteSet(Covered(s, a, b))
               /\ Cardinality(Covered(s, a, b)) = Sum(len, s)
    <3>1. PICK x \in s : TRUE
      BY <2>1
    <3>2. PICK r : r = s \ {x}
      OBVIOUS
    <3>3. r \in SUBSET W /\ Cardinality(r) = Cardinality(s) - 1 /\ s = r \cup {x} /\ x \notin r
      BY <1>0, <3>1, <3>2, FS_RemoveElement
    <3>4. /\ IsFiniteSet(Covered(r, a, b))
          /\ Cardinality(Covered(r, a, b)) = Sum(len, r)
      BY <1>0, <1>3, <2>1, <3>3
    <3>5. /\ x.start \in Int /\ x.end \in Int /\ a <= x.start /\ x.end <= b
          /\ x.start <= x.end
      BY <3>1 DEF FitsIn
    <3>6. PICK I : I = x.start .. x.end - 1
      OBVIOUS
    <3>7. IsFiniteSet(I) /\ Cardinality(I) = x.end - x.start
      <4>1. PICK p, q : p = x.start /\ q = x.end - 1
        OBVIOUS
      <4>2. p \in Int /\ q \in Int /\ p <= q + 1 /\ I = p .. q /\ x.end - x.start = q + 1 - p
        BY <3>5, <3>6, <4>1
      <4>3. IsFiniteSet(p .. q) /\ Cardinality(p .. q) = IF p > q THEN 0 ELSE q - p + 1
        BY <4>2, FS_Interval
      <4>4. QED
        BY <4>2, <4>3
    <3>8. \A t \in a .. b - 1 : Covers(x, t) <=> t \in I
      BY <3>5, <3>6 DEF Covers
    <3>9. I \subseteq a .. b - 1
      BY <3>5, <3>6
    <3>10. Covered(s, a, b) = Covered(r, a, b) \cup I
      BY <3>3, <3>8, <3>9 DEF Covered
    <3>11. Covered(r, a, b) \cap I = {}
      <4>1. ASSUME NEW t \in Int, NEW w \in r, Covers(w, t), Covers(x, t)  PROVE FALSE
        <5>1. w \in W /\ x \in W /\ w # x
          BY <3>1, <3>3
        <5>2. w.start \in Int /\ w.end \in Int /\ (w.end <= x.start \/ x.end <= w.start)
          BY <5>1 DEF FitsIn
        <5>3. QED
          BY <3>5, <4>1, <5>2 DEF Covers
      <4>2. QED
        BY <3>8, <3>9, <4>1 DEF Covered
    <3>12. PICK C : C = Covered(r, a, b)
      OBVIOUS
    <3>13. IsFiniteSet(C \cup I) /\ Cardinality(C \cup I) = Cardinality(C) + Cardinality(I)
      <4>1. Cardinality(C \cap I) = 0 /\ Cardinality(C) \in Nat /\ Cardinality(I) \in Nat
        BY <3>4, <3>7, <3>11, <3>12, FS_EmptySet, FS_CardinalityType
      <4>2. QED
        BY <3>4, <3>7, <3>12, <4>1, FS_Union
    <3>14. Sum(len, s) = len[x] + Sum(len, r)
      BY <1>0, <3>1, <3>2, SumRemove
    <3>15. Sum(len, r) \in Nat /\ len[x] = x.end - x.start
      BY <1>0, <3>1, <3>3, SumUnfold
    <3>16. QED
      BY <3>4, <3>5, <3>7, <3>10, <3>12, <3>13, <3>14, <3>15
  <2>2. QED
    BY <1>1, <2>1
<1> HIDE DEF A
<1>4. Nat \subseteq A
  BY <1>2, <1>3, Induction
<1>5. QED
  BY <1>0, <1>4 DEF A

\* Rounding each window down loses less than a minute of each.
LEMMA RoundedLengths ==
  ASSUME NEW W, IsFiniteSet(W), NEW m \in Nat \ {0},
         NEW len \in [W -> Nat], NEW min \in [W -> Nat],
         \A w \in W : m * min[w] <= len[w] /\ len[w] < m * min[w] + m
  PROVE  \A s \in SUBSET W :
            /\ m * Sum(min, s) <= Sum(len, s)
            /\ Sum(len, s) <= m * Sum(min, s) + Cardinality(s) * (m - 1)
<1>0. \A s \in SUBSET W : IsFiniteSet(s) /\ Cardinality(s) \in Nat
  BY FS_Subset, FS_CardinalityType
<1> DEFINE Rounded(s) == /\ m * Sum(min, s) <= Sum(len, s)
                         /\ Sum(len, s) <= m * Sum(min, s) + Cardinality(s) * (m - 1)
           A == {n \in Nat : \A s \in SUBSET W : Cardinality(s) <= n => Rounded(s)}
<1>1. Rounded({})
  BY SumUnfold, FS_EmptySet
<1>2. ASSUME NEW s \in SUBSET W, NEW x \in s, Rounded(s \ {x})
      PROVE  Rounded(s)
  <2>1. PICK p, q, c, u, v : /\ p = Sum(min, s \ {x}) /\ q = Sum(len, s \ {x})
                             /\ c = Cardinality(s \ {x}) /\ u = min[x] /\ v = len[x]
    OBVIOUS
  <2>2. p \in Nat /\ q \in Nat /\ c \in Nat /\ u \in Nat /\ v \in Nat
    BY <1>0, <2>1, SumUnfold
  <2>3. Sum(min, s) = u + p /\ Sum(len, s) = v + q
    BY <2>1, SumRemove
  <2>4. Cardinality(s) = c + 1
    BY <1>0, <2>1, <2>2, FS_RemoveElement
  <2>5. m * p <= q /\ q <= m * p + c * (m - 1)
    BY <1>2, <2>1
  <2>6. m * u <= v /\ v <= m * u + (m - 1)
    BY <2>1, <2>2
  <2>7. m * (u + p) = m * u + m * p /\ (c + 1) * (m - 1) = c * (m - 1) + (m - 1)
    BY <2>2
  <2>8. m * u \in Int /\ m * p \in Int /\ c * (m - 1) \in Int
    BY <2>2
  <2>9. m * (u + p) <= v + q /\ v + q <= m * (u + p) + (c + 1) * (m - 1)
    BY <2>2, <2>5, <2>6, <2>7, <2>8
  <2>10. QED
    BY <2>3, <2>4, <2>9
<1> HIDE DEF Rounded
<1>3. 0 \in A
  <2>1. ASSUME NEW s \in SUBSET W, Cardinality(s) <= 0  PROVE s = {}
    BY <1>0, <2>1, FS_EmptySet
  <2>2. QED
    BY <1>1, <2>1
<1>4. ASSUME NEW n \in Nat, n \in A
      PROVE  n + 1 \in A
  <2>1. ASSUME NEW s \in SUBSET W, Cardinality(s) <= n + 1, s # {}
        PROVE  Rounded(s)
    <3>1. PICK x \in s : TRUE
      BY <2>1
    <3>2. s \ {x} \in SUBSET W /\ Cardinality(s \ {x}) = Cardinality(s) - 1
      BY <1>0, <3>1, FS_RemoveElement
    <3>3. QED
      BY <1>0, <1>2, <1>4, <2>1, <3>1, <3>2
  <2>2. ASSUME NEW s \in SUBSET W, Cardinality(s) <= n + 1
        PROVE  Rounded(s)
    <3>1. CASE s = {}
      BY <1>1, <3>1, Zenon
    <3>2. CASE s # {}
      BY <2>1, <2>2, <3>2
    <3>3. QED
      BY <3>1, <3>2
  <2>3. QED
    BY <2>2
<1> HIDE DEF A
<1>5. Nat \subseteq A
  BY <1>3, <1>4, Induction
<1>6. QED
  BY <1>0, <1>5 DEF A, Rounded

-----------------------------------------------------------------------------
\* What is true of every entry there is to look at.
EntryShape ==
    /\ shift \in Shifts
    /\ in \in Ticks /\ out \in in .. MaxTick
    /\ FitsIn(windows, in, out)
    /\ \A w \in windows : w.kind \in Kinds

MinutesOf == [w \in windows |-> Minutes(w)]
LengthOf  == [w \in windows |-> w.end - w.start]
OfKind(k) == {w \in windows : w.kind = k}

LEMMA InitEntry == EntryInit => EntryShape
<1> SUFFICES ASSUME EntryInit  PROVE EntryShape
  OBVIOUS
<1>0. PICK n \in 0 .. MaxWindows : \E s \in [1 .. n -> Slots(in, out)] :
         windows = {[id |-> k, kind |-> s[k].kind, start |-> s[k].start, end |-> s[k].end]
                       : k \in 1 .. n}
  BY DEF EntryInit
<1>1. PICK s \in [1 .. n -> Slots(in, out)] :
         windows = {[id |-> k, kind |-> s[k].kind, start |-> s[k].start, end |-> s[k].end]
                       : k \in 1 .. n}
  BY <1>0
<1>2. n \in Nat /\ in \in Int /\ out \in Int
  BY EntryAssumption DEF EntryInit, Ticks
<1> DEFINE W == {[id |-> k, kind |-> s[k].kind, start |-> s[k].start, end |-> s[k].end]
                    : k \in 1 .. n}
           f == [k \in 1 .. n |->
                    [id |-> k, kind |-> s[k].kind, start |-> s[k].start, end |-> s[k].end]]
<1>3. IsFiniteSet(1 .. n)
  BY <1>2, FS_Interval
<1>4. f \in Surjection(1 .. n, W)
  BY DEF Surjection
<1>5. IsFiniteSet(W)
  BY <1>3, <1>4, FS_Surjection
<1>6. \A w \in W : /\ w.kind \in Kinds
                   /\ w.start \in in .. out /\ w.end \in in .. out
  BY DEF Slots
<1>7. \A v, w \in W : v.id = w.id => v = w
  OBVIOUS
<1> HIDE DEF W
<1>8. windows = W
  BY <1>1 DEF W
<1>9. QED
  BY <1>5, <1>6, <1>7, <1>8 DEF EntryInit, EntryShape, FitsIn, Disjoint

\* The windows' minutes and lengths are naturals that go together.
LEMMA WindowNumbers ==
  ASSUME EntryShape
  PROVE  /\ IsFiniteSet(windows) /\ MinuteLen \in Nat \ {0}
         /\ in \in Nat /\ out \in Nat /\ in <= out
         /\ MinutesOf \in [windows -> Nat] /\ LengthOf \in [windows -> Nat]
         /\ \A w \in windows : /\ LengthOf[w] = w.end - w.start
                               /\ MinutesOf[w] = LengthOf[w] \div MinuteLen
                               /\ MinuteLen * MinutesOf[w] <= LengthOf[w]
                               /\ LengthOf[w] < MinuteLen * MinutesOf[w] + MinuteLen
<1>1. /\ IsFiniteSet(windows) /\ MinuteLen \in Nat \ {0}
      /\ in \in Nat /\ out \in Nat /\ in <= out
  BY EntryAssumption, ClockAssumption DEF EntryShape, FitsIn, Ticks
<1>2. ASSUME NEW w \in windows
      PROVE  /\ w.start \in Int /\ w.end \in Int /\ w.start <= w.end
             /\ w.end - w.start \in Nat
             /\ Minutes(w) \in Nat
             /\ Minutes(w) = (w.end - w.start) \div MinuteLen
  <2>1. w.start \in Int /\ w.end \in Int /\ w.start <= w.end
    BY <1>1, <1>2 DEF EntryShape, FitsIn
  <2>2. PICK x, y : x = w.start /\ y = w.end
    OBVIOUS
  <2>3. MinutesBetween(x, y) \in Nat /\ MinutesBetween(x, y) = (y - x) \div MinuteLen
    BY <2>1, <2>2, MinutesIs
  <2>4. w.end - w.start \in Nat
    BY <2>1
  <2>5. QED
    BY <2>1, <2>2, <2>3, <2>4 DEF Minutes
<1>3. MinutesOf \in [windows -> Nat] /\ LengthOf \in [windows -> Nat]
  BY <1>2 DEF MinutesOf, LengthOf
<1>4. ASSUME NEW w \in windows
      PROVE  /\ LengthOf[w] = w.end - w.start
             /\ MinutesOf[w] = LengthOf[w] \div MinuteLen
             /\ LengthOf[w] \in Int
  BY <1>2 DEF MinutesOf, LengthOf
<1>5. ASSUME NEW w \in windows
      PROVE  /\ MinuteLen * MinutesOf[w] <= LengthOf[w]
             /\ LengthOf[w] < MinuteLen * MinutesOf[w] + MinuteLen
  <2>1. PICK x : x = LengthOf[w]
    OBVIOUS
  <2>2. x \in Int /\ MinutesOf[w] = x \div MinuteLen
    BY <1>4, <2>1
  <2>3. MinuteLen * (x \div MinuteLen) <= x /\ x < MinuteLen * (x \div MinuteLen) + MinuteLen
    BY <1>1, <2>2, Division
  <2>4. QED
    BY <2>1, <2>2, <2>3
<1>6. QED
  BY <1>1, <1>3, <1>4, <1>5

\* What was taken of a kind is the sum that the handler charges.
LEMMA TakenIs ==
  ASSUME EntryShape, NEW k
  PROVE  Taken(k) = Sum(MinutesOf, OfKind(k))
<1> DEFINE S == OfKind(k)
           g == MinutesOf
           Solves(h) == h = [s \in SUBSET S |->
                IF s = {} THEN 0
                ELSE (Cardinality({t \in Ticks : Covers(First(s), t)}) \div MinuteLen)
                     + h[s \ {First(s)}]]
<1>1. Taken(k) = (CHOOSE h : Solves(h))[S]
  BY DEF Taken, MapThenSumSet, MapThenFoldSet, First, OfKind
<1>2. ASSUME NEW w \in windows
      PROVE  g[w] = Cardinality({t \in Ticks : Covers(w, t)}) \div MinuteLen
  <2>1. PICK p, q : p = w.start /\ q = w.end - 1
    OBVIOUS
  <2>2. /\ p \in Int /\ q \in Int /\ p <= q + 1 /\ LengthOf[w] = q - p + 1
        /\ w.start = p /\ w.end = q + 1 /\ w.end \in Int
        /\ 0 <= p /\ q < MaxTick /\ MaxTick \in Nat
    <3>1. w.start \in in .. out /\ w.end \in in .. out /\ w.start <= w.end
      BY DEF EntryShape, FitsIn
    <3>2. in \in 0 .. MaxTick /\ out \in in .. MaxTick /\ MaxTick \in Nat
      BY EntryAssumption DEF EntryShape, Ticks
    <3>3. LengthOf[w] = w.end - w.start
      BY WindowNumbers
    <3>4. QED
      BY <2>1, <3>1, <3>2, <3>3
  <2>3. {t \in Ticks : Covers(w, t)} = p .. q
    BY <2>2 DEF Ticks, Covers
  <2>4. Cardinality(p .. q) = IF p > q THEN 0 ELSE q - p + 1
    BY <2>2, FS_Interval
  <2>5. Cardinality(p .. q) = LengthOf[w]
    BY <2>2, <2>4
  <2>6. QED
    BY <2>3, <2>5, WindowNumbers
<1>3. IsFiniteSet(S) /\ S \subseteq windows
  BY WindowNumbers, FS_Subset DEF OfKind
<1>4. ASSUME NEW h  PROVE Solves(h) <=> Sums(h, g, S)
  <2>1. ASSUME NEW s \in SUBSET S, s # {}
        PROVE  g[First(s)] = Cardinality({t \in Ticks : Covers(First(s), t)}) \div MinuteLen
    <3>1. First(s) \in windows
      BY <1>3, <2>1, FirstIn
    <3>2. QED
      BY <1>2, <3>1
  <2>2. [s \in SUBSET S |-> IF s = {} THEN 0
                ELSE (Cardinality({t \in Ticks : Covers(First(s), t)}) \div MinuteLen)
                     + h[s \ {First(s)}]]
        = [s \in SUBSET S |-> IF s = {} THEN 0 ELSE g[First(s)] + h[s \ {First(s)}]]
    BY <2>1
  <2>3. QED
    BY <2>2 DEF Sums
<1> HIDE DEF Solves, S, g
<1>5. PICK f : Sums(f, g, S)
  BY <1>3, SumsExist
<1>6. Solves(CHOOSE h : Solves(h)) /\ Sums(CHOOSE h : Sums(h, g, S), g, S)
  BY <1>4, <1>5
<1>7. PICK h, e : h = (CHOOSE x : Solves(x)) /\ e = (CHOOSE x : Sums(x, g, S))
  OBVIOUS
<1>8. Sums(h, g, S) /\ Sums(e, g, S)
  BY <1>4, <1>6, <1>7
<1>9. h[S] = e[S]
  BY <1>3, <1>8, SumsAgree
<1>10. Taken(k) = Sum(g, S)
  BY <1>1, <1>7, <1>9, SumIs
<1>11. QED
  BY <1>10 DEF g, S

\* What is charged for a kind of break.
Charged(k, allowance) ==
    LET taken == Sum(MinutesOf, OfKind(k)) IN IF taken = 0 THEN allowance ELSE taken

Allowed(k) == IF k = "BREAK" THEN shift.brk ELSE shift.lunch

LEMMA AllowedType ==
  ASSUME EntryShape
  PROVE  shift.brk \in Nat /\ shift.lunch \in Nat /\ \A k : Allowed(k) \in Nat
BY EntryAssumption DEF EntryShape, Allowed

LEMMA ChargedType ==
  ASSUME EntryShape, NEW k, NEW allowance \in Nat
  PROVE  /\ Sum(MinutesOf, OfKind(k)) \in Nat
         /\ Charged(k, allowance) \in Nat
         /\ Paused(windows, k, allowance) = Charged(k, allowance)
<1>1. IsFiniteSet(windows) /\ MinutesOf \in [windows -> Nat]
  BY WindowNumbers
<1>2. OfKind(k) \in SUBSET windows
  BY DEF OfKind
<1>3. Sum(MinutesOf, OfKind(k)) \in Nat
  BY <1>1, <1>2, SumUnfold
<1>4. PICK g : g = MinutesOf
  OBVIOUS
<1>5. \A w \in windows : g[w] = Minutes(w)
  BY <1>4 DEF MinutesOf
<1>6. Paused(windows, k, allowance) =
        LET taken == Sum(g, {w \in windows : w.kind = k})
        IN  IF taken = 0 THEN allowance ELSE taken
  BY <1>1, <1>5, PausedIs
<1>7. QED
  BY <1>3, <1>4, <1>6 DEF Charged, OfKind

\* The minutes worked: those of the entry less what is charged.
LEMMA WorkedIs ==
  ASSUME EntryShape
  PROVE  Summary.worked = AtLeastZero(MinutesBetween(in, out)
                             - Charged("BREAK", shift.brk) - Charged("LUNCH", shift.lunch))
<1>1. /\ Paused(windows, "BREAK", shift.brk) = Charged("BREAK", shift.brk)
      /\ Paused(windows, "LUNCH", shift.lunch) = Charged("LUNCH", shift.lunch)
  BY AllowedType, ChargedType
<1>2. QED
  BY <1>1 DEF Summary, SummarizeEntry

\* Breaks and lunches together are all the windows.
LEMMA KindsTogether ==
  ASSUME EntryShape
  PROVE  Sum(MinutesOf, windows)
           = Sum(MinutesOf, OfKind("BREAK")) + Sum(MinutesOf, OfKind("LUNCH"))
<1>1. PICK s, t : s = OfKind("BREAK") /\ t = OfKind("LUNCH")
  OBVIOUS
<1>2. s \in SUBSET windows /\ t \in SUBSET windows /\ s \cap t = {} /\ s \cup t = windows
  BY <1>1 DEF OfKind, EntryShape, Kinds
<1>3. Sum(MinutesOf, s \cup t) = Sum(MinutesOf, s) + Sum(MinutesOf, t)
  BY <1>2, WindowNumbers, SumUnion
<1>4. QED
  BY <1>1, <1>2, <1>3

\* The ticks of the entry no window covers are what the windows leave.
LEMMA WorkedTicksIs ==
  ASSUME EntryShape
  PROVE  /\ Sum(LengthOf, windows) \in Nat
         /\ Sum(LengthOf, windows) <= out - in
         /\ WorkedTicks = out - in - Sum(LengthOf, windows)
<1>1. FitsIn(windows, in, out) /\ in \in Int /\ out \in Int /\ in <= out
  BY WindowNumbers DEF EntryShape
<1>2. PICK C, E : C = Covered(windows, in, out) /\ E = in .. out - 1
  OBVIOUS
<1>3. IsFiniteSet(C) /\ Cardinality(C) = Sum(LengthOf, windows)
  BY <1>1, <1>2, WindowNumbers, CoveredTicks
<1>4. IsFiniteSet(E) /\ Cardinality(E) = out - in
  <2>1. PICK q : q = out - 1
    OBVIOUS
  <2>2. q \in Int /\ in <= q + 1 /\ E = in .. q /\ out - in = q - in + 1
    BY <1>1, <1>2, <2>1
  <2>3. IsFiniteSet(in .. q) /\ Cardinality(in .. q) = IF in > q THEN 0 ELSE q - in + 1
    BY <1>1, <2>2, FS_Interval
  <2>4. QED
    BY <1>1, <2>2, <2>3
<1>5. C \subseteq E /\ {t \in in .. out - 1 : ~\E w \in windows : Covers(w, t)} = E \ C
  BY <1>2 DEF Covered
<1>6. WorkedTicks = Cardinality(E \ C)
  BY <1>5 DEF WorkedTicks
<1>7. Cardinality(E \ C) = Cardinality(E) - Cardinality(C)
  <2>1. E \cap C = C
    BY <1>5
  <2>2. Cardinality(E \ C) = Cardinality(E) - Cardinality(E \cap C)
    BY <1>4, FS_Difference
  <2>3. QED
    BY <2>1, <2>2
<1>8. Cardinality(C) \in Nat /\ Cardinality(C) <= Cardinality(E)
  BY <1>3, <1>4, <1>5, FS_CardinalityType, FS_Subset
<1>9. QED
  BY <1>3, <1>4, <1>6, <1>7, <1>8

LEMMA EntryInductive == EntrySpec => []EntryShape
<1>1. EntryShape /\ [EntryNext]_<<shift, in, out, windows>> => EntryShape'
  BY DEF EntryShape, EntryNext
<1>2. QED
  BY <1>1, InitEntry, PTL DEF EntrySpec

\* The sum the handler subtracts, against the ticks it stands for.
LEMMA WorkedRounds ==
  ASSUME NEW m \in Nat \ {0}, NEW span \in Nat, NEW len \in Nat, len <= span,
         NEW min \in Nat, NEW c \in Nat,
         m * min <= len, len <= m * min + c * (m - 1)
  PROVE  LET ticks == AtLeastZero((span \div m) - min) * m
         IN  /\ (span - len) - ticks < m
             /\ ticks - (span - len) <= c * (m - 1)
<1>1. PICK q : q = span \div m
  OBVIOUS
<1>2. q \in Int /\ m * q <= span /\ span < m * q + m
  BY <1>1, Division
<1>3. m * q \in Int /\ m * min \in Int /\ c * (m - 1) \in Int
  BY <1>2
<1>4. min <= q
  <2>1. m * min < m * q + m
    BY <1>2, <1>3
  <2>2. QED
    BY <1>2, <2>1, MinutesLess
<1>5. AtLeastZero(q - min) * m = m * q - m * min
  <2>1. AtLeastZero(q - min) = q - min
    BY <1>2, <1>4 DEF AtLeastZero
  <2>2. (q - min) * m = m * q - m * min
    BY <1>2
  <2>3. QED
    BY <2>1, <2>2
<1>6. /\ (span - len) - (m * q - m * min) < m
      /\ (m * q - m * min) - (span - len) <= c * (m - 1)
  BY <1>2, <1>3
<1>7. QED
  BY <1>1, <1>5, <1>6

\* Of an entry with breaks of each kind, the minutes worked are the ticks
\* that no break covers, up to the minute the entry and each break are
\* rounded by (services/timeclock.py:42-43), however many breaks there are.
THEOREM WorkedIsRounded == EntrySpec => []WorkedWithinRounding
<1>1. ASSUME EntryShape, \A k \in Kinds : Taken(k) > 0
      PROVE  /\ WorkedTicks - Summary.worked * MinuteLen < MinuteLen
             /\ Summary.worked * MinuteLen - WorkedTicks
                  <= Cardinality(windows) * (MinuteLen - 1)
  <2>1. PICK m, span, len, min, c, b, l :
           /\ m = MinuteLen /\ span = out - in /\ len = Sum(LengthOf, windows)
           /\ min = Sum(MinutesOf, windows) /\ c = Cardinality(windows)
           /\ b = Sum(MinutesOf, OfKind("BREAK")) /\ l = Sum(MinutesOf, OfKind("LUNCH"))
    OBVIOUS
  <2>2. m \in Nat \ {0} /\ span \in Nat /\ len \in Nat /\ len <= span /\ min \in Nat
    <3>1. MinuteLen \in Nat \ {0} /\ out - in \in Nat
      BY <1>1, WindowNumbers
    <3>2. Sum(MinutesOf, windows) \in Nat
      BY <1>1, WindowNumbers, SumUnfold
    <3>3. QED
      BY <1>1, <2>1, <3>1, <3>2, WorkedTicksIs
  <2>3. c \in Nat
    BY <1>1, <2>1, WindowNumbers, FS_CardinalityType
  <2>4. m * min <= len /\ len <= m * min + c * (m - 1)
    <3>1. \A s \in SUBSET windows :
             /\ m * Sum(MinutesOf, s) <= Sum(LengthOf, s)
             /\ Sum(LengthOf, s) <= m * Sum(MinutesOf, s) + Cardinality(s) * (m - 1)
      BY <1>1, <2>1, <2>2, WindowNumbers, RoundedLengths
    <3>2. QED
      BY <2>1, <3>1
  <2>5. b \in Nat /\ l \in Nat /\ b > 0 /\ l > 0 /\ min = b + l
    <3>1. b \in Nat /\ l \in Nat
      BY <1>1, <2>1, ChargedType
    <3>2. Taken("BREAK") = b /\ Taken("LUNCH") = l
      BY <1>1, <2>1, TakenIs
    <3>3. QED
      BY <1>1, <2>1, <3>1, <3>2, KindsTogether DEF Kinds
  <2>6. MinutesBetween(in, out) = span \div m
    BY <1>1, <2>1, WindowNumbers, MinutesIs
  <2>7. Charged("BREAK", shift.brk) = b /\ Charged("LUNCH", shift.lunch) = l
    BY <2>1, <2>5 DEF Charged
  <2>8. PICK q : q = span \div m
    OBVIOUS
  <2>9. q - b - l = q - min
    <3>1. q \in Int
      BY <2>2, <2>8, Division
    <3>2. QED
      BY <2>5, <3>1
  <2>10. Summary.worked = AtLeastZero((span \div m) - min)
    BY <1>1, <2>6, <2>7, <2>8, <2>9, WorkedIs
  <2>11. WorkedTicks = span - len
    BY <1>1, <2>1, WorkedTicksIs
  <2>12. PICK ticks : ticks = AtLeastZero((span \div m) - min) * m
    OBVIOUS
  <2>13. (span - len) - ticks < m /\ ticks - (span - len) <= c * (m - 1)
    BY <2>2, <2>3, <2>4, <2>12, WorkedRounds
  <2>14. QED
    BY <2>1, <2>10, <2>11, <2>12, <2>13
<1>2. EntryShape => WorkedWithinRounding
  BY <1>1 DEF WorkedWithinRounding
<1>3. QED
  BY <1>2, EntryInductive, PTL

-----------------------------------------------------------------------------
\* Counted around midnight, the ticks of a shift are those from its start to
\* its end, on the next day if need be.
LEMMA ShiftTicksIs ==
  ASSUME EntryShape
  PROVE  ShiftTicks = (IF shift.end <= shift.start THEN shift.end + DayLen ELSE shift.end)
                        - shift.start
<1>1. PICK s, e, d : s = shift.start /\ e = shift.end /\ d = DayLen
  OBVIOUS
<1>2. d \in Nat /\ s \in 0 .. d - 1 /\ e \in 0 .. d - 1
  BY <1>1, EntryAssumption, ClockAssumption DEF EntryShape
<1>3. /\ IsFiniteSet(s .. d - 1) /\ Cardinality(s .. d - 1) = d - s
      /\ IsFiniteSet(0 .. e - 1) /\ Cardinality(0 .. e - 1) = e
      /\ s < e => IsFiniteSet(s .. e - 1) /\ Cardinality(s .. e - 1) = e - s
  <2>1. PICK p, q : p = d - 1 /\ q = e - 1
    OBVIOUS
  <2>2. p \in Int /\ q \in Int /\ s \in Int /\ 0 \in Int /\ p + 1 = d /\ q + 1 = e
    BY <1>2, <2>1
  <2>3. /\ IsFiniteSet(s .. p) /\ Cardinality(s .. p) = IF s > p THEN 0 ELSE p - s + 1
        /\ IsFiniteSet(0 .. q) /\ Cardinality(0 .. q) = IF 0 > q THEN 0 ELSE q - 0 + 1
        /\ IsFiniteSet(s .. q) /\ Cardinality(s .. q) = IF s > q THEN 0 ELSE q - s + 1
    BY <2>2, FS_Interval
  <2>4. QED
    BY <1>2, <2>1, <2>2, <2>3
<1>4. PICK T : T = {t \in 0 .. d - 1 : IF e <= s THEN t >= s \/ t < e ELSE t >= s /\ t < e}
  OBVIOUS
<1>5. ShiftTicks = Cardinality(T)
  BY <1>1, <1>4 DEF ShiftTicks
<1>6. ASSUME e <= s  PROVE ShiftTicks = d - s + e
  <2>1. T = (s .. d - 1) \cup (0 .. e - 1)
    BY <1>2, <1>4, <1>6
  <2>2. PICK A, B : A = s .. d - 1 /\ B = 0 .. e - 1
    OBVIOUS
  <2>3. A \cap B = {}
    BY <1>2, <1>6, <2>2
  <2>4. Cardinality(A \cap B) = 0
    BY <2>3, FS_EmptySet
  <2>5. Cardinality(A \cup B) = Cardinality(A) + Cardinality(B) - Cardinality(A \cap B)
    BY <1>3, <2>2, FS_Union
  <2>6. Cardinality(A \cup B) = d - s + e
    BY <1>2, <1>3, <2>2, <2>4, <2>5
  <2>7. ShiftTicks = d - s + e
    BY <1>5, <2>1, <2>2, <2>6
  <2>8. QED
    BY <2>7
<1>7. ASSUME ~(e <= s)  PROVE ShiftTicks = e - s
  <2>1. T = s .. e - 1
    BY <1>2, <1>4, <1>7
  <2>2. s < e
    BY <1>2, <1>7
  <2>3. QED
    BY <1>3, <1>5, <1>7, <2>1, <2>2
<1>8. QED
  BY <1>1, <1>2, <1>6, <1>7

\* The scheduled minutes are no fewer than none when the shift is longer than
\* its allowances.
LEMMA ScheduledEnough ==
  ASSUME EntryShape, (shift.brk + shift.lunch) * MinuteLen <= ShiftTicks
  PROVE  ScheduledWorkMinutes(shift) \in Nat
<1>1. PICK m, x, a, start, end :
         /\ m = MinuteLen /\ x = ShiftTicks /\ a = shift.brk + shift.lunch
         /\ start = shift.start
         /\ end = IF shift.end <= shift.start THEN shift.end + DayLen ELSE shift.end
  OBVIOUS
<1>2. /\ start \in Int /\ end \in Int /\ start <= end
      /\ shift.brk \in Nat /\ shift.lunch \in Nat /\ a \in Nat /\ m \in Nat \ {0}
  BY <1>1, EntryAssumption, ClockAssumption DEF EntryShape
<1>3. x = end - start /\ x \in Int
  BY <1>1, <1>2, ShiftTicksIs
<1>4. PICK q : q = x \div m
  OBVIOUS
<1>5. MinutesBetween(start, end) = q /\ q \in Int /\ x < m * q + m
  BY <1>1, <1>2, <1>3, <1>4, MinutesIs, Division
<1>6. m * a <= x
  <2>1. a * m <= x
    BY <1>1
  <2>2. a * m = m * a
    BY <1>2
  <2>3. QED
    BY <2>1, <2>2
<1>7. m * a < m * q + m
  <2>1. m * a \in Int /\ m * q \in Int
    BY <1>2, <1>5
  <2>2. QED
    BY <1>2, <1>3, <1>5, <1>6, <2>1
<1>8. a <= q
  BY <1>2, <1>5, <1>7, MinutesLess
<1>9. ScheduledWorkMinutes(shift) = q - shift.brk - shift.lunch
  BY <1>1, <1>5 DEF ScheduledWorkMinutes
<1>10. QED
  BY <1>1, <1>2, <1>5, <1>8, <1>9

\* Overtime is no more than the time between check-in and check-out, for an
\* entry begun before six and a shift longer than its allowances
\* (services/timeclock.py:45-47), around midnight too.
THEOREM OvertimeIsBounded == EntrySpec => []OvertimeWithinSpan
<1>1. ASSUME EntryShape, in <= SixPm,
             (shift.brk + shift.lunch) * MinuteLen <= ShiftTicks
      PROVE  Summary.ot <= MinutesBetween(in, out)
  <2>1. PICK span, b, l, worked, sched, late :
           /\ span = MinutesBetween(in, out)
           /\ b = Charged("BREAK", shift.brk) /\ l = Charged("LUNCH", shift.lunch)
           /\ worked = Summary.worked /\ sched = ScheduledWorkMinutes(shift)
           /\ late = MinutesBetween(SixPm, out)
    OBVIOUS
  <2>2. in \in Int /\ out \in Int /\ SixPm \in Int /\ MinuteLen \in Nat \ {0} /\ DayLen \in Nat
    BY <1>1, WindowNumbers, ClockAssumption
  <2>3. span \in Nat /\ late \in Nat
    BY <2>1, <2>2, MinutesIs
  <2>4. late <= span
    <3>1. PICK p, q : p = (out - SixPm) \div MinuteLen /\ q = (out - in) \div MinuteLen
      OBVIOUS
    <3>2. p <= q /\ p \in Int /\ q \in Int
      <4>1. PICK x, y : x = out - SixPm /\ y = out - in
        OBVIOUS
      <4>2. x \in Int /\ y \in Int /\ x <= y
        BY <1>1, <2>2, <4>1
      <4>3. QED
        BY <2>2, <3>1, <4>1, <4>2, Division, DivisionMonotone
    <3>3. /\ late = IF p < 0 THEN 0 ELSE p
          /\ span = IF q < 0 THEN 0 ELSE q
      BY <2>1, <3>1 DEF MinutesBetween, AtLeastZero
    <3>4. QED
      BY <3>2, <3>3
  <2>5. b \in Nat /\ l \in Nat
    BY <1>1, <2>1, AllowedType, ChargedType
  <2>6. worked = AtLeastZero(span - b - l)
    BY <1>1, <2>1, WorkedIs
  <2>7. sched \in Nat
    BY <1>1, <2>1, ScheduledEnough
  <2>8. AtLeastZero(worked - sched) <= span
    BY <2>3, <2>5, <2>6, <2>7 DEF AtLeastZero
  <2>9. Summary.ot = IF late > AtLeastZero(worked - sched) THEN late
                     ELSE AtLeastZero(worked - sched)
    <3>1. 0 * DayLen + SixPm = SixPm
      BY <2>2
    <3>2. QED
      BY <2>1, <3>1 DEF Summary, SummarizeEntry
  <2>10. PICK beyond : beyond = AtLeastZero(worked - sched)
    OBVIOUS
  <2>11. QED
    BY <2>1, <2>4, <2>8, <2>9, <2>10
<1>2. EntryShape => OvertimeWithinSpan
  BY <1>1 DEF OvertimeWithinSpan
<1>3. QED
  BY <1>2, EntryInductive, PTL

\* Breaks that take no more than their allowances are never fewer minutes
\* worked than no breaks at all (services/timeclock.py:37-40).
THEOREM BreaksCostNothing == EntrySpec => []SkippingBreaksGainsNothing
<1>1. ASSUME EntryShape, \A k \in Kinds : Taken(k) <= Allowed(k)
      PROVE  SummarizeEntry(shift, 0, in, out, {}).worked <= Summary.worked
  <2>1. PICK span, b, l, x, y :
           /\ span = MinutesBetween(in, out)
           /\ b = Charged("BREAK", shift.brk) /\ l = Charged("LUNCH", shift.lunch)
           /\ x = shift.brk /\ y = shift.lunch
    OBVIOUS
  <2>2. span \in Nat
    BY <1>1, <2>1, WindowNumbers, MinutesIs
  <2>3. x \in Nat /\ y \in Nat /\ b \in Nat /\ l \in Nat
    BY <1>1, <2>1, AllowedType, ChargedType
  <2>4. b <= x /\ l <= y
    <3>1. /\ Sum(MinutesOf, OfKind("BREAK")) <= Allowed("BREAK")
          /\ Sum(MinutesOf, OfKind("LUNCH")) <= Allowed("LUNCH")
      BY <1>1, TakenIs DEF Kinds
    <3>2. QED
      BY <2>1, <2>3, <3>1 DEF Charged, Allowed
  <2>5. Paused({}, "BREAK", shift.brk) = x /\ Paused({}, "LUNCH", shift.lunch) = y
    <3>1. PICK g : g = [w \in {} |-> 0]
      OBVIOUS
    <3>2. IsFiniteSet({}) /\ g \in [{} -> Nat] /\ \A w \in {} : g[w] = Minutes(w)
      BY <3>1, FS_EmptySet
    <3>3. Sum(g, {}) = 0
      BY <3>2, SumUnfold
    <3>4. \A k : {w \in {} : w.kind = k} = {}
      OBVIOUS
    <3>5. QED
      BY <2>1, <3>2, <3>3, <3>4, PausedIs
  <2>6. SummarizeEntry(shift, 0, in, out, {}).worked = AtLeastZero(span - x - y)
    BY <2>1, <2>5 DEF SummarizeEntry
  <2>7. Summary.worked = AtLeastZero(span - b - l)
    BY <1>1, <2>1, WorkedIs
  <2>8. QED
    BY <2>2, <2>3, <2>4, <2>6, <2>7 DEF AtLeastZero
<1>2. EntryShape => SkippingBreaksGainsNothing
  BY <1>1 DEF SkippingBreaksGainsNothing, Allowed
<1>3. QED
  BY <1>2, EntryInductive, PTL
=============================================================================
