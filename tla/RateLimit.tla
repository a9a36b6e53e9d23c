------------------------------ MODULE RateLimit ------------------------------
(***************************************************************************)
(* InMemoryRateLimiter.hit of app/core/rate_limit.py: one bucket per       *)
(* scope:ip key that counts up to a limit and is replaced by the first hit *)
(* at or after reset_at.  The body of the lock has no await, and the clock *)
(* is read just before it, so a hit is one step.  Time is in ticks, of     *)
(* which SecondLen make a second: time.time() has fractions.               *)
(***************************************************************************)
EXTENDS Integers, FiniteSetsExt

CONSTANTS
    Keys,           \* scope:ip
    Limit,          \* allowed hits per window
    WindowSeconds,  \* length of a window
    SecondLen,      \* ticks in a second
    MaxTime,        \* last instant considered
    None            \* no bucket

Times == 0 .. MaxTime
WindowLen == WindowSeconds * SecondLen

ASSUME LimitAssumption ==
    /\ Limit \in Nat \ {0}
    /\ WindowSeconds \in Nat \ {0}
    /\ SecondLen \in Nat \ {0}
    /\ MaxTime \in Nat

Bucket == [resetAt : Nat, count : Nat]

ASSUME BucketAssumption == None \notin Bucket

VARIABLES
    now,
    bucket,     \* bucket[k]
    asked,      \* instant of the last hit on k
    retryAfter, \* seconds it was told to wait, 0 if it was allowed
    \* history: how many hits on k were allowed at each instant
    granted

vars == <<now, bucket, asked, retryAfter, granted>>

TypeOK ==
    /\ now \in Times
    /\ bucket \in [Keys -> Bucket \cup {None}]
    /\ asked \in [Keys -> Times]
    /\ retryAfter \in [Keys -> Nat]
    /\ granted \in [Keys -> [Times -> Nat]]

Init ==
    /\ now = 0
    /\ bucket = [k \in Keys |-> None]
    /\ asked = [k \in Keys |-> 0]
    /\ retryAfter = [k \in Keys |-> 0]
    /\ granted = [k \in Keys |-> [t \in Times |-> 0]]

\* The bucket the hit counts in: the one there is, or a new one.
Renewed(b) == b = None \/ now >= b.resetAt

\* Seeded fault: a hit on an expired bucket keeps its count.
CurrentKeepsCount(k) ==
    IF bucket[k] = None THEN [resetAt |-> now + WindowLen, count |-> 0]
    ELSE IF Renewed(bucket[k])
         THEN [bucket[k] EXCEPT !.resetAt = now + WindowLen]
         ELSE bucket[k]

Current(k) ==
    IF Renewed(bucket[k])
    THEN [resetAt |-> now + WindowLen, count |-> 0]
    ELSE bucket[k]

\* Seeded fault: the time since the window opened instead of the time left.
RetrySinceOpened(b) == (now - (b.resetAt - WindowLen)) \div SecondLen + 1

\* max(1, int(reset_at - now)): int() drops the fraction of a second.
RetrySeconds(b) ==
    LET whole == (b.resetAt - now) \div SecondLen
    IN  IF whole < 1 THEN 1 ELSE whole

\* Seeded fault: the limit is compared with one hit too few.
AllowOneMore(k) ==
    LET b == Current(k)
    IN  /\ b.count <= Limit
        /\ bucket' = [bucket EXCEPT ![k] = [b EXCEPT !.count = @ + 1]]
        /\ retryAfter' = [retryAfter EXCEPT ![k] = 0]
        /\ asked' = [asked EXCEPT ![k] = now]
        /\ granted' = [granted EXCEPT ![k][now] = @ + 1]
        /\ UNCHANGED now

Allow(k) ==
    LET b == Current(k)
    IN  /\ b.count < Limit
        /\ bucket' = [bucket EXCEPT ![k] = [b EXCEPT !.count = @ + 1]]
        /\ retryAfter' = [retryAfter EXCEPT ![k] = 0]
        /\ asked' = [asked EXCEPT ![k] = now]
        /\ granted' = [granted EXCEPT ![k][now] = @ + 1]
        /\ UNCHANGED now

Refuse(k) ==
    LET b == Current(k)
    IN  /\ b.count >= Limit
        /\ bucket' = [bucket EXCEPT ![k] = b]
        /\ retryAfter' = [retryAfter EXCEPT ![k] = RetrySeconds(b)]
        /\ asked' = [asked EXCEPT ![k] = now]
        /\ UNCHANGED <<now, granted>>

Tick ==
    /\ now < MaxTime
    /\ now' = now + 1
    /\ UNCHANGED <<bucket, asked, retryAfter, granted>>

Next == Tick \/ \E k \in Keys : Allow(k) \/ Refuse(k)

Spec == Init /\ [][Next]_vars

-----------------------------------------------------------------------------
Granted(k, from, to) ==
    MapThenSumSet(LAMBDA t : granted[k][t], {t \in Times : from <= t /\ t < to})

\* A bucket never counts more than the limit (rate_limit.py:35).
WithinLimit ==
    \A k \in Keys : bucket[k] # None => bucket[k].count <= Limit

\* Every hit allowed since the current bucket was opened is counted in it,
\* and they are at most Limit (rate_limit.py:31-40).
CountsEveryGrant ==
    /\ WithinLimit
    /\ \A k \in Keys : bucket[k] # None =>
          bucket[k].count = Granted(k, bucket[k].resetAt - WindowLen, MaxTime + 1)

\* Any stretch of one window's length, wherever it starts, meets at most two
\* buckets: no key is ever allowed more than twice the limit in it.
SlidingBound ==
    \A k \in Keys, t \in Times : Granted(k, t, t + WindowLen) <= 2 * Limit

\* A refused caller that waits one second more than it was told finds the
\* bucket that refused it expired.
RetryWithinASecond ==
    \A k \in Keys : retryAfter[k] > 0 =>
        asked[k] + (retryAfter[k] + 1) * SecondLen > bucket[k].resetAt
=============================================================================
