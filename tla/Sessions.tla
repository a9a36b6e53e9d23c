------------------------------ MODULE Sessions ------------------------------
(***************************************************************************)
(* The cookie sessions of app/modules/auth/router.py: login, refresh-token *)
(* rotation and logout, as concurrent HTTP requests against one database.  *)
(*                                                                         *)
(* Every request is a process whose pc names the await point it has        *)
(* reached.  A SELECT is a step that reads committed rows; the statements  *)
(* between two awaits and the COMMIT that ends them are one step.  The     *)
(* request keeps the rows it loaded (expire_on_commit=False), so what it   *)
(* checked may be stale by the time it acts on it.                         *)
(*                                                                         *)
(* A token pair is named by its refresh token, the access token and its    *)
(* cookie travelling with it; jar[b] is the pair in browser b's cookies.   *)
(* Users are the accounts that exist already: the branch of google_login   *)
(* that creates one belongs to the onboarding component.                  *)
(***************************************************************************)
EXTENDS Naturals, FiniteSets

CONSTANTS
    Procs,      \* request slots: how many requests may overlap
    Browsers,   \* cookie jars
    Users,      \* accounts
    Subs,       \* Google subject identifiers
    Tokens,     \* refresh tokens that may ever be issued
    None        \* no token, account, subject, browser or request

ASSUME NoneAssumption ==
    None \notin Procs \cup Browsers \cup Users \cup Subs \cup Tokens

VARIABLES
    \* database
    active,     \* active[u]: users.is_active
    sub,        \* sub[u]: users.google_sub
    issued,     \* tokens with a refresh_tokens row
    owner,      \* owner[t]: refresh_tokens.user_id
    revoked,    \* rows whose revoked_at is set
    expired,    \* rows whose expires_at has passed
    \* browsers
    jar,
    \* requests
    pc, br,     \* await point reached, browser that sent the request
    tok,        \* refresh token presented by the request
    who,        \* account the request is about
    subject,    \* verified Google identity of a login
    loaded,     \* is_active as the request loaded it
    fresh,      \* token the request issued
    \* history: read by properties, never by a guard
    parent,     \* parent[t]: the token t was rotated from
    issuer,     \* issuer[t]: the request that issued t
    late,       \* tokens issued to an account since it became inactive
    faulted     \* browsers one of whose requests died

dbVars   == <<active, sub, issued, owner, revoked, expired>>
reqVars  == <<br, tok, who, subject, loaded, fresh>>
histVars == <<parent, issuer, late>>
vars     == <<dbVars, jar, pc, reqVars, histVars, faulted>>

-----------------------------------------------------------------------------
Labels == {"idle", "google_select", "bind", "dev_select", "refresh_record",
           "refresh_user", "revoke", "issue", "set_cookies",
           "logout_record", "logout_revoke", "clear_cookies"}

TypeOK ==
    /\ active \in [Users -> BOOLEAN]
    /\ sub \in [Users -> Subs \cup {None}]
    /\ issued \subseteq Tokens
    /\ owner \in [Tokens -> Users \cup {None}]
    /\ revoked \subseteq issued
    /\ expired \subseteq issued
    /\ jar \in [Browsers -> issued \cup {None}]
    /\ pc \in [Procs -> Labels]
    /\ br \in [Procs -> Browsers \cup {None}]
    /\ tok \in [Procs -> issued \cup {None}]
    /\ who \in [Procs -> Users \cup {None}]
    /\ subject \in [Procs -> Subs \cup {None}]
    /\ loaded \in [Procs -> BOOLEAN]
    /\ fresh \in [Procs -> issued \cup {None}]
    /\ parent \in [Tokens -> issued \cup {None}]
    /\ issuer \in [Tokens -> Procs \cup {None}]
    /\ late \subseteq issued
    /\ faulted \subseteq Browsers

Init ==
    /\ active = [u \in Users |-> TRUE]
    /\ sub = [u \in Users |-> None]
    /\ issued = {} /\ revoked = {} /\ expired = {}
    /\ owner = [t \in Tokens |-> None]
    /\ jar = [b \in Browsers |-> None]
    /\ pc = [p \in Procs |-> "idle"]
    /\ br = [p \in Procs |-> None]
    /\ tok = [p \in Procs |-> None]
    /\ who = [p \in Procs |-> None]
    /\ subject = [p \in Procs |-> None]
    /\ loaded = [p \in Procs |-> FALSE]
    /\ fresh = [p \in Procs |-> None]
    /\ parent = [t \in Tokens |-> None]
    /\ issuer = [t \in Tokens |-> None]
    /\ late = {} /\ faulted = {}

-----------------------------------------------------------------------------
(***************************************************************************)
(* Control flow of one request.                                            *)
(***************************************************************************)

\* The request arrives from browser b, presenting t, for account u.
Arrive(p, b, label, t, u, s) ==
    /\ pc[p] = "idle"
    /\ pc' = [pc EXCEPT ![p] = label]
    /\ br' = [br EXCEPT ![p] = b]
    /\ tok' = [tok EXCEPT ![p] = t]
    /\ who' = [who EXCEPT ![p] = u]
    /\ subject' = [subject EXCEPT ![p] = s]
    /\ UNCHANGED <<dbVars, jar, loaded, fresh, histVars, faulted>>

\* The request is over and its local state is dropped.
Finish(p) ==
    /\ pc' = [pc EXCEPT ![p] = "idle"]
    /\ br' = [br EXCEPT ![p] = None]
    /\ tok' = [tok EXCEPT ![p] = None]
    /\ who' = [who EXCEPT ![p] = None]
    /\ subject' = [subject EXCEPT ![p] = None]
    /\ loaded' = [loaded EXCEPT ![p] = FALSE]
    /\ fresh' = [fresh EXCEPT ![p] = None]

\* An HTTPException: the transaction is rolled back, no cookie changes.
Reject(p) == Finish(p) /\ UNCHANGED <<dbVars, jar, histVars, faulted>>

\* The checks passed; the request goes on with the is_active it loaded.
Proceed(p, label, a) ==
    /\ pc' = [pc EXCEPT ![p] = label]
    /\ loaded' = [loaded EXCEPT ![p] = a]
    /\ UNCHANGED <<dbVars, jar, br, tok, who, subject, fresh, histVars, faulted>>

Goto(p, from, label) ==
    /\ pc[p] = from
    /\ pc' = [pc EXCEPT ![p] = label]

-----------------------------------------------------------------------------
(***************************************************************************)
(* POST /auth/google/login for an account that exists.                     *)
(***************************************************************************)
BeginGoogleLogin(p, b, u, s) == Arrive(p, b, "google_select", None, u, s)

\* Seeded fault: the bound identity is replaced by the one that logs in.
GoogleSelectRebinds(p) ==
    /\ pc[p] = "google_select"
    /\ Proceed(p, "bind", active[who[p]])

\* Loads the account: a different bound identity or, once bound, an
\* inactive account ends the login; a first login has still to bind.
GoogleSelect(p) ==
    LET u == who[p]
        mismatch == sub[u] \notin {None, subject[p]}
        unbound  == sub[u] = None
    IN /\ pc[p] = "google_select"
       /\ \/ /\ mismatch \/ (~unbound /\ ~active[u])
             /\ Reject(p)
          \/ /\ ~mismatch /\ ~unbound /\ active[u]
             /\ Proceed(p, "issue", TRUE)
          \/ /\ unbound
             /\ Proceed(p, "bind", active[u])

\* Commits google_sub, then looks at the is_active it loaded before.
BindSub(p) ==
    /\ pc[p] = "bind"
    /\ sub' = [sub EXCEPT ![who[p]] = subject[p]]
    /\ UNCHANGED <<active, issued, owner, revoked, expired, jar, histVars,
                   faulted>>
    /\ \/ /\ ~loaded[p]
          /\ Finish(p)
       \/ /\ loaded[p]
          /\ pc' = [pc EXCEPT ![p] = "issue"]
          /\ UNCHANGED reqVars

\* POST /auth/dev/login: the same without an identity to bind.
BeginDevLogin(p, b, u) == Arrive(p, b, "dev_select", None, u, None)

DevSelect(p) ==
    /\ pc[p] = "dev_select"
    /\ \/ /\ ~active[who[p]]
          /\ Reject(p)
       \/ /\ active[who[p]]
          /\ Proceed(p, "issue", TRUE)

-----------------------------------------------------------------------------
(***************************************************************************)
(* POST /auth/refresh.                                                     *)
(***************************************************************************)
BeginRefresh(p, b) ==
    /\ jar[b] # None
    /\ Arrive(p, b, "refresh_record", jar[b], owner[jar[b]], None)

\* A row that can be refreshed: neither revoked nor expired.
Usable(t) == t \in issued \ (revoked \cup expired)

\* Seeded fault: revoked_at is not looked at.
RefreshRecordUnchecked(p) ==
    /\ pc[p] = "refresh_record"
    /\ Proceed(p, "refresh_user", loaded[p])

RefreshRecord(p) ==
    /\ pc[p] = "refresh_record"
    /\ \/ /\ ~Usable(tok[p])
          /\ Reject(p)
       \/ /\ Usable(tok[p])
          /\ Proceed(p, "refresh_user", loaded[p])

\* Seeded fault: the old token is revoked before the account is checked.
RefreshUserRevokesFirst(p) ==
    /\ pc[p] = "refresh_user"
    /\ revoked' = revoked \cup {tok[p]}
    /\ UNCHANGED <<active, sub, issued, owner, expired, jar, histVars, faulted>>
    /\ \/ /\ ~active[who[p]]
          /\ Finish(p)
       \/ /\ active[who[p]]
          /\ pc' = [pc EXCEPT ![p] = "revoke"]
          /\ loaded' = [loaded EXCEPT ![p] = TRUE]
          /\ UNCHANGED <<br, tok, who, subject, fresh>>

\* Seeded fault: is_active is not looked at.
RefreshUserUnchecked(p) ==
    /\ pc[p] = "refresh_user"
    /\ Proceed(p, "revoke", TRUE)

RefreshUser(p) ==
    /\ pc[p] = "refresh_user"
    /\ \/ /\ ~active[who[p]]
          /\ Reject(p)
       \/ /\ active[who[p]]
          /\ Proceed(p, "revoke", TRUE)

\* Seeded fault: the revocation is not committed.
RevokeOldUncommitted(p) ==
    /\ Goto(p, "revoke", "issue")
    /\ UNCHANGED <<dbVars, jar, reqVars, histVars, faulted>>

\* Commits revoked_at whatever the row holds by now.
RevokeOld(p) ==
    /\ Goto(p, "revoke", "issue")
    /\ revoked' = revoked \cup {tok[p]}
    /\ UNCHANGED <<active, sub, issued, owner, expired, jar, reqVars,
                   histVars, faulted>>

\* _issue_token_pair: inserts and commits the row of a new token.
IssueTokenPair(p, t) ==
    /\ Goto(p, "issue", "set_cookies")
    /\ t \in Tokens \ issued
    /\ issued' = issued \cup {t}
    /\ owner' = [owner EXCEPT ![t] = who[p]]
    /\ fresh' = [fresh EXCEPT ![p] = t]
    /\ parent' = [parent EXCEPT ![t] = tok[p]]
    /\ issuer' = [issuer EXCEPT ![t] = p]
    /\ late' = IF active[who[p]] THEN late ELSE late \cup {t}
    /\ UNCHANGED <<active, sub, revoked, expired, jar, br, tok, who,
                   subject, loaded, faulted>>

\* The response reaches the browser, which stores the new pair.
SetCookies(p) ==
    /\ pc[p] = "set_cookies"
    /\ jar' = [jar EXCEPT ![br[p]] = fresh[p]]
    /\ Finish(p)
    /\ UNCHANGED <<dbVars, histVars, faulted>>

-----------------------------------------------------------------------------
(***************************************************************************)
(* POST /auth/logout: always answers by clearing the cookies.              *)
(***************************************************************************)

BeginLogout(p, b) ==
    Arrive(p, b, IF jar[b] = None THEN "clear_cookies" ELSE "logout_record",
           jar[b], None, None)

LogoutRecord(p) ==
    /\ Goto(p, "logout_record",
            IF tok[p] \in revoked THEN "clear_cookies" ELSE "logout_revoke")
    /\ UNCHANGED <<dbVars, jar, reqVars, histVars, faulted>>

LogoutRevoke(p) ==
    /\ Goto(p, "logout_revoke", "clear_cookies")
    /\ revoked' = revoked \cup {tok[p]}
    /\ UNCHANGED <<active, sub, issued, owner, expired, jar, reqVars,
                   histVars, faulted>>

ClearCookies(p) ==
    /\ pc[p] = "clear_cookies"
    /\ jar' = [jar EXCEPT ![br[p]] = None]
    /\ Finish(p)
    /\ UNCHANGED <<dbVars, histVars, faulted>>

-----------------------------------------------------------------------------
(***************************************************************************)
(* Environment.                                                            *)
(***************************************************************************)

\* The server dies or the connection drops: what is committed stays.
Abort(p) ==
    /\ pc[p] # "idle"
    /\ faulted' = faulted \cup {br[p]}
    /\ Finish(p)
    /\ UNCHANGED <<dbVars, jar, histVars>>

\* expires_at passes.
Expire(t) ==
    /\ t \in issued \ expired
    /\ expired' = expired \cup {t}
    /\ UNCHANGED <<active, sub, issued, owner, revoked, jar, pc, reqVars,
                   histVars, faulted>>

\* An administrator commits PATCH /org/users/{id} with is_active.
SetActive(u, a) ==
    /\ active[u] # a
    /\ active' = [active EXCEPT ![u] = a]
    /\ late' = IF a THEN {t \in late : owner[t] # u} ELSE late
    /\ UNCHANGED <<sub, issued, owner, revoked, expired, jar, pc, reqVars,
                   parent, issuer, faulted>>

Login(p) ==
    \/ \E b \in Browsers, u \in Users, s \in Subs : BeginGoogleLogin(p, b, u, s)
    \/ GoogleSelect(p)
    \/ BindSub(p)
    \/ \E b \in Browsers, u \in Users : BeginDevLogin(p, b, u)
    \/ DevSelect(p)

Refresh(p) ==
    \/ \E b \in Browsers : BeginRefresh(p, b)
    \/ RefreshRecord(p)
    \/ RefreshUser(p)
    \/ RevokeOld(p)
    \/ \E t \in Tokens : IssueTokenPair(p, t)
    \/ SetCookies(p)

Logout(p) ==
    \/ \E b \in Browsers : BeginLogout(p, b)
    \/ LogoutRecord(p)
    \/ LogoutRevoke(p)
    \/ ClearCookies(p)

Next ==
    \/ \E p \in Procs : Login(p) \/ Refresh(p) \/ Logout(p) \/ Abort(p)
    \/ \E t \in Tokens : Expire(t)
    \/ \E u \in Users, a \in BOOLEAN : SetActive(u, a)

Spec == Init /\ [][Next]_vars
-----------------------------------------------------------------------------
(***************************************************************************)
(* Properties.                                                             *)
(***************************************************************************)

\* Rotation never leaves the old and the new token of one refresh both
\* usable: the parent is revoked in an earlier commit than the one that
\* inserts the child (router.py:323-325), so a crash between the two loses a
\* session and never doubles it.
ParentRevoked ==
    \A t \in issued : parent[t] # None => parent[t] \in revoked

\* One refresh token has at most one successor per request that overlapped
\* its rotation: the revoked_at check (router.py:310) is read before the
\* commit that sets it, so overlapping requests may all pass, but none that
\* starts later does, and no request issues twice.
SuccessorPerRequest ==
    \A t1, t2 \in issued :
        /\ parent[t1] # None
        /\ parent[t1] = parent[t2]
        /\ issuer[t1] = issuer[t2]
        => t1 = t2

Successors(t) == {c \in issued : parent[c] = t}

\* Rotation as README.md:24 names it: a refresh token is exchanged for one
\* new pair.  Holds when requests do not overlap, crashes included.
SingleSuccessor ==
    \A t \in issued : Cardinality(Successors(t)) <= 1

\* The requests that will answer by replacing or clearing jar[b].
Answering(b) ==
    {p \in Procs : /\ pc[p] \in {"issue", "set_cookies", "clear_cookies"}
                   /\ br[p] = b
                   /\ tok[p] = jar[b]}

\* No browser is left holding a revoked refresh token unless one of its
\* requests died: every handler that revokes the presented token goes on to
\* answer with a new pair or with cleared cookies, and a refresh that is
\* refused (inactive account, router.py:320) is refused before it revokes.
NotStranded ==
    \A b \in Browsers :
        jar[b] \in revoked => b \in faulted \/ Answering(b) # {}

\* Deactivating an account stops its sessions: the pairs still issued to it
\* come from requests that had loaded it before, one pair each
\* (router.py:277, 320, 395 check a loaded copy, 179 commits later).
LateIssueBounded ==
    \A t1, t2 \in late :
        owner[t1] = owner[t2] /\ issuer[t1] = issuer[t2] => t1 = t2

\* A Google identity stays bound to the account it was first bound to
\* (router.py:271-275).  Of two first logins that overlap, the later commit
\* wins, so this holds when logins with Google do not overlap.
SubStable == [][\A u \in Users : sub[u] # None => sub'[u] = sub[u]]_vars
=============================================================================
