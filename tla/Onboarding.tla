----------------------------- MODULE Onboarding -----------------------------
(***************************************************************************)
(* Accounts, invites, roles and agent profiles, as concurrent requests:    *)
(* the invite, user and role endpoints of app/modules/admin, org and       *)
(* agents, the logins of app/modules/auth that create an account, and the  *)
(* two ways of seeding the first superadmin.                               *)
(*                                                                         *)
(* An account is named by its e-mail, which is unique in a tenant; no      *)
(* endpoint deletes one.  The columns no property here depends on          *)
(* (department, manager, schedule, is_active) and the SELECTs that         *)
(* validate them are left out.  A request that is refused before it reads  *)
(* anything else leaves no trace and is no step.                           *)
(***************************************************************************)
EXTENDS Naturals

CONSTANTS
    Procs,      \* request slots: how many requests may overlap
    Emails,
    SuperEmail, \* settings.SUPERADMIN_EMAIL
    Roles,      \* roles the payloads may ask for
    Invites,    \* identifiers of invites (bounds how many are created)
    Profiles,   \* identifiers of agent profiles, reused once unreferenced
    None

UserRole == {"SUPERADMIN", "ADMIN", "HOD", "EMPLOYEE", "AI_AGENT"}

ASSUME OnboardingAssumption ==
    /\ SuperEmail \in Emails
    /\ Roles \subseteq UserRole
    /\ None \notin Procs \cup Emails \cup UserRole \cup Invites \cup Profiles

\* What a role was given on: the role of the account that gave it, or the
\* settings, which name the superadmin (and the default of dev_login).
Authority == UserRole \cup {"settings"}

Invite == [email : Emails, role : UserRole, authority : Authority,
           issuer : Procs, state : {"pending", "accepted", "expired"}]

ASSUME InviteAssumption == None \notin Invite

VARIABLES
    \* database
    role,       \* role[e]: users.role, None while there is no account
    profile,    \* profile[e]: the account's agent_profiles row
    invite,     \* invite[i]: the row of invite i
    lock,       \* lock[e]: request that has flushed an UPDATE of the users row
    \* requests
    pc,
    via,        \* the handler
    own,        \* the target is the account the request is authenticated as
    held,       \* role of that account when it was loaded
    email,      \* account or invite the request is about
    goal,       \* role to give, None if the payload has none
    seen,       \* role of the target as it was loaded
    row,        \* agent profile the request has loaded
    offer,      \* invite the request has loaded
    \* history
    googled,    \* accounts that a Google login created
    authority,  \* authority[e]: what the current role was given on
    raced       \* accounts written while another request had them loaded

dbVars   == <<role, profile, invite, lock>>
reqVars  == <<via, own, held, email, goal, seen, row, offer>>
histVars == <<googled, authority, raced>>
vars     == <<dbVars, pc, reqVars, histVars>>

Handlers == {"invite", "direct", "role", "user", "google", "dev", "bootstrap",
             "seed"}

Labels == {"idle", "invite_user", "invite_pending", "invite_insert",
           "direct_user", "google_invite", "insert", "target", "flush",
           "profile", "commit", "seed_user", "promote"}

TypeOK ==
    /\ role \in [Emails -> UserRole \cup {None}]
    /\ profile \in [Emails -> Profiles \cup {None}]
    /\ invite \in [Invites -> Invite \cup {None}]
    /\ lock \in [Emails -> Procs \cup {None}]
    /\ pc \in [Procs -> Labels]
    /\ via \in [Procs -> Handlers \cup {None}]
    /\ own \in [Procs -> BOOLEAN]
    /\ held \in [Procs -> Authority \cup {None}]
    /\ email \in [Procs -> Emails \cup {None}]
    /\ goal \in [Procs -> UserRole \cup {None}]
    /\ seen \in [Procs -> UserRole \cup {None}]
    /\ row \in [Procs -> Profiles \cup {None}]
    /\ offer \in [Procs -> Invites \cup {None}]
    /\ googled \subseteq Emails
    /\ authority \in [Emails -> Authority \cup {None}]
    /\ raced \subseteq Emails

Init ==
    /\ role = [e \in Emails |-> None]
    /\ profile = [e \in Emails |-> None]
    /\ invite = [i \in Invites |-> None]
    /\ lock = [e \in Emails |-> None]
    /\ pc = [p \in Procs |-> "idle"]
    /\ via = [p \in Procs |-> None]
    /\ own = [p \in Procs |-> FALSE]
    /\ held = [p \in Procs |-> None]
    /\ email = [p \in Procs |-> None]
    /\ goal = [p \in Procs |-> None]
    /\ seen = [p \in Procs |-> None]
    /\ row = [p \in Procs |-> None]
    /\ offer = [p \in Procs |-> None]
    /\ googled = {}
    /\ authority = [e \in Emails |-> None]
    /\ raced = {}

-----------------------------------------------------------------------------
(***************************************************************************)
(* Roles, rows and control flow.                                           *)
(***************************************************************************)
AdminRoles == {"SUPERADMIN", "ADMIN"}

\* _can_assign_role of the admin and org routers.
CanAssign(actorRole, targetRole) ==
    \/ actorRole = "SUPERADMIN"
    \/ actorRole = "ADMIN" /\ targetRole \in {"HOD", "EMPLOYEE", "AI_AGENT"}

\* Invites of e that are neither accepted nor expired.
Pending(e) ==
    {i \in Invites : /\ invite[i] # None
                     /\ invite[i].email = e
                     /\ invite[i].state = "pending"}

\* Identifiers a new agent profile may take.
FreeProfiles ==
    Profiles \ ({profile[e] : e \in Emails} \cup {row[p] : p \in Procs})

Goto(p, from, label) ==
    /\ pc[p] = from
    /\ pc' = [pc EXCEPT ![p] = label]

\* A request of handler h starts: its first query has been answered.
Start(p, h, label, authorized, e, r) ==
    /\ Goto(p, "idle", label)
    /\ via' = [via EXCEPT ![p] = h]
    /\ held' = [held EXCEPT ![p] = authorized]
    /\ email' = [email EXCEPT ![p] = e]
    /\ goal' = [goal EXCEPT ![p] = r]
    /\ UNCHANGED <<seen, row, offer, dbVars, histVars>>

\* The request is over; its locks are released with its transaction.
Finish(p) ==
    /\ pc' = [pc EXCEPT ![p] = "idle"]
    /\ via' = [via EXCEPT ![p] = None]
    /\ own' = [own EXCEPT ![p] = FALSE]
    /\ held' = [held EXCEPT ![p] = None]
    /\ email' = [email EXCEPT ![p] = None]
    /\ goal' = [goal EXCEPT ![p] = None]
    /\ seen' = [seen EXCEPT ![p] = None]
    /\ row' = [row EXCEPT ![p] = None]
    /\ offer' = [offer EXCEPT ![p] = None]
    /\ lock' = [e \in Emails |-> IF lock[e] = p THEN None ELSE lock[e]]

\* Refused, or failed on a unique key: the transaction is rolled back.
Reject(p) == Finish(p) /\ UNCHANGED <<role, profile, invite, histVars>>

\* get_request_context and require_admin_role: the account's role is loaded
\* (and equals the claim of its token), and must be an administrator's.
Authenticated(p, h, label, a, e, r) ==
    /\ role[a] \in AdminRoles
    /\ Start(p, h, label, role[a], e, r)

-----------------------------------------------------------------------------
(***************************************************************************)
(* POST /admin/invites, POST /org/users/invite                             *)
(***************************************************************************)
BeginInvite(p, a, e, r) ==
    /\ CanAssign(role[a], r)
    /\ Authenticated(p, "invite", "invite_user", a, e, r)
    /\ UNCHANGED own

\* Refused when the account exists.
InviteUser(p) ==
    /\ pc[p] = "invite_user"
    /\ \/ role[email[p]] # None /\ Reject(p)
       \/ /\ role[email[p]] = None
          /\ Goto(p, "invite_user", "invite_pending")
          /\ UNCHANGED <<dbVars, reqVars, histVars>>

\* Seeded fault: pending invites are not looked at.
InvitePendingUnchecked(p) ==
    /\ Goto(p, "invite_pending", "invite_insert")
    /\ UNCHANGED <<dbVars, reqVars, histVars>>

\* Refused when an invite is pending (or when there are two: the query then
\* raises).
InvitePending(p) ==
    /\ pc[p] = "invite_pending"
    /\ \/ Pending(email[p]) # {} /\ Reject(p)
       \/ /\ Pending(email[p]) = {}
          /\ Goto(p, "invite_pending", "invite_insert")
          /\ UNCHANGED <<dbVars, reqVars, histVars>>

InviteInsert(p, i) ==
    /\ pc[p] = "invite_insert"
    /\ invite[i] = None
    /\ invite' = [invite EXCEPT ![i] =
          [email |-> email[p], role |-> goal[p], authority |-> held[p],
           issuer |-> p, state |-> "pending"]]
    /\ Finish(p)
    /\ UNCHANGED <<role, profile, histVars>>

\* expires_at passes.
Expire(i) ==
    /\ invite[i] # None
    /\ invite[i].state = "pending"
    /\ invite' = [invite EXCEPT ![i].state = "expired"]
    /\ UNCHANGED <<role, profile, lock, pc, reqVars, histVars>>

-----------------------------------------------------------------------------
(***************************************************************************)
(* The handlers that create an account.  Each checks with a SELECT that    *)
(* the e-mail is free, then inserts; the unique key settles the rest.      *)
(***************************************************************************)

\* POST /admin/users, and POST /agents, which creates only agents.
BeginDirect(p, a, e, r) ==
    /\ CanAssign(role[a], r)
    /\ Authenticated(p, "direct", "direct_user", a, e, r)
    /\ UNCHANGED own

DirectUser(p) ==
    /\ pc[p] = "direct_user"
    /\ \/ role[email[p]] # None /\ Reject(p)
       \/ /\ role[email[p]] = None
          /\ Goto(p, "direct_user", "insert")
          /\ UNCHANGED <<dbVars, reqVars, histVars>>

\* POST /auth/google/login of an unknown e-mail: the SELECT of the account
\* (an existing one is the business of the sessions).
GoogleUser(p, e) ==
    /\ role[e] = None
    /\ Start(p, "google", "google_invite", None, e, None)
    /\ UNCHANGED own

\* The account is to be created with role r, given on `authorized`.
Onboard(p, i, r, authorized) ==
    /\ Goto(p, "google_invite", "insert")
    /\ offer' = [offer EXCEPT ![p] = i]
    /\ goal' = [goal EXCEPT ![p] = r]
    /\ held' = [held EXCEPT ![p] = authorized]
    /\ UNCHANGED <<via, own, email, seen, row, dbVars, histVars>>

\* The newest pending invite gives the role, except to the configured
\* superadmin, who needs none.  Two invites are pending only when their
\* transactions overlapped, and then either may be the newest.
GoogleInvite(p) ==
    LET pending == Pending(email[p])
    IN  /\ pc[p] = "google_invite"
        /\ \/ /\ email[p] = SuperEmail
              /\ \E i \in IF pending = {} THEN {None} ELSE pending :
                    Onboard(p, i, "SUPERADMIN", "settings")
           \/ /\ email[p] # SuperEmail
              /\ \E i \in pending :
                    Onboard(p, i, invite[i].role, invite[i].authority)
           \/ /\ email[p] # SuperEmail
              /\ pending = {}
              /\ Reject(p)

\* POST /auth/dev/login of an unknown e-mail.
DevUser(p, e) ==
    /\ role[e] = None
    /\ Start(p, "dev", "insert", "settings", e,
             IF e = SuperEmail THEN "SUPERADMIN" ELSE "EMPLOYEE")
    /\ UNCHANGED own

\* POST /bootstrap/superadmin: refused when there is any account.
BootstrapCount(p) ==
    /\ \A e \in Emails : role[e] = None
    /\ Start(p, "bootstrap", "insert", "settings", SuperEmail,
             "SUPERADMIN")
    /\ UNCHANGED own

\* Seeded fault: the invite is not marked as accepted.
InsertAccountKeepsInvite(p) ==
    /\ pc[p] = "insert"
    /\ \/ role[email[p]] # None /\ Reject(p)
       \/ /\ role[email[p]] = None
          /\ role' = [role EXCEPT ![email[p]] = goal[p]]
          /\ IF goal[p] = "AI_AGENT"
             THEN \E x \in FreeProfiles :
                     profile' = [profile EXCEPT ![email[p]] = x]
             ELSE UNCHANGED profile
          /\ UNCHANGED invite
          /\ googled' = IF via[p] = "google" THEN googled \cup {email[p]} ELSE googled
          /\ authority' = [authority EXCEPT ![email[p]] = held[p]]
          /\ Finish(p)
          /\ UNCHANGED raced

\* The INSERT and its COMMIT: the account, the profile of an agent, and the
\* acceptance of the invite it came from.  The unique key refuses an e-mail
\* taken meanwhile.
InsertAccount(p) ==
    LET e == email[p]
    IN  /\ pc[p] = "insert"
        /\ \/ role[e] # None /\ Reject(p)
           \/ /\ role[e] = None
              /\ role' = [role EXCEPT ![e] = goal[p]]
              /\ IF goal[p] = "AI_AGENT"
                 THEN \E x \in FreeProfiles : profile' = [profile EXCEPT ![e] = x]
                 ELSE UNCHANGED profile
              /\ IF offer[p] = None
                 THEN UNCHANGED invite
                 ELSE invite' = [invite EXCEPT ![offer[p]].state = "accepted"]
              /\ googled' = IF via[p] = "google" THEN googled \cup {e} ELSE googled
              /\ authority' = [authority EXCEPT ![e] = held[p]]
              /\ Finish(p)
              /\ UNCHANGED raced

-----------------------------------------------------------------------------
(***************************************************************************)
(* PATCH /admin/users/{id}/role, PATCH /org/users/{id}                     *)
(***************************************************************************)
BeginRole(p, a, e, r) ==
    /\ role[e] # None
    /\ Authenticated(p, "role", "target", a, e, r)
    /\ own' = [own EXCEPT ![p] = a = e]

\* Here the role is optional.
BeginUser(p, a, e, r) ==
    /\ role[e] # None
    /\ Authenticated(p, "user", "target", a, e, r)
    /\ own' = [own EXCEPT ![p] = a = e]

\* A request between loading an account to change it and its commit.
Holding(p, e) ==
    /\ email[p] = e
    /\ pc[p] \in {"flush", "profile", "commit"} \/ (pc[p] = "target" /\ own[p])

\* What `raced` becomes when p commits a change of e.
Raced(p, e) ==
    IF \E q \in Procs \ {p} : Holding(q, e) THEN raced \cup {e} ELSE raced

\* Seeded fault: the role to give is not compared with the actor's.
LoadTargetUnchecked(p) ==
    LET loaded == IF own[p] THEN held[p] ELSE role[email[p]]
    IN  /\ pc[p] = "target"
        /\ Goto(p, "target",
                IF via[p] = "role" /\ goal[p] # loaded
                THEN "flush" ELSE "profile")
        /\ seen' = [seen EXCEPT ![p] = loaded]
        /\ goal' = [goal EXCEPT ![p] = IF @ = None THEN loaded ELSE @]
        /\ UNCHANGED <<via, own, held, email, row, offer, dbVars, histVars>>

\* Loads the target.  The session already holds the actor's own row and
\* returns that.  The admin endpoint then flushes a role that differs.
LoadTarget(p) ==
    LET loaded == IF own[p] THEN held[p] ELSE role[email[p]]
    IN  /\ pc[p] = "target"
        /\ \/ /\ goal[p] # None /\ ~CanAssign(held[p], goal[p])
              /\ Reject(p)
           \/ /\ goal[p] = None \/ CanAssign(held[p], goal[p])
              /\ Goto(p, "target",
                      IF via[p] = "role" /\ goal[p] # loaded
                      THEN "flush" ELSE "profile")
              /\ seen' = [seen EXCEPT ![p] = loaded]
              /\ goal' = [goal EXCEPT ![p] = IF @ = None THEN loaded ELSE @]
              /\ UNCHANGED <<via, own, held, email, row, offer, dbVars,
                             histVars>>

\* The UPDATE waits for another transaction's UPDATE of the same row.
Flush(p) ==
    /\ Goto(p, "flush", "profile")
    /\ lock[email[p]] = None
    /\ lock' = [lock EXCEPT ![email[p]] = p]
    /\ UNCHANGED <<role, profile, invite, reqVars, histVars>>

LoadProfile(p) ==
    /\ Goto(p, "profile", "commit")
    /\ row' = [row EXCEPT ![p] = profile[email[p]]]
    /\ UNCHANGED <<via, own, held, email, goal, seen, offer, dbVars, histVars>>

\* Seeded fault: the profile of an account that is no agent any more stays.
CommitKeepsProfile(p) ==
    LET e == email[p]
    IN  /\ pc[p] = "commit"
        /\ lock[e] \in {None, p}
        /\ role' = [role EXCEPT ![e] = IF goal[p] # seen[p] THEN goal[p] ELSE @]
        /\ authority' = [authority EXCEPT ![e] =
              IF goal[p] # seen[p] THEN held[p] ELSE @]
        /\ IF goal[p] = "AI_AGENT" /\ row[p] = None
           THEN \E x \in FreeProfiles : profile' = [profile EXCEPT ![e] = x]
           ELSE UNCHANGED profile
        /\ raced' = Raced(p, e)
        /\ Finish(p)
        /\ UNCHANGED <<invite, googled>>

\* The role is written if it differs from the one loaded; an agent without a
\* profile gets one (unless another request has inserted one meanwhile: the
\* unique key fails the transaction), anyone else loses the one loaded (if
\* that row is still there).
Commit(p) ==
    LET e == email[p]
        insert == goal[p] = "AI_AGENT" /\ row[p] = None
        delete == goal[p] # "AI_AGENT" /\ row[p] # None /\ profile[e] = row[p]
        update == goal[p] # seen[p]
    IN  /\ pc[p] = "commit"
        /\ ~update \/ lock[e] \in {None, p}
        /\ \/ insert /\ profile[e] # None /\ Reject(p)
           \/ /\ insert => profile[e] = None
              /\ role' = [role EXCEPT ![e] = IF update THEN goal[p] ELSE @]
              /\ authority' = [authority EXCEPT ![e] =
                    IF update THEN held[p] ELSE @]
              /\ \/ /\ insert
                    /\ \E x \in FreeProfiles :
                          profile' = [profile EXCEPT ![e] = x]
                 \/ ~insert /\ delete /\ profile' = [profile EXCEPT ![e] = None]
                 \/ ~insert /\ ~delete /\ UNCHANGED profile
              /\ raced' = Raced(p, e)
              /\ Finish(p)
              /\ UNCHANGED <<invite, googled>>

-----------------------------------------------------------------------------
(***************************************************************************)
(* seed_superadmin_from_settings: the script, which nobody has to log in   *)
(* for, and POST /admin/bootstrap/seed, which takes a superadmin.          *)
(***************************************************************************)
BeginSeed(p) ==
    /\ Start(p, "seed", "seed_user", "settings", SuperEmail, "SUPERADMIN")
    /\ UNCHANGED own

SeedUser(p) ==
    LET loaded == role[SuperEmail]
    IN  /\ pc[p] = "seed_user"
        /\ \/ loaded = "SUPERADMIN" /\ Reject(p)
           \/ /\ loaded # "SUPERADMIN"
              /\ Goto(p, "seed_user", IF loaded = None THEN "insert" ELSE "promote")
              /\ UNCHANGED <<dbVars, reqVars, histVars>>

\* An existing account is made superadmin.
Promote(p) ==
    /\ pc[p] = "promote"
    /\ lock[SuperEmail] = None
    /\ role' = [role EXCEPT ![SuperEmail] = "SUPERADMIN"]
    /\ authority' = [authority EXCEPT ![SuperEmail] = "settings"]
    /\ raced' = Raced(p, SuperEmail)
    /\ Finish(p)
    /\ UNCHANGED <<profile, invite, googled>>

-----------------------------------------------------------------------------
\* The server dies or the connection drops before the commit.
Abort(p) == pc[p] # "idle" /\ Reject(p)

Inviting(p) ==
    \/ \E a, e \in Emails, r \in Roles : BeginInvite(p, a, e, r)
    \/ InviteUser(p) \/ InvitePending(p)
    \/ \E i \in Invites : InviteInsert(p, i)

Creating(p) ==
    \/ \E a, e \in Emails, r \in Roles : BeginDirect(p, a, e, r)
    \/ DirectUser(p)
    \/ \E e \in Emails : GoogleUser(p, e) \/ DevUser(p, e)
    \/ GoogleInvite(p)
    \/ BootstrapCount(p)
    \/ InsertAccount(p)

Changing(p) ==
    \/ \E a, e \in Emails, r \in Roles : BeginRole(p, a, e, r)
    \/ \E a, e \in Emails, r \in Roles \cup {None} : BeginUser(p, a, e, r)
    \/ LoadTarget(p) \/ Flush(p) \/ LoadProfile(p) \/ Commit(p)

Seeding(p) == BeginSeed(p) \/ SeedUser(p) \/ Promote(p)

Next ==
    \/ \E p \in Procs :
          Inviting(p) \/ Creating(p) \/ Changing(p) \/ Seeding(p) \/ Abort(p)
    \/ \E i \in Invites : Expire(i)

Spec == Init /\ [][Next]_vars

-----------------------------------------------------------------------------
(***************************************************************************)
(* Properties.                                                             *)
(***************************************************************************)

\* Role r may be given to e on `a`: the settings make SuperEmail superadmin
\* and, in dev_login, anyone else an employee.
Allowed(a, r, e) ==
    \/ /\ a = "settings"
       /\ r = IF e = SuperEmail THEN "SUPERADMIN" ELSE "EMPLOYEE"
    \/ CanAssign(a, r)

\* However requests overlap, and however long an invite waits, every role
\* was given by someone who could give it (admin/router.py:70-75).
GrantsWithinAuthority ==
    \A e \in Emails :
        role[e] # None => Allowed(authority[e], role[e], e)

\* Invites that account e was onboarded with.
Spent(e) == {i \in Invites : /\ invite[i] # None
                             /\ invite[i].email = e
                             /\ invite[i].state = "accepted"}

\* "Google onboarding is invite-only" (README.md:19), and an invite onboards
\* one account: an account that a Google login created is the configured
\* superadmin's or has spent exactly one invite, and no account has spent two.
InviteOnly ==
    \A e \in Emails :
        /\ \A i, j \in Spent(e) : i = j
        /\ Spent(e) # {} => e \in googled
        /\ e \in googled \ {SuperEmail} => Spent(e) # {}

\* Invites of one e-mail that are pending at the same time were created by
\* different requests: the check (admin/router.py:178) is read before the
\* commit (195).
InvitePerRequest ==
    \A i, j \in Invites :
        /\ invite[i] # None /\ invite[j] # None
        /\ invite[i].state = "pending" /\ invite[j].state = "pending"
        /\ invite[i].email = invite[j].email
        /\ invite[i].issuer = invite[j].issuer
        => i = j

\* An agent has a profile and nobody else has, whichever handlers ran and
\* wherever they died (admin/router.py:301-321, org/router.py:354-367).  Two
\* exceptions: an account that a request wrote while another one had loaded
\* it, and a superadmin who had been made an agent and was seeded again,
\* which leaves the profile (services/bootstrap.py:77-78).
ProfileFollowsRole ==
    \A e \in Emails \ raced :
        /\ role[e] = "AI_AGENT" => profile[e] # None
        /\ profile[e] # None =>
              \/ role[e] = "AI_AGENT"
              \/ e = SuperEmail /\ role[e] = "SUPERADMIN"
                 /\ authority[e] = "settings"

\* A handler that seeds the superadmin changes accounts only when there are
\* none.
FirstOnly(h) ==
    \A p \in Procs :
        via[p] = h /\ pc'[p] # pc[p] /\ role' # role
        => \A e \in Emails : role[e] = None

\* "Seed first superadmin (only works when no users exist)" (README.md:78).
SeedFirst == [][FirstOnly("seed")]_vars
=============================================================================
