-------------------------- MODULE OnboardingProofs --------------------------
(***************************************************************************)
(* Proofs about Onboarding, for every number of requests, e-mails, invites *)
(* and agent profiles.                                                     *)
(***************************************************************************)
EXTENDS Onboarding, TLAPS

\* What a request carries at each await.
RequestOK ==
    \A p \in Procs :
        /\ pc[p] # "idle" => email[p] \in Emails
        /\ pc[p] \in {"invite_user", "invite_pending", "invite_insert",
                      "direct_user", "insert", "flush", "profile", "commit"}
           => goal[p] \in UserRole /\ held[p] \in Authority
        /\ pc[p] = "target" => held[p] \in UserRole
        /\ pc[p] \in {"target", "flush", "profile", "commit"} =>
              role[email[p]] # None
        /\ pc[p] \in {"seed_user", "promote"} =>
              /\ email[p] = SuperEmail
              /\ goal[p] = "SUPERADMIN" /\ held[p] = "settings"
              /\ via[p] = "seed"
        /\ pc[p] = "promote" => role[SuperEmail] # None
        /\ pc[p] = "google_invite" => via[p] = "google"
        /\ pc[p] = "direct_user" => via[p] = "direct"

\* An invite that a login has loaded is for the e-mail that logs in.
OfferOK ==
    \A p \in Procs :
        /\ offer[p] # None =>
              /\ pc[p] = "insert" /\ via[p] = "google"
              /\ invite[offer[p]] # None
              /\ invite[offer[p]].email = email[p]
        /\ pc[p] = "insert" /\ via[p] = "google" /\ email[p] # SuperEmail =>
              offer[p] # None

Shape == TypeOK /\ RequestOK /\ OfferOK

\* The role that a request or an invite is about to give is allowed.
GrantTicket ==
    /\ \A i \in Invites : invite[i] # None =>
          CanAssign(invite[i].authority, invite[i].role)
    /\ \A p \in Procs :
          /\ pc[p] \in {"invite_user", "invite_pending", "invite_insert",
                        "direct_user"} => CanAssign(held[p], goal[p])
          /\ pc[p] = "insert" => Allowed(held[p], goal[p], email[p])
          /\ pc[p] \in {"flush", "profile", "commit"} =>
                goal[p] = seen[p] \/ CanAssign(held[p], goal[p])

\* A request that is about to insert an invite has none pending of its own.
InviteTicket ==
    \A p \in Procs : pc[p] = "invite_insert" =>
        \A i \in Invites :
            invite[i] # None /\ invite[i].email = email[p]
            /\ invite[i].state = "pending"
            => invite[i].issuer # p

\* Invites are spent on accounts there are, and an account that a Google
\* login created is one.
SpentOnAccounts ==
    /\ \A e \in Emails : role[e] = None => Spent(e) = {} /\ e \notin googled
    /\ InviteOnly

\* Nothing is left over for an e-mail without an account, and a request that
\* is about to change an account knows it as it is, unless it is in `raced`.
Loaded ==
    /\ \A e \in Emails : role[e] = None => profile[e] = None /\ e \notin raced
    /\ \A p \in Procs : email[p] \notin raced =>
          /\ pc[p] = "target" /\ own[p] => held[p] = role[email[p]]
          /\ pc[p] \in {"flush", "profile", "commit"} =>
                seen[p] = role[email[p]]
          /\ pc[p] = "commit" => row[p] = profile[email[p]]

IInv == /\ Shape
        /\ GrantTicket /\ GrantsWithinAuthority
        /\ InviteTicket /\ InvitePerRequest
        /\ SpentOnAccounts
        /\ Loaded /\ ProfileFollowsRole
-----------------------------------------------------------------------------
\* What the insertion of an account changes.
Inserted(p) ==
    /\ pc[p] = "insert" /\ role[email[p]] = None /\ Finish(p)
    /\ role' = [role EXCEPT ![email[p]] = goal[p]]
    /\ authority' = [authority EXCEPT ![email[p]] = held[p]]
    /\ googled' = IF via[p] = "google" THEN googled \cup {email[p]}
                  ELSE googled
    /\ raced' = raced
    /\ profile' \in [Emails -> Profiles \cup {None}]
    /\ \A e \in Emails \ {email[p]} : profile'[e] = profile[e]
    /\ IF goal[p] = "AI_AGENT" THEN profile'[email[p]] # None
       ELSE profile' = profile
    /\ invite' \in [Invites -> Invite \cup {None}]
    /\ \A i \in Invites \ {offer[p]} : invite'[i] = invite[i]
    /\ offer[p] # None =>
          /\ offer[p] \in Invites
          /\ invite[offer[p]] # None /\ invite'[offer[p]] # None
          /\ invite'[offer[p]].email = invite[offer[p]].email
          /\ invite'[offer[p]].role = invite[offer[p]].role
          /\ invite'[offer[p]].authority = invite[offer[p]].authority
          /\ invite'[offer[p]].issuer = invite[offer[p]].issuer
          /\ invite'[offer[p]].state = "accepted"

LEMMA InsertEffect ==
  ASSUME Shape, NEW p \in Procs, InsertAccount(p), ~Reject(p)
  PROVE  Inserted(p)
<1> USE OnboardingAssumption, InviteAssumption
    DEF Shape, TypeOK, RequestOK, OfferOK
<1>1. /\ pc[p] = "insert" /\ role[email[p]] = None /\ Finish(p)
      /\ role' = [role EXCEPT ![email[p]] = goal[p]]
      /\ authority' = [authority EXCEPT ![email[p]] = held[p]]
      /\ googled' = IF via[p] = "google" THEN googled \cup {email[p]}
                    ELSE googled
      /\ raced' = raced
      /\ email[p] \in Emails
  BY DEF InsertAccount
<1>2. /\ profile' \in [Emails -> Profiles \cup {None}]
      /\ \A e \in Emails \ {email[p]} : profile'[e] = profile[e]
      /\ IF goal[p] = "AI_AGENT" THEN profile'[email[p]] # None
         ELSE profile' = profile
  BY <1>1 DEF InsertAccount, FreeProfiles
<1>3. /\ invite' \in [Invites -> Invite \cup {None}]
      /\ \A i \in Invites \ {offer[p]} : invite'[i] = invite[i]
      /\ offer[p] # None =>
            /\ offer[p] \in Invites
            /\ invite[offer[p]] # None /\ invite'[offer[p]] # None
            /\ invite'[offer[p]].email = invite[offer[p]].email
            /\ invite'[offer[p]].role = invite[offer[p]].role
            /\ invite'[offer[p]].authority = invite[offer[p]].authority
            /\ invite'[offer[p]].issuer = invite[offer[p]].issuer
            /\ invite'[offer[p]].state = "accepted"
  <2>1. CASE offer[p] = None
    BY <1>1, <2>1 DEF InsertAccount
  <2>2. CASE offer[p] # None
    <3>1. /\ offer[p] \in Invites
          /\ invite[offer[p]] \in Invite
          /\ invite' = [invite EXCEPT ![offer[p]].state = "accepted"]
      BY <1>1, <2>2 DEF InsertAccount
    <3>2. QED
      BY <2>2, <3>1 DEF Invite
  <2>3. QED
    BY <2>1, <2>2
<1>4. QED
  BY <1>1, <1>2, <1>3 DEF Inserted

\* What the commit of a change of an account changes.
Committed(p) ==
    /\ pc[p] = "commit" /\ Finish(p) /\ UNCHANGED <<invite, googled>>
    /\ raced' = Raced(p, email[p])
    /\ role' = [role EXCEPT ![email[p]] =
          IF goal[p] # seen[p] THEN goal[p] ELSE @]
    /\ authority' = [authority EXCEPT ![email[p]] =
          IF goal[p] # seen[p] THEN held[p] ELSE @]
    /\ profile' \in [Emails -> Profiles \cup {None}]
    /\ \A e \in Emails \ {email[p]} : profile'[e] = profile[e]
    /\ \/ goal[p] = "AI_AGENT" /\ profile'[email[p]] # None
       \/ goal[p] # "AI_AGENT" /\ profile'[email[p]] = None
       \/ profile[email[p]] # row[p]

LEMMA CommitEffect ==
  ASSUME Shape, NEW p \in Procs, Commit(p), ~Reject(p)
  PROVE  Committed(p)
<1> USE OnboardingAssumption DEF Shape, TypeOK, RequestOK
<1>1. /\ pc[p] = "commit" /\ Finish(p) /\ UNCHANGED <<invite, googled>>
      /\ raced' = Raced(p, email[p])
      /\ role' = [role EXCEPT ![email[p]] =
            IF goal[p] # seen[p] THEN goal[p] ELSE @]
      /\ authority' = [authority EXCEPT ![email[p]] =
            IF goal[p] # seen[p] THEN held[p] ELSE @]
      /\ email[p] \in Emails
  BY DEF Commit
<1>2. \/ /\ goal[p] = "AI_AGENT" /\ row[p] = None
         /\ \E x \in FreeProfiles :
               profile' = [profile EXCEPT ![email[p]] = x]
      \/ /\ goal[p] # "AI_AGENT"
         /\ profile' = [profile EXCEPT ![email[p]] = None]
      \/ /\ profile' = profile
         /\ goal[p] = "AI_AGENT" => row[p] # None
         /\ goal[p] # "AI_AGENT" =>
               row[p] = None \/ profile[email[p]] # row[p]
  BY SMTT(30) DEF Commit
<1>3. QED
  BY <1>1, <1>2 DEF FreeProfiles, Committed

\* Types, and what a request carries, are preserved by every step.
LEMMA ShapeStep ==
  ASSUME Shape, [Next]_vars
  PROVE  Shape'
<1> USE OnboardingAssumption, InviteAssumption DEF vars, dbVars, reqVars,
      histVars, Shape, TypeOK, RequestOK, OfferOK, UserRole, Authority,
      Invite, Labels, Handlers, AdminRoles
<1>1. ASSUME NEW p \in Procs, NEW a \in Emails, NEW e \in Emails,
             NEW r \in Roles,
             BeginInvite(p, a, e, r)
      PROVE  Shape'
  BY <1>1 DEF BeginInvite, Authenticated, Start, Goto
<1>2. ASSUME NEW p \in Procs,
             InviteUser(p)
      PROVE  Shape'
  <2>1. CASE Reject(p)
    BY <1>2, <2>1 DEF InviteUser, Reject, Finish
  <2>2. CASE ~Reject(p)
    BY <1>2, <2>2 DEF InviteUser, Goto
  <2>3. QED
    BY <1>2, <2>1, <2>2 DEF InviteUser
<1>3. ASSUME NEW p \in Procs,
             InvitePending(p)
      PROVE  Shape'
  <2>1. CASE Reject(p)
    BY <1>3, <2>1 DEF InvitePending, Pending, Reject, Finish
  <2>2. CASE ~Reject(p)
    BY <1>3, <2>2 DEF InvitePending, Pending, Goto
  <2>3. QED
    BY <1>3, <2>1, <2>2 DEF InvitePending, Pending
<1>4. ASSUME NEW p \in Procs, NEW i \in Invites,
             InviteInsert(p, i)
      PROVE  Shape'
  BY <1>4 DEF InviteInsert, Finish
<1>5. ASSUME NEW p \in Procs, NEW a \in Emails, NEW e \in Emails,
             NEW r \in Roles,
             BeginDirect(p, a, e, r)
      PROVE  Shape'
  BY <1>5 DEF BeginDirect, Authenticated, Start, Goto
<1>6. ASSUME NEW p \in Procs,
             DirectUser(p)
      PROVE  Shape'
  <2>1. CASE Reject(p)
    BY <1>6, <2>1 DEF DirectUser, Reject, Finish
  <2>2. CASE ~Reject(p)
    BY <1>6, <2>2 DEF DirectUser, Goto
  <2>3. QED
    BY <1>6, <2>1, <2>2 DEF DirectUser
<1>7. ASSUME NEW p \in Procs, NEW e \in Emails,
             GoogleUser(p, e)
      PROVE  Shape'
  BY <1>7 DEF GoogleUser, Start, Goto
<1>8. ASSUME NEW p \in Procs,
             GoogleInvite(p)
      PROVE  Shape'
  <2>1. CASE Reject(p)
    BY <1>8, <2>1 DEF GoogleInvite, Reject, Finish
  <2>2. CASE /\ email[p] = SuperEmail
            /\ Onboard(p, None, "SUPERADMIN", "settings")
    BY <1>8, <2>2 DEF GoogleInvite, Onboard, Goto
  <2>3. CASE \E i \in Pending(email[p]) :
              /\ email[p] = SuperEmail
              /\ Onboard(p, i, "SUPERADMIN", "settings")
    BY <1>8, <2>3 DEF GoogleInvite, Onboard, Goto, Pending
  <2>4. CASE \E i \in Pending(email[p]) :
              /\ email[p] # SuperEmail
              /\ Onboard(p, i, invite[i].role, invite[i].authority)
    BY <1>8, <2>4, SMTT(30) DEF GoogleInvite, Onboard, Goto, Pending
  <2>5. QED
    BY <1>8, <2>1, <2>2, <2>3, <2>4 DEF GoogleInvite
<1>9. ASSUME NEW p \in Procs, NEW e \in Emails,
             DevUser(p, e)
      PROVE  Shape'
  BY <1>9 DEF DevUser, Start, Goto
<1>10. ASSUME NEW p \in Procs,
              BootstrapCount(p)
       PROVE  Shape'
  BY <1>10 DEF BootstrapCount, Start, Goto
<1>11. ASSUME NEW p \in Procs,
              InsertAccount(p)
       PROVE  Shape'
  <2>1. CASE Reject(p)
    BY <1>11, <2>1 DEF Reject, Finish
  <2>2. CASE ~Reject(p)
    <3>1. Inserted(p)
      BY <1>11, <2>2, InsertEffect
    <3>2. QED
      BY <3>1 DEF Inserted, Finish
  <2>3. QED
    BY <2>1, <2>2
<1>12. ASSUME NEW p \in Procs, NEW a \in Emails, NEW e \in Emails,
              NEW r \in Roles,
              BeginRole(p, a, e, r)
       PROVE  Shape'
  BY <1>12 DEF BeginRole, Authenticated, Start, Goto
<1>13. ASSUME NEW p \in Procs, NEW a \in Emails, NEW e \in Emails,
              NEW r \in Roles \cup {None},
              BeginUser(p, a, e, r)
       PROVE  Shape'
  BY <1>13 DEF BeginUser, Authenticated, Start, Goto
<1>14. ASSUME NEW p \in Procs,
              LoadTarget(p)
       PROVE  Shape'
  <2>1. CASE Reject(p)
    BY <1>14, <2>1 DEF LoadTarget, Reject, Finish
  <2>2. CASE ~Reject(p)
    BY <1>14, <2>2 DEF LoadTarget, Goto
  <2>3. QED
    BY <1>14, <2>1, <2>2 DEF LoadTarget
<1>15. ASSUME NEW p \in Procs,
              Flush(p)
       PROVE  Shape'
  BY <1>15 DEF Flush, Goto
<1>16. ASSUME NEW p \in Procs,
              LoadProfile(p)
       PROVE  Shape'
  BY <1>16 DEF LoadProfile, Goto
<1>17. ASSUME NEW p \in Procs,
              Commit(p)
       PROVE  Shape'
  <2>1. CASE Reject(p)
    BY <1>17, <2>1 DEF Reject, Finish
  <2>2. CASE ~Reject(p)
    <3>1. Committed(p)
      BY <1>17, <2>2, CommitEffect
    <3>2. QED
      BY <3>1 DEF Committed, Finish, Raced
  <2>3. QED
    BY <2>1, <2>2
<1>18. ASSUME NEW p \in Procs,
              BeginSeed(p)
       PROVE  Shape'
  BY <1>18 DEF BeginSeed, Start, Goto
<1>19. ASSUME NEW p \in Procs,
              SeedUser(p)
       PROVE  Shape'
  <2>1. CASE Reject(p)
    BY <1>19, <2>1 DEF SeedUser, Reject, Finish
  <2>2. CASE ~Reject(p)
    BY <1>19, <2>2 DEF SeedUser, Goto
  <2>3. QED
    BY <1>19, <2>1, <2>2 DEF SeedUser
<1>20. ASSUME NEW p \in Procs,
              Promote(p)
       PROVE  Shape'
  BY <1>20 DEF Promote, Finish, Raced
<1>21. ASSUME NEW p \in Procs,
              Abort(p)
       PROVE  Shape'
  BY <1>21 DEF Abort, Reject, Finish
<1>22. ASSUME NEW i \in Invites,
              Expire(i)
       PROVE  Shape'
  BY <1>22, SMTT(30) DEF Expire
<1>23. CASE UNCHANGED vars
  BY <1>23, SMTT(30)
<1> HIDE DEF vars, dbVars, reqVars, histVars, Shape, TypeOK, RequestOK, OfferOK, UserRole,
      Authority, Invite, Labels, Handlers, AdminRoles
<1>24. QED
  BY <1>1, <1>2, <1>3, <1>4, <1>5, <1>6, <1>7, <1>8, <1>9, <1>10, <1>11,
     <1>12, <1>13, <1>14, <1>15, <1>16, <1>17, <1>18, <1>19, <1>20, <1>21,
     <1>22, <1>23
     DEF Next, Inviting, Creating, Changing, Seeding

\* Every role that is given or about to be given is allowed by the one it
\* was given on.
LEMMA GrantStep ==
  ASSUME Shape, GrantTicket, GrantsWithinAuthority, [Next]_vars
  PROVE  (GrantTicket /\ GrantsWithinAuthority)'
<1> USE OnboardingAssumption, InviteAssumption DEF vars, dbVars, reqVars,
      histVars, Shape, TypeOK, RequestOK, OfferOK, UserRole, Authority,
      Invite, GrantTicket, GrantsWithinAuthority, Allowed, CanAssign
<1>1. ASSUME NEW p \in Procs, NEW a \in Emails, NEW e \in Emails,
             NEW r \in Roles,
             BeginInvite(p, a, e, r)
      PROVE  (GrantTicket /\ GrantsWithinAuthority)'
  BY <1>1 DEF BeginInvite, Authenticated, Start, Goto
<1>2. ASSUME NEW p \in Procs,
             InviteUser(p)
      PROVE  (GrantTicket /\ GrantsWithinAuthority)'
  <2>1. CASE Reject(p)
    BY <1>2, <2>1 DEF InviteUser, Reject, Finish
  <2>2. CASE ~Reject(p)
    BY <1>2, <2>2 DEF InviteUser, Goto
  <2>3. QED
    BY <1>2, <2>1, <2>2 DEF InviteUser
<1>3. ASSUME NEW p \in Procs,
             InvitePending(p)
      PROVE  (GrantTicket /\ GrantsWithinAuthority)'
  <2>1. CASE Reject(p)
    BY <1>3, <2>1 DEF InvitePending, Pending, Reject, Finish
  <2>2. CASE ~Reject(p)
    BY <1>3, <2>2 DEF InvitePending, Pending, Goto
  <2>3. QED
    BY <1>3, <2>1, <2>2 DEF InvitePending, Pending
<1>4. ASSUME NEW p \in Procs, NEW i \in Invites,
             InviteInsert(p, i)
      PROVE  (GrantTicket /\ GrantsWithinAuthority)'
  BY <1>4 DEF InviteInsert, Finish
<1>5. ASSUME NEW p \in Procs, NEW a \in Emails, NEW e \in Emails,
             NEW r \in Roles,
             BeginDirect(p, a, e, r)
      PROVE  (GrantTicket /\ GrantsWithinAuthority)'
  BY <1>5 DEF BeginDirect, Authenticated, Start, Goto
<1>6. ASSUME NEW p \in Procs,
             DirectUser(p)
      PROVE  (GrantTicket /\ GrantsWithinAuthority)'
  <2>1. CASE Reject(p)
    BY <1>6, <2>1 DEF DirectUser, Reject, Finish
  <2>2. CASE ~Reject(p)
    BY <1>6, <2>2 DEF DirectUser, Goto
  <2>3. QED
    BY <1>6, <2>1, <2>2 DEF DirectUser
<1>7. ASSUME NEW p \in Procs, NEW e \in Emails,
             GoogleUser(p, e)
      PROVE  (GrantTicket /\ GrantsWithinAuthority)'
  BY <1>7 DEF GoogleUser, Start, Goto
<1>8. ASSUME NEW p \in Procs,
             GoogleInvite(p)
      PROVE  (GrantTicket /\ GrantsWithinAuthority)'
  <2>1. CASE Reject(p)
    BY <1>8, <2>1 DEF GoogleInvite, Reject, Finish
  <2>2. CASE /\ email[p] = SuperEmail
            /\ Onboard(p, None, "SUPERADMIN", "settings")
    BY <1>8, <2>2 DEF GoogleInvite, Onboard, Goto
  <2>3. CASE \E i \in Pending(email[p]) :
              /\ email[p] = SuperEmail
              /\ Onboard(p, i, "SUPERADMIN", "settings")
    BY <1>8, <2>3 DEF GoogleInvite, Onboard, Goto, Pending
  <2>4. CASE \E i \in Pending(email[p]) :
              /\ email[p] # SuperEmail
              /\ Onboard(p, i, invite[i].role, invite[i].authority)
    BY <1>8, <2>4, SMTT(30) DEF GoogleInvite, Onboard, Goto, Pending
  <2>5. QED
    BY <1>8, <2>1, <2>2, <2>3, <2>4 DEF GoogleInvite
<1>9. ASSUME NEW p \in Procs, NEW e \in Emails,
             DevUser(p, e)
      PROVE  (GrantTicket /\ GrantsWithinAuthority)'
  BY <1>9 DEF DevUser, Start, Goto
<1>10. ASSUME NEW p \in Procs,
              BootstrapCount(p)
       PROVE  (GrantTicket /\ GrantsWithinAuthority)'
  BY <1>10 DEF BootstrapCount, Start, Goto
<1>11. ASSUME NEW p \in Procs,
              InsertAccount(p)
       PROVE  (GrantTicket /\ GrantsWithinAuthority)'
  <2>1. CASE Reject(p)
    BY <1>11, <2>1 DEF Reject, Finish
  <2>2. CASE ~Reject(p)
    <3>1. Inserted(p)
      BY <1>11, <2>2, InsertEffect
    <3>2. QED
      BY <3>1 DEF Inserted, Finish
  <2>3. QED
    BY <2>1, <2>2
<1>12. ASSUME NEW p \in Procs, NEW a \in Emails, NEW e \in Emails,
              NEW r \in Roles,
              BeginRole(p, a, e, r)
       PROVE  (GrantTicket /\ GrantsWithinAuthority)'
  BY <1>12 DEF BeginRole, Authenticated, Start, Goto
<1>13. ASSUME NEW p \in Procs, NEW a \in Emails, NEW e \in Emails,
              NEW r \in Roles \cup {None},
              BeginUser(p, a, e, r)
       PROVE  (GrantTicket /\ GrantsWithinAuthority)'
  BY <1>13 DEF BeginUser, Authenticated, Start, Goto
<1>14. ASSUME NEW p \in Procs,
              LoadTarget(p)
       PROVE  (GrantTicket /\ GrantsWithinAuthority)'
  <2>1. CASE Reject(p)
    BY <1>14, <2>1 DEF LoadTarget, Reject, Finish
  <2>2. CASE ~Reject(p)
    BY <1>14, <2>2 DEF LoadTarget, Goto
  <2>3. QED
    BY <1>14, <2>1, <2>2 DEF LoadTarget
<1>15. ASSUME NEW p \in Procs,
              Flush(p)
       PROVE  (GrantTicket /\ GrantsWithinAuthority)'
  BY <1>15 DEF Flush, Goto
<1>16. ASSUME NEW p \in Procs,
              LoadProfile(p)
       PROVE  (GrantTicket /\ GrantsWithinAuthority)'
  BY <1>16 DEF LoadProfile, Goto
<1>17. ASSUME NEW p \in Procs,
              Commit(p)
       PROVE  (GrantTicket /\ GrantsWithinAuthority)'
  <2>1. CASE Reject(p)
    BY <1>17, <2>1 DEF Reject, Finish
  <2>2. CASE ~Reject(p)
    <3>1. Committed(p)
      BY <1>17, <2>2, CommitEffect
    <3>2. QED
      BY <3>1 DEF Committed, Finish
  <2>3. QED
    BY <2>1, <2>2
<1>18. ASSUME NEW p \in Procs,
              BeginSeed(p)
       PROVE  (GrantTicket /\ GrantsWithinAuthority)'
  BY <1>18 DEF BeginSeed, Start, Goto
<1>19. ASSUME NEW p \in Procs,
              SeedUser(p)
       PROVE  (GrantTicket /\ GrantsWithinAuthority)'
  <2>1. CASE Reject(p)
    BY <1>19, <2>1 DEF SeedUser, Reject, Finish
  <2>2. CASE ~Reject(p)
    BY <1>19, <2>2 DEF SeedUser, Goto
  <2>3. QED
    BY <1>19, <2>1, <2>2 DEF SeedUser
<1>20. ASSUME NEW p \in Procs,
              Promote(p)
       PROVE  (GrantTicket /\ GrantsWithinAuthority)'
  BY <1>20 DEF Promote, Finish, Raced
<1>21. ASSUME NEW p \in Procs,
              Abort(p)
       PROVE  (GrantTicket /\ GrantsWithinAuthority)'
  BY <1>21 DEF Abort, Reject, Finish
<1>22. ASSUME NEW i \in Invites,
              Expire(i)
       PROVE  (GrantTicket /\ GrantsWithinAuthority)'
  BY <1>22, SMTT(30) DEF Expire
<1>23. CASE UNCHANGED vars
  BY <1>23, SMTT(30)
<1> HIDE DEF vars, dbVars, reqVars, histVars, Shape, TypeOK, RequestOK, OfferOK, UserRole,
      Authority, Invite, GrantTicket, GrantsWithinAuthority, Allowed, CanAssign
<1>24. QED
  BY <1>1, <1>2, <1>3, <1>4, <1>5, <1>6, <1>7, <1>8, <1>9, <1>10, <1>11,
     <1>12, <1>13, <1>14, <1>15, <1>16, <1>17, <1>18, <1>19, <1>20, <1>21,
     <1>22, <1>23
     DEF Next, Inviting, Creating, Changing, Seeding

\* A request spends its ticket on the invite it inserts.
LEMMA InviteStep ==
  ASSUME Shape, InviteTicket, InvitePerRequest, [Next]_vars
  PROVE  (InviteTicket /\ InvitePerRequest)'
<1> USE OnboardingAssumption, InviteAssumption DEF vars, dbVars, reqVars,
      histVars, Shape, TypeOK, RequestOK, OfferOK, UserRole, Authority,
      Invite, InviteTicket, InvitePerRequest
<1>1. ASSUME NEW p \in Procs, NEW a \in Emails, NEW e \in Emails,
             NEW r \in Roles,
             BeginInvite(p, a, e, r)
      PROVE  (InviteTicket /\ InvitePerRequest)'
  BY <1>1 DEF BeginInvite, Authenticated, Start, Goto
<1>2. ASSUME NEW p \in Procs,
             InviteUser(p)
      PROVE  (InviteTicket /\ InvitePerRequest)'
  <2>1. CASE Reject(p)
    BY <1>2, <2>1 DEF InviteUser, Reject, Finish
  <2>2. CASE ~Reject(p)
    BY <1>2, <2>2 DEF InviteUser, Goto
  <2>3. QED
    BY <1>2, <2>1, <2>2 DEF InviteUser
<1>3. ASSUME NEW p \in Procs,
             InvitePending(p)
      PROVE  (InviteTicket /\ InvitePerRequest)'
  <2>1. CASE Reject(p)
    BY <1>3, <2>1 DEF InvitePending, Pending, Reject, Finish
  <2>2. CASE ~Reject(p)
    BY <1>3, <2>2 DEF InvitePending, Pending, Goto
  <2>3. QED
    BY <1>3, <2>1, <2>2 DEF InvitePending, Pending
<1>4. ASSUME NEW p \in Procs, NEW i \in Invites,
             InviteInsert(p, i)
      PROVE  (InviteTicket /\ InvitePerRequest)'
  BY <1>4 DEF InviteInsert, Finish
<1>5. ASSUME NEW p \in Procs, NEW a \in Emails, NEW e \in Emails,
             NEW r \in Roles,
             BeginDirect(p, a, e, r)
      PROVE  (InviteTicket /\ InvitePerRequest)'
  BY <1>5 DEF BeginDirect, Authenticated, Start, Goto
<1>6. ASSUME NEW p \in Procs,
             DirectUser(p)
      PROVE  (InviteTicket /\ InvitePerRequest)'
  <2>1. CASE Reject(p)
    BY <1>6, <2>1 DEF DirectUser, Reject, Finish
  <2>2. CASE ~Reject(p)
    BY <1>6, <2>2 DEF DirectUser, Goto
  <2>3. QED
    BY <1>6, <2>1, <2>2 DEF DirectUser
<1>7. ASSUME NEW p \in Procs, NEW e \in Emails,
             GoogleUser(p, e)
      PROVE  (InviteTicket /\ InvitePerRequest)'
  BY <1>7 DEF GoogleUser, Start, Goto
<1>8. ASSUME NEW p \in Procs,
             GoogleInvite(p)
      PROVE  (InviteTicket /\ InvitePerRequest)'
  <2>1. CASE Reject(p)
    BY <1>8, <2>1 DEF GoogleInvite, Reject, Finish
  <2>2. CASE /\ email[p] = SuperEmail
            /\ Onboard(p, None, "SUPERADMIN", "settings")
    BY <1>8, <2>2 DEF GoogleInvite, Onboard, Goto
  <2>3. CASE \E i \in Pending(email[p]) :
              /\ email[p] = SuperEmail
              /\ Onboard(p, i, "SUPERADMIN", "settings")
    BY <1>8, <2>3 DEF GoogleInvite, Onboard, Goto, Pending
  <2>4. CASE \E i \in Pending(email[p]) :
              /\ email[p] # SuperEmail
              /\ Onboard(p, i, invite[i].role, invite[i].authority)
    BY <1>8, <2>4, SMTT(30) DEF GoogleInvite, Onboard, Goto, Pending
  <2>5. QED
    BY <1>8, <2>1, <2>2, <2>3, <2>4 DEF GoogleInvite
<1>9. ASSUME NEW p \in Procs, NEW e \in Emails,
             DevUser(p, e)
      PROVE  (InviteTicket /\ InvitePerRequest)'
  BY <1>9 DEF DevUser, Start, Goto
<1>10. ASSUME NEW p \in Procs,
              BootstrapCount(p)
       PROVE  (InviteTicket /\ InvitePerRequest)'
  BY <1>10 DEF BootstrapCount, Start, Goto
<1>11. ASSUME NEW p \in Procs,
              InsertAccount(p)
       PROVE  (InviteTicket /\ InvitePerRequest)'
  <2>1. CASE Reject(p)
    BY <1>11, <2>1 DEF Reject, Finish
  <2>2. CASE ~Reject(p)
    <3>1. Inserted(p)
      BY <1>11, <2>2, InsertEffect
    <3>2. \A i \in Invites :
             invite'[i] # None /\ invite'[i].state = "pending"
             => invite'[i] = invite[i]
      BY <3>1 DEF Inserted
    <3>3. InviteTicket'
      BY <3>1, <3>2 DEF Inserted, Finish
    <3>4. InvitePerRequest'
      BY <3>2
    <3>5. QED
      BY <3>3, <3>4
  <2>3. QED
    BY <2>1, <2>2
<1>12. ASSUME NEW p \in Procs, NEW a \in Emails, NEW e \in Emails,
              NEW r \in Roles,
              BeginRole(p, a, e, r)
       PROVE  (InviteTicket /\ InvitePerRequest)'
  BY <1>12 DEF BeginRole, Authenticated, Start, Goto
<1>13. ASSUME NEW p \in Procs, NEW a \in Emails, NEW e \in Emails,
              NEW r \in Roles \cup {None},
              BeginUser(p, a, e, r)
       PROVE  (InviteTicket /\ InvitePerRequest)'
  BY <1>13 DEF BeginUser, Authenticated, Start, Goto
<1>14. ASSUME NEW p \in Procs,
              LoadTarget(p)
       PROVE  (InviteTicket /\ InvitePerRequest)'
  <2>1. CASE Reject(p)
    BY <1>14, <2>1 DEF LoadTarget, Reject, Finish
  <2>2. CASE ~Reject(p)
    BY <1>14, <2>2 DEF LoadTarget, Goto
  <2>3. QED
    BY <1>14, <2>1, <2>2 DEF LoadTarget
<1>15. ASSUME NEW p \in Procs,
              Flush(p)
       PROVE  (InviteTicket /\ InvitePerRequest)'
  BY <1>15 DEF Flush, Goto
<1>16. ASSUME NEW p \in Procs,
              LoadProfile(p)
       PROVE  (InviteTicket /\ InvitePerRequest)'
  BY <1>16 DEF LoadProfile, Goto
<1>17. ASSUME NEW p \in Procs,
              Commit(p)
       PROVE  (InviteTicket /\ InvitePerRequest)'
  <2>1. CASE Reject(p)
    BY <1>17, <2>1 DEF Reject, Finish
  <2>2. CASE ~Reject(p)
    <3>1. Committed(p)
      BY <1>17, <2>2, CommitEffect
    <3>2. QED
      BY <3>1 DEF Committed, Finish
  <2>3. QED
    BY <2>1, <2>2
<1>18. ASSUME NEW p \in Procs,
              BeginSeed(p)
       PROVE  (InviteTicket /\ InvitePerRequest)'
  BY <1>18 DEF BeginSeed, Start, Goto
<1>19. ASSUME NEW p \in Procs,
              SeedUser(p)
       PROVE  (InviteTicket /\ InvitePerRequest)'
  <2>1. CASE Reject(p)
    BY <1>19, <2>1 DEF SeedUser, Reject, Finish
  <2>2. CASE ~Reject(p)
    BY <1>19, <2>2 DEF SeedUser, Goto
  <2>3. QED
    BY <1>19, <2>1, <2>2 DEF SeedUser
<1>20. ASSUME NEW p \in Procs,
              Promote(p)
       PROVE  (InviteTicket /\ InvitePerRequest)'
  BY <1>20 DEF Promote, Finish, Raced
<1>21. ASSUME NEW p \in Procs,
              Abort(p)
       PROVE  (InviteTicket /\ InvitePerRequest)'
  BY <1>21 DEF Abort, Reject, Finish
<1>22. ASSUME NEW i \in Invites,
              Expire(i)
       PROVE  (InviteTicket /\ InvitePerRequest)'
  BY <1>22, SMTT(30) DEF Expire
<1>23. CASE UNCHANGED vars
  BY <1>23, SMTT(30)
<1> HIDE DEF vars, dbVars, reqVars, histVars, Shape, TypeOK, RequestOK, OfferOK, UserRole,
      Authority, Invite, InviteTicket, InvitePerRequest
<1>24. QED
  BY <1>1, <1>2, <1>3, <1>4, <1>5, <1>6, <1>7, <1>8, <1>9, <1>10, <1>11,
     <1>12, <1>13, <1>14, <1>15, <1>16, <1>17, <1>18, <1>19, <1>20, <1>21,
     <1>22, <1>23
     DEF Next, Inviting, Creating, Changing, Seeding

\* An account spends the one invite it comes from.
LEMMA SpentStep ==
  ASSUME Shape, SpentOnAccounts, [Next]_vars
  PROVE  SpentOnAccounts'
<1> USE OnboardingAssumption, InviteAssumption DEF vars, dbVars, reqVars,
      histVars, Shape, TypeOK, RequestOK, OfferOK, UserRole, Authority,
      Invite, SpentOnAccounts, InviteOnly, Spent
<1>1. ASSUME NEW p \in Procs, NEW a \in Emails, NEW e \in Emails,
             NEW r \in Roles,
             BeginInvite(p, a, e, r)
      PROVE  SpentOnAccounts'
  BY <1>1 DEF BeginInvite, Authenticated, Start, Goto
<1>2. ASSUME NEW p \in Procs,
             InviteUser(p)
      PROVE  SpentOnAccounts'
  <2>1. CASE Reject(p)
    BY <1>2, <2>1 DEF InviteUser, Reject, Finish
  <2>2. CASE ~Reject(p)
    BY <1>2, <2>2 DEF InviteUser, Goto
  <2>3. QED
    BY <1>2, <2>1, <2>2 DEF InviteUser
<1>3. ASSUME NEW p \in Procs,
             InvitePending(p)
      PROVE  SpentOnAccounts'
  <2>1. CASE Reject(p)
    BY <1>3, <2>1 DEF InvitePending, Pending, Reject, Finish
  <2>2. CASE ~Reject(p)
    BY <1>3, <2>2 DEF InvitePending, Pending, Goto
  <2>3. QED
    BY <1>3, <2>1, <2>2 DEF InvitePending, Pending
<1>4. ASSUME NEW p \in Procs, NEW i \in Invites,
             InviteInsert(p, i)
      PROVE  SpentOnAccounts'
  BY <1>4 DEF InviteInsert, Finish
<1>5. ASSUME NEW p \in Procs, NEW a \in Emails, NEW e \in Emails,
             NEW r \in Roles,
             BeginDirect(p, a, e, r)
      PROVE  SpentOnAccounts'
  BY <1>5 DEF BeginDirect, Authenticated, Start, Goto
<1>6. ASSUME NEW p \in Procs,
             DirectUser(p)
      PROVE  SpentOnAccounts'
  <2>1. CASE Reject(p)
    BY <1>6, <2>1 DEF DirectUser, Reject, Finish
  <2>2. CASE ~Reject(p)
    BY <1>6, <2>2 DEF DirectUser, Goto
  <2>3. QED
    BY <1>6, <2>1, <2>2 DEF DirectUser
<1>7. ASSUME NEW p \in Procs, NEW e \in Emails,
             GoogleUser(p, e)
      PROVE  SpentOnAccounts'
  BY <1>7 DEF GoogleUser, Start, Goto
<1>8. ASSUME NEW p \in Procs,
             GoogleInvite(p)
      PROVE  SpentOnAccounts'
  <2>1. CASE Reject(p)
    BY <1>8, <2>1 DEF GoogleInvite, Reject, Finish
  <2>2. CASE /\ email[p] = SuperEmail
            /\ Onboard(p, None, "SUPERADMIN", "settings")
    BY <1>8, <2>2 DEF GoogleInvite, Onboard, Goto
  <2>3. CASE \E i \in Pending(email[p]) :
              /\ email[p] = SuperEmail
              /\ Onboard(p, i, "SUPERADMIN", "settings")
    BY <1>8, <2>3 DEF GoogleInvite, Onboard, Goto, Pending
  <2>4. CASE \E i \in Pending(email[p]) :
              /\ email[p] # SuperEmail
              /\ Onboard(p, i, invite[i].role, invite[i].authority)
    BY <1>8, <2>4, SMTT(30) DEF GoogleInvite, Onboard, Goto, Pending
  <2>5. QED
    BY <1>8, <2>1, <2>2, <2>3, <2>4 DEF GoogleInvite
<1>9. ASSUME NEW p \in Procs, NEW e \in Emails,
             DevUser(p, e)
      PROVE  SpentOnAccounts'
  BY <1>9 DEF DevUser, Start, Goto
<1>10. ASSUME NEW p \in Procs,
              BootstrapCount(p)
       PROVE  SpentOnAccounts'
  BY <1>10 DEF BootstrapCount, Start, Goto
<1>11. ASSUME NEW p \in Procs,
              InsertAccount(p)
       PROVE  SpentOnAccounts'
  <2>1. CASE Reject(p)
    BY <1>11, <2>1 DEF Reject, Finish
  <2>2. CASE ~Reject(p)
    <3>1. Inserted(p)
      BY <1>11, <2>2, InsertEffect
    <3>2. PICK n \in Emails : n = email[p]
      BY <3>1 DEF Inserted
    <3>3. \A e \in Emails \ {n} :
             Spent(e)' = Spent(e) /\ (e \in googled' <=> e \in googled)
      BY <3>1, <3>2 DEF Inserted
    <3>4. Spent(n) = {} /\ n \notin googled
      BY <3>1, <3>2 DEF Inserted
    <3>5. Spent(n)' = IF offer[p] = None THEN {} ELSE {offer[p]}
      <4>1. \A i \in Invites \ {offer[p]} : i \notin Spent(n)'
        BY <3>1, <3>4 DEF Inserted
      <4>2. offer[p] # None => offer[p] \in Spent(n)'
        BY <3>1, <3>2 DEF Inserted
      <4>3. QED
        BY <4>1, <4>2
    <3>6. n \in googled' <=> via[p] = "google"
      BY <3>1, <3>2, <3>4 DEF Inserted
    <3>7. \A e \in Emails : role'[e] = None <=> role[e] = None /\ e # n
      BY <3>1, <3>2 DEF Inserted
    <3>8. InviteOnly'
      <4> SUFFICES ASSUME NEW e \in Emails
                   PROVE  /\ \A i, j \in Spent(e)' : i = j
                          /\ Spent(e)' # {} => e \in googled'
                          /\ e \in googled' \ {SuperEmail} =>
                                Spent(e)' # {}
        BY DEF InviteOnly
      <4>1. CASE e = n
        BY <3>1, <3>2, <3>5, <3>6, <4>1 DEF Inserted
      <4>2. CASE e # n
        BY <3>3, <4>2
      <4>3. QED
        BY <4>1, <4>2
    <3>9. QED
      BY <3>3, <3>7, <3>8
  <2>3. QED
    BY <2>1, <2>2
<1>12. ASSUME NEW p \in Procs, NEW a \in Emails, NEW e \in Emails,
              NEW r \in Roles,
              BeginRole(p, a, e, r)
       PROVE  SpentOnAccounts'
  BY <1>12 DEF BeginRole, Authenticated, Start, Goto
<1>13. ASSUME NEW p \in Procs, NEW a \in Emails, NEW e \in Emails,
              NEW r \in Roles \cup {None},
              BeginUser(p, a, e, r)
       PROVE  SpentOnAccounts'
  BY <1>13 DEF BeginUser, Authenticated, Start, Goto
<1>14. ASSUME NEW p \in Procs,
              LoadTarget(p)
       PROVE  SpentOnAccounts'
  <2>1. CASE Reject(p)
    BY <1>14, <2>1 DEF LoadTarget, Reject, Finish
  <2>2. CASE ~Reject(p)
    BY <1>14, <2>2 DEF LoadTarget, Goto
  <2>3. QED
    BY <1>14, <2>1, <2>2 DEF LoadTarget
<1>15. ASSUME NEW p \in Procs,
              Flush(p)
       PROVE  SpentOnAccounts'
  BY <1>15 DEF Flush, Goto
<1>16. ASSUME NEW p \in Procs,
              LoadProfile(p)
       PROVE  SpentOnAccounts'
  BY <1>16 DEF LoadProfile, Goto
<1>17. ASSUME NEW p \in Procs,
              Commit(p)
       PROVE  SpentOnAccounts'
  <2>1. CASE Reject(p)
    BY <1>17, <2>1 DEF Reject, Finish
  <2>2. CASE ~Reject(p)
    <3>1. Committed(p)
      BY <1>17, <2>2, CommitEffect
    <3>2. QED
      BY <3>1 DEF Committed, Finish
  <2>3. QED
    BY <2>1, <2>2
<1>18. ASSUME NEW p \in Procs,
              BeginSeed(p)
       PROVE  SpentOnAccounts'
  BY <1>18 DEF BeginSeed, Start, Goto
<1>19. ASSUME NEW p \in Procs,
              SeedUser(p)
       PROVE  SpentOnAccounts'
  <2>1. CASE Reject(p)
    BY <1>19, <2>1 DEF SeedUser, Reject, Finish
  <2>2. CASE ~Reject(p)
    BY <1>19, <2>2 DEF SeedUser, Goto
  <2>3. QED
    BY <1>19, <2>1, <2>2 DEF SeedUser
<1>20. ASSUME NEW p \in Procs,
              Promote(p)
       PROVE  SpentOnAccounts'
  BY <1>20 DEF Promote, Finish, Raced
<1>21. ASSUME NEW p \in Procs,
              Abort(p)
       PROVE  SpentOnAccounts'
  BY <1>21 DEF Abort, Reject, Finish
<1>22. ASSUME NEW i \in Invites,
              Expire(i)
       PROVE  SpentOnAccounts'
  BY <1>22, SMTT(30) DEF Expire
<1>23. CASE UNCHANGED vars
  BY <1>23, SMTT(30)
<1> HIDE DEF vars, dbVars, reqVars, histVars, Shape, TypeOK, RequestOK, OfferOK, UserRole,
      Authority, Invite, SpentOnAccounts, InviteOnly, Spent
<1>24. QED
  BY <1>1, <1>2, <1>3, <1>4, <1>5, <1>6, <1>7, <1>8, <1>9, <1>10, <1>11,
     <1>12, <1>13, <1>14, <1>15, <1>16, <1>17, <1>18, <1>19, <1>20, <1>21,
     <1>22, <1>23
     DEF Next, Inviting, Creating, Changing, Seeding

\* A commit outside `raced` writes the profile of the role it leaves.
LEMMA ProfileStep ==
  ASSUME Shape, Loaded, ProfileFollowsRole, [Next]_vars
  PROVE  (Loaded /\ ProfileFollowsRole)'
<1> USE OnboardingAssumption, InviteAssumption DEF vars, dbVars, reqVars,
      histVars, Shape, TypeOK, RequestOK, OfferOK, UserRole, Authority,
      Loaded, ProfileFollowsRole
<1>1. ASSUME NEW p \in Procs, NEW a \in Emails, NEW e \in Emails,
             NEW r \in Roles,
             BeginInvite(p, a, e, r)
      PROVE  (Loaded /\ ProfileFollowsRole)'
  BY <1>1 DEF BeginInvite, Authenticated, Start, Goto
<1>2. ASSUME NEW p \in Procs,
             InviteUser(p)
      PROVE  (Loaded /\ ProfileFollowsRole)'
  <2>1. CASE Reject(p)
    BY <1>2, <2>1 DEF InviteUser, Reject, Finish
  <2>2. CASE ~Reject(p)
    BY <1>2, <2>2 DEF InviteUser, Goto
  <2>3. QED
    BY <1>2, <2>1, <2>2 DEF InviteUser
<1>3. ASSUME NEW p \in Procs,
             InvitePending(p)
      PROVE  (Loaded /\ ProfileFollowsRole)'
  <2>1. CASE Reject(p)
    BY <1>3, <2>1 DEF InvitePending, Pending, Reject, Finish
  <2>2. CASE ~Reject(p)
    BY <1>3, <2>2 DEF InvitePending, Pending, Goto
  <2>3. QED
    BY <1>3, <2>1, <2>2 DEF InvitePending, Pending
<1>4. ASSUME NEW p \in Procs, NEW i \in Invites,
             InviteInsert(p, i)
      PROVE  (Loaded /\ ProfileFollowsRole)'
  BY <1>4 DEF InviteInsert, Finish
<1>5. ASSUME NEW p \in Procs, NEW a \in Emails, NEW e \in Emails,
             NEW r \in Roles,
             BeginDirect(p, a, e, r)
      PROVE  (Loaded /\ ProfileFollowsRole)'
  BY <1>5 DEF BeginDirect, Authenticated, Start, Goto
<1>6. ASSUME NEW p \in Procs,
             DirectUser(p)
      PROVE  (Loaded /\ ProfileFollowsRole)'
  <2>1. CASE Reject(p)
    BY <1>6, <2>1 DEF DirectUser, Reject, Finish
  <2>2. CASE ~Reject(p)
    BY <1>6, <2>2 DEF DirectUser, Goto
  <2>3. QED
    BY <1>6, <2>1, <2>2 DEF DirectUser
<1>7. ASSUME NEW p \in Procs, NEW e \in Emails,
             GoogleUser(p, e)
      PROVE  (Loaded /\ ProfileFollowsRole)'
  BY <1>7 DEF GoogleUser, Start, Goto
<1>8. ASSUME NEW p \in Procs,
             GoogleInvite(p)
      PROVE  (Loaded /\ ProfileFollowsRole)'
  <2>1. CASE Reject(p)
    BY <1>8, <2>1 DEF GoogleInvite, Reject, Finish
  <2>2. CASE /\ email[p] = SuperEmail
            /\ Onboard(p, None, "SUPERADMIN", "settings")
    BY <1>8, <2>2 DEF GoogleInvite, Onboard, Goto
  <2>3. CASE \E i \in Pending(email[p]) :
              /\ email[p] = SuperEmail
              /\ Onboard(p, i, "SUPERADMIN", "settings")
    BY <1>8, <2>3 DEF GoogleInvite, Onboard, Goto, Pending
  <2>4. CASE \E i \in Pending(email[p]) :
              /\ email[p] # SuperEmail
              /\ Onboard(p, i, invite[i].role, invite[i].authority)
    BY <1>8, <2>4, SMTT(30) DEF GoogleInvite, Onboard, Goto, Pending
  <2>5. QED
    BY <1>8, <2>1, <2>2, <2>3, <2>4 DEF GoogleInvite
<1>9. ASSUME NEW p \in Procs, NEW e \in Emails,
             DevUser(p, e)
      PROVE  (Loaded /\ ProfileFollowsRole)'
  BY <1>9 DEF DevUser, Start, Goto
<1>10. ASSUME NEW p \in Procs,
              BootstrapCount(p)
       PROVE  (Loaded /\ ProfileFollowsRole)'
  BY <1>10 DEF BootstrapCount, Start, Goto
<1>11. ASSUME NEW p \in Procs,
              InsertAccount(p)
       PROVE  (Loaded /\ ProfileFollowsRole)'
  <2>1. CASE Reject(p)
    BY <1>11, <2>1 DEF Reject, Finish
  <2>2. CASE ~Reject(p)
    <3>1. Inserted(p)
      BY <1>11, <2>2, InsertEffect
    <3>2. QED
      BY <3>1 DEF Inserted, Finish
  <2>3. QED
    BY <2>1, <2>2
<1>12. ASSUME NEW p \in Procs, NEW a \in Emails, NEW e \in Emails,
              NEW r \in Roles,
              BeginRole(p, a, e, r)
       PROVE  (Loaded /\ ProfileFollowsRole)'
  <2>1. CASE a = e
    BY <1>12, <2>1 DEF BeginRole, Authenticated, Start, Goto
  <2>2. CASE a # e
    <3>1. own' = [own EXCEPT ![p] = FALSE]
      BY <1>12, <2>2 DEF BeginRole
    <3>2. QED
      BY <1>12, <3>1 DEF BeginRole, Authenticated, Start, Goto
  <2>3. QED
    BY <2>1, <2>2
<1>13. ASSUME NEW p \in Procs, NEW a \in Emails, NEW e \in Emails,
              NEW r \in Roles \cup {None},
              BeginUser(p, a, e, r)
       PROVE  (Loaded /\ ProfileFollowsRole)'
  <2>1. CASE a = e
    BY <1>13, <2>1 DEF BeginUser, Authenticated, Start, Goto
  <2>2. CASE a # e
    <3>1. own' = [own EXCEPT ![p] = FALSE]
      BY <1>13, <2>2 DEF BeginUser
    <3>2. QED
      BY <1>13, <3>1 DEF BeginUser, Authenticated, Start, Goto
  <2>3. QED
    BY <2>1, <2>2
<1>14. ASSUME NEW p \in Procs,
              LoadTarget(p)
       PROVE  (Loaded /\ ProfileFollowsRole)'
  <2>1. CASE Reject(p)
    BY <1>14, <2>1 DEF LoadTarget, Reject, Finish
  <2>2. CASE ~Reject(p)
    BY <1>14, <2>2 DEF LoadTarget, Goto
  <2>3. QED
    BY <1>14, <2>1, <2>2 DEF LoadTarget
<1>15. ASSUME NEW p \in Procs,
              Flush(p)
       PROVE  (Loaded /\ ProfileFollowsRole)'
  BY <1>15 DEF Flush, Goto
<1>16. ASSUME NEW p \in Procs,
              LoadProfile(p)
       PROVE  (Loaded /\ ProfileFollowsRole)'
  BY <1>16 DEF LoadProfile, Goto
<1>17. ASSUME NEW p \in Procs,
              Commit(p)
       PROVE  (Loaded /\ ProfileFollowsRole)'
  <2>1. CASE Reject(p)
    BY <1>17, <2>1 DEF Reject, Finish
  <2>2. CASE ~Reject(p)
    <3>1. Committed(p)
      BY <1>17, <2>2, CommitEffect
    <3>2. QED
      BY <3>1 DEF Committed, Finish, Raced, Holding
  <2>3. QED
    BY <2>1, <2>2
<1>18. ASSUME NEW p \in Procs,
              BeginSeed(p)
       PROVE  (Loaded /\ ProfileFollowsRole)'
  BY <1>18 DEF BeginSeed, Start, Goto
<1>19. ASSUME NEW p \in Procs,
              SeedUser(p)
       PROVE  (Loaded /\ ProfileFollowsRole)'
  <2>1. CASE Reject(p)
    BY <1>19, <2>1 DEF SeedUser, Reject, Finish
  <2>2. CASE ~Reject(p)
    BY <1>19, <2>2 DEF SeedUser, Goto
  <2>3. QED
    BY <1>19, <2>1, <2>2 DEF SeedUser
<1>20. ASSUME NEW p \in Procs,
              Promote(p)
       PROVE  (Loaded /\ ProfileFollowsRole)'
  BY <1>20 DEF Promote, Finish, Raced, Holding
<1>21. ASSUME NEW p \in Procs,
              Abort(p)
       PROVE  (Loaded /\ ProfileFollowsRole)'
  BY <1>21 DEF Abort, Reject, Finish
<1>22. ASSUME NEW i \in Invites,
              Expire(i)
       PROVE  (Loaded /\ ProfileFollowsRole)'
  BY <1>22, SMTT(30) DEF Expire
<1>23. CASE UNCHANGED vars
  BY <1>23, SMTT(30)
<1> HIDE DEF vars, dbVars, reqVars, histVars, Shape, TypeOK, RequestOK, OfferOK, UserRole,
      Authority, Loaded, ProfileFollowsRole
<1>24. QED
  BY <1>1, <1>2, <1>3, <1>4, <1>5, <1>6, <1>7, <1>8, <1>9, <1>10, <1>11,
     <1>12, <1>13, <1>14, <1>15, <1>16, <1>17, <1>18, <1>19, <1>20, <1>21,
     <1>22, <1>23
     DEF Next, Inviting, Creating, Changing, Seeding

-----------------------------------------------------------------------------
LEMMA InitIInv == Init => IInv
<1> SUFFICES ASSUME Init
             PROVE  IInv
  OBVIOUS
<1> USE OnboardingAssumption DEF Init
<1>1. Shape
  BY DEF Shape, TypeOK, RequestOK, OfferOK, Labels
<1>2. GrantTicket /\ GrantsWithinAuthority
  BY DEF GrantTicket, GrantsWithinAuthority
<1>3. InviteTicket /\ InvitePerRequest
  BY DEF InviteTicket, InvitePerRequest
<1>4. SpentOnAccounts
  BY DEF SpentOnAccounts, InviteOnly, Spent
<1>5. Loaded /\ ProfileFollowsRole
  BY DEF Loaded, ProfileFollowsRole, UserRole
<1>6. QED
  BY <1>1, <1>2, <1>3, <1>4, <1>5 DEF IInv

LEMMA Invariance == Spec => []IInv
<1>1. IInv /\ [Next]_vars => IInv'
  <2> SUFFICES ASSUME IInv, [Next]_vars
               PROVE  IInv'
    OBVIOUS
  <2>1. Shape'
    BY ShapeStep DEF IInv
  <2>2. (GrantTicket /\ GrantsWithinAuthority)'
    BY GrantStep DEF IInv
  <2>3. (InviteTicket /\ InvitePerRequest)'
    BY InviteStep DEF IInv
  <2>4. SpentOnAccounts'
    BY SpentStep DEF IInv
  <2>5. (Loaded /\ ProfileFollowsRole)'
    BY ProfileStep DEF IInv
  <2>6. QED
    BY <2>1, <2>2, <2>3, <2>4, <2>5 DEF IInv
<1>2. QED
  BY <1>1, InitIInv, PTL DEF Spec

\* Every variable keeps its type, whatever the requests and their overlap
\* (User, Invite and AgentProfile of db/models.py).
THEOREM TypeCorrect == Spec => []TypeOK
<1>1. IInv => TypeOK
  BY DEF IInv, Shape
<1>2. QED
  BY <1>1, Invariance, PTL

\* A role was always given by someone who could give it
\* (admin/router.py:70-75), for any number of overlapping requests.
THEOREM RolesWithinAuthority == Spec => []GrantsWithinAuthority
<1>1. IInv => GrantsWithinAuthority
  BY DEF IInv
<1>2. QED
  BY <1>1, Invariance, PTL

\* No request has two invites of one e-mail pending (admin/router.py:178-195).
THEOREM OneInvitePerRequest == Spec => []InvitePerRequest
<1>1. IInv => InvitePerRequest
  BY DEF IInv
<1>2. QED
  BY <1>1, Invariance, PTL

\* Google onboarding spends exactly one invite (auth/router.py:218-268).
THEOREM OnboardingByInvite == Spec => []InviteOnly
<1>1. IInv => InviteOnly
  BY DEF IInv, SpentOnAccounts
<1>2. QED
  BY <1>1, Invariance, PTL

\* Agents, and only they, have a profile, unless changes of an account
\* overlapped (admin/router.py:301-321, org/router.py:350-367).
THEOREM ProfilesFollowRoles == Spec => []ProfileFollowsRole
<1>1. IInv => ProfileFollowsRole
  BY DEF IInv
<1>2. QED
  BY <1>1, Invariance, PTL
=============================================================================
