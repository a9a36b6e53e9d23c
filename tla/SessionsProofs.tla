--------------------------- MODULE SessionsProofs ---------------------------
(***************************************************************************)
(* Proofs about Sessions, for every number of requests, browsers, accounts *)
(* and tokens.  Each property is made inductive by saying what a request   *)
(* past its check may rely on (its ticket).                                *)
(***************************************************************************)
EXTENDS Sessions, FiniteSetTheorems, TLAPS

\* An active request has a browser, a login presents no token and the
\* requests that look one up present one.
RequestOK ==
    /\ \A p \in Procs : pc[p] # "idle" => br[p] \in Browsers
    /\ \A p \in Procs :
          pc[p] \in {"refresh_record", "refresh_user", "revoke",
                     "logout_record", "logout_revoke"} => tok[p] \in issued
    /\ \A p \in Procs :
          pc[p] \in {"google_select", "bind", "dev_select"} => tok[p] = None

\* A refresh about to issue has its old token's revocation committed.
RevokedFirst ==
    \A p \in Procs : pc[p] = "issue" /\ tok[p] # None => tok[p] \in revoked

\* A refresh past the revoked_at check has issued no successor of its token.
RefreshTicket ==
    \A p \in Procs : \A c \in issued :
        /\ pc[p] \in {"refresh_user", "revoke", "issue"}
        /\ tok[p] # None
        /\ parent[c] = tok[p]
        => issuer[c] # p

\* A request past the is_active check has issued no late pair for its
\* account, and an active account has no late pairs.
ActiveTicket ==
    /\ \A t \in late : owner[t] \in Users => ~active[owner[t]]
    /\ \A p \in Procs : \A t \in late :
          /\ \/ pc[p] \in {"revoke", "issue"}
             \/ pc[p] = "bind" /\ loaded[p]
          /\ owner[t] = who[p]
          => issuer[t] # p

\* A token is known to one browser only, and an undelivered one to none.
SingleHolder ==
    /\ \A b1, b2 \in Browsers : jar[b1] = jar[b2] /\ jar[b1] # None => b1 = b2
    /\ \A b \in Browsers, p \in Procs :
          tok[p] # None /\ tok[p] = jar[b] => br[p] = b
    /\ \A p, q \in Procs : tok[p] # None /\ tok[p] = tok[q] => br[p] = br[q]
    /\ \A p \in Procs : fresh[p] # None =>
          /\ fresh[p] \notin revoked
          /\ \A b \in Browsers : jar[b] # fresh[p]
          /\ \A q \in Procs : tok[q] # fresh[p]
          /\ \A q \in Procs : fresh[q] = fresh[p] => q = p
    /\ \A p \in Procs : pc[p] = "set_cookies" => fresh[p] # None

WhoOK ==
    \A p \in Procs : pc[p] \in {"google_select", "bind", "dev_select",
                                "refresh_record", "refresh_user", "revoke",
                                "issue"} => who[p] \in Users
OwnerOK == \A t \in issued : owner[t] \in Users /\ issuer[t] \in Procs

Shape == TypeOK /\ RequestOK /\ WhoOK /\ OwnerOK

IInv == /\ Shape
        /\ RevokedFirst /\ ParentRevoked
        /\ RefreshTicket /\ SuccessorPerRequest
        /\ ActiveTicket /\ LateIssueBounded
        /\ SingleHolder /\ NotStranded
-----------------------------------------------------------------------------
\* Types, and what an active request carries, are preserved by every step.
LEMMA ShapeStep ==
  ASSUME Shape, [Next]_vars
  PROVE  Shape'
<1> USE NoneAssumption DEF vars, dbVars, reqVars, histVars, Shape, TypeOK,
      RequestOK, WhoOK, OwnerOK, Labels
<1>1. ASSUME NEW p \in Procs, NEW b \in Browsers,
            NEW u \in Users, NEW s \in Subs,
            BeginGoogleLogin(p, b, u, s)
     PROVE  Shape'
  BY <1>1 DEF BeginGoogleLogin, Arrive
<1>2. ASSUME NEW p \in Procs,
            GoogleSelect(p)
     PROVE  Shape'
  <2>1. CASE pc[p] = "google_select" /\ Reject(p)
    BY <1>2, <2>1 DEF Reject, Finish
  <2>2. CASE Proceed(p, "issue", TRUE)
    BY <1>2, <2>2 DEF GoogleSelect, Proceed
  <2>3. CASE Proceed(p, "bind", active[who[p]])
    BY <1>2, <2>3 DEF GoogleSelect, Proceed
  <2>4. QED
    BY <1>2, <2>1, <2>2, <2>3 DEF GoogleSelect
<1>3. ASSUME NEW p \in Procs,
            BindSub(p)
     PROVE  Shape'
  <2>1. CASE Finish(p)
    BY <1>3, <2>1 DEF BindSub, Finish
  <2>2. CASE ~Finish(p)
    BY <1>3, <2>2 DEF BindSub
  <2>3. QED
    BY <1>3, <2>1, <2>2 DEF BindSub
<1>4. ASSUME NEW p \in Procs, NEW b \in Browsers, NEW u \in Users,
            BeginDevLogin(p, b, u)
     PROVE  Shape'
  BY <1>4 DEF BeginDevLogin, Arrive
<1>5. ASSUME NEW p \in Procs,
            DevSelect(p)
     PROVE  Shape'
  <2>1. CASE Reject(p)
    BY <1>5, <2>1 DEF DevSelect, Reject, Finish
  <2>2. CASE Proceed(p, "issue", TRUE)
    BY <1>5, <2>2 DEF DevSelect, Proceed
  <2>3. QED
    BY <1>5, <2>1, <2>2 DEF DevSelect
<1>6. ASSUME NEW p \in Procs, NEW b \in Browsers,
            BeginRefresh(p, b)
     PROVE  Shape'
  BY <1>6 DEF BeginRefresh, Arrive
<1>7. ASSUME NEW p \in Procs,
            RefreshRecord(p)
     PROVE  Shape'
  <2>1. CASE Reject(p)
    BY <1>7, <2>1 DEF RefreshRecord, Reject, Finish
  <2>2. CASE Usable(tok[p]) /\ Proceed(p, "refresh_user", loaded[p])
    BY <1>7, <2>2 DEF RefreshRecord, Proceed, Usable
  <2>3. QED
    BY <1>7, <2>1, <2>2 DEF RefreshRecord
<1>8. ASSUME NEW p \in Procs,
            RefreshUser(p)
     PROVE  Shape'
  <2>1. CASE Reject(p)
    BY <1>8, <2>1 DEF RefreshUser, Reject, Finish
  <2>2. CASE Proceed(p, "revoke", TRUE)
    BY <1>8, <2>2 DEF RefreshUser, Proceed
  <2>3. QED
    BY <1>8, <2>1, <2>2 DEF RefreshUser
<1>9. ASSUME NEW p \in Procs,
            RevokeOld(p)
     PROVE  Shape'
  BY <1>9 DEF RevokeOld, Goto
<1>10. ASSUME NEW p \in Procs, NEW t \in Tokens,
             IssueTokenPair(p, t)
      PROVE  Shape'
  BY <1>10 DEF IssueTokenPair, Goto
<1>11. ASSUME NEW p \in Procs,
             SetCookies(p)
      PROVE  Shape'
  BY <1>11 DEF SetCookies, Finish
<1>12. ASSUME NEW p \in Procs, NEW b \in Browsers,
             BeginLogout(p, b)
      PROVE  Shape'
  BY <1>12 DEF BeginLogout, Arrive
<1>13. ASSUME NEW p \in Procs,
             LogoutRecord(p)
      PROVE  Shape'
  BY <1>13 DEF LogoutRecord, Goto
<1>14. ASSUME NEW p \in Procs,
             LogoutRevoke(p)
      PROVE  Shape'
  BY <1>14 DEF LogoutRevoke, Goto
<1>15. ASSUME NEW p \in Procs,
             ClearCookies(p)
      PROVE  Shape'
  BY <1>15 DEF ClearCookies, Finish
<1>16. ASSUME NEW p \in Procs,
             Abort(p)
      PROVE  Shape'
  BY <1>16 DEF Abort, Finish
<1>17. ASSUME NEW t \in Tokens,
             Expire(t)
      PROVE  Shape'
  BY <1>17 DEF Expire
<1>18. ASSUME NEW u \in Users, NEW a \in BOOLEAN,
             SetActive(u, a)
      PROVE  Shape'
  BY <1>18 DEF SetActive
<1>19. CASE UNCHANGED vars
  BY <1>19
<1> HIDE DEF vars, dbVars, reqVars, histVars, Shape, TypeOK, RequestOK, WhoOK, OwnerOK, Labels
<1>20. QED
  BY <1>1, <1>2, <1>3, <1>4, <1>5, <1>6, <1>7, <1>8, <1>9, <1>10,
     <1>11, <1>12, <1>13, <1>14, <1>15, <1>16, <1>17, <1>18, <1>19
     DEF Next, Login, Refresh, Logout

\* Revocation is committed before the successor is inserted.
LEMMA RotationStep ==
  ASSUME Shape, RevokedFirst, ParentRevoked, [Next]_vars
  PROVE  (RevokedFirst /\ ParentRevoked)'
<1> USE NoneAssumption DEF vars, dbVars, reqVars, histVars, Shape, TypeOK,
      RequestOK, RevokedFirst, ParentRevoked
<1>1. ASSUME NEW p \in Procs, NEW b \in Browsers,
            NEW u \in Users, NEW s \in Subs,
            BeginGoogleLogin(p, b, u, s)
     PROVE  (RevokedFirst /\ ParentRevoked)'
  BY <1>1 DEF BeginGoogleLogin, Arrive
<1>2. ASSUME NEW p \in Procs,
            GoogleSelect(p)
     PROVE  (RevokedFirst /\ ParentRevoked)'
  <2>1. CASE pc[p] = "google_select" /\ Reject(p)
    BY <1>2, <2>1 DEF Reject, Finish
  <2>2. CASE Proceed(p, "issue", TRUE)
    BY <1>2, <2>2 DEF GoogleSelect, Proceed
  <2>3. CASE Proceed(p, "bind", active[who[p]])
    BY <1>2, <2>3 DEF GoogleSelect, Proceed
  <2>4. QED
    BY <1>2, <2>1, <2>2, <2>3 DEF GoogleSelect
<1>3. ASSUME NEW p \in Procs,
            BindSub(p)
     PROVE  (RevokedFirst /\ ParentRevoked)'
  <2>1. CASE Finish(p)
    BY <1>3, <2>1 DEF BindSub, Finish
  <2>2. CASE ~Finish(p)
    BY <1>3, <2>2 DEF BindSub
  <2>3. QED
    BY <1>3, <2>1, <2>2 DEF BindSub
<1>4. ASSUME NEW p \in Procs, NEW b \in Browsers, NEW u \in Users,
            BeginDevLogin(p, b, u)
     PROVE  (RevokedFirst /\ ParentRevoked)'
  BY <1>4 DEF BeginDevLogin, Arrive
<1>5. ASSUME NEW p \in Procs,
            DevSelect(p)
     PROVE  (RevokedFirst /\ ParentRevoked)'
  <2>1. CASE Reject(p)
    BY <1>5, <2>1 DEF DevSelect, Reject, Finish
  <2>2. CASE Proceed(p, "issue", TRUE)
    BY <1>5, <2>2 DEF DevSelect, Proceed
  <2>3. QED
    BY <1>5, <2>1, <2>2 DEF DevSelect
<1>6. ASSUME NEW p \in Procs, NEW b \in Browsers,
            BeginRefresh(p, b)
     PROVE  (RevokedFirst /\ ParentRevoked)'
  BY <1>6 DEF BeginRefresh, Arrive
<1>7. ASSUME NEW p \in Procs,
            RefreshRecord(p)
     PROVE  (RevokedFirst /\ ParentRevoked)'
  <2>1. CASE Reject(p)
    BY <1>7, <2>1 DEF RefreshRecord, Reject, Finish
  <2>2. CASE Usable(tok[p]) /\ Proceed(p, "refresh_user", loaded[p])
    BY <1>7, <2>2 DEF RefreshRecord, Proceed, Usable
  <2>3. QED
    BY <1>7, <2>1, <2>2 DEF RefreshRecord
<1>8. ASSUME NEW p \in Procs,
            RefreshUser(p)
     PROVE  (RevokedFirst /\ ParentRevoked)'
  <2>1. CASE Reject(p)
    BY <1>8, <2>1 DEF RefreshUser, Reject, Finish
  <2>2. CASE Proceed(p, "revoke", TRUE)
    BY <1>8, <2>2 DEF RefreshUser, Proceed
  <2>3. QED
    BY <1>8, <2>1, <2>2 DEF RefreshUser
<1>9. ASSUME NEW p \in Procs,
            RevokeOld(p)
     PROVE  (RevokedFirst /\ ParentRevoked)'
  BY <1>9 DEF RevokeOld, Goto
<1>10. ASSUME NEW p \in Procs, NEW t \in Tokens,
             IssueTokenPair(p, t)
      PROVE  (RevokedFirst /\ ParentRevoked)'
  BY <1>10 DEF IssueTokenPair, Goto
<1>11. ASSUME NEW p \in Procs,
             SetCookies(p)
      PROVE  (RevokedFirst /\ ParentRevoked)'
  BY <1>11 DEF SetCookies, Finish
<1>12. ASSUME NEW p \in Procs, NEW b \in Browsers,
             BeginLogout(p, b)
      PROVE  (RevokedFirst /\ ParentRevoked)'
  BY <1>12 DEF BeginLogout, Arrive
<1>13. ASSUME NEW p \in Procs,
             LogoutRecord(p)
      PROVE  (RevokedFirst /\ ParentRevoked)'
  BY <1>13 DEF LogoutRecord, Goto
<1>14. ASSUME NEW p \in Procs,
             LogoutRevoke(p)
      PROVE  (RevokedFirst /\ ParentRevoked)'
  BY <1>14 DEF LogoutRevoke, Goto
<1>15. ASSUME NEW p \in Procs,
             ClearCookies(p)
      PROVE  (RevokedFirst /\ ParentRevoked)'
  BY <1>15 DEF ClearCookies, Finish
<1>16. ASSUME NEW p \in Procs,
             Abort(p)
      PROVE  (RevokedFirst /\ ParentRevoked)'
  BY <1>16 DEF Abort, Finish
<1>17. ASSUME NEW t \in Tokens,
             Expire(t)
      PROVE  (RevokedFirst /\ ParentRevoked)'
  BY <1>17 DEF Expire
<1>18. ASSUME NEW u \in Users, NEW a \in BOOLEAN,
             SetActive(u, a)
      PROVE  (RevokedFirst /\ ParentRevoked)'
  BY <1>18 DEF SetActive
<1>19. CASE UNCHANGED vars
  BY <1>19
<1> HIDE DEF vars, dbVars, reqVars, histVars, Shape, TypeOK, RequestOK, RevokedFirst,
      ParentRevoked
<1>20. QED
  BY <1>1, <1>2, <1>3, <1>4, <1>5, <1>6, <1>7, <1>8, <1>9, <1>10,
     <1>11, <1>12, <1>13, <1>14, <1>15, <1>16, <1>17, <1>18, <1>19
     DEF Next, Login, Refresh, Logout

\* A request takes its ticket while the token has no successor (it is not
\* revoked) and spends it on the one it inserts.
LEMMA TicketStep ==
  ASSUME Shape, ParentRevoked, RefreshTicket, SuccessorPerRequest, [Next]_vars
  PROVE  (RefreshTicket /\ SuccessorPerRequest)'
<1> USE NoneAssumption DEF vars, dbVars, reqVars, histVars, Shape, TypeOK,
      RequestOK, ParentRevoked, RefreshTicket, SuccessorPerRequest
<1>1. ASSUME NEW p \in Procs, NEW b \in Browsers,
            NEW u \in Users, NEW s \in Subs,
            BeginGoogleLogin(p, b, u, s)
     PROVE  (RefreshTicket /\ SuccessorPerRequest)'
  BY <1>1 DEF BeginGoogleLogin, Arrive
<1>2. ASSUME NEW p \in Procs,
            GoogleSelect(p)
     PROVE  (RefreshTicket /\ SuccessorPerRequest)'
  <2>1. CASE pc[p] = "google_select" /\ Reject(p)
    BY <1>2, <2>1 DEF Reject, Finish
  <2>2. CASE Proceed(p, "issue", TRUE)
    BY <1>2, <2>2 DEF GoogleSelect, Proceed
  <2>3. CASE Proceed(p, "bind", active[who[p]])
    BY <1>2, <2>3 DEF GoogleSelect, Proceed
  <2>4. QED
    BY <1>2, <2>1, <2>2, <2>3 DEF GoogleSelect
<1>3. ASSUME NEW p \in Procs,
            BindSub(p)
     PROVE  (RefreshTicket /\ SuccessorPerRequest)'
  <2>1. CASE Finish(p)
    BY <1>3, <2>1 DEF BindSub, Finish
  <2>2. CASE ~Finish(p)
    BY <1>3, <2>2 DEF BindSub
  <2>3. QED
    BY <1>3, <2>1, <2>2 DEF BindSub
<1>4. ASSUME NEW p \in Procs, NEW b \in Browsers, NEW u \in Users,
            BeginDevLogin(p, b, u)
     PROVE  (RefreshTicket /\ SuccessorPerRequest)'
  BY <1>4 DEF BeginDevLogin, Arrive
<1>5. ASSUME NEW p \in Procs,
            DevSelect(p)
     PROVE  (RefreshTicket /\ SuccessorPerRequest)'
  <2>1. CASE Reject(p)
    BY <1>5, <2>1 DEF DevSelect, Reject, Finish
  <2>2. CASE Proceed(p, "issue", TRUE)
    BY <1>5, <2>2 DEF DevSelect, Proceed
  <2>3. QED
    BY <1>5, <2>1, <2>2 DEF DevSelect
<1>6. ASSUME NEW p \in Procs, NEW b \in Browsers,
            BeginRefresh(p, b)
     PROVE  (RefreshTicket /\ SuccessorPerRequest)'
  BY <1>6 DEF BeginRefresh, Arrive
<1>7. ASSUME NEW p \in Procs,
            RefreshRecord(p)
     PROVE  (RefreshTicket /\ SuccessorPerRequest)'
  <2>1. CASE Reject(p)
    BY <1>7, <2>1 DEF RefreshRecord, Reject, Finish
  <2>2. CASE Usable(tok[p]) /\ Proceed(p, "refresh_user", loaded[p])
    BY <1>7, <2>2 DEF RefreshRecord, Proceed, Usable
  <2>3. QED
    BY <1>7, <2>1, <2>2 DEF RefreshRecord
<1>8. ASSUME NEW p \in Procs,
            RefreshUser(p)
     PROVE  (RefreshTicket /\ SuccessorPerRequest)'
  <2>1. CASE Reject(p)
    BY <1>8, <2>1 DEF RefreshUser, Reject, Finish
  <2>2. CASE Proceed(p, "revoke", TRUE)
    BY <1>8, <2>2 DEF RefreshUser, Proceed
  <2>3. QED
    BY <1>8, <2>1, <2>2 DEF RefreshUser
<1>9. ASSUME NEW p \in Procs,
            RevokeOld(p)
     PROVE  (RefreshTicket /\ SuccessorPerRequest)'
  BY <1>9 DEF RevokeOld, Goto
<1>10. ASSUME NEW p \in Procs, NEW t \in Tokens,
             IssueTokenPair(p, t)
      PROVE  (RefreshTicket /\ SuccessorPerRequest)'
  BY <1>10 DEF IssueTokenPair, Goto
<1>11. ASSUME NEW p \in Procs,
             SetCookies(p)
      PROVE  (RefreshTicket /\ SuccessorPerRequest)'
  BY <1>11 DEF SetCookies, Finish
<1>12. ASSUME NEW p \in Procs, NEW b \in Browsers,
             BeginLogout(p, b)
      PROVE  (RefreshTicket /\ SuccessorPerRequest)'
  BY <1>12 DEF BeginLogout, Arrive
<1>13. ASSUME NEW p \in Procs,
             LogoutRecord(p)
      PROVE  (RefreshTicket /\ SuccessorPerRequest)'
  BY <1>13 DEF LogoutRecord, Goto
<1>14. ASSUME NEW p \in Procs,
             LogoutRevoke(p)
      PROVE  (RefreshTicket /\ SuccessorPerRequest)'
  BY <1>14 DEF LogoutRevoke, Goto
<1>15. ASSUME NEW p \in Procs,
             ClearCookies(p)
      PROVE  (RefreshTicket /\ SuccessorPerRequest)'
  BY <1>15 DEF ClearCookies, Finish
<1>16. ASSUME NEW p \in Procs,
             Abort(p)
      PROVE  (RefreshTicket /\ SuccessorPerRequest)'
  BY <1>16 DEF Abort, Finish
<1>17. ASSUME NEW t \in Tokens,
             Expire(t)
      PROVE  (RefreshTicket /\ SuccessorPerRequest)'
  BY <1>17 DEF Expire
<1>18. ASSUME NEW u \in Users, NEW a \in BOOLEAN,
             SetActive(u, a)
      PROVE  (RefreshTicket /\ SuccessorPerRequest)'
  BY <1>18 DEF SetActive
<1>19. CASE UNCHANGED vars
  BY <1>19
<1> HIDE DEF vars, dbVars, reqVars, histVars, Shape, TypeOK, RequestOK, ParentRevoked,
      RefreshTicket, SuccessorPerRequest
<1>20. QED
  BY <1>1, <1>2, <1>3, <1>4, <1>5, <1>6, <1>7, <1>8, <1>9, <1>10,
     <1>11, <1>12, <1>13, <1>14, <1>15, <1>16, <1>17, <1>18, <1>19
     DEF Next, Login, Refresh, Logout

\* The same argument for the is_active check: a request takes its ticket while
\* the account is active and has no late pairs.
LEMMA ActiveStep ==
  ASSUME Shape, ActiveTicket, LateIssueBounded, [Next]_vars
  PROVE  (ActiveTicket /\ LateIssueBounded)'
<1> USE NoneAssumption DEF vars, dbVars, reqVars, histVars, Shape, TypeOK,
      RequestOK, WhoOK, OwnerOK, ActiveTicket, LateIssueBounded
<1>1. ASSUME NEW p \in Procs, NEW b \in Browsers,
            NEW u \in Users, NEW s \in Subs,
            BeginGoogleLogin(p, b, u, s)
     PROVE  (ActiveTicket /\ LateIssueBounded)'
  BY <1>1 DEF BeginGoogleLogin, Arrive
<1>2. ASSUME NEW p \in Procs,
            GoogleSelect(p)
     PROVE  (ActiveTicket /\ LateIssueBounded)'
  <2>0. who[p] \in Users
    BY <1>2 DEF GoogleSelect
  <2>1. CASE pc[p] = "google_select" /\ Reject(p)
    BY <1>2, <2>1 DEF Reject, Finish
  <2>2. CASE active[who[p]] /\ Proceed(p, "issue", TRUE)
    <3>1. \A t \in late : owner[t] # who[p]
      BY <2>0, <2>2
    <3>2. UNCHANGED <<late, owner, issuer, active, who>>
      BY <2>2 DEF Proceed
    <3>3. \A q \in Procs : q # p => pc'[q] = pc[q] /\ loaded'[q] = loaded[q]
      BY <2>2 DEF Proceed
    <3>4. QED
      BY <3>1, <3>2, <3>3
  <2>3. CASE Proceed(p, "bind", active[who[p]])
    BY <1>2, <2>3 DEF GoogleSelect, Proceed
  <2>4. QED
    BY <1>2, <2>1, <2>2, <2>3 DEF GoogleSelect
<1>3. ASSUME NEW p \in Procs,
            BindSub(p)
     PROVE  (ActiveTicket /\ LateIssueBounded)'
  <2>1. CASE Finish(p)
    BY <1>3, <2>1 DEF BindSub, Finish
  <2>2. CASE ~Finish(p)
    BY <1>3, <2>2 DEF BindSub
  <2>3. QED
    BY <1>3, <2>1, <2>2 DEF BindSub
<1>4. ASSUME NEW p \in Procs, NEW b \in Browsers, NEW u \in Users,
            BeginDevLogin(p, b, u)
     PROVE  (ActiveTicket /\ LateIssueBounded)'
  BY <1>4 DEF BeginDevLogin, Arrive
<1>5. ASSUME NEW p \in Procs,
            DevSelect(p)
     PROVE  (ActiveTicket /\ LateIssueBounded)'
  <2>0. who[p] \in Users
    BY <1>5 DEF DevSelect
  <2>1. CASE Reject(p)
    BY <1>5, <2>1 DEF DevSelect, Reject, Finish
  <2>2. CASE active[who[p]] /\ Proceed(p, "issue", TRUE)
    <3>1. \A t \in late : owner[t] # who[p]
      BY <2>0, <2>2
    <3>2. UNCHANGED <<late, owner, issuer, active, who>>
      BY <2>2 DEF Proceed
    <3>3. \A q \in Procs : q # p => pc'[q] = pc[q] /\ loaded'[q] = loaded[q]
      BY <2>2 DEF Proceed
    <3>4. QED
      BY <3>1, <3>2, <3>3
  <2>3. QED
    BY <1>5, <2>1, <2>2 DEF DevSelect
<1>6. ASSUME NEW p \in Procs, NEW b \in Browsers,
            BeginRefresh(p, b)
     PROVE  (ActiveTicket /\ LateIssueBounded)'
  BY <1>6 DEF BeginRefresh, Arrive
<1>7. ASSUME NEW p \in Procs,
            RefreshRecord(p)
     PROVE  (ActiveTicket /\ LateIssueBounded)'
  <2>1. CASE Reject(p)
    BY <1>7, <2>1 DEF RefreshRecord, Reject, Finish
  <2>2. CASE Usable(tok[p]) /\ Proceed(p, "refresh_user", loaded[p])
    BY <1>7, <2>2 DEF RefreshRecord, Proceed, Usable
  <2>3. QED
    BY <1>7, <2>1, <2>2 DEF RefreshRecord
<1>8. ASSUME NEW p \in Procs,
            RefreshUser(p)
     PROVE  (ActiveTicket /\ LateIssueBounded)'
  <2>0. who[p] \in Users
    BY <1>8 DEF RefreshUser
  <2>1. CASE Reject(p)
    BY <1>8, <2>1 DEF RefreshUser, Reject, Finish
  <2>2. CASE active[who[p]] /\ Proceed(p, "revoke", TRUE)
    <3>1. \A t \in late : owner[t] # who[p]
      BY <2>0, <2>2
    <3>2. UNCHANGED <<late, owner, issuer, active, who>>
      BY <2>2 DEF Proceed
    <3>3. \A q \in Procs : q # p => pc'[q] = pc[q] /\ loaded'[q] = loaded[q]
      BY <2>2 DEF Proceed
    <3>4. QED
      BY <3>1, <3>2, <3>3
  <2>3. QED
    BY <1>8, <2>1, <2>2 DEF RefreshUser
<1>9. ASSUME NEW p \in Procs,
            RevokeOld(p)
     PROVE  (ActiveTicket /\ LateIssueBounded)'
  BY <1>9 DEF RevokeOld, Goto
<1>10. ASSUME NEW p \in Procs, NEW t \in Tokens,
             IssueTokenPair(p, t)
      PROVE  (ActiveTicket /\ LateIssueBounded)'
  BY <1>10 DEF IssueTokenPair, Goto
<1>11. ASSUME NEW p \in Procs,
             SetCookies(p)
      PROVE  (ActiveTicket /\ LateIssueBounded)'
  BY <1>11 DEF SetCookies, Finish
<1>12. ASSUME NEW p \in Procs, NEW b \in Browsers,
             BeginLogout(p, b)
      PROVE  (ActiveTicket /\ LateIssueBounded)'
  BY <1>12 DEF BeginLogout, Arrive
<1>13. ASSUME NEW p \in Procs,
             LogoutRecord(p)
      PROVE  (ActiveTicket /\ LateIssueBounded)'
  BY <1>13 DEF LogoutRecord, Goto
<1>14. ASSUME NEW p \in Procs,
             LogoutRevoke(p)
      PROVE  (ActiveTicket /\ LateIssueBounded)'
  BY <1>14 DEF LogoutRevoke, Goto
<1>15. ASSUME NEW p \in Procs,
             ClearCookies(p)
      PROVE  (ActiveTicket /\ LateIssueBounded)'
  BY <1>15 DEF ClearCookies, Finish
<1>16. ASSUME NEW p \in Procs,
             Abort(p)
      PROVE  (ActiveTicket /\ LateIssueBounded)'
  BY <1>16 DEF Abort, Finish
<1>17. ASSUME NEW t \in Tokens,
             Expire(t)
      PROVE  (ActiveTicket /\ LateIssueBounded)'
  BY <1>17 DEF Expire
<1>18. ASSUME NEW u \in Users, NEW a \in BOOLEAN,
             SetActive(u, a)
      PROVE  (ActiveTicket /\ LateIssueBounded)'
  BY <1>18 DEF SetActive
<1>19. CASE UNCHANGED vars
  BY <1>19
<1> HIDE DEF vars, dbVars, reqVars, histVars, Shape, TypeOK, RequestOK, WhoOK, OwnerOK,
      ActiveTicket, LateIssueBounded
<1>20. QED
  BY <1>1, <1>2, <1>3, <1>4, <1>5, <1>6, <1>7, <1>8, <1>9, <1>10,
     <1>11, <1>12, <1>13, <1>14, <1>15, <1>16, <1>17, <1>18, <1>19
     DEF Next, Login, Refresh, Logout

\* A new token is handed to one browser, and the request that revokes a
\* browser's token stays to answer that browser.
LEMMA HolderStep ==
  ASSUME Shape, SingleHolder, NotStranded, [Next]_vars
  PROVE  (SingleHolder /\ NotStranded)'
<1> USE NoneAssumption DEF vars, dbVars, reqVars, histVars, Shape, TypeOK,
      RequestOK, SingleHolder, NotStranded, Answering
<1>1. ASSUME NEW p \in Procs, NEW b \in Browsers,
            NEW u \in Users, NEW s \in Subs,
            BeginGoogleLogin(p, b, u, s)
     PROVE  (SingleHolder /\ NotStranded)'
  BY <1>1 DEF BeginGoogleLogin, Arrive
<1>2. ASSUME NEW p \in Procs,
            GoogleSelect(p)
     PROVE  (SingleHolder /\ NotStranded)'
  <2>1. CASE pc[p] = "google_select" /\ Reject(p)
    BY <1>2, <2>1 DEF Reject, Finish
  <2>2. CASE Proceed(p, "issue", TRUE)
    BY <1>2, <2>2 DEF GoogleSelect, Proceed
  <2>3. CASE Proceed(p, "bind", active[who[p]])
    BY <1>2, <2>3 DEF GoogleSelect, Proceed
  <2>4. QED
    BY <1>2, <2>1, <2>2, <2>3 DEF GoogleSelect
<1>3. ASSUME NEW p \in Procs,
            BindSub(p)
     PROVE  (SingleHolder /\ NotStranded)'
  <2>1. CASE Finish(p)
    BY <1>3, <2>1 DEF BindSub, Finish
  <2>2. CASE ~Finish(p)
    BY <1>3, <2>2 DEF BindSub
  <2>3. QED
    BY <1>3, <2>1, <2>2 DEF BindSub
<1>4. ASSUME NEW p \in Procs, NEW b \in Browsers, NEW u \in Users,
            BeginDevLogin(p, b, u)
     PROVE  (SingleHolder /\ NotStranded)'
  BY <1>4 DEF BeginDevLogin, Arrive
<1>5. ASSUME NEW p \in Procs,
            DevSelect(p)
     PROVE  (SingleHolder /\ NotStranded)'
  <2>1. CASE Reject(p)
    BY <1>5, <2>1 DEF DevSelect, Reject, Finish
  <2>2. CASE Proceed(p, "issue", TRUE)
    BY <1>5, <2>2 DEF DevSelect, Proceed
  <2>3. QED
    BY <1>5, <2>1, <2>2 DEF DevSelect
<1>6. ASSUME NEW p \in Procs, NEW b \in Browsers,
            BeginRefresh(p, b)
     PROVE  (SingleHolder /\ NotStranded)'
  BY <1>6 DEF BeginRefresh, Arrive
<1>7. ASSUME NEW p \in Procs,
            RefreshRecord(p)
     PROVE  (SingleHolder /\ NotStranded)'
  <2>1. CASE Reject(p)
    BY <1>7, <2>1 DEF RefreshRecord, Reject, Finish
  <2>2. CASE Usable(tok[p]) /\ Proceed(p, "refresh_user", loaded[p])
    BY <1>7, <2>2 DEF RefreshRecord, Proceed, Usable
  <2>3. QED
    BY <1>7, <2>1, <2>2 DEF RefreshRecord
<1>8. ASSUME NEW p \in Procs,
            RefreshUser(p)
     PROVE  (SingleHolder /\ NotStranded)'
  <2>1. CASE Reject(p)
    BY <1>8, <2>1 DEF RefreshUser, Reject, Finish
  <2>2. CASE Proceed(p, "revoke", TRUE)
    BY <1>8, <2>2 DEF RefreshUser, Proceed
  <2>3. QED
    BY <1>8, <2>1, <2>2 DEF RefreshUser
<1>9. ASSUME NEW p \in Procs,
            RevokeOld(p)
     PROVE  (SingleHolder /\ NotStranded)'
  BY <1>9 DEF RevokeOld, Goto
<1>10. ASSUME NEW p \in Procs, NEW t \in Tokens,
             IssueTokenPair(p, t)
      PROVE  (SingleHolder /\ NotStranded)'
  BY <1>10 DEF IssueTokenPair, Goto
<1>11. ASSUME NEW p \in Procs,
             SetCookies(p)
      PROVE  (SingleHolder /\ NotStranded)'
  BY <1>11 DEF SetCookies, Finish
<1>12. ASSUME NEW p \in Procs, NEW b \in Browsers,
             BeginLogout(p, b)
      PROVE  (SingleHolder /\ NotStranded)'
  BY <1>12 DEF BeginLogout, Arrive
<1>13. ASSUME NEW p \in Procs,
             LogoutRecord(p)
      PROVE  (SingleHolder /\ NotStranded)'
  BY <1>13 DEF LogoutRecord, Goto
<1>14. ASSUME NEW p \in Procs,
             LogoutRevoke(p)
      PROVE  (SingleHolder /\ NotStranded)'
  BY <1>14 DEF LogoutRevoke, Goto
<1>15. ASSUME NEW p \in Procs,
             ClearCookies(p)
      PROVE  (SingleHolder /\ NotStranded)'
  BY <1>15 DEF ClearCookies, Finish
<1>16. ASSUME NEW p \in Procs,
             Abort(p)
      PROVE  (SingleHolder /\ NotStranded)'
  BY <1>16 DEF Abort, Finish
<1>17. ASSUME NEW t \in Tokens,
             Expire(t)
      PROVE  (SingleHolder /\ NotStranded)'
  BY <1>17 DEF Expire
<1>18. ASSUME NEW u \in Users, NEW a \in BOOLEAN,
             SetActive(u, a)
      PROVE  (SingleHolder /\ NotStranded)'
  BY <1>18 DEF SetActive
<1>19. CASE UNCHANGED vars
  BY <1>19
<1> HIDE DEF vars, dbVars, reqVars, histVars, Shape, TypeOK, RequestOK, SingleHolder,
      NotStranded, Answering
<1>20. QED
  BY <1>1, <1>2, <1>3, <1>4, <1>5, <1>6, <1>7, <1>8, <1>9, <1>10,
     <1>11, <1>12, <1>13, <1>14, <1>15, <1>16, <1>17, <1>18, <1>19
     DEF Next, Login, Refresh, Logout

-----------------------------------------------------------------------------
\* The inductive invariant holds in every reachable state.
THEOREM Invariance == Spec => []IInv
<1>1. Init => IInv
  BY NoneAssumption
     DEF Init, IInv, Shape, TypeOK, RequestOK, WhoOK, OwnerOK, RevokedFirst,
         ParentRevoked, RefreshTicket, SuccessorPerRequest, ActiveTicket,
         LateIssueBounded, SingleHolder, NotStranded, Labels
<1>2. IInv /\ [Next]_vars => IInv'
  BY ShapeStep, RotationStep, TicketStep, ActiveStep, HolderStep DEF IInv
<1>3. QED
  BY <1>1, <1>2, PTL DEF Spec

\* Every variable keeps its type (the rows of refresh_tokens, the cookie jars
\* and what each request has loaded).
THEOREM TypeCorrect == Spec => []TypeOK
BY Invariance, PTL DEF IInv, Shape

\* The old token of a rotation is revoked in every state that holds the new
\* one (refresh_token commits before it calls _issue_token_pair).
THEOREM RevokeThenIssue == Spec => []ParentRevoked
BY Invariance, PTL DEF IInv

\* However many requests overlap, no request inserts two successors of one
\* refresh token.
THEOREM OneSuccessorPerRequest == Spec => []SuccessorPerRequest
BY Invariance, PTL DEF IInv

\* A browser holds a revoked token only while a request is about to replace
\* it, or after one of its requests died.
THEOREM NeverStranded == Spec => []NotStranded
BY Invariance, PTL DEF IInv

\* After an account is deactivated, each request that had already loaded it
\* issues at most one more pair, and no other request issues any.
THEOREM DeactivationBound == Spec => []LateIssueBounded
BY Invariance, PTL DEF IInv

\* The successors of a token are as many as the requests that issued them.
LEMMA SuccessorsBounded ==
  ASSUME IInv, IsFiniteSet(Procs), NEW t \in issued
  PROVE  Cardinality(Successors(t)) <= Cardinality(Procs)
<1> DEFINE f == [c \in Successors(t) |-> issuer[c]]
<1>1. \A c \in Successors(t) : issuer[c] \in Procs
  BY DEF IInv, Shape, OwnerOK, Successors
<1>2. \A c, d \in Successors(t) : issuer[c] = issuer[d] => c = d
  BY NoneAssumption DEF IInv, Shape, TypeOK, SuccessorPerRequest, Successors
<1>3. f \in Injection(Successors(t), Procs)
  BY <1>1, <1>2 DEF Injection, IsInjective
<1>4. QED
  BY <1>3, FS_Injection

\* When requests never overlap, a refresh token is exchanged at most once,
\* crashes and lost responses included.
THEOREM SerialRotation ==
  ASSUME IsFiniteSet(Procs), Cardinality(Procs) = 1
  PROVE  Spec => []SingleSuccessor
<1>1. IInv => SingleSuccessor
  BY SuccessorsBounded DEF SingleSuccessor
<1>2. QED
  BY <1>1, Invariance, PTL

\* A first login about to bind finds the account still unbound.
StillUnbound == \A p \in Procs : pc[p] = "bind" => sub[who[p]] = None

LEMMA UnboundStep ==
  ASSUME \A p, q \in Procs : p = q, TypeOK, StillUnbound, [Next]_vars
  PROVE  StillUnbound'
<1> USE DEF TypeOK, StillUnbound
<1>1. CASE UNCHANGED vars
  BY <1>1 DEF vars, dbVars, reqVars
<1>2. ASSUME NEW p \in Procs, Login(p)
      PROVE  StillUnbound'
  <2>1. CASE GoogleSelect(p)
    BY <2>1 DEF GoogleSelect, Reject, Finish, Proceed, dbVars
  <2>2. CASE BindSub(p)
    BY <2>2 DEF BindSub, Finish
  <2>3. CASE ~GoogleSelect(p) /\ ~BindSub(p)
    BY <1>2, <2>3
       DEF Login, BeginGoogleLogin, BeginDevLogin, Arrive, DevSelect, Reject, Finish, Proceed,
           dbVars
  <2>4. QED
    BY <2>1, <2>2, <2>3
<1>3. ASSUME NEW p \in Procs, Refresh(p)
      PROVE  StillUnbound'
  BY <1>3
     DEF Refresh, BeginRefresh, Arrive, RefreshRecord, RefreshUser, RevokeOld, IssueTokenPair,
         SetCookies, Goto, Reject, Finish, Proceed, dbVars, reqVars
<1>4. ASSUME NEW p \in Procs, Logout(p) \/ Abort(p)
      PROVE  StillUnbound'
  BY <1>4
     DEF Logout, BeginLogout, Arrive, LogoutRecord, LogoutRevoke, ClearCookies, Abort, Goto,
         Finish, dbVars, reqVars
<1>5. ASSUME \/ \E t \in Tokens : Expire(t)
             \/ \E u \in Users, a \in BOOLEAN : SetActive(u, a)
      PROVE  StillUnbound'
  BY <1>5 DEF Expire, SetActive, reqVars
<1> HIDE DEF TypeOK, StillUnbound
<1>6. QED
  BY <1>1, <1>2, <1>3, <1>4, <1>5 DEF Next

\* When requests never overlap, an account keeps the Google identity it was
\* first bound to (router.py:271-275), whatever dies on the way.
THEOREM SerialIdentity ==
  ASSUME \A p, q \in Procs : p = q
  PROVE  Spec => SubStable
<1> DEFINE A == \A u \in Users : sub[u] # None => sub'[u] = sub[u]
<1>1. Init => StillUnbound
  BY DEF Init, StillUnbound
<1>2. TypeOK /\ StillUnbound /\ [Next]_vars => StillUnbound'
  BY UnboundStep
<1>3. TypeOK /\ StillUnbound /\ [Next]_vars => [A]_vars
  <2> SUFFICES ASSUME TypeOK, StillUnbound, Next  PROVE A
    OBVIOUS
  <2>1. CASE \E p \in Procs : BindSub(p)
    BY <2>1 DEF BindSub, TypeOK, StillUnbound
  <2>2. CASE ~\E p \in Procs : BindSub(p)
    <3>1. sub' = sub
      BY <2>2
         DEF Next, Login, BeginGoogleLogin, GoogleSelect, BeginDevLogin, DevSelect, Arrive,
             Refresh, BeginRefresh, RefreshRecord, RefreshUser, RevokeOld, IssueTokenPair,
             SetCookies, Logout, BeginLogout, LogoutRecord, LogoutRevoke, ClearCookies, Abort,
             Expire, SetActive, Reject, Proceed, dbVars
    <3>2. QED
      BY <3>1
  <2>3. QED
    BY <2>1, <2>2
<1>4. QED
  BY <1>1, <1>2, <1>3, TypeCorrect, PTL DEF Spec, SubStable
=============================================================================
