------------------------- MODULE CredentialsSafety -------------------------
(***************************************************************************)
(* The safety properties of Credentials as theorems, for every set of       *)
(* accounts, requests, sessions, links and challenges.                      *)
(*                                                                          *)
(* None of them is inductive. SafetyInv adds what the row locks buy: which  *)
(* lock a request holds at each of its steps (Holds), what therefore stays  *)
(* true of the rows it has read until it commits (Pending, Owner, Rotating, *)
(* Redeeming), and the fact everything else turns on: whatever names an     *)
(* epoch of an account names a past one, or the account is active and its   *)
(* password is the one that was proved (Fresh).                             *)
(*                                                                          *)
(* LockInv adds the converse of Holds, who can be holding a row (HeldBy):   *)
(* from it follow the deadlocks the row locks allow and, with NameInv (whose *)
(* session a session id is), the operations among which there are none.     *)
(*                                                                          *)
(* The last part shows that Credentials implements AccountAccess, commit by *)
(* commit.                                                                  *)
(***************************************************************************)
EXTENDS CredentialsProofs

USE DEF rest

\* The row locks request r holds.
Holds(r) ==
    /\ pc[r] \in {"insert_commit", "audit_commit", "rotate_commit",
                  "reset_commit", "active_commit"} => user_lock[ctx[r].user] = r
    /\ pc[r] = "refresh_session" =>
         user_lock[ctx[r].user] = r \/ ~users[ctx[r].user].present
    /\ pc[r] \in {"rotate_commit", "revoke_commit", "logout_audit"} =>
         session_lock[ctx[r].sid] = r
    /\ pc[r] \in {"reset_user", "reset_commit"} => link_lock[ctx[r].link] = r
    /\ pc[r] \in {"purge_row", "purge_cascade"} =>
         \A u \in ctx[r].purging : user_lock[u] = r

\* A session about to be stored is one its account may have; its id is r's alone.
Pending(r) ==
    pc[r] = "insert_commit" =>
        /\ CanAuthenticate(ctx[r].user)
        /\ ctx[r].pw = users[ctx[r].user].password_hash
        /\ sessions[ctx[r].sid].row = "taken"
        /\ \A q \in Requests :
             pc[q] = "insert_commit" /\ ctx[q].sid = ctx[r].sid => q = r

\* A refresh works on the session's owner.
Owner(r) ==
    pc[r] \in {"refresh_user", "refresh_session"} =>
        /\ sessions[ctx[r].sid].row \in {"stored", "deleted"}
        /\ sessions[ctx[r].sid].user = ctx[r].user

\* A rotation about to commit replaces the token it was given.
Rotating(r) ==
    pc[r] = "rotate_commit" =>
        Live(ctx[r].sid) /\ sessions[ctx[r].sid].version = ctx[r].version

\* A reset about to commit still has its link to spend.
Redeeming(r) ==
    /\ pc[r] \in {"reset_user", "reset_commit"} =>
         /\ links[ctx[r].link].row = "stored"
         /\ links[ctx[r].link].user = ctx[r].user
    /\ pc[r] = "reset_commit" => ~links[ctx[r].link].used

\* An epoch of u that is not a past one vouches for u and for the password.
Fresh(u, epoch, pw) ==
    /\ epoch <= users[u].auth_epoch
    /\ epoch = users[u].auth_epoch =>
         users[u].is_active /\ pw = users[u].password_hash

\* What a request carries of an epoch, and of the Redis flag.
Vouched(r) ==
    /\ pc[r] \in {"verify_consume", "verify_factor", "enroll"} =>
         Fresh(ctx[r].user, ctx[r].epoch, ctx[r].pw)
    /\ pc[r] \in {"refresh_user", "refresh_session"} /\ ctx[r].mfa =>
         ctx[r].sid \in factor_proven

RequestInv(r) ==
    Holds(r) /\ Pending(r) /\ Owner(r) /\ Rotating(r) /\ Redeeming(r) /\ Vouched(r)

FreshTokens == \A t \in access_tokens : Fresh(t.user, t.epoch, t.pw)

FreshChallenges ==
    \A c \in ChallengeIds : challenges[c].state = "open" =>
        Fresh(challenges[c].user, challenges[c].epoch, challenges[c].pw)

FlagEarned == mfa_completed \subseteq factor_proven

SafetyInv ==
    /\ TypeInv
    /\ \A r \in Requests : RequestInv(r)
    /\ FreshTokens /\ FreshChallenges /\ FlagEarned
    /\ NoStaleSession /\ NoStaleLink /\ MfaClaimEarned

-----------------------------------------------------------------------------
(* What the request that takes a step knows after it.                       *)

LEMMA AtIdle ==
    ASSUME NEW r \in Requests, pc'[r] = "idle"
    PROVE  RequestInv(r)'
BY DEF RequestInv, Holds, Pending, Owner, Rotating, Redeeming, Vouched

LEMMA Went ==
    ASSUME TypeInv, NEW r \in Requests, NEW label, NEW c, Go(r, label, c)
    PROVE  pc'[r] = label /\ ctx'[r] = c
BY DEF Go, TypeInv, TypeReqs

LEMMA Done ==
    ASSUME TypeInv, NEW r \in Requests, Finish(r)
    PROVE  RequestInv(r)'
BY Went, AtIdle DEF Finish

LEMMA LockUserTaken ==
    ASSUME TypeInv, NEW r \in Requests, NEW u \in Users, LockUser(r, u)
    PROVE  user_lock[u] = Nil /\ user_lock'[u] = r
BY DEF LockUser, Lockable, Free, TypeInv, TypeLocks

LEMMA MintSessionKnows ==
    ASSUME SafetyInv, NEW r \in Requests, NEW s \in SessionIds, NEW i \in Stamps,
           NEW mfa, ctx[r].user \in Users, CanAuthenticate(ctx[r].user),
           ctx[r].pw = users[ctx[r].user].password_hash, pc[r] # "insert_commit",
           LockUser(r, ctx[r].user), MintSession(r, ctx[r].user, s, i, mfa, ctx[r].pw),
           UNCHANGED users
    PROVE  RequestInv(r)'
<1> DEFINE c == [ctx[r] EXCEPT !.sid = s, !.iat = i]
<1>1. ctx[r] \in Context
  BY DEF SafetyInv, TypeInv, TypeReqs
<1>2. pc'[r] = "insert_commit" /\ ctx'[r] = c
  BY Went DEF MintSession, SafetyInv
<1>3. c.user = ctx[r].user /\ c.sid = s /\ c.pw = ctx[r].pw
  BY <1>1 DEF Context
<1>4. user_lock'[c.user] = r
  BY <1>3, LockUserTaken DEF SafetyInv
<1>5. Holds(r)'
  BY <1>2, <1>4 DEF Holds
<1>6. sessions[s].row = "unused" /\ sessions'[s].row = "taken"
  BY DEF MintSession, SafetyInv, TypeInv, TypeRows, Session
<1>7. ASSUME NEW q \in Requests, q # r, pc'[q] = "insert_commit", ctx'[q].sid = s
      PROVE  FALSE
  <2>1. pc[q] = "insert_commit" /\ ctx[q].sid = s
    BY <1>7 DEF MintSession, Go, SafetyInv, TypeInv, TypeReqs
  <2> QED BY <2>1, <1>6 DEF SafetyInv, RequestInv, Pending
<1>8. Pending(r)'
  BY <1>2, <1>3, <1>6, <1>7 DEF Pending, CanAuthenticate
<1> QED BY <1>2, <1>5, <1>8 DEF RequestInv, Owner, Rotating, Redeeming, Vouched

LEMMA LoginKnows ==
    ASSUME SafetyInv, NEW r \in Requests,
           \/ \E u \in Users : LoginRead(r, u)
           \/ \E s \in SessionIds, i \in Stamps : LoginMint(r, s, i)
           \/ \E c \in ChallengeIds : LoginChallenge(r, c)
    PROVE  RequestInv(r)'
<1>1. ASSUME NEW u \in Users, LoginRead(r, u) PROVE RequestInv(r)'
  <2>1. pc'[r] = "login_lock"
    BY <1>1, Went DEF LoginRead, SafetyInv
  <2> QED BY <2>1
     DEF RequestInv, Holds, Pending, Owner, Rotating, Redeeming, Vouched
<1>2. ASSUME NEW s \in SessionIds, NEW i \in Stamps, LoginMint(r, s, i)
      PROVE  RequestInv(r)'
  <2>1. ctx[r].user \in Users /\ pc[r] # "insert_commit"
    BY <1>2, ContextType DEF LoginMint, NamesOf, SafetyInv
  <2> QED BY <1>2, <2>1, MintSessionKnows DEF LoginMint, LoginRecheck
<1>3. ASSUME NEW c \in ChallengeIds, LoginChallenge(r, c) PROVE RequestInv(r)'
  <2>1. ctx[r].user \in Users
    BY <1>3, ContextType DEF LoginChallenge, NamesOf, SafetyInv
  <2>2. pc'[r] = "audit_commit" /\ ctx'[r] = ctx[r]
    BY <1>3, Went DEF LoginChallenge, SafetyInv
  <2>3. user_lock'[ctx[r].user] = r
    BY <1>3, <2>1, LockUserTaken DEF LoginChallenge, SafetyInv
  <2> QED BY <2>2, <2>3
     DEF RequestInv, Holds, Pending, Owner, Rotating, Redeeming, Vouched
<1> QED BY <1>1, <1>2, <1>3

LEMMA VerifyKnows ==
    ASSUME SafetyInv, NEW r \in Requests,
           \/ \E c \in ChallengeIds : VerifyResolve(r, c)
           \/ VerifyConsume(r)
           \/ \E s \in SessionIds, i \in Stamps : CompleteMfaLogin(r, s, i)
    PROVE  RequestInv(r)'
<1>1. ASSUME NEW c \in ChallengeIds, VerifyResolve(r, c) PROVE RequestInv(r)'
  <2> DEFINE x == [Blank EXCEPT !.user = challenges[c].user, !.challenge = c,
                                !.epoch = challenges[c].epoch, !.pw = challenges[c].pw]
  <2>1. pc'[r] = "verify_consume" /\ ctx'[r] = x
    BY <1>1, Went DEF VerifyResolve, SafetyInv
  <2>2. /\ x.user = challenges[c].user /\ x.epoch = challenges[c].epoch
        /\ x.pw = challenges[c].pw
    BY DEF Blank
  <2>3. Fresh(x.user, x.epoch, x.pw) /\ users' = users
    BY <1>1, <2>2 DEF VerifyResolve, SafetyInv, FreshChallenges, db
  <2>4. Vouched(r)'
    BY <2>1, <2>3 DEF Vouched, Fresh
  <2> QED BY <2>1, <2>4 DEF RequestInv, Holds, Pending, Owner, Rotating, Redeeming
<1>2. ASSUME VerifyConsume(r) PROVE RequestInv(r)'
  <2>1. CASE Go(r, "verify_factor", ctx[r])
    <3>1. pc'[r] = "verify_factor" /\ ctx'[r] = ctx[r]
      BY <2>1, Went DEF SafetyInv
    <3>2. Fresh(ctx[r].user, ctx[r].epoch, ctx[r].pw) /\ users' = users
      BY <1>2 DEF VerifyConsume, SafetyInv, RequestInv, Vouched, db
    <3>3. Vouched(r)'
      BY <3>1, <3>2 DEF Vouched, Fresh
    <3> QED BY <3>1, <3>3 DEF RequestInv, Holds, Pending, Owner, Rotating, Redeeming
  <2>2. CASE Finish(r)
    BY <2>2, Done DEF SafetyInv
  <2> QED BY <1>2, <2>1, <2>2 DEF VerifyConsume
<1>3. ASSUME NEW s \in SessionIds, NEW i \in Stamps, CompleteMfaLogin(r, s, i)
      PROVE  RequestInv(r)'
  <2>1. ctx[r].user \in Users /\ pc[r] # "insert_commit"
    BY <1>3, ContextType DEF CompleteMfaLogin, NamesOf, SafetyInv
  <2>2. ctx[r].pw = users[ctx[r].user].password_hash
    BY <1>3 DEF CompleteMfaLogin, CompleteRecheck, SafetyInv, RequestInv, Vouched, Fresh
  <2> QED BY <1>3, <2>1, <2>2, MintSessionKnows DEF CompleteMfaLogin, CompleteRecheck
<1> QED BY <1>1, <1>2, <1>3

LEMMA RefreshPeekKnows ==
    ASSUME SafetyInv, NEW r \in Requests, NEW t \in refresh_tokens, RefreshPeek(r, t)
    PROVE  RequestInv(r)'
<1> DEFINE c == [Blank EXCEPT !.user = sessions[t.sid].user, !.sid = t.sid,
                              !.version = t.version, !.iat = t.iat,
                              !.mfa = (t.sid \in mfa_completed)]
<1>1. pc'[r] = "refresh_user" /\ ctx'[r] = c
  BY Went DEF RefreshPeek, SafetyInv
<1>2. c.user = sessions[t.sid].user /\ c.sid = t.sid /\ c.mfa = (t.sid \in mfa_completed)
  BY DEF Blank
<1>3. sessions[t.sid].row = "stored" /\ sessions' = sessions
      /\ factor_proven' = factor_proven
  BY DEF RefreshPeek, Stored, db
<1>4. Owner(r)'
  BY <1>1, <1>2, <1>3 DEF Owner
<1>5. Vouched(r)'
  BY <1>1, <1>2, <1>3 DEF Vouched, SafetyInv, FlagEarned
<1> QED BY <1>1, <1>4, <1>5 DEF RequestInv, Holds, Pending, Rotating, Redeeming

LEMMA RefreshLockUserKnows ==
    ASSUME SafetyInv, NEW r \in Requests, RefreshLockUser(r)
    PROVE  RequestInv(r)'
<1>1. ctx[r].user \in Users
  BY ContextType DEF RefreshLockUser, NamesOf, SafetyInv
<1>2. pc'[r] = "refresh_session" /\ ctx'[r] = ctx[r]
  BY Went DEF RefreshLockUser, SafetyInv
<1>3. Holds(r)'
  BY <1>1, <1>2, LockUserTaken DEF RefreshLockUser, Holds, SafetyInv, db
<1>4. Owner(r)' /\ Vouched(r)'
  BY <1>2 DEF RefreshLockUser, SafetyInv, RequestInv, Owner, Vouched, db
<1> QED BY <1>2, <1>3, <1>4 DEF RequestInv, Pending, Rotating, Redeeming

LEMMA LockSessionTaken ==
    ASSUME TypeInv, NEW r \in Requests, RefreshLockSession(r)
    PROVE  /\ ctx[r].sid \in SessionIds /\ ctx[r].user \in Users
           /\ session_lock[ctx[r].sid] = Nil /\ session_lock'[ctx[r].sid] = r
           /\ user_lock' = user_lock /\ pc[r] = "refresh_session"
<1>1. ctx[r].sid \in SessionIds /\ ctx[r].user \in Users
  BY ContextType DEF RefreshLockSession, NamesOf, SidLabels
<1> QED BY <1>1 DEF RefreshLockSession, Free, TypeInv, TypeLocks

LEMMA RefreshEndsKnow ==
    ASSUME SafetyInv, NEW r \in Requests,
           RefreshTerminate(r) \/ \E i \in Stamps : RefreshMint(r, i)
    PROVE  RequestInv(r)'
<1>1. CASE RefreshTerminate(r)
  <2>1. pc'[r] = "revoke_commit" /\ ctx'[r] = ctx[r]
    BY <1>1, Went DEF RefreshTerminate, SafetyInv
  <2>2. session_lock'[ctx[r].sid] = r
    BY <1>1, LockSessionTaken DEF RefreshTerminate, SafetyInv
  <2> QED BY <2>1, <2>2
     DEF RequestInv, Holds, Pending, Owner, Rotating, Redeeming, Vouched
<1>2. ASSUME NEW i \in Stamps, RefreshMint(r, i) PROVE RequestInv(r)'
  <2> DEFINE c == [ctx[r] EXCEPT !.iat = i]
  <2>1. pc'[r] = "rotate_commit" /\ ctx'[r] = c
    BY <1>2, Went DEF RefreshMint, SafetyInv
  <2>2. c.user = ctx[r].user /\ c.sid = ctx[r].sid /\ c.version = ctx[r].version
    BY DEF SafetyInv, TypeInv, TypeReqs, Context
  <2>3. RefreshLockSession(r) /\ sessions' = sessions
    BY <1>2 DEF RefreshMint, db
  <2>4. user_lock[ctx[r].user] = r
    BY <1>2, <2>3, LockSessionTaken
       DEF RefreshMint, CanAuthenticate, SafetyInv, RequestInv, Holds
  <2>5. Holds(r)'
    BY <2>1, <2>2, <2>3, <2>4, LockSessionTaken DEF Holds, SafetyInv
  <2>6. Rotating(r)'
    BY <1>2, <2>1, <2>2, <2>3 DEF RefreshMint, AuthorizeRotation, Rotating, Live, Stored
  <2> QED BY <2>1, <2>5, <2>6 DEF RequestInv, Pending, Owner, Redeeming, Vouched
<1> QED BY <1>1, <1>2

LEMMA LogoutLockKnows ==
    ASSUME SafetyInv, NEW r \in Requests, NEW t \in access_tokens, LogoutLock(r, t)
    PROVE  RequestInv(r)'
<1> DEFINE c == [Blank EXCEPT !.user = sessions[t.sid].user, !.sid = t.sid]
<1>1. pc'[r] = "logout_audit" /\ ctx'[r] = c
  BY Went DEF LogoutLock, SafetyInv
<1>2. c.sid = t.sid /\ t.sid \in SessionIds
  BY DEF Blank, SafetyInv, TypeInv, TypeTokens, AccessToken
<1>3. session_lock'[t.sid] = r
  BY <1>2 DEF LogoutLock, SafetyInv, TypeInv, TypeLocks
<1> QED BY <1>1, <1>2, <1>3
   DEF RequestInv, Holds, Pending, Owner, Rotating, Redeeming, Vouched

LEMMA ResetKnows ==
    ASSUME SafetyInv, NEW r \in Requests,
           \/ \E u \in Users : RequestResetRead(r, u)
           \/ \E k \in ResetIds : ResetLockLink(r, k)
           \/ ResetLockUser(r)
    PROVE  RequestInv(r)'
<1>1. ASSUME NEW u \in Users, RequestResetRead(r, u) PROVE RequestInv(r)'
  <2>1. pc'[r] = "request_insert"
    BY <1>1, Went DEF RequestResetRead, SafetyInv
  <2> QED BY <2>1
     DEF RequestInv, Holds, Pending, Owner, Rotating, Redeeming, Vouched
<1>2. ASSUME NEW k \in ResetIds, ResetLockLink(r, k) PROVE RequestInv(r)'
  <2> DEFINE c == [Blank EXCEPT !.user = links[k].user, !.link = k]
  <2>1. pc'[r] = "reset_user" /\ ctx'[r] = c
    BY <1>2, Went DEF ResetLockLink, SafetyInv
  <2>2. c.user = links[k].user /\ c.link = k
    BY DEF Blank
  <2>3. link_lock'[k] = r /\ links' = links /\ links[k].row = "stored"
    BY <1>2 DEF ResetLockLink, SafetyInv, TypeInv, TypeLocks, db
  <2>4. Holds(r)' /\ Redeeming(r)'
    BY <2>1, <2>2, <2>3 DEF Holds, Redeeming
  <2> QED BY <2>1, <2>4 DEF RequestInv, Pending, Owner, Rotating, Vouched
<1>3. ASSUME ResetLockUser(r) PROVE RequestInv(r)'
  <2>1. ctx[r].user \in Users
    BY <1>3, ContextType DEF ResetLockUser, NamesOf, SafetyInv
  <2>2. pc'[r] = "reset_commit" /\ ctx'[r] = ctx[r]
    BY <1>3, Went DEF ResetLockUser, SafetyInv
  <2>3. user_lock'[ctx[r].user] = r
    BY <1>3, <2>1, LockUserTaken DEF ResetLockUser, SafetyInv
  <2>4. link_lock'[ctx[r].link] = r /\ links' = links
    BY <1>3 DEF ResetLockUser, SafetyInv, RequestInv, Holds, db
  <2>5. Holds(r)'
    BY <2>2, <2>3, <2>4 DEF Holds
  <2>6. Redeeming(r)'
    BY <1>3, <2>2, <2>4
       DEF ResetLockUser, ResetAllowed, Redeeming, SafetyInv, RequestInv
  <2> QED BY <2>2, <2>5, <2>6 DEF RequestInv, Pending, Owner, Rotating, Vouched
<1> QED BY <1>1, <1>2, <1>3

LEMMA AdminKnows ==
    ASSUME SafetyInv, NEW r \in Requests,
           \/ \E a \in Users \cup {Nil}, u \in Users : SetActiveLock(r, a, u)
           \/ \E t \in access_tokens : EnrollClaims(r, t)
           \/ EnrollMint(r)
    PROVE  RequestInv(r)'
<1>1. ASSUME NEW a, NEW u \in Users, SetActiveLock(r, a, u) PROVE RequestInv(r)'
  <2> DEFINE c == [Blank EXCEPT !.user = u, !.actor = a]
  <2>1. pc'[r] = "active_commit" /\ ctx'[r] = c /\ c.user = u
    BY <1>1, Went DEF SetActiveLock, SafetyInv, Blank
  <2>2. user_lock'[u] = r
    BY <1>1, LockUserTaken DEF SetActiveLock, SafetyInv
  <2> QED BY <2>1, <2>2
     DEF RequestInv, Holds, Pending, Owner, Rotating, Redeeming, Vouched
<1>2. ASSUME NEW t \in access_tokens, EnrollClaims(r, t) PROVE RequestInv(r)'
  <2> DEFINE c == [Blank EXCEPT !.user = t.user, !.sid = t.sid,
                                !.epoch = t.epoch, !.pw = t.pw]
  <2>1. pc'[r] = "enroll" /\ ctx'[r] = c /\ users' = users
    BY <1>2, Went DEF EnrollClaims, SafetyInv, db
  <2>2. c.user = t.user /\ c.epoch = t.epoch /\ c.pw = t.pw
    BY DEF Blank
  <2>3. Fresh(c.user, c.epoch, c.pw)
    BY <2>2 DEF SafetyInv, FreshTokens
  <2>4. Vouched(r)'
    BY <2>1, <2>3 DEF Vouched, Fresh
  <2> QED BY <2>1, <2>4 DEF RequestInv, Holds, Pending, Owner, Rotating, Redeeming
<1>3. ASSUME EnrollMint(r) PROVE RequestInv(r)'
  <2>1. pc'[r] = "enroll_commit"
    BY <1>3, Went DEF EnrollMint, SafetyInv
  <2> QED BY <2>1
     DEF RequestInv, Holds, Pending, Owner, Rotating, Redeeming, Vouched
<1> QED BY <1>1, <1>2, <1>3

LEMMA PurgeKnows ==
    ASSUME SafetyInv, NEW r \in Requests,
           (\E u \in Users : PurgeBegin(r, u)) \/ PurgeRow(r)
    PROVE  RequestInv(r)'
<1>1. ASSUME NEW u \in Users, PurgeBegin(r, u) PROVE RequestInv(r)'
  <2> DEFINE c == [Blank EXCEPT !.user = u]
  <2>1. pc'[r] = "purge_row" /\ ctx'[r] = c /\ c.purging = {}
    BY <1>1, Went DEF PurgeBegin, SafetyInv, Blank
  <2> QED BY <2>1
     DEF RequestInv, Holds, Pending, Owner, Rotating, Redeeming, Vouched
<1>2. ASSUME PurgeRow(r) PROVE RequestInv(r)'
  <2> DEFINE u == ctx[r].user
             purging == ctx[r].purging \cup (IF users[u].present THEN {u} ELSE {})
  <2>1. u \in Users /\ ctx[r] \in Context /\ pc[r] = "purge_row"
    BY <1>2, ContextType DEF PurgeRow, NamesOf, SafetyInv
  <2>2. \A v \in ctx[r].purging : v \in Users /\ user_lock[v] = r
    BY <2>1 DEF SafetyInv, RequestInv, Holds, Context
  <2>3. \A v \in purging : user_lock'[v] = r
    <3>1. CASE users[u].present
      <4>1. LockUser(r, u)
        BY <1>2, <3>1 DEF PurgeRow
      <4>2. user_lock'[u] = r /\ \A v \in Users \ {u} : user_lock'[v] = user_lock[v]
        BY <2>1, <4>1 DEF LockUser, SafetyInv, TypeInv, TypeLocks
      <4> QED BY <2>2, <3>1, <4>2
    <3>2. CASE ~users[u].present
      BY <1>2, <2>2, <3>2 DEF PurgeRow
    <3> QED BY <3>1, <3>2
  <2>4. PICK label \in {"purge_row", "purge_cascade"}, w \in Users :
          Go(r, label, [ctx[r] EXCEPT !.user = w, !.purging = purging])
    <3>1. [ctx[r] EXCEPT !.purging = purging]
            = [ctx[r] EXCEPT !.user = u, !.purging = purging]
      BY <2>1 DEF Context
    <3> QED BY <1>2, <2>1, <3>1 DEF PurgeRow
  <2>5. pc'[r] = label /\ ctx'[r].purging = purging
    <3> HIDE DEF purging
    <3>1. pc'[r] = label /\ ctx'[r] = [ctx[r] EXCEPT !.user = w, !.purging = purging]
      BY <2>4, Went DEF SafetyInv
    <3> QED BY <2>1, <3>1 DEF Context
  <2>6. Holds(r)'
    BY <2>3, <2>5 DEF Holds
  <2> QED BY <2>5, <2>6 DEF RequestInv, Pending, Owner, Rotating, Redeeming, Vouched
<1> QED BY <1>1, <1>2

\* Whatever step r takes, RequestInv holds of r after it.
LEMMA ActorKnows ==
    ASSUME SafetyInv, NEW r \in Requests, Begin(r) \/ Continue(r) \/ Rollback(r)
    PROVE  RequestInv(r)'
<1>1. CASE Begin(r)
  BY <1>1, LoginKnows, VerifyKnows, RefreshPeekKnows, LogoutLockKnows, ResetKnows,
     AdminKnows, PurgeKnows DEF Begin
<1>2. ASSUME Finish(r) PROVE RequestInv(r)'
  BY <1>2, Done DEF SafetyInv
<1>3. CASE Continue(r)
  <2>1. CASE \/ LoginRefused(r) \/ InsertCommit(r) \/ AuditCommit(r)
             \/ CompleteRefused(r) \/ RefreshRefused(r) \/ RotateCommit(r)
             \/ RevokeCommit(r) \/ LogoutCommit(r) \/ ResetRefused(r)
             \/ ResetCommit(r) \/ SetActiveCommit(r) \/ EnrollCommit(r)
             \/ PurgeCommit(r) \/ \E k \in ResetIds : RequestResetInsert(r, k)
    BY <1>2, <2>1
       DEF LoginRefused, InsertCommit, AuditCommit, CompleteRefused, RefreshRefused,
           RotateCommit, RevokeCommit, LogoutCommit, ResetRefused, ResetCommit,
           SetActiveCommit, EnrollCommit, PurgeCommit, RequestResetInsert
  <2> QED
    BY <1>3, <2>1, LoginKnows, VerifyKnows, RefreshLockUserKnows, RefreshEndsKnow,
       ResetKnows, AdminKnows, PurgeKnows DEF Continue
<1> QED BY <1>1, <1>2, <1>3 DEF Rollback

-----------------------------------------------------------------------------
(* What a step leaves to the requests that do not take it.                  *)

\* r moves; it takes locks nobody holds and releases its own.
MovesAlone(r) ==
    /\ \A q \in Requests \ {r} : pc'[q] = pc[q] /\ ctx'[q] = ctx[q]
    /\ \A u \in Users : user_lock[u] \in {Nil, r} \/ user_lock'[u] = user_lock[u]
    /\ \A s \in SessionIds :
         session_lock[s] \in {Nil, r} \/ session_lock'[s] = session_lock[s]
    /\ \A k \in ResetIds : link_lock[k] \in {Nil, r} \/ link_lock'[k] = link_lock[k]

LEMMA GoAlone ==
    ASSUME TypeInv, NEW r \in Requests, NEW label, NEW c, Go(r, label, c),
           \/ UNCHANGED locks
           \/ \E u : LockUser(r, u) /\ UNCHANGED <<session_lock, link_lock>>
           \/ \E s : /\ Free(session_lock, s)
                     /\ session_lock' = [session_lock EXCEPT ![s] = r]
                     /\ UNCHANGED <<user_lock, link_lock>>
           \/ \E k : /\ Free(link_lock, k)
                     /\ link_lock' = [link_lock EXCEPT ![k] = r]
                     /\ UNCHANGED <<user_lock, session_lock>>
    PROVE  MovesAlone(r)
<1>1. \A q \in Requests \ {r} : pc'[q] = pc[q] /\ ctx'[q] = ctx[q]
  BY DEF Go, TypeInv, TypeReqs
<1>2. /\ \A u \in Users : user_lock[u] \in {Nil, r} \/ user_lock'[u] = user_lock[u]
      /\ \A s \in SessionIds :
           session_lock[s] \in {Nil, r} \/ session_lock'[s] = session_lock[s]
      /\ \A k \in ResetIds : link_lock[k] \in {Nil, r} \/ link_lock'[k] = link_lock[k]
  BY DEF LockUser, Lockable, Free, locks, TypeInv, TypeLocks
<1> QED BY <1>1, <1>2 DEF MovesAlone

LEMMA FinishAlone ==
    ASSUME TypeInv, NEW r \in Requests, Finish(r)
    PROVE  MovesAlone(r)
<1>1. \A q \in Requests \ {r} : pc'[q] = pc[q] /\ ctx'[q] = ctx[q]
  BY DEF Finish, Go, TypeInv, TypeReqs
<1>2. /\ \A u \in Users : user_lock[u] = r \/ user_lock'[u] = user_lock[u]
      /\ \A s \in SessionIds : session_lock[s] = r \/ session_lock'[s] = session_lock[s]
      /\ \A k \in ResetIds : link_lock[k] = r \/ link_lock'[k] = link_lock[k]
  BY DEF Finish
<1> QED BY <1>1, <1>2 DEF MovesAlone

LEMMA StepsAlone ==
    ASSUME TypeInv, NEW r \in Requests, Begin(r) \/ Continue(r) \/ Rollback(r)
    PROVE  MovesAlone(r)
<1>1. CASE Begin(r)
  BY <1>1, GoAlone
     DEF Begin, LoginRead, VerifyResolve, RefreshPeek, LogoutLock, RequestResetRead,
         ResetLockLink, SetActiveLock, EnrollClaims, PurgeBegin, locks
<1>2. CASE Continue(r)
  <2>1. CASE \/ LoginRefused(r) \/ InsertCommit(r) \/ AuditCommit(r)
             \/ CompleteRefused(r) \/ RefreshRefused(r) \/ RotateCommit(r)
             \/ RevokeCommit(r) \/ LogoutCommit(r) \/ ResetRefused(r)
             \/ ResetCommit(r) \/ SetActiveCommit(r) \/ EnrollCommit(r)
             \/ PurgeCommit(r) \/ \E k \in ResetIds : RequestResetInsert(r, k)
    BY <2>1, FinishAlone
       DEF LoginRefused, InsertCommit, AuditCommit, CompleteRefused, RefreshRefused,
           RotateCommit, RevokeCommit, LogoutCommit, ResetRefused, ResetCommit,
           SetActiveCommit, EnrollCommit, PurgeCommit, RequestResetInsert
  <2>2. CASE \E s \in SessionIds, i \in Stamps :
               LoginMint(r, s, i) \/ CompleteMfaLogin(r, s, i)
    BY <2>2, GoAlone DEF LoginMint, CompleteMfaLogin, MintSession
  <2>3. CASE \/ \E c \in ChallengeIds : LoginChallenge(r, c)
             \/ ResetLockUser(r) \/ RefreshLockUser(r)
    BY <2>3, GoAlone DEF LoginChallenge, ResetLockUser, RefreshLockUser, locks
  <2>4. CASE VerifyConsume(r) \/ EnrollMint(r)
    BY <2>4, GoAlone, FinishAlone DEF VerifyConsume, EnrollMint
  <2>5. CASE RefreshTerminate(r) \/ \E i \in Stamps : RefreshMint(r, i)
    BY <2>5, GoAlone DEF RefreshTerminate, RefreshMint, RefreshLockSession
  <2>6. CASE PurgeRow(r)
    BY <2>6, GoAlone DEF PurgeRow, locks
  <2> QED BY <1>2, <2>1, <2>2, <2>3, <2>4, <2>5, <2>6 DEF Continue
<1>3. CASE Rollback(r)
  BY <1>3, FinishAlone DEF Rollback
<1> QED BY <1>1, <1>2, <1>3

-----------------------------------------------------------------------------
(* What a step does to the rows.                                            *)

LEMMA StepKinds ==
    ASSUME NEW r \in Requests, Begin(r) \/ Continue(r) \/ Rollback(r)
    PROVE  \/ UNCHANGED db
           \/ \E s \in SessionIds, i \in Stamps :
                LoginMint(r, s, i) \/ CompleteMfaLogin(r, s, i)
           \/ InsertCommit(r) \/ RotateCommit(r) \/ RevokeCommit(r) \/ LogoutCommit(r)
           \/ \E k \in ResetIds : RequestResetInsert(r, k)
           \/ ResetCommit(r) \/ SetActiveCommit(r) \/ EnrollCommit(r)
           \/ PurgeCommit(r)
<1>1. CASE Begin(r)
  BY <1>1 DEF Begin, LoginRead, VerifyResolve, RefreshPeek, LogoutLock,
              RequestResetRead, ResetLockLink, SetActiveLock, EnrollClaims, PurgeBegin
<1>2. CASE Continue(r)
  <2>1. CASE \/ LoginRefused(r) \/ AuditCommit(r) \/ CompleteRefused(r)
             \/ RefreshRefused(r) \/ ResetRefused(r) \/ VerifyConsume(r)
             \/ RefreshLockUser(r) \/ RefreshTerminate(r) \/ ResetLockUser(r)
             \/ EnrollMint(r) \/ PurgeRow(r)
             \/ \E i \in Stamps : RefreshMint(r, i)
             \/ \E c \in ChallengeIds : LoginChallenge(r, c)
    BY <2>1
       DEF LoginRefused, AuditCommit, CompleteRefused, RefreshRefused, ResetRefused,
           VerifyConsume, RefreshLockUser, RefreshTerminate, ResetLockUser,
           EnrollMint, RefreshMint, LoginChallenge, PurgeRow
  <2> QED BY <1>2, <2>1 DEF Continue
<1>3. CASE Rollback(r)
  BY <1>3 DEF Rollback
<1> QED BY <1>1, <1>2, <1>3

\* The four fields of an account that credentials depend on.
SameAccount(u) ==
    /\ users'[u].present = users[u].present
    /\ users'[u].is_active = users[u].is_active
    /\ users'[u].auth_epoch = users[u].auth_epoch
    /\ users'[u].password_hash = users[u].password_hash

\* The row is removed; what it held last matters only to those who read it before.
Removed(u) ==
    /\ ~users'[u].present
    /\ users'[u].is_active = users[u].is_active
    /\ users'[u].auth_epoch = users[u].auth_epoch
    /\ users'[u].password_hash = users[u].password_hash

LEMMA PurgeAccounts ==
    ASSUME SafetyInv, NEW r \in Requests, PurgeCommit(r), NEW u \in Users
    PROVE  \/ SameAccount(u)
           \/ u \in ctx[r].purging /\ user_lock[u] = r /\ Removed(u)
<1>1. users[u] \in User /\ pc[r] = "purge_cascade"
  BY DEF SafetyInv, TypeInv, TypeRows, PurgeCommit
<1>2. users'[u] = IF u \in ctx[r].purging THEN [users[u] EXCEPT !.present = FALSE]
                                          ELSE users[u]
  BY DEF PurgeCommit
<1> QED BY <1>1, <1>2
   DEF SafetyInv, RequestInv, Holds, Removed, SameAccount, User

\* A request changes an account only under its lock, and then moves the epoch,
\* activates an inactive account or removes it.
LEMMA AccountEffect ==
    ASSUME SafetyInv, NEW r \in Requests, Begin(r) \/ Continue(r) \/ Rollback(r),
           NEW u \in Users
    PROVE  \/ SameAccount(u)
           \/ /\ user_lock[u] = r
              /\ pc[r] \in {"reset_commit", "active_commit"}
              /\ users'[u].present = users[u].present
              /\ \/ users'[u].auth_epoch = users[u].auth_epoch + 1
                 \/ ~users[u].is_active /\ users'[u].auth_epoch = users[u].auth_epoch
           \/ /\ user_lock[u] = r /\ pc[r] = "purge_cascade"
              /\ u \in ctx[r].purging /\ Removed(u)
<1>1. users[u] \in User /\ users \in [Users -> User]
  BY DEF SafetyInv, TypeInv, TypeRows
<1>2. CASE users' = users
  BY <1>2 DEF SameAccount
<1>3. CASE ResetCommit(r)
  <2>1. ctx[r].user \in Users /\ user_lock[ctx[r].user] = r /\ pc[r] = "reset_commit"
    BY <1>3, ContextType DEF ResetCommit, SafetyInv, NamesOf, RequestInv, Holds
  <2> QED BY <1>1, <1>3, <2>1 DEF ResetCommit, ChangePassword, SameAccount, User
<1>4. CASE SetActiveCommit(r)
  <2>1. ctx[r].user \in Users /\ user_lock[ctx[r].user] = r /\ pc[r] = "active_commit"
    BY <1>4, ContextType DEF SetActiveCommit, SafetyInv, NamesOf, RequestInv, Holds
  <2> QED BY <1>1, <1>4, <2>1
     DEF SetActiveCommit, Deactivate, Activate, SameAccount, User
<1>5. CASE EnrollCommit(r)
  <2>1. \A v \in Users : users'[v].present = users[v].present
                        /\ users'[v].is_active = users[v].is_active
                        /\ users'[v].auth_epoch = users[v].auth_epoch
                        /\ users'[v].password_hash = users[v].password_hash
    BY <1>1, <1>5 DEF EnrollCommit, User
  <2> QED BY <2>1 DEF SameAccount
<1>6. CASE PurgeCommit(r)
  BY <1>6, PurgeAccounts DEF PurgeCommit
<1> QED BY <1>2, <1>3, <1>4, <1>5, <1>6, StepKinds
   DEF db, LoginMint, CompleteMfaLogin, InsertCommit, RotateCommit, RevokeCommit,
       LogoutCommit, RequestResetInsert

\* Which requests those are.
LEMMA AccountChanges ==
    ASSUME SafetyInv, NEW r \in Requests, Begin(r) \/ Continue(r) \/ Rollback(r),
           NEW u \in Users
    PROVE  \/ SameAccount(u)
           \/ (ResetCommit(r) \/ SetActiveCommit(r)) /\ ctx[r].user = u
           \/ PurgeCommit(r) /\ u \in ctx[r].purging /\ Removed(u)
<1>1. users[u] \in User /\ users \in [Users -> User]
  BY DEF SafetyInv, TypeInv, TypeRows
<1>2. CASE users' = users
  BY <1>2 DEF SameAccount
<1>3. CASE ResetCommit(r)
  BY <1>1, <1>3 DEF ResetCommit, ChangePassword, SameAccount
<1>4. CASE SetActiveCommit(r)
  BY <1>1, <1>4 DEF SetActiveCommit, Deactivate, Activate, SameAccount
<1>5. CASE EnrollCommit(r)
  BY <1>1, <1>5 DEF EnrollCommit, User, SameAccount
<1>6. CASE PurgeCommit(r)
  BY <1>6, PurgeAccounts
<1> QED BY <1>2, <1>3, <1>4, <1>5, <1>6, StepKinds
   DEF db, LoginMint, CompleteMfaLogin, InsertCommit, RotateCommit, RevokeCommit,
       LogoutCommit, RequestResetInsert

\* Only a reset changes a password.
LEMMA HashChanges ==
    ASSUME SafetyInv, NEW r \in Requests, Begin(r) \/ Continue(r) \/ Rollback(r),
           NEW u \in Users, ~(ResetCommit(r) /\ ctx[r].user = u)
    PROVE  users'[u].password_hash = users[u].password_hash
<1>1. users[u] \in User /\ users \in [Users -> User]
  BY DEF SafetyInv, TypeInv, TypeRows
<1>2. CASE SameAccount(u)
  BY <1>2 DEF SameAccount
<1>3. CASE SetActiveCommit(r)
  BY <1>1, <1>3 DEF SetActiveCommit, Deactivate, Activate, User
<1>4. CASE Removed(u)
  BY <1>4 DEF Removed
<1> QED BY <1>2, <1>3, <1>4, AccountChanges

\* A request changes a session that is there only under its lock.
LEMMA SessionEffect ==
    ASSUME SafetyInv, NEW r \in Requests, Begin(r) \/ Continue(r) \/ Rollback(r),
           NEW s \in SessionIds
    PROVE  \/ sessions'[s] = sessions[s]
           \/ sessions[s].row = "unused" /\ sessions'[s].row = "taken"
           \/ InsertCommit(r) /\ ctx[r].sid = s
           \/ /\ RotateCommit(r) /\ ctx[r].sid = s
              /\ sessions'[s] = [sessions[s] EXCEPT !.version = @ + 1,
                                                    !.iat = ctx[r].iat]
           \/ /\ session_lock[s] \in {Nil, r} /\ pc[r] # "rotate_commit"
              /\ sessions'[s] = [sessions[s] EXCEPT !.revoked = TRUE]
           \/ /\ session_lock[s] = Nil /\ PurgeCommit(r) /\ Stored(s)
              /\ sessions[s].user \in ctx[r].purging
              /\ sessions'[s] = [sessions[s] EXCEPT !.row = "deleted"]
<1>1. sessions[s] \in Session /\ sessions \in [SessionIds -> Session]
  BY DEF SafetyInv, TypeInv, TypeRows
<1>2. CASE sessions' = sessions
  BY <1>2
<1>3. ASSUME NEW x \in SessionIds, NEW i \in Stamps,
             LoginMint(r, x, i) \/ CompleteMfaLogin(r, x, i)
      PROVE  \/ sessions'[s] = sessions[s]
             \/ sessions[s].row = "unused" /\ sessions'[s].row = "taken"
  <2>1. sessions[x].row = "unused" /\ sessions' = [sessions EXCEPT ![x].row = "taken"]
    BY <1>3 DEF LoginMint, CompleteMfaLogin, MintSession
  <2>2. CASE x = s
    <3>1. sessions'[s] = [sessions[s] EXCEPT !.row = "taken"]
      BY <1>1, <2>1, <2>2
    <3>2. sessions'[s].row = "taken"
      BY <1>1, <3>1 DEF Session
    <3> QED BY <2>1, <2>2, <3>2
  <2>3. CASE x # s
    BY <1>1, <2>1, <2>3
  <2> QED BY <2>2, <2>3
<1>4. CASE InsertCommit(r) \/ RotateCommit(r)
  BY <1>1, <1>4 DEF InsertCommit, RotateCommit
<1>5. CASE RevokeCommit(r) \/ LogoutCommit(r)
  BY <1>1, <1>5 DEF RevokeCommit, LogoutCommit, SafetyInv, RequestInv, Holds
<1>6. CASE ResetCommit(r) \/ SetActiveCommit(r)
  BY <1>1, <1>6 DEF ResetCommit, SetActiveCommit, RevokeAllForUser
<1>7. CASE PurgeCommit(r)
  BY <1>7 DEF PurgeCommit, WithoutSessions, SessionsOf
<1> QED BY <1>2, <1>3, <1>4, <1>5, <1>6, <1>7, StepKinds
   DEF db, RequestResetInsert, EnrollCommit

\* Whose session it is does not change once it is stored.
LEMMA SessionKeeps ==
    ASSUME SafetyInv, NEW r \in Requests, Begin(r) \/ Continue(r) \/ Rollback(r),
           NEW s \in SessionIds, sessions[s].row # "unused",
           ~(InsertCommit(r) /\ ctx[r].sid = s)
    PROVE  /\ \/ sessions'[s].row = sessions[s].row
              \/ PurgeCommit(r) /\ Stored(s) /\ sessions'[s].row = "deleted"
           /\ sessions'[s].user = sessions[s].user
           /\ sessions'[s].pw = sessions[s].pw
<1>1. ASSUME NEW x \in Session, NEW n, NEW i
      PROVE  LET y == [x EXCEPT !.version = n, !.iat = i] IN
             y.row = x.row /\ y.user = x.user /\ y.pw = x.pw
  BY DEF Session
<1>2. ASSUME NEW x \in Session, NEW y, y = [x EXCEPT !.revoked = TRUE]
      PROVE  y.row = x.row /\ y.user = x.user /\ y.pw = x.pw
  BY <1>2, ZenonT(40) DEF Session
<1>3. sessions[s] \in Session
  BY DEF SafetyInv, TypeInv, TypeRows
<1>4. CASE sessions'[s] = [sessions[s] EXCEPT !.revoked = TRUE]
  BY <1>2, <1>3, <1>4
<1>5. CASE sessions'[s] = [sessions[s] EXCEPT !.version = @ + 1, !.iat = ctx[r].iat]
  BY <1>1, <1>3, <1>5
<1>6. CASE /\ PurgeCommit(r) /\ Stored(s)
           /\ sessions'[s] = [sessions[s] EXCEPT !.row = "deleted"]
  BY <1>3, <1>6 DEF Session
<1> QED BY <1>4, <1>5, <1>6, SessionEffect

\* A request changes a link that is there only to spend it, under its lock.
LEMMA LinkEffect ==
    ASSUME SafetyInv, NEW r \in Requests, Begin(r) \/ Continue(r) \/ Rollback(r),
           NEW k \in ResetIds
    PROVE  \/ links'[k] = links[k]
           \/ links[k].row = "unused"
           \/ /\ link_lock[k] \in {Nil, r}
              /\ links'[k] = [links[k] EXCEPT !.used = TRUE]
           \/ /\ link_lock[k] = Nil /\ PurgeCommit(r)
              /\ links'[k] = [links[k] EXCEPT !.row = "deleted"]
<1>1. links[k] \in Link /\ links \in [ResetIds -> Link]
  BY DEF SafetyInv, TypeInv, TypeRows
<1>2. CASE ResetCommit(r)
  BY <1>1, <1>2 DEF ResetCommit, ConsumeOutstanding
<1>3. ASSUME NEW x \in ResetIds, RequestResetInsert(r, x)
      PROVE  links'[k] = links[k] \/ links[k].row = "unused"
  BY <1>1, <1>3 DEF RequestResetInsert
<1>4. CASE PurgeCommit(r)
  BY <1>4 DEF PurgeCommit, WithoutLinks, LinksOf
<1> QED BY <1>2, <1>3, <1>4, StepKinds
   DEF db, LoginMint, CompleteMfaLogin, InsertCommit, RotateCommit, RevokeCommit,
       LogoutCommit, SetActiveCommit, EnrollCommit

LEMMA FactorGrows == [Next]_vars => factor_proven \subseteq factor_proven'
<1> SUFFICES ASSUME [Next]_vars PROVE factor_proven \subseteq factor_proven'
  OBVIOUS
<1>1. ASSUME NEW r \in Requests, Begin(r) \/ Rollback(r)
      PROVE  factor_proven' = factor_proven
  BY <1>1 DEF Begin, LoginRead, VerifyResolve, RefreshPeek, LogoutLock,
              RequestResetRead, ResetLockLink, SetActiveLock, EnrollClaims,
              PurgeBegin, Rollback
<1>2. ASSUME NEW r \in Requests, Continue(r)
      PROVE  factor_proven \subseteq factor_proven'
  BY <1>2
     DEF Continue, LoginMint, LoginChallenge, LoginRefused, InsertCommit, AuditCommit,
         VerifyConsume, CompleteMfaLogin, CompleteRefused, RefreshLockUser,
         RefreshTerminate, RefreshRefused, RefreshMint, RotateCommit, RevokeCommit,
         LogoutCommit, RequestResetInsert, ResetLockUser, ResetRefused, ResetCommit,
         SetActiveCommit, EnrollMint, EnrollCommit, PurgeRow, PurgeCommit
<1>3. Environment => factor_proven' = factor_proven
  BY DEF Environment, SessionExpires, LinkExpires, ChallengeExpires,
         RedisRestart
<1> QED BY <1>1, <1>2, <1>3 DEF Next, vars

LEMMA OpsFixed == [Next]_vars => ops' = ops
<1> SUFFICES ASSUME [Next]_vars PROVE ops' = ops
  OBVIOUS
<1>1. ASSUME NEW r \in Requests, Begin(r) \/ Rollback(r) PROVE ops' = ops
  BY <1>1 DEF Begin, LoginRead, VerifyResolve, RefreshPeek, LogoutLock,
              RequestResetRead, ResetLockLink, SetActiveLock, EnrollClaims,
              PurgeBegin, Rollback
<1>2. ASSUME NEW r \in Requests, Continue(r) PROVE ops' = ops
  BY <1>2
     DEF Continue, LoginMint, LoginChallenge, LoginRefused, InsertCommit, AuditCommit,
         VerifyConsume, CompleteMfaLogin, CompleteRefused, RefreshLockUser,
         RefreshTerminate, RefreshRefused, RefreshMint, RotateCommit, RevokeCommit,
         LogoutCommit, RequestResetInsert, ResetLockUser, ResetRefused, ResetCommit,
         SetActiveCommit, EnrollMint, EnrollCommit, PurgeRow, PurgeCommit
<1>3. Environment => ops' = ops
  BY DEF Environment, SessionExpires, LinkExpires, ChallengeExpires, RedisRestart
<1> QED BY <1>1, <1>2, <1>3 DEF Next, vars

\* The environment touches no account; it lets sessions and links expire and
\* challenges be lost.
LEMMA EnvironmentEffect ==
    ASSUME TypeInv, Environment
    PROVE  /\ UNCHANGED <<users, locks, pc, ctx, tokens, rest>>
           /\ mfa_completed' \subseteq mfa_completed
           /\ \A c \in ChallengeIds : challenges'[c].state = "open" =>
                challenges'[c] = challenges[c]
           /\ \A u \in Users : SameAccount(u)
           /\ \A s \in SessionIds :
                \/ sessions'[s] = sessions[s]
                \/ Stored(s) /\ sessions'[s] = [sessions[s] EXCEPT !.expired = TRUE]
           /\ \A k \in ResetIds :
                \/ links'[k] = links[k]
                \/ links'[k] = [links[k] EXCEPT !.expired = TRUE]
<1>0. /\ users \in [Users -> User] /\ sessions \in [SessionIds -> Session]
      /\ links \in [ResetIds -> Link] /\ challenges \in [ChallengeIds -> Challenge]
  BY DEF TypeInv, TypeRows
<1>1. CASE \E s \in SessionIds : SessionExpires(s)
  BY <1>0, <1>1 DEF SessionExpires, SameAccount, redis
<1>2. CASE \E k \in ResetIds : LinkExpires(k)
  BY <1>0, <1>2 DEF LinkExpires, SameAccount, redis
<1>3. CASE \E c \in ChallengeIds : ChallengeExpires(c)
  BY <1>0, <1>3 DEF ChallengeExpires, SameAccount, Challenge, db
<1>4. CASE RedisRestart
  BY <1>0, <1>4 DEF RedisRestart, SameAccount, Challenge, db
<1> QED BY <1>1, <1>2, <1>3, <1>4 DEF Environment

\* Once an epoch is past it stays past; a current one keeps its promise until it
\* is past.
LEMMA FreshStays ==
    ASSUME SafetyInv, [Next]_vars, NEW u \in Users, NEW epoch \in Nat, NEW pw,
           Fresh(u, epoch, pw)
    PROVE  Fresh(u, epoch, pw)'
<1>1. users[u].auth_epoch \in Nat
  BY DEF SafetyInv, TypeInv, TypeRows, User
<1>2. CASE /\ users'[u].is_active = users[u].is_active
           /\ users'[u].auth_epoch = users[u].auth_epoch
           /\ users'[u].password_hash = users[u].password_hash
  BY <1>2 DEF Fresh
<1>3. CASE users'[u].auth_epoch = users[u].auth_epoch + 1
  BY <1>1, <1>3 DEF Fresh
<1>4. CASE ~users[u].is_active /\ users'[u].auth_epoch = users[u].auth_epoch
  BY <1>1, <1>4 DEF Fresh
<1>5. ASSUME NEW r \in Requests, Begin(r) \/ Continue(r) \/ Rollback(r)
      PROVE  Fresh(u, epoch, pw)'
  BY <1>2, <1>3, <1>4, <1>5, AccountEffect DEF SameAccount, Removed
<1>6. CASE Environment
  BY <1>2, <1>6, EnvironmentEffect DEF SafetyInv, SameAccount
<1>7. CASE UNCHANGED vars
  BY <1>2, <1>7 DEF vars, db
<1> QED BY <1>5, <1>6, <1>7 DEF Next

-----------------------------------------------------------------------------
(* RequestInv of the requests that do not take the step.                    *)

\* Nobody arrives at insert_commit but with an id that was unused.
LEMMA MintedId ==
    ASSUME TypeInv, NEW r \in Requests, Begin(r) \/ Continue(r) \/ Rollback(r),
           pc'[r] = "insert_commit"
    PROVE  pc[r] # "insert_commit" /\ sessions[ctx'[r].sid].row = "unused"
<1>1. ASSUME NEW label, NEW c, Go(r, label, c), label # "insert_commit" PROVE FALSE
  BY <1>1, Went
<1>2. ~Finish(r)
  BY <1>1 DEF Finish
<1>3. ~Begin(r) /\ ~Rollback(r)
  BY <1>1, <1>2
     DEF Begin, LoginRead, VerifyResolve, RefreshPeek, LogoutLock, RequestResetRead,
         ResetLockLink, SetActiveLock, EnrollClaims, PurgeBegin, Rollback
<1>4. PICK s \in SessionIds, i \in Stamps : LoginMint(r, s, i) \/ CompleteMfaLogin(r, s, i)
  <2>1. ~\/ LoginRefused(r) \/ InsertCommit(r) \/ AuditCommit(r)
         \/ CompleteRefused(r) \/ RefreshRefused(r) \/ RotateCommit(r)
         \/ RevokeCommit(r) \/ LogoutCommit(r) \/ ResetRefused(r)
         \/ ResetCommit(r) \/ SetActiveCommit(r) \/ EnrollCommit(r)
         \/ PurgeCommit(r) \/ \E k \in ResetIds : RequestResetInsert(r, k)
    BY <1>2
       DEF LoginRefused, InsertCommit, AuditCommit, CompleteRefused, RefreshRefused,
           RotateCommit, RevokeCommit, LogoutCommit, ResetRefused, ResetCommit,
           SetActiveCommit, EnrollCommit, PurgeCommit, RequestResetInsert
  <2>2. ~\/ VerifyConsume(r) \/ RefreshLockUser(r) \/ RefreshTerminate(r)
         \/ ResetLockUser(r) \/ EnrollMint(r) \/ PurgeRow(r)
         \/ \E i \in Stamps : RefreshMint(r, i)
         \/ \E c \in ChallengeIds : LoginChallenge(r, c)
    BY <1>1, <1>2
       DEF VerifyConsume, RefreshLockUser, RefreshTerminate, ResetLockUser,
           EnrollMint, RefreshMint, LoginChallenge, PurgeRow
  <2> QED BY <1>3, <2>1, <2>2 DEF Continue
<1>5. MintSession(r, ctx[r].user, s, i, FALSE, ctx[r].pw)
      \/ MintSession(r, ctx[r].user, s, i, TRUE, ctx[r].pw)
  BY <1>4 DEF LoginMint, CompleteMfaLogin
<1>6. ctx'[r] = [ctx[r] EXCEPT !.sid = s, !.iat = i] /\ sessions[s].row = "unused"
  BY <1>5, Went DEF MintSession
<1>7. ctx'[r].sid = s
  BY <1>6 DEF TypeInv, TypeReqs, Context
<1> QED BY <1>4, <1>6, <1>7 DEF LoginMint, CompleteMfaLogin

LEMMA BystanderKnows ==
    ASSUME SafetyInv, NEW r \in Requests, Begin(r) \/ Continue(r) \/ Rollback(r),
           NEW q \in Requests, q # r
    PROVE  RequestInv(q)'
<1>1. pc'[q] = pc[q] /\ ctx'[q] = ctx[q] /\ MovesAlone(r) /\ q # Nil
  BY StepsAlone, NilAssumption DEF MovesAlone, SafetyInv
<1>2. /\ TypeInv /\ RequestInv(q) /\ RequestInv(r) /\ NamesOf(pc[q], ctx[q])
      /\ ctx[q] \in Context
  BY ContextType DEF SafetyInv
<1>3. \A u \in Users : user_lock[u] = q =>
        /\ user_lock'[u] = q
        /\ SameAccount(u)
  BY <1>1, AccountEffect DEF MovesAlone
<1>4. Holds(q)'
  <2>1. /\ \A s \in SessionIds : session_lock[s] = q => session_lock'[s] = q
        /\ \A k \in ResetIds : link_lock[k] = q => link_lock'[k] = q
    BY <1>1 DEF MovesAlone
  <2>2. \A u \in Users : users'[u].present => users[u].present
    BY AccountEffect DEF SameAccount, Removed
  <2>3. pc[q] # "idle" => ctx[q].user \in Users
    BY <1>2 DEF NamesOf
  <2>4. /\ pc[q] \in {"rotate_commit", "revoke_commit", "logout_audit"} =>
             ctx[q].sid \in SessionIds
        /\ pc[q] \in {"reset_user", "reset_commit"} => ctx[q].link \in ResetIds
        /\ ctx[q].purging \subseteq Users
    BY <1>2 DEF NamesOf, SidLabels, Context
  <2>5. Holds(q)
    BY <1>2 DEF RequestInv
  <2> QED BY <1>1, <1>3, <2>1, <2>2, <2>3, <2>4, <2>5 DEF Holds
<1>5. Pending(q)'
  <2> SUFFICES ASSUME pc[q] = "insert_commit" PROVE Pending(q)'
    BY <1>1 DEF Pending
  <2> DEFINE u == ctx[q].user
             s == ctx[q].sid
  <2>1. u \in Users /\ s \in SessionIds /\ user_lock[u] = q /\ Pending(q)
    BY <1>2 DEF NamesOf, SidLabels, RequestInv, Holds
  <2>2. SameAccount(u)
    BY <1>3, <2>1
  <2>3. sessions[s].row = "taken" /\ sessions[s] \in Session
    BY <1>2, <2>1 DEF Pending, TypeInv, TypeRows
  <2>4. ~(InsertCommit(r) /\ ctx[r].sid = s)
    BY <2>1 DEF InsertCommit, Pending
  <2>5. sessions'[s].row = "taken"
    BY <2>1, <2>3, <2>4, SessionKeeps DEF Stored
  <2>6. ASSUME NEW p \in Requests, pc'[p] = "insert_commit", ctx'[p].sid = s
        PROVE  p = q
    <3>1. CASE p = r
      BY <1>2, <2>3, <2>6, <3>1, MintedId
    <3>2. CASE p # r
      BY <1>1, <2>1, <2>6, <3>2 DEF MovesAlone, Pending
    <3> QED BY <3>1, <3>2
  <2> QED BY <1>1, <2>1, <2>2, <2>5, <2>6 DEF Pending, SameAccount, CanAuthenticate
<1>6. Owner(q)'
  <2> SUFFICES ASSUME pc[q] \in {"refresh_user", "refresh_session"} PROVE Owner(q)'
    BY <1>1 DEF Owner
  <2> DEFINE s == ctx[q].sid
  <2>1. /\ s \in SessionIds /\ sessions[s] \in Session
        /\ sessions[s].row \in {"stored", "deleted"} /\ sessions[s].user = ctx[q].user
    BY <1>2 DEF NamesOf, SidLabels, RequestInv, Owner, TypeInv, TypeRows
  <2>2. ~(InsertCommit(r) /\ ctx[r].sid = s)
    BY <1>2, <2>1 DEF InsertCommit, RequestInv, Pending
  <2>3. /\ sessions'[s].row \in {sessions[s].row, "deleted"}
        /\ sessions'[s].user = sessions[s].user
    BY <2>1, <2>2, SessionKeeps
  <2> QED BY <1>1, <2>1, <2>3 DEF Owner
<1>7. Rotating(q)'
  <2> SUFFICES ASSUME pc[q] = "rotate_commit" PROVE Rotating(q)'
    BY <1>1 DEF Rotating
  <2> DEFINE s == ctx[q].sid
  <2>1. /\ s \in SessionIds /\ session_lock[s] = q
        /\ Live(s) /\ sessions[s].version = ctx[q].version
    BY <1>2 DEF NamesOf, SidLabels, RequestInv, Holds, Rotating
  <2>2. ~(InsertCommit(r) /\ ctx[r].sid = s)
    BY <1>2, <2>1 DEF InsertCommit, RequestInv, Pending, Live, Stored
  <2>3. ~(RotateCommit(r) /\ ctx[r].sid = s)
    BY <1>2, <2>1 DEF RotateCommit, RequestInv, Holds
  <2>4. sessions'[s] = sessions[s]
    BY <1>1, <2>1, <2>2, <2>3, SessionEffect DEF Live, Stored
  <2> QED BY <1>1, <2>1, <2>4 DEF Rotating, Live, Stored
<1>8. Redeeming(q)'
  <2> SUFFICES ASSUME pc[q] \in {"reset_user", "reset_commit"} PROVE Redeeming(q)'
    BY <1>1 DEF Redeeming
  <2> DEFINE k == ctx[q].link
  <2>1. /\ k \in ResetIds /\ link_lock[k] = q /\ Redeeming(q)
        /\ links[k].row = "stored"
    BY <1>2 DEF NamesOf, RequestInv, Holds, Redeeming
  <2>2. links'[k] = links[k]
    BY <1>1, <2>1, LinkEffect
  <2> QED BY <1>1, <2>1, <2>2 DEF Redeeming
<1>9. Vouched(q)'
  <2>1. CASE pc[q] \in {"verify_consume", "verify_factor", "enroll"}
    <3>1. ctx[q].user \in Users /\ ctx[q].epoch \in Nat
      BY <1>2, <2>1 DEF NamesOf, Context
    <3>2. Fresh(ctx[q].user, ctx[q].epoch, ctx[q].pw)
      BY <1>2, <2>1 DEF RequestInv, Vouched
    <3>3. Fresh(ctx[q].user, ctx[q].epoch, ctx[q].pw)'
      <4> DEFINE u == ctx[q].user
                 e == ctx[q].epoch
                 w == ctx[q].pw
      <4>1. /\ users[u].auth_epoch \in Nat /\ e \in Nat /\ Fresh(u, e, w)
        BY <3>1, <3>2 DEF SafetyInv, TypeInv, TypeRows, User
      <4>2. \/ SameAccount(u)
            \/ users'[u].auth_epoch = users[u].auth_epoch + 1
            \/ ~users[u].is_active /\ users'[u].auth_epoch = users[u].auth_epoch
            \/ Removed(u)
        BY <3>1, AccountEffect
      <4>3. e <= users'[u].auth_epoch
        BY <4>1, <4>2 DEF Fresh, SameAccount, Removed
      <4>4. e = users'[u].auth_epoch =>
              users'[u].is_active /\ w = users'[u].password_hash
        BY <4>1, <4>2 DEF Fresh, SameAccount, Removed
      <4> QED BY <1>1, <4>3, <4>4 DEF Fresh
    <3> QED BY <1>1, <2>1, <3>3 DEF Vouched
  <2>2. CASE pc[q] \in {"refresh_user", "refresh_session"}
    BY <1>1, <1>2, <2>2, FactorGrows DEF RequestInv, Vouched, Next
  <2>3. CASE pc[q] \notin {"verify_consume", "verify_factor", "enroll",
                           "refresh_user", "refresh_session"}
    BY <1>1, <2>3 DEF Vouched
  <2> QED BY <2>1, <2>2, <2>3
<1> QED BY <1>4, <1>5, <1>6, <1>7, <1>8, <1>9 DEF RequestInv

LEMMA EnvironmentKnows ==
    ASSUME SafetyInv, Environment, NEW q \in Requests
    PROVE  RequestInv(q)'
<1>1. /\ pc' = pc /\ ctx' = ctx /\ locks' = locks /\ factor_proven' = factor_proven
      /\ user_lock' = user_lock /\ session_lock' = session_lock /\ link_lock' = link_lock
      /\ q # Nil
  BY EnvironmentEffect, NilAssumption DEF SafetyInv, locks
<1>2. TypeInv /\ RequestInv(q) /\ NamesOf(pc[q], ctx[q]) /\ ctx[q] \in Context
  BY ContextType DEF SafetyInv
<1>3. users' = users
  BY <1>2, EnvironmentEffect
<1>4. Holds(q)'
  BY <1>1, <1>2, <1>3 DEF RequestInv, Holds
<1>5. ASSUME NEW s \in SessionIds
      PROVE  /\ sessions'[s].user = sessions[s].user
             /\ sessions'[s].row = sessions[s].row
             /\ sessions'[s].revoked = sessions[s].revoked
             /\ sessions'[s].version = sessions[s].version
  <2>1. ASSUME NEW x \in Session, NEW y, y = [x EXCEPT !.expired = TRUE]
        PROVE  y.row = x.row /\ y.user = x.user /\ y.revoked = x.revoked
               /\ y.version = x.version
    BY <2>1, ZenonT(40) DEF Session
  <2>2. sessions[s] \in Session
    BY <1>2 DEF TypeInv, TypeRows
  <2>3. CASE Stored(s) /\ sessions'[s] = [sessions[s] EXCEPT !.expired = TRUE]
    BY <2>1, <2>2, <2>3
  <2> QED BY <1>2, <2>3, EnvironmentEffect
<1>6. ASSUME NEW k \in ResetIds
      PROVE  /\ links'[k].row = links[k].row /\ links'[k].user = links[k].user
             /\ links'[k].used = links[k].used
  <2>1. ASSUME NEW x \in Link, NEW y, y = [x EXCEPT !.expired = TRUE]
        PROVE  y.row = x.row /\ y.user = x.user /\ y.used = x.used
    BY <2>1, Zenon DEF Link
  <2>2. links[k] \in Link
    BY <1>2 DEF TypeInv, TypeRows
  <2> QED BY <1>2, <2>1, <2>2, EnvironmentEffect
<1>7. Pending(q)'
  <2> SUFFICES ASSUME pc[q] = "insert_commit" PROVE Pending(q)'
    BY <1>1 DEF Pending
  <2>1. /\ ctx[q].user \in Users /\ ctx[q].sid \in SessionIds
        /\ user_lock[ctx[q].user] = q /\ Pending(q)
    BY <1>2 DEF NamesOf, SidLabels, RequestInv, Holds
  <2> QED BY <1>1, <1>3, <1>5, <2>1 DEF Pending, CanAuthenticate
<1>8. Owner(q)'
  <2> SUFFICES ASSUME pc[q] \in {"refresh_user", "refresh_session"} PROVE Owner(q)'
    BY <1>1 DEF Owner
  <2>1. ctx[q].sid \in SessionIds /\ Owner(q)
    BY <1>2 DEF NamesOf, SidLabels, RequestInv
  <2> QED BY <1>1, <1>5, <2>1 DEF Owner
<1>9. Rotating(q)'
  <2> SUFFICES ASSUME pc[q] = "rotate_commit" PROVE Rotating(q)'
    BY <1>1 DEF Rotating
  <2>1. ctx[q].sid \in SessionIds /\ session_lock[ctx[q].sid] = q /\ Rotating(q)
    BY <1>2 DEF NamesOf, SidLabels, RequestInv, Holds
  <2> QED BY <1>1, <1>5, <2>1 DEF Rotating, Live, Stored
<1>10. Redeeming(q)'
  <2> SUFFICES ASSUME pc[q] \in {"reset_user", "reset_commit"} PROVE Redeeming(q)'
    BY <1>1 DEF Redeeming
  <2>1. ctx[q].link \in ResetIds /\ link_lock[ctx[q].link] = q /\ Redeeming(q)
    BY <1>2 DEF NamesOf, RequestInv, Holds
  <2> QED BY <1>1, <1>6, <2>1 DEF Redeeming
<1>11. Vouched(q)'
  BY <1>1, <1>2, <1>3 DEF RequestInv, Vouched, Fresh
<1> QED BY <1>4, <1>7, <1>8, <1>9, <1>10, <1>11 DEF RequestInv

LEMMA RequestsKnow ==
    ASSUME SafetyInv, [Next]_vars, NEW q \in Requests
    PROVE  RequestInv(q)'
<1>1. CASE UNCHANGED vars
  <2>1. RequestInv(q)
    BY DEF SafetyInv
  <2>2. /\ users' = users /\ sessions' = sessions /\ links' = links /\ pc' = pc
        /\ ctx' = ctx /\ user_lock' = user_lock /\ session_lock' = session_lock
        /\ link_lock' = link_lock /\ factor_proven' = factor_proven
    BY <1>1 DEF vars, db, locks
  <2> QED BY <2>1, <2>2
     DEF RequestInv, Holds, Pending, Owner, Rotating, Redeeming, Vouched, Fresh,
         CanAuthenticate, Live, Stored
<1>2. ASSUME NEW r \in Requests, Begin(r) \/ Continue(r) \/ Rollback(r)
      PROVE  RequestInv(q)'
  BY <1>2, ActorKnows, BystanderKnows
<1> QED BY <1>1, <1>2, EnvironmentKnows DEF Next

-----------------------------------------------------------------------------
(* Tokens, challenges and the flag.                                         *)

LEMMA TokenSources ==
    ASSUME NEW r \in Requests, Begin(r) \/ Continue(r) \/ Rollback(r)
    PROVE  \/ access_tokens' = access_tokens /\ mfa_completed' = mfa_completed
           \/ \E s \in SessionIds, i \in Stamps :
                LoginMint(r, s, i) \/ CompleteMfaLogin(r, s, i)
           \/ \E i \in Stamps : RefreshMint(r, i)
           \/ EnrollMint(r)
<1>1. CASE Begin(r) \/ Rollback(r)
  BY <1>1 DEF Begin, LoginRead, VerifyResolve, RefreshPeek, LogoutLock,
              RequestResetRead, ResetLockLink, SetActiveLock, EnrollClaims,
              PurgeBegin, Rollback, redis, tokens
<1>2. CASE Continue(r)
  BY <1>2
     DEF Continue, LoginChallenge, LoginRefused, InsertCommit, AuditCommit,
         VerifyConsume, CompleteRefused, RefreshLockUser, RefreshTerminate,
         RefreshRefused, RotateCommit, RevokeCommit, LogoutCommit,
         RequestResetInsert, ResetLockUser, ResetRefused, ResetCommit,
         SetActiveCommit, EnrollCommit, PurgeRow, PurgeCommit, redis, tokens
<1> QED BY <1>1, <1>2

\* Every token a step signs is fresh, and claims mfa only for a session that
\* showed a second factor.
LEMMA NewTokens ==
    ASSUME SafetyInv, NEW r \in Requests, Begin(r) \/ Continue(r) \/ Rollback(r),
           NEW t \in access_tokens', t \notin access_tokens
    PROVE  /\ Fresh(t.user, t.epoch, t.pw) /\ users' = users
           /\ t.mfa => t.sid \in factor_proven'
<1>1. ASSUME NEW s \in SessionIds, NEW i \in Stamps,
             LoginMint(r, s, i) \/ CompleteMfaLogin(r, s, i)
      PROVE  /\ Fresh(t.user, t.epoch, t.pw) /\ users' = users
             /\ t.mfa => t.sid \in factor_proven'
  <2> DEFINE u == ctx[r].user
             tok(mfa) == [user |-> u, sid |-> s, epoch |-> users[u].auth_epoch,
                          mfa |-> mfa, pw |-> ctx[r].pw]
  <2>1. u \in Users /\ users[u].auth_epoch \in Nat
    BY <1>1, ContextType
       DEF LoginMint, CompleteMfaLogin, NamesOf, SafetyInv, TypeInv, TypeRows, User
  <2>2. CanAuthenticate(u) /\ ctx[r].pw = users[u].password_hash
    BY <1>1 DEF LoginMint, LoginRecheck, CompleteMfaLogin, CompleteRecheck,
                SafetyInv, RequestInv, Vouched, Fresh
  <2>3. \/ t = tok(FALSE)
        \/ t = tok(TRUE) /\ s \in factor_proven'
    BY <1>1 DEF LoginMint, CompleteMfaLogin, MintSession, IssueTokens
  <2>4. /\ t.user = u /\ t.epoch = users[u].auth_epoch /\ t.pw = ctx[r].pw
        /\ t.mfa => t.sid \in factor_proven'
    BY <2>3
  <2>5. Fresh(u, users[u].auth_epoch, ctx[r].pw)
    BY <2>1, <2>2 DEF Fresh, CanAuthenticate
  <2>6. users' = users
    BY <1>1 DEF LoginMint, CompleteMfaLogin
  <2> QED BY <2>4, <2>5, <2>6
<1>2. ASSUME NEW i \in Stamps, RefreshMint(r, i)
      PROVE  /\ Fresh(t.user, t.epoch, t.pw) /\ users' = users
             /\ t.mfa => t.sid \in factor_proven'
  <2> DEFINE u == ctx[r].user
             s == ctx[r].sid
  <2>1. u \in Users /\ s \in SessionIds /\ pc[r] = "refresh_session"
    BY <1>2, LockSessionTaken DEF RefreshMint, SafetyInv
  <2>2. Live(s) /\ CanAuthenticate(u) /\ sessions[s].user = u
    BY <1>2, <2>1
       DEF RefreshMint, AuthorizeRotation, SafetyInv, RequestInv, Owner
  <2>3. sessions[s].pw = users[u].password_hash /\ users[u].auth_epoch \in Nat
    BY <2>1, <2>2 DEF SafetyInv, NoStaleSession, TypeInv, TypeRows, User
  <2>4. t = [user |-> u, sid |-> s, epoch |-> users[u].auth_epoch,
             mfa |-> RefreshedMfa(r), pw |-> sessions[s].pw]
    BY <1>2 DEF RefreshMint, IssueTokens
  <2>5. /\ t.user = u /\ t.epoch = users[u].auth_epoch /\ t.pw = sessions[s].pw
        /\ t.mfa => ctx[r].mfa
        /\ t.sid = s
    BY <2>4 DEF RefreshedMfa
  <2>6. t.mfa => t.sid \in factor_proven'
    BY <1>2, <2>1, <2>5 DEF RefreshMint, SafetyInv, RequestInv, Vouched
  <2> QED BY <1>2, <2>1, <2>2, <2>3, <2>5, <2>6
     DEF RefreshMint, db, Fresh, CanAuthenticate
<1>3. ASSUME EnrollMint(r)
      PROVE  /\ Fresh(t.user, t.epoch, t.pw) /\ users' = users
             /\ t.mfa => t.sid \in factor_proven'
  <2>1. t = [user |-> ctx[r].user, sid |-> ctx[r].sid, epoch |-> EnrollEpoch(r),
             mfa |-> TRUE, pw |-> ctx[r].pw]
    BY <1>3 DEF EnrollMint
  <2>2. /\ t.user = ctx[r].user /\ t.epoch = ctx[r].epoch /\ t.pw = ctx[r].pw
        /\ t.sid = ctx[r].sid
    BY <2>1 DEF EnrollEpoch
  <2>3. Fresh(ctx[r].user, ctx[r].epoch, ctx[r].pw)
    BY <1>3 DEF EnrollMint, SafetyInv, RequestInv, Vouched
  <2> QED BY <1>3, <2>2, <2>3 DEF EnrollMint, db
<1> QED BY <1>1, <1>2, <1>3, TokenSources

LEMMA TokensKnow ==
    ASSUME SafetyInv, [Next]_vars
    PROVE  FreshTokens' /\ MfaClaimEarned' /\ FlagEarned'
<1>1. ASSUME NEW t \in access_tokens
      PROVE  Fresh(t.user, t.epoch, t.pw)' /\ (t.mfa => t.sid \in factor_proven')
  <2>1. t.user \in Users /\ t.epoch \in Nat
    BY DEF SafetyInv, TypeInv, TypeTokens, AccessToken
  <2>2. Fresh(t.user, t.epoch, t.pw)
    BY DEF SafetyInv, FreshTokens
  <2>3. Fresh(t.user, t.epoch, t.pw)'
    BY <2>1, <2>2, FreshStays
  <2> QED BY <2>3, FactorGrows DEF SafetyInv, MfaClaimEarned
<1>2. ASSUME NEW r \in Requests, Begin(r) \/ Continue(r) \/ Rollback(r)
      PROVE  FreshTokens' /\ MfaClaimEarned' /\ FlagEarned'
  <2>1. ASSUME NEW t \in access_tokens', t \notin access_tokens
        PROVE  Fresh(t.user, t.epoch, t.pw)' /\ (t.mfa => t.sid \in factor_proven')
    BY <1>2, <2>1, NewTokens DEF Fresh
  <2>2. FreshTokens' /\ MfaClaimEarned'
    BY <1>1, <2>1 DEF FreshTokens, MfaClaimEarned
  <2>3. FlagEarned'
    BY <1>2, TokenSources, FactorGrows
       DEF LoginMint, CompleteMfaLogin, RefreshMint, EnrollMint, redis, SafetyInv,
           FlagEarned, Next
  <2> QED BY <2>2, <2>3
<1>3. CASE Environment
  BY <1>1, <1>3, EnvironmentEffect
     DEF FreshTokens, MfaClaimEarned, FlagEarned, SafetyInv, tokens
<1>4. CASE UNCHANGED vars
  BY <1>1, <1>4 DEF FreshTokens, MfaClaimEarned, FlagEarned, SafetyInv, vars, tokens, redis
<1> QED BY <1>2, <1>3, <1>4 DEF Next

LEMMA ChallengesKnow ==
    ASSUME SafetyInv, [Next]_vars
    PROVE  FreshChallenges'
<1>1. ASSUME NEW c \in ChallengeIds, challenges'[c].state = "open",
             challenges'[c] = challenges[c]
      PROVE  Fresh(challenges[c].user, challenges[c].epoch, challenges[c].pw)'
  <2>1. /\ challenges[c].user \in Users /\ challenges[c].epoch \in Nat
        /\ Fresh(challenges[c].user, challenges[c].epoch, challenges[c].pw)
    BY <1>1 DEF SafetyInv, TypeInv, TypeRows, NamesInRows, Challenge, FreshChallenges
  <2>2. Fresh(challenges[c].user, challenges[c].epoch, challenges[c].pw)'
    <3>1. PICK u \in Users, e \in Nat, w \in {challenges[c].pw} :
             u = challenges[c].user /\ e = challenges[c].epoch /\ Fresh(u, e, w)
      BY <2>1
    <3>2. Fresh(u, e, w)'
      BY <3>1, FreshStays
    <3> QED BY <1>1, <3>1, <3>2 DEF Fresh
  <2> QED BY <1>1, <2>2 DEF Fresh
<1>2. ASSUME NEW r \in Requests, NEW d \in ChallengeIds, LoginChallenge(r, d)
      PROVE  FreshChallenges'
  <2> DEFINE u == ctx[r].user
  <2>1. u \in Users /\ users[u].auth_epoch \in Nat /\ users' = users
    BY <1>2, ContextType
       DEF LoginChallenge, NamesOf, SafetyInv, TypeInv, TypeRows, User, db
  <2>2. challenges'[d] = [state |-> "open", user |-> u,
                          epoch |-> users[u].auth_epoch, pw |-> ctx[r].pw]
    BY <1>2 DEF LoginChallenge, SafetyInv, TypeInv, TypeRows
  <2>3. Fresh(u, users[u].auth_epoch, ctx[r].pw)
    BY <1>2, <2>1 DEF LoginChallenge, LoginRecheck, CanAuthenticate, Fresh
  <2>4. \A c \in ChallengeIds \ {d} : challenges'[c] = challenges[c]
    BY <1>2 DEF LoginChallenge, SafetyInv, TypeInv, TypeRows
  <2>5. Fresh(challenges[d].user, challenges[d].epoch, challenges[d].pw)'
    BY <2>1, <2>2, <2>3 DEF Fresh
  <2> QED BY <1>1, <2>4, <2>5 DEF FreshChallenges
<1>3. ASSUME NEW c \in ChallengeIds,
             \A r \in Requests, d \in ChallengeIds : ~LoginChallenge(r, d)
      PROVE  challenges'[c].state = "open" => challenges'[c] = challenges[c]
  <2>1. ASSUME NEW r \in Requests, VerifyConsume(r)
        PROVE  challenges'[c].state = "open" => challenges'[c] = challenges[c]
    BY <2>1 DEF VerifyConsume, SafetyInv, TypeInv, TypeRows, Challenge
  <2>2. ASSUME NEW r \in Requests, Begin(r) \/ Rollback(r)
        PROVE  challenges' = challenges
    BY <2>2 DEF Begin, LoginRead, VerifyResolve, RefreshPeek, LogoutLock,
                RequestResetRead, ResetLockLink, SetActiveLock, EnrollClaims,
                PurgeBegin, Rollback, redis
  <2>3. ASSUME NEW r \in Requests, Continue(r)
        PROVE  VerifyConsume(r) \/ challenges' = challenges
    BY <1>3, <2>3
       DEF Continue, LoginMint, LoginRefused, InsertCommit, AuditCommit,
           CompleteMfaLogin, CompleteRefused, RefreshLockUser, RefreshTerminate,
           RefreshRefused, RefreshMint, RotateCommit, RevokeCommit, LogoutCommit,
           RequestResetInsert, ResetLockUser, ResetRefused, ResetCommit,
           SetActiveCommit, EnrollMint, EnrollCommit, PurgeRow, PurgeCommit, redis
  <2>4. CASE UNCHANGED vars
    BY <2>4 DEF vars, redis
  <2> QED BY <2>1, <2>2, <2>3, <2>4, EnvironmentEffect DEF Next, SafetyInv
<1> QED BY <1>1, <1>2, <1>3 DEF FreshChallenges

-----------------------------------------------------------------------------
(* Sessions and links.                                                      *)

\* A request can leave a session alive only if it was, or if it stores it.
LEMMA LiveBefore ==
    ASSUME SafetyInv, NEW r \in Requests, Begin(r) \/ Continue(r) \/ Rollback(r),
           NEW s \in SessionIds, Live(s)', ~(InsertCommit(r) /\ ctx[r].sid = s)
    PROVE  /\ Live(s)
           /\ sessions'[s].user = sessions[s].user /\ sessions'[s].pw = sessions[s].pw
<1>1. sessions[s] \in Session /\ sessions'[s].row = "stored" /\ ~sessions'[s].revoked
  BY DEF SafetyInv, TypeInv, TypeRows, Live, Stored
<1>2. ASSUME NEW n, NEW i, sessions'[s] = [sessions[s] EXCEPT !.version = n, !.iat = i]
      PROVE  /\ sessions'[s].row = sessions[s].row
             /\ sessions'[s].revoked = sessions[s].revoked
  BY <1>1, <1>2, ZenonT(40) DEF Session
<1>3. ASSUME sessions'[s] = [sessions[s] EXCEPT !.revoked = TRUE]
      PROVE  FALSE
  BY <1>1, <1>3, ZenonT(40) DEF Session
<1>4. sessions'[s].row = sessions[s].row /\ sessions'[s].revoked = sessions[s].revoked
  <2>1. CASE sessions'[s] = sessions[s]
    BY <2>1
  <2>2. CASE sessions'[s] = [sessions[s] EXCEPT !.version = @ + 1, !.iat = ctx[r].iat]
    BY <1>2, <2>2
  <2>3. ~(sessions[s].row = "unused" /\ sessions'[s].row = "taken")
    BY <1>1
  <2>4. sessions'[s] # [sessions[s] EXCEPT !.row = "deleted"]
    <3>1. [sessions[s] EXCEPT !.row = "deleted"].row = "deleted"
      BY <1>1 DEF Session
    <3> QED BY <1>1, <3>1
  <2> QED BY <1>3, <2>1, <2>2, <2>3, <2>4, SessionEffect
<1>5. sessions'[s].user = sessions[s].user /\ sessions'[s].pw = sessions[s].pw
  BY <1>1, <1>4, SessionKeeps
<1> QED BY <1>1, <1>4, <1>5 DEF Live, Stored

LEMMA SessionsKnow ==
    ASSUME SafetyInv, [Next]_vars
    PROVE  NoStaleSession'
<1> SUFFICES ASSUME NEW s \in SessionIds, Live(s)'
             PROVE  /\ CanAuthenticate(sessions[s].user)'
                    /\ sessions'[s].pw = users'[sessions'[s].user].password_hash
  BY DEF NoStaleSession
<1> DEFINE u == sessions[s].user
<1>1. ASSUME Live(s), sessions'[s].user = u, sessions'[s].pw = sessions[s].pw,
             SameAccount(u)
      PROVE  /\ CanAuthenticate(sessions[s].user)'
             /\ sessions'[s].pw = users'[sessions'[s].user].password_hash
  BY <1>1 DEF SafetyInv, NoStaleSession, SameAccount, CanAuthenticate
<1>2. ASSUME NEW r \in Requests, Begin(r) \/ Continue(r) \/ Rollback(r),
             ~(InsertCommit(r) /\ ctx[r].sid = s)
      PROVE  /\ CanAuthenticate(sessions[s].user)'
             /\ sessions'[s].pw = users'[sessions'[s].user].password_hash
  <2>1. /\ Live(s) /\ sessions'[s].user = u /\ sessions'[s].pw = sessions[s].pw
        /\ u \in Users /\ CanAuthenticate(u)
    BY <1>2, LiveBefore
       DEF SafetyInv, TypeInv, NamesInRows, Live, Stored, NoStaleSession
  <2>2. CASE SameAccount(u)
    BY <1>1, <2>1, <2>2
  <2>3. ASSUME ResetCommit(r) \/ SetActiveCommit(r), ctx[r].user = u
        PROVE  FALSE
    <3>1. s \in LiveSessionsOf(u) /\ users[u].is_active
      BY <2>1 DEF LiveSessionsOf, CanAuthenticate
    <3>2. sessions' = RevokeAllForUser(u)
      BY <2>3, <3>1 DEF ResetCommit, SetActiveCommit
    <3>3. sessions[s] \in Session
      BY DEF SafetyInv, TypeInv, TypeRows
    <3>4. sessions'[s] = [sessions[s] EXCEPT !.revoked = TRUE]
      BY <3>1, <3>2 DEF RevokeAllForUser
    <3>5. sessions'[s].revoked
      BY <3>3, <3>4, ZenonT(40) DEF Session
    <3> QED BY <3>5 DEF Live
  <2>4. \/ SameAccount(u)
        \/ (ResetCommit(r) \/ SetActiveCommit(r)) /\ ctx[r].user = u
        \/ PurgeCommit(r) /\ u \in ctx[r].purging
    BY <1>2, <2>1, AccountChanges
  <2>5. ~(PurgeCommit(r) /\ u \in ctx[r].purging)
    <3>1. sessions[s] \in Session /\ sessions'[s].row = "stored"
      BY DEF SafetyInv, TypeInv, TypeRows, Live, Stored
    <3>2. PurgeCommit(r) /\ u \in ctx[r].purging
             => sessions'[s] = [sessions[s] EXCEPT !.row = "deleted"]
      BY <2>1 DEF PurgeCommit, WithoutSessions, SessionsOf, Live
    <3> QED BY <3>1, <3>2 DEF Session
  <2> QED BY <2>2, <2>3, <2>4, <2>5
<1>3. ASSUME NEW r \in Requests, InsertCommit(r), ctx[r].sid = s
      PROVE  /\ CanAuthenticate(sessions[s].user)'
             /\ sessions'[s].pw = users'[sessions'[s].user].password_hash
  <2>1. /\ sessions'[s].user = ctx[r].user /\ sessions'[s].pw = ctx[r].pw
        /\ users' = users
    BY <1>3 DEF InsertCommit, SafetyInv, TypeInv, TypeRows
  <2>2. CanAuthenticate(ctx[r].user) /\ ctx[r].pw = users[ctx[r].user].password_hash
    BY <1>3 DEF InsertCommit, SafetyInv, RequestInv, Pending
  <2> QED BY <2>1, <2>2 DEF CanAuthenticate
<1>4. CASE Environment
  <2>1. sessions[s] \in Session /\ sessions'[s].row = "stored" /\ ~sessions'[s].revoked
    BY DEF SafetyInv, TypeInv, TypeRows, Live, Stored
  <2>2. ASSUME NEW x \in Session, NEW y, y = [x EXCEPT !.expired = TRUE]
        PROVE  y.row = x.row /\ y.user = x.user /\ y.revoked = x.revoked /\ y.pw = x.pw
    BY <2>2, ZenonT(40) DEF Session
  <2>3. Live(s) /\ sessions'[s].user = u /\ sessions'[s].pw = sessions[s].pw
    <3>1. \/ sessions'[s] = sessions[s]
          \/ sessions'[s] = [sessions[s] EXCEPT !.expired = TRUE]
      BY <1>4, EnvironmentEffect DEF SafetyInv
    <3>2. CASE sessions'[s] = sessions[s]
      BY <2>1, <3>2 DEF Live, Stored
    <3>3. CASE sessions'[s] = [sessions[s] EXCEPT !.expired = TRUE]
      <4>1. /\ sessions'[s].row = sessions[s].row
            /\ sessions'[s].user = sessions[s].user
            /\ sessions'[s].revoked = sessions[s].revoked
            /\ sessions'[s].pw = sessions[s].pw
        BY <2>1, <2>2, <3>3
      <4> QED BY <2>1, <4>1 DEF Live, Stored
    <3> QED BY <3>1, <3>2, <3>3
  <2>4. u \in Users
    BY <2>3 DEF SafetyInv, TypeInv, NamesInRows, Live, Stored
  <2>5. SameAccount(u)
    BY <1>4, <2>4, EnvironmentEffect DEF SafetyInv
  <2> QED BY <1>1, <2>3, <2>5
<1>5. CASE UNCHANGED vars
  <2>1. users' = users /\ sessions' = sessions
    BY <1>5 DEF vars, db
  <2> QED BY <2>1 DEF Live, Stored, SafetyInv, NoStaleSession, CanAuthenticate
<1> QED BY <1>2, <1>3, <1>4, <1>5 DEF Next

LEMMA LinksKnow ==
    ASSUME SafetyInv, [Next]_vars
    PROVE  NoStaleLink'
<1> SUFFICES ASSUME NEW k \in ResetIds, links'[k].row = "stored", ~links'[k].used
             PROVE  links'[k].pw = users'[links'[k].user].password_hash
  BY DEF NoStaleLink
<1>0. links[k] \in Link /\ links \in [ResetIds -> Link]
  BY DEF SafetyInv, TypeInv, TypeRows
<1>1. ASSUME links'[k].row = links[k].row, links'[k].used = links[k].used,
             links'[k].user = links[k].user, links'[k].pw = links[k].pw,
             \/ links[k].user \notin Users
             \/ users'[links[k].user].password_hash = users[links[k].user].password_hash
      PROVE  links'[k].pw = users'[links'[k].user].password_hash
  BY <1>1 DEF SafetyInv, NoStaleLink, TypeInv, NamesInRows
<1>2. ASSUME NEW r \in Requests, ResetCommit(r)
      PROVE  links'[k].pw = users'[links'[k].user].password_hash
  <2> DEFINE u == ctx[r].user
  <2>1. u \in Users
    BY <1>2, ContextType DEF ResetCommit, NamesOf, SafetyInv
  <2>2. ASSUME NEW x \in Link, NEW y, y = [x EXCEPT !.used = TRUE] PROVE y.used
    BY <2>2, Zenon DEF Link
  <2>3. k \notin UnusedLinksOf(u) /\ links'[k] = links[k]
    BY <1>0, <1>2, <2>2 DEF ResetCommit, ConsumeOutstanding
  <2>4. links[k].user # u
    BY <2>3 DEF UnusedLinksOf
  <2>5. \A v \in Users \ {u} : users'[v] = users[v]
    BY <1>2, <2>1 DEF ResetCommit, ChangePassword, SafetyInv, TypeInv, TypeRows
  <2> QED BY <1>1, <2>3, <2>4, <2>5
<1>3. ASSUME NEW r \in Requests, NEW x \in ResetIds, RequestResetInsert(r, x)
      PROVE  links'[k].pw = users'[links'[k].user].password_hash
  <2>1. CASE k = x
    BY <1>0, <1>3, <2>1 DEF RequestResetInsert
  <2>2. CASE k # x
    BY <1>0, <1>1, <1>3, <2>2 DEF RequestResetInsert
  <2> QED BY <2>1, <2>2
<1>4. ASSUME NEW r \in Requests, Begin(r) \/ Continue(r) \/ Rollback(r),
             ~ResetCommit(r), \A x \in ResetIds : ~RequestResetInsert(r, x)
      PROVE  links'[k].pw = users'[links'[k].user].password_hash
  <2>1. links'[k] = links[k]
    <3>1. CASE PurgeCommit(r)
      <4>1. links'[k] \in {links[k], [links[k] EXCEPT !.row = "deleted"]}
        BY <3>1 DEF PurgeCommit, WithoutLinks
      <4>2. [links[k] EXCEPT !.row = "deleted"].row = "deleted"
        BY <1>0 DEF Link
      <4> QED BY <4>1, <4>2
    <3> QED BY <1>4, <3>1, StepKinds
         DEF db, LoginMint, CompleteMfaLogin, InsertCommit, RotateCommit, RevokeCommit,
             LogoutCommit, SetActiveCommit, EnrollCommit
  <2>2. \A v \in Users : users'[v].password_hash = users[v].password_hash
    BY <1>4, HashChanges
  <2> QED BY <1>1, <2>1, <2>2
<1>5. CASE Environment
  <2>1. ASSUME NEW x \in Link, NEW y, y = [x EXCEPT !.expired = TRUE]
        PROVE  y.row = x.row /\ y.user = x.user /\ y.used = x.used /\ y.pw = x.pw
    BY <2>1, Zenon DEF Link
  <2>3. \A v \in Users : users'[v].password_hash = users[v].password_hash
    BY <1>5, EnvironmentEffect DEF SafetyInv, SameAccount
  <2>4. CASE links'[k] = links[k]
    BY <1>1, <2>3, <2>4
  <2>5. CASE links'[k] = [links[k] EXCEPT !.expired = TRUE]
    <3>1. /\ links'[k].row = links[k].row /\ links'[k].user = links[k].user
          /\ links'[k].used = links[k].used /\ links'[k].pw = links[k].pw
      BY <1>0, <2>1, <2>5
    <3> QED BY <1>1, <2>3, <3>1
  <2> QED BY <1>5, <2>4, <2>5, EnvironmentEffect DEF SafetyInv
<1>6. CASE UNCHANGED vars
  BY <1>6 DEF vars, db, SafetyInv, NoStaleLink
<1> QED BY <1>2, <1>3, <1>4, <1>5, <1>6 DEF Next

-----------------------------------------------------------------------------
(* The theorems.                                                            *)

LEMMA SafetyInit == Init => SafetyInv
<1> SUFFICES ASSUME Init PROVE SafetyInv
  OBVIOUS
<1>1. \A r \in Requests : RequestInv(r)
  BY DEF Init, RequestInv, Holds, Pending, Owner, Rotating, Redeeming, Vouched
<1>2. FreshTokens /\ FreshChallenges /\ FlagEarned /\ MfaClaimEarned
  BY DEF Init, FreshTokens, FreshChallenges, FlagEarned, MfaClaimEarned, NoChallenge
<1>3. NoStaleSession /\ NoStaleLink
  BY DEF Init, NoStaleSession, NoStaleLink, Live, Stored, NoSession, NoLink
<1> QED BY <1>1, <1>2, <1>3, TypeInit DEF SafetyInv

LEMMA SafetyStep == SafetyInv /\ [Next]_vars => SafetyInv'
<1> SUFFICES ASSUME SafetyInv, [Next]_vars PROVE SafetyInv'
  OBVIOUS
<1>1. TypeInv'
  BY TypeStep DEF SafetyInv
<1>2. \A r \in Requests : RequestInv(r)'
  BY RequestsKnow
<1> QED BY <1>1, <1>2, TokensKnow, ChallengesKnow, SessionsKnow, LinksKnow
   DEF SafetyInv

\* The invariant the safety theorems rest on is one of the specification's.
THEOREM SafetyInvariant == Spec => []SafetyInv
BY SafetyInit, SafetyStep, PTL DEF Spec

\* No login, second factor or refresh that overlapped a password reset or a
\* deactivation leaves a working session behind it, whatever the interleaving.
THEOREM NoStaleSessionEver == Spec => []NoStaleSession
<1>1. SafetyInv => NoStaleSession
  BY DEF SafetyInv
<1> QED BY <1>1, SafetyInvariant, PTL

\* current_claims accepts no access token issued under a password that was
\* replaced, or to an account that was deactivated since.
THEOREM NoStaleTokenEver == Spec => []NoStaleToken
<1>1. SafetyInv => NoStaleToken
  BY DEF SafetyInv, FreshTokens, Fresh, NoStaleToken, CurrentClaims, CanAuthenticate
<1> QED BY <1>1, SafetyInvariant, PTL

\* A reset link that still works was mailed under the password it would replace.
THEOREM NoStaleLinkEver == Spec => []NoStaleLink
<1>1. SafetyInv => NoStaleLink
  BY DEF SafetyInv
<1> QED BY <1>1, SafetyInvariant, PTL

\* An access token claims mfa only for a session that showed a second factor.
THEOREM MfaClaimEarnedAlways == Spec => []MfaClaimEarned
<1>1. SafetyInv => MfaClaimEarned
  BY DEF SafetyInv
<1> QED BY <1>1, SafetyInvariant, PTL

LEMMA RevokedStaysStep ==
    ASSUME SafetyInv, [Next]_vars
    PROVE  RevokedStays
<1> SUFFICES ASSUME NEW s \in SessionIds, Stored(s), sessions[s].revoked
             PROVE  /\ sessions'[s].row \in {"stored", "deleted"}
                    /\ sessions'[s].revoked
                    /\ sessions'[s].version = sessions[s].version
                    /\ sessions'[s].iat = sessions[s].iat
  BY DEF RevokedStays
<1>1. sessions[s] \in Session /\ sessions[s].row = "stored" /\ sessions[s].revoked
  BY DEF SafetyInv, TypeInv, TypeRows, Stored
<1>2. CASE sessions'[s] = sessions[s]
  BY <1>1, <1>2
<1>3. CASE sessions'[s] = [sessions[s] EXCEPT !.revoked = TRUE]
  BY <1>1, <1>3, ZenonT(40) DEF Session
<1>4. CASE sessions'[s] = [sessions[s] EXCEPT !.expired = TRUE]
  BY <1>1, <1>4, ZenonT(40) DEF Session
<1>5. CASE sessions'[s] = [sessions[s] EXCEPT !.row = "deleted"]
  BY <1>1, <1>5, ZenonT(40) DEF Session
<1>6. ASSUME NEW r \in Requests, Begin(r) \/ Continue(r) \/ Rollback(r)
      PROVE  \/ sessions'[s] = sessions[s]
             \/ sessions'[s] = [sessions[s] EXCEPT !.revoked = TRUE]
             \/ sessions'[s] = [sessions[s] EXCEPT !.row = "deleted"]
  <2>1. ~(InsertCommit(r) /\ ctx[r].sid = s)
    BY <1>1 DEF InsertCommit, SafetyInv, RequestInv, Pending
  <2>2. ~(RotateCommit(r) /\ ctx[r].sid = s)
    BY <1>1 DEF RotateCommit, SafetyInv, RequestInv, Rotating, Live
  <2> QED BY <1>1, <1>6, <2>1, <2>2, SessionEffect
<1>7. CASE Environment
  BY <1>2, <1>4, <1>7, EnvironmentEffect DEF SafetyInv
<1>8. CASE UNCHANGED vars
  BY <1>2, <1>8 DEF vars, db
<1> QED BY <1>2, <1>3, <1>5, <1>6, <1>7, <1>8 DEF Next

\* Nothing brings a revoked session back or moves its refresh token.
THEOREM RevokedForever == Spec => RevokedIsFinal
<1>1. SafetyInv /\ [Next]_vars => [RevokedStays]_vars
  BY RevokedStaysStep
<1> QED BY <1>1, SafetyInvariant, PTL DEF Spec, RevokedIsFinal

LEMMA RotationSpendsStep ==
    ASSUME SafetyInv, [Next]_vars
    PROVE  RotationSpends
<1> SUFFICES ASSUME NEW s \in SessionIds, Stored(s)
             PROVE  \/ /\ sessions'[s].version = sessions[s].version
                       /\ sessions'[s].iat = sessions[s].iat
                    \/ /\ sessions'[s].version = sessions[s].version + 1
                       /\ \E r \in Requests :
                            /\ pc[r] # "idle" /\ pc'[r] = "idle"
                            /\ ctx[r].sid = s
                            /\ ctx[r].version = sessions[s].version
  BY DEF RotationSpends
<1>1. sessions[s] \in Session /\ sessions[s].row = "stored"
  BY DEF SafetyInv, TypeInv, TypeRows, Stored
<1>2. CASE sessions'[s] = sessions[s]
  BY <1>2
<1>3. CASE sessions'[s] = [sessions[s] EXCEPT !.revoked = TRUE]
  BY <1>1, <1>3, ZenonT(40) DEF Session
<1>4. CASE sessions'[s] = [sessions[s] EXCEPT !.expired = TRUE]
  BY <1>1, <1>4, ZenonT(40) DEF Session
<1>5. CASE sessions'[s] = [sessions[s] EXCEPT !.row = "deleted"]
  BY <1>1, <1>5, ZenonT(40) DEF Session
<1>6. ASSUME NEW r \in Requests, RotateCommit(r), ctx[r].sid = s,
             sessions'[s] = [sessions[s] EXCEPT !.version = @ + 1, !.iat = ctx[r].iat]
      PROVE  /\ sessions'[s].version = sessions[s].version + 1
             /\ pc[r] # "idle" /\ pc'[r] = "idle"
             /\ ctx[r].version = sessions[s].version
  <2>1. sessions'[s].version = sessions[s].version + 1
    BY <1>1, <1>6 DEF Session
  <2>2. ctx[r].version = sessions[s].version
    BY <1>6 DEF RotateCommit, SafetyInv, RequestInv, Rotating
  <2>3. pc[r] # "idle" /\ pc'[r] = "idle"
    BY <1>6, Went DEF RotateCommit, Finish, SafetyInv
  <2> QED BY <2>1, <2>2, <2>3
<1>7. ASSUME NEW r \in Requests, Begin(r) \/ Continue(r) \/ Rollback(r)
      PROVE  \/ sessions'[s] = sessions[s]
             \/ sessions'[s] = [sessions[s] EXCEPT !.revoked = TRUE]
             \/ sessions'[s] = [sessions[s] EXCEPT !.row = "deleted"]
             \/ /\ RotateCommit(r) /\ ctx[r].sid = s
                /\ sessions'[s] = [sessions[s] EXCEPT !.version = @ + 1,
                                                     !.iat = ctx[r].iat]
  <2>1. ~(InsertCommit(r) /\ ctx[r].sid = s)
    BY <1>1 DEF InsertCommit, SafetyInv, RequestInv, Pending
  <2> QED BY <1>1, <1>7, <2>1, SessionEffect
<1>8. CASE Environment
  BY <1>2, <1>4, <1>8, EnvironmentEffect DEF SafetyInv
<1>9. CASE UNCHANGED vars
  BY <1>2, <1>9 DEF vars, db
<1> QED BY <1>2, <1>3, <1>5, <1>6, <1>7, <1>8, <1>9 DEF Next

\* FR-02 for any number of concurrent requests: whoever moves a session's refresh
\* token presented the one it replaces.
THEOREM RotationSpendsAlways == Spec => RotationSpendsCurrentToken
<1>1. SafetyInv /\ [Next]_vars => [RotationSpends]_vars
  BY RotationSpendsStep
<1> QED BY <1>1, SafetyInvariant, PTL DEF Spec, RotationSpendsCurrentToken

LEMMA ResetSpendsStep ==
    ASSUME SafetyInv, [Next]_vars
    PROVE  ResetSpends
<1> SUFFICES ASSUME NEW u \in Users,
                    users'[u].password_hash # users[u].password_hash
             PROVE  /\ users'[u].auth_epoch # users[u].auth_epoch
                    /\ \E k \in UnusedLinksOf(u) :
                         links[k].pw = users[u].password_hash /\ links'[k].used
                    /\ UnusedLinksOf(u)' = {}
  BY DEF ResetSpends
<1>1. PICK r \in Requests : ResetCommit(r) /\ ctx[r].user = u
  <2>1. ~Environment
    BY EnvironmentEffect DEF SafetyInv, SameAccount
  <2>2. ~UNCHANGED vars
    BY DEF vars, db
  <2> QED BY <2>1, <2>2, HashChanges DEF Next
<1> DEFINE k == ctx[r].link
<1>2. /\ k \in ResetIds /\ links[k].row = "stored" /\ links[k].user = u
      /\ ~links[k].used
  BY <1>1, ContextType DEF ResetCommit, NamesOf, SafetyInv, RequestInv, Redeeming
<1>3. k \in UnusedLinksOf(u) /\ links[k].pw = users[u].password_hash
  BY <1>2 DEF UnusedLinksOf, SafetyInv, NoStaleLink
<1>4. ASSUME NEW x \in Link, NEW y, y = [x EXCEPT !.used = TRUE]
      PROVE  y.used
  BY <1>4, Zenon DEF Link
<1>5. /\ links' = ConsumeOutstanding(u)
      /\ \A x \in ResetIds : links[x] \in Link
  BY <1>1 DEF ResetCommit, SafetyInv, TypeInv, TypeRows
<1>6. links'[k].used
  BY <1>2, <1>3, <1>4, <1>5 DEF ConsumeOutstanding
<1>7. ASSUME NEW x \in ResetIds, links'[x].row = "stored", ~links'[x].used,
             links'[x].user = u
      PROVE  FALSE
  <2>1. x \notin UnusedLinksOf(u)
    BY <1>4, <1>5, <1>7 DEF ConsumeOutstanding
  <2>2. links'[x] = links[x]
    BY <1>5, <2>1 DEF ConsumeOutstanding
  <2> QED BY <1>7, <2>1, <2>2 DEF UnusedLinksOf
<1>8. users'[u].auth_epoch # users[u].auth_epoch
  BY <1>1 DEF ResetCommit, ChangePassword, SafetyInv, TypeInv, TypeRows, User
<1> QED BY <1>3, <1>6, <1>7, <1>8 DEF UnusedLinksOf

\* A password never changes but by an unused link mailed under it, which is spent
\* with every other link of the account.
THEOREM ResetSpendsAlways == Spec => ResetSpendsCurrentLink
<1>1. SafetyInv /\ [Next]_vars => [ResetSpends]_vars
  BY ResetSpendsStep
<1> QED BY <1>1, SafetyInvariant, PTL DEF Spec, ResetSpendsCurrentLink

-----------------------------------------------------------------------------
(* Deadlocks. Holds says which locks a request has at each step; here is the *)
(* converse, which step the holder of a lock is at.                          *)

UserHolders == {"insert_commit", "audit_commit", "refresh_session", "rotate_commit",
                "revoke_commit", "reset_commit", "active_commit"}
SessionHolders == {"rotate_commit", "revoke_commit", "logout_audit"}
LinkHolders == {"reset_user", "reset_commit"}
Purges == {"purge_row", "purge_cascade"}

HeldBy(q) ==
    /\ \A u \in Users : user_lock[u] = q =>
         \/ pc[q] \in UserHolders /\ ctx[q].user = u
         \/ pc[q] \in Purges /\ u \in ctx[q].purging
    /\ \A s \in SessionIds :
         session_lock[s] = q => pc[q] \in SessionHolders /\ ctx[q].sid = s
    /\ \A k \in ResetIds :
         link_lock[k] = q => pc[q] \in LinkHolders /\ ctx[q].link = k

\* A logout names the owner of its session.
LogoutOwner(q) ==
    pc[q] = "logout_audit" =>
        /\ sessions[ctx[q].sid].row \in {"stored", "deleted"}
        /\ sessions[ctx[q].sid].user = ctx[q].user

LockInv == SafetyInv /\ \A q \in Requests : HeldBy(q) /\ LogoutOwner(q)

\* r takes locks for itself only.
TakesOnly(r) ==
    /\ \A u \in Users : user_lock'[u] \in {user_lock[u], r, Nil}
    /\ \A s \in SessionIds : session_lock'[s] \in {session_lock[s], r, Nil}
    /\ \A k \in ResetIds : link_lock'[k] \in {link_lock[k], r, Nil}

LEMMA FinishHolds ==
    ASSUME TypeInv, NEW r \in Requests, Finish(r)
    PROVE  HeldBy(r)' /\ LogoutOwner(r)' /\ TakesOnly(r)
<1>1. pc'[r] = "idle"
  BY Went DEF Finish
<1>2. r # Nil
  BY NilAssumption
<1>3. /\ \A u \in Users : user_lock'[u] \in {user_lock[u], Nil} \ {r}
      /\ \A s \in SessionIds : session_lock'[s] \in {session_lock[s], Nil} \ {r}
      /\ \A k \in ResetIds : link_lock'[k] \in {link_lock[k], Nil} \ {r}
  BY <1>2 DEF Finish
<1> QED BY <1>1, <1>3 DEF HeldBy, LogoutOwner, TakesOnly

LEMMA GoHolds ==
    ASSUME LockInv, NEW r \in Requests, NEW label, NEW c, Go(r, label, c),
           pc[r] \notin Purges,
           \/ UNCHANGED user_lock
           \/ \E u \in Users : c.user = u /\ LockUser(r, u),
           \/ UNCHANGED session_lock
           \/ \E s \in SessionIds : c.sid = s /\ session_lock' = [session_lock EXCEPT ![s] = r],
           \/ UNCHANGED link_lock
           \/ \E k \in ResetIds : c.link = k /\ link_lock' = [link_lock EXCEPT ![k] = r],
           (pc[r] \in UserHolders \/ user_lock' # user_lock) =>
              label \in UserHolders /\ (pc[r] \in UserHolders => c.user = ctx[r].user),
           (pc[r] \in SessionHolders \/ session_lock' # session_lock) =>
              label \in SessionHolders /\ (pc[r] \in SessionHolders => c.sid = ctx[r].sid),
           (pc[r] \in LinkHolders \/ link_lock' # link_lock) =>
              label \in LinkHolders /\ (pc[r] \in LinkHolders => c.link = ctx[r].link)
    PROVE  HeldBy(r)' /\ TakesOnly(r)
<1>1. pc'[r] = label /\ ctx'[r] = c
  BY Went DEF LockInv, SafetyInv
<1>2. /\ user_lock \in [Users -> Requests \cup {Nil}]
      /\ session_lock \in [SessionIds -> Requests \cup {Nil}]
      /\ link_lock \in [ResetIds -> Requests \cup {Nil}]
  BY DEF LockInv, SafetyInv, TypeInv, TypeLocks
<1>3. HeldBy(r)
  BY DEF LockInv
<1>4. ASSUME NEW u \in Users
      PROVE  /\ user_lock'[u] \in {user_lock[u], r}
             /\ user_lock'[u] = r => label \in UserHolders /\ c.user = u
  BY <1>2, <1>3 DEF HeldBy, LockUser
<1>5. ASSUME NEW s \in SessionIds
      PROVE  /\ session_lock'[s] \in {session_lock[s], r}
             /\ session_lock'[s] = r => label \in SessionHolders /\ c.sid = s
  BY <1>2, <1>3 DEF HeldBy
<1>6. ASSUME NEW k \in ResetIds
      PROVE  /\ link_lock'[k] \in {link_lock[k], r}
             /\ link_lock'[k] = r => label \in LinkHolders /\ c.link = k
  BY <1>2, <1>3 DEF HeldBy
<1> QED BY <1>1, <1>4, <1>5, <1>6 DEF HeldBy, TakesOnly

LEMMA PurgeHolds ==
    ASSUME LockInv, NEW r \in Requests, PurgeRow(r)
    PROVE  HeldBy(r)' /\ LogoutOwner(r)' /\ TakesOnly(r)
<1> DEFINE u == ctx[r].user
           purging == ctx[r].purging \cup (IF users[u].present THEN {u} ELSE {})
<1> USE DEF UserHolders, SessionHolders, LinkHolders, Purges
<1>1. /\ SafetyInv /\ TypeInv /\ HeldBy(r) /\ u \in Users /\ ctx[r] \in Context
      /\ pc[r] = "purge_row"
  BY ContextType DEF LockInv, SafetyInv, PurgeRow, NamesOf
<1>2. PICK label \in Purges, w \in Users :
        Go(r, label, [ctx[r] EXCEPT !.user = w, !.purging = purging])
  <2>1. [ctx[r] EXCEPT !.purging = purging] = [ctx[r] EXCEPT !.user = u, !.purging = purging]
    BY <1>1 DEF Context
  <2> QED BY <1>1, <2>1 DEF PurgeRow
<1>3. pc'[r] = label /\ ctx'[r].purging = purging
  <2> HIDE DEF purging
  <2>1. pc'[r] = label /\ ctx'[r] = [ctx[r] EXCEPT !.user = w, !.purging = purging]
    BY <1>1, <1>2, Went DEF SafetyInv
  <2> QED BY <1>1, <2>1 DEF Context
<1>4. /\ \A v \in Users :
            \/ user_lock'[v] = user_lock[v]
            \/ v = u /\ users[u].present /\ user_lock'[v] = r
      /\ session_lock' = session_lock /\ link_lock' = link_lock
  BY <1>1 DEF PurgeRow, LockUser, TypeInv, TypeLocks
<1>5. HeldBy(r)'
  BY <1>1, <1>3, <1>4 DEF HeldBy
<1> QED BY <1>3, <1>4, <1>5 DEF LogoutOwner, TakesOnly

LEMMA BeginHolds ==
    ASSUME LockInv, NEW r \in Requests, Begin(r)
    PROVE  HeldBy(r)' /\ LogoutOwner(r)' /\ TakesOnly(r)
<1> USE DEF UserHolders, SessionHolders, LinkHolders, Purges
<1>1. ASSUME NEW label, NEW c, Go(r, label, c), pc[r] = "idle", UNCHANGED locks,
             label # "logout_audit"
      PROVE  HeldBy(r)' /\ LogoutOwner(r)' /\ TakesOnly(r)
  <2>1. pc'[r] = label
    BY <1>1, Went DEF LockInv, SafetyInv
  <2>2. HeldBy(r)' /\ TakesOnly(r)
    BY <1>1, GoHolds DEF locks
  <2> QED BY <1>1, <2>1, <2>2 DEF LogoutOwner
<1>2. ASSUME NEW t \in access_tokens, LogoutLock(r, t)
      PROVE  HeldBy(r)' /\ LogoutOwner(r)' /\ TakesOnly(r)
  <2> DEFINE c == [Blank EXCEPT !.user = sessions[t.sid].user, !.sid = t.sid]
  <2>1. c.sid = t.sid /\ c.user = sessions[t.sid].user /\ t.sid \in SessionIds
    BY DEF Blank, LockInv, SafetyInv, TypeInv, TypeTokens, AccessToken
  <2>2. Go(r, "logout_audit", c) /\ pc[r] = "idle"
    BY <1>2 DEF LogoutLock
  <2>3. pc'[r] = "logout_audit" /\ ctx'[r] = c
    BY <2>2, Went DEF LockInv, SafetyInv
  <2>4. HeldBy(r)' /\ TakesOnly(r)
    BY <1>2, <2>1, <2>2, GoHolds DEF LogoutLock
  <2>5. LogoutOwner(r)'
    BY <1>2, <2>1, <2>3 DEF LogoutLock, LogoutOwner, Live, Stored, db
  <2> QED BY <2>4, <2>5
<1>3. ASSUME NEW k \in ResetIds, ResetLockLink(r, k)
      PROVE  HeldBy(r)' /\ LogoutOwner(r)' /\ TakesOnly(r)
  <2> DEFINE c == [Blank EXCEPT !.user = links[k].user, !.link = k]
  <2>1. c.link = k
    BY DEF Blank
  <2>2. Go(r, "reset_user", c) /\ pc[r] = "idle"
    BY <1>3 DEF ResetLockLink
  <2>3. pc'[r] = "reset_user"
    BY <2>2, Went DEF LockInv, SafetyInv
  <2>4. HeldBy(r)' /\ TakesOnly(r)
    BY <1>3, <2>1, <2>2, GoHolds DEF ResetLockLink
  <2> QED BY <2>3, <2>4 DEF LogoutOwner
<1>4. ASSUME NEW a \in Users \cup {Nil}, NEW u \in Users, SetActiveLock(r, a, u)
      PROVE  HeldBy(r)' /\ LogoutOwner(r)' /\ TakesOnly(r)
  <2> DEFINE c == [Blank EXCEPT !.user = u, !.actor = a]
  <2>1. c.user = u
    BY DEF Blank
  <2>2. Go(r, "active_commit", c) /\ pc[r] = "idle" /\ LockUser(r, u)
    BY <1>4 DEF SetActiveLock
  <2>3. pc'[r] = "active_commit"
    BY <2>2, Went DEF LockInv, SafetyInv
  <2>4. HeldBy(r)' /\ TakesOnly(r)
    BY <1>4, <2>1, <2>2, GoHolds DEF SetActiveLock
  <2> QED BY <2>3, <2>4 DEF LogoutOwner
<1> QED BY <1>1, <1>2, <1>3, <1>4
   DEF Begin, LoginRead, VerifyResolve, RefreshPeek, RequestResetRead, EnrollClaims,
       PurgeBegin

LEMMA ContinueHolds ==
    ASSUME LockInv, NEW r \in Requests, Continue(r) \/ Rollback(r)
    PROVE  HeldBy(r)' /\ LogoutOwner(r)' /\ TakesOnly(r)
<1> USE DEF UserHolders, SessionHolders, LinkHolders, Purges
<1>1. ASSUME Finish(r) PROVE HeldBy(r)' /\ LogoutOwner(r)' /\ TakesOnly(r)
  BY <1>1, FinishHolds DEF LockInv, SafetyInv
<1>2. CASE \/ LoginRefused(r) \/ InsertCommit(r) \/ AuditCommit(r)
           \/ CompleteRefused(r) \/ RefreshRefused(r) \/ RotateCommit(r)
           \/ RevokeCommit(r) \/ LogoutCommit(r) \/ ResetRefused(r)
           \/ ResetCommit(r) \/ SetActiveCommit(r) \/ EnrollCommit(r)
           \/ PurgeCommit(r) \/ \E k \in ResetIds : RequestResetInsert(r, k)
           \/ Rollback(r)
  BY <1>1, <1>2
     DEF LoginRefused, InsertCommit, AuditCommit, CompleteRefused, RefreshRefused,
         RotateCommit, RevokeCommit, LogoutCommit, ResetRefused, ResetCommit,
         SetActiveCommit, EnrollCommit, PurgeCommit, RequestResetInsert, Rollback
<1>3. /\ TypeInv /\ ctx[r] \in Context
      /\ pc[r] \notin {"idle", "request_insert"} => ctx[r].user \in Users
  BY ContextType DEF LockInv, SafetyInv, NamesOf
<1>4. ASSUME NEW label, Go(r, label, ctx[r]) PROVE pc'[r] = label
  BY <1>3, <1>4, Went
<1>5. ASSUME NEW s \in SessionIds, NEW i \in Stamps,
             LoginMint(r, s, i) \/ CompleteMfaLogin(r, s, i)
      PROVE  HeldBy(r)' /\ LogoutOwner(r)' /\ TakesOnly(r)
  <2> DEFINE c == [ctx[r] EXCEPT !.sid = s, !.iat = i]
  <2>1. c.user = ctx[r].user
    BY <1>3 DEF Context
  <2>2. /\ Go(r, "insert_commit", c) /\ LockUser(r, ctx[r].user)
        /\ pc[r] \in {"login_lock", "verify_factor"}
        /\ UNCHANGED <<session_lock, link_lock>>
    BY <1>5 DEF LoginMint, CompleteMfaLogin, MintSession
  <2>3. pc'[r] = "insert_commit"
    BY <1>3, <2>2, Went
  <2>4. HeldBy(r)' /\ TakesOnly(r)
    BY <1>3, <2>1, <2>2, GoHolds
  <2> QED BY <2>3, <2>4 DEF LogoutOwner
<1>6. ASSUME NEW c \in ChallengeIds, LoginChallenge(r, c)
      PROVE  HeldBy(r)' /\ LogoutOwner(r)' /\ TakesOnly(r)
  BY <1>3, <1>4, <1>6, GoHolds DEF LoginChallenge, LogoutOwner
<1>7. CASE VerifyConsume(r)
  BY <1>1, <1>3, <1>4, <1>7, GoHolds DEF VerifyConsume, LogoutOwner, locks
<1>8. CASE RefreshLockUser(r)
  BY <1>3, <1>4, <1>8, GoHolds DEF RefreshLockUser, LogoutOwner
<1>9. CASE RefreshTerminate(r)
  <2>1. ctx[r].sid \in SessionIds
    BY <1>3, <1>9, LockSessionTaken DEF RefreshTerminate
  <2> QED BY <1>4, <1>9, <2>1, GoHolds
     DEF RefreshTerminate, RefreshLockSession, LogoutOwner
<1>10. ASSUME NEW i \in Stamps, RefreshMint(r, i)
       PROVE  HeldBy(r)' /\ LogoutOwner(r)' /\ TakesOnly(r)
  <2> DEFINE c == [ctx[r] EXCEPT !.iat = i]
  <2>1. c.user = ctx[r].user /\ c.sid = ctx[r].sid
    BY <1>3 DEF Context
  <2>2. ctx[r].sid \in SessionIds
    BY <1>3, <1>10, LockSessionTaken DEF RefreshMint
  <2>3. Go(r, "rotate_commit", c) /\ RefreshLockSession(r)
    BY <1>10 DEF RefreshMint
  <2>4. pc'[r] = "rotate_commit"
    BY <1>3, <2>3, Went
  <2>5. HeldBy(r)' /\ TakesOnly(r)
    BY <2>1, <2>2, <2>3, GoHolds DEF RefreshLockSession
  <2> QED BY <2>4, <2>5 DEF LogoutOwner
<1>11. CASE ResetLockUser(r)
  BY <1>3, <1>4, <1>11, GoHolds DEF ResetLockUser, LogoutOwner
<1>12. CASE EnrollMint(r)
  BY <1>3, <1>4, <1>12, GoHolds DEF EnrollMint, LogoutOwner, locks
<1> QED BY <1>2, <1>5, <1>6, <1>7, <1>8, <1>9, <1>10, <1>11, <1>12, PurgeHolds
   DEF Continue

\* Whose session it is does not change, whatever the step.
LEMMA OwnerStays ==
    ASSUME SafetyInv, [Next]_vars, NEW s \in SessionIds,
           sessions[s].row \in {"stored", "deleted"}
    PROVE  /\ sessions'[s].row \in {"stored", "deleted"}
           /\ sessions'[s].user = sessions[s].user
<1>1. ASSUME NEW r \in Requests, Begin(r) \/ Continue(r) \/ Rollback(r)
      PROVE  /\ sessions'[s].row \in {"stored", "deleted"}
             /\ sessions'[s].user = sessions[s].user
  <2>1. ~(InsertCommit(r) /\ ctx[r].sid = s)
    BY DEF SafetyInv, RequestInv, Pending, InsertCommit
  <2> QED BY <1>1, <2>1, SessionKeeps
<1>2. CASE Environment
  <2>1. ASSUME NEW x \in Session, NEW y, y = [x EXCEPT !.expired = TRUE]
        PROVE  y.user = x.user /\ y.row = x.row
    BY <2>1, ZenonT(40) DEF Session
  <2>2. sessions[s] \in Session
    BY DEF SafetyInv, TypeInv, TypeRows
  <2> QED BY <1>2, <2>1, <2>2, EnvironmentEffect DEF SafetyInv
<1>3. CASE UNCHANGED vars
  BY <1>3 DEF vars, db
<1> QED BY <1>1, <1>2, <1>3 DEF Next

LEMMA LockStep == LockInv /\ [Next]_vars => LockInv'
<1> SUFFICES ASSUME LockInv, [Next]_vars PROVE LockInv'
  OBVIOUS
<1>1. SafetyInv /\ SafetyInv'
  BY SafetyStep DEF LockInv
<1>2. ASSUME NEW q \in Requests, pc'[q] = pc[q], ctx'[q] = ctx[q] PROVE LogoutOwner(q)'
  <2>1. LogoutOwner(q) /\ (pc[q] = "logout_audit" => ctx[q].sid \in SessionIds)
    BY <1>1, ContextType DEF LockInv, SafetyInv, NamesOf, SidLabels
  <2> QED BY <1>1, <1>2, <2>1, OwnerStays DEF LogoutOwner
<1>3. ASSUME NEW r \in Requests, Begin(r) \/ Continue(r) \/ Rollback(r), NEW q \in Requests
      PROVE  HeldBy(q)' /\ LogoutOwner(q)'
  <2>1. HeldBy(r)' /\ LogoutOwner(r)' /\ TakesOnly(r)
    BY <1>3, BeginHolds, ContinueHolds
  <2>2. CASE q # r
    <3>1. pc'[q] = pc[q] /\ ctx'[q] = ctx[q] /\ q # Nil
      BY <1>1, <1>3, <2>2, StepsAlone, NilAssumption DEF MovesAlone, SafetyInv
    <3>2. HeldBy(q)
      BY DEF LockInv
    <3>3. HeldBy(q)'
      BY <2>1, <2>2, <3>1, <3>2 DEF HeldBy, TakesOnly
    <3> QED BY <1>2, <3>1, <3>3
  <2> QED BY <2>1, <2>2
<1>4. CASE Environment \/ UNCHANGED vars
  <2>1. UNCHANGED <<pc, ctx, user_lock, session_lock, link_lock>>
    BY <1>1, <1>4, EnvironmentEffect DEF SafetyInv, vars, locks
  <2>2. ASSUME NEW q \in Requests PROVE HeldBy(q)' /\ LogoutOwner(q)'
    BY <1>2, <2>1 DEF LockInv, HeldBy
  <2> QED BY <1>1, <2>2 DEF LockInv
<1> QED BY <1>1, <1>3, <1>4 DEF Next, LockInv

\* Whoever holds a row lock is at a step that needs the row, of a request about it.
THEOREM LockInvariant == Spec => []LockInv
<1>1. Init => LockInv
  <2> SUFFICES ASSUME Init PROVE LockInv
    OBVIOUS
  <2>1. \A q \in Requests : HeldBy(q) /\ LogoutOwner(q)
    BY NilAssumption DEF Init, HeldBy, LogoutOwner
  <2> QED BY <2>1, SafetyInit DEF LockInv
<1> QED BY <1>1, LockStep, PTL DEF Spec

\* Whoever is waited for holds the row: what a request that waits is part of.
LEMMA WaitMeans ==
    ASSUME LockInv, NEW r \in Requests, NEW q \in WaitsFor(r), WaitsFor(q) # {}
    PROVE  \/ LogoutCrosses(q, r)
           \/ LinksCross(q, r)
           \/ PurgeCrosses(r, q)
           \/ /\ pc[r] \notin {"refresh_session", "reset_commit", "purge_cascade"}
              /\ \E u \in Users :
                   /\ UserRowsWanted(r) = {u} /\ user_lock[u] = q
                   /\ \/ /\ pc[q] \in {"refresh_session", "reset_commit", "active_commit"}
                         /\ ctx[q].user = u
                      \/ pc[q] \in Purges /\ u \in ctx[q].purging
<1> USE DEF UserHolders, SessionHolders, LinkHolders
<1>1. /\ SafetyInv /\ TypeInv /\ HeldBy(q) /\ HeldBy(r) /\ LogoutOwner(q)
      /\ RequestInv(q) /\ RequestInv(r) /\ q \in Requests /\ q # r
  BY DEF LockInv, SafetyInv, WaitsFor
<1>2. /\ ctx[r].user \in Users \cup {Nil} /\ ctx[r].actor \in Users \cup {Nil}
      /\ ctx[r].sid \in SessionIds \cup {Nil} /\ ctx[r].purging \subseteq Users
      /\ pc[r] = "refresh_session" => ctx[r].sid \in SessionIds
      /\ pc[r] \notin {"idle"} => ctx[r].user \in Users
  BY <1>1, ContextType DEF NamesOf, SidLabels, Context
<1>3. pc[q] \notin {"insert_commit", "audit_commit", "rotate_commit", "revoke_commit"}
  BY DEF WaitsFor, UserRowsWanted, SessionRowsWanted, LinkRowsWanted, CredentialRowsWanted
\* The purge holds all its accounts when it waits for what hangs on them.
<1>4. pc[r] = "purge_cascade" => \A u \in ctx[r].purging : user_lock[u] = r
  BY <1>1 DEF RequestInv, Holds
<1>5. ASSUME NEW s \in SessionRowsWanted(r), session_lock[s] = q
      PROVE  LogoutCrosses(q, r) \/ PurgeCrosses(r, q)
  <2>1. /\ s \in SessionIds
        /\ \/ /\ pc[r] \in {"refresh_session", "reset_commit", "active_commit"}
              /\ sessions[s].user = ctx[r].user
           \/ pc[r] = "purge_cascade" /\ sessions[s].user \in ctx[r].purging
    BY <1>1, <1>2, <1>5
       DEF SessionRowsWanted, LiveSessionsOf, SessionsOf, RequestInv, Owner
  <2>2. pc[q] = "logout_audit" /\ ctx[q].sid = s
    BY <1>1, <1>3, <1>5, <2>1 DEF HeldBy
  <2> QED BY <1>1, <2>1, <2>2 DEF LogoutCrosses, PurgeCrosses, LogoutOwner
<1>6. ASSUME NEW k \in LinkRowsWanted(r), link_lock[k] = q
      PROVE  LinksCross(q, r) \/ PurgeCrosses(r, q)
  <2>1. /\ k \in ResetIds
        /\ \/ /\ pc[r] = "reset_commit" /\ links[k].user = ctx[r].user
              /\ user_lock[ctx[r].user] = r /\ link_lock[ctx[r].link] = r
           \/ /\ pc[r] = "purge_cascade" /\ links[k].user \in ctx[r].purging
              /\ user_lock[links[k].user] = r
    BY <1>1, <1>4, <1>6 DEF LinkRowsWanted, UnusedLinksOf, LinksOf, RequestInv, Holds
  <2>2. pc[q] \in {"reset_user", "reset_commit"} /\ ctx[q].link = k
    BY <1>1, <1>6, <2>1 DEF HeldBy
  <2>3. ctx[q].user = links[k].user
    BY <1>1, <2>1, <2>2 DEF RequestInv, Redeeming
  <2>4. pc[q] # "reset_commit"
    BY <1>1, <2>1, <2>3 DEF RequestInv, Holds
  <2> QED BY <1>1, <1>6, <2>1, <2>2, <2>3, <2>4 DEF LinksCross, PurgeCrosses
<1>7. ASSUME CredentialRowsWanted(r) \cap CredentialRowsHeld(q) # {}
      PROVE  PurgeCrosses(r, q)
  BY <1>7 DEF CredentialRowsWanted, CredentialRowsHeld, PurgeCrosses
<1>8. ASSUME NEW u \in UserRowsWanted(r), user_lock[u] = q
      PROVE  /\ pc[r] \notin {"refresh_session", "reset_commit", "purge_cascade"}
             /\ u \in Users /\ UserRowsWanted(r) = {u}
             /\ \/ /\ pc[q] \in {"refresh_session", "reset_commit", "active_commit"}
                   /\ ctx[q].user = u
                \/ pc[q] \in Purges /\ u \in ctx[q].purging
  <2>1. /\ pc[r] # "idle" /\ u \in {ctx[r].user, ctx[r].actor} \ {Nil}
        /\ UserRowsWanted(r) = {u}
        /\ pc[r] \notin {"refresh_session", "reset_commit", "purge_cascade"}
    BY <1>2, <1>8, NilAssumption DEF UserRowsWanted
  <2> QED BY <1>1, <1>2, <1>3, <1>8, <2>1 DEF HeldBy
<1> QED BY <1>5, <1>6, <1>7, <1>8 DEF WaitsFor

LEMMA KnownOnly == LockInv => DeadlocksKnown
<1> SUFFICES ASSUME LockInv, NEW W \in SUBSET Requests, Deadlocked(W),
                    \A q, p \in W : /\ ~LogoutCrosses(q, p) /\ ~LinksCross(q, p)
                                    /\ ~PurgeCrosses(q, p)
             PROVE  \E q, p \in W : AdminsCross(q, p)
  BY DEF DeadlocksKnown
<1> DEFINE Waits(r, q, u) ==
             UserRowsWanted(r) = {u} /\ user_lock[u] = q /\ q \in WaitsFor(r)
\* Every member waits for a member that holds the users row it wants, and is at a
\* step that waits for such a row itself.
<1>1. ASSUME NEW r \in W
      PROVE  /\ pc[r] \notin {"refresh_session", "reset_commit", "purge_cascade"}
             /\ \E q \in W, u \in Users :
                  /\ Waits(r, q, u)
                  /\ \/ /\ pc[q] \in {"refresh_session", "reset_commit", "active_commit"}
                        /\ ctx[q].user = u
                     \/ pc[q] \in Purges /\ u \in ctx[q].purging
  <2>1. PICK q \in W : q \in WaitsFor(r)
    BY DEF Deadlocked
  <2>2. WaitsFor(q) # {}
    BY DEF Deadlocked
  <2> QED BY <2>1, <2>2, WaitMeans
<1>2. ASSUME NEW r \in W
      PROVE  \E q \in W, u \in Users :
               /\ Waits(r, q, u)
               /\ \/ pc[q] = "active_commit" /\ ctx[q].user = u
                  \/ pc[q] = "purge_row" /\ u \in ctx[q].purging
  BY <1>1 DEF Purges
\* A (de)activation among them waits for the row of an administrator other than
\* its target, which it holds itself.
<1>3. ASSUME NEW r \in W, pc[r] = "active_commit"
      PROVE  /\ UserRowsWanted(r) = {ctx[r].actor}
             /\ ctx[r].actor \notin {Nil, ctx[r].user}
  <2>1. PICK q \in W, u \in Users : Waits(r, q, u)
    BY <1>2
  <2>2. user_lock[ctx[r].user] = r /\ q # r
    BY <1>3, <2>1 DEF LockInv, SafetyInv, RequestInv, Holds, WaitsFor
  <2> QED BY <1>3, <2>1, <2>2 DEF UserRowsWanted
\* So no purge is among them.
<1>4. ASSUME NEW r \in W, pc[r] = "purge_row"
      PROVE  FALSE
  <2>1. PICK q \in W, u \in Users :
          /\ Waits(r, q, u)
          /\ \/ pc[q] = "active_commit" /\ ctx[q].user = u
             \/ pc[q] = "purge_row" /\ u \in ctx[q].purging
    BY <1>2
  <2>2. ctx[r].user = u
    BY <1>4, <2>1 DEF UserRowsWanted
  <2>3. PurgeCrosses(r, q)
    BY <1>3, <1>4, <2>1, <2>2 DEF PurgeCrosses
  <2> QED BY <2>3
<1>5. ASSUME NEW r \in W
      PROVE  \E q \in W : /\ q \in WaitsFor(r) /\ pc[q] = "active_commit"
                          /\ UserRowsWanted(r) = {ctx[q].user}
  BY <1>2, <1>4
<1>6. PICK r \in W : pc[r] = "active_commit"
  BY <1>5 DEF Deadlocked
<1>7. PICK q \in W : /\ q \in WaitsFor(r) /\ pc[q] = "active_commit"
                     /\ UserRowsWanted(r) = {ctx[q].user}
  BY <1>5
<1>8. ctx[r].actor = ctx[q].user /\ ctx[r].actor # ctx[r].user
      /\ ctx[q].actor \notin {Nil, ctx[q].user}
  BY <1>3, <1>6, <1>7
<1> QED BY <1>6, <1>7, <1>8 DEF AdminsCross

\* Whatever the number of requests, accounts and links, a deadlock of the row
\* locks is a logout against another operation on its account, two links of one
\* account redeemed at once, two administrators (de)activating accounts, or a
\* purge against what hangs on its accounts, a (de)activation or another purge.
THEOREM DeadlocksAlwaysKnown == Spec => []DeadlocksKnown
BY LockInvariant, KnownOnly, PTL

-----------------------------------------------------------------------------
(* Whose session it is. A token, a stored row and a login about to store one *)
(* never disagree about the account a session id stands for.                 *)

\* Something names u as the account of session s.
Names(u, s) ==
    \/ \E t \in access_tokens : t.sid = s /\ t.user = u
    \/ sessions[s].row \in {"stored", "deleted"} /\ sessions[s].user = u
    \/ \E r \in Requests : /\ pc[r] \in {"insert_commit", "enroll", "enroll_commit"}
                           /\ ctx[r].sid = s /\ ctx[r].user = u

\* What a request or an open challenge knows of administrators.
AdminNamed(r) ==
    /\ pc[r] \in {"verify_consume", "verify_factor", "enroll", "enroll_commit"} =>
         ctx[r].user \in Admins
    /\ pc[r] = "active_commit" => ctx[r].actor \in Admins \cup {Nil}
    /\ pc[r] = "logout_audit" => "logout" \in ops
    /\ pc[r] \in Purges => "purge" \in ops

NameInv ==
    /\ SafetyInv
    /\ \A s \in SessionIds, u, v \in Users : Names(u, s) /\ Names(v, s) => u = v
    /\ \A s \in SessionIds, u \in Users : Names(u, s) => sessions[s].row # "unused"
    /\ \A s \in factor_proven :
         sessions[s].row # "unused" /\ \A u \in Users : Names(u, s) => u \in Admins
    /\ \A r \in Requests : AdminNamed(r)
    /\ \A c \in ChallengeIds :
         challenges[c].state = "open" => challenges[c].user \in Admins

LEMMA MfaNeedsAdmin ==
    ASSUME NameInv, NEW t \in access_tokens, t.mfa
    PROVE  t.user \in Admins
<1>1. t.sid \in factor_proven /\ t.sid \in SessionIds /\ t.user \in Users
  BY DEF NameInv, SafetyInv, MfaClaimEarned, TypeInv, TypeTokens, AccessToken
<1> QED BY <1>1 DEF NameInv, Names

\* Which labels a step of r can lead to with which context.
LEMMA StepContext ==
    ASSUME SafetyInv, NEW r \in Requests, Begin(r) \/ Continue(r) \/ Rollback(r)
    PROVE  \/ pc'[r] \notin {"insert_commit", "verify_consume", "verify_factor",
                             "enroll", "enroll_commit", "active_commit", "logout_audit",
                             "purge_row", "purge_cascade"}
           \/ \E s \in SessionIds, i \in Stamps :
                /\ LoginMint(r, s, i) \/ CompleteMfaLogin(r, s, i)
                /\ pc'[r] = "insert_commit" /\ ctx'[r].sid = s
                /\ ctx'[r].user = ctx[r].user
           \/ \E c \in ChallengeIds :
                /\ challenges[c].state = "open"
                /\ pc'[r] = "verify_consume" /\ ctx'[r].user = challenges[c].user
           \/ /\ pc[r] = "verify_consume" /\ pc'[r] = "verify_factor"
              /\ ctx'[r].user = ctx[r].user
           \/ \E t \in access_tokens :
                /\ pc'[r] = "enroll" /\ ctx'[r].user = t.user /\ ctx'[r].sid = t.sid
                /\ t.user \in Admins
           \/ EnrollMint(r) /\ pc'[r] = "enroll_commit" /\ ctx'[r] = ctx[r]
           \/ /\ pc'[r] = "active_commit"
              /\ \/ ctx'[r].actor = Nil
                 \/ \E t \in access_tokens : t.mfa /\ ctx'[r].actor = t.user
           \/ pc'[r] = "logout_audit" /\ "logout" \in ops
           \/ pc'[r] \in Purges /\ ("purge" \in ops \/ pc[r] = "purge_row")
<1>1. ASSUME NEW label, NEW c, Go(r, label, c) PROVE pc'[r] = label /\ ctx'[r] = c
  BY <1>1, Went DEF SafetyInv
<1>2. Finish(r) => pc'[r] = "idle"
  BY <1>1 DEF Finish
<1>3. ctx[r] \in Context
  BY ContextType DEF SafetyInv
<1>4. CASE Begin(r)
  <2>1. CASE \/ \E u \in Users : LoginRead(r, u) \/ RequestResetRead(r, u)
             \/ \E t \in refresh_tokens : RefreshPeek(r, t)
             \/ \E k \in ResetIds : ResetLockLink(r, k)
    <3>1. pc'[r] \in {"login_lock", "request_insert", "refresh_user", "reset_user"}
      BY <1>1, <2>1 DEF LoginRead, RequestResetRead, RefreshPeek, ResetLockLink
    <3> QED BY <3>1
  <2>2. CASE \E c \in ChallengeIds : VerifyResolve(r, c)
    <3>1. PICK c \in ChallengeIds : VerifyResolve(r, c)
      BY <2>2
    <3> DEFINE user == challenges[c].user
               epoch == challenges[c].epoch
               pw == challenges[c].pw
    <3>2. /\ challenges[c].state = "open" /\ pc'[r] = "verify_consume"
          /\ ctx'[r] = [Blank EXCEPT !.user = user, !.challenge = c, !.epoch = epoch,
                                    !.pw = pw]
      BY <1>1, <3>1 DEF VerifyResolve
    <3> HIDE DEF user, epoch, pw
    <3>3. ctx'[r].user = user
      BY <3>2 DEF Blank
    <3> QED BY <3>2, <3>3 DEF user
  <2>3. CASE "logout" \in ops /\ \E t \in access_tokens : LogoutLock(r, t)
    BY <1>1, <2>3 DEF LogoutLock
  <2>4. CASE \E a \in Users \cup {Nil}, u \in Users : SetActiveLock(r, a, u)
    <3>1. PICK a \in Users \cup {Nil}, u \in Users : SetActiveLock(r, a, u)
      BY <2>4
    <3>2. pc'[r] = "active_commit" /\ ctx'[r] = [Blank EXCEPT !.user = u, !.actor = a]
      BY <1>1, <3>1 DEF SetActiveLock
    <3>3. ctx'[r].actor = a
      BY <3>2 DEF Blank
    <3> QED BY <3>1, <3>2, <3>3 DEF SetActiveLock
  <2>5. CASE \E t \in access_tokens : EnrollClaims(r, t)
    <3>1. PICK t \in access_tokens : EnrollClaims(r, t)
      BY <2>5
    <3> DEFINE user == t.user
               sid == t.sid
               epoch == t.epoch
               pw == t.pw
    <3>2. /\ t.user \in Admins /\ pc'[r] = "enroll"
          /\ ctx'[r] = [Blank EXCEPT !.user = user, !.sid = sid, !.epoch = epoch, !.pw = pw]
      BY <1>1, <3>1 DEF EnrollClaims
    <3> HIDE DEF user, sid, epoch, pw
    <3>3. ctx'[r].user = user /\ ctx'[r].sid = sid
      BY <3>2 DEF Blank
    <3> QED BY <3>2, <3>3 DEF user, sid
  <2>6. CASE "purge" \in ops /\ \E u \in Users : PurgeBegin(r, u)
    BY <1>1, <2>6 DEF PurgeBegin, Purges
  <2> QED BY <1>4, <2>1, <2>2, <2>3, <2>4, <2>5, <2>6 DEF Begin
<1>5. CASE Continue(r) \/ Rollback(r)
  <2>1. CASE \/ LoginRefused(r) \/ InsertCommit(r) \/ AuditCommit(r)
             \/ CompleteRefused(r) \/ RefreshRefused(r) \/ RotateCommit(r)
             \/ RevokeCommit(r) \/ LogoutCommit(r) \/ ResetRefused(r)
             \/ ResetCommit(r) \/ SetActiveCommit(r) \/ EnrollCommit(r)
             \/ PurgeCommit(r) \/ \E k \in ResetIds : RequestResetInsert(r, k)
             \/ Rollback(r)
    BY <1>2, <2>1
       DEF LoginRefused, InsertCommit, AuditCommit, CompleteRefused, RefreshRefused,
           RotateCommit, RevokeCommit, LogoutCommit, ResetRefused, ResetCommit,
           SetActiveCommit, EnrollCommit, PurgeCommit, RequestResetInsert, Rollback
  <2>2. CASE \/ RefreshLockUser(r) \/ RefreshTerminate(r) \/ ResetLockUser(r)
             \/ \E i \in Stamps : RefreshMint(r, i)
             \/ \E c \in ChallengeIds : LoginChallenge(r, c)
    <3>1. pc'[r] \in {"refresh_session", "revoke_commit", "reset_commit", "rotate_commit",
                       "audit_commit"}
      BY <1>1, <2>2
         DEF RefreshLockUser, RefreshTerminate, ResetLockUser, RefreshMint, LoginChallenge
    <3> QED BY <3>1
  <2>3. CASE VerifyConsume(r) \/ EnrollMint(r)
    BY <1>1, <1>2, <2>3 DEF VerifyConsume, EnrollMint
  <2>4. ASSUME NEW s \in SessionIds, NEW i \in Stamps,
               LoginMint(r, s, i) \/ CompleteMfaLogin(r, s, i)
        PROVE  /\ pc'[r] = "insert_commit" /\ ctx'[r].sid = s
               /\ ctx'[r].user = ctx[r].user
    BY <1>1, <1>3, <2>4 DEF LoginMint, CompleteMfaLogin, MintSession, Context
  <2>5. CASE PurgeRow(r)
    BY <1>1, <2>5 DEF PurgeRow, Purges
  <2> QED BY <1>5, <2>1, <2>2, <2>3, <2>4, <2>5 DEF Continue
<1> QED BY <1>4, <1>5

\* A step names an account for a session only if it was named before, or mints the
\* session.
LEMMA NameEffect ==
    ASSUME SafetyInv, NEW r \in Requests, Begin(r) \/ Continue(r) \/ Rollback(r),
           NEW s \in SessionIds, NEW u \in Users, Names(u, s)'
    PROVE  \/ Names(u, s)
           \/ /\ u = ctx[r].user
              /\ \E i \in Stamps : LoginMint(r, s, i) \/ CompleteMfaLogin(r, s, i)
<1>1. ASSUME NEW t \in access_tokens', t.sid = s, t.user = u, t \notin access_tokens
      PROVE  \/ Names(u, s)
             \/ /\ u = ctx[r].user
                /\ \E i \in Stamps : LoginMint(r, s, i) \/ CompleteMfaLogin(r, s, i)
  <2>1. ASSUME NEW x \in SessionIds, NEW i \in Stamps,
               LoginMint(r, x, i) \/ CompleteMfaLogin(r, x, i)
        PROVE  t.sid = x /\ t.user = ctx[r].user
    <3>1. \E mfa : t = [user |-> ctx[r].user, sid |-> x,
                        epoch |-> users[ctx[r].user].auth_epoch, mfa |-> mfa,
                        pw |-> ctx[r].pw]
      BY <1>1, <2>1 DEF LoginMint, CompleteMfaLogin, MintSession, IssueTokens
    <3> QED BY <3>1
  <2>2. ASSUME NEW i \in Stamps, RefreshMint(r, i) PROVE Names(u, s)
    <3>1. pc[r] = "refresh_session" /\ ctx[r].sid \in SessionIds
      BY <2>2, LockSessionTaken DEF RefreshMint, SafetyInv
    <3>2. Stored(ctx[r].sid) /\ sessions[ctx[r].sid].user = ctx[r].user
      BY <2>2, <3>1 DEF RefreshMint, AuthorizeRotation, Live, SafetyInv, RequestInv, Owner
    <3>3. t = [user |-> ctx[r].user, sid |-> ctx[r].sid,
               epoch |-> users[ctx[r].user].auth_epoch, mfa |-> RefreshedMfa(r),
               pw |-> sessions[ctx[r].sid].pw]
      BY <1>1, <2>2 DEF RefreshMint, IssueTokens
    <3>4. t.user = ctx[r].user /\ t.sid = ctx[r].sid
      BY <3>3
    <3> QED BY <1>1, <3>2, <3>4 DEF Names, Stored
  <2>3. ASSUME EnrollMint(r) PROVE Names(u, s)
    <3>1. t = [user |-> ctx[r].user, sid |-> ctx[r].sid, epoch |-> EnrollEpoch(r),
               mfa |-> TRUE, pw |-> ctx[r].pw]
      BY <1>1, <2>3 DEF EnrollMint
    <3>2. t.user = ctx[r].user /\ t.sid = ctx[r].sid /\ pc[r] = "enroll"
      BY <2>3, <3>1 DEF EnrollMint
    <3> QED BY <1>1, <3>2 DEF Names
  <2> QED BY <1>1, <2>1, <2>2, <2>3, TokenSources
<1>2. ASSUME sessions'[s].row \in {"stored", "deleted"}, sessions'[s].user = u
      PROVE  Names(u, s)
  <2>1. CASE InsertCommit(r) /\ ctx[r].sid = s
    <3>1. sessions'[s].user = ctx[r].user /\ pc[r] = "insert_commit"
      BY <2>1 DEF InsertCommit, SafetyInv, TypeInv, TypeRows
    <3> QED BY <1>2, <2>1, <3>1 DEF Names
  <2>2. CASE ~(InsertCommit(r) /\ ctx[r].sid = s)
    <3>1. sessions[s].row # "unused"
      <4>1. ASSUME NEW x \in Session, NEW n, NEW i
            PROVE  [x EXCEPT !.version = n, !.iat = i].row = x.row
        BY DEF Session
      <4>2. ASSUME NEW x \in Session, NEW y, y = [x EXCEPT !.revoked = TRUE]
            PROVE  y.row = x.row
        BY <4>2, ZenonT(40) DEF Session
      <4>3. sessions[s] \in Session
        BY DEF SafetyInv, TypeInv, TypeRows
      <4>4. \/ sessions'[s] = sessions[s]
            \/ sessions'[s].row = "taken"
            \/ sessions'[s] = [sessions[s] EXCEPT !.version = @ + 1, !.iat = ctx[r].iat]
            \/ sessions'[s] = [sessions[s] EXCEPT !.revoked = TRUE]
            \/ sessions[s].row = "stored"
        BY <2>2, SessionEffect DEF NameInv, Stored
      <4>5. \/ sessions'[s].row = "taken" \/ sessions'[s].row = sessions[s].row
            \/ sessions[s].row = "stored"
        <5> DEFINE a == sessions[s]
                   b == sessions'[s]
                   n == sessions[s].version + 1
                   i == ctx[r].iat
        <5>0. b = [a EXCEPT !.version = @ + 1, !.iat = ctx[r].iat]
                => b = [a EXCEPT !.version = n, !.iat = i]
          OBVIOUS
        <5> HIDE DEF n, i
        <5>1. b = [a EXCEPT !.version = n, !.iat = i] => b.row = a.row
          BY <4>1, <4>3
        <5>2. b = [a EXCEPT !.revoked = TRUE] => b.row = a.row
          BY <4>2, <4>3
        <5> QED BY <4>4, <5>0, <5>1, <5>2
      <4> QED BY <1>2, <4>5
    <3> QED BY <1>2, <2>2, <3>1, SessionKeeps DEF Names, Stored
  <2> QED BY <2>1, <2>2
<1>3. ASSUME NEW q \in Requests, pc'[q] \in {"insert_commit", "enroll", "enroll_commit"},
             ctx'[q].sid = s, ctx'[q].user = u
      PROVE  \/ Names(u, s)
             \/ /\ u = ctx[r].user
                /\ \E i \in Stamps : LoginMint(r, s, i) \/ CompleteMfaLogin(r, s, i)
  <2>1. CASE q # r
    <3>1. pc'[q] = pc[q] /\ ctx'[q] = ctx[q]
      BY <2>1, StepsAlone DEF MovesAlone, SafetyInv
    <3> QED BY <1>3, <3>1 DEF Names
  <2>2. CASE q = r
    BY <1>3, <2>2, StepContext DEF Names, EnrollMint, Purges
  <2> QED BY <2>1, <2>2
<1> QED BY <1>1, <1>2, <1>3 DEF Names

LEMMA NamesAfter ==
    ASSUME NameInv, NEW r \in Requests, Begin(r) \/ Continue(r) \/ Rollback(r),
           NEW s \in SessionIds
    PROVE  /\ \A u, v \in Users : Names(u, s)' /\ Names(v, s)' => u = v
           /\ (\E u \in Users : Names(u, s)') => sessions'[s].row # "unused"
           /\ s \in factor_proven' =>
                sessions'[s].row # "unused" /\ \A u \in Users : Names(u, s)' => u \in Admins
<1>1. SafetyInv /\ TypeInv /\ sessions[s] \in Session
  BY DEF NameInv, SafetyInv, TypeInv, TypeRows
<1>2. CASE \E i \in Stamps : LoginMint(r, s, i) \/ CompleteMfaLogin(r, s, i)
  <2>1. sessions[s].row = "unused" /\ sessions'[s].row = "taken"
    BY <1>1, <1>2 DEF LoginMint, CompleteMfaLogin, MintSession, TypeInv, TypeRows, Session
  <2>2. ASSUME NEW u \in Users, Names(u, s)' PROVE u = ctx[r].user
    BY <1>1, <2>1, <2>2, NameEffect DEF NameInv
  <2>3. s \in factor_proven' => ctx[r].user \in Admins
    BY <1>2, <2>1 DEF LoginMint, CompleteMfaLogin, NameInv, AdminNamed
  <2> QED BY <2>1, <2>2, <2>3
<1>3. CASE ~\E i \in Stamps : LoginMint(r, s, i) \/ CompleteMfaLogin(r, s, i)
  <2>1. \A u \in Users : Names(u, s)' => Names(u, s)
    BY <1>1, <1>3, NameEffect
  <2>2. sessions[s].row # "unused" => sessions'[s].row # "unused"
    <3>1. CASE InsertCommit(r) /\ ctx[r].sid = s
      BY <1>1, <3>1 DEF InsertCommit, TypeInv, TypeRows
    <3> QED BY <1>1, <3>1, SessionKeeps
  <2>3. CASE s \in factor_proven
    BY <2>1, <2>2, <2>3 DEF NameInv
  <2>4. CASE s \notin factor_proven /\ s \in factor_proven'
    <3>1. EnrollMint(r) /\ s = ctx[r].sid
      <4>1. CASE Begin(r) \/ Rollback(r)
        BY <2>4, <4>1
           DEF Begin, LoginRead, VerifyResolve, RefreshPeek, LogoutLock, RequestResetRead,
               ResetLockLink, SetActiveLock, EnrollClaims, PurgeBegin, Rollback
      <4>2. CASE Continue(r)
        BY <1>3, <2>4, <4>2
           DEF Continue, LoginMint, LoginChallenge, LoginRefused, InsertCommit,
               AuditCommit, VerifyConsume, CompleteMfaLogin, CompleteRefused,
               RefreshLockUser, RefreshTerminate, RefreshRefused, RefreshMint,
               RotateCommit, RevokeCommit, LogoutCommit, RequestResetInsert,
               ResetLockUser, ResetRefused, ResetCommit, SetActiveCommit, EnrollMint,
               EnrollCommit, PurgeRow, PurgeCommit
      <4> QED BY <4>1, <4>2
    <3>2. ctx[r].user \in Users /\ Names(ctx[r].user, s) /\ ctx[r].user \in Admins
      BY <1>1, <3>1, ContextType DEF EnrollMint, NamesOf, Names, NameInv, AdminNamed
    <3> QED BY <2>1, <2>2, <3>2 DEF NameInv
  <2> QED BY <2>1, <2>2, <2>3, <2>4 DEF NameInv
<1> QED BY <1>2, <1>3

\* An open challenge was there, or a login of an administrator opened it.
LEMMA ChallengeSources ==
    ASSUME SafetyInv, [Next]_vars, NEW c \in ChallengeIds, challenges'[c].state = "open"
    PROVE  \/ challenges'[c] = challenges[c]
           \/ \E r \in Requests :
                /\ LoginChallenge(r, c)
                /\ challenges'[c].user = ctx[r].user
<1>1. ASSUME NEW r \in Requests, VerifyConsume(r) PROVE challenges'[c] = challenges[c]
  BY <1>1 DEF VerifyConsume, SafetyInv, TypeInv, TypeRows, Challenge
<1>2. ASSUME NEW r \in Requests, Begin(r) \/ Rollback(r) PROVE challenges' = challenges
  BY <1>2 DEF Begin, LoginRead, VerifyResolve, RefreshPeek, LogoutLock,
              RequestResetRead, ResetLockLink, SetActiveLock, EnrollClaims,
              PurgeBegin, Rollback, redis
<1>3. ASSUME NEW r \in Requests, Continue(r),
             \A d \in ChallengeIds : ~LoginChallenge(r, d)
      PROVE  VerifyConsume(r) \/ challenges' = challenges
  BY <1>3
     DEF Continue, LoginMint, LoginRefused, InsertCommit, AuditCommit,
         CompleteMfaLogin, CompleteRefused, RefreshLockUser, RefreshTerminate,
         RefreshRefused, RefreshMint, RotateCommit, RevokeCommit, LogoutCommit,
         RequestResetInsert, ResetLockUser, ResetRefused, ResetCommit,
         SetActiveCommit, EnrollMint, EnrollCommit, PurgeRow, PurgeCommit, redis
<1>4. ASSUME NEW r \in Requests, NEW d \in ChallengeIds, LoginChallenge(r, d)
      PROVE  \/ challenges'[c] = challenges[c]
             \/ d = c /\ challenges'[c].user = ctx[r].user
  BY <1>4 DEF LoginChallenge, SafetyInv, TypeInv, TypeRows
<1>5. CASE UNCHANGED vars
  BY <1>5 DEF vars, redis
<1> QED BY <1>1, <1>2, <1>3, <1>4, <1>5, EnvironmentEffect DEF Next, SafetyInv

LEMMA NameStep == NameInv /\ [Next]_vars => NameInv'
<1> SUFFICES ASSUME NameInv, [Next]_vars PROVE NameInv'
  OBVIOUS
<1>1. SafetyInv /\ SafetyInv' /\ TypeInv
  BY SafetyStep DEF NameInv, SafetyInv
<1>2. ASSUME NEW c \in ChallengeIds, challenges'[c].state = "open"
      PROVE  challenges'[c].user \in Admins
  BY <1>1, <1>2, ChallengeSources DEF NameInv, LoginChallenge, ChallengeRequired
<1>3. ASSUME NEW r \in Requests, Begin(r) \/ Continue(r) \/ Rollback(r)
      PROVE  NameInv'
  <2>1. AdminNamed(r)'
    <3>1. AdminNamed(r) /\ ops' = ops
      BY OpsFixed DEF NameInv
    <3> QED BY <1>1, <1>3, <3>1, StepContext, MfaNeedsAdmin
       DEF AdminNamed, NameInv, EnrollMint, Purges
  <2>2. ASSUME NEW q \in Requests, q # r PROVE AdminNamed(q)'
    BY <1>1, <1>3, <2>2, StepsAlone, OpsFixed DEF MovesAlone, AdminNamed, NameInv
  <2>3. factor_proven' \subseteq SessionIds
    BY <1>1 DEF SafetyInv, TypeInv, TypeTokens
  <2> QED BY <1>1, <1>2, <1>3, <2>1, <2>2, <2>3, NamesAfter DEF NameInv
<1>4. CASE Environment \/ UNCHANGED vars
  <2>1. UNCHANGED <<access_tokens, pc, ctx, rest>>
    BY <1>1, <1>4, EnvironmentEffect DEF vars, tokens
  <2>2. ASSUME NEW s \in SessionIds
        PROVE  sessions'[s].user = sessions[s].user /\ sessions'[s].row = sessions[s].row
    <3>1. ASSUME NEW x \in Session, NEW y, y = [x EXCEPT !.expired = TRUE]
          PROVE  y.user = x.user /\ y.row = x.row
      BY <3>1, ZenonT(40) DEF Session
    <3>2. sessions[s] \in Session
      BY <1>1 DEF TypeInv, TypeRows
    <3>3. CASE sessions'[s] = sessions[s]
      BY <3>3
    <3>4. CASE Stored(s) /\ sessions'[s] = [sessions[s] EXCEPT !.expired = TRUE]
      BY <3>1, <3>2, <3>4
    <3> QED BY <1>1, <1>4, <3>3, <3>4, EnvironmentEffect DEF vars, db
  <2>3. ASSUME NEW s \in SessionIds, NEW u \in Users, Names(u, s)' PROVE Names(u, s)
    BY <2>1, <2>2, <2>3 DEF Names
  <2>4. \A q \in Requests : AdminNamed(q)'
    BY <2>1 DEF AdminNamed, NameInv
  <2>5. factor_proven \subseteq SessionIds
    BY <1>1 DEF TypeInv, TypeTokens
  <2> QED BY <1>1, <1>2, <2>1, <2>2, <2>3, <2>4, <2>5 DEF NameInv
<1> QED BY <1>3, <1>4 DEF Next

\* A session id stands for the account it was minted for, in every row, token and
\* request, and a second factor is only ever shown for an administrator's.
THEOREM NameInvariant == Spec => []NameInv
<1>1. Init => NameInv
  <2> SUFFICES ASSUME Init PROVE NameInv
    OBVIOUS
  <2>1. \A s, u : ~(s \in SessionIds /\ Names(u, s))
    BY DEF Init, Names, NoSession
  <2>2. \A r \in Requests : AdminNamed(r)
    BY DEF Init, AdminNamed, Purges
  <2> QED BY <2>1, <2>2, SafetyInit DEF Init, NameInv, NoChallenge
<1> QED BY <1>1, NameStep, PTL DEF Spec

\* A session id stands for one account: whatever a rolled back login, a rotation or
\* an enrolment signed, an access token names the account that owns the session.
OneAccountPerSession ==
    \A t \in access_tokens :
        /\ \A x \in access_tokens : x.sid = t.sid => x.user = t.user
        /\ Stored(t.sid) => sessions[t.sid].user = t.user

\* Only an administrator's token claims mfa.
MfaOnlyForAdmins == \A t \in access_tokens : t.mfa => t.user \in Admins

\* Neither a rolled back login nor a rotation makes one session id name two accounts.
THEOREM OneAccountAlways == Spec => []OneAccountPerSession
<1>1. NameInv => OneAccountPerSession
  <2> SUFFICES ASSUME NameInv, NEW t \in access_tokens
               PROVE  /\ \A x \in access_tokens : x.sid = t.sid => x.user = t.user
                      /\ Stored(t.sid) => sessions[t.sid].user = t.user
    BY DEF OneAccountPerSession
  <2>1. \A x \in access_tokens : x.sid \in SessionIds /\ x.user \in Users
    BY DEF NameInv, SafetyInv, TypeInv, TypeTokens, AccessToken
  <2>2. \A x \in access_tokens : Names(x.user, x.sid)
    BY DEF Names
  <2>3. ASSUME Stored(t.sid)
        PROVE  Names(sessions[t.sid].user, t.sid) /\ sessions[t.sid].user \in Users
    BY <2>1, <2>3 DEF Names, Stored, NameInv, SafetyInv, TypeInv, NamesInRows
  <2> QED BY <2>1, <2>2, <2>3 DEF NameInv
<1> QED BY <1>1, NameInvariant, PTL

\* No path to a token raises the mfa claim for a customer: neither the login nor the
\* enrolment of a second factor is open to one.
THEOREM MfaOnlyForAdminsAlways == Spec => []MfaOnlyForAdmins
<1>1. NameInv => MfaOnlyForAdmins
  BY MfaNeedsAdmin DEF MfaOnlyForAdmins
<1> QED BY <1>1, NameInvariant, PTL

\* Without logout and the purge, with one administrator and one link, the row locks
\* cannot deadlock: refresh, both halves of a login, a reset, a (de)activation and
\* an enrolment keep to one order of the rows.
THEOREM OrderedNeverDeadlock ==
    ASSUME \A W \in Workloads : "logout" \notin W /\ "purge" \notin W,
           \A a, b \in Admins : a = b,
           \A k, l \in ResetIds : k = l
    PROVE  Spec => []NoDeadlock
<1>1. LockInv /\ NameInv => NoDeadlock
  <2> SUFFICES ASSUME LockInv, NameInv, NEW W \in SUBSET Requests, Deadlocked(W)
               PROVE  FALSE
    BY DEF NoDeadlock
  <2>1. PICK q, p \in W : \/ LogoutCrosses(q, p) \/ LinksCross(q, p)
                          \/ AdminsCross(q, p) \/ PurgeCrosses(q, p)
    BY KnownOnly DEF DeadlocksKnown
  <2>2. AdminNamed(q) /\ AdminNamed(p) /\ "logout" \notin ops /\ "purge" \notin ops
    BY DEF NameInv, SafetyInv, TypeInv, TypeTokens
  <2>3. ~LogoutCrosses(q, p) /\ ~PurgeCrosses(q, p)
    BY <2>2 DEF LogoutCrosses, PurgeCrosses, AdminNamed, Purges
  <2>4. ~LinksCross(q, p)
    BY ContextType DEF LinksCross, NameInv, SafetyInv, NamesOf
  <2>5. ASSUME AdminsCross(q, p) PROVE FALSE
    <3>1. ctx[p].user \in Users
      BY <2>5, ContextType DEF AdminsCross, NameInv, SafetyInv, NamesOf
    <3> QED BY <2>2, <2>5, <3>1, NilAssumption DEF AdminsCross, AdminNamed
  <2> QED BY <2>1, <2>3, <2>4, <2>5
<1> QED BY <1>1, LockInvariant, NameInvariant, PTL

-----------------------------------------------------------------------------
(* Each operation as one step.                                              *)

\* A request about to change an account found it there under the lock it holds,
\* and a reset found it active; so did the purge, of never-verified accounts.
Found(r) ==
    /\ pc[r] \in {"reset_commit", "active_commit"} => users[ctx[r].user].present
    /\ pc[r] = "reset_commit" => users[ctx[r].user].is_active
    /\ pc[r] \in Purges =>
         /\ ctx[r].user \in Unverified
         /\ \A u \in ctx[r].purging : u \in Unverified /\ users[u].present

AccessInv == SafetyInv /\ \A r \in Requests : Found(r)

LEMMA FoundAfter ==
    ASSUME AccessInv, NEW r \in Requests, Begin(r) \/ Continue(r) \/ Rollback(r)
    PROVE  Found(r)'
<1>1. ASSUME NEW label, NEW c, Go(r, label, c),
             label # "reset_commit", label # "active_commit",
             label # "purge_row", label # "purge_cascade"
      PROVE  Found(r)'
  BY <1>1, Went DEF AccessInv, SafetyInv, Found, Purges
<1>2. CASE Finish(r)
  BY <1>1, <1>2 DEF Finish
<1>3. ASSUME NEW a \in Users \cup {Nil}, NEW u \in Users, SetActiveLock(r, a, u)
      PROVE  Found(r)'
  <2>1. /\ pc'[r] = "active_commit"
        /\ ctx'[r] = [Blank EXCEPT !.user = u, !.actor = a]
        /\ users[u].present /\ users' = users
    BY <1>3, Went DEF SetActiveLock, AccessInv, SafetyInv, db
  <2>2. ctx'[r].user = u
    BY <2>1 DEF Blank
  <2> QED BY <2>1, <2>2 DEF Found, Purges
<1>4. CASE ResetLockUser(r)
  <2>1. /\ pc'[r] = "reset_commit" /\ ctx'[r] = ctx[r]
        /\ CanAuthenticate(ctx[r].user) /\ users' = users
    BY <1>4, Went DEF ResetLockUser, ResetAllowed, AccessInv, SafetyInv, db
  <2> QED BY <2>1 DEF Found, CanAuthenticate, Purges
<1>5. CASE /\ Begin(r) /\ \A u \in Users : ~PurgeBegin(r, u)
           /\ ~\E a \in Users \cup {Nil}, u \in Users : SetActiveLock(r, a, u)
  BY <1>1, <1>5
     DEF Begin, LoginRead, VerifyResolve, RefreshPeek, LogoutLock, RequestResetRead,
         ResetLockLink, EnrollClaims
<1>6. CASE Continue(r) /\ ~ResetLockUser(r) /\ ~PurgeRow(r)
  <2>1. CASE \/ LoginRefused(r) \/ InsertCommit(r) \/ AuditCommit(r)
             \/ CompleteRefused(r) \/ RefreshRefused(r) \/ RotateCommit(r)
             \/ RevokeCommit(r) \/ LogoutCommit(r) \/ ResetRefused(r)
             \/ ResetCommit(r) \/ SetActiveCommit(r) \/ EnrollCommit(r)
             \/ PurgeCommit(r) \/ \E k \in ResetIds : RequestResetInsert(r, k)
    BY <1>2, <2>1
       DEF LoginRefused, InsertCommit, AuditCommit, CompleteRefused, RefreshRefused,
           RotateCommit, RevokeCommit, LogoutCommit, ResetRefused, ResetCommit,
           SetActiveCommit, EnrollCommit, PurgeCommit, RequestResetInsert
  <2>2. CASE \/ VerifyConsume(r) \/ RefreshLockUser(r) \/ RefreshTerminate(r)
             \/ EnrollMint(r)
             \/ \E i \in Stamps : RefreshMint(r, i)
             \/ \E c \in ChallengeIds : LoginChallenge(r, c)
    BY <1>1, <1>2, <2>2
       DEF VerifyConsume, RefreshLockUser, RefreshTerminate, EnrollMint, RefreshMint,
           LoginChallenge
  <2>3. CASE \E s \in SessionIds, i \in Stamps : LoginMint(r, s, i) \/ CompleteMfaLogin(r, s, i)
    BY <1>1, <2>3 DEF LoginMint, CompleteMfaLogin, MintSession
  <2> QED BY <1>6, <2>1, <2>2, <2>3 DEF Continue
<1>7. CASE Rollback(r)
  BY <1>2, <1>7 DEF Rollback
<1>8. ASSUME NEW u \in Users, PurgeBegin(r, u) PROVE Found(r)'
  <2>1. /\ pc'[r] = "purge_row" /\ ctx'[r] = [Blank EXCEPT !.user = u]
        /\ u \in Unverified
    BY <1>8, Went DEF PurgeBegin, Purgeable, AccessInv, SafetyInv
  <2>2. ctx'[r].user = u /\ ctx'[r].purging = {}
    BY <2>1 DEF Blank
  <2> QED BY <2>1, <2>2 DEF Found
<1>9. CASE PurgeRow(r)
  <2> DEFINE u == ctx[r].user
             purging == ctx[r].purging \cup (IF users[u].present THEN {u} ELSE {})
  <2>1. /\ ctx[r] \in Context /\ u \in Users /\ Found(r) /\ pc[r] = "purge_row"
        /\ users' = users
    BY <1>9, ContextType DEF PurgeRow, AccessInv, SafetyInv, NamesOf, db
  <2>2. u \in Unverified /\ \A v \in purging : v \in Unverified /\ users[v].present
    BY <2>1 DEF Found, Purges
  <2>3. PICK label \in Purges, w \in Unverified :
          Go(r, label, [ctx[r] EXCEPT !.user = w, !.purging = purging])
    <3>1. [ctx[r] EXCEPT !.purging = purging]
            = [ctx[r] EXCEPT !.user = u, !.purging = purging]
      BY <2>1 DEF Context
    <3> QED BY <1>9, <2>2, <3>1 DEF PurgeRow, Purgeable, Purges
  <2>4. pc'[r] = label /\ ctx'[r].user = w /\ ctx'[r].purging = purging
    <3> HIDE DEF purging
    <3>1. pc'[r] = label /\ ctx'[r] = [ctx[r] EXCEPT !.user = w, !.purging = purging]
      BY <2>3, Went DEF AccessInv, SafetyInv
    <3> QED BY <2>1, <3>1 DEF Context
  <2> QED BY <2>1, <2>2, <2>3, <2>4 DEF Found, Purges
<1> QED BY <1>3, <1>4, <1>5, <1>6, <1>7, <1>8, <1>9

LEMMA AccessInvStep == AccessInv /\ [Next]_vars => AccessInv'
<1> SUFFICES ASSUME AccessInv, [Next]_vars PROVE AccessInv'
  OBVIOUS
<1>1. SafetyInv /\ SafetyInv' /\ TypeInv
  BY SafetyStep DEF AccessInv, SafetyInv
<1>2. ASSUME NEW q \in Requests, pc'[q] = pc[q], ctx'[q] = ctx[q],
             \A u \in Users : user_lock[u] = q => SameAccount(u)
      PROVE  Found(q)'
  <2>1. Found(q) /\ RequestInv(q) /\ NamesOf(pc[q], ctx[q]) /\ ctx[q] \in Context
    BY <1>1, ContextType DEF AccessInv, SafetyInv
  <2>2. pc[q] \in {"reset_commit", "active_commit"} => SameAccount(ctx[q].user)
    BY <1>2, <2>1 DEF NamesOf, RequestInv, Holds
  <2>3. pc[q] \in Purges => \A u \in ctx[q].purging : SameAccount(u)
    BY <1>2, <2>1 DEF RequestInv, Holds, Purges, Context
  <2> QED BY <1>2, <2>1, <2>2, <2>3 DEF Found, SameAccount
<1>3. ASSUME NEW r \in Requests, Begin(r) \/ Continue(r) \/ Rollback(r), NEW q \in Requests
      PROVE  Found(q)'
  <2>1. CASE q = r
    BY <1>3, <2>1, FoundAfter
  <2>2. CASE q # r
    <3>1. pc'[q] = pc[q] /\ ctx'[q] = ctx[q]
      BY <1>1, <1>3, <2>2, StepsAlone DEF MovesAlone
    <3>2. \A u \in Users : user_lock[u] = q => SameAccount(u)
      BY <1>1, <1>3, <2>2, AccountEffect
    <3> QED BY <1>2, <3>1, <3>2
  <2> QED BY <2>1, <2>2
<1>4. ASSUME Environment, NEW q \in Requests PROVE Found(q)'
  BY <1>1, <1>2, <1>4, EnvironmentEffect
<1>5. ASSUME UNCHANGED vars, NEW q \in Requests PROVE Found(q)'
  BY <1>2, <1>5 DEF vars, db, SameAccount
<1> QED BY <1>1, <1>3, <1>4, <1>5 DEF AccessInv, Next

-----------------------------------------------------------------------------
(* What an observer of accounts, sessions and links sees of a step.         *)

LEMMA AccountsUpdate ==
    ASSUME NEW u \in Users, \A v \in Users \ {u} : AccountOf(v)' = AccountOf(v)
    PROVE  AccountsSeen' = [AccountsSeen EXCEPT ![u] = AccountOf(u)']
BY DEF AccountsSeen

LEMMA SessionsUpdate ==
    ASSUME NEW s \in SessionIds,
           \A x \in SessionIds \ {s} : SessionOf(x)' = SessionOf(x)
    PROVE  SessionsSeen' = [SessionsSeen EXCEPT ![s] = SessionOf(s)']
BY DEF SessionsSeen

LEMMA LinksUpdate ==
    ASSUME NEW k \in ResetIds, \A x \in ResetIds \ {k} : LinkOf(x)' = LinkOf(x)
    PROVE  LinksSeen' = [LinksSeen EXCEPT ![k] = LinkOf(k)']
BY DEF LinksSeen

LEMMA AccountsKept ==
    ASSUME \A u \in Users : SameAccount(u)
    PROVE  AccountsSeen' = AccountsSeen
BY DEF AccountsSeen, AccountOf, SameAccount

LEMMA SessionsKept ==
    ASSUME \A s \in SessionIds : SessionOf(s)' = SessionOf(s)
    PROVE  SessionsSeen' = SessionsSeen
BY DEF SessionsSeen

LEMMA LinksKept ==
    ASSUME \A k \in ResetIds : LinkOf(k)' = LinkOf(k)
    PROVE  LinksSeen' = LinksSeen
BY DEF LinksSeen

LEMMA SessionSame ==
    ASSUME NEW s \in SessionIds, sessions'[s] = sessions[s]
    PROVE  SessionOf(s)' = SessionOf(s)
BY DEF SessionOf, Live, Stored

LEMMA LinkSame ==
    ASSUME NEW k \in ResetIds, links'[k] = links[k]
    PROVE  LinkOf(k)' = LinkOf(k)
BY DEF LinkOf

\* Revoking shows as closing.
LEMMA RevokedSeen ==
    ASSUME NEW s \in SessionIds, sessions[s] \in Session,
           sessions'[s] = [sessions[s] EXCEPT !.revoked = TRUE]
    PROVE  SessionOf(s)' = [SessionOf(s) EXCEPT !.state = IF Live(s) THEN "closed" ELSE @]
<1>1. ASSUME NEW x \in Session, NEW y, y = [x EXCEPT !.revoked = TRUE]
      PROVE  /\ y.row = x.row /\ y.user = x.user /\ y.version = x.version
             /\ y.pw = x.pw /\ y.revoked
  BY <1>1, ZenonT(40) DEF Session
<1>2. /\ sessions'[s].row = sessions[s].row /\ sessions'[s].user = sessions[s].user
      /\ sessions'[s].version = sessions[s].version
      /\ sessions'[s].pw = sessions[s].pw /\ sessions'[s].revoked
  BY <1>1
<1> QED BY <1>2 DEF SessionOf, Live, Stored

\* The rows that a bulk revocation, a bulk consumption, or a deletion, touches.
LEMMA ClosedSeen ==
    ASSUME TypeInv, NEW us,
           \A s \in SessionIds :
             \/ /\ Live(s) /\ sessions[s].user \in us
                /\ SessionOf(s)' = [SessionOf(s) EXCEPT !.state = "closed"]
             \/ /\ ~(Live(s) /\ sessions[s].user \in us)
                /\ SessionOf(s)' = SessionOf(s)
    PROVE  SessionsSeen' = Access!Closed(us)
<1>1. ASSUME NEW s \in SessionIds
      PROVE  Access!OpenSession(s) /\ SessionsSeen[s].user \in us
               <=> Live(s) /\ sessions[s].user \in us
  BY DEF Access!OpenSession, SessionsSeen, SessionOf, Live, Stored
<1> QED BY <1>1 DEF Access!Closed, SessionsSeen

Usable(k) == links[k].row = "stored" /\ ~links[k].used

LEMMA SpentSeen ==
    ASSUME TypeInv, NEW us,
           \A k \in ResetIds :
             \/ /\ Usable(k) /\ links[k].user \in us
                /\ LinkOf(k)' = [LinkOf(k) EXCEPT !.state = "spent"]
             \/ /\ ~(Usable(k) /\ links[k].user \in us)
                /\ LinkOf(k)' = LinkOf(k)
    PROVE  LinksSeen' = Access!Spent(us)
<1>1. ASSUME NEW k \in ResetIds
      PROVE  LinksSeen[k].state = "usable" /\ LinksSeen[k].user \in us
               <=> Usable(k) /\ links[k].user \in us
  BY DEF LinksSeen, LinkOf, Usable
<1> QED BY <1>1 DEF Access!Spent, LinksSeen

LEMMA RevokeAllSeen ==
    ASSUME TypeInv, NEW u \in Users, sessions' = RevokeAllForUser(u)
    PROVE  SessionsSeen' = Access!Closed({u})
<1>1. ASSUME NEW s \in SessionIds
      PROVE  \/ /\ Live(s) /\ sessions[s].user = u
                /\ SessionOf(s)' = [SessionOf(s) EXCEPT !.state = "closed"]
             \/ /\ ~(Live(s) /\ sessions[s].user = u)
                /\ SessionOf(s)' = SessionOf(s)
  <2>1. CASE Live(s) /\ sessions[s].user = u
    <3>1. sessions[s] \in Session /\ sessions'[s] = [sessions[s] EXCEPT !.revoked = TRUE]
      BY <2>1 DEF TypeInv, TypeRows, RevokeAllForUser, LiveSessionsOf
    <3> QED BY <2>1, <3>1, RevokedSeen
  <2>2. CASE ~(Live(s) /\ sessions[s].user = u)
    <3>1. sessions'[s] = sessions[s]
      BY <2>2 DEF RevokeAllForUser, LiveSessionsOf
    <3> QED BY <2>2, <3>1, SessionSame
  <2> QED BY <2>1, <2>2
<1>2. \A s \in SessionIds : sessions[s].user \in {u} <=> sessions[s].user = u
  OBVIOUS
<1> QED BY <1>1, <1>2, ClosedSeen

LEMMA ConsumeSeen ==
    ASSUME TypeInv, NEW u \in Users, links' = ConsumeOutstanding(u)
    PROVE  LinksSeen' = Access!Spent({u})
<1>1. ASSUME NEW x \in Link, NEW y, y = [x EXCEPT !.used = TRUE]
      PROVE  y.row = x.row /\ y.user = x.user /\ y.pw = x.pw /\ y.used
  BY <1>1, ZenonT(40) DEF Link
<1>2. ASSUME NEW k \in ResetIds
      PROVE  \/ /\ k \in UnusedLinksOf(u)
                /\ LinkOf(k)' = [LinkOf(k) EXCEPT !.state = "spent"]
             \/ /\ k \notin UnusedLinksOf(u)
                /\ LinkOf(k)' = LinkOf(k)
  <2>1. CASE k \in UnusedLinksOf(u)
    <3>1. links[k] \in Link /\ links'[k] = [links[k] EXCEPT !.used = TRUE]
      BY <2>1 DEF TypeInv, TypeRows, ConsumeOutstanding
    <3>2. /\ links'[k].row = links[k].row /\ links'[k].user = links[k].user
          /\ links'[k].pw = links[k].pw /\ links'[k].used
      BY <1>1, <3>1
    <3> QED BY <2>1, <3>2 DEF LinkOf, UnusedLinksOf
  <2>2. CASE k \notin UnusedLinksOf(u)
    <3>1. links'[k] = links[k]
      BY <2>2 DEF ConsumeOutstanding
    <3> QED BY <2>2, <3>1, LinkSame
  <2> QED BY <2>1, <2>2
<1>3. \A k \in ResetIds :
        k \in UnusedLinksOf(u) <=> Usable(k) /\ links[k].user \in {u}
  BY DEF UnusedLinksOf, Usable
<1> QED BY <1>2, <1>3, SpentSeen

LEMMA InsertOpens ==
    ASSUME AccessInv, NEW r \in Requests, InsertCommit(r)
    PROVE  Access!Open(ctx[r].user, ctx[r].sid) /\ ctx[r].user \in Users
           /\ ctx[r].sid \in SessionIds
<1>0. PICK u \in Users, s \in SessionIds : u = ctx[r].user /\ s = ctx[r].sid
  BY ContextType DEF InsertCommit, AccessInv, SafetyInv, NamesOf, SidLabels
<1>1. /\ sessions[s].row = "taken" /\ sessions \in [SessionIds -> Session]
      /\ CanAuthenticate(u) /\ ctx[r].pw = users[u].password_hash
  BY <1>0 DEF InsertCommit, AccessInv, SafetyInv, RequestInv, Pending, TypeInv, TypeRows
<1>2. /\ sessions'[s] = [row |-> "stored", user |-> u, version |-> 1,
                         iat |-> ctx[r].iat, revoked |-> FALSE, expired |-> FALSE,
                         pw |-> ctx[r].pw]
      /\ \A x \in SessionIds \ {s} : sessions'[x] = sessions[x]
      /\ users' = users /\ links' = links
  BY <1>0, <1>1 DEF InsertCommit
<1>3. SessionOf(s)' = [state |-> "open", user |-> u, turn |-> 1, password |-> ctx[r].pw]
  BY <1>2 DEF SessionOf, Live, Stored
<1>4. SessionsSeen' = [SessionsSeen EXCEPT ![s] = SessionOf(s)']
  BY <1>1, <1>2, SessionSame, SessionsUpdate
<1>5. AccountsSeen[u].status = "active" /\ AccountsSeen[u].password = ctx[r].pw
  BY <1>1 DEF AccountsSeen, AccountOf, CanAuthenticate
<1>6. SessionsSeen[s].state = "none"
  BY <1>1 DEF SessionsSeen, SessionOf
<1>7. AccountsSeen' = AccountsSeen /\ LinksSeen' = LinksSeen
  BY <1>2, AccountsKept, LinksKept, LinkSame DEF SameAccount
<1> QED BY <1>0, <1>1, <1>3, <1>4, <1>5, <1>6, <1>7 DEF Access!Open, Access!Active

LEMMA RotateRotates ==
    ASSUME AccessInv, NEW r \in Requests, RotateCommit(r)
    PROVE  Access!Rotate(ctx[r].sid) /\ ctx[r].sid \in SessionIds
<1>0. PICK s \in SessionIds, n \in {sessions[ctx[r].sid].version + 1} : s = ctx[r].sid
  BY ContextType DEF RotateCommit, AccessInv, SafetyInv, NamesOf, SidLabels
<1>1. /\ Live(s) /\ sessions[s].version + 1 = n
      /\ sessions \in [SessionIds -> Session] /\ sessions[s] \in Session
  BY <1>0 DEF RotateCommit, AccessInv, SafetyInv, RequestInv, Rotating, TypeInv, TypeRows
<1>2. /\ sessions'[s] = [sessions[s] EXCEPT !.version = n, !.iat = ctx[r].iat]
      /\ \A x \in SessionIds \ {s} : sessions'[x] = sessions[x]
      /\ users' = users /\ links' = links
  BY <1>0, <1>1 DEF RotateCommit
<1>3. /\ sessions'[s].row = sessions[s].row /\ sessions'[s].revoked = sessions[s].revoked
      /\ sessions'[s].user = sessions[s].user /\ sessions'[s].pw = sessions[s].pw
      /\ sessions'[s].version = n
  BY <1>1, <1>2 DEF Session
<1>4. SessionOf(s)' = [SessionOf(s) EXCEPT !.turn = @ + 1]
  BY <1>1, <1>3 DEF SessionOf, Live, Stored
<1>5. SessionsSeen' = [SessionsSeen EXCEPT ![s] = SessionOf(s)']
  BY <1>1, <1>2, SessionSame, SessionsUpdate
<1>6. /\ sessions[s].user \in Users /\ CanAuthenticate(sessions[s].user)
      /\ sessions[s].pw = users[sessions[s].user].password_hash
  BY <1>1 DEF Live, Stored, AccessInv, SafetyInv, NoStaleSession, TypeInv, NamesInRows
<1>7. SessionsSeen[s] = SessionOf(s) /\ SessionOf(s).state = "open"
      /\ SessionOf(s).user = sessions[s].user /\ SessionOf(s).password = sessions[s].pw
  BY <1>1 DEF SessionsSeen, SessionOf, Live, Stored
<1>8. /\ AccountsSeen[sessions[s].user].status = "active"
      /\ AccountsSeen[sessions[s].user].password = sessions[s].pw
  BY <1>6 DEF AccountsSeen, AccountOf, CanAuthenticate
<1>9. AccountsSeen' = AccountsSeen /\ LinksSeen' = LinksSeen
  BY <1>2, AccountsKept, LinksKept, LinkSame DEF SameAccount
<1> QED BY <1>0, <1>1, <1>4, <1>5, <1>7, <1>8, <1>9
   DEF Access!Rotate, Access!OpenSession, Access!Honoured, Access!Active, SessionsSeen

LEMMA RevokeCloses ==
    ASSUME AccessInv, NEW r \in Requests, RevokeCommit(r) \/ LogoutCommit(r)
    PROVE  \/ \E s \in SessionIds : Access!Close(s)
           \/ UNCHANGED <<AccountsSeen, SessionsSeen, LinksSeen>>
<1>0. PICK s \in SessionIds : s = ctx[r].sid
  BY ContextType DEF RevokeCommit, LogoutCommit, AccessInv, SafetyInv, NamesOf, SidLabels
<1>1. sessions \in [SessionIds -> Session] /\ sessions[s] \in Session
  BY DEF AccessInv, SafetyInv, TypeInv, TypeRows
<1>2. /\ sessions'[s] = [sessions[s] EXCEPT !.revoked = TRUE]
      /\ \A x \in SessionIds \ {s} : sessions'[x] = sessions[x]
      /\ users' = users /\ links' = links
  BY <1>0, <1>1 DEF RevokeCommit, LogoutCommit
<1>3. SessionOf(s)' = [SessionOf(s) EXCEPT !.state = IF Live(s) THEN "closed" ELSE @]
  BY <1>1, <1>2, RevokedSeen
<1>4. SessionsSeen' = [SessionsSeen EXCEPT ![s] = SessionOf(s)']
  BY <1>2, SessionSame, SessionsUpdate
<1>5. AccountsSeen' = AccountsSeen /\ LinksSeen' = LinksSeen
  BY <1>2, AccountsKept, LinksKept, LinkSame DEF SameAccount
<1>6. CASE Live(s)
  <2>1. SessionsSeen[s] = SessionOf(s) /\ SessionOf(s).state = "open"
    BY <1>6 DEF SessionsSeen, SessionOf, Live, Stored
  <2>2. SessionOf(s)' = [SessionOf(s) EXCEPT !.state = "closed"]
    BY <1>3, <1>6
  <2>3. Access!Close(s)
    BY <1>4, <1>5, <2>1, <2>2 DEF Access!Close, Access!OpenSession
  <2> QED BY <2>3
<1>7. CASE ~Live(s)
  <2>1. SessionOf(s)' = SessionOf(s)
    BY <1>3, <1>7 DEF SessionOf
  <2>2. SessionsSeen' = SessionsSeen
    BY <1>2, <2>1, SessionSame, SessionsKept
  <2> QED BY <1>5, <2>2
<1> QED BY <1>6, <1>7

LEMMA InsertMails ==
    ASSUME AccessInv, NEW r \in Requests, NEW k \in ResetIds, RequestResetInsert(r, k)
    PROVE  Access!Mail(ctx[r].user, k) /\ ctx[r].user \in Users
<1>0. PICK u \in Users : u = ctx[r].user
  BY ContextType DEF RequestResetInsert, AccessInv, SafetyInv, NamesOf
<1>1. /\ links \in [ResetIds -> Link] /\ links[k].row = "unused" /\ users[u].present
      /\ users' = users /\ sessions' = sessions
      /\ links'[k] = [row |-> "stored", user |-> u, used |-> FALSE, expired |-> FALSE,
                      pw |-> users[u].password_hash]
      /\ \A x \in ResetIds \ {k} : links'[x] = links[x]
  BY <1>0 DEF RequestResetInsert, AccessInv, SafetyInv, TypeInv, TypeRows
<1>2. LinkOf(k)' = [state |-> "usable", user |-> u, password |-> users[u].password_hash]
  BY <1>1 DEF LinkOf
<1>3. LinksSeen' = [LinksSeen EXCEPT ![k] = LinkOf(k)']
  BY <1>1, LinkSame, LinksUpdate
<1>4. /\ AccountsSeen[u].status # "absent"
      /\ AccountsSeen[u].password = users[u].password_hash
  BY <1>1 DEF AccountsSeen, AccountOf
<1>5. LinksSeen[k].state = "none"
  BY <1>1 DEF LinksSeen, LinkOf
<1>6. AccountsSeen' = AccountsSeen /\ SessionsSeen' = SessionsSeen
  BY <1>1, AccountsKept, SessionsKept, SessionSame DEF SameAccount
<1> QED BY <1>0, <1>2, <1>3, <1>4, <1>5, <1>6 DEF Access!Mail

LEMMA ResetRedeems ==
    ASSUME AccessInv, NEW r \in Requests, ResetCommit(r)
    PROVE  Access!Redeem(ctx[r].link) /\ ctx[r].link \in ResetIds
<1>0. PICK u \in Users, k \in ResetIds : u = ctx[r].user /\ k = ctx[r].link
  BY ContextType DEF ResetCommit, AccessInv, SafetyInv, NamesOf
<1>1. /\ TypeInv /\ users[u].present /\ users[u].is_active
      /\ links[k].row = "stored" /\ links[k].user = u /\ ~links[k].used
  BY <1>0 DEF ResetCommit, AccessInv, SafetyInv, Found, RequestInv, Redeeming
<1>2. links[k].pw = users[u].password_hash
  BY <1>1 DEF AccessInv, SafetyInv, NoStaleLink
<1>3. LinksSeen[k] = [state |-> "usable", user |-> u, password |-> users[u].password_hash]
  BY <1>1, <1>2 DEF LinksSeen, LinkOf
<1>4. AccountsSeen[u] = [status |-> "active", password |-> users[u].password_hash]
  BY <1>1 DEF AccountsSeen, AccountOf
<1>5. /\ \A v \in Users \ {u} : users'[v] = users[v]
      /\ users'[u].present /\ users'[u].is_active
      /\ users'[u].password_hash = users[u].password_hash + 1
  <2>1. users[u] \in User /\ users \in [Users -> User]
    BY <1>1 DEF TypeInv, TypeRows
  <2> QED BY <1>0, <1>1, <2>1 DEF ResetCommit, ChangePassword, User
<1>6. AccountOf(u)' = [status |-> "active", password |-> users[u].password_hash + 1]
  BY <1>5 DEF AccountOf
<1>7. AccountsSeen' = [AccountsSeen EXCEPT ![u] = AccountOf(u)']
  <2>1. \A v \in Users \ {u} : AccountOf(v)' = AccountOf(v)
    BY <1>5 DEF AccountOf
  <2> QED BY <2>1, AccountsUpdate
<1>8. SessionsSeen' = Access!Closed({u}) /\ LinksSeen' = Access!Spent({u})
  BY <1>0, <1>1, RevokeAllSeen, ConsumeSeen DEF ResetCommit
<1>9. AccountOf(u)' = [AccountsSeen[u] EXCEPT !.password = @ + 1]
  BY <1>4, <1>6
<1>10. Access!Redeem(k)
  <2>1. /\ LinksSeen[k].state = "usable" /\ LinksSeen[k].user = u
        /\ Access!Honoured(u, LinksSeen[k].password)
    BY <1>3, <1>4 DEF Access!Honoured, Access!Active
  <2>2. AccountsSeen' = [AccountsSeen EXCEPT ![u].password = @ + 1]
    BY <1>7, <1>9
  <2> QED BY <1>8, <2>1, <2>2 DEF Access!Redeem
<1> QED BY <1>0, <1>10

LEMMA SetActiveSets ==
    ASSUME AccessInv, NEW r \in Requests, SetActiveCommit(r)
    PROVE  /\ ctx[r].user \in Users
           /\ Access!Deactivate(ctx[r].user) \/ Access!Activate(ctx[r].user)
<1>0. PICK u \in Users : u = ctx[r].user
  BY ContextType DEF SetActiveCommit, AccessInv, SafetyInv, NamesOf
<1>1. /\ TypeInv /\ users[u].present /\ users[u] \in User /\ users \in [Users -> User]
      /\ links' = links
  BY <1>0 DEF SetActiveCommit, AccessInv, SafetyInv, Found, TypeInv, TypeRows
<1>2. /\ \A v \in Users \ {u} : users'[v] = users[v]
      /\ users'[u].present
      /\ users'[u].is_active <=> ~users[u].is_active
      /\ users'[u].password_hash = users[u].password_hash
  <2>1. CASE users[u].is_active
    <3>1. users' = Deactivate(u)
      BY <1>0, <2>1 DEF SetActiveCommit
    <3> QED BY <1>1, <2>1, <3>1 DEF Deactivate, User
  <2>2. CASE ~users[u].is_active
    <3>1. users' = Activate(u)
      BY <1>0, <2>2 DEF SetActiveCommit
    <3> QED BY <1>1, <2>2, <3>1 DEF Activate, User
  <2> QED BY <2>1, <2>2
<1>3. AccountsSeen' = [AccountsSeen EXCEPT ![u] = AccountOf(u)']
  <2>1. \A v \in Users \ {u} : AccountOf(v)' = AccountOf(v)
    BY <1>2 DEF AccountOf
  <2> QED BY <2>1, AccountsUpdate
<1>4. LinksSeen' = LinksSeen
  BY <1>1, LinksKept, LinkSame
<1>5. CASE users[u].is_active
  <2>1. AccountsSeen[u] = [status |-> "active", password |-> users[u].password_hash]
    BY <1>1, <1>5 DEF AccountsSeen, AccountOf
  <2>2. AccountOf(u)' = [status |-> "inactive", password |-> users[u].password_hash]
    BY <1>2, <1>5 DEF AccountOf
  <2>3. SessionsSeen' = Access!Closed({u})
    BY <1>0, <1>1, <1>5, RevokeAllSeen DEF SetActiveCommit
  <2>4. AccountOf(u)' = [AccountsSeen[u] EXCEPT !.status = "inactive"]
    BY <2>1, <2>2
  <2>5. Access!Deactivate(u)
    BY <1>3, <1>4, <2>1, <2>3, <2>4 DEF Access!Deactivate, Access!Active
  <2> QED BY <1>0, <2>5
<1>6. CASE ~users[u].is_active
  <2>1. AccountsSeen[u] = [status |-> "inactive", password |-> users[u].password_hash]
    BY <1>1, <1>6 DEF AccountsSeen, AccountOf
  <2>2. AccountOf(u)' = [status |-> "active", password |-> users[u].password_hash]
    BY <1>2, <1>6 DEF AccountOf
  <2>3. sessions' = sessions
    BY <1>0, <1>6 DEF SetActiveCommit
  <2>4. SessionsSeen' = SessionsSeen
    BY <2>3, SessionsKept, SessionSame
  <2>5. AccountOf(u)' = [AccountsSeen[u] EXCEPT !.status = "active"]
    BY <2>1, <2>2
  <2>6. Access!Activate(u)
    BY <1>3, <1>4, <2>1, <2>4, <2>5 DEF Access!Activate
  <2> QED BY <1>0, <2>6
<1> QED BY <1>5, <1>6

LEMMA PurgeRemoves ==
    ASSUME AccessInv, NEW r \in Requests, PurgeCommit(r)
    PROVE  \E gone \in SUBSET Unverified : Access!Remove(gone)
<1> DEFINE gone == ctx[r].purging
<1>1. /\ TypeInv /\ users \in [Users -> User] /\ sessions \in [SessionIds -> Session]
      /\ links \in [ResetIds -> Link]
      /\ \A u \in gone : u \in Unverified /\ u \in Users /\ users[u].present
  BY RoleAssumption DEF PurgeCommit, AccessInv, SafetyInv, Found, Purges, TypeInv, TypeRows
<1>2. /\ \A u \in Users : AccountOf(u)' = IF u \in gone
           THEN [AccountOf(u) EXCEPT !.status = "absent"] ELSE AccountOf(u)
      /\ \A u \in gone : AccountOf(u).status # "absent"
  <2>1. \A u \in gone : AccountOf(u).status # "absent"
    BY <1>1 DEF AccountOf
  <2>2. ASSUME NEW u \in Users, u \in gone
        PROVE  AccountOf(u)' = [AccountOf(u) EXCEPT !.status = "absent"]
    <3>1. ~users'[u].present /\ users'[u].password_hash = users[u].password_hash
      BY <1>1, <2>2 DEF PurgeCommit, User
    <3>2. AccountOf(u)' = [status |-> "absent", password |-> users[u].password_hash]
      BY <3>1 DEF AccountOf
    <3> QED BY <3>2 DEF AccountOf
  <2>3. ASSUME NEW u \in Users, u \notin gone PROVE AccountOf(u)' = AccountOf(u)
    <3>1. users'[u] = users[u]
      BY <2>3 DEF PurgeCommit
    <3> QED BY <3>1 DEF AccountOf
  <2> QED BY <2>1, <2>2, <2>3
<1>3. SessionsSeen' = Access!Closed(gone)
  <2>1. ASSUME NEW s \in SessionIds
        PROVE  \/ /\ Live(s) /\ sessions[s].user \in gone
                  /\ SessionOf(s)' = [SessionOf(s) EXCEPT !.state = "closed"]
               \/ /\ ~(Live(s) /\ sessions[s].user \in gone)
                  /\ SessionOf(s)' = SessionOf(s)
    <3>1. CASE s \notin SessionsOf(gone)
      <4>1. sessions'[s] = sessions[s]
        BY <3>1 DEF PurgeCommit, WithoutSessions
      <4> QED BY <3>1, <4>1, SessionSame DEF SessionsOf, Live
    <3>2. CASE s \in SessionsOf(gone)
      <4>1. sessions'[s] = [sessions[s] EXCEPT !.row = "deleted"] /\ sessions[s] \in Session
        BY <1>1, <3>2 DEF PurgeCommit, WithoutSessions
      <4>2. /\ sessions'[s].row = "deleted" /\ sessions'[s].user = sessions[s].user
            /\ sessions'[s].version = sessions[s].version
            /\ sessions'[s].pw = sessions[s].pw
        BY <4>1 DEF Session
      <4> QED BY <3>2, <4>2 DEF SessionsOf, SessionOf, Live, Stored
    <3> QED BY <3>1, <3>2
  <2> QED BY <1>1, <2>1, ClosedSeen
<1>4. LinksSeen' = Access!Spent(gone)
  <2>1. ASSUME NEW k \in ResetIds
        PROVE  \/ /\ Usable(k) /\ links[k].user \in gone
                  /\ LinkOf(k)' = [LinkOf(k) EXCEPT !.state = "spent"]
               \/ /\ ~(Usable(k) /\ links[k].user \in gone)
                  /\ LinkOf(k)' = LinkOf(k)
    <3>1. CASE k \notin LinksOf(gone)
      <4>1. links'[k] = links[k]
        BY <3>1 DEF PurgeCommit, WithoutLinks
      <4> QED BY <3>1, <4>1, LinkSame DEF LinksOf, Usable
    <3>2. CASE k \in LinksOf(gone)
      <4>1. links'[k] = [links[k] EXCEPT !.row = "deleted"] /\ links[k] \in Link
        BY <1>1, <3>2 DEF PurgeCommit, WithoutLinks
      <4>2. /\ links'[k].row = "deleted" /\ links'[k].user = links[k].user
            /\ links'[k].pw = links[k].pw
        BY <4>1 DEF Link
      <4> QED BY <3>2, <4>2 DEF LinksOf, LinkOf, Usable
    <3> QED BY <3>1, <3>2
  <2> QED BY <1>1, <2>1, SpentSeen
<1>5. gone \in SUBSET Unverified
  BY <1>1
<1>6. Access!Remove(gone)
  BY <1>1, <1>2, <1>3, <1>4 DEF Access!Remove, AccountsSeen
<1> QED BY <1>5, <1>6

\* Minting, enrolment, expiry and everything that only locks or reads are not seen.
LEMMA MintUnseen ==
    ASSUME TypeInv, NEW r \in Requests, NEW s \in SessionIds, NEW i \in Stamps,
           LoginMint(r, s, i) \/ CompleteMfaLogin(r, s, i)
    PROVE  UNCHANGED <<AccountsSeen, SessionsSeen, LinksSeen>>
<1>1. /\ sessions[s].row = "unused" /\ sessions[s] \in Session
      /\ sessions' = [sessions EXCEPT ![s].row = "taken"]
      /\ users' = users /\ links' = links /\ sessions \in [SessionIds -> Session]
  BY DEF LoginMint, CompleteMfaLogin, MintSession, TypeInv, TypeRows
<1>2. /\ sessions'[s].row = "taken" /\ sessions'[s].user = sessions[s].user
      /\ sessions'[s].version = sessions[s].version
      /\ sessions'[s].pw = sessions[s].pw
  <2>1. sessions'[s] = [sessions[s] EXCEPT !.row = "taken"]
    BY <1>1
  <2> QED BY <1>1, <2>1 DEF Session
<1>3. SessionOf(s)' = SessionOf(s)
  BY <1>1, <1>2 DEF SessionOf
<1>4. \A x \in SessionIds \ {s} : sessions'[x] = sessions[x]
  BY <1>1
<1> QED BY <1>1, <1>3, <1>4, SessionSame, LinkSame, AccountsKept, SessionsKept, LinksKept
   DEF SameAccount

LEMMA EnrollUnseen ==
    ASSUME TypeInv, NEW r \in Requests, EnrollCommit(r)
    PROVE  UNCHANGED <<AccountsSeen, SessionsSeen, LinksSeen>>
<1>1. /\ \A u \in Users : users[u] \in User
      /\ users' = [users EXCEPT ![ctx[r].user].mfa_enabled = TRUE]
      /\ users \in [Users -> User] /\ sessions' = sessions /\ links' = links
  BY DEF EnrollCommit, TypeInv, TypeRows
<1>2. \A u \in Users : SameAccount(u)
  BY <1>1 DEF SameAccount, User
<1> QED BY <1>1, <1>2, SessionSame, LinkSame, AccountsKept, SessionsKept, LinksKept

LEMMA ExpiryUnseen ==
    ASSUME TypeInv,
           \/ \E s \in SessionIds : SessionExpires(s)
           \/ \E k \in ResetIds : LinkExpires(k)
    PROVE  UNCHANGED <<AccountsSeen, SessionsSeen, LinksSeen>>
<1>1. ASSUME NEW s \in SessionIds, SessionExpires(s)
      PROVE  UNCHANGED <<AccountsSeen, SessionsSeen, LinksSeen>>
  <2>1. /\ sessions' = [sessions EXCEPT ![s].expired = TRUE]
        /\ sessions[s] \in Session /\ sessions \in [SessionIds -> Session]
        /\ users' = users /\ links' = links
    BY <1>1 DEF SessionExpires, TypeInv, TypeRows
  <2>2. ASSUME NEW x \in Session, NEW y, y = [x EXCEPT !.expired = TRUE]
        PROVE  /\ y.row = x.row /\ y.user = x.user /\ y.version = x.version
               /\ y.pw = x.pw /\ y.revoked = x.revoked
    BY <2>2, ZenonT(40) DEF Session
  <2>3. sessions'[s] = [sessions[s] EXCEPT !.expired = TRUE]
        /\ \A x \in SessionIds \ {s} : sessions'[x] = sessions[x]
    BY <2>1
  <2>4. SessionOf(s)' = SessionOf(s)
    BY <2>1, <2>2, <2>3 DEF SessionOf, Live, Stored
  <2> QED BY <2>1, <2>3, <2>4, SessionSame, LinkSame, AccountsKept, SessionsKept,
             LinksKept
     DEF SameAccount
<1>2. ASSUME NEW k \in ResetIds, LinkExpires(k)
      PROVE  UNCHANGED <<AccountsSeen, SessionsSeen, LinksSeen>>
  <2>1. /\ links' = [links EXCEPT ![k].expired = TRUE]
        /\ links[k] \in Link /\ links \in [ResetIds -> Link]
        /\ users' = users /\ sessions' = sessions
    BY <1>2 DEF LinkExpires, TypeInv, TypeRows
  <2>2. ASSUME NEW x \in Link, NEW y, y = [x EXCEPT !.expired = TRUE]
        PROVE  /\ y.row = x.row /\ y.user = x.user /\ y.pw = x.pw /\ y.used = x.used
    BY <2>2, ZenonT(40) DEF Link
  <2>3. links'[k] = [links[k] EXCEPT !.expired = TRUE]
        /\ \A x \in ResetIds \ {k} : links'[x] = links[x]
    BY <2>1
  <2>4. LinkOf(k)' = LinkOf(k)
    BY <2>1, <2>2, <2>3 DEF LinkOf
  <2> QED BY <2>1, <2>3, <2>4, SessionSame, LinkSame, AccountsKept, SessionsKept,
             LinksKept
     DEF SameAccount
<1> QED BY <1>1, <1>2

LEMMA RowsUnseen ==
    ASSUME UNCHANGED db
    PROVE  UNCHANGED <<AccountsSeen, SessionsSeen, LinksSeen>>
BY SessionSame, LinkSame, AccountsKept, SessionsKept, LinksKept DEF db, SameAccount

LEMMA AccessStep == AccessInv /\ [Next]_vars => [Access!Next]_(Access!vars)
<1> SUFFICES ASSUME AccessInv, [Next]_vars PROVE [Access!Next]_(Access!vars)
  OBVIOUS
<1>1. ASSUME UNCHANGED <<AccountsSeen, SessionsSeen, LinksSeen>>
      PROVE  UNCHANGED Access!vars
  BY <1>1 DEF Access!vars
<1>2. TypeInv
  BY DEF AccessInv, SafetyInv
<1>3. ASSUME NEW r \in Requests, Begin(r) \/ Continue(r) \/ Rollback(r)
      PROVE  [Access!Next]_Access!vars
  <2>1. CASE UNCHANGED db
    BY <1>1, <2>1, RowsUnseen
  <2>2. CASE \E s \in SessionIds, i \in Stamps : LoginMint(r, s, i) \/ CompleteMfaLogin(r, s, i)
    BY <1>1, <1>2, <2>2, MintUnseen
  <2>3. CASE InsertCommit(r)
    BY <2>3, InsertOpens DEF Access!Next
  <2>4. CASE RotateCommit(r)
    BY <2>4, RotateRotates DEF Access!Next
  <2>5. CASE RevokeCommit(r) \/ LogoutCommit(r)
    BY <1>1, <2>5, RevokeCloses DEF Access!Next
  <2>6. CASE \E k \in ResetIds : RequestResetInsert(r, k)
    BY <2>6, InsertMails DEF Access!Next
  <2>7. CASE ResetCommit(r)
    BY <2>7, ResetRedeems DEF Access!Next
  <2>8. CASE SetActiveCommit(r)
    BY <2>8, SetActiveSets DEF Access!Next
  <2>9. CASE EnrollCommit(r)
    BY <1>1, <1>2, <2>9, EnrollUnseen
  <2>10. CASE PurgeCommit(r)
    BY <2>10, PurgeRemoves DEF Access!Next
  <2> QED BY <1>3, <2>1, <2>2, <2>3, <2>4, <2>5, <2>6, <2>7, <2>8, <2>9, <2>10, StepKinds
<1>4. CASE Environment
  <2>1. CASE \/ \E s \in SessionIds : SessionExpires(s)
             \/ \E k \in ResetIds : LinkExpires(k)
    BY <1>1, <1>2, <2>1, ExpiryUnseen
  <2>2. CASE RedisRestart \/ \E c \in ChallengeIds : ChallengeExpires(c)
    BY <1>1, <2>2, RowsUnseen DEF RedisRestart, ChallengeExpires
  <2> QED BY <1>4, <2>1, <2>2 DEF Environment
<1>5. CASE UNCHANGED vars
  BY <1>1, <1>5, RowsUnseen DEF vars
<1> QED BY <1>3, <1>4, <1>5 DEF Next

LEMMA AccessInit == Init => AccessInv /\ Access!Init
<1> SUFFICES ASSUME Init PROVE AccessInv /\ Access!Init
  OBVIOUS
<1>1. AccessInv
  BY SafetyInit DEF Init, AccessInv, Found, Purges
<1>2. /\ \A u \in Users : AccountOf(u) = [status |-> "active", password |-> 0]
      /\ \A s \in SessionIds : SessionOf(s) =
            [state |-> "none", user |-> Nil, turn |-> 0, password |-> 0]
      /\ \A k \in ResetIds : LinkOf(k) = [state |-> "none", user |-> Nil, password |-> 0]
  BY DEF Init, AccountOf, SessionOf, LinkOf, NoSession, NoLink
<1> QED BY <1>1, <1>2 DEF Access!Init, AccountsSeen, SessionsSeen, LinksSeen

\* However their transactions interleave, the operations do to accounts, sessions and
\* links what they would do one at a time, each at its commit.
THEOREM AccessRefinement == Spec => ImplementsAccountAccess
<1>1. Spec => []AccessInv
  BY AccessInit, AccessInvStep, PTL DEF Spec
<1>2. Init => Access!Init
  BY AccessInit
<1>3. AccessInv /\ [Next]_vars => [Access!Next]_(Access!vars)
  BY AccessStep
<1> QED BY <1>1, <1>2, <1>3, PTL DEF Spec, ImplementsAccountAccess, Access!Spec
=============================================================================
