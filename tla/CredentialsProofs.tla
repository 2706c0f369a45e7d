------------------------- MODULE CredentialsProofs -------------------------
(***************************************************************************)
(* Theorems about Credentials, for every set of accounts, requests,         *)
(* sessions, links and challenges and every bound. First type correctness,  *)
(* strengthened by NamesInRows and NamesInReqs, which say that a row, a      *)
(* challenge or a request that has got somewhere names an account, a         *)
(* session or a link. CredentialsSafety continues from there.                *)
(***************************************************************************)
EXTENDS Credentials, TLAPS

USE DEF rest

TypeRows ==
    /\ users \in [Users -> User]
    /\ sessions \in [SessionIds -> Session]
    /\ links \in [ResetIds -> Link]
    /\ challenges \in [ChallengeIds -> Challenge]

TypeTokens ==
    /\ mfa_completed \subseteq SessionIds
    /\ access_tokens \subseteq AccessToken
    /\ refresh_tokens \subseteq RefreshToken
    /\ factor_proven \subseteq SessionIds
    /\ ops \in Workloads

TypeLocks ==
    /\ user_lock \in [Users -> Requests \cup {Nil}]
    /\ session_lock \in [SessionIds -> Requests \cup {Nil}]
    /\ link_lock \in [ResetIds -> Requests \cup {Nil}]

TypeReqs ==
    /\ pc \in [Requests -> Labels]
    /\ ctx \in [Requests -> Context]

NamesInRows ==
    /\ \A s \in SessionIds :
         sessions[s].row \in {"stored", "deleted"} => sessions[s].user \in Users
    /\ \A k \in ResetIds : links[k].row # "unused" => links[k].user \in Users
    /\ \A c \in ChallengeIds :
         challenges[c].state = "open" => challenges[c].user \in Users

SidLabels == {"insert_commit", "refresh_user", "refresh_session",
              "rotate_commit", "revoke_commit", "logout_audit",
              "enroll", "enroll_commit"}

\* What a context c must name for a request at label to go on.
NamesOf(label, c) ==
    /\ label # "idle" => c.user \in Users
    /\ label \in SidLabels => c.sid \in SessionIds
    /\ label \in {"reset_user", "reset_commit"} => c.link \in ResetIds
    /\ label = "verify_consume" => c.challenge \in ChallengeIds
    /\ label \in {"insert_commit", "rotate_commit"} => c.iat \in Stamps

NamesInReqs == \A r \in Requests : NamesOf(pc[r], ctx[r])

TypeInv ==
    TypeRows /\ TypeTokens /\ TypeLocks /\ TypeReqs /\ NamesInRows /\ NamesInReqs

-----------------------------------------------------------------------------
(* The helpers the actions are built from.                                  *)

LEMMA BlankType == Blank \in Context
BY DEF Blank, Context

LEMMA ContextType ==
    ASSUME TypeInv, NEW r \in Requests
    PROVE  ctx[r] \in Context /\ pc[r] \in Labels /\ NamesOf(pc[r], ctx[r])
BY DEF TypeInv, TypeReqs, NamesInReqs

LEMMA GoType ==
    ASSUME TypeReqs, NamesInReqs, NEW r \in Requests, NEW label \in Labels,
           NEW c \in Context, NamesOf(label, c), Go(r, label, c)
    PROVE  TypeReqs' /\ NamesInReqs'
<1>1. TypeReqs'
  BY DEF TypeReqs, Go
<1>2. ASSUME NEW q \in Requests PROVE NamesOf(pc'[q], ctx'[q])
  <2>1. CASE q = r
    <3>1. pc'[q] = label /\ ctx'[q] = c
      BY <2>1 DEF Go, TypeReqs
    <3> QED BY <3>1
  <2>2. CASE q # r
    <3>1. pc'[q] = pc[q] /\ ctx'[q] = ctx[q]
      BY <2>2 DEF Go, TypeReqs
    <3> QED BY <3>1 DEF NamesInReqs
  <2> QED BY <2>1, <2>2
<1>3. NamesInReqs'
  BY <1>2 DEF NamesInReqs, NamesOf
<1> QED BY <1>1, <1>3

LEMMA FinishType ==
    ASSUME TypeReqs, TypeLocks, NamesInReqs, NEW r \in Requests, Finish(r)
    PROVE  TypeReqs' /\ TypeLocks' /\ NamesInReqs'
<1>1. "idle" \in Labels /\ NamesOf("idle", Blank)
  BY DEF Labels, NamesOf, SidLabels
<1>2. TypeReqs' /\ NamesInReqs'
  BY <1>1, BlankType, GoType DEF Finish
<1>3. TypeLocks'
  BY DEF Finish, TypeLocks
<1> QED BY <1>2, <1>3

LEMMA LockUserType ==
    ASSUME TypeLocks, NEW r \in Requests, NEW u, LockUser(r, u),
           UNCHANGED <<session_lock, link_lock>>
    PROVE  TypeLocks'
BY DEF LockUser, TypeLocks

LEMMA RowsStay ==
    ASSUME TypeRows, NamesInRows, UNCHANGED <<db, challenges>>
    PROVE  TypeRows' /\ NamesInRows'
BY DEF TypeRows, NamesInRows, db

LEMMA TokensStay ==
    ASSUME TypeTokens, UNCHANGED <<mfa_completed, tokens, rest>>
    PROVE  TypeTokens'
BY DEF TypeTokens, tokens

LEMMA IssueTokensType ==
    ASSUME TypeTokens, NEW u \in Users, NEW s \in SessionIds, NEW epoch \in Nat,
           NEW mfa \in BOOLEAN, NEW pw \in Nat, NEW version \in Nat,
           NEW iat \in Stamps, IssueTokens(u, s, epoch, mfa, pw, version, iat)
    PROVE  access_tokens' \subseteq AccessToken /\ refresh_tokens' \subseteq RefreshToken
BY DEF TypeTokens, IssueTokens, AccessToken, RefreshToken

\* A step that only moves a request and its locks.
LEMMA MoveType ==
    ASSUME TypeInv, NEW r \in Requests, NEW label \in Labels, NEW c \in Context,
           NamesOf(label, c), Go(r, label, c), TypeLocks',
           UNCHANGED <<db, redis, tokens, rest>>
    PROVE  TypeInv'
BY GoType, RowsStay, TokensStay DEF TypeInv, redis

\* A step that ends a request and may write rows.
LEMMA CommitType ==
    ASSUME TypeInv, NEW r \in Requests, Finish(r), TypeRows', NamesInRows',
           UNCHANGED <<redis, tokens, rest>>
    PROVE  TypeInv'
BY FinishType, TokensStay DEF TypeInv, redis

LEMMA EndType ==
    ASSUME TypeInv, NEW r \in Requests, Finish(r),
           UNCHANGED <<db, redis, tokens, rest>>
    PROVE  TypeInv'
BY FinishType, RowsStay, TokensStay DEF TypeInv, redis

LEMMA MintSessionType ==
    ASSUME TypeInv, NEW r \in Requests, NEW s \in SessionIds, NEW i \in Stamps,
           NEW mfa \in BOOLEAN, ctx[r].user \in Users,
           MintSession(r, ctx[r].user, s, i, mfa, ctx[r].pw),
           UNCHANGED <<users, links, challenges>>
    PROVE  /\ TypeRows' /\ NamesInRows' /\ TypeReqs' /\ NamesInReqs'
           /\ access_tokens' \subseteq AccessToken
           /\ refresh_tokens' \subseteq RefreshToken
<1>1. /\ ctx[r] \in Context /\ ctx[r].pw \in Nat
      /\ users[ctx[r].user] \in User /\ users[ctx[r].user].auth_epoch \in Nat
  BY DEF TypeInv, TypeReqs, TypeRows, Context, User
<1>2. TypeRows'
  BY <1>1 DEF MintSession, TypeInv, TypeRows, Session
<1>3. NamesInRows'
  BY DEF MintSession, TypeInv, NamesInRows, TypeRows, Session
<1>4. /\ [ctx[r] EXCEPT !.sid = s, !.iat = i] \in Context
      /\ NamesOf("insert_commit", [ctx[r] EXCEPT !.sid = s, !.iat = i])
  BY <1>1 DEF Context, NamesOf, SidLabels
<1>5. TypeReqs' /\ NamesInReqs'
  BY <1>4, GoType DEF MintSession, TypeInv, Labels
<1>6. access_tokens' \subseteq AccessToken /\ refresh_tokens' \subseteq RefreshToken
  BY <1>1, IssueTokensType DEF MintSession, TypeInv
<1> QED BY <1>2, <1>3, <1>5, <1>6

-----------------------------------------------------------------------------
(* Login                                                                    *)

LEMMA LoginReadType ==
    ASSUME TypeInv, NEW r \in Requests, NEW u \in Users, LoginRead(r, u)
    PROVE  TypeInv'
<1> DEFINE c == [Blank EXCEPT !.user = u, !.pw = users[u].password_hash]
<1>1. users[u].password_hash \in Nat
  BY DEF TypeInv, TypeRows, User
<1>2. c \in Context /\ NamesOf("login_lock", c)
  BY <1>1 DEF Blank, Context, NamesOf, SidLabels
<1>3. TypeLocks'
  BY DEF LoginRead, TypeInv, TypeLocks, locks
<1> QED BY <1>2, <1>3, MoveType DEF LoginRead, Labels

LEMMA LoginMintType ==
    ASSUME TypeInv, NEW r \in Requests, NEW s \in SessionIds, NEW i \in Stamps,
           LoginMint(r, s, i)
    PROVE  TypeInv'
<1>1. ctx[r].user \in Users
  BY ContextType DEF LoginMint, NamesOf
<1>2. TypeLocks'
  BY LockUserType DEF LoginMint, TypeInv
<1>3. /\ TypeRows' /\ NamesInRows' /\ TypeReqs' /\ NamesInReqs'
      /\ access_tokens' \subseteq AccessToken
      /\ refresh_tokens' \subseteq RefreshToken
  BY <1>1, MintSessionType DEF LoginMint, redis
<1>4. TypeTokens'
  BY <1>3 DEF LoginMint, TypeInv, TypeTokens, redis
<1> QED BY <1>2, <1>3, <1>4 DEF TypeInv

LEMMA LoginChallengeType ==
    ASSUME TypeInv, NEW r \in Requests, NEW c \in ChallengeIds, LoginChallenge(r, c)
    PROVE  TypeInv'
<1>1. /\ ctx[r] \in Context /\ ctx[r].user \in Users /\ ctx[r].pw \in Nat
      /\ users[ctx[r].user].auth_epoch \in Nat
  BY ContextType DEF LoginChallenge, NamesOf, TypeInv, TypeRows, User, Context
<1>2. TypeRows' /\ NamesInRows'
  BY <1>1 DEF LoginChallenge, TypeInv, TypeRows, NamesInRows, Challenge, db
<1>3. TypeReqs' /\ NamesInReqs'
  BY <1>1, GoType DEF LoginChallenge, TypeInv, Labels, NamesOf, SidLabels
<1>4. TypeLocks' /\ TypeTokens'
  BY LockUserType, TokensStay DEF LoginChallenge, TypeInv
<1> QED BY <1>2, <1>3, <1>4 DEF TypeInv

LEMMA InsertCommitType ==
    ASSUME TypeInv, NEW r \in Requests, InsertCommit(r)
    PROVE  TypeInv'
<1>1. /\ ctx[r].sid \in SessionIds /\ ctx[r].user \in Users
      /\ ctx[r].iat \in Stamps /\ ctx[r].pw \in Nat
  BY ContextType DEF InsertCommit, NamesOf, SidLabels, Context
<1>2. TypeRows' /\ NamesInRows'
  BY <1>1 DEF InsertCommit, TypeInv, TypeRows, NamesInRows, Session, redis
<1> QED BY <1>2, CommitType DEF InsertCommit

LEMMA VerifyResolveType ==
    ASSUME TypeInv, NEW r \in Requests, NEW c \in ChallengeIds, VerifyResolve(r, c)
    PROVE  TypeInv'
<1> DEFINE x == [Blank EXCEPT !.user = challenges[c].user, !.challenge = c,
                              !.epoch = challenges[c].epoch, !.pw = challenges[c].pw]
<1>1. challenges[c] \in Challenge /\ challenges[c].user \in Users
  BY DEF VerifyResolve, TypeInv, TypeRows, NamesInRows
<1>2. x \in Context /\ NamesOf("verify_consume", x)
  BY <1>1 DEF Blank, Context, Challenge, NamesOf, SidLabels
<1>3. TypeLocks'
  BY DEF VerifyResolve, TypeInv, TypeLocks, locks
<1> QED BY <1>2, <1>3, MoveType DEF VerifyResolve, Labels

LEMMA VerifyConsumeType ==
    ASSUME TypeInv, NEW r \in Requests, VerifyConsume(r)
    PROVE  TypeInv'
<1>1. ctx[r] \in Context /\ ctx[r].user \in Users /\ ctx[r].challenge \in ChallengeIds
  BY ContextType DEF VerifyConsume, NamesOf
<1>2. TypeRows' /\ NamesInRows'
  <2> DEFINE d == ctx[r].challenge
  <2>1. challenges[d] \in Challenge /\ d \in ChallengeIds
    BY <1>1 DEF TypeInv, TypeRows
  <2>3. [challenges[d] EXCEPT !.state = "spent"] \in Challenge
    BY <2>1 DEF Challenge
  <2>4. challenges' \in [ChallengeIds -> Challenge]
    BY <2>1, <2>3 DEF VerifyConsume, TypeInv, TypeRows
  <2>5. TypeRows'
    BY <2>4 DEF VerifyConsume, TypeInv, TypeRows, db
  <2>6. \A c \in ChallengeIds :
           challenges'[c].state = "open" => challenges'[c].user \in Users
    BY <2>1 DEF VerifyConsume, TypeInv, TypeRows, NamesInRows
  <2> QED BY <2>5, <2>6 DEF VerifyConsume, TypeInv, NamesInRows, db
<1>3. TypeTokens'
  BY TokensStay DEF VerifyConsume, TypeInv
<1>4. TypeReqs' /\ NamesInReqs' /\ TypeLocks'
  <2>1. NamesOf("verify_factor", ctx[r]) /\ "verify_factor" \in Labels
    BY <1>1 DEF NamesOf, SidLabels, Labels
  <2>2. CASE Go(r, "verify_factor", ctx[r]) /\ UNCHANGED locks
    BY <1>1, <2>1, <2>2, GoType DEF TypeInv, TypeLocks, locks
  <2>3. CASE Finish(r)
    BY <2>3, FinishType DEF TypeInv
  <2> QED BY <2>2, <2>3 DEF VerifyConsume
<1> QED BY <1>2, <1>3, <1>4 DEF TypeInv

LEMMA CompleteMfaLoginType ==
    ASSUME TypeInv, NEW r \in Requests, NEW s \in SessionIds, NEW i \in Stamps,
           CompleteMfaLogin(r, s, i)
    PROVE  TypeInv'
<1>1. ctx[r].user \in Users
  BY ContextType DEF CompleteMfaLogin, NamesOf
<1>2. TypeLocks'
  BY LockUserType DEF CompleteMfaLogin, TypeInv
<1>3. /\ TypeRows' /\ NamesInRows' /\ TypeReqs' /\ NamesInReqs'
      /\ access_tokens' \subseteq AccessToken
      /\ refresh_tokens' \subseteq RefreshToken
  BY <1>1, MintSessionType DEF CompleteMfaLogin
<1>4. TypeTokens'
  BY <1>3 DEF CompleteMfaLogin, TypeInv, TypeTokens
<1> QED BY <1>2, <1>3, <1>4 DEF TypeInv

-----------------------------------------------------------------------------
(* RefreshSession and Logout                                                *)

LEMMA RefreshPeekType ==
    ASSUME TypeInv, NEW r \in Requests, NEW t \in refresh_tokens, RefreshPeek(r, t)
    PROVE  TypeInv'
<1> DEFINE c == [Blank EXCEPT !.user = sessions[t.sid].user, !.sid = t.sid,
                              !.version = t.version, !.iat = t.iat,
                              !.mfa = (t.sid \in mfa_completed)]
<1>1. t.sid \in SessionIds /\ t.version \in Nat /\ t.iat \in Stamps
  BY DEF TypeInv, TypeTokens, RefreshToken
<1>2. sessions[t.sid].user \in Users
  BY <1>1 DEF RefreshPeek, Stored, TypeInv, NamesInRows
<1>3. c \in Context /\ NamesOf("refresh_user", c)
  <2> HIDE DEF c
  <2>1. (t.sid \in mfa_completed) \in BOOLEAN
    OBVIOUS
  <2>2. c = [Blank EXCEPT !.user = sessions[t.sid].user, !.sid = t.sid,
                          !.version = t.version, !.iat = t.iat,
                          !.mfa = (t.sid \in mfa_completed)]
    BY DEF c
  <2> QED BY <1>1, <1>2, <2>1, <2>2 DEF Blank, Context, NamesOf, SidLabels
<1>4. TypeLocks'
  BY DEF RefreshPeek, TypeInv, TypeLocks, locks
<1> QED BY <1>3, <1>4, MoveType DEF RefreshPeek, Labels

LEMMA RefreshLockUserType ==
    ASSUME TypeInv, NEW r \in Requests, RefreshLockUser(r)
    PROVE  TypeInv'
<1>1. /\ ctx[r] \in Context /\ NamesOf("refresh_session", ctx[r])
      /\ "refresh_session" \in Labels
  BY ContextType DEF RefreshLockUser, NamesOf, SidLabels, Labels
<1>2. TypeLocks'
  BY LockUserType DEF RefreshLockUser, TypeInv, TypeLocks
<1> QED BY <1>1, <1>2, MoveType DEF RefreshLockUser

LEMMA RefreshTerminateType ==
    ASSUME TypeInv, NEW r \in Requests, RefreshTerminate(r)
    PROVE  TypeInv'
<1>1. /\ ctx[r] \in Context /\ NamesOf("revoke_commit", ctx[r])
      /\ "revoke_commit" \in Labels
  BY ContextType DEF RefreshTerminate, RefreshLockSession, NamesOf, SidLabels, Labels
<1>2. TypeLocks'
  BY DEF RefreshTerminate, RefreshLockSession, TypeInv, TypeLocks
<1> QED BY <1>1, <1>2, MoveType DEF RefreshTerminate

LEMMA RefreshMintType ==
    ASSUME TypeInv, NEW r \in Requests, NEW i \in Stamps, RefreshMint(r, i)
    PROVE  TypeInv'
<1>1. /\ ctx[r] \in Context /\ ctx[r].user \in Users /\ ctx[r].sid \in SessionIds
      /\ ctx[r].version \in Nat /\ ctx[r].mfa \in BOOLEAN
  BY ContextType
     DEF RefreshMint, RefreshLockSession, NamesOf, SidLabels, Context
<1>2. /\ users[ctx[r].user].auth_epoch \in Nat /\ sessions[ctx[r].sid].pw \in Nat
      /\ sessions[ctx[r].sid].version + 1 \in Nat
  BY <1>1 DEF TypeInv, TypeRows, User, Session
<1>3. /\ [ctx[r] EXCEPT !.iat = i] \in Context
      /\ NamesOf("rotate_commit", [ctx[r] EXCEPT !.iat = i])
  BY <1>1 DEF Context, NamesOf, SidLabels
<1>4. TypeReqs' /\ NamesInReqs'
  BY <1>3, GoType DEF RefreshMint, TypeInv, Labels
<1>5. TypeLocks'
  BY DEF RefreshMint, RefreshLockSession, TypeInv, TypeLocks
<1>6. access_tokens' \subseteq AccessToken /\ refresh_tokens' \subseteq RefreshToken
  <2> DEFINE mfa == RefreshedMfa(r)
  <2>1. mfa \in BOOLEAN
    BY <1>1 DEF RefreshedMfa
  <2>2. IssueTokens(ctx[r].user, ctx[r].sid, users[ctx[r].user].auth_epoch, mfa,
                    sessions[ctx[r].sid].pw, sessions[ctx[r].sid].version + 1, i)
    BY DEF RefreshMint
  <2>3. TypeTokens
    BY DEF TypeInv
  <2> HIDE DEF mfa
  <2> QED BY <1>1, <1>2, <2>1, <2>2, <2>3, IssueTokensType
<1>7. TypeTokens' /\ TypeRows' /\ NamesInRows'
  BY <1>6, RowsStay DEF RefreshMint, TypeInv, TypeTokens, redis
<1> QED BY <1>4, <1>5, <1>7 DEF TypeInv

LEMMA RotateCommitType ==
    ASSUME TypeInv, NEW r \in Requests, RotateCommit(r)
    PROVE  TypeInv'
<1>1. ctx[r].sid \in SessionIds /\ ctx[r].iat \in Stamps /\ ctx[r].version + 1 \in Nat
  BY ContextType DEF RotateCommit, NamesOf, SidLabels, Context
<1>2. TypeRows' /\ NamesInRows'
  BY <1>1 DEF RotateCommit, TypeInv, TypeRows, NamesInRows, Session, redis
<1> QED BY <1>2, CommitType DEF RotateCommit

\* A commit that revokes the one session the request names.
LEMMA RevokeType ==
    ASSUME TypeInv, NEW r \in Requests, NEW s \in SessionIds,
           sessions' = [sessions EXCEPT ![s].revoked = TRUE],
           Finish(r), UNCHANGED <<users, links, redis, tokens, rest>>
    PROVE  TypeInv'
<1>1. sessions[s] \in Session /\ sessions \in [SessionIds -> Session]
  BY DEF TypeInv, TypeRows
<1>2. /\ [sessions[s] EXCEPT !.revoked = TRUE] \in Session
      /\ [sessions[s] EXCEPT !.revoked = TRUE].row = sessions[s].row
      /\ [sessions[s] EXCEPT !.revoked = TRUE].user = sessions[s].user
  BY <1>1 DEF Session
<1>3. /\ sessions' = [sessions EXCEPT ![s] = [sessions[s] EXCEPT !.revoked = TRUE]]
      /\ UNCHANGED <<users, links, challenges, mfa_completed>>
  BY DEF redis
<1>4. TypeRows' /\ NamesInRows'
  <2>1. sessions' \in [SessionIds -> Session]
    BY <1>1, <1>2, <1>3
  <2>2. \A x \in SessionIds : /\ sessions'[x].row = sessions[x].row
                              /\ sessions'[x].user = sessions[x].user
    BY <1>1, <1>2, <1>3
  <2>3. TypeRows'
    BY <1>3, <2>1 DEF TypeInv, TypeRows
  <2> QED
    BY <1>3, <2>2, <2>3 DEF TypeInv, NamesInRows
<1> QED BY <1>4, CommitType

LEMMA RevokeCommitType ==
    ASSUME TypeInv, NEW r \in Requests, RevokeCommit(r)
    PROVE  TypeInv'
<1>1. ctx[r].sid \in SessionIds
  BY ContextType DEF RevokeCommit, NamesOf, SidLabels
<1> QED BY <1>1, RevokeType DEF RevokeCommit

LEMMA LogoutLockType ==
    ASSUME TypeInv, NEW r \in Requests, NEW t \in access_tokens, LogoutLock(r, t)
    PROVE  TypeInv'
<1> DEFINE c == [Blank EXCEPT !.user = sessions[t.sid].user, !.sid = t.sid]
<1>1. t.sid \in SessionIds
  BY DEF TypeInv, TypeTokens, AccessToken
<1>2. sessions[t.sid].user \in Users
  BY <1>1 DEF LogoutLock, Live, Stored, TypeInv, NamesInRows
<1>3. c \in Context /\ NamesOf("logout_audit", c)
  BY <1>1, <1>2 DEF Blank, Context, NamesOf, SidLabels
<1>4. TypeLocks'
  BY DEF LogoutLock, TypeInv, TypeLocks
<1> QED BY <1>3, <1>4, MoveType DEF LogoutLock, Labels

LEMMA LogoutCommitType ==
    ASSUME TypeInv, NEW r \in Requests, LogoutCommit(r)
    PROVE  TypeInv'
<1>1. ctx[r].sid \in SessionIds
  BY ContextType DEF LogoutCommit, NamesOf, SidLabels
<1> QED BY <1>1, RevokeType DEF LogoutCommit

-----------------------------------------------------------------------------
(* Password reset                                                           *)

LEMMA RequestResetReadType ==
    ASSUME TypeInv, NEW r \in Requests, NEW u \in Users, RequestResetRead(r, u)
    PROVE  TypeInv'
<1> DEFINE c == [Blank EXCEPT !.user = u]
<1>1. c \in Context /\ NamesOf("request_insert", c)
  BY DEF Blank, Context, NamesOf, SidLabels
<1>2. TypeLocks'
  BY DEF RequestResetRead, TypeInv, TypeLocks, locks
<1> QED BY <1>1, <1>2, MoveType DEF RequestResetRead, Labels

LEMMA RequestResetInsertType ==
    ASSUME TypeInv, NEW r \in Requests, NEW k \in ResetIds, RequestResetInsert(r, k)
    PROVE  TypeInv'
<1>1. ctx[r].user \in Users
  BY ContextType DEF RequestResetInsert, NamesOf
<1>2. users[ctx[r].user].password_hash \in Nat
  BY <1>1 DEF TypeInv, TypeRows, User
<1>3. TypeRows' /\ NamesInRows'
  BY <1>1, <1>2 DEF RequestResetInsert, TypeInv, TypeRows, NamesInRows, Link, redis
<1> QED BY <1>3, CommitType DEF RequestResetInsert

LEMMA ResetLockLinkType ==
    ASSUME TypeInv, NEW r \in Requests, NEW k \in ResetIds, ResetLockLink(r, k)
    PROVE  TypeInv'
<1> DEFINE c == [Blank EXCEPT !.user = links[k].user, !.link = k]
<1>1. links[k].user \in Users
  BY DEF ResetLockLink, TypeInv, NamesInRows
<1>2. c \in Context /\ NamesOf("reset_user", c)
  BY <1>1 DEF Blank, Context, NamesOf, SidLabels
<1>3. TypeLocks'
  BY DEF ResetLockLink, TypeInv, TypeLocks
<1> QED BY <1>2, <1>3, MoveType DEF ResetLockLink, Labels

LEMMA ResetLockUserType ==
    ASSUME TypeInv, NEW r \in Requests, ResetLockUser(r)
    PROVE  TypeInv'
<1>1. /\ ctx[r] \in Context /\ NamesOf("reset_commit", ctx[r])
      /\ "reset_commit" \in Labels
  BY ContextType DEF ResetLockUser, NamesOf, SidLabels, Labels
<1>2. TypeLocks'
  BY LockUserType DEF ResetLockUser, TypeInv
<1> QED BY <1>1, <1>2, MoveType DEF ResetLockUser

LEMMA RevokeAllForUserType ==
    ASSUME TypeInv, NEW u
    PROVE  /\ RevokeAllForUser(u) \in [SessionIds -> Session]
           /\ \A s \in SessionIds : /\ RevokeAllForUser(u)[s].user = sessions[s].user
                                    /\ RevokeAllForUser(u)[s].row = sessions[s].row
<1>1. \A s \in SessionIds : sessions[s] \in Session
  BY DEF TypeInv, TypeRows
<1> QED BY <1>1 DEF RevokeAllForUser, Session

LEMMA ConsumeOutstandingType ==
    ASSUME TypeInv, NEW u
    PROVE  /\ ConsumeOutstanding(u) \in [ResetIds -> Link]
           /\ \A k \in ResetIds : /\ ConsumeOutstanding(u)[k].user = links[k].user
                                  /\ ConsumeOutstanding(u)[k].row = links[k].row
<1>1. \A k \in ResetIds : links[k] \in Link
  BY DEF TypeInv, TypeRows
<1> QED BY <1>1 DEF ConsumeOutstanding, Link

LEMMA ResetCommitType ==
    ASSUME TypeInv, NEW r \in Requests, ResetCommit(r)
    PROVE  TypeInv'
<1> DEFINE u == ctx[r].user
<1>1. u \in Users
  BY ContextType DEF ResetCommit, NamesOf
<1>2. ChangePassword(u) \in [Users -> User]
  BY <1>1 DEF ChangePassword, TypeInv, TypeRows, User
<1>3. TypeRows'
  BY <1>2, RevokeAllForUserType, ConsumeOutstandingType
     DEF ResetCommit, TypeInv, TypeRows, redis
<1>4. NamesInRows'
  BY RevokeAllForUserType, ConsumeOutstandingType
     DEF ResetCommit, TypeInv, NamesInRows, redis
<1> QED BY <1>3, <1>4, CommitType DEF ResetCommit

-----------------------------------------------------------------------------
(* SetUserActive and ConfirmMfaSetup                                        *)

LEMMA SetActiveLockType ==
    ASSUME TypeInv, NEW r \in Requests, NEW a \in Users \cup {Nil}, NEW u \in Users,
           SetActiveLock(r, a, u)
    PROVE  TypeInv'
<1> DEFINE c == [Blank EXCEPT !.user = u, !.actor = a]
<1>1. c \in Context /\ NamesOf("active_commit", c)
  BY DEF Blank, Context, NamesOf, SidLabels
<1>2. TypeLocks'
  BY LockUserType DEF SetActiveLock, TypeInv
<1> QED BY <1>1, <1>2, MoveType DEF SetActiveLock, Labels

LEMMA SetActiveCommitType ==
    ASSUME TypeInv, NEW r \in Requests, SetActiveCommit(r)
    PROVE  TypeInv'
<1> DEFINE u == ctx[r].user
<1>1. u \in Users
  BY ContextType DEF SetActiveCommit, NamesOf
<1>2. Deactivate(u) \in [Users -> User] /\ Activate(u) \in [Users -> User]
  <2>1. users \in [Users -> User] /\ users[u] \in User
    BY <1>1 DEF TypeInv, TypeRows
  <2>2. ASSUME NEW x \in User, NEW n \in Nat, NEW b \in BOOLEAN
        PROVE  /\ [x EXCEPT !.is_active = b, !.auth_epoch = n] \in User
               /\ [x EXCEPT !.is_active = b] \in User
    BY Zenon DEF User
  <2>3. users[u].auth_epoch + 1 \in Nat
    BY <2>1 DEF User
  <2>4. Activate(u) \in [Users -> User]
    BY <1>1, <2>1, <2>2 DEF Activate
  <2>5. Deactivate(u) \in [Users -> User]
    BY <1>1, <2>1, <2>2, <2>3 DEF Deactivate
  <2> QED BY <2>4, <2>5
<1>3. TypeRows'
  BY <1>2, RevokeAllForUserType DEF SetActiveCommit, TypeInv, TypeRows, redis
<1>4. NamesInRows'
  BY RevokeAllForUserType DEF SetActiveCommit, TypeInv, NamesInRows, redis
<1> QED BY <1>3, <1>4, CommitType DEF SetActiveCommit

LEMMA EnrollClaimsType ==
    ASSUME TypeInv, NEW r \in Requests, NEW t \in access_tokens, EnrollClaims(r, t)
    PROVE  TypeInv'
<1> DEFINE c == [Blank EXCEPT !.user = t.user, !.sid = t.sid, !.epoch = t.epoch,
                              !.pw = t.pw]
<1>1. t.user \in Users /\ t.sid \in SessionIds /\ t.epoch \in Nat /\ t.pw \in Nat
  BY DEF TypeInv, TypeTokens, AccessToken
<1>2. c \in Context /\ NamesOf("enroll", c)
  BY <1>1 DEF Blank, Context, NamesOf, SidLabels
<1>3. TypeLocks'
  BY DEF EnrollClaims, TypeInv, TypeLocks, locks
<1> QED BY <1>2, <1>3, MoveType DEF EnrollClaims, Labels

LEMMA EnrollMintType ==
    ASSUME TypeInv, NEW r \in Requests, EnrollMint(r)
    PROVE  TypeInv'
<1>1. /\ ctx[r] \in Context /\ ctx[r].user \in Users /\ ctx[r].sid \in SessionIds
      /\ ctx[r].epoch \in Nat /\ ctx[r].pw \in Nat
  BY ContextType DEF EnrollMint, NamesOf, SidLabels, Context
<1>2. TypeTokens'
  <2>1. [user |-> ctx[r].user, sid |-> ctx[r].sid, epoch |-> EnrollEpoch(r),
         mfa |-> TRUE, pw |-> ctx[r].pw] \in AccessToken
    BY <1>1 DEF EnrollEpoch, AccessToken
  <2> QED BY <1>1, <2>1 DEF EnrollMint, TypeInv, TypeTokens
<1>3. TypeRows' /\ NamesInRows'
  BY RowsStay DEF EnrollMint, TypeInv
<1>4. "enroll_commit" \in Labels /\ NamesOf("enroll_commit", ctx[r])
  BY <1>1 DEF Labels, NamesOf, SidLabels
<1>5. TypeReqs' /\ NamesInReqs'
  BY <1>1, <1>4, GoType DEF EnrollMint, TypeInv
<1>6. TypeLocks'
  BY DEF EnrollMint, TypeInv, TypeLocks, locks
<1> QED BY <1>2, <1>3, <1>5, <1>6 DEF TypeInv

LEMMA EnrollCommitType ==
    ASSUME TypeInv, NEW r \in Requests, EnrollCommit(r)
    PROVE  TypeInv'
<1>1. ctx[r].user \in Users
  BY ContextType DEF EnrollCommit, NamesOf
<1>2. TypeRows' /\ NamesInRows'
  BY <1>1 DEF EnrollCommit, TypeInv, TypeRows, NamesInRows, User, redis
<1> QED BY <1>2, CommitType DEF EnrollCommit

-----------------------------------------------------------------------------
(* The purge                                                                *)

LEMMA PurgeBeginType ==
    ASSUME TypeInv, NEW r \in Requests, NEW u \in Users, PurgeBegin(r, u)
    PROVE  TypeInv'
<1> DEFINE c == [Blank EXCEPT !.user = u]
<1>1. c \in Context /\ NamesOf("purge_row", c)
  BY DEF Blank, Context, NamesOf, SidLabels
<1>2. TypeLocks'
  BY DEF PurgeBegin, TypeInv, TypeLocks, locks
<1> QED BY <1>1, <1>2, MoveType DEF PurgeBegin, Labels

LEMMA PurgeRowType ==
    ASSUME TypeInv, NEW r \in Requests, PurgeRow(r)
    PROVE  TypeInv'
<1> DEFINE u == ctx[r].user
           purging == ctx[r].purging \cup (IF users[u].present THEN {u} ELSE {})
           c == [ctx[r] EXCEPT !.purging = purging]
<1>1. ctx[r] \in Context /\ u \in Users /\ purging \in SUBSET Users
  BY ContextType DEF PurgeRow, NamesOf, Context
<1>2. c \in Context /\ NamesOf("purge_cascade", c)
  BY <1>1 DEF Context, NamesOf, SidLabels
<1>3. TypeLocks'
  <2>1. CASE LockUser(r, u)
    BY <2>1, LockUserType DEF PurgeRow, TypeInv
  <2>2. CASE UNCHANGED user_lock
    BY <2>2 DEF PurgeRow, TypeInv, TypeLocks
  <2> QED BY <2>1, <2>2 DEF PurgeRow
<1>4. UNCHANGED <<db, redis, tokens, rest>>
  BY DEF PurgeRow
<1>5. CASE Go(r, "purge_cascade", c)
  BY <1>2, <1>3, <1>4, <1>5, MoveType DEF Labels
<1>6. ASSUME NEW v \in Users,
             Go(r, "purge_row", [ctx[r] EXCEPT !.user = v, !.purging = purging])
      PROVE  TypeInv'
  <2>1. /\ [ctx[r] EXCEPT !.user = v, !.purging = purging] \in Context
        /\ NamesOf("purge_row", [ctx[r] EXCEPT !.user = v, !.purging = purging])
    BY <1>1 DEF Context, NamesOf, SidLabels
  <2> QED BY <2>1, <1>3, <1>4, <1>6, MoveType DEF Labels
<1> QED BY <1>5, <1>6 DEF PurgeRow

LEMMA PurgeCommitType ==
    ASSUME TypeInv, NEW r \in Requests, PurgeCommit(r)
    PROVE  TypeInv'
<1>1. users' \in [Users -> User]
  BY DEF PurgeCommit, TypeInv, TypeRows, User
<1>2. /\ sessions' \in [SessionIds -> Session]
      /\ \A s \in SessionIds : /\ sessions'[s].user = sessions[s].user
                               /\ sessions'[s].row = "deleted" =>
                                    sessions[s].row \in {"stored", "deleted"}
                               /\ sessions'[s].row = "stored" => sessions[s].row = "stored"
  <2>1. \A s \in SessionIds : sessions[s] \in Session
    BY DEF TypeInv, TypeRows
  <2> QED BY <2>1 DEF PurgeCommit, WithoutSessions, SessionsOf, Session, Stored
<1>3. /\ links' \in [ResetIds -> Link]
      /\ \A k \in ResetIds : /\ links'[k].user = links[k].user
                             /\ links'[k].row # "unused" => links[k].row # "unused"
  <2>1. \A k \in ResetIds : links[k] \in Link
    BY DEF TypeInv, TypeRows
  <2> QED BY <2>1 DEF PurgeCommit, WithoutLinks, LinksOf, Link
<1>4. TypeRows'
  BY <1>1, <1>2, <1>3 DEF PurgeCommit, TypeInv, TypeRows, redis
<1>5. NamesInRows'
  BY <1>2, <1>3 DEF PurgeCommit, TypeInv, NamesInRows, redis
<1> QED BY <1>4, <1>5, CommitType DEF PurgeCommit

-----------------------------------------------------------------------------
(* The environment                                                          *)

\* A step that no request takes.
LEMMA OutsideType ==
    ASSUME TypeInv, TypeRows', NamesInRows', TypeTokens',
           UNCHANGED <<locks, pc, ctx>>
    PROVE  TypeInv'
<1>1. TypeLocks' /\ TypeReqs'
  BY DEF TypeInv, TypeLocks, TypeReqs, locks
<1>2. NamesInReqs'
  BY DEF TypeInv, NamesInReqs, NamesOf
<1> QED BY <1>1, <1>2 DEF TypeInv

LEMMA SessionExpiresType ==
    ASSUME TypeInv, NEW s \in SessionIds, SessionExpires(s)
    PROVE  TypeInv'
<1>1. sessions[s] \in Session /\ sessions \in [SessionIds -> Session]
  BY DEF TypeInv, TypeRows
<1>2. /\ [sessions[s] EXCEPT !.expired = TRUE] \in Session
      /\ [sessions[s] EXCEPT !.expired = TRUE].row = sessions[s].row
      /\ [sessions[s] EXCEPT !.expired = TRUE].user = sessions[s].user
  BY <1>1 DEF Session
<1>3. /\ sessions' = [sessions EXCEPT ![s] = [sessions[s] EXCEPT !.expired = TRUE]]
      /\ UNCHANGED <<users, links, challenges, mfa_completed>>
  BY DEF SessionExpires, redis
<1>4. TypeRows' /\ NamesInRows'
  <2>1. sessions' \in [SessionIds -> Session]
    BY <1>1, <1>2, <1>3
  <2>2. \A x \in SessionIds : /\ sessions'[x].row = sessions[x].row
                              /\ sessions'[x].user = sessions[x].user
    BY <1>1, <1>2, <1>3
  <2>3. TypeRows'
    BY <1>3, <2>1 DEF TypeInv, TypeRows
  <2> QED
    BY <1>3, <2>2, <2>3 DEF TypeInv, NamesInRows
<1>5. TypeTokens'
  BY TokensStay DEF SessionExpires, TypeInv, redis
<1> QED BY <1>4, <1>5, OutsideType DEF SessionExpires

LEMMA LinkExpiresType ==
    ASSUME TypeInv, NEW k \in ResetIds, LinkExpires(k)
    PROVE  TypeInv'
<1>1. TypeRows' /\ NamesInRows'
  BY DEF LinkExpires, TypeInv, TypeRows, NamesInRows, Link, redis
<1>2. TypeTokens'
  BY TokensStay DEF LinkExpires, TypeInv, redis
<1> QED BY <1>1, <1>2, OutsideType DEF LinkExpires

LEMMA ChallengeExpiresType ==
    ASSUME TypeInv, NEW c \in ChallengeIds, ChallengeExpires(c)
    PROVE  TypeInv'
<1>1. TypeRows' /\ NamesInRows'
  BY DEF ChallengeExpires, TypeInv, TypeRows, NamesInRows, Challenge, db
<1>2. TypeTokens'
  BY TokensStay DEF ChallengeExpires, TypeInv
<1> QED BY <1>1, <1>2, OutsideType DEF ChallengeExpires

LEMMA RedisRestartType ==
    ASSUME TypeInv, RedisRestart
    PROVE  TypeInv'
<1>1. /\ challenges' \in [ChallengeIds -> Challenge]
      /\ \A c \in ChallengeIds : challenges'[c].state # "open"
  <2>1. \A c \in ChallengeIds : challenges[c] \in Challenge
    BY DEF TypeInv, TypeRows
  <2> QED BY <2>1 DEF RedisRestart, Challenge
<1>2. TypeRows' /\ NamesInRows'
  BY <1>1 DEF RedisRestart, TypeInv, TypeRows, NamesInRows, db
<1>3. TypeTokens'
  BY DEF RedisRestart, TypeInv, TypeTokens, tokens
<1> QED BY <1>2, <1>3, OutsideType DEF RedisRestart

-----------------------------------------------------------------------------
LEMMA BeginType ==
    ASSUME TypeInv, NEW r \in Requests, Begin(r)
    PROVE  TypeInv'
BY LoginReadType, VerifyResolveType, RefreshPeekType, LogoutLockType,
   RequestResetReadType, ResetLockLinkType, SetActiveLockType, EnrollClaimsType,
   PurgeBeginType
   DEF Begin

LEMMA ContinueType ==
    ASSUME TypeInv, NEW r \in Requests, Continue(r)
    PROVE  TypeInv'
<1>1. CASE LoginRefused(r) \/ AuditCommit(r) \/ CompleteRefused(r)
           \/ RefreshRefused(r) \/ ResetRefused(r)
  BY <1>1, EndType
     DEF LoginRefused, AuditCommit, CompleteRefused, RefreshRefused, ResetRefused
<1> QED
  BY <1>1, LoginMintType, LoginChallengeType, InsertCommitType, VerifyConsumeType,
     CompleteMfaLoginType, RefreshLockUserType, RefreshTerminateType,
     RefreshMintType, RotateCommitType, RevokeCommitType, LogoutCommitType,
     RequestResetInsertType, ResetLockUserType, ResetCommitType,
     SetActiveCommitType, EnrollMintType, EnrollCommitType, PurgeRowType,
     PurgeCommitType
     DEF Continue

LEMMA EnvironmentType ==
    ASSUME TypeInv, Environment
    PROVE  TypeInv'
BY SessionExpiresType, LinkExpiresType, ChallengeExpiresType,
   RedisRestartType DEF Environment

LEMMA StutterType ==
    ASSUME TypeInv, UNCHANGED vars
    PROVE  TypeInv'
<1>1. TypeRows' /\ NamesInRows' /\ TypeTokens'
  BY RowsStay, TokensStay DEF TypeInv, vars, redis
<1> QED BY <1>1, OutsideType DEF vars

LEMMA TypeStep == TypeInv /\ [Next]_vars => TypeInv'
<1> SUFFICES ASSUME TypeInv, [Next]_vars PROVE TypeInv'
  OBVIOUS
<1>1. ASSUME NEW r \in Requests, Rollback(r) PROVE TypeInv'
  BY <1>1, EndType DEF Rollback
<1> QED BY <1>1, BeginType, ContinueType, EnvironmentType, StutterType DEF Next

LEMMA TypeInit == Init => TypeInv
<1> SUFFICES ASSUME Init PROVE TypeInv
  OBVIOUS
<1>1. TypeRows
  BY DEF Init, TypeRows, User, Session, Link, Challenge, NoSession, NoLink,
         NoChallenge
<1>2. TypeTokens /\ TypeLocks
  BY DEF Init, TypeTokens, TypeLocks
<1>3. TypeReqs
  BY BlankType DEF Init, TypeReqs, Labels
<1>4. NamesInRows
  BY DEF Init, NamesInRows, NoSession, NoLink, NoChallenge
<1>5. NamesInReqs
  BY DEF Init, NamesInReqs, NamesOf, SidLabels
<1> QED BY <1>1, <1>2, <1>3, <1>4, <1>5 DEF TypeInv

\* Every reachable state is well typed, and every row, challenge and request
\* that is past its first step names an account of Users.
THEOREM TypeInvariant == Spec => []TypeInv
<1>1. Init => TypeInv
  BY TypeInit
<1>2. TypeInv /\ [Next]_vars => TypeInv'
  BY TypeStep
<1> QED BY <1>1, <1>2, PTL DEF Spec

\* The rows, tokens, locks and requests of the credential core keep their types,
\* whatever the number of accounts, sessions and concurrent requests.
THEOREM TypeCorrect == Spec => []TypeOK
<1>1. TypeInv => TypeOK
  BY DEF TypeInv, TypeRows, TypeTokens, TypeLocks, TypeReqs, TypeOK
<1> QED BY <1>1, TypeInvariant, PTL

=============================================================================
