---------------------------- MODULE Credentials ----------------------------
(***************************************************************************)
(* The credential core of the identity context: what Login, RefreshSession, *)
(* Logout, the MFA half of a login, ConfirmPasswordReset, SetUserActive,     *)
(* ConfirmMfaSetup and the purge job do to one another when their requests  *)
(* interleave.                                                              *)
(*                                                                          *)
(* A request is one database transaction (api/dependencies.py:get_session), *)
(* and so is a run of the purge job (jobs/purge_unverified.py). It is split *)
(* exactly where the code lets another transaction in: at an unlocked read, *)
(* at a row lock it may have to wait for, and at its commit.                *)
(* Rows are read under READ COMMITTED, so a locking read returns the row as *)
(* it is once the lock is granted.                                          *)
(*                                                                          *)
(* Two fields are history, not state of the program: `pw` on sessions,      *)
(* tokens, challenges and links is the password generation its holder had   *)
(* to prove (or, for a link, the one it was mailed under), and              *)
(* factor_proven is the set of sessions that showed a second factor.        *)
(***************************************************************************)
EXTENDS Naturals, FiniteSets

CONSTANTS
    Users,          \* ids of the rows of `users`
    Admins,         \* those whose role is ADMIN
    Unverified,     \* those that never verify their address before the purge
    Requests,       \* concurrent transactions: HTTP requests, runs of the purge
    SessionIds,     \* uuid4 values, each used for at most one session
    ResetIds,       \* ids of rows of `password_reset_tokens`
    ChallengeIds,   \* random ids of login challenges
    Stamps,         \* values of the `iat` claim of a refresh token
    Workloads,      \* sets of operations; a behaviour has those of one of them
    MaxEpoch,       \* bound on auth_epoch and on password generations
    MaxVersion,     \* bound on a session's token_version
    Nil

ASSUME RoleAssumption == Admins \subseteq Users /\ Unverified \subseteq Users
ASSUME BoundAssumption == MaxEpoch \in Nat /\ MaxVersion \in Nat
ASSUME NilAssumption ==
    Nil \notin Users \cup Requests \cup SessionIds \cup ResetIds
               \cup ChallengeIds \cup Stamps

VARIABLES
    users, sessions, links,             \* committed rows (PostgreSQL)
    challenges, mfa_completed,          \* Redis
    access_tokens, refresh_tokens,      \* every token ever signed
    user_lock, session_lock, link_lock, \* FOR UPDATE holders
    pc, ctx,                            \* where a request is, what it has read
    factor_proven,                      \* history
    ops                                 \* the operations of this behaviour

db     == <<users, sessions, links>>
redis  == <<challenges, mfa_completed>>
tokens == <<access_tokens, refresh_tokens>>
locks  == <<user_lock, session_lock, link_lock>>
rest   == <<factor_proven, ops>>
vars   == <<db, redis, tokens, locks, pc, ctx, rest>>

Labels == {"idle", "login_lock", "insert_commit", "audit_commit",
           "verify_consume", "verify_factor", "refresh_user",
           "refresh_session", "rotate_commit", "revoke_commit",
           "logout_audit", "reset_user", "reset_commit", "active_commit",
           "enroll", "enroll_commit", "request_insert",
           "purge_row", "purge_cascade"}

User == [present: BOOLEAN, is_active: BOOLEAN, auth_epoch: Nat,
         password_hash: Nat, mfa_enabled: BOOLEAN]

Session == [row: {"unused", "taken", "stored", "deleted"},
            user: Users \cup {Nil}, version: Nat, iat: Stamps \cup {Nil},
            revoked: BOOLEAN, expired: BOOLEAN, pw: Nat]

Link == [row: {"unused", "stored", "deleted"}, user: Users \cup {Nil},
         used: BOOLEAN, expired: BOOLEAN, pw: Nat]

Challenge == [state: {"unused", "open", "spent"}, user: Users \cup {Nil},
              epoch: Nat, pw: Nat]

AccessToken == [user: Users, sid: SessionIds, epoch: Nat, mfa: BOOLEAN, pw: Nat]

RefreshToken == [sid: SessionIds, version: Nat, iat: Stamps]

Context == [user: Users \cup {Nil}, actor: Users \cup {Nil},
            sid: SessionIds \cup {Nil}, link: ResetIds \cup {Nil},
            challenge: ChallengeIds \cup {Nil}, epoch: Nat, pw: Nat,
            version: Nat, iat: Stamps \cup {Nil}, mfa: BOOLEAN,
            purging: SUBSET Users]

Blank == [user |-> Nil, actor |-> Nil, sid |-> Nil, link |-> Nil,
          challenge |-> Nil, epoch |-> 0, pw |-> 0, version |-> 0,
          iat |-> Nil, mfa |-> FALSE, purging |-> {}]

NoSession == [row |-> "unused", user |-> Nil, version |-> 0, iat |-> Nil,
              revoked |-> FALSE, expired |-> FALSE, pw |-> 0]

NoLink == [row |-> "unused", user |-> Nil, used |-> FALSE, expired |-> FALSE,
           pw |-> 0]

NoChallenge == [state |-> "unused", user |-> Nil, epoch |-> 0, pw |-> 0]

-----------------------------------------------------------------------------
(* The predicates the code decides on.                                      *)

\* User.can_authenticate, of a row that is there.
CanAuthenticate(u) == users[u].present /\ users[u].is_active

\* current_claims: the token's epoch is the account's.
CurrentClaims(t) == users[t.user].present /\ t.epoch = users[t.user].auth_epoch

\* AdminMfaGate.challenge_required.
ChallengeRequired(u) == u \in Admins /\ users[u].mfa_enabled

Stored(s) == sessions[s].row = "stored"
Live(s) == Stored(s) /\ ~sessions[s].revoked

\* Fault: the version and hash of the row re-read under the lock are not compared.
AuthorizeRotationStale(r) ==
    Live(ctx[r].sid) /\ ~sessions[ctx[r].sid].expired

\* Session.authorize_rotation accepts the token request r presented ...
AuthorizeRotation(r) ==
    LET s == ctx[r].sid IN
    /\ Live(s) /\ ~sessions[s].expired
    /\ ctx[r].version = sessions[s].version
    /\ ctx[r].iat = sessions[s].iat

\* ... or reports reuse: decided before the hash is looked at.
ReuseDetected(r) ==
    LET s == ctx[r].sid IN
    /\ Live(s) /\ ~sessions[s].expired
    /\ ctx[r].version < sessions[s].version

Free(lock, row) == lock[row] = Nil

-----------------------------------------------------------------------------
(* How a request moves.                                                     *)

Go(r, label, c) ==
    /\ pc' = [pc EXCEPT ![r] = label]
    /\ ctx' = [ctx EXCEPT ![r] = c]

\* The end of the transaction, either way: every row lock it holds goes.
Finish(r) ==
    /\ Go(r, "idle", Blank)
    /\ user_lock' = [u \in Users |-> IF user_lock[u] = r THEN Nil ELSE user_lock[u]]
    /\ session_lock' = [s \in SessionIds |->
                          IF session_lock[s] = r THEN Nil ELSE session_lock[s]]
    /\ link_lock' = [k \in ResetIds |-> IF link_lock[k] = r THEN Nil ELSE link_lock[k]]

\* A foreign key's FOR KEY SHARE on u's row, held from an audit insert to the
\* commit. Only ConfirmMfaSetup does more work in between; it also holds the
\* credential row, so two confirmations never overlap there.
KeyShared(u) == \E q \in Requests : pc[q] = "enroll_commit" /\ ctx[q].user = u

\* SELECT ... FOR UPDATE on u's row returns.
Lockable(u) == Free(user_lock, u) /\ ~KeyShared(u)

LockUser(r, u) ==
    /\ Lockable(u)
    /\ user_lock' = [user_lock EXCEPT ![u] = r]

\* Sign the pair of tokens a login or a rotation answers with. They leave with
\* the response, which may precede the commit of the transaction.
IssueTokens(u, s, epoch, mfa, pw, version, iat) ==
    /\ access_tokens' = access_tokens \cup
         {[user |-> u, sid |-> s, epoch |-> epoch, mfa |-> mfa, pw |-> pw]}
    /\ refresh_tokens' = refresh_tokens \cup
         {[sid |-> s, version |-> version, iat |-> iat]}

\* A fresh uuid4 becomes a session of u: chosen now, stored at the commit.
MintSession(r, u, s, i, mfa, pw) ==
    /\ sessions[s].row = "unused"
    /\ sessions' = [sessions EXCEPT ![s].row = "taken"]
    /\ IssueTokens(u, s, users[u].auth_epoch, mfa, pw, 1, i)
    /\ Go(r, "insert_commit", [ctx[r] EXCEPT !.sid = s, !.iat = i])

-----------------------------------------------------------------------------
(* Login.execute                                                            *)

\* The unlocked read, Argon2 against the captured hash and can_authenticate.
\* A caller who fails any of them changes nothing here.
LoginRead(r, u) ==
    /\ pc[r] = "idle"
    /\ CanAuthenticate(u)
    /\ Go(r, "login_lock", [Blank EXCEPT !.user = u, !.pw = users[u].password_hash])
    /\ UNCHANGED <<db, redis, tokens, locks, rest>>

\* Fault: the locked row's hash is not compared with the one Argon2 verified.
LoginRecheckNoHash(r) == CanAuthenticate(ctx[r].user)

\* What is re-checked under the lock: the account and the credential version.
LoginRecheck(r) ==
    /\ CanAuthenticate(ctx[r].user)
    /\ users[ctx[r].user].password_hash = ctx[r].pw

LoginMint(r, s, i) ==
    /\ pc[r] = "login_lock"
    /\ LockUser(r, ctx[r].user)
    /\ LoginRecheck(r)
    /\ ~ChallengeRequired(ctx[r].user)
    /\ MintSession(r, ctx[r].user, s, i, FALSE, ctx[r].pw)
    /\ UNCHANGED <<users, links, redis, session_lock, link_lock, rest>>

\* The gate wants a second factor: the challenge reaches Redis before the
\* transaction (which only holds an audit row) commits.
LoginChallenge(r, c) ==
    /\ pc[r] = "login_lock"
    /\ LockUser(r, ctx[r].user)
    /\ LoginRecheck(r)
    /\ ChallengeRequired(ctx[r].user)
    /\ challenges[c].state = "unused"
    /\ challenges' = [challenges EXCEPT ![c] =
         [state |-> "open", user |-> ctx[r].user,
          epoch |-> users[ctx[r].user].auth_epoch, pw |-> ctx[r].pw]]
    /\ Go(r, "audit_commit", ctx[r])
    /\ UNCHANGED <<db, mfa_completed, tokens, session_lock, link_lock, rest>>

LoginRefused(r) ==
    /\ pc[r] = "login_lock"
    /\ Lockable(ctx[r].user)
    /\ ~LoginRecheck(r)
    /\ Finish(r)
    /\ UNCHANGED <<db, redis, tokens, rest>>

\* get_session commits the request: the session row is there.
InsertCommit(r) ==
    /\ pc[r] = "insert_commit"
    /\ sessions' = [sessions EXCEPT ![ctx[r].sid] =
         [row |-> "stored", user |-> ctx[r].user, version |-> 1,
          iat |-> ctx[r].iat, revoked |-> FALSE, expired |-> FALSE,
          pw |-> ctx[r].pw]]
    /\ Finish(r)
    /\ UNCHANGED <<users, links, redis, tokens, rest>>

AuditCommit(r) ==
    /\ pc[r] = "audit_commit"
    /\ Finish(r)
    /\ UNCHANGED <<db, redis, tokens, rest>>

-----------------------------------------------------------------------------
(* verify_mfa: resolve, consume, second factor, CompleteMfaLogin.           *)

VerifyResolve(r, c) ==
    /\ pc[r] = "idle"
    /\ challenges[c].state = "open"
    /\ Go(r, "verify_consume",
          [Blank EXCEPT !.user = challenges[c].user, !.challenge = c,
                        !.epoch = challenges[c].epoch, !.pw = challenges[c].pw])
    /\ UNCHANGED <<db, redis, tokens, locks, rest>>

\* DEL, then the unlocked early check of the epoch.
VerifyConsume(r) ==
    /\ pc[r] = "verify_consume"
    /\ challenges' = [challenges EXCEPT ![ctx[r].challenge].state = "spent"]
    /\ \/ /\ users[ctx[r].user].present
          /\ users[ctx[r].user].auth_epoch = ctx[r].epoch
          /\ Go(r, "verify_factor", ctx[r])
          /\ UNCHANGED locks
       \/ /\ ~(/\ users[ctx[r].user].present
               /\ users[ctx[r].user].auth_epoch = ctx[r].epoch)
          /\ Finish(r)
    /\ UNCHANGED <<db, mfa_completed, tokens, rest>>

\* Fault: the early, unlocked check of the epoch is trusted.
CompleteRecheckNoEpoch(r) == CanAuthenticate(ctx[r].user)

CompleteRecheck(r) ==
    /\ CanAuthenticate(ctx[r].user)
    /\ ctx[r].epoch = users[ctx[r].user].auth_epoch

\* The factor was right (VerifyMfa; a wrong one is Rollback). The completed flag
\* is set in Redis before the session commits.
CompleteMfaLogin(r, s, i) ==
    /\ pc[r] = "verify_factor"
    /\ LockUser(r, ctx[r].user)
    /\ CompleteRecheck(r)
    /\ MintSession(r, ctx[r].user, s, i, TRUE, ctx[r].pw)
    /\ mfa_completed' = mfa_completed \cup {s}
    /\ factor_proven' = factor_proven \cup {s}
    /\ UNCHANGED <<users, links, challenges, session_lock, link_lock, ops>>

CompleteRefused(r) ==
    /\ pc[r] = "verify_factor"
    /\ Lockable(ctx[r].user)
    /\ ~CompleteRecheck(r)
    /\ Finish(r)
    /\ UNCHANGED <<db, redis, tokens, rest>>

-----------------------------------------------------------------------------
(* RefreshSession.execute                                                   *)

\* Fault: the session row is locked first (as before VS-004).
RefreshPeekLocking(r, t) ==
    /\ pc[r] = "idle"
    /\ Stored(t.sid)
    /\ Free(session_lock, t.sid)
    /\ session_lock' = [session_lock EXCEPT ![t.sid] = r]
    /\ Go(r, "refresh_user",
          [Blank EXCEPT !.user = sessions[t.sid].user, !.sid = t.sid,
                        !.version = t.version, !.iat = t.iat,
                        !.mfa = (t.sid \in mfa_completed)])
    /\ UNCHANGED <<db, redis, tokens, user_lock, link_lock, rest>>

\* The Redis flag and the unlocked peek at the session's owner.
RefreshPeek(r, t) ==
    /\ pc[r] = "idle"
    /\ Stored(t.sid)
    /\ Go(r, "refresh_user",
          [Blank EXCEPT !.user = sessions[t.sid].user, !.sid = t.sid,
                        !.version = t.version, !.iat = t.iat,
                        !.mfa = (t.sid \in mfa_completed)])
    /\ UNCHANGED <<db, redis, tokens, locks, rest>>

\* SELECT ... FOR UPDATE of a row the purge has removed locks nothing.
RefreshLockUser(r) ==
    /\ pc[r] = "refresh_user"
    /\ \/ users[ctx[r].user].present /\ LockUser(r, ctx[r].user)
       \/ ~users[ctx[r].user].present /\ UNCHANGED user_lock
    /\ Go(r, "refresh_session", ctx[r])
    /\ UNCHANGED <<db, redis, tokens, session_lock, link_lock, rest>>

RefreshLockSession(r) ==
    /\ pc[r] = "refresh_session"
    /\ Free(session_lock, ctx[r].sid)
    /\ session_lock' = [session_lock EXCEPT ![ctx[r].sid] = r]
    /\ UNCHANGED <<user_lock, link_lock>>

\* Reuse detected, or the owner may no longer authenticate: the session is to
\* be revoked, and the route commits that despite the 401.
RefreshTerminate(r) ==
    /\ RefreshLockSession(r)
    /\ \/ ReuseDetected(r)
       \/ AuthorizeRotation(r) /\ ~CanAuthenticate(ctx[r].user)
    /\ Go(r, "revoke_commit", ctx[r])
    /\ UNCHANGED <<db, redis, tokens, rest>>

RefreshRefused(r) ==
    /\ pc[r] = "refresh_session"
    /\ Free(session_lock, ctx[r].sid)
    /\ ~AuthorizeRotation(r) /\ ~ReuseDetected(r)
    /\ Finish(r)
    /\ UNCHANGED <<db, redis, tokens, rest>>

\* Fault: the claim follows the account's role, not the session's flag.
RefreshedMfaOfRole(r) == ctx[r].user \in Admins

\* The claim the refresh route read before the transaction.
RefreshedMfa(r) == ctx[r].mfa

RefreshMint(r, i) ==
    /\ RefreshLockSession(r)
    /\ AuthorizeRotation(r) /\ CanAuthenticate(ctx[r].user)
    /\ sessions[ctx[r].sid].version < MaxVersion
    /\ IssueTokens(ctx[r].user, ctx[r].sid, users[ctx[r].user].auth_epoch,
                   RefreshedMfa(r), sessions[ctx[r].sid].pw,
                   sessions[ctx[r].sid].version + 1, i)
    /\ Go(r, "rotate_commit", [ctx[r] EXCEPT !.iat = i])
    /\ UNCHANGED <<db, redis, rest>>

\* Session.rotate and save: only the columns rotate() changed are written.
RotateCommit(r) ==
    /\ pc[r] = "rotate_commit"
    /\ sessions' = [sessions EXCEPT ![ctx[r].sid].version = @ + 1,
                                    ![ctx[r].sid].iat = ctx[r].iat]
    /\ Finish(r)
    /\ UNCHANGED <<users, links, redis, tokens, rest>>

RevokeCommit(r) ==
    /\ pc[r] = "revoke_commit"
    /\ sessions' = [sessions EXCEPT ![ctx[r].sid].revoked = TRUE]
    /\ Finish(r)
    /\ UNCHANGED <<users, links, redis, tokens, rest>>

-----------------------------------------------------------------------------
(* Logout.execute                                                           *)

\* A stale token cannot get here: its session was revoked with its epoch.
LogoutLock(r, t) ==
    /\ pc[r] = "idle"
    /\ CurrentClaims(t)
    /\ Live(t.sid)
    /\ Free(session_lock, t.sid)
    /\ session_lock' = [session_lock EXCEPT ![t.sid] = r]
    /\ Go(r, "logout_audit", [Blank EXCEPT !.user = sessions[t.sid].user, !.sid = t.sid])
    /\ UNCHANGED <<db, redis, tokens, user_lock, link_lock, rest>>

\* The audit row's foreign key takes FOR KEY SHARE on the actor's users row,
\* which waits for a FOR UPDATE holder.
LogoutCommit(r) ==
    /\ pc[r] = "logout_audit"
    /\ Free(user_lock, ctx[r].user)
    /\ sessions' = [sessions EXCEPT ![ctx[r].sid].revoked = TRUE]
    /\ Finish(r)
    /\ UNCHANGED <<users, links, redis, tokens, rest>>

-----------------------------------------------------------------------------
(* RequestPasswordReset.execute and ConfirmPasswordReset.execute            *)

RequestResetRead(r, u) ==
    /\ pc[r] = "idle"
    /\ CanAuthenticate(u)
    /\ Go(r, "request_insert", [Blank EXCEPT !.user = u])
    /\ UNCHANGED <<db, redis, tokens, locks, rest>>

\* The insert's foreign key waits for the users row; without the row it fails.
RequestResetInsert(r, k) ==
    /\ pc[r] = "request_insert"
    /\ users[ctx[r].user].present
    /\ Free(user_lock, ctx[r].user)
    /\ links[k].row = "unused"
    /\ links' = [links EXCEPT ![k] =
         [row |-> "stored", user |-> ctx[r].user, used |-> FALSE,
          expired |-> FALSE, pw |-> users[ctx[r].user].password_hash]]
    /\ Finish(r)
    /\ UNCHANGED <<users, sessions, redis, tokens, rest>>

ResetLockLink(r, k) ==
    /\ pc[r] = "idle"
    /\ links[k].row = "stored"
    /\ Free(link_lock, k)
    /\ link_lock' = [link_lock EXCEPT ![k] = r]
    /\ Go(r, "reset_user", [Blank EXCEPT !.user = links[k].user, !.link = k])
    /\ UNCHANGED <<db, redis, tokens, user_lock, session_lock, rest>>

\* Fault: a link is not refused for having been used.
ResetAllowedReuse(r) ==
    CanAuthenticate(ctx[r].user) /\ ~links[ctx[r].link].expired

\* The account may authenticate and PasswordResetToken.mark_used accepts.
ResetAllowed(r) ==
    /\ CanAuthenticate(ctx[r].user)
    /\ ~links[ctx[r].link].used
    /\ ~links[ctx[r].link].expired

ResetLockUser(r) ==
    /\ pc[r] = "reset_user"
    /\ LockUser(r, ctx[r].user)
    /\ ResetAllowed(r)
    /\ users[ctx[r].user].auth_epoch < MaxEpoch
    /\ Go(r, "reset_commit", ctx[r])
    /\ UNCHANGED <<db, redis, tokens, session_lock, link_lock, rest>>

ResetRefused(r) ==
    /\ pc[r] = "reset_user"
    /\ Lockable(ctx[r].user)
    /\ ~ResetAllowed(r)
    /\ Finish(r)
    /\ UNCHANGED <<db, redis, tokens, rest>>

\* The rows a bulk UPDATE of user u's sessions and unused links has to lock.
LiveSessionsOf(u) == {s \in SessionIds : Live(s) /\ sessions[s].user = u}
UnusedLinksOf(u) ==
    {k \in ResetIds : links[k].row = "stored" /\ ~links[k].used /\ links[k].user = u}

RevokeAllForUser(u) ==
    [s \in SessionIds |->
        IF s \in LiveSessionsOf(u) THEN [sessions[s] EXCEPT !.revoked = TRUE]
                                   ELSE sessions[s]]

\* Fault: only the link being redeemed (the locked one) is burned.
ConsumeRedeemed(u) ==
    [k \in ResetIds |->
        IF k \in UnusedLinksOf(u) /\ link_lock[k] # Nil
        THEN [links[k] EXCEPT !.used = TRUE] ELSE links[k]]

ConsumeOutstanding(u) ==
    [k \in ResetIds |->
        IF k \in UnusedLinksOf(u) THEN [links[k] EXCEPT !.used = TRUE] ELSE links[k]]

ChangePassword(u) ==
    [users EXCEPT ![u].password_hash = @ + 1, ![u].auth_epoch = @ + 1]

ResetCommit(r) ==
    LET u == ctx[r].user IN
    /\ pc[r] = "reset_commit"
    /\ \A k \in UnusedLinksOf(u) : link_lock[k] \in {Nil, r}
    /\ \A s \in LiveSessionsOf(u) : session_lock[s] \in {Nil, r}
    /\ users' = ChangePassword(u)
    /\ links' = ConsumeOutstanding(u)
    /\ sessions' = RevokeAllForUser(u)
    /\ Finish(r)
    /\ UNCHANGED <<redis, tokens, rest>>

-----------------------------------------------------------------------------
(* SetUserActive.execute                                                    *)

\* The actor passed require_admin; Nil is an administrator whose own row is
\* not among Users. A request that restates the stored value returns at once.
SetActiveLock(r, actor, u) ==
    /\ pc[r] = "idle"
    /\ \/ actor = Nil
       \/ \E t \in access_tokens : CurrentClaims(t) /\ t.mfa /\ t.user = actor
    /\ users[u].present
    /\ users[u].is_active => users[u].auth_epoch < MaxEpoch
    /\ LockUser(r, u)
    /\ Go(r, "active_commit", [Blank EXCEPT !.user = u, !.actor = actor])
    /\ UNCHANGED <<db, redis, tokens, session_lock, link_lock, rest>>

\* Fault: the epoch moves the wrong way.
DeactivateBackwards(u) ==
    [users EXCEPT ![u].is_active = FALSE, ![u].auth_epoch = @ - 1]

Deactivate(u) == [users EXCEPT ![u].is_active = FALSE, ![u].auth_epoch = @ + 1]
Activate(u) == [users EXCEPT ![u].is_active = TRUE]

\* The audit row is attributed to the actor, so its insert takes FOR KEY SHARE
\* on the actor's row.
SetActiveCommit(r) ==
    LET u == ctx[r].user
        actor == ctx[r].actor
    IN
    /\ pc[r] = "active_commit"
    /\ actor # Nil => users[actor].present /\ user_lock[actor] \in {Nil, r}
    /\ \/ /\ users[u].is_active
          /\ \A s \in LiveSessionsOf(u) : session_lock[s] \in {Nil, r}
          /\ users' = Deactivate(u)
          /\ sessions' = RevokeAllForUser(u)
       \/ /\ ~users[u].is_active
          /\ users' = Activate(u)
          /\ UNCHANGED sessions
    /\ Finish(r)
    /\ UNCHANGED <<links, redis, tokens, rest>>

-----------------------------------------------------------------------------
(* confirm_mfa_setup: the claims are checked, then kept for the re-mint.    *)

EnrollClaims(r, t) ==
    /\ pc[r] = "idle"
    /\ CurrentClaims(t)
    /\ t.user \in Admins
    /\ Go(r, "enroll", [Blank EXCEPT !.user = t.user, !.sid = t.sid,
                                     !.epoch = t.epoch, !.pw = t.pw])
    /\ UNCHANGED <<db, redis, tokens, locks, rest>>

\* Fault: the epoch is read again at the re-mint.
EnrollEpochReread(r) == users[ctx[r].user].auth_epoch

\* The epoch of the re-minted token is the one current_claims checked.
EnrollEpoch(r) == ctx[r].epoch

\* The code matched the enrolled secret. Redis and the new access token are
\* ahead of the commit.
EnrollMint(r) ==
    /\ pc[r] = "enroll"
    /\ users[ctx[r].user].present
    /\ ~users[ctx[r].user].mfa_enabled
    /\ Lockable(ctx[r].user)
    /\ mfa_completed' = mfa_completed \cup {ctx[r].sid}
    /\ factor_proven' = factor_proven \cup {ctx[r].sid}
    /\ access_tokens' = access_tokens \cup
         {[user |-> ctx[r].user, sid |-> ctx[r].sid, epoch |-> EnrollEpoch(r),
           mfa |-> TRUE, pw |-> ctx[r].pw]}
    /\ Go(r, "enroll_commit", ctx[r])
    /\ UNCHANGED <<db, challenges, refresh_tokens, locks, ops>>

EnrollCommit(r) ==
    /\ pc[r] = "enroll_commit"
    /\ users' = [users EXCEPT ![ctx[r].user].mfa_enabled = TRUE]
    /\ Finish(r)
    /\ UNCHANGED <<sessions, links, redis, tokens, rest>>

-----------------------------------------------------------------------------
(* UserRepository.purge_never_verified_before: one DELETE.                  *)

Purgeable(u) == u \in Unverified /\ users[u].present

\* It starts: u is the first row it matches. An account may be too young to be
\* matched, so any of the others may be among the rows or not.
PurgeBegin(r, u) ==
    /\ pc[r] = "idle"
    /\ Purgeable(u)
    /\ Go(r, "purge_row", [Blank EXCEPT !.user = u])
    /\ UNCHANGED <<db, redis, tokens, locks, rest>>

\* The rows are locked one by one, in no stated order; one that has gone
\* meanwhile is passed over.
PurgeRow(r) ==
    LET u == ctx[r].user
        purging == ctx[r].purging \cup (IF users[u].present THEN {u} ELSE {})
    IN
    /\ pc[r] = "purge_row"
    /\ IF users[u].present THEN LockUser(r, u) ELSE UNCHANGED user_lock
    /\ \/ Go(r, "purge_cascade", [ctx[r] EXCEPT !.purging = purging])
       \/ \E v \in Users \ purging :
            /\ Purgeable(v)
            /\ Go(r, "purge_row", [ctx[r] EXCEPT !.user = v, !.purging = purging])
    /\ UNCHANGED <<db, redis, tokens, session_lock, link_lock, rest>>

\* The rows that ON DELETE CASCADE removes with the accounts `gone`.
SessionsOf(gone) == {s \in SessionIds : Stored(s) /\ sessions[s].user \in gone}
LinksOf(gone) ==
    {k \in ResetIds : links[k].row = "stored" /\ links[k].user \in gone}

WithoutSessions(gone) ==
    [s \in SessionIds |->
        IF s \in SessionsOf(gone) THEN [sessions[s] EXCEPT !.row = "deleted"]
                                  ELSE sessions[s]]

WithoutLinks(gone) ==
    [k \in ResetIds |->
        IF k \in LinksOf(gone) THEN [links[k] EXCEPT !.row = "deleted"]
                               ELSE links[k]]

\* All its accounts are locked; the cascades wait for the rows below them. Who waits
\* for one of those in turn holds no other row, so taking them one at a time would
\* close no further circle.
PurgeCommit(r) ==
    LET gone == ctx[r].purging IN
    /\ pc[r] = "purge_cascade"
    /\ \A s \in SessionsOf(gone) : session_lock[s] = Nil
    /\ \A k \in LinksOf(gone) : link_lock[k] = Nil
    /\ users' = [u \in Users |->
         IF u \in gone THEN [users[u] EXCEPT !.present = FALSE] ELSE users[u]]
    /\ sessions' = WithoutSessions(gone)
    /\ links' = WithoutLinks(gone)
    /\ Finish(r)
    /\ UNCHANGED <<redis, tokens, rest>>

-----------------------------------------------------------------------------
(* The rest of the world.                                                   *)

\* Any exception, a lost connection, a crash of the process, or PostgreSQL
\* choosing this transaction to break a deadlock.
Rollback(r) ==
    /\ pc[r] # "idle"
    /\ Finish(r)
    /\ UNCHANGED <<db, redis, tokens, rest>>

SessionExpires(s) ==
    /\ Stored(s) /\ ~sessions[s].expired
    /\ sessions' = [sessions EXCEPT ![s].expired = TRUE]
    /\ UNCHANGED <<users, links, redis, tokens, locks, pc, ctx, rest>>

LinkExpires(k) ==
    /\ links[k].row = "stored" /\ ~links[k].expired
    /\ links' = [links EXCEPT ![k].expired = TRUE]
    /\ UNCHANGED <<users, sessions, redis, tokens, locks, pc, ctx, rest>>

ChallengeExpires(c) ==
    /\ challenges[c].state = "open"
    /\ challenges' = [challenges EXCEPT ![c].state = "spent"]
    /\ UNCHANGED <<db, mfa_completed, tokens, locks, pc, ctx, rest>>

\* Redis has no volume: a restart answers with an empty keyspace.
RedisRestart ==
    /\ challenges' = [c \in ChallengeIds |->
         IF challenges[c].state = "open" THEN [challenges[c] EXCEPT !.state = "spent"]
                                         ELSE challenges[c]]
    /\ mfa_completed' = {}
    /\ UNCHANGED <<db, tokens, locks, pc, ctx, rest>>

-----------------------------------------------------------------------------
Init ==
    /\ \E enrolled \in SUBSET Admins :
         users = [u \in Users |->
           [present |-> TRUE, is_active |-> TRUE, auth_epoch |-> 0,
            password_hash |-> 0, mfa_enabled |-> (u \in enrolled)]]
    /\ sessions = [s \in SessionIds |-> NoSession]
    /\ links = [k \in ResetIds |-> NoLink]
    /\ challenges = [c \in ChallengeIds |-> NoChallenge]
    /\ mfa_completed = {}
    /\ access_tokens = {}
    /\ refresh_tokens = {}
    /\ user_lock = [u \in Users |-> Nil]
    /\ session_lock = [s \in SessionIds |-> Nil]
    /\ link_lock = [k \in ResetIds |-> Nil]
    /\ pc = [r \in Requests |-> "idle"]
    /\ ctx = [r \in Requests |-> Blank]
    /\ factor_proven = {}
    /\ ops \in Workloads

\* A request arrives, or the purge is due.
Begin(r) ==
    \/ "login" \in ops /\ \E u \in Users : LoginRead(r, u)
    \/ "verify" \in ops /\ \E c \in ChallengeIds : VerifyResolve(r, c)
    \/ "refresh" \in ops /\ \E t \in refresh_tokens : RefreshPeek(r, t)
    \/ "logout" \in ops /\ \E t \in access_tokens : LogoutLock(r, t)
    \/ "reset" \in ops /\ \E u \in Users : RequestResetRead(r, u)
    \/ "reset" \in ops /\ \E k \in ResetIds : ResetLockLink(r, k)
    \/ /\ "set_active" \in ops
       /\ \E a \in Users \cup {Nil}, u \in Users : SetActiveLock(r, a, u)
    \/ "enroll" \in ops /\ \E t \in access_tokens : EnrollClaims(r, t)
    \/ "purge" \in ops /\ \E u \in Users : PurgeBegin(r, u)

\* It goes on to its next wait, or to its end.
Continue(r) ==
    \/ \E s \in SessionIds, i \in Stamps : LoginMint(r, s, i)
    \/ \E c \in ChallengeIds : LoginChallenge(r, c)
    \/ LoginRefused(r) \/ InsertCommit(r) \/ AuditCommit(r)
    \/ VerifyConsume(r)
    \/ \E s \in SessionIds, i \in Stamps : CompleteMfaLogin(r, s, i)
    \/ CompleteRefused(r)
    \/ RefreshLockUser(r) \/ RefreshTerminate(r) \/ RefreshRefused(r)
    \/ \E i \in Stamps : RefreshMint(r, i)
    \/ RotateCommit(r) \/ RevokeCommit(r)
    \/ LogoutCommit(r)
    \/ \E k \in ResetIds : RequestResetInsert(r, k)
    \/ ResetLockUser(r) \/ ResetRefused(r) \/ ResetCommit(r)
    \/ SetActiveCommit(r)
    \/ EnrollMint(r) \/ EnrollCommit(r)
    \/ PurgeRow(r) \/ PurgeCommit(r)

Environment ==
    \/ "expiry" \in ops /\ \E s \in SessionIds : SessionExpires(s)
    \/ "expiry" \in ops /\ \E k \in ResetIds : LinkExpires(k)
    \/ "redis_expiry" \in ops /\ \E c \in ChallengeIds : ChallengeExpires(c)
    \/ "redis_restart" \in ops /\ RedisRestart

Next ==
    \/ \E r \in Requests : Begin(r) \/ Continue(r) \/ Rollback(r)
    \/ Environment

Spec == Init /\ [][Next]_vars

-----------------------------------------------------------------------------
(* Properties                                                               *)

\* Every variable has its type.
TypeOK ==
    /\ users \in [Users -> User]
    /\ sessions \in [SessionIds -> Session]
    /\ links \in [ResetIds -> Link]
    /\ challenges \in [ChallengeIds -> Challenge]
    /\ mfa_completed \subseteq SessionIds
    /\ access_tokens \subseteq AccessToken
    /\ refresh_tokens \subseteq RefreshToken
    /\ user_lock \in [Users -> Requests \cup {Nil}]
    /\ session_lock \in [SessionIds -> Requests \cup {Nil}]
    /\ link_lock \in [ResetIds -> Requests \cup {Nil}]
    /\ pc \in [Requests -> Labels]
    /\ ctx \in [Requests -> Context]
    /\ factor_proven \subseteq SessionIds
    /\ ops \in Workloads

\* A session that still works belongs to an account that may authenticate and
\* was opened by someone who proved the password the account has now: no login,
\* no second factor and no refresh that overlapped a reset or a deactivation
\* left a session behind it (login.py:98-129, mfa_complete_login.py:90-109,
\* confirm_password_reset.py:67-93, set_user_active.py:115-123).
NoStaleSession ==
    \A s \in SessionIds : Live(s) =>
        /\ CanAuthenticate(sessions[s].user)
        /\ sessions[s].pw = users[sessions[s].user].password_hash

\* ADR-018: once a reset has completed, current_claims accepts no access token
\* issued before it; nor one of an account that was deactivated, even after it
\* is active again (dependencies.py:67-76).
NoStaleToken ==
    \A t \in access_tokens : CurrentClaims(t) =>
        /\ CanAuthenticate(t.user)
        /\ t.pw = users[t.user].password_hash

\* One reset closes every other route into the account: a link that still works
\* was mailed under the password it would replace
\* (confirm_password_reset.py:90-92).
NoStaleLink ==
    \A k \in ResetIds : links[k].row = "stored" /\ ~links[k].used =>
        links[k].pw = users[links[k].user].password_hash

\* The mfa claim is earned: a token carries it only for a session that showed a
\* second factor, whatever Redis lost and whenever refresh read the flag
\* (auth.py:297-307, mfa.py:234-251, mfa_complete_login.py:156).
MfaClaimEarned ==
    \A t \in access_tokens : t.mfa => t.sid \in factor_proven

RevokedStays ==
    \A s \in SessionIds : Stored(s) /\ sessions[s].revoked =>
        /\ sessions'[s].row \in {"stored", "deleted"}
        /\ sessions'[s].revoked
        /\ sessions'[s].version = sessions[s].version
        /\ sessions'[s].iat = sessions[s].iat

\* A revoked session is final: no rotation in flight, logout or bulk revocation
\* brings it back or moves its refresh token (entities.py:160-161,
\* repositories.py:297-326).
RevokedIsFinal == [][RevokedStays]_vars

RotationSpends ==
    \A s \in SessionIds : Stored(s) =>
        \/ /\ sessions'[s].version = sessions[s].version
           /\ sessions'[s].iat = sessions[s].iat
        \/ /\ sessions'[s].version = sessions[s].version + 1
           /\ \E r \in Requests : /\ pc[r] # "idle" /\ pc'[r] = "idle"
                                 /\ ctx[r].sid = s
                                 /\ ctx[r].version = sessions[s].version

\* FR-02, "at most one rotation succeeds": a step that changes a stored
\* session's refresh token advances it by one version, for a request that
\* presented the version it replaces (entities.py:164-177).
RotationSpendsCurrentToken == [][RotationSpends]_vars

ResetSpends ==
    \A u \in Users : users'[u].password_hash # users[u].password_hash =>
        /\ users'[u].auth_epoch # users[u].auth_epoch
        /\ \E k \in UnusedLinksOf(u) :
              links[k].pw = users[u].password_hash /\ links'[k].used
        /\ UnusedLinksOf(u)' = {}

\* Every change of a password spends a link that was unused and was mailed under
\* the password being replaced, and leaves no other link of the account usable:
\* two requests never spend the same link (repositories.py:585-594).
ResetSpendsCurrentLink == [][ResetSpends]_vars

-----------------------------------------------------------------------------
(* Each operation as one step: it takes effect at its commit.               *)

AccountOf(u) ==
    [status |-> IF ~users[u].present THEN "absent"
                ELSE IF users[u].is_active THEN "active" ELSE "inactive",
     password |-> users[u].password_hash]

SessionOf(s) ==
    [state |-> IF sessions[s].row \in {"unused", "taken"} THEN "none"
               ELSE IF Live(s) THEN "open" ELSE "closed",
     user |-> sessions[s].user, turn |-> sessions[s].version,
     password |-> sessions[s].pw]

LinkOf(k) ==
    [state |-> IF links[k].row = "unused" THEN "none"
               ELSE IF links[k].row = "stored" /\ ~links[k].used THEN "usable"
               ELSE "spent",
     user |-> links[k].user, password |-> links[k].pw]

AccountsSeen == [u \in Users |-> AccountOf(u)]
SessionsSeen == [s \in SessionIds |-> SessionOf(s)]
LinksSeen == [k \in ResetIds |-> LinkOf(k)]

Access == INSTANCE AccountAccess WITH
    Accounts <- Users, Removable <- Unverified, Sessions <- SessionIds,
    Links <- ResetIds,
    account <- AccountsSeen, session <- SessionsSeen, link <- LinksSeen

\* Split as they are over unlocked reads, lock waits and commits, the requests do
\* to accounts, sessions and links what the operations would do one at a time
\* (ADR-018; login.py:98-129, refresh_session.py:50-73, confirm_password_reset.py:63-93,
\* set_user_active.py:112-123): a login is by the password of that moment, a reset by
\* a link of it, and neither leaves an older session or link behind.
ImplementsAccountAccess == Access!Spec

-----------------------------------------------------------------------------
(* Who waits for whom. A request waits for the rows its next step locks.    *)

UserRowsWanted(r) ==
    CASE pc[r] \in {"login_lock", "verify_factor", "refresh_user", "reset_user",
                    "logout_audit", "request_insert", "enroll", "purge_row"} ->
            {ctx[r].user}
      [] pc[r] = "active_commit" -> {ctx[r].actor} \ {Nil}
      [] OTHER -> {}

SessionRowsWanted(r) ==
    CASE pc[r] = "refresh_session" -> {ctx[r].sid}
      [] pc[r] = "reset_commit" -> LiveSessionsOf(ctx[r].user)
      [] pc[r] = "active_commit" /\ users[ctx[r].user].is_active ->
            LiveSessionsOf(ctx[r].user)
      [] pc[r] = "purge_cascade" -> SessionsOf(ctx[r].purging)
      [] OTHER -> {}

LinkRowsWanted(r) ==
    CASE pc[r] = "reset_commit" -> UnusedLinksOf(ctx[r].user)
      [] pc[r] = "purge_cascade" -> LinksOf(ctx[r].purging)
      [] OTHER -> {}

\* The rows of mfa_credentials that a purge's cascade removes too. A request that
\* is at its second factor, or confirms one, may hold its account's
\* (mfa_verify.py, mfa_confirm_setup.py); MfaFactor says when.
CredentialRowsWanted(r) == IF pc[r] = "purge_cascade" THEN ctx[r].purging ELSE {}
CredentialRowsHeld(r) ==
    IF pc[r] \in {"verify_factor", "enroll"} THEN {ctx[r].user} ELSE {}

WaitsFor(r) ==
    {q \in Requests \ {r} :
        \/ \E u \in UserRowsWanted(r) : user_lock[u] = q
        \/ \E s \in SessionRowsWanted(r) : session_lock[s] = q
        \/ \E k \in LinkRowsWanted(r) : link_lock[k] = q
        \/ CredentialRowsWanted(r) \cap CredentialRowsHeld(q) # {}}

Deadlocked(W) == W # {} /\ \A r \in W : WaitsFor(r) \cap W # {}

\* No set of requests each of which waits for another of them: the order
\* `users` before `sessions` (ADR-018, README.md:184) exists so that PostgreSQL
\* never has to abort one of these transactions to break a cycle.
NoDeadlock == \A W \in SUBSET Requests : ~Deadlocked(W)

\* The code departs from one order of the rows in four places.

\* A logout holds its session and wants the users row of a request that wants,
\* or may want, that session (logout.py:19).
LogoutCrosses(q, p) ==
    /\ pc[q] = "logout_audit"
    /\ pc[p] \in {"refresh_session", "reset_commit", "active_commit"}
    /\ ctx[p].user = ctx[q].user

\* Of two resets of one account each has locked its own link, and the one with
\* the users row wants the other's (confirm_password_reset.py:59).
LinksCross(q, p) ==
    /\ pc[q] = "reset_user" /\ pc[p] = "reset_commit"
    /\ ctx[q].user = ctx[p].user
    /\ ctx[q].link # ctx[p].link

\* Of two (de)activations each has locked its own target, and one wants the users
\* row of its administrator, which is the other's target; the other waits for its
\* administrator's row too (set_user_active.py:136).
AdminsCross(q, p) ==
    /\ pc[q] = "active_commit" /\ pc[p] = "active_commit"
    /\ ctx[q].actor = ctx[p].user
    /\ ctx[q].user # ctx[p].user
    /\ ctx[p].actor \notin {Nil, ctx[p].user}

\* The purge locks several accounts, then what hangs on them
\* (repositories.py:271-276). One who has locked a session, a link or a credential
\* first wants one of those accounts; or the purge wants the account of someone
\* who waits for another: the target of a (de)activation that waits for its
\* administrator, or a row of a purge that overlaps this one.
PurgeCrosses(q, p) ==
    \/ /\ pc[q] = "purge_cascade"
       /\ pc[p] \in {"logout_audit", "reset_user", "verify_factor", "enroll"}
       /\ ctx[p].user \in ctx[q].purging
    \/ /\ pc[q] = "purge_row" /\ pc[p] = "active_commit"
       /\ ctx[q].user = ctx[p].user
       /\ ctx[p].actor \notin {Nil, ctx[p].user}
    \/ /\ pc[q] = "purge_row" /\ pc[p] \in {"purge_row", "purge_cascade"}
       /\ ctx[q].user \in ctx[p].purging

\* Every deadlock the locks on these rows allow is one of those four.
DeadlocksKnown ==
    \A W \in SUBSET Requests : Deadlocked(W) =>
        \E q, p \in W : \/ LogoutCrosses(q, p) \/ LinksCross(q, p)
                         \/ AdminsCross(q, p) \/ PurgeCrosses(q, p)

=============================================================================
