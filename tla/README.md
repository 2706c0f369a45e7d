# Bekaa3D: specifications, model checking and proofs

This directory holds TLA+ specifications of the Bekaa3D backend
(`src/src/app`), the TLC configurations that check them on small instances, and
proofs, checked by TLAPS, of the properties that matter most for instances of any
size. Paths below are relative to `src/src/app` unless they start with `src/`.

## 1. The system

Bekaa3D is a FastAPI application over PostgreSQL (READ COMMITTED) and Redis, with
an arq worker for scheduled jobs. A request is one database transaction:
`get_session` (`api/dependencies.py`) opens it and commits it when the handler
returns or rolls it back when it raises. What the code takes care over is what
concurrent requests do to one another: row locks (`FOR UPDATE`), the order in
which they are taken, unique indexes, and an *authentication epoch* on every
account that makes tokens die with the credentials they came from (ADR-018).

### Inventory

| component | state | operations | what makes it correct |
|---|---|---|---|
| **Credentials** (`identity`: login, refresh, logout, password reset, (de)activation, MFA half of a login) | `users`, `sessions`, `password_reset_tokens`; Redis login challenges and the completed-MFA flag; signed tokens held by clients | `Login`, `CompleteMfaLogin`, `RefreshSession`, `Logout`, `RequestPasswordReset`, `ConfirmPasswordReset`, `SetUserActive`, `ConfirmMfaSetup` (its token), `purge_never_verified_before`, `current_claims` | nothing issued under an old password or before a deactivation works afterwards; a refresh token is spent once; a revoked session stays revoked; a reset link is spent once and burns the others; the `mfa` claim is earned; locks are taken in one order |
| **Second factor** (`identity`) | `mfa_credentials`, `mfa_recovery_codes` | `MfaSetup`, `ConfirmMfaSetup`, `VerifyMfa`, `RegenerateRecoveryCodes` | every TOTP and every recovery code is good for one login; an enabled secret is one that was confirmed; one set of codes |
| **E-mail outbox** (`platform`, `jobs`) | `email_outbox` | `EmailOutboxRepository.add`, `dispatch_outbox` | disjoint claims; no duplicate without a lost commit or answer; attempt limit; redaction; eventual settlement |
| **Registration, verification, purge** (`identity`, `jobs`) | `users`, `verification_tokens` | `RegisterUser`, `VerifyEmail`, `ResendVerification`, `purge_unverified_accounts` | one account per address; an account and its links live and die together; verified through one link, once, and never purged after it; a cooldown between mails |
| **Throttle** (`identity`, `core/rate_limit.py`) | Redis counters | `LoginThrottle.check`, `record_failure`, `reset`, `rate_limiter` | the guesses between two clearings are bounded under concurrency; counters expire; lockouts end |
| **Settings** (`platform`) | `settings` | `UpdateSetting`, `SettingsReader`, the public page | what is accepted is readable; the audit trail is a chain of true before and after |
| **Reference data** (`catalog`) | `categories`, `materials`, `colours` | create, update, archive | live slugs are unique whatever their spelling; archived is final; the audit trail is a chain |
| **Paged lists** (settings, reference data, notifications, accounts) | none of their own | `list_page`, cursors, `has_more` | a walk serves every row that keeps its place exactly once, and ends |
| **Notifications** (`engagement`) | `notifications` | create, mark read | who is notified sees it once per walk of the list; a read mark stays |
| **Audit log** (`platform`) | `audit_logs` | insert | in the transaction of the change; its foreign key to `users` takes `FOR KEY SHARE` |
| e-mail provider, cryptography, HTTP edge, configuration | none of their own | | |

The packages `ordering`, `negotiation`, `fulfillment` and `digital_assets` hold no
code yet.

How they interact: requests that need a mail insert an outbox row in their own
transaction and the worker sends it later; every command inserts audit rows in
its own transaction, and that insert's foreign key locks the actor's `users` row;
login and refresh read MFA standing from Redis and the credential row from
PostgreSQL; the purge job deletes `users` rows and, by cascade, everything that
hangs on them.

Behaviours that are hard here: decisions on rows read before a lock (login's
Argon2 verification, the peek of a refresh, `MfaSetup`'s read of the credential);
lock orders among `users`, `sessions`, `password_reset_tokens` and the recovery
codes; two Redis calls where one is meant; Redis losing everything while tokens
live on, and a worker dying between `INCR` and `EXPIRE`; reads with no lock at all, in
registration and verification, where a unique index or a foreign key decides
instead; page walks over lists that are being written; statements that work on a
snapshot (`DELETE ... WHERE used_at IS NULL`); a crash between an external effect and
the commit that records it. `PROJECT.json`
lists them with their lines.

## 2. Modules

| module | what it is | proofs |
|---|---|---|
| `Credentials` | the credential core, all operations composed on shared rows, Redis and locks; implements `AccountAccess` | `CredentialsProofs` (types), `CredentialsSafety` (safety, lock order, refinement) |
| `AccountAccess` | abstract: who may get into an account and by what, one step per operation | |
| `OneTimeFactor` | abstract: a stock of one-time credentials | |
| `MfaFactor` | the second factor of one administrator; implements `OneTimeFactor` | `MfaFactorProofs` |
| `Outbox` | the outbox and overlapping runs of its dispatcher | `OutboxProofs` |
| `Registration` | registration, mails, redemption and the purge; implements `AddressBook` | `RegistrationProofs` |
| `AddressBook` | abstract: accounts, their addresses and the links mailed to them, one step per request or purge | |
| `SettingsRegistry` | the settings' definitions and their validation, as operators | (in `AdminRecordsProofs`) |
| `AdminRecords` | what administrators edit: settings, categories, materials and colours; implements `SlugDirectory` | `AdminRecordsProofs` |
| `SlugDirectory` | abstract: each slug belongs to one category at most | |
| `Pages` | a walk through one of the four paged lists while it is written | `PagesProofs` |
| `Throttle` | the rate limiter and the lockout of logins, call by call to Redis | `ThrottleProofs` |
| `MC*` | instances for TLC (values, symmetry sets) | |

Definitions whose comment begins with *Fault:* are not part of the models: each is
what a definition might have been had the code a plausible bug, and is there to
show that the properties would notice.

### How a request is modelled

A request is a process `r` with a label `pc[r]` and what it has read `ctx[r]`. Its
transaction is cut into actions exactly where another transaction can get in
between: after an unlocked read, at a row lock it may have to wait for, and at
the commit. Changes made under a lock become visible in the step that commits,
because until then no other transaction sees them. A locking read returns the
row as it is once the lock is granted (READ COMMITTED, `populate_existing`), so
the guard of the step that takes a lock is evaluated on the current row.
`Rollback` may end a request at any point: a refusal, an exception, a crash, or
PostgreSQL choosing it as a deadlock victim. Requests that are refused before
they touch a row are not steps.

### Credentials

State: the three tables as functions from ids to rows (only the columns decisions
depend on), Redis's challenges and flags, the set of every token ever signed
(clients may present any of them at any time), lock holders, and the history
fields `pw` and `factor_proven`. `pw` is the *password generation* the holder of a
session, token, challenge or link had to prove; `password_hash` is the current
generation, so `pw = password_hash` says "obtained under the current password".

| actions | code |
|---|---|
| `LoginRead`, `LoginMint`, `InsertCommit`, `AuditCommit`, `LoginChallenge`, `LoginRefused` | `Login.execute`, route `login` |
| `VerifyResolve`, `VerifyConsume`, `CompleteMfaLogin`, `CompleteRefused` | `verify_mfa`, `CompleteMfaLogin.execute` |
| `RefreshPeek`, `RefreshLockUser`, `RefreshTerminate` / `RefreshMint`, `RotateCommit`, `RevokeCommit`, `RefreshRefused` | `RefreshSession.execute`, `Session.authorize_rotation`, route `refresh` |
| `LogoutLock`, `LogoutCommit` | `Logout.execute` |
| `RequestResetRead`, `RequestResetInsert`, `ResetLockLink`, `ResetLockUser`, `ResetCommit`, `ResetRefused` | password reset |
| `SetActiveLock`, `SetActiveCommit` | `SetUserActive.execute` |
| `EnrollClaims`, `EnrollMint`, `EnrollCommit` | `confirm_mfa_setup` and the token it re-mints |
| `PurgeBegin`, `PurgeRow`, `PurgeCommit` | `purge_never_verified_before`, `purge_unverified_accounts` |
| `SessionExpires`, `LinkExpires`, `ChallengeExpires`, `RedisRestart` | time, Redis |

A login may be refused after it locked the account; that a wrong password is
refused is not a step. The purge is a transaction like the others: its `DELETE` locks
the `users` rows one by one, in no stated order and any subset of those that were never
verified (the others may be too young), keeps them, and then waits for the rows that
`ON DELETE CASCADE` removes with them. It is a request of its own, and two can overlap:
a job that is retried while the transaction of the attempt before still holds its rows.
`Workloads` are the sets of operations an instance considers; `Init` chooses one.

*Who waits for whom.* `WaitsFor(r)` is the set of requests that hold a row the next step
of `r` has to lock, and a set of requests is `Deadlocked` if each waits for one of the
set. `DeadlocksKnown` says which circles there are, four kinds: a logout against a
request that has the users row (`LogoutCrosses`), two reset links of one account redeemed
together (`LinksCross`), administrators who (de)activate one another (`AdminsCross`), and
the purge (`PurgeCrosses`). The purge has accounts and wants what hangs on them: one reset
that has locked its link and wants its account is enough, and so is a logout with its
session or a second factor with its credential; or it wants an account that a
(de)activation or another purge has. `NoDeadlock` says that there is no circle; it is
false of the whole system, and `OrderedNeverDeadlock` says of which operations it is true.

*What it promises.* `AccountAccess` has the same operations as single steps: a login
opens a session by the current password, a refresh takes a working session's next turn,
a reset spends a link mailed under the password it replaces and closes all that
rests on the old one, and what is closed stays closed. The mapping takes of the rows
what is committed; a deactivated or purged account, its sessions and its links are
mapped to their status. Left out are the lifetimes (they only forbid more)
and the second factor, which `OneTimeFactor` is about.

### MfaFactor and OneTimeFactor

State: the credential row, the recovery-code rows, the holder of the credential's
lock, and the current TOTP time-step. A TOTP *is* its time-step; the window is one
step either side, as `_VALID_WINDOW` says. `DELETE` of the unused codes is two
steps, `RegenerateRead` (its snapshot) and `RegenerateDelete` (the rows of the
snapshot that are still unused once their locks are granted), because that is how
PostgreSQL evaluates it. The second takes its row locks at once: one by one, two
regenerations would take them in the same order, since the same statement scans the same
rows. `SetupUpdate` writes the one column that
changed, as SQLAlchemy does. A regeneration and a recovery-code verification can
wait for each other (code rows and the credential's key share in opposite
orders); `DeadlocksKnown` says that this is the only circle, however many
requests there are. Which of the two PostgreSQL aborts is not modelled:
`Rollback` of either is the way out.

`OneTimeFactor` says what all of this is for: each item (a time-step or a
recovery code) goes from unissued to valid to spent or void and never back, and a
login is let through only by spending exactly one valid item. The refinement maps
a code's row to its state and a time-step to *spent* if a login stood on it,
*void* if the high-water mark passed it, *valid* otherwise.

### Outbox

State: the rows, the order in which pending messages became due (`send_after` is
abstracted to that order), and for each run of the dispatcher where it is, the row
it holds and how many messages its batch still allows. Each message is claim
(`FOR UPDATE SKIP LOCKED`, first due row nobody holds), provider call, outcome and
commit. `Lose` is a crash, a job cancelled at arq's time-out (a `CancelledError` is
not an `Exception`, so no attempt is counted) or a failed commit. `SendRaised`
includes the provider that accepted the message and answered too late.
`PassedOverOnlyIfHeld` is about the order: a run that takes a later message, or ends with
room in its batch, leaves behind only messages that another run has in its hands.

### Registration

State: accounts, links (a `verification_tokens` row and its mail, which are inserted
together), and what each request and each purge has in memory. None of these
requests locks a row before it decides, so what is modelled is every place where
they can be overtaken: the look-up of the address and the `INSERT` that the unique
index `ix_users_email_live` lets wait, go on or fail; the look-up of the newest link and the
insert of the next; the reads of a link and of its account, and the two `UPDATE`s.
Locks are those the statements take, the key share of a link's foreign key
included. The purge is a `DELETE` that selects on a snapshot, locks the rows one by
one and looks at each again (PostgreSQL's re-check of a row that changed while it waited),
and commits.

| actions | code |
|---|---|
| `ReadAccount`, `InsertUser`, `InsertConflict`, `CommitUser` | `RegisterUser.execute` |
| `ReadAccount`, `ReadCooldown`, `InsertLink`, `CommitLink` | `services/verification.py`, `ResendVerification.execute` |
| `ReadLink`, `LoadUser`, `WriteVerified`, `CommitVerified` | `VerifyEmail.execute`, route `verify_email` |
| `PurgeStart`, `PurgeRow`, `PurgeCommit`, `PurgeLost` | `purge_never_verified_before`, the job |
| `CooldownPasses`, `LinkExpires`, `AccountAges` | time |

`AddressBook` says what this is for, as if each request and each purge were a single
step: an address is free or has one account, a link and its account are redeemed together,
and a purge removes unverified accounts with their links. It implies that there is one
account per address and that a verified account is not purged, so the run checks
the refinement in place of those two. Overlapping redemptions may redeem a link
twice, and `AddressBook` allows it: nothing in the code prevents it, and it does no harm.

### AdminRecords, SettingsRegistry, SlugDirectory

Every administrator's edit has one shape (row lock, decision, `before`, write, audit
row, commit), and no lock or constraint spans two of the tables; so one module has
all three and an instance is about one of them, chosen by `Init`. The audit trail is
history: the last `after`, and the rows where a `before` did not follow from it. The
unique index of live slugs makes a write wait for whoever has written the same entry,
or taken it away, without having ended. `SettingsRegistry` has the twelve settings with their
types, limits and defaults as they are in `settings_registry.py`, and the validation
as predicates on JSON values of which only what validation looks at is kept.
`SlugDirectory` says what is promised of slugs: claimed, moved or released, never
shared, never by an archived category again.

### Pages

A client walks one list with one filter and page sizes of its choice; between two
pages rows are added, renamed, filtered out and in, and deleted, by the writers that
the list really has (a setting is never added or deleted, a notification never
moves). A cursor is the place of the last row served; a page is the first `limit` rows
after it, and one more row is looked for to learn `has_more`. `stable`, `moved` and
`served` are history.

### Throttle

The rate limiter on a client's address and the lockout of a pair of e-mail and
address, one step per call to Redis, in front of a login whose Argon2 verification
is between a read of the counter and its advance. Any call may be the last of its
worker, which is how an `EXPIRE` is lost; Redis may restart empty. The two counters
differ in what the code does about a lost `EXPIRE`: the lockout's is sent again with
every failure, the window's is not. `GuessesBounded` counts the guesses recorded and those
under way; one whose worker dies between its password and its `INCR` is not counted. `tried`
is history: the pairs refused as locked since the last period of time ended.

## 3. Runs

Passing runs; all were exhausted, each within about two minutes:

| run | question | bounds |
|---|---|---|
| `creds` | login and its second half, refresh, logout, reset, (de)activation, enrolment, purge, expiry and Redis loss, in any interleaving of two requests, do what they would do one at a time (refinement); nothing stale works; every deadlock is a known one | 1 account, enrolled or not, 2 requests, 1 session, 2 links, 1 challenge, 2 credential changes, 2 token versions; two workloads |
| `factor` | the second factor keeps its promise (refinement), and which requests may wait in a circle | 3 requests, 4 codes in sets of 2, 2 secrets, 4 time-steps |
| `outbox` | overlapping dispatcher runs, refusals, late answers, lost transactions: exclusive claims, duplicates, redaction, no message passed over but one being sent, and every pending message sent or failed for good | 2 messages, 2 runs, 2 attempts, batches of 2, 2 losses |
| `registration` | one address: registrations, resends, redemptions and a purge, none of which locks before it decides, come to the same as single steps (refinement) | 3 requests, 1 purge, 2 accounts (one after the other's purge), 2 links |
| `records` | administrators who edit the same rows: the audit chain, archiving, slugs (refinement), and every setting with values at and around its limits and of every wrong type | 3 rows, 3 requests, 2 names, 2 slugs in two spellings, all 12 keys |
| `pages` | a walk through each list with every filter while it is written: nothing skipped, nothing twice, and it ends | 3 rows, 2 sort keys (so that they tie), pages of 1 and 2 |
| `throttle` | three requests at a time in front of the two limits, `EXPIRE`s lost: bounded guesses, counters that expire, limits that lift | lockout at the 4th attempt, window of 4, `Lifetime` 2, `MaxLost` 3 |

Runs that are expected to find a violation, each a disagreement between the code
and what its documents or comments say (`findings` in `PROJECT.json` has the
quotations):

| run | what it shows |
|---|---|
| `creds_deadlock_logout` | logout locks its session and then, through the audit row's foreign key, `users`: against a refresh or a reset the two wait for each other, although ADR-018 says the order is `users` before `sessions` everywhere |
| `factor_setup_race` | a setup that read the credential before a confirmation enabled it replaces the secret of an enabled credential |
| `factor_two_sets` | two concurrent regenerations leave two unused sets |
| `throttle_stays_locked` | the comment in `login_throttle.py` says that "an attacker who keeps trying stays locked"; an attempt during a lockout is refused before it is recorded, so the lockout ends although the pair was tried meanwhile |
| `registration_conflict` | the second of two registrations of a new address fails on the unique index, which nothing handles, so that its answer is not the uniform one |

Why these bounds are enough to be interesting: every hazard in the list involves
two transactions and at most one bystander, and the third request of `factor`,
`registration` and `records` is the bystander. Accounts do
not interact except through the locks of an administrator who acts on another
account and of a purge of several, which `DeadlocksAlwaysKnown` covers for any
number; one account with two changes of credentials has an old, a current and a
next generation. Both workloads of `creds` have the login, the refresh, the reset,
the (de)activation and the purge; one adds logout and expiry, the other the second
factor and what Redis loses. Two attempts in the outbox give a first, a last and a retried
one. One address in `registration` is enough because no statement is about two.
Three rows in `pages` are one before, one at and one after a cursor, and one page of
two with a rest. The thresholds of `throttle` are small so that both are crossed by three
requests in flight; the counts are kept only up to the first above the limit, because
nothing tells larger ones apart. Between them the passing runs take every action.
The proofs remove the bounds for everything but liveness.

`CHECK_DEADLOCK FALSE` is set where the account may have been purged and every
session used up, or requests wait in one of the known circles (`creds`), every row archived (`records`) or the walk
ended (`pages`), so that nothing is left to do.

Symmetry is used where a run has no liveness property and the ids have no order (all but
`outbox`, `pages` and `throttle`); there ids are never compared except for equality.

### Fairness

`Outbox`: `FairSpec` has weak fairness on the steps of
each dispatcher run, because arq fires the cron every minute and at start-up
(`jobs/registry.py`), `main` makes a dead worker a dead process that Docker starts
again (`worker.py`), and the provider's call returns or raises (arq's time-out ends
it otherwise, which is `Lose`); and on `BecomesDue`, because time passes. Nothing is
assumed of `Lose`, which the constant `MaxLost` bounds: a message whose
transaction is lost for ever is never settled, and the code does not claim it.

`Pages`: weak fairness on the client's next page. `WalkEnds` is about a client who
goes on; nothing is assumed of the writers, who may add rows for as long as there are ids.

`Throttle`: weak fairness on the passing of time for each key that has an expiry, and on
the `EXPIRE` that follows an `INCR` (it is sent, or the request dies, which is `Abort`).
Nothing makes a client come back or a password be right. `LimitsLift` also rests on
an attempt during the lockout not prolonging it, which is what `check` does and what
`throttle_stays_locked` shows against the comment.

The other modules have no liveness property: a client may stop at any time.

## 4. Theorems

All for arbitrary constants, subject to the named assumptions: that `Nil` is none of
the ids, that bounds are natural numbers, that the set of recovery codes is finite and
disjoint from the time-steps, that sort keys and ids are ordered as integers are, that
what is submitted for a setting is a JSON value. TLC evaluates them in every run.

*Credentials.* `TypeCorrect`; `NoStaleSessionEver`, `NoStaleTokenEver`,
`NoStaleLinkEver`, `MfaClaimEarnedAlways`, `OneAccountAlways`, `MfaOnlyForAdminsAlways`
(invariants); `RevokedForever`, `RotationSpendsAlways`, `ResetSpendsAlways` (action
properties); `DeadlocksAlwaysKnown` and `OrderedNeverDeadlock` (lock order);
`AccessRefinement` (`Spec` implements `AccountAccess`). None of the
invariants is inductive. The strengthening `SafetyInv` says which row lock a
request holds at each of its steps (`Holds`), what therefore stays true of the rows
it has read (`Pending`, `Owner`, `Rotating`, `Redeeming`), and the fact on which
everything turns, `Fresh`: whatever names an epoch of an account (a token, a
challenge, a request in flight) names a past one, or the account is active and
its password is the one that was proved. An epoch comparison is then as good as a
comparison of passwords, which is ADR-018's claim. There is a lemma per action,
with one step per conjunct it can disturb. The theorems hold for any number of
accounts, sessions and concurrent requests, where `creds` has one account, one session
and two requests.

Three invariants are built on it. `LockInv` adds at which steps a request may hold which
kind of row (`HeldBy`). From it follows `DeadlocksAlwaysKnown`, for any set of requests
of any size: in a circle somebody holds a users row, and whoever does either runs to
its commit or is in one of the four crossings. `NameInv` says that every
copy of a session's id names the account that owns it, and that whoever acts as an
administrator is one. With both, `OrderedNeverDeadlock` proves `NoDeadlock` under the
hypotheses that take the four crossings away: no logout and no purge among the operations,
one administrator, one link. It is for any number of accounts, sessions and requests; each
hypothesis is needed, because each crossing is reachable without it.
`AccessInv` says which account, session or link a request in flight has found;
under it every commit is one step of `AccountAccess` and every other action a stutter,
with a lemma per action.

*MfaFactor.* `FactorTypeCorrect`; `FactorRefinement` (`Spec` implements
`OneTimeFactor`); `GrantsAlwaysSpent`. The invariant says that who is about to
commit a time-step holds the credential's lock and that the step is above the
mark, that who is about to spend a code found it unused, and that no two requests
have the same code rows in their hands. `FactorDeadlocksKnown` adds `WaitInv`, who has the
credential at each step: a request that waits for a code either has the
credential or has nothing at all, so a circle has to come back through a
regeneration.

*Outbox.* `OutboxTypeCorrect`, `ClaimsAlwaysExclusive`, `AlwaysDeliveredOnce`,
`AlwaysRedactedWhenSettled`. The invariant relates, per row, deliveries to
unrecorded deliveries: equal while nobody has the row or it failed, one more once
it is sent or while its holder knows that the provider took it.
`AlwaysPassedOverOnlyIfHeld` (an action property) rests on `DueInv`: the due messages are
pending, and each stands in the queue once, also while a run has it.

*Registration.* All the properties of the run, and `OneAccountAlways` and
`VerifiedForever`. The invariant has five parts:
`Typed`; `Reserved` (who is about to insert an account holds its index entry: no other
account has the address, committed or not); `LocksHeld` (what a transaction has
written it has locked, so an account being deleted is neither being verified nor
being given a link); `Linked` (links and accounts agree, also for the link and
account that a redemption has read); `Remembered` (what was so when a request began
still is: verified accounts stay verified, links within their cooldown stay in the
table). Each part is inductive with those before it. What an account or a link may
become, and by which step, is stated once (`AccountSteps`, `LinkSteps`) and used for all of
them. `BookRefinement` (`Spec` implements `AddressBook`) needs one more part,
`GoneTogether`: a purged link's account is purged too, which is what lets the commit
of a purge, after all its row locks, be the one step `Purge`.

*AdminRecords.* All five properties of the run, among them `DirectoryRefinement`
(`Spec` implements `SlugDirectory`) and `StoredAlwaysReadable`: for every key of the
registry and *every* JSON value, what is stored is accepted again as it is and has the
type its readers expect. It rests on `RegistrySound` (each of the twelve definitions
accepts its own default) and on validation being idempotent. The invariant says
that a request in flight is alone on its row and sees it as it is (`Held`), and that
an entry of the slug index that it has written is nobody else's (`Indexed`).

*Pages.* `Typed`, `StableRowsServedOnce`, `OnlyMovedRowsTwice`. The invariant
relates a row's having been *passed* by the cursor to its having been served. It uses of
the order only that it is strict and transitive.

*Throttle.* `TypeCorrect`, `GuessesAlwaysBounded`, `CounterArmedAlways`,
`WindowArmedAlways`. Each is inductive together with the types; the work is in
how a step changes the number of requests at a label.

Only model-checked: `EventuallySettled`, `WalkEnds` and `LimitsLift` (liveness under
fairness, which the prover does not reach), and the violations.

Three properties have a theorem and no run of their own, since a run checks a refinement
that implies them: `OneAccountPerAddress` and `VerifiedNeverPurged` in `registration`,
`RevokedIsFinal` in `creds`.
`NoDeadlock` is a theorem under hypotheses and, without them, the violation
`creds_deadlock_logout`.

## 5. Observations

- The session row's `FOR UPDATE` in a refresh is redundant given the `users`
  row's: every other writer of a stored session but logout holds that first.
- The lock on a recovery code matters only against a regeneration: two
  verifications are already serialised by the credential's lock.
- Two administrators who deactivate each other can deadlock: each locks the
  other's row, and the audit row then needs the actor's own. So can two reset
  links of one account redeemed together: each holds its own link row, one of them
  `users` and wants the other's link. That row's lock, before `users`, is what makes
  a link single-use.
- The purge can deadlock with one reset, one logout or one second factor of an account it
  removes (`PurgeCrosses`): it locks `users` first, as ADR-018 asks, and its cascades then
  want what they have locked before `users`. PostgreSQL aborts one of the two; the job
  runs again the next night.
- These and a logout are the four kinds of deadlock (`DeadlocksKnown`) on `users`, `sessions`,
  reset links and the row of `mfa_credentials`; a regeneration against a recovery code
  is the only one among the requests about one second factor. Other rows that go with a purged
  account or lose their reference to it are not in that graph: recovery codes,
  notifications, outbox, audit and settings rows (`ON DELETE CASCADE` or `SET NULL`).
  Verification links are in `Registration`, where a redemption writes the account before the
  link, as the purge does.
- `engagement/api/notifications.py:141-143` says that deactivation does not advance
  the epoch; `SetUserActive` does advance it (`Deactivate`), and `NoStaleToken`
  needs it to.
- ADR-018 (line 67) says that login locks before it verifies the password; it
  verifies first and compares again under the lock. Safe (`NoStaleSession`), but not as
  documented.
- A "single-use" challenge (`api/mfa.py:284`) is resolved and consumed by two calls to
  Redis, so two requests can both go on with it; the factor that each must show is
  still good for one of them only (`OneTimeFactor`).
- Two categories that swap slugs at once get a 409, not a deadlock: an entry that is
  being given up is still there for the other.
- The E.164 pattern's `\d` accepts digits that are not ASCII.
- An audit row's `created_at` is the start of its transaction, so the chain of
  `AuditIsChain` is the order of commits, not always that of `created_at`.
- A window whose one `EXPIRE` is lost never ends, and its address is refused until Redis
  restarts (`WindowArmed` says that this is the only way).
- The public lists of reference data end after 100 rows and have no cursor.

## 6. Not modelled, and what could come next

Abstracted everywhere: hashing, signing and encryption are taken as perfect; time
is an event (an expiry, a tick, a message becoming due). Not modelled because there
is no state or only I/O: the HTTP edge (application, middleware, errors, cookies, health),
configuration, the e-mail provider. Of notifications, the validation of payloads and
the value of `read_at` are left out; of the audit log, the contents of the rows that
accounts and factors write, which name no `before`: they are only the locks they take.

What is left:

1. Composition of `Credentials` and `MfaFactor` on the verification request, and a
   run with two administrators for the mutual deactivation.
2. Conditions under which the properties of the violation runs hold, as theorems: that
   an enabled secret is proven while no setup is in flight at a confirmation, and that
   one regeneration at a time leaves one set.
3. PostgreSQL's detection of deadlocks as an action of its own, and which member it
   picks.
4. One abstract specification of an account, from its registration to its purge, in
   place of `AddressBook` and `AccountAccess`.
