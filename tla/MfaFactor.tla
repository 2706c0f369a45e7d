----------------------------- MODULE MfaFactor -----------------------------
(***************************************************************************)
(* The second factor of one administrator: the mfa_credentials row, its     *)
(* enrolment (MfaSetup, ConfirmMfaSetup), the TOTP replay guard and the set *)
(* of recovery codes (VerifyMfa, RegenerateRecoveryCodes).                  *)
(*                                                                          *)
(* Requests are transactions under READ COMMITTED, split at their unlocked  *)
(* reads, at row locks they wait for and at their commit. A TOTP is the     *)
(* code of one time-step under the row's secret; a request that presents a  *)
(* wrong or a replayed one changes nothing here (the replay's audit row     *)
(* apart) and is not a step.                                                *)
(*                                                                          *)
(* History: `accepted` (time-steps a login or a confirmation stood on),     *)
(* `grants` (how many of those and of redeemed recovery codes there were),  *)
(* `proven` (secrets an authenticator was shown to hold).                   *)
(***************************************************************************)
EXTENDS Naturals, FiniteSets

CONSTANTS
    Requests,       \* concurrent HTTP requests
    Secrets,        \* TOTP secrets generate_secret may return
    CodeIds,        \* recovery codes generate_code_set may return
    SetSize,        \* codes in a set
    MaxClock,       \* bound on the current time-step
    Nil

ASSUME SizeAssumption == SetSize \in Nat
ASSUME ClockAssumption == MaxClock \in Nat
ASSUME FactorNilAssumption == Nil \notin Requests \cup Secrets \cup CodeIds
ASSUME CodesAssumption == IsFiniteSet(CodeIds)

VARIABLES
    credential,     \* the mfa_credentials row
    codes,          \* the mfa_recovery_codes rows
    cred_lock,      \* the request that holds the credential FOR UPDATE
    clock,          \* the current TOTP time-step
    pc, ctx,        \* where a request is, what it has read
    accepted, grants, proven

rows    == <<credential, codes>>
history == <<accepted, grants, proven>>
vars    == <<rows, cred_lock, clock, pc, ctx, history>>

\* _VALID_WINDOW: a code is good one step early or late.
Window == 1
Steps == 1 .. (MaxClock + Window)

\* A time-step is not a recovery code.
ASSUME DisjointAssumption == CodeIds \cap Steps = {}

Labels == {"idle", "setup_insert", "setup_update", "confirm_commit",
           "verify_commit", "verify_code", "redeem_commit", "regen_delete",
           "regen_insert"}

\* last_step is 0 while last_totp_step is NULL.
Credential == [present: BOOLEAN, secret: Secrets \cup {Nil}, enabled: BOOLEAN,
               last_step: Nat]

Code == {"unissued", "unused", "used", "deleted"}

Context == [secret: Secrets \cup {Nil}, step: Nat, code: CodeIds \cup {Nil},
            deleting: SUBSET CodeIds]

Blank == [secret |-> Nil, step |-> 0, code |-> Nil, deleting |-> {}]

-----------------------------------------------------------------------------
Unused == {c \in CodeIds : codes[c] = "unused"}

\* The row is locked by a FOR UPDATE or a DELETE of this request.
HoldsCode(q, c) ==
    \/ pc[q] = "redeem_commit" /\ ctx[q].code = c
    \/ pc[q] = "regen_insert" /\ c \in ctx[q].deleting

CodeHeld(c) == \E q \in Requests : HoldsCode(q, c)

Go(r, label, c) ==
    /\ pc' = [pc EXCEPT ![r] = label]
    /\ ctx' = [ctx EXCEPT ![r] = c]

\* Commit or rollback: the locks go with the transaction.
Finish(r) ==
    /\ Go(r, "idle", Blank)
    /\ cred_lock' = IF cred_lock = r THEN Nil ELSE cred_lock

\* get_by_user_id_for_update returns.
LockCredential(r) == cred_lock = Nil /\ cred_lock' = r

\* The code is the one of this step (of the secret the row holds): the window
\* verify_code_step walks.
Matches(step) == clock <= step + Window /\ step <= clock + Window

\* Fault: equality, so the step before the last is accepted again.
ReplayedExact(step) == step = credential.last_step

\* MfaCredential.is_totp_step_replayed
Replayed(step) == step <= credential.last_step

\* MfaCredential.record_totp_step
RecordStep(step) == IF step > credential.last_step THEN step ELSE credential.last_step

\* delete_unused and add_set as one transaction leaves them.
ReplaceCodes(old, new) ==
    [c \in CodeIds |-> IF c \in old THEN "deleted"
                       ELSE IF c \in new THEN "unused" ELSE codes[c]]

\* generate_secret never repeats one that is in use.
FreshSecret(secret) ==
    /\ secret # credential.secret
    /\ secret \notin proven
    /\ \A q \in Requests : ctx[q].secret # secret

\* A set of codes never handed out before (code_hash is UNIQUE).
FreshSet(new) ==
    /\ \A c \in new : codes[c] = "unissued"
    /\ Cardinality(new) = SetSize

-----------------------------------------------------------------------------
(* MfaSetup.execute                                                         *)

\* The unlocked read of the credential decides between INSERT and UPDATE.
SetupRead(r, secret) ==
    /\ pc[r] = "idle"
    /\ ~credential.enabled
    /\ FreshSecret(secret)
    /\ Go(r, IF credential.present THEN "setup_update" ELSE "setup_insert",
          [Blank EXCEPT !.secret = secret])
    /\ UNCHANGED <<rows, cred_lock, clock, history>>

\* Fault: the row goes in before the secret is known.
NewCredentialWithoutSecret(secret) ==
    [present |-> TRUE, secret |-> Nil, enabled |-> FALSE, last_step |-> 0]

NewCredential(secret) ==
    [present |-> TRUE, secret |-> secret, enabled |-> FALSE, last_step |-> 0]

\* user_id is UNIQUE: if another setup got there first this one fails (Rollback).
SetupInsert(r) ==
    /\ pc[r] = "setup_insert"
    /\ ~credential.present
    /\ credential' = NewCredential(ctx[r].secret)
    /\ Finish(r)
    /\ UNCHANGED <<codes, clock, history>>

\* The UPDATE waits for a FOR UPDATE holder, then writes the one column this
\* transaction changed, whatever has become of the others.
SetupUpdate(r) ==
    /\ pc[r] = "setup_update"
    /\ cred_lock = Nil
    /\ credential' = [credential EXCEPT !.secret = ctx[r].secret]
    /\ Finish(r)
    /\ UNCHANGED <<codes, clock, history>>

-----------------------------------------------------------------------------
(* ConfirmMfaSetup.execute                                                  *)

ConfirmLock(r, step) ==
    /\ pc[r] = "idle"
    /\ LockCredential(r)
    /\ credential.present /\ ~credential.enabled
    /\ Matches(step)
    /\ Go(r, "confirm_commit",
          [Blank EXCEPT !.secret = credential.secret, !.step = step])
    /\ UNCHANGED <<rows, clock, history>>

ConfirmCommit(r, new) ==
    /\ pc[r] = "confirm_commit"
    /\ \A c \in Unused : ~CodeHeld(c)
    /\ FreshSet(new)
    /\ credential' = [credential EXCEPT !.enabled = TRUE,
                                        !.last_step = RecordStep(ctx[r].step)]
    /\ codes' = ReplaceCodes(Unused, new)
    /\ accepted' = accepted \cup {ctx[r].step}
    /\ grants' = grants + 1
    /\ proven' = proven \cup {ctx[r].secret}
    /\ Finish(r)
    /\ UNCHANGED <<clock>>

-----------------------------------------------------------------------------
(* VerifyMfa.execute                                                        *)

VerifyTotp(r, step) ==
    /\ pc[r] = "idle"
    /\ LockCredential(r)
    /\ credential.enabled
    /\ Matches(step)
    /\ ~Replayed(step)
    /\ Go(r, "verify_commit", [Blank EXCEPT !.step = step])
    /\ UNCHANGED <<rows, clock, history>>

VerifyCommit(r) ==
    /\ pc[r] = "verify_commit"
    /\ credential' = [credential EXCEPT !.last_step = RecordStep(ctx[r].step)]
    /\ accepted' = accepted \cup {ctx[r].step}
    /\ grants' = grants + 1
    /\ Finish(r)
    /\ UNCHANGED <<codes, clock, proven>>

VerifyRecovery(r, c) ==
    /\ pc[r] = "idle"
    /\ LockCredential(r)
    /\ credential.enabled
    /\ codes[c] # "unissued"
    /\ Go(r, "verify_code", [Blank EXCEPT !.code = c])
    /\ UNCHANGED <<rows, clock, history>>

\* get_unused_by_hash: the condition is evaluated again once the lock is there.
LockCode(r) ==
    /\ pc[r] = "verify_code"
    /\ ~CodeHeld(ctx[r].code)
    /\ codes[ctx[r].code] = "unused"
    /\ Go(r, "redeem_commit", ctx[r])
    /\ UNCHANGED <<rows, cred_lock, clock, history>>

\* MfaRecoveryCode.redeem: the TOTP mark stays where it is.
RedeemCommit(r) ==
    /\ pc[r] = "redeem_commit"
    /\ codes' = [codes EXCEPT ![ctx[r].code] = "used"]
    /\ grants' = grants + 1
    /\ Finish(r)
    /\ UNCHANGED <<credential, clock, accepted, proven>>

-----------------------------------------------------------------------------
(* RegenerateRecoveryCodes.execute                                          *)

\* Fault: the codes of a credential that is not enabled are regenerated too.
RegenerateReadUnenrolled(r) ==
    /\ pc[r] = "idle"
    /\ credential.present
    /\ Go(r, "regen_delete", [Blank EXCEPT !.deleting = Unused])
    /\ UNCHANGED <<rows, cred_lock, clock, history>>

\* The credential is read without a lock; the DELETE's snapshot is taken.
RegenerateRead(r) ==
    /\ pc[r] = "idle"
    /\ credential.enabled
    /\ Go(r, "regen_delete", [Blank EXCEPT !.deleting = Unused])
    /\ UNCHANGED <<rows, cred_lock, clock, history>>

\* Fault: rows the snapshot saw as unused are deleted although spent since.
StillUnusedInSnapshot(r) == ctx[r].deleting

\* Rows of the snapshot that are still unused once their locks are granted.
StillUnused(r) == ctx[r].deleting \cap Unused

\* Its rows are locked in one step. One by one, two regenerations would still take
\* them in the same order (the same statement scans the same rows), and who holds a
\* code otherwise, the credential's holder, waits for one code at most.
RegenerateDelete(r) ==
    /\ pc[r] = "regen_delete"
    /\ \A c \in ctx[r].deleting : ~CodeHeld(c)
    /\ Go(r, "regen_insert", [ctx[r] EXCEPT !.deleting = StillUnused(r)])
    /\ UNCHANGED <<rows, cred_lock, clock, history>>

\* The foreign key of the new rows takes FOR KEY SHARE on the credential.
RegenerateCommit(r, new) ==
    /\ pc[r] = "regen_insert"
    /\ cred_lock = Nil
    /\ FreshSet(new)
    /\ codes' = ReplaceCodes(ctx[r].deleting, new)
    /\ Finish(r)
    /\ UNCHANGED <<credential, clock, history>>

-----------------------------------------------------------------------------
\* A refusal after a lock was taken, an exception, a crash, a deadlock victim.
Rollback(r) ==
    /\ pc[r] # "idle"
    /\ Finish(r)
    /\ UNCHANGED <<rows, clock, history>>

Tick ==
    /\ clock < MaxClock
    /\ clock' = clock + 1
    /\ UNCHANGED <<rows, cred_lock, pc, ctx, history>>

Init ==
    /\ credential = [present |-> FALSE, secret |-> Nil, enabled |-> FALSE,
                     last_step |-> 0]
    /\ codes = [c \in CodeIds |-> "unissued"]
    /\ cred_lock = Nil
    /\ clock = 1 + Window
    /\ pc = [r \in Requests |-> "idle"]
    /\ ctx = [r \in Requests |-> Blank]
    /\ accepted = {}
    /\ grants = 0
    /\ proven = {}

Request(r) ==
    \/ \E s \in Secrets : SetupRead(r, s)
    \/ SetupInsert(r) \/ SetupUpdate(r)
    \/ \E t \in Steps : ConfirmLock(r, t)
    \/ \E new \in SUBSET CodeIds : ConfirmCommit(r, new)
    \/ \E t \in Steps : VerifyTotp(r, t)
    \/ VerifyCommit(r)
    \/ \E c \in CodeIds : VerifyRecovery(r, c)
    \/ LockCode(r) \/ RedeemCommit(r)
    \/ RegenerateRead(r) \/ RegenerateDelete(r)
    \/ \E new \in SUBSET CodeIds : RegenerateCommit(r, new)
    \/ Rollback(r)

Next == Tick \/ \E r \in Requests : Request(r)

Spec == Init /\ [][Next]_vars

-----------------------------------------------------------------------------
(* Properties                                                               *)

\* Every variable has its type; a credential row has a secret.
TypeOK ==
    /\ credential \in Credential
    /\ credential.present => credential.secret \in Secrets
    /\ codes \in [CodeIds -> Code]
    /\ cred_lock \in Requests \cup {Nil}
    /\ clock \in Nat
    /\ pc \in [Requests -> Labels]
    /\ ctx \in [Requests -> Context]
    /\ accepted \subseteq Steps
    /\ grants \in Nat
    /\ proven \subseteq Secrets

\* The one-time credentials behind the rows: a recovery code is spent when used
\* and void when deleted; a time-step is spent by the login that stood on it and
\* void once the mark has passed it.
CodeState(c) ==
    CASE codes[c] = "unissued" -> "unissued"
      [] codes[c] = "unused" -> "valid"
      [] codes[c] = "used" -> "spent"
      [] codes[c] = "deleted" -> "void"

StepState(t) ==
    IF t \in accepted THEN "spent"
    ELSE IF t <= credential.last_step THEN "void" ELSE "valid"

ItemState ==
    [x \in Steps \cup CodeIds |->
        IF x \in CodeIds THEN CodeState(x) ELSE StepState(x)]

Factor == INSTANCE OneTimeFactor WITH Items <- Steps \cup CodeIds, state <- ItemState

\* RFC 6238 5.2 and database-design.md 5.7 as the code claims them: every login
\* the factor lets through stands on one valid item and spends it, spent and
\* voided items never come back (entities.py:232-259, repositories.py:444-466,
\* 502-524, 550-571).
ImplementsOneTimeFactor == Factor!Spec

Used == {c \in CodeIds : codes[c] = "used"}

\* As many logins as time-steps accepted and recovery codes used: no two requests
\* ever stood on one TOTP or one code.
GrantsAreSpent == grants = Cardinality(accepted) + Cardinality(Used)

-----------------------------------------------------------------------------
(* Who waits for whom. A request waits for the rows its next step locks; one *)
(* that waits for the credential before it holds anything is still idle.    *)

WantsCredential(r) == pc[r] \in {"setup_update", "regen_insert"}

CodesWanted(r) ==
    {c \in CodeIds : \/ pc[r] = "confirm_commit" /\ c \in Unused
                     \/ pc[r] = "verify_code" /\ c = ctx[r].code
                     \/ pc[r] = "regen_delete" /\ c \in ctx[r].deleting}

WaitsFor(r) ==
    {q \in Requests \ {r} : \/ WantsCredential(r) /\ cred_lock = q
                            \/ \E c \in CodesWanted(r) : HoldsCode(q, c)}

Deadlocked(W) == W # {} /\ \A r \in W : WaitsFor(r) \cap W # {}

\* A regeneration has deleted a code and wants the credential, for the foreign
\* key of the new ones; a verification has the credential and wants that code.
RegenerationCrosses(r, q) ==
    /\ pc[r] = "regen_insert"
    /\ pc[q] = "verify_code"
    /\ cred_lock = q
    /\ ctx[q].code \in ctx[r].deleting

\* The rows of the second factor are locked credential first but for a
\* regeneration, which takes the codes first: requests wait for one another in
\* a circle only if one of them regenerates and another redeems a code of the set
\* (mfa_regenerate_recovery_codes.py:62, mfa_verify.py:59-74).
DeadlocksKnown ==
    \A W \in SUBSET Requests :
        Deadlocked(W) => \E r, q \in W : RegenerationCrosses(r, q)

-----------------------------------------------------------------------------
(* What the comments say and the code does otherwise.                       *)

\* mfa_setup.py:79-80, "Safe precisely because nothing is enabled yet", and
\* mfa_confirm_setup.py:66-67: an enabled credential holds the secret that was
\* confirmed, and no setup replaces it.
EnabledSecretProven == credential.enabled => credential.secret \in proven

\* mfa.py, regenerate_recovery_codes: "Invalidates every unused code and issues
\* a fresh set", so at most one set is ever unused.
RegenerationLeavesOneSet == Cardinality(Unused) <= SetSize

=============================================================================
