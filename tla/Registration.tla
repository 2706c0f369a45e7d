---------------------------- MODULE Registration ----------------------------
(***************************************************************************)
(* Registration, verification mails, redemption of their links, and the     *)
(* purge of accounts that were never verified: register_user.py,            *)
(* resend_verification.py, verify_email.py, purge_unverified.py.            *)
(*                                                                          *)
(* None of the three requests locks a row before it decides. A request is a *)
(* process; its transaction is split at every unlocked read, at the write   *)
(* that takes the first lock, and at the commit, which makes its writes     *)
(* visible. The locks are those the statements take:                        *)
(*   UPDATE users (verify)   FOR NO KEY UPDATE on the account               *)
(*   DELETE users (purge)    FOR UPDATE on each account it removes          *)
(*   INSERT of a link        FOR KEY SHARE on the account (foreign key)     *)
(*   INSERT of an account    its entry in ix_users_email_live               *)
(* A lock that is waited for is an action that is not enabled.              *)
(*                                                                          *)
(* A verification_tokens row is called a link. It is inserted together with *)
(* the email_outbox row that mails it, so a link stands for its mail too.   *)
(* Time is left out but for three facts: a link is within RESEND_COOLDOWN   *)
(* of its creation or not, it is expired or not, an account is older than   *)
(* the purge period or not.                                                 *)
(*                                                                          *)
(* History: `began` is what was committed when a request started, `flooded` *)
(* the accounts mailed again in a cooldown that had begun before.           *)
(***************************************************************************)
EXTENDS Naturals

CONSTANTS
    Requests,       \* requests to register, resend and verify
    Purges,         \* runs of purge_unverified_accounts
    Addresses,      \* e-mail addresses
    Users,          \* ids of rows of users
    Links,          \* ids of rows of verification_tokens
    Nil

ASSUME RegistrationNilAssumption ==
    Nil \notin Addresses \cup Users \cup Links

VARIABLES
    users, links,   \* committed rows
    pc, ctx,        \* where a request is, and what it has in memory
    purging,        \* per purge: the accounts still to delete, those it deleted
    answer,         \* what the client of a request was told last
    began, flooded  \* history

history == <<began, flooded>>
vars == <<users, links, pc, ctx, purging, answer, history>>

User == [status: {"absent", "live", "purged"}, email: Addresses \cup {Nil},
         verified: BOOLEAN, old: BOOLEAN]

Link == [status: {"absent", "live", "purged"}, user: Users \cup {Nil},
         used: BOOLEAN, expired: BOOLEAN, recent: BOOLEAN]

Labels == {"idle", "insert", "commit_user", "cooldown", "issue", "commit_link",
           "load_user", "write", "commit_verified"}

Answers == {"none", "accepted", "verified", "refused", "conflict", "error"}

NoContext == [email |-> Nil, user |-> Nil, link |-> Nil, used |-> FALSE]

Context == [email: Addresses \cup {Nil}, user: Users \cup {Nil},
            link: Links \cup {Nil}, used: BOOLEAN]

Live(u) == users[u].status = "live"

\* ix_users_email_live
AccountsOf(a) == {u \in Users : Live(u) /\ users[u].email = a}

-----------------------------------------------------------------------------
\* Locks, from the statements a transaction has executed.

\* UPDATE users
Verifies(r, u) == pc[r] = "commit_verified" /\ ctx[r].user = u

\* INSERT INTO verification_tokens, for an account that is committed.
Shares(r, u) == pc[r] = "commit_link" /\ ctx[r].user = u

\* DELETE FROM users
Deletes(p, u) == u \in purging[p].deleted

\* The request ends: its transaction is over, its client is answered.
Finish(r, reply) ==
    /\ pc' = [pc EXCEPT ![r] = "idle"]
    /\ ctx' = [ctx EXCEPT ![r] = NoContext]
    /\ answer' = [answer EXCEPT ![r] = reply]

Goto(r, label) == pc' = [pc EXCEPT ![r] = label]

-----------------------------------------------------------------------------
\* register and resend_verification: get_by_email. `found` is the account.
ReadAccount(r, a, registers) ==
    /\ pc[r] = "idle"
    /\ began' = [began EXCEPT ![r] =
         [verified |-> FALSE,
          warm |-> {l \in Links : links[l].status = "live" /\ links[l].recent}]]
    /\ \/ /\ AccountsOf(a) = {}
          /\ registers
          /\ Goto(r, "insert")
          /\ ctx' = [ctx EXCEPT ![r] = [NoContext EXCEPT !.email = a]]
          /\ answer' = [answer EXCEPT ![r] = "none"]
       \/ /\ AccountsOf(a) = {}
          /\ ~registers
          /\ Finish(r, "accepted")
       \/ \E u \in AccountsOf(a) :
            /\ users[u].verified
            /\ Finish(r, "accepted")
       \/ \E u \in AccountsOf(a) :
            /\ ~users[u].verified
            /\ Goto(r, "cooldown")
            /\ ctx' = [ctx EXCEPT ![r] = [NoContext EXCEPT !.user = u]]
            /\ answer' = [answer EXCEPT ![r] = "none"]
    /\ UNCHANGED <<users, links, purging, flooded>>

\* The unique index lets the row in: no transaction has an uncommitted entry
\* for the address (it would be waited for) and none is committed.
IndexFree(r, a) == AccountsOf(a) = {}

\* UserRepository.add: INSERT INTO users.
InsertUser(r) ==
    /\ pc[r] = "insert"
    /\ \A q \in Requests \ {r} :
         ~(pc[q] = "commit_user" /\ ctx[q].email = ctx[r].email)
    /\ IndexFree(r, ctx[r].email)
    /\ \E u \in Users :
         /\ users[u].status = "absent"
         /\ \A q \in Requests : ctx[q].user # u
         /\ ctx' = [ctx EXCEPT ![r].user = u]
    /\ Goto(r, "commit_user")
    /\ UNCHANGED <<users, links, purging, answer, history>>

\* The index refuses the row: IntegrityError, which no handler expects.
InsertConflict(r) ==
    /\ pc[r] = "insert"
    /\ AccountsOf(ctx[r].email) # {}
    /\ Finish(r, "conflict")
    /\ UNCHANGED <<users, links, purging, history>>

NewUser(a) == [status |-> "live", email |-> a, verified |-> FALSE, old |-> FALSE]

\* Fault: the link does not say whose it is.
NewLinkUnowned(u) ==
    [status |-> "live", user |-> Nil, used |-> FALSE, expired |-> FALSE, recent |-> TRUE]

NewLink(u) == [status |-> "live", user |-> u, used |-> FALSE, expired |-> FALSE,
               recent |-> TRUE]

\* The account, its link, the mail and the audit row are one transaction.
CommitUser(r) ==
    /\ pc[r] = "commit_user"
    /\ users' = [users EXCEPT ![ctx[r].user] = NewUser(ctx[r].email)]
    /\ \E l \in Links :
         /\ links[l].status = "absent"
         /\ links' = [links EXCEPT ![l] = NewLink(ctx[r].user)]
    /\ Finish(r, "accepted")
    /\ UNCHANGED <<purging, history>>

\* Fault: the cooldown is not looked at.
EligibleAlways(u) == TRUE

\* resend_eligible: the latest link, if any, is older than RESEND_COOLDOWN.
Eligible(u) ==
    \A l \in Links : links[l].status = "live" /\ links[l].user = u => ~links[l].recent

ReadCooldown(r) ==
    /\ pc[r] = "cooldown"
    /\ \/ /\ Eligible(ctx[r].user)
          /\ Goto(r, "issue")
          /\ UNCHANGED <<ctx, answer>>
       \/ /\ ~Eligible(ctx[r].user)
          /\ Finish(r, "accepted")
    /\ UNCHANGED <<users, links, purging, history>>

\* Fault: a link may be inserted for an account that is gone.
InsertLinkUnchecked(r) ==
    /\ pc[r] = "issue"
    /\ Goto(r, "commit_link")
    /\ UNCHANGED <<users, links, ctx, purging, answer, history>>

\* issue_verification_email: INSERT INTO verification_tokens. The foreign key
\* takes FOR KEY SHARE on the account, and fails if it was purged.
InsertLink(r) ==
    /\ pc[r] = "issue"
    /\ \A p \in Purges : ~Deletes(p, ctx[r].user)
    /\ \/ Live(ctx[r].user) /\ Goto(r, "commit_link") /\ UNCHANGED <<ctx, answer>>
       \/ ~Live(ctx[r].user) /\ Finish(r, "conflict")
    /\ UNCHANGED <<users, links, purging, history>>

\* Was the account mailed within a cooldown that the request should have seen?
Floods(r) ==
    \E l \in began[r].warm :
        links[l].status = "live" /\ links[l].recent /\ links[l].user = ctx[r].user

CommitLink(r) ==
    /\ pc[r] = "commit_link"
    /\ \E l \in Links :
         /\ links[l].status = "absent"
         /\ links' = [links EXCEPT ![l] = NewLink(ctx[r].user)]
    /\ flooded' = IF Floods(r) THEN flooded \cup {ctx[r].user} ELSE flooded
    /\ Finish(r, "accepted")
    /\ UNCHANGED <<users, purging, began>>

-----------------------------------------------------------------------------
\* verify_email: get_by_hash. Any link that was ever mailed may be presented.
ReadLink(r, l) ==
    /\ pc[r] = "idle"
    /\ links[l].status # "absent"
    /\ began' = [began EXCEPT ![r] =
         [verified |-> users[links[l].user].verified, warm |-> {}]]
    /\ \/ /\ links[l].status = "live"
          /\ Goto(r, "load_user")
          /\ ctx' = [ctx EXCEPT ![r] = [NoContext EXCEPT
                       !.link = l, !.user = links[l].user, !.used = links[l].used]]
          /\ answer' = [answer EXCEPT ![r] = "none"]
       \/ links[l].status = "purged" /\ Finish(r, "refused")
    /\ UNCHANGED <<users, links, purging, flooded>>

\* Fault: mark_used and mark_verified refuse nothing.
RedeemableAlways(r) == Live(ctx[r].user) /\ ~links[ctx[r].link].expired

\* get_by_id, then mark_used (on the link as it was read) and mark_verified.
Redeemable(r) ==
    /\ Live(ctx[r].user)
    /\ ~ctx[r].used
    /\ ~links[ctx[r].link].expired
    /\ ~users[ctx[r].user].verified

LoadUser(r) ==
    /\ pc[r] = "load_user"
    /\ \/ Redeemable(r) /\ Goto(r, "write") /\ UNCHANGED <<ctx, answer>>
       \/ ~Redeemable(r) /\ Finish(r, "refused")
    /\ UNCHANGED <<users, links, purging, history>>

\* UserRepository.save: UPDATE users waits for the row's lock; no row to
\* update (StaleDataError) is an error no handler expects.
WriteVerified(r) ==
    /\ pc[r] = "write"
    /\ \A q \in Requests \ {r} : ~Verifies(q, ctx[r].user)
    /\ \A p \in Purges : ~Deletes(p, ctx[r].user)
    /\ \/ Live(ctx[r].user) /\ Goto(r, "commit_verified") /\ UNCHANGED <<ctx, answer>>
       \/ ~Live(ctx[r].user) /\ Finish(r, "error")
    /\ UNCHANGED <<users, links, purging, history>>

\* Fault: the link is not marked used.
CommitUserVerified(r) ==
    /\ pc[r] = "commit_verified"
    /\ users' = [users EXCEPT ![ctx[r].user].verified = TRUE]
    /\ Finish(r, "verified")
    /\ UNCHANGED <<links, purging, history>>

\* The account, the link (VerificationTokenRepository.save) and the audit row
\* are committed together. Both rows are written from what was read before the
\* lock: a redemption that overlaps another writes the same marks again.
CommitVerified(r) ==
    /\ pc[r] = "commit_verified"
    /\ users' = [users EXCEPT ![ctx[r].user].verified = TRUE]
    /\ links' = [links EXCEPT ![ctx[r].link].used = TRUE]
    /\ Finish(r, "verified")
    /\ UNCHANGED <<purging, history>>

\* A transaction is lost: the process dies, the connection breaks.
Rollback(r) ==
    /\ pc[r] # "idle"
    /\ Finish(r, "error")
    /\ UNCHANGED <<users, links, purging, history>>

-----------------------------------------------------------------------------
\* purge_never_verified_before: the snapshot of the DELETE.
Purgeable(u) == Live(u) /\ ~users[u].verified /\ users[u].old

PurgeStart(p) ==
    /\ ~purging[p].active
    /\ purging' = [purging EXCEPT ![p] =
         [active |-> TRUE, matched |-> {u \in Users : Purgeable(u)}, deleted |-> {}]]
    /\ UNCHANGED <<users, links, pc, ctx, answer, history>>

\* No other transaction holds a lock on the account.
Unlocked(u) ==
    /\ \A r \in Requests : ~Verifies(r, u) /\ ~Shares(r, u)
    /\ \A p \in Purges : ~Deletes(p, u)

\* Fault: the accounts are deleted by the ids that a SELECT returned.
StillPurgeableById(u) == Live(u)

\* READ COMMITTED: the row that was waited for is looked at again.
StillPurgeable(u) == Purgeable(u)

PurgeRow(p, u) ==
    /\ u \in purging[p].matched
    /\ Unlocked(u)
    /\ purging' = [purging EXCEPT
         ![p].matched = @ \ {u},
         ![p].deleted = IF StillPurgeable(u) THEN @ \cup {u} ELSE @]
    /\ UNCHANGED <<users, links, pc, ctx, answer, history>>

\* The links go with their account (ON DELETE CASCADE).
PurgeCommit(p) ==
    /\ purging[p].active
    /\ purging[p].matched = {}
    /\ users' = [u \in Users |->
         IF Deletes(p, u) THEN [users[u] EXCEPT !.status = "purged"] ELSE users[u]]
    /\ links' = [l \in Links |->
         IF links[l].status = "live" /\ links[l].user \in purging[p].deleted
         THEN [links[l] EXCEPT !.status = "purged"] ELSE links[l]]
    /\ purging' = [purging EXCEPT ![p] = [active |-> FALSE, matched |-> {}, deleted |-> {}]]
    /\ UNCHANGED <<pc, ctx, answer, history>>

PurgeLost(p) ==
    /\ purging[p].active
    /\ purging' = [purging EXCEPT ![p] = [active |-> FALSE, matched |-> {}, deleted |-> {}]]
    /\ UNCHANGED <<users, links, pc, ctx, answer, history>>

-----------------------------------------------------------------------------
\* Time.
CooldownPasses(l) ==
    /\ links[l].recent
    /\ links' = [links EXCEPT ![l].recent = FALSE]
    /\ UNCHANGED <<users, pc, ctx, purging, answer, history>>

LinkExpires(l) ==
    /\ links[l].status # "absent"
    /\ ~links[l].recent
    /\ ~links[l].expired
    /\ links' = [links EXCEPT ![l].expired = TRUE]
    /\ UNCHANGED <<users, pc, ctx, purging, answer, history>>

AccountAges(u) ==
    /\ Live(u)
    /\ ~users[u].old
    /\ users' = [users EXCEPT ![u].old = TRUE]
    /\ UNCHANGED <<links, pc, ctx, purging, answer, history>>

-----------------------------------------------------------------------------
Init ==
    /\ users = [u \in Users |->
         [status |-> "absent", email |-> Nil, verified |-> FALSE, old |-> FALSE]]
    /\ links = [l \in Links |->
         [status |-> "absent", user |-> Nil, used |-> FALSE, expired |-> FALSE,
          recent |-> FALSE]]
    /\ pc = [r \in Requests |-> "idle"]
    /\ ctx = [r \in Requests |-> NoContext]
    /\ purging = [p \in Purges |-> [active |-> FALSE, matched |-> {}, deleted |-> {}]]
    /\ answer = [r \in Requests |-> "none"]
    /\ began = [r \in Requests |-> [verified |-> FALSE, warm |-> {}]]
    /\ flooded = {}

Request(r) ==
    \/ \E a \in Addresses, registers \in BOOLEAN : ReadAccount(r, a, registers)
    \/ InsertUser(r)
    \/ InsertConflict(r)
    \/ CommitUser(r)
    \/ ReadCooldown(r)
    \/ InsertLink(r)
    \/ CommitLink(r)
    \/ \E l \in Links : ReadLink(r, l)
    \/ LoadUser(r)
    \/ WriteVerified(r)
    \/ CommitVerified(r)
    \/ Rollback(r)

Purge(p) ==
    \/ PurgeStart(p)
    \/ \E u \in Users : PurgeRow(p, u)
    \/ PurgeCommit(p)
    \/ PurgeLost(p)

Time ==
    \/ \E l \in Links : CooldownPasses(l) \/ LinkExpires(l)
    \/ \E u \in Users : AccountAges(u)

Next ==
    \/ \E r \in Requests : Request(r)
    \/ \E p \in Purges : Purge(p)
    \/ Time

Spec == Init /\ [][Next]_vars

-----------------------------------------------------------------------------
\* Properties

\* Every variable has its type, a row that was inserted names its parent, and
\* a request knows the rows that its next statement is about.
TypeOK ==
    /\ users \in [Users -> User]
    /\ \A u \in Users : users[u].status # "absent" => users[u].email \in Addresses
    /\ links \in [Links -> Link]
    /\ \A l \in Links : links[l].status # "absent" => links[l].user \in Users
    /\ pc \in [Requests -> Labels]
    /\ ctx \in [Requests -> Context]
    /\ \A r \in Requests :
         /\ pc[r] \in {"insert", "commit_user"} => ctx[r].email \in Addresses
         /\ pc[r] \notin {"idle", "insert"} => ctx[r].user \in Users
         /\ pc[r] \in {"load_user", "write", "commit_verified"} => ctx[r].link \in Links
    /\ purging \in [Purges -> [active: BOOLEAN, matched: SUBSET Users, deleted: SUBSET Users]]
    /\ answer \in [Requests -> Answers]
    /\ began \in [Requests -> [verified: BOOLEAN, warm: SUBSET Links]]
    /\ flooded \in SUBSET Users

\* An address has at most one live account, although two registrations may
\* both have found it free (get_by_email, then ix_users_email_live).
OneAccountPerAddress ==
    \A u, v \in Users : Live(u) /\ Live(v) /\ users[u].email = users[v].email => u = v

\* An account and its first link come and go together: no account is there
\* that was never mailed (register_user.py:43), no link outlives its account,
\* one issued while the purge ran included.
LinkWithAccount ==
    /\ \A u \in Users : Live(u) =>
         \E l \in Links : links[l].status = "live" /\ links[l].user = u
    /\ \A l \in Links : links[l].status = "live" => Live(links[l].user)

\* An account is verified exactly when one of its links is used, a purged one
\* included: the two rows that verify_email.py:36 writes never come apart.
VerifiedByItsLink ==
    \A u \in Users : users[u].verified <=> \E l \in Links : links[l].user = u /\ links[l].used

\* A verified account is never purged, even when it is verified after the
\* DELETE took its snapshot (repositories.py:263).
VerifiedNeverPurged ==
    [][\A u \in Users : Live(u) /\ users[u].verified => users'[u].status = "live"]_vars

\* A redemption that starts when the account is already verified is refused,
\* through an older link, an unused one or the same; only redemptions that
\* overlap may both succeed (verify_email.py:33).
LateRedemptionRefused ==
    \A r \in Requests : answer[r] = "verified" => ~began[r].verified

\* No mail goes to an account within the cooldown of a link that was committed
\* before the request began, by whichever of the two endpoints it is asked
\* for; only requests that overlap may both mail (verification.py:40).
CooldownHeld == flooded = {}

\* Whatever is known of the address, a registration or a resend that is not
\* lost is answered in the same way, as api-endpoints.md:287 has it. Two
\* registrations at once break it: the unique index refuses the second row and
\* nothing handles the IntegrityError.
UniformAnswer == \A r \in Requests : answer[r] # "conflict"

-----------------------------------------------------------------------------
(* Refinement: the committed rows, without what only time changes.          *)

AccountOf(u) ==
    [status |-> IF ~Live(u) THEN users[u].status
                ELSE IF users[u].verified THEN "verified" ELSE "unverified",
     address |-> users[u].email]

LinkOf(l) ==
    [state |-> IF links[l].status # "live" THEN links[l].status
               ELSE IF links[l].used THEN "used" ELSE "usable",
     user |-> links[l].user]

AccountsSeen == [u \in Users |-> AccountOf(u)]
LinksSeen == [l \in Links |-> LinkOf(l)]

Book == INSTANCE AddressBook WITH
    Accounts <- Users, account <- AccountsSeen, link <- LinksSeen

\* Requests that decide on unlocked reads and a purge that takes its locks one
\* by one come to the same as if each were a single step: an address is given
\* to one account at a time, what a link's redemption writes is never seen in
\* part, and whatever a purge removes was unverified when it was removed.
ImplementsAddressBook == Book!Spec

=============================================================================
