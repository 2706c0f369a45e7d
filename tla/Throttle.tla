------------------------------ MODULE Throttle ------------------------------
(***************************************************************************)
(* The two limits in front of a login: the fixed window of rate_limiter     *)
(* (core/rate_limit.py) on the client's address, and the lockout of         *)
(* LoginThrottle on the pair of e-mail and address. Both are counters in    *)
(* Redis with a time to live. The module is about one client address, so a  *)
(* pair is named by its e-mail.                                             *)
(*                                                                          *)
(* A request is a process, and each call to Redis a step of it:             *)
(*   rate_limiter    INCR, EXPIRE if the count is 1, refuse above the limit *)
(*   check           GET, refuse when locked, or sleep the penalty          *)
(*   the password    Argon2; then INCR and EXPIRE, or DELETE, or neither    *)
(* Between two of them any other request may run, the worker may die or the *)
(* call may raise (Abort), and Redis, which has no volume, may restart.     *)
(*                                                                          *)
(* Time is a number of periods: a key with a time to live of n is gone      *)
(* after n of them, unless EXPIRE starts them afresh. The length of the     *)
(* sleep is left out: any number of steps may happen during it.             *)
(*                                                                          *)
(* History, read by no action: `lost` counts, per counter of failures, the  *)
(* EXPIREs that were due and never sent; `unarmed` says that the window's   *)
(* was; `tried` has the pairs refused as locked in the present period.      *)
(***************************************************************************)
EXTENDS Integers, FiniteSets

CONSTANTS
    Requests,           \* login requests from one client address
    Emails,             \* the addresses they try
    LockoutAtAttempt,   \* LOCKOUT_AT_ATTEMPT
    Limit,              \* `limit` of the rate limiter
    Lifetime,           \* LOCKOUT_SECONDS, window_seconds: periods a key lives
    MaxLost             \* bound: EXPIREs lost per counter

ASSUME ThrottleAssumption ==
    /\ IsFiniteSet(Requests)
    /\ LockoutAtAttempt \in Nat \ {0, 1}
    /\ Limit \in Nat \ {0}
    /\ Lifetime \in Nat \ {0}
    /\ MaxLost \in Nat

VARIABLES
    window,         \* ratelimit:auth:login:<address>
    failures,       \* login-throttle:<email>:<address>
    pc, email,      \* where a request is, and whom it tries to log in
    lost, unarmed, tried    \* history

history == <<lost, unarmed, tried>>
vars == <<window, failures, pc, email, history>>

\* A key in Redis: count 0 is a key that is not there, ttl 0 is no expiry.
Counter == [count : Nat, ttl : 0 .. Lifetime]

Gone == [count |-> 0, ttl |-> 0]

\* INCR keeps the time to live.
Incremented(c) == [c EXCEPT !.count = @ + 1]

\* EXPIRE does nothing to a key that is not there.
Armed(c) == IF c.count = 0 THEN c ELSE [c EXCEPT !.ttl = Lifetime]

\* One period passes.
Older(c) == IF c.ttl = 1 THEN Gone ELSE [c EXCEPT !.ttl = @ - 1]

Labels == {"idle", "arm", "check", "verify", "expire"}

At(label, e) == {r \in Requests : pc[r] = label /\ email[r] = e}

Goto(r, label) == pc' = [pc EXCEPT ![r] = label]

-----------------------------------------------------------------------------
\* rate_limiter: INCR. The window is refused above the limit, whatever the
\* count: it is kept only up to the first that is.
Arrive(r, e) ==
    /\ pc[r] = "idle"
    /\ email' = [email EXCEPT ![r] = e]
    /\ window' = IF window.count > Limit THEN window ELSE Incremented(window)
    /\ \/ window.count = 0 /\ Goto(r, "arm")
       \/ window.count \in 1 .. Limit - 1 /\ Goto(r, "check")
       \/ window.count >= Limit /\ Goto(r, "idle")
    /\ UNCHANGED <<failures, history>>

\* Fault: the window is refused for good once the key exists.
ArmNever(r) ==
    /\ pc[r] = "arm"
    /\ Goto(r, "check")
    /\ UNCHANGED <<window, failures, email, history>>

\* rate_limiter: EXPIRE, by the request that began the window.
Arm(r) ==
    /\ pc[r] = "arm"
    /\ window' = Armed(window)
    /\ Goto(r, "check")
    /\ UNCHANGED <<failures, email, history>>

\* Fault: the failures recorded are taken for the number of the attempt.
LockedByFailures(e) == failures[e].count >= LockoutAtAttempt

\* This attempt is the one after the failures recorded.
Locked(e) == failures[e].count + 1 >= LockoutAtAttempt

\* check: the GET, then the sleep.
Pass(r) ==
    /\ pc[r] = "check"
    /\ ~Locked(email[r])
    /\ Goto(r, "verify")
    /\ UNCHANGED <<window, failures, email, history>>

\* Fault: an attempt during the lockout prolongs it.
RefuseLockedAndProlong(r) ==
    /\ pc[r] = "check"
    /\ Locked(email[r])
    /\ failures' = [failures EXCEPT ![email[r]] = Armed(@)]
    /\ tried' = tried \cup {email[r]}
    /\ Goto(r, "idle")
    /\ UNCHANGED <<window, email, lost, unarmed>>

\* check: AccountLockedError, before anything is recorded: an attempt during
\* the lockout does not prolong it.
RefuseLocked(r) ==
    /\ pc[r] = "check"
    /\ Locked(email[r])
    /\ tried' = tried \cup {email[r]}
    /\ Goto(r, "idle")
    /\ UNCHANGED <<window, failures, email, lost, unarmed>>

\* record_failure: INCR, for a wrong password or an unknown address.
RecordFailure(r) ==
    /\ pc[r] = "verify"
    /\ failures' = [failures EXCEPT ![email[r]] = Incremented(@)]
    /\ Goto(r, "expire")
    /\ UNCHANGED <<window, email, history>>

\* Fault: only the first failure starts the time to live.
SlideFirstOnly(r) ==
    /\ pc[r] = "expire"
    /\ failures' = [failures EXCEPT ![email[r]] = IF @.count = 1 THEN Armed(@) ELSE @]
    /\ Goto(r, "idle")
    /\ UNCHANGED <<window, email, history>>

\* record_failure: EXPIRE, after every failure; then the refusal.
Slide(r) ==
    /\ pc[r] = "expire"
    /\ failures' = [failures EXCEPT ![email[r]] = Armed(@)]
    /\ Goto(r, "idle")
    /\ UNCHANGED <<window, email, history>>

\* The password is right, but the account may not authenticate: neither
\* recorded nor forgiven.
RefuseDisabled(r) ==
    /\ pc[r] = "verify"
    /\ Goto(r, "idle")
    /\ UNCHANGED <<window, failures, email, history>>

\* Fault: a right password takes one failure back (DECR).
ResetByOne(r) ==
    /\ pc[r] = "verify"
    /\ failures' = [failures EXCEPT ![email[r]].count = @ - 1]
    /\ lost' = [lost EXCEPT ![email[r]] = 0]
    /\ tried' = tried \ {email[r]}
    /\ Goto(r, "idle")
    /\ UNCHANGED <<window, email, unarmed>>

\* reset: DELETE, before the account is locked and read again.
Reset(r) ==
    /\ pc[r] = "verify"
    /\ failures' = [failures EXCEPT ![email[r]] = Gone]
    /\ lost' = [lost EXCEPT ![email[r]] = 0]
    /\ tried' = tried \ {email[r]}
    /\ Goto(r, "idle")
    /\ UNCHANGED <<window, email, unarmed>>

\* The worker dies, or a call to Redis raises.
Abort(r) ==
    /\ pc[r] # "idle"
    /\ pc[r] = "expire" => lost[email[r]] < MaxLost
    /\ lost' = IF pc[r] = "expire" THEN [lost EXCEPT ![email[r]] = @ + 1] ELSE lost
    /\ unarmed' = (unarmed \/ pc[r] = "arm")
    /\ Goto(r, "idle")
    /\ UNCHANGED <<window, failures, email, tried>>

-----------------------------------------------------------------------------
\* Redis.

FailuresAge(e) ==
    /\ failures[e].ttl > 0
    /\ failures' = [failures EXCEPT ![e] = Older(@)]
    /\ lost' = IF failures[e].ttl = 1 THEN [lost EXCEPT ![e] = 0] ELSE lost
    /\ tried' = tried \ {e}
    /\ UNCHANGED <<window, pc, email, unarmed>>

WindowAges ==
    /\ window.ttl > 0
    /\ window' = Older(window)
    /\ unarmed' = (unarmed /\ window.ttl # 1)
    /\ UNCHANGED <<failures, pc, email, lost, tried>>

RedisRestart ==
    /\ window' = Gone
    /\ failures' = [e \in Emails |-> Gone]
    /\ lost' = [e \in Emails |-> 0]
    /\ unarmed' = FALSE
    /\ tried' = {}
    /\ UNCHANGED <<pc, email>>

-----------------------------------------------------------------------------
Init ==
    /\ window = Gone
    /\ failures = [e \in Emails |-> Gone]
    /\ pc = [r \in Requests |-> "idle"]
    /\ email \in [Requests -> Emails]
    /\ lost = [e \in Emails |-> 0]
    /\ unarmed = FALSE
    /\ tried = {}

Request(r) ==
    \/ \E e \in Emails : Arrive(r, e)
    \/ Arm(r)
    \/ Pass(r)
    \/ RefuseLocked(r)
    \/ RecordFailure(r)
    \/ Slide(r)
    \/ RefuseDisabled(r)
    \/ Reset(r)
    \/ Abort(r)

Next ==
    \/ \E r \in Requests : Request(r)
    \/ \E e \in Emails : FailuresAge(e)
    \/ WindowAges
    \/ RedisRestart

\* Time passes, and a request that has been answered by INCR sends its EXPIRE
\* or dies. Nothing makes a client come, or a password be right.
Fairness ==
    /\ \A e \in Emails : WF_vars(FailuresAge(e))
    /\ WF_vars(WindowAges)
    /\ \A r \in Requests : WF_vars(Arm(r)) /\ WF_vars(Slide(r))

Spec == Init /\ [][Next]_vars /\ Fairness

-----------------------------------------------------------------------------
\* Every state has this shape; a key that is not there has no expiry.
TypeOK ==
    /\ window \in Counter
    /\ failures \in [Emails -> Counter]
    /\ pc \in [Requests -> Labels]
    /\ email \in [Requests -> Emails]
    /\ lost \in [Emails -> 0 .. MaxLost]
    /\ unarmed \in BOOLEAN
    /\ tried \subseteq Emails
    /\ window.count = 0 => window.ttl = 0
    /\ \A e \in Emails : failures[e].count = 0 => failures[e].ttl = 0

\* Between two clearings of its counter a pair gets nine guesses, and one
\* more for each further request that was past `check` at the same time: the
\* counter is read before the sleep and the password, and advanced after them.
\* What is bounded are the guesses recorded and those under way: one whose worker
\* dies before INCR leaves no trace.
GuessesBounded ==
    \A e \in Emails :
        failures[e].count + Cardinality(At("verify", e))
            <= LockoutAtAttempt - 2 + Cardinality(Requests)

\* INCR and EXPIRE of record_failure are two calls. A counter is without an
\* expiry only if none of the failures in it was followed by its EXPIRE: each
\* of them is still due or was lost. One that arrives repairs all the others.
CounterArmed ==
    \A e \in Emails :
        failures[e].ttl = 0 =>
            failures[e].count <= lost[e] + Cardinality(At("expire", e))

\* The rate limiter sends EXPIRE once, with the first request of a window. The
\* window is without an expiry only while that call is due or if it was lost;
\* then, unlike the counter of failures, nothing repairs it.
WindowArmed ==
    window.count > 0 /\ window.ttl = 0 =>
        unarmed \/ \E r \in Requests : pc[r] = "arm"

\* A limit is not for ever: a lockout ends, and so does a window over its limit,
\* unless every EXPIRE that would have ended it was lost. For the lockout this
\* rests on what KeepsTryingStaysLocked is violated by: an attempt during it is
\* refused before anything is recorded (login_throttle.py:63-64).
LimitsLift ==
    /\ \A e \in Emails :
         Locked(e) ~> ~Locked(e) \/ failures[e].count <= lost[e]
    /\ window.count > Limit ~> window.count <= Limit \/ unarmed

StaysLocked ==
    \A e \in Emails :
        Locked(e) /\ e \in tried /\ At("expire", e) = {} /\ FailuresAge(e)
            => Locked(e)'

\* "The window slides: an attacker who keeps trying stays locked, and someone who
\* walks away is forgiven" (login_throttle.py:73-74): the passing of time unlocks
\* no pair that was tried, while locked, in the period that ends (nor because an
\* EXPIRE is still under way).
KeepsTryingStaysLocked == [][StaysLocked]_vars
=============================================================================
