\* Three requests at a time from one address try one account. Lockout at the
\* fourth attempt and a window of four, so that both are reached; every EXPIRE
\* of a lockout may be lost.
SPECIFICATION Spec
CONSTANTS
  Requests = {r1, r2, r3}
  Emails = {e1}
  LockoutAtAttempt = 4
  Limit = 4
  Lifetime = 2
  MaxLost = 3
INVARIANTS TypeOK GuessesBounded CounterArmed WindowArmed
PROPERTIES LimitsLift
