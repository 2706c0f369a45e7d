\* One account, which may be an administrator that has enrolled a second factor, and
\* two requests at a time. Workloads split the operations in two groups, each with
\* the password reset, the (de)activation and the purge: those on tokens, and those
\* on the second factor and what Redis loses. It stops when its ids are used up.
SPECIFICATION Spec
SYMMETRY Symmetry
CONSTANTS
  Nil = Nil
  Users = {u1}
  Admins = {u1}
  Unverified = {u1}
  Requests = {r1, r2}
  SessionIds = {s1}
  ResetIds = {k1, k2}
  ChallengeIds = {c1}
  Stamps = {1}
  Workloads = {{"login", "refresh", "logout", "reset", "set_active", "purge", "expiry"},
    {"login", "verify", "refresh", "reset", "set_active", "enroll", "purge", "redis_restart", "redis_expiry"}}
  MaxEpoch = 2
  MaxVersion = 2
INVARIANTS TypeOK NoStaleLink NoStaleSession NoStaleToken MfaClaimEarned DeadlocksKnown
PROPERTIES ImplementsAccountAccess ResetSpendsCurrentLink RotationSpendsCurrentToken
CHECK_DEADLOCK FALSE
