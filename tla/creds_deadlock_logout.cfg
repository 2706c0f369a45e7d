\* Logout against the operations that follow the lock order.
SPECIFICATION Spec
SYMMETRY Symmetry
CONSTANTS
  Nil = Nil
  Users = {u1}
  Admins = {}
  Unverified = {}
  Requests = {r1, r2}
  SessionIds = {s1}
  ResetIds = {k1}
  ChallengeIds = {}
  Stamps = {1}
  Workloads = {{"login", "logout", "refresh", "reset"}}
  MaxEpoch = 1
  MaxVersion = 2
INVARIANTS NoDeadlock
