\* A setup that read the credential before a confirmation enabled it.
SPECIFICATION Spec
SYMMETRY Symmetry
CONSTANTS
  Nil = Nil
  Requests = {r1, r2}
  Secrets = {k1, k2}
  CodeIds = {c1, c2}
  SetSize = 2
  MaxClock = 2
INVARIANTS EnabledSecretProven
