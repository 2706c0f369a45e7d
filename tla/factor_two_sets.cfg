\* Two regenerations at the same time.
SPECIFICATION Spec
SYMMETRY Symmetry
CONSTANTS
  Nil = Nil
  Requests = {r1, r2}
  Secrets = {k1}
  CodeIds = {c1, c2, c3}
  SetSize = 1
  MaxClock = 2
INVARIANTS RegenerationLeavesOneSet
