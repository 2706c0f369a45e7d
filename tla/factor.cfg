\* Enrolment, both kinds of second factor and regeneration, three requests at
\* a time over four time-steps, with two sets of two recovery codes.
SPECIFICATION Spec
SYMMETRY Symmetry
CONSTANTS
  Nil = Nil
  Requests = {r1, r2, r3}
  Secrets = {k1, k2}
  CodeIds = {c1, c2, c3, c4}
  SetSize = 2
  MaxClock = 3
INVARIANTS TypeOK GrantsAreSpent DeadlocksKnown
PROPERTIES ImplementsOneTimeFactor
