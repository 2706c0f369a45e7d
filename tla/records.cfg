\* Each table in turn: one setting of every key, or categories, or values.
\* Once every row is archived nothing is left to edit: not a deadlock.
SPECIFICATION Spec
CONSTANTS
  Nil = Nil
  Malformed = Malformed
  Rows = {i1, i2, i3}
  Requests = {r1, r2, r3}
  Names = {n1, n2}
  Slugs = {a, b}
  Values <- Samples
SYMMETRY Symmetry
INVARIANTS TypeOK AuditIsChain StoredIsReadable
PROPERTIES ArchivedIsFinal ImplementsSlugDirectory
CHECK_DEADLOCK FALSE
