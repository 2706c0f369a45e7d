\* Two overlapping runs, two messages, two lost transactions. Once every
\* message is settled the runs go on finding nothing to do.
SPECIFICATION FairSpec
CONSTANTS
  Nil = Nil
  Messages = {m1, m2}
  Runs = {w1, w2}
  MaxAttempts = 2
  BatchSize = 2
  MaxLost = 2
INVARIANTS TypeOK ClaimsAreExclusive DeliveredOnceUnlessUnrecorded RedactedWhenSettled
PROPERTIES EventuallySettled PassedOverOnlyIfHeld
