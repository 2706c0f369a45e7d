\* A walk through each list, with each filter, while rows are written.
\* Nothing happens once the walk has ended: not a deadlock.
SPECIFICATION Spec
CONSTANTS
  Nil = Nil
  Ids = {1, 2, 3}
  Keys = {1, 2}
  Limits = {1, 2}
  Searches = {FALSE}
INVARIANTS TypeOK TwiceOnlyIfMoved StableServedOnce
PROPERTIES WalkEnds
CHECK_DEADLOCK FALSE
