\* Two registrations of one address at once.
SPECIFICATION Spec
CONSTANTS
  Nil = Nil
  Addresses = {a1}
  Users = {u1, u2}
  Links = {l1, l2}
  Requests = {r1, r2}
  Purges = {}
INVARIANT UniformAnswer
