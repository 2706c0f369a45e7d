\* One address, an account and the one registered after its purge, two links,
\* three requests and a purge.
SPECIFICATION Spec
CONSTANTS
  Nil = Nil
  Addresses = {a1}
  Users = {u1, u2}
  Links = {l1, l2}
  Requests = {r1, r2, r3}
  Purges = {p1}
SYMMETRY Symmetry
INVARIANTS TypeOK LinkWithAccount VerifiedByItsLink LateRedemptionRefused CooldownHeld
PROPERTIES ImplementsAddressBook
