SPECIFICATION Spec
CONSTANTS
    u1 = u1  u2 = u2  u3 = u3  c1 = c1  c2 = c2  i1 = i1
    Users = {u1, u2, u3}
    Orgs = {1, 2}
    Callers = {c1, c2}
    MayCall <- Routes
    Invites = {i1}
    Verified = {u1, u2}
    Staff <- TwoOwners
    None = None
INVARIANTS OwnerRemains ErasureLeavesNothing NoStandstill
PROPERTIES AuthorityIsCurrent
SYMMETRY EqualOwners
CHECK_DEADLOCK FALSE
