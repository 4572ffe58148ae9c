SPECIFICATION Spec
CONSTANTS
  Machine = {m1}
  Name = {n1, n2}
  Code = {i1, i2}
  None = None
  MaxCred = 4
  MaxReq = 2
  Replace = TRUE
  Ahead = TRUE
  Allowed <- Mishap
  MaxMishaps = 2
INVARIANTS
  ActiveHasHolder
PROPERTIES
  MembershipSpec
  EnrolledIsConfirmed
SYMMETRY Symmetry
