SPECIFICATION FairSpec
CONSTANTS
  Machine = {m1}
  Name = {n1}
  Code = {i1, i2, i3}
  None = None
  MaxCred = 8
  MaxReq = 2
  Replace = FALSE
  Ahead = FALSE
  Allowed <- AllButExpiry
  MaxMishaps = 2
PROPERTIES
  EnrollmentCompletes
