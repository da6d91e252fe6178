CONSTANTS
  admin = admin
  user = user
  Undefined = Undefined
  Roles <- MCRoles
  Intervals <- MCIntervals
SPECIFICATION Spec
INVARIANT TypeOK
