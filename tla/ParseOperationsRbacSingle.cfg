\* Checks RbacRolesApplied alone; the code violates it.
CONSTANTS
  Absent = NoArg
  WrongKind = BadKind
  NoArg = NoArg
  BadKind = BadKind
  WellKnownClaims <- MCWellKnownClaims
  CustomClaims <- MCCustomClaims
  TimeFormats <- MCTimeFormats
  DefaultLayout <- MCDefaultLayout
  WGRole <- MCWGRole
  HasRoleEnum = TRUE
  Directives <- MCDirectives
  RbacChoices <- MCRbacChoices
  MaxDirectives = 2
  MaxOps = 1
SPECIFICATION Spec
INVARIANT RbacRolesApplied
