\* Every operation of up to two variables over MCInputObjects.
CONSTANTS
  Absent = NoArg
  WrongKind = BadKind
  NoArg = NoArg
  BadKind = BadKind
  InputObjects <- MCInputObjects
  Enums <- MCEnums
  Scalars <- MCScalars
  CustomJsonScalars <- MCCustomJsonScalars
  VarNames <- MCVarNames
  VarTypes <- MCVarTypes
  DirectiveChoices <- MCDirectiveChoices
  MaxVars = 2
  Depth = 3
  Objects <- MCObjects
  Unions <- MCUnions
  Fragments <- MCFragments
  RootTypes <- MCRootTypes
  ResponseInputs <- MCResponseInputs
SPECIFICATION JsonSchemaSpec
INVARIANT TypeOK
INVARIANT DefinitionsComplete
INVARIANT FieldsAsDeclaredUnshared
INVARIANT ResponseShapesAsSelected
INVARIANT TransformsAgree
INVARIANT RequiredWhereNonNull
