CONSTANTS
  MaxWrites <- MCMaxWrites
  MaxEdits <- MCMaxEdits
  StackOutcomes <- MCStackUp
  Runners <- MCHookServer
SPECIFICATION Spec
CHECK_DEADLOCK FALSE
INVARIANT InitialBuildFailureNotFatal
