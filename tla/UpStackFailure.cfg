CONSTANTS
  MaxWrites <- MCMaxWrites
  MaxEdits <- MCMaxEdits
  StackOutcomes <- MCStackAll
  Runners <- MCHookServer
SPECIFICATION Spec
CHECK_DEADLOCK FALSE
INVARIANT StackFailureNotFatal
