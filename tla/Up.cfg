CONSTANTS
  MaxWrites <- MCMaxWrites
  MaxEdits <- MCMaxEdits
  StackOutcomes <- MCStackAll
  Runners <- MCHookServer
SPECIFICATION Spec
\* RunE can hang for good at line 365 (see up_shutdown_hang).
CHECK_DEADLOCK FALSE
INVARIANT TypeOK
PROPERTY WatchedWriteDelivered
PROPERTY WatchedEditRebuilt
PROPERTY LifecycleRefined
