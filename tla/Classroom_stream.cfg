SPECIFICATION FairRealtimeSpec
CONSTANTS
  Runs = {1, 2}
  MaxItems <- MCMaxItems
INVARIANTS ProductionOrder NothingForgotten
PROPERTIES DiscardedIsSilent ArmedTimerSends
\* A run that has published everything sends no more.
CHECK_DEADLOCK FALSE
