\* Every run may have ended.
SPECIFICATION BlockSpec
CONSTANTS
  MaxRuns = 2
  NoRun = NoRun
INVARIANT BlockOutcomeIsOfLatestRun
CHECK_DEADLOCK FALSE
