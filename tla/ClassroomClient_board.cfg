SPECIFICATION MCSpec
CONSTANTS
  Scenarios <- MCBoard
  MaxTurns = 2
  MaxEvents = 2
  MaxRecover = 1
  MaxSends = 2
  MaxEpochs = 2
  MaxFails = 1
  MaxInFlight = 1
  NoRun = NoRun
INVARIANT PageIsTrue
PROPERTY BoardNeverGoesBack
