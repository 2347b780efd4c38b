SPECIFICATION MCSpec
CONSTANTS
  Scenarios <- MCOvertaken
  MaxTurns = 2
  MaxEvents = 1
  MaxRecover = 1
  MaxSends = 2
  MaxEpochs = 2
  MaxFails = 1
  MaxInFlight = 3
  NoRun = NoRun
INVARIANT FollowedTurnIsHeard
