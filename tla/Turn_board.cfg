SPECIFICATION AllSpec
CONSTANTS
  MaxCalls = 5
  MaxRetries = 2
  MaxEquations = 2
  Ids = {a, b}
  Texts = {t, u}
  Readable = {t}
  Target <- Targets
  NoTarget = NoTarget
  Steps = {s}
  NoStep = NoStep
  MaxLogged = 3
  Models = {g, h}
  Capacity <- Limits
  Rate <- Refill
  Calls = {c1, c2}
  Estimates = {2}
  Usages = {1, 3, Unknown}
  Unknown = Unknown
  Remaining = {1}
  Waits = {1}
  MaxTicks = 1
  MaxPresses = 3
  MaxEdits = 2
  OwnText = OwnText
  NoText = NoText
  Scenarios <- MCGap
  MaxTurns = 1
  MaxEvents = 2
  MaxRecover = 2
  MaxSends = 2
  MaxEpochs = 2
  MaxFails = 3
  MaxInFlight = 1
  NoRun = NoRun
  Messages = {m1, m2}
  NoSession = NoSession
  MaxSessions = 2
  MaxOpened = 2
  MaxFailures = 1
INVARIANTS BudgetKept StepIsAccounted BoardIsShown TokensAreAccounted HandoffIsOneShot TabFollowsItsSession
PROPERTIES VerifiedIsKept TurnEnds 
\* A turn that has ended takes no further step.
CHECK_DEADLOCK FALSE
