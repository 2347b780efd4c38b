SPECIFICATION Spec
CONSTANTS
  Procs = {p1}
  ClientMsgs = {k1, k2}
  MaxTurns = 2
  MaxEvents = 2
  SnapshotEvery = 2
  NoRun = NoRun
  Interrupted = Interrupted
  NoProc = NoProc
  NoKey = NoKey
PROPERTY FastPathSparesOwner
