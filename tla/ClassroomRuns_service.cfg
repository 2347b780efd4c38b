SPECIFICATION FairSpec
CONSTANTS
  Procs = {p1, p2}
  ClientMsgs = {k1, k2}
  MaxTurns = 2
  MaxEvents = 2
  SnapshotEvery = 2
  NoRun = NoRun
  Interrupted = Interrupted
  NoProc = NoProc
  NoKey = NoKey
INVARIANTS
  SnapshotIsReplay
  RetriesAgree
  TurnsDoNotInterleave
  ConversationOrdered
PROPERTIES ImplementsLedger NeverRunningForever LosersStop
