\* A circuit or a diagram that was chosen for export stays as it is, and
\* answered questions are not asked again.
SPECIFICATION MCSpec
CONSTANTS
  MaxQubits = 3
  HistoryLimit = 1
  MaxColumns = 2
  MaxGates = 2
  Specs <- MCSpecs
  CanvasQubits = 2
  MaxRuns = 3
  NoRun = NoRun
  Questions = {1, 2}
  MaxTokens = 2
  Angles = {0, 1, 3}
  MaxRegister = 2
  MaxSteps = 5
  MaxUnder = 2
  Palette = {"H", "S", "CX"}
  Shots = 2
  AllStates = 1
  MaxTerms = 2
  Nothing = Nothing
INVARIANTS CircuitsWellPlaced ExportIsTheCircuit PageTellsLatestRun GatesDoWhatTheySay PanelsAgree TutorIsAccounted
PROPERTIES EveryEditIsUndoable DropLandsWherePreviewed
CHECK_DEADLOCK FALSE
