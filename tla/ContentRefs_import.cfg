\* A lesson that was imported and extended stays as it is; so do documents and
\* refs once the callers are done.
SPECIFICATION MCSpec
CONSTANTS
  Legacy = {l1}
  Minted = {m1, m2}
  Docs = {d1, d2}
  Hooks = {h1, h2}
  Imports = {i1, i2}
  Puts = {p1}
  MaxImports = 2
  MaxFailures = 1
  NoRef = NoRef
  NoDoc = NoDoc
  Sentinel = Sentinel
  Absent = Absent
  Texts = {prose}
  Written <- MCWritten
  MaxPieces = 3
  MaxCircuitQubits = 2
  Null = Null
  Missing = Missing
INVARIANTS ImportHolds LessonSurvivesImport
PROPERTY BoundStaysBound
SYMMETRY MCSymmetry
CHECK_DEADLOCK FALSE
