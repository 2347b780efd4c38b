SPECIFICATION Spec
CONSTANTS
  MaxQubits = 2
  HistoryLimit = 1
  MaxColumns = 3
  MaxGates = 3
  Specs <- MCOrder
PROPERTY LoadKeepsOrder
