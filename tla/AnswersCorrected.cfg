SPECIFICATION Spec
CONSTANTS
  None = None
  Fields = {q1, q2}
  Labels <- TwoLabels
  MaxEdits = 2
  MaxRules = 0
PROPERTIES
  CorrectedAlone
CHECK_DEADLOCK FALSE
