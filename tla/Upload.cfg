SPECIFICATION Spec
CONSTANTS
  MaxSends = 4
  Seeds = {1, 2, 3, 4, 5}
  Bodies <- Commands
  Cap = 2
INVARIANTS
  SourceFits
PROPERTIES
  UploadedIsEvaluated
  ResetForgets
\* The ST sends MaxSends commands.
CHECK_DEADLOCK FALSE
