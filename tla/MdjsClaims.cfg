SPECIFICATION Spec
CONSTANTS
  MaxCmds = 3
  FifoDepth = 8
  Ops = {"UPLOAD", "CALL", "RESET", "CALL_ASYNC", "POLL"}
  GivesUp = FALSE
INVARIANT
  ResetHasCleared
CHECK_DEADLOCK FALSE
