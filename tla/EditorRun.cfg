SPECIFICATION EditorFairSpec
CONSTANTS
  MaxCmds = 6
  FifoDepth = 8
  Ops = {"PING", "UPLOAD", "CALL", "CALL_ASYNC"}
  GivesUp = TRUE
  Modes = {"sync", "async"}
  FirstMode = "async"
INVARIANT
  ShowsItsResult
PROPERTY
  PollEnds
\* The user may stop, and a restart may leave the spin-lock taken.
CHECK_DEADLOCK FALSE
