SPECIFICATION FairSpec
CONSTANTS
  MaxCmds = 3
  FifoDepth = 8
  Ops = {"PING", "UPLOAD", "CHUNK", "CALL", "RESET", "CALL_ASYNC", "POLL", "OTHER"}
  GivesUp = TRUE
INVARIANTS
  ReplyAccounting
  NoStrayReply
  FifosNeverFill
  CallParamsStable
  OwnAnswer
  CallResultIntact
  ReadyMeansArmed
  ReadyRaised
PROPERTIES
  ResultStable
  Answered
  AsyncSettles
\* A restart of Core 1 inside a critical section leaves the spin-lock taken,
\* and Core 0 then waits for it for ever.
CHECK_DEADLOCK FALSE
