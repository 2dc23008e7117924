SPECIFICATION Spec
CONSTANTS
  MaxSends = 5
  Seeds = {1, 2, 3, 4, 5}
  Bodies = {"PING", "UPLOAD", "CALL"}
  Retries = 3
  CallSum = 43462
  Programs = {"demo", "any"}
  MaxTimeouts = 1
INVARIANTS
  StolenPerGiveUp
  ZeroMeansAnswered
  ShowsItsSum
PROPERTY
  LandedEndsWait
\* The ST sends MaxSends commands.
CHECK_DEADLOCK FALSE
