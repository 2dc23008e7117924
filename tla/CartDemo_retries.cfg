SPECIFICATION Spec
CONSTANTS
  MaxSends = 7
  Seeds = {1, 2, 3, 4, 5}
  Bodies = {"PING", "UPLOAD", "CALL"}
  Retries = 3
  CallSum = 43462
  Programs = {"demo"}
  MaxTimeouts = 0
INVARIANT RetriesBounded
\* The ST sends MaxSends commands.
CHECK_DEADLOCK FALSE
