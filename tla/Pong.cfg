SPECIFICATION Spec
CONSTANTS
  One = 2
  PlayTop = 2
  PlayBot = 14
  LeftX = 1
  RightX = 22
  Out = 2
  CourtW = 24
  PadH = 4
  Ball = 2
  Speed = 2
  BallVx = 4
  VxStep = 1
  VxMax = 6
  ServeVy = 2
  Spin = 1
  ServeDelay = 1
  WinScore = 1
  LeftAim = 1
  RightAim = 0
  HitsPerLevel = 2
  Answers = {4, 12}
  Modes = {TRUE, FALSE}
  Slack = 1
  Games = 2
INVARIANTS
  AnswersThisGame
  PredictClose
\* Games games are played.
CHECK_DEADLOCK FALSE
