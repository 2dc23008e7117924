SPECIFICATION Spec
CONSTANTS
  Chars <- MCChars
  Space = " "
  LF = "LF"
  CR = "CR"
  NUL = "NUL"
  MaxLines = 3
  MaxLen = 2
  ShortMax = 7
  TabWidth = 2
  Rows = 2
  Cols = 2
  InitialText <- MCInitial
  NewText <- MCNew
  Files <- MCFiles
  Stops = {0, 500, 1000}
  MaxBatch = 2
INVARIANTS
  ScreenIsText
  UploadIsText
  SaveIsLoaded
PROPERTY
  EditsOneText
