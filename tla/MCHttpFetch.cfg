SPECIFICATION Spec
CONSTANTS
  Urls <- MCUrls
  UrlMax = 10
  HostMax = 5
  BodyMax = 4
  Window = 3
  Replies <- MCReplies
  MaxFetches = 2
INVARIANTS
  
  TextIsBody
  NoStall
\* The script fetches MaxFetches times.
CHECK_DEADLOCK FALSE
