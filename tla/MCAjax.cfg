SPECIFICATION FairSpec
CONSTANTS
  Pages <- MCPages
  Answers <- MCAnswers
  Cors = FALSE
  MaxRequests = 3
INVARIANTS
  RequestsKept
PROPERTIES
  RequestsEnd
CHECK_DEADLOCK FALSE
