SPECIFICATION Spec
CONSTANTS
  Pages <- LoadPages
  Answers <- MCAnswers
  Cors = FALSE
  MaxRequests = 3
INVARIANTS
  LatestShown
CHECK_DEADLOCK FALSE
