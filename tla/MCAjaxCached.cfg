SPECIFICATION Spec
CONSTANTS
  Pages <- CachedPages
  Answers <- MCAnswers
  Cors = FALSE
  MaxRequests = 3
INVARIANTS
  NotModifiedSeen
CHECK_DEADLOCK FALSE
