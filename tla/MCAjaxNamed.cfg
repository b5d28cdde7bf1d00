SPECIFICATION Spec
CONSTANTS
  Pages <- NamedPages
  Answers <- MCAnswers
  Cors = FALSE
  MaxRequests = 3
INVARIANTS
  OwnAnswerAlways
CHECK_DEADLOCK FALSE
