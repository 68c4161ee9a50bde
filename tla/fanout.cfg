SPECIFICATION FairSpec
CONSTANTS
  Kinds <- TwoKinds
  Limit = 2
  MaxAttempts = 2
  OpTimeout = 2
  Backoff = 1
  Deadline = 3
  MaxMore = 1
CHECK_DEADLOCK FALSE
INVARIANTS
  TypeOK
  AnswerInTime
  ResultsAreSound
PROPERTIES
  SearchAnswers
