\* One run of two calls against a streaming client with one retry.
SPECIFICATION FairSpec
CONSTANTS
  Protocol = "completions"
  MaxAttempts = 2
  Answers <- MCAnswers
  MaxOps = 2
  Thinking = TRUE
  PlainFinal = TRUE
  Window = 2
  Part = 2
  Callbacks = TRUE
  Posix = TRUE
  MaxLate = 6
INVARIANTS ShownFollowsAnswer SurvivorsAreReported LateEventsAreFew
PROPERTY CancelEnds
CHECK_DEADLOCK FALSE
