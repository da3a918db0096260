\* One goal, batches of two calls, a review every three actions of at most two
\* steps, five turns, one failing write.
CONSTANTS
  g1 = g1
  g2 = g2
  Goals = {g1}
  MaxAttempts = 5
  Tolerance = 3
  MaxTalks = 1
  MaxRepairs = 1
  PollActions = 3
  MaxBattles = 2
  MaxReviewSteps = 2
  MaxBatch = 2
  ReviewOn = TRUE
  Social = FALSE
  QuietLeftovers = FALSE
  CapMayHit = TRUE
  MaxFaults = 1
SPECIFICATION FairSpec
INVARIANTS WorkIsReviewed EarlyCancelHolds EndIsTold
PROPERTY Returns
