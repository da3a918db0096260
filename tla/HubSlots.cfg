CONSTANTS
  Tasks = {t1, t2}
  Decisions = {approved, rejected}
  MaxConns = 2
  MaxAsks = 1
  MaxEvents = 1
  Limit = 2
  OutboxMax = 2
  MaxCancels = 1
  MaxFaults = 1
SPECIFICATION Spec
SYMMETRY Symmetry
CHECK_DEADLOCK FALSE
INVARIANTS SlotsAreUnfinished DecisionsAreRecorded QuestionsAreShown
PROPERTY CancelYieldsToStaleWrites
