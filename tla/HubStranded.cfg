CONSTANTS
  Tasks = {t1}
  Decisions = {approved, rejected}
  MaxConns = 2
  MaxAsks = 0
  MaxEvents = 1
  Limit = 1
  OutboxMax = 2
  MaxCancels = 1
  MaxFaults = 0
SPECIFICATION Spec
CHECK_DEADLOCK FALSE
INVARIANT NoTaskStranded
