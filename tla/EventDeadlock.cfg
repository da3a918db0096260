CONSTANTS
  Writers = {w1}
  Clients = {c1}
  MaxChanges = 1
  QueueSize = 1
  MaxDrops = 0
  Local = TRUE
SPECIFICATION Spec
CHECK_DEADLOCK FALSE
PROPERTY ClientsLearnEnd
