CONSTANTS
  Writers = {w1, w2}
  Clients = {c1, c2}
  MaxChanges = 3
  QueueSize = 1
  MaxDrops = 1
  Local = FALSE
SPECIFICATION Spec
INVARIANTS NothingMissed LossCloses
PROPERTIES NeverStale ClientsLearnEnd
