CONSTANTS
  Runner = runner
  Stopper = stopper
  Deciders = {d1, d2}
  Cancellers = {c1, c2}
  MaxApprovals = 2
  MaxFaults = 0
  MayStop = FALSE
SPECIFICATION Spec
SYMMETRY Symmetry
INVARIANTS PendingAgrees EventsAgree
PROPERTY ImplementsContract
