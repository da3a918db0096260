CONSTANTS
  Runner = runner
  Stopper = stopper
  Deciders = {d1}
  Cancellers = {c1}
  MaxApprovals = 1
  MaxFaults = 2
  MayStop = TRUE
SPECIFICATION FairSpec
INVARIANTS TypeOK GateExclusive WaiterAgrees FreeMeansTerminal
PROPERTIES NoApprovalAfterCancel CancelSticks NoToolAfterCancel OnlyShutdownReplaces CancelConverges RunReturns
