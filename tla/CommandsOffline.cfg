\* A command that is answered after its request was given up.
SPECIFICATION Spec
CONSTANTS
  w1 = w1  w2 = w2  s1 = s1  auto = auto  n1 = n1
  Workspaces = {w1, w2}
  Initial = {w1}
  Sessions = {s1}
  Titled = {}
  HomeOf <- MCHome
  Default = auto
  Names = {n1}
  Kinds = {"rename", "delete", "history", "select", "update", "uninstall"}
  MaxRequests = 1
  MaxTasks = 1
  MaxConns = 1
  MaxOps = 2
  Limit = 1
INVARIANT StaysPaired
CHECK_DEADLOCK FALSE
