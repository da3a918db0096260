\* Two commands, two connections, two create_tasks, and four commands, connections,
\* create_tasks or updates in all.
SPECIFICATION Spec
CONSTANTS
  w1 = w1  w2 = w2  s1 = s1  auto = auto  n1 = n1
  Workspaces = {w1, w2}
  Initial = {w1}
  Sessions = {s1}
  Titled = {}
  HomeOf <- MCHome
  Default = auto
  Names = {n1}
  Kinds = {"rename", "delete", "history", "select", "update", "uninstall"}
  MaxRequests = 2
  MaxConns = 2
  MaxTasks = 2
  MaxOps = 4
  Limit = 2
INVARIANTS ToldIsDone UpdatesAreAlone
PROPERTIES NamesStay TasksKeepTheirSession
CHECK_DEADLOCK FALSE
