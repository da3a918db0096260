\* One Task the backend runs and one of a Local Worker, two crashes, one failing write or read.
SPECIFICATION FairSpec
CONSTANTS
    t1 = t1
    t2 = t2
    NoTask = NoTask
    Earlier = Earlier
    Tasks = {t1, t2}
    Remote = {t2}
    Files = 2
    MaxCrashes = 2
    MaxFaults = 1
INVARIANTS ToldEndsStay DecisionsStay
PROPERTIES RestartSettles TasksEnd
CHECK_DEADLOCK FALSE
