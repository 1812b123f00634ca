\* Two workers and a queue of one for three tasks.
SPECIFICATION FairSpec
CONSTANTS
    Tasks <- MCTasks
    Timed <- MCTimed
    Priority <- MCPriority
    MaxWorkers = 2
    MaxQueue = 1
    MaxCancels = 1
    MaxRestarts = 1
CHECK_DEADLOCK FALSE
PROPERTIES FinalStands TasksSettle
