\* Two pipelines of one session, the three attempts of the code.
SPECIFICATION FairSpec
CONSTANTS
    Pipelines = {p1, p2}
    MaxFixAttempts = 3
    MaxAgentTurns = 2
    MaxIssues = 1
CHECK_DEADLOCK FALSE
INVARIANTS ChangesAreCheckpointed AbortsAreRecorded
PROPERTIES AbortEndsRounds PipelineEnds
