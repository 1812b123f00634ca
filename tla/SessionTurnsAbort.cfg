\* Two tabs of one session, one of them aborts.
SPECIFICATION Spec
CONSTANTS
    Conns = {c1, c2}
    WsTurns = {t1, t2}
    RestTurns = {}
    NoTurn = NoTurn
    ToolIds = {u1}
    NoTool = NoTool
    Modes = {"default"}
    MaxTurns = 1
    MaxUses = 1
    WaitForKeeps = FALSE
PROPERTY AbortHeeded
