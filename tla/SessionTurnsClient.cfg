\* One client whose connection comes and goes.
SPECIFICATION FairSpec
CONSTANTS
    Conns = {c1}
    WsTurns = {t1, t2}
    RestTurns = {}
    NoTurn = NoTurn
    ToolIds = {u1}
    NoTool = NoTool
    Modes = {"default", "plan"}
    MaxTurns = 1
    MaxUses = 1
    WaitForKeeps = FALSE
PROPERTIES SerialTurns TurnEnds
