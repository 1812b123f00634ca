\* One client, messages of up to two tool calls, ids that a later turn uses again.
SPECIFICATION Spec
CONSTANTS
    Conns = {c1}
    WsTurns = {t1, t2}
    RestTurns = {}
    NoTurn = NoTurn
    ToolIds = {u1, u2}
    NoTool = NoTool
    Modes = {"default", "plan"}
    MaxTurns = 1
    MaxUses = 2
    WaitForKeeps = FALSE
SYMMETRY Alike
INVARIANTS ToolsPaired NoOrphanTurn
