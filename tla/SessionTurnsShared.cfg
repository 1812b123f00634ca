\* Two connections and a pushed turn share the session; cancellations may get lost.
SPECIFICATION Spec
CONSTANTS
    Conns = {c1, c2}
    WsTurns = {t1}
    RestTurns = {r1}
    NoTurn = NoTurn
    ToolIds = {u1}
    NoTool = NoTool
    Modes = {"default", "trust"}
    MaxTurns = 2
    MaxUses = 1
    WaitForKeeps = TRUE
SYMMETRY Alike
VIEW WithoutHistory
INVARIANTS PermissionRespected BusyHasOwner
