----------------------------- MODULE ServerLife -----------------------------
(***************************************************************************)
(* What the life cycle of an MCP server promises to those who use it: it   *)
(* is at rest (not there, created, active, paused, terminated or failed),  *)
(* or on its way because exactly one caller took it there.  Only this      *)
(* caller brings it to rest again, and nobody else can take it meanwhile.  *)
(* A caller that is lost leaves the server on its way for good.            *)
(***************************************************************************)
CONSTANT Callers

VARIABLES
    state,
    movers   \* who has it on its way

vars == <<state, movers>>

AtRest == movers = {} /\ state \notin {"activating", "terminating"}

Init == state = "none" /\ movers = {}

Register ==
    /\ state \in {"none", "terminated", "error"} /\ state' = "created"
    /\ AtRest
    /\ UNCHANGED movers

Remove ==
    /\ state \in {"created", "terminated", "error"}
    /\ AtRest
    /\ state' = "none"
    /\ UNCHANGED movers

Pause ==
    /\ state = "active"
    /\ AtRest
    /\ state' = "paused"
    /\ UNCHANGED movers

Take(t) ==
    /\ \/ state # "active" /\ state' = "activating"
       \/ state \in {"active", "paused"} /\ state' = "terminating"
    /\ AtRest
    /\ movers' = {t}

Bring(t) ==
    /\ \/ state = "activating" /\ state' \in {"active", "error"}
       \/ state = "terminating" /\ state' = "terminated"
    /\ movers = {t}
    /\ movers' = {}

Lose(t) ==
    /\ state \in {"activating", "terminating"}
    /\ movers = {t}
    /\ movers' = {}
    /\ UNCHANGED state

Next == Register \/ Remove \/ Pause \/ \E t \in Callers : Take(t) \/ Bring(t) \/ Lose(t)

Spec == Init /\ [][Next]_vars
=============================================================================
