----------------------------- MODULE McpServers -----------------------------
(***************************************************************************)
(* One MCP server: its life cycle (mcp/lifecycle.py), the clients and      *)
(* processes McpManager makes for it (mcp/client.py), and the callers that *)
(* add, activate, pause and terminate it at the same time.                 *)
(*                                                                         *)
(* The life cycle object is written before the first await of every        *)
(* operation and refuses what its table does not allow; the client's       *)
(* process is written after awaits, by whoever has the client.  No hook is *)
(* installed in this commit, so firing them does not suspend.              *)
(***************************************************************************)
EXTENDS Naturals, FiniteSets

CONSTANTS
    McpCallers,   \* the tasks that use the manager
    McpClients,   \* McpClient objects
    NoClient,
    Processes,    \* child processes
    NoProcess,
    MaxRestarts,  \* max_restarts, 0 where restart_on_error is off
    MaxOps        \* bound on the operations

ASSUME McpAssumption ==
    /\ IsFiniteSet(McpCallers)
    /\ NoClient \notin McpClients
    /\ NoProcess \notin Processes
    /\ MaxRestarts \in Nat
    /\ MaxOps \in Nat

VARIABLES
    life,       \* the life cycle object: state ("none" if not registered), restarts, tools
    registered, \* _clients[name]
    process,    \* the process attribute of each client
    running,    \* the processes that run
    used,       \* the clients and processes made so far
    mcpCall,    \* what each caller waits for, and the client and process it has in hand
    abandoned,  \* a caller was cancelled while the life cycle was its to move on
    ops         \* operations so far

mcpVars == <<life, registered, process, running, used, mcpCall, abandoned, ops>>

-----------------------------------------------------------------------------
LifeStates == {"none", "created", "activating", "active", "paused",
               "terminating", "terminated", "error"}

\* _TRANSITIONS
Allowed == [s \in LifeStates |->
    CASE s = "none"        -> {}
      [] s = "created"     -> {"activating", "terminated"}
      [] s = "activating"  -> {"active", "error"}
      [] s = "active"      -> {"paused", "terminating", "error"}
      [] s = "paused"      -> {"activating", "terminating", "terminated"}
      [] s = "terminating" -> {"terminated", "error"}
      [] s = "terminated"  -> {"activating"}
      [] s = "error"       -> {"activating", "terminated"}]

May(to) == to \in Allowed[life.state]

\* ServerLifecycle(config)
FreshServer == [state |-> "created", restarts |-> 0, tools |-> FALSE]

NoCall == [place |-> "idle", client |-> NoClient, process |-> NoProcess]
Places == {"idle", "spawning", "talking", "pausing", "terminating"}

McpInit ==
    /\ life = [state |-> "none", restarts |-> 0, tools |-> FALSE]
    /\ registered = NoClient
    /\ process = [c \in McpClients |-> NoProcess]
    /\ running = {}
    /\ used = {}
    /\ mcpCall = [t \in McpCallers |-> NoCall]
    /\ abandoned = FALSE
    /\ ops = 0

Begin(t) == /\ mcpCall[t].place = "idle"
            /\ ops < MaxOps
            /\ ops' = ops + 1

-----------------------------------------------------------------------------
\* register: a new object in place of a terminated or failed one, an error otherwise.
Register(t) ==
    /\ Begin(t)
    /\ life.state \in {"none", "terminated", "error"}
    /\ life' = FreshServer
    /\ UNCHANGED <<registered, process, running, used, mcpCall, abandoned>>

\* LifecycleManager.remove
RemoveServer(t) ==
    /\ Begin(t)
    /\ life.state \in {"terminated", "error", "created"}
    /\ life' = [life EXCEPT !.state = "none"]
    /\ UNCHANGED <<registered, process, running, used, mcpCall, abandoned>>

\* connect(): the caller has client c in its hand, and no process yet.
Connecting(c) == [place |-> "spawning", client |-> c, process |-> NoProcess]

\* activate does not ask the table.
StartConnectingAnyway(t, c, from) ==
    /\ life' = [from EXCEPT !.state = "activating"]
    /\ mcpCall' = [mcpCall EXCEPT ![t] = Connecting(c)]

\* LifecycleManager.activate with client c in the caller's hand, up to connect's first await.
StartConnecting(t, c, from) ==
    IF "activating" \in Allowed[from.state]
    THEN /\ life' = [from EXCEPT !.state = "activating"]
         /\ mcpCall' = [mcpCall EXCEPT ![t] = Connecting(c)]
    ELSE /\ life' = from                                     \* InvalidTransitionError
         /\ UNCHANGED mcpCall

\* add_server puts a new client in place of whatever client there was.
AddServer(t, c) ==
    /\ Begin(t)
    /\ c \notin used
    /\ used' = used \cup {c}
    /\ registered' = c
    /\ StartConnecting(t, c, IF life.state = "none" THEN FreshServer ELSE life)
    /\ UNCHANGED <<process, running, abandoned>>

Activate(t, c) ==
    /\ Begin(t)
    /\ life.state # "none"
    /\ IF registered # NoClient THEN c = registered /\ UNCHANGED used
                                ELSE c \notin used /\ used' = used \cup {c}
    /\ registered' = c
    /\ StartConnecting(t, c, life)
    /\ UNCHANGED <<process, running, abandoned>>

\* connect: the process is there; whatever process the client had is no longer anybody's.
Spawned(t, p) ==
    /\ mcpCall[t].place = "spawning"
    /\ p \notin used
    /\ used' = used \cup {p}
    /\ process' = [process EXCEPT ![mcpCall[t].client] = p]
    /\ running' = running \cup {p}
    /\ mcpCall' = [mcpCall EXCEPT ![t].place = "talking"]
    /\ UNCHANGED <<life, registered, abandoned, ops>>

\* initialize, initialized and tools/list went well: mark_active.
Connected(t) ==
    /\ mcpCall[t].place = "talking"
    /\ process[mcpCall[t].client] \in running
    /\ life' = [life EXCEPT !.state = "active", !.tools = TRUE]
    /\ mcpCall' = [mcpCall EXCEPT ![t] = NoCall]
    /\ UNCHANGED <<registered, process, running, used, abandoned, ops>>

\* An error or the timeout: mark_error, and perhaps once more.  The process stays as it is; one
\* that is just being spawned is killed by asyncio.
ConnectFails(t) ==
    /\ mcpCall[t].place \in {"spawning", "talking"}
    /\ IF life.restarts < MaxRestarts
       THEN /\ life' = [life EXCEPT !.restarts = @ + 1]      \* error, then activating again
            /\ mcpCall' = [mcpCall EXCEPT ![t].place = "spawning"]
       ELSE /\ life' = [life EXCEPT !.state = "error"]
            /\ mcpCall' = [mcpCall EXCEPT ![t] = NoCall]
    /\ UNCHANGED <<registered, process, running, used, abandoned, ops>>

\* disconnect(c): SIGTERM, and wait for the process there is now.
Disconnecting(t, c, place) ==
    mcpCall' = [mcpCall EXCEPT ![t] = [place |-> place, client |-> c,
                                       process |-> IF c = NoClient THEN NoProcess ELSE process[c]]]

Pause(t) ==
    /\ Begin(t)
    /\ May("paused")
    /\ life' = [life EXCEPT !.state = "paused"]
    /\ Disconnecting(t, registered, "pausing")
    /\ UNCHANGED <<registered, process, running, used, abandoned>>

\* terminate removes the client first, and then learns whether the server can be terminated.
Terminate(t) ==
    /\ Begin(t)
    /\ registered' = NoClient
    /\ IF May("terminating")
       THEN /\ life' = [life EXCEPT !.state = "terminating"]
            /\ Disconnecting(t, registered, "terminating")
       ELSE UNCHANGED <<life, mcpCall>>
    /\ UNCHANGED <<process, running, used, abandoned>>

\* disconnect_all looks at the state first.
DisconnectAll(t) ==
    /\ Begin(t)
    /\ life.state \in {"active", "paused"}
    /\ life' = [life EXCEPT !.state = "terminating"]
    /\ registered' = NoClient
    /\ Disconnecting(t, registered, "terminating")
    /\ UNCHANGED <<process, running, used, abandoned>>

\* The process ended, or five seconds passed and the client's process, which may be another by
\* now, is killed; the client forgets it in both cases.  Of a process that had ended before,
\* terminate() raises, which is logged, and the client keeps it.
Disconnected(t) ==
    /\ mcpCall[t].place \in {"pausing", "terminating"}
    /\ LET c == mcpCall[t].client
           gone == mcpCall[t].process \notin running
       IN  \/ /\ c = NoClient \/ gone
              /\ UNCHANGED <<process, running>>
           \/ /\ c # NoClient /\ mcpCall[t].process # NoProcess
              /\ running' = running \ {process[c]} \/ (gone /\ UNCHANGED running)
              /\ process' = [process EXCEPT ![c] = NoProcess]
    /\ life' = IF mcpCall[t].place = "terminating"
               THEN [life EXCEPT !.state = "terminated", !.tools = FALSE] ELSE life
    /\ mcpCall' = [mcpCall EXCEPT ![t] = NoCall]
    /\ UNCHANGED <<registered, used, abandoned, ops>>

\* The caller is cancelled: "except Exception" does not see it.
CancelCaller(t) ==
    /\ mcpCall[t].place # "idle"
    /\ ops < MaxOps
    /\ ops' = ops + 1
    /\ abandoned' = (abandoned \/ mcpCall[t].place # "pausing")
    /\ mcpCall' = [mcpCall EXCEPT ![t] = NoCall]
    /\ UNCHANGED <<life, registered, process, running, used>>

ProcessEnds(p) ==
    /\ p \in running
    /\ running' = running \ {p}
    /\ UNCHANGED <<life, registered, process, used, mcpCall, abandoned, ops>>

McpStep(t) ==
    \/ Register(t) \/ RemoveServer(t) \/ Pause(t) \/ Terminate(t) \/ DisconnectAll(t)
    \/ Connected(t) \/ ConnectFails(t) \/ Disconnected(t) \/ CancelCaller(t)
    \/ \E c \in McpClients : AddServer(t, c) \/ Activate(t, c)
    \/ \E p \in Processes : Spawned(t, p)

McpNext == (\E t \in McpCallers : McpStep(t)) \/ \E p \in Processes : ProcessEnds(p)

McpSpec == McpInit /\ [][McpNext]_mcpVars

-----------------------------------------------------------------------------
Moving(place) == {t \in McpCallers : mcpCall[t].place \in place}

\* As long as nobody is cancelled, one caller at most connects, one at most terminates, each
\* while the life cycle says so: whatever else is called meanwhile is refused by the table
\* (lifecycle.py:97), so no answer or failure of one activation is taken for another's.
OneMover ==
    ~abandoned =>
       /\ Cardinality(Moving({"spawning", "talking"})) = IF life.state = "activating" THEN 1 ELSE 0
       /\ Cardinality(Moving({"terminating"})) = IF life.state = "terminating" THEN 1 ELSE 0

OnTheWay == Moving({"spawning", "talking", "terminating"})

Life == INSTANCE ServerLife WITH Callers <- McpCallers, state <- life.state, movers <- OnTheWay

\* Whoever is cancelled, the server is that of ServerLife: one caller takes it, and it alone
\* brings it to rest.  So mark_active, mark_error and mark_terminated, of which Connected,
\* ConnectFails and Disconnected leave out that they ask the table (lifecycle.py:97), are never
\* refused in the middle.  The other side of it: a server whose caller was cancelled, which
\* "except Exception" (lifecycle.py:230) does not see, is never at rest again.
ServerIsMoved == Life!Spec

=============================================================================
